---------------------------- MODULE MCIrReceiver ----------------------------
(***************************************************************************)
(* A receiver with a buffer of six entries, a gap of two ticks and a tick  *)
(* counter that is clipped at four: long enough for a frame that ends by   *)
(* its gap, one that overflows, and a counter that saturates.              *)
(***************************************************************************)
EXTENDS IrReceiver

MCLength == 6
MCGap == 2
MCMaxTick == 4
=============================================================================
