----------------------------- MODULE MCIrStore -----------------------------
(***************************************************************************)
(* Two entries per table, so that an ID can be held twice and a table can  *)
(* be full; one ID and one code.                                           *)
(***************************************************************************)
EXTENDS IrStore

CONSTANT sig

MCIDs == {1}
MCCodes == {sig}
=============================================================================
