--------------------------- MODULE FrameReceiver ---------------------------
(***************************************************************************)
(* What the infrared receiver promises the main loop, whatever the         *)
(* sampling interrupt does in between: a frame is handed over whole and    *)
(* well formed, it stays as it is until the main loop gives it back, and   *)
(* nothing is received while the sampling timer is off.                    *)
(***************************************************************************)
EXTENDS Integers

CONSTANTS
  RAW_BUFFER_LENGTH,   (* entries of irparams.rawbuf                       *)
  RECORD_GAP_TICKS     (* a longer space ends a frame                      *)

VARIABLES
  rx,         (* "Idle", "Receiving", "Complete"                           *)
  frame,      (* the complete frame: entry index |-> ticks; else NoFrame   *)
  scanning    (* the sampling timer runs                                   *)

absVars == <<rx, frame, scanning>>

NoFrame == [i \in {} |-> 0]

(***************************************************************************)
(* A frame is: the gap before it, then marks (odd indices) and spaces      *)
(* (even indices) in turn, ending with a mark.  The gap is longer than     *)
(* RECORD_GAP_TICKS; a space inside the frame is sampled after that many   *)
(* ticks at the earliest when it would have ended the frame, so it can be  *)
(* one tick longer than the limit and no more.                             *)
(***************************************************************************)
FrameLengths == {n \in 2 .. RAW_BUFFER_LENGTH : n % 2 = 0}

WellFormed(f) ==
  /\ \E n \in FrameLengths : DOMAIN f = 0 .. n - 1
  /\ f[0] > RECORD_GAP_TICKS
  /\ \A i \in DOMAIN f \ {0} : i % 2 = 0 => f[i] <= RECORD_GAP_TICKS + 1

AbsInit ==
  /\ rx = "Idle"
  /\ frame = NoFrame
  /\ scanning = FALSE

Begin ==
  /\ rx = "Idle" /\ scanning
  /\ rx' = "Receiving"
  /\ UNCHANGED <<frame, scanning>>

Complete ==
  /\ rx = "Receiving" /\ scanning
  /\ rx' = "Complete"
  /\ WellFormed(frame')
  /\ UNCHANGED scanning

GiveBack ==
  /\ rx = "Complete"
  /\ rx' = "Idle"
  /\ frame' = NoFrame
  /\ UNCHANGED scanning

SwitchScan ==
  /\ scanning' = ~scanning
  /\ UNCHANGED <<rx, frame>>

AbsNext == Begin \/ Complete \/ GiveBack \/ SwitchScan

AbsSpec == AbsInit /\ [][AbsNext]_absVars
=============================================================================
