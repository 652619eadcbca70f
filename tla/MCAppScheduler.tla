--------------------------- MODULE MCAppScheduler ---------------------------
(***************************************************************************)
(* Three entries and one to spare, so that the indices wrap around after   *)
(* four puts; two events that fit and one that is too long; interrupts of  *)
(* two priorities.                                                         *)
(***************************************************************************)
EXTENDS AppScheduler

CONSTANTS e1, e2, long

MCEvents == {e1, e2, long}
MCLong == {long}
=============================================================================
