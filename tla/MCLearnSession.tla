--------------------------- MODULE MCLearnSession ---------------------------
(***************************************************************************)
(* One entry of the table, so that it is full after one code; one code;    *)
(* two ticks of waiting and one of delay.                                  *)
(***************************************************************************)
EXTENDS LearnSession

CONSTANT sig

MCIDs == {1}
MCCodes == {sig}
=============================================================================
