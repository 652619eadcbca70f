------------------------------ MODULE MCPanel ------------------------------
(***************************************************************************)
(* The link: three requests, as in the program, and three events waiting.  *)
(* Keys: a click is two scans, three seconds are five, and the counters    *)
(* wrap around at twelve.  LEDs: four patterns, each with its own times    *)
(* and its own number of flashes; each may cut across the one before it.   *)
(***************************************************************************)
EXTENDS Panel
=============================================================================
