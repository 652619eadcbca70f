-------------------------- MODULE MCTriggerCommands --------------------------
(***************************************************************************)
(* Two slots and three IDs: a table can fill.  Texts of each kind: created *)
(* by time, by window, by motion, with a part too few, not well formed;    *)
(* and deleted.  Any may be written to either characteristic.              *)
(***************************************************************************)
EXTENDS TriggerCommands

Words(verb, id, parts, time1, good) ==
  [verb |-> verb, id |-> id, parts |-> parts, time1 |-> time1, good |-> good]
MCTexts ==
  {Words("c", 1, 5, "digits", TRUE), Words("c", 2, 5, "hex", TRUE),
   Words("c", 2, 6, "digits", TRUE), Words("c", 1, 3, "digits", TRUE),
   Words("c", 3, 3, "digits", TRUE), Words("c", 3, 4, "digits", TRUE),
   Words("c", 1, 3, "digits", FALSE),
   Words("d", 1, 2, "digits", TRUE), Words("d", 2, 2, "digits", TRUE)}
=============================================================================
