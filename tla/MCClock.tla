------------------------------ MODULE MCClock -------------------------------
(***************************************************************************)
(* Alarms: two days of two hours of two minutes; triggers on either side   *)
(* of an hour and of midnight; two slots, and a queue that can fill.       *)
(* Motion: two samples in a tick, two ticks in a second, sensings of three *)
(* ticks and pauses of two.  Seconds: ticks of 10 ms, two between scans,   *)
(* and as many in a second as the queue takes.  The calendar is walked to  *)
(* its last year.                                                          *)
(***************************************************************************)
EXTENDS Clock

MCLevels == <<2, 3, 5>>
MCTriggers ==
  {Motion(1), Window(TRUE, 1, 2, 1), Window(TRUE, 0, 3, 0), Timeout(TRUE, 2), Timeout(TRUE, 0)}
At(on, hour, min) == [days |-> on, hour |-> hour, min |-> min]
MCTimes == {At({1}, 0, 0), At({1, 2}, 1, 0), At({2}, 1, 1)}
=============================================================================
