---------------------------- MODULE TimerEvents -----------------------------
(***************************************************************************)
(* The work the timers hand to the main loop: a scan of the keys every     *)
(* 20 ms (SysTimer10msCall) and a second for the clock every 1000 ms       *)
(* (SysTimer1000msCall), through the scheduler's queue.  What finds the    *)
(* queue full is dropped: a second that is dropped is never made up for,   *)
(* and the clock by which the triggers go is late for good.                *)
(***************************************************************************)
EXTENDS Integers, Sequences

CONSTANTS
  TIME_20MS_BY_10MS,     (* 10 ms ticks between scans: 2                       *)
  TIME_1S_BY_10MS,       (* 10 ms ticks in a second: 100                       *)
  SCHED_QUEUE_SIZE,      (* 24                                                 *)
  MaxOthers              (* bound: other events while the queue is not empty   *)

(* What is assumed of the constants. *)
TimerAssumption ==
  /\ TIME_20MS_BY_10MS \in Nat \ {0} /\ SCHED_QUEUE_SIZE \in Nat \ {0} /\ MaxOthers \in Nat
  /\ TIME_1S_BY_10MS \in Nat /\ TIME_20MS_BY_10MS * SCHED_QUEUE_SIZE <= TIME_1S_BY_10MS

VARIABLES
  tick,             (* 10 ms ticks since the last second                      *)
  ubCount20ms,
  queue,            (* "key", "rtc" and "other" events, oldest first          *)
  (* History, read by no action of the program: *)
  busy,             (* ticks since the queue was empty                        *)
  others,           (* other events since then                                *)
  overran,          (* the main loop has been busy for too long               *)
  behind            (* seconds that have passed and the clock has not counted *)

history == <<busy, others, overran, behind>>
vars == <<tick, ubCount20ms, queue, history>>

Init ==
  /\ tick = 0 /\ ubCount20ms = 0 /\ queue = <<>>
  /\ busy = 0 /\ others = 0 /\ overran = FALSE /\ behind = 0

(* app_sched_event_put, its result ignored. *)
Put(event) == queue' = IF Len(queue) < SCHED_QUEUE_SIZE THEN Append(queue, event) ELSE queue

(* With k other events, the queue holds what the timers put in this time.  *)
Patience(k) == TIME_20MS_BY_10MS * (SCHED_QUEUE_SIZE - 1 - k)

CountsOn_TooLate == ubCount20ms < TIME_20MS_BY_10MS - 1
CountsOn == ubCount20ms < TIME_20MS_BY_10MS

SysTimer10msCall ==
  /\ tick < TIME_1S_BY_10MS /\ tick' = tick + 1
  /\ IF CountsOn
     THEN ubCount20ms' = ubCount20ms + 1 /\ UNCHANGED queue
     ELSE ubCount20ms' = 1 /\ Put("key")
  /\ busy' = IF queue' = <<>> THEN 0
             ELSE IF busy > Patience(0) THEN busy ELSE busy + 1
  /\ overran' = (overran \/ busy' > Patience(others))
  /\ UNCHANGED <<others, behind>>

SysTimer1000msCall ==
  /\ tick = TIME_1S_BY_10MS /\ tick' = 0
  /\ Put("rtc") /\ behind' = IF behind < SCHED_QUEUE_SIZE THEN behind + 1 ELSE behind
  /\ UNCHANGED <<ubCount20ms, busy, others, overran>>

(* A command or an alarm. *)
OtherPut ==
  /\ others < MaxOthers /\ others' = others + 1
  /\ Put("other")
  /\ overran' = (overran \/ busy > Patience(others'))
  /\ UNCHANGED <<tick, ubCount20ms, busy, behind>>

(* app_sched_execute, event by event. *)
ExecuteEvent ==
  /\ queue # <<>> /\ queue' = Tail(queue)
  /\ behind' = IF Head(queue) = "rtc" THEN behind - 1 ELSE behind
  /\ busy' = IF queue' = <<>> THEN 0 ELSE busy
  /\ others' = IF queue' = <<>> THEN 0 ELSE others
  /\ UNCHANGED <<tick, ubCount20ms, overran>>

Next == SysTimer10msCall \/ SysTimer1000msCall \/ OtherPut \/ ExecuteEvent

Spec == Init /\ [][Next]_vars

-----------------------------------------------------------------------------
TypeOK ==
  /\ tick \in 0 .. TIME_1S_BY_10MS /\ ubCount20ms \in 0 .. TIME_20MS_BY_10MS
  /\ queue \in Seq({"key", "rtc", "other"}) /\ Len(queue) <= SCHED_QUEUE_SIZE
  /\ busy \in 0 .. Patience(0) + 1 /\ others \in 0 .. MaxOthers
  /\ overran \in BOOLEAN /\ behind \in 0 .. SCHED_QUEUE_SIZE

(* The clock counts every second and is never more than one behind, as     *)
(* long as the main loop empties the queue every 460 ms, less 20 ms for    *)
(* each command or alarm that comes meanwhile.                             *)
ClockKeepsTime == behind <= 1 \/ overran
=============================================================================
