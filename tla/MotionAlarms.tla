---------------------------- MODULE MotionAlarms ----------------------------
(***************************************************************************)
(* The motion sensor and the triggers that depend on it.  Everything here  *)
(* runs in interrupts that do not preempt one another: the sensor is       *)
(* sampled every 50 ms (Mid_MotionSensorHandler), sensings are counted     *)
(* every 100 ms (App_AlarmMotionTriggerHandler, SysTimer100msCall), quiet  *)
(* time every second (SysTimer1000msCall).  The main loop changes triggers *)
(* and the clock, which is whole here (see AlarmClock).                    *)
(***************************************************************************)
EXTENDS Integers, Sequences

CONSTANTS
  SAMPLES,               (* samples in 100 ms: 2                               *)
  TIME_1S_BY_100MS,      (* ticks in a second: 10                              *)
  TIME_2S_BY_100MS,      (* ticks a sensing lasts: 20                          *)
  TIME_3S_BY_100MS,      (* ticks the sensor is ignored after one: 30          *)
  Levels,                (* LEVEL_NONE, LEVEL_0 .. LEVEL_4: 4, 6, 12 .. 30     *)
  MINUTES, HOURS,        (* of an hour, of a day: 60, 24                       *)
  MAX_IR_CODE,           (* slots for triggers: 10                             *)
  Triggers,              (* the triggers the app may set                       *)
  MaxQuiet               (* bound: longer quiet times are not told apart       *)

ASSUME MotionAssumption ==
  /\ SAMPLES \in Nat \ {0} /\ TIME_1S_BY_100MS \in Nat \ {0}
  /\ TIME_2S_BY_100MS \in Nat /\ TIME_1S_BY_100MS < TIME_2S_BY_100MS
  /\ TIME_3S_BY_100MS \in Nat \ {0, 1}
  /\ Levels \in Seq(Nat \ {0}) /\ Len(Levels) > 1
  /\ \A k \in 1 .. Len(Levels) - 1 : Levels[k] < Levels[k + 1]
  /\ MINUTES \in Nat \ {0} /\ HOURS \in Nat \ {0} /\ MAX_IR_CODE \in Nat \ {0}
  /\ MaxQuiet \in Nat \ {0}
  /\ \A t \in Triggers : t.mode = "TIMEOUT" => t.ulTimeout \in 0 .. MaxQuiet

Minute == 0 .. MINUTES * HOURS - 1      (* of the day *)
(* Triggers, with what of them is read here; today: set for the day, which *)
(* stays the same in a behaviour.                                          *)
Level  == 0 .. Len(Levels) - 1
None   == [mode |-> "NONE"]
Window(today, from, to, sens) ==
  [mode |-> "WINDOW", today |-> today, from |-> from, to |-> to, sens |-> sens]
Motion(sens) == [mode |-> "MOTION", sens |-> sens]
Timeout(today, ulTimeout) == [mode |-> "TIMEOUT", today |-> today, ulTimeout |-> ulTimeout]

VARIABLES
  (* MotionSensorFlag1 *)
  START_SENSING, DISABLE, TIMEOUT_COUNT, PRE_TIMEOUT_COUNT,
  g_ubMotionCount, g_ubMotionSensorGrade,
  g_ubMotionSensorCountTime, g_ubMotionSensorDisableTime, g_ulMotionTimeOffCount,
  uuPreMinutes,         (* of App_AlarmMotionTriggerHandler                  *)
  trigger, triggerDone, (* g_atIRDataTrigger                                 *)
  now,                  (* g_tCommonTime: the minute of the day              *)
  sampled, phase,       (* samples since the last tick, ticks since the last second *)
  (* History, read by no action of the program: *)
  moved,                (* motions sampled in this sensing                   *)
  quiet,                (* seconds since the last motion that was not ignored *)
  put,                  (* slots the last tick or second has put             *)
  served,               (* timeout triggers put since that motion            *)
  shown                 (* window triggers put in this minute                *)

flags    == <<START_SENSING, DISABLE, TIMEOUT_COUNT, PRE_TIMEOUT_COUNT>>
sensing  == <<g_ubMotionCount, g_ubMotionSensorGrade>>
counters == <<g_ubMotionSensorCountTime, g_ubMotionSensorDisableTime, g_ulMotionTimeOffCount>>
table    == <<trigger, triggerDone>>
timing   == <<sampled, phase>>
history  == <<moved, quiet, put, served, shown>>
vars     == <<flags, sensing, counters, uuPreMinutes, table, now, timing, history>>

Slot == 1 .. MAX_IR_CODE
Slots(mode) == {i \in Slot : trigger[i].mode = mode}

Init ==
  /\ START_SENSING = FALSE /\ DISABLE = FALSE
  /\ TIMEOUT_COUNT = FALSE /\ PRE_TIMEOUT_COUNT = FALSE
  /\ g_ubMotionCount = 0 /\ g_ubMotionSensorGrade = 0
  /\ g_ubMotionSensorCountTime = 0 /\ g_ubMotionSensorDisableTime = 0
  /\ g_ulMotionTimeOffCount = 0 /\ uuPreMinutes = 0
  /\ trigger \in [Slot -> Triggers \union {None}] /\ triggerDone = [i \in Slot |-> FALSE]
  /\ now = 0 /\ sampled = 0 /\ phase = 0
  /\ moved = 0 /\ quiet = 0 /\ put = {} /\ served = {} /\ shown = {}

-----------------------------------------------------------------------------
(* Mid_MotionSensorHandler, every 50 ms. *)

Top == Levels[Len(Levels)]
LevelOf(count) ==
  CHOOSE k \in Level : /\ (k = 0 <=> count < Levels[1])
                       /\ (k > 0 => count <= Levels[k + 1] \/ k = Len(Levels) - 1)
                       /\ (k > 1 => count > Levels[k])

(* Above the highest level the grade stays what it is. *)
GradeAt(count) ==
  IF count \in Levels[1] .. Top THEN LevelOf(count) ELSE g_ubMotionSensorGrade

MotionSample ==
  /\ TIMEOUT_COUNT' = FALSE /\ START_SENSING' = TRUE
  /\ g_ubMotionCount' = g_ubMotionCount + 1
  /\ g_ubMotionSensorGrade' = GradeAt(g_ubMotionCount + 1)
  /\ moved' = (IF START_SENSING THEN moved ELSE 0) + 1
  /\ quiet' = 0 /\ served' = {}

QuietSample ==
  /\ g_ubMotionCount' = 0 /\ TIMEOUT_COUNT' = TRUE
  /\ UNCHANGED <<START_SENSING, g_ubMotionSensorGrade, moved, quiet, served>>

Mid_MotionSensorHandler(motion) ==
  /\ sampled < SAMPLES /\ sampled' = sampled + 1
  /\ IF motion /\ ~DISABLE THEN MotionSample
     ELSE IF ~START_SENSING THEN QuietSample
     ELSE UNCHANGED <<START_SENSING, TIMEOUT_COUNT, sensing, moved, quiet, served>>
  /\ put' = {}
  /\ UNCHANGED <<DISABLE, PRE_TIMEOUT_COUNT, counters, uuPreMinutes, table, now, phase, shown>>

-----------------------------------------------------------------------------
(* SysTimer100msCall: App_AlarmMotionTriggerHandler, then the time for     *)
(* which the sensor is ignored.                                            *)

Fits_Near(i) ==
  trigger[i].sens \in g_ubMotionSensorGrade - 1 .. g_ubMotionSensorGrade + 1
Fits(i) == trigger[i].sens = g_ubMotionSensorGrade
InWindow(i) == trigger[i].from <= now /\ now <= trigger[i].to

(* The loop looks at the window triggers of the day until one has marked   *)
(* the minute as done with.                                                *)
LookedAt_Last ==
  LET today == {i \in Slots("WINDOW") : trigger[i].today}
  IN IF uuPreMinutes = now % MINUTES THEN {} ELSE {i \in today : \A j \in today : j <= i}
LookedAt ==
  LET today == {i \in Slots("WINDOW") : trigger[i].today}
  IN IF uuPreMinutes = now % MINUTES THEN {} ELSE {i \in today : \A j \in today : i <= j}

PutDue ==
  LET due == {i \in Slots("MOTION") : Fits(i)} \union {i \in LookedAt : InWindow(i) /\ Fits(i)}
  IN /\ put' = due /\ shown' = shown \union (due \intersect Slots("WINDOW"))
     /\ uuPreMinutes' = IF LookedAt = {} THEN uuPreMinutes ELSE now % MINUTES

EndSensing ==
  /\ PutDue
  /\ START_SENSING' = FALSE /\ g_ubMotionSensorCountTime' = 0 /\ g_ubMotionSensorGrade' = 0

KeepSensing ==
  /\ put' = {}
  /\ g_ubMotionSensorCountTime' =
       IF START_SENSING THEN g_ubMotionSensorCountTime + 1 ELSE g_ubMotionSensorCountTime
  /\ UNCHANGED <<START_SENSING, g_ubMotionSensorGrade, uuPreMinutes, shown>>

SensingEnds == START_SENSING /\ g_ubMotionSensorCountTime + 1 >= TIME_2S_BY_100MS

SysTimer100msCall ==
  /\ sampled = SAMPLES /\ sampled' = 0
  /\ phase < TIME_1S_BY_100MS /\ phase' = phase + 1
  /\ IF SensingEnds THEN EndSensing ELSE KeepSensing
  /\ LET ignored == DISABLE \/ SensingEnds
         over == g_ubMotionSensorDisableTime + 1 >= TIME_3S_BY_100MS
     IN /\ DISABLE' = (ignored /\ ~over)
        /\ g_ubMotionSensorDisableTime' =
             IF ignored /\ ~over THEN g_ubMotionSensorDisableTime + 1
             ELSE IF ignored THEN 0 ELSE g_ubMotionSensorDisableTime
  /\ UNCHANGED <<TIMEOUT_COUNT, PRE_TIMEOUT_COUNT, g_ubMotionCount, g_ulMotionTimeOffCount,
                 table, now, moved, quiet, served>>

-----------------------------------------------------------------------------
(* SysTimer1000msCall: the quiet time, and App_AlarmMotionTimeOutTrigger.  *)

AtMost(n) == IF n > MaxQuiet THEN MaxQuiet ELSE n

(* Timeout triggers can go off again once motion has interrupted the quiet. *)
Rearmed_Never == triggerDone
Rearmed ==
  [i \in Slot |-> /\ triggerDone[i]
                  /\ ~(~PRE_TIMEOUT_COUNT /\ TIMEOUT_COUNT /\ trigger[i].mode = "TIMEOUT")]

TimedOut(count) ==
  {i \in Slots("TIMEOUT") : /\ trigger[i].today
                            /\ count >= trigger[i].ulTimeout /\ ~Rearmed[i]}

SysTimer1000msCall ==
  /\ phase = TIME_1S_BY_100MS /\ phase' = 0
  /\ g_ulMotionTimeOffCount' = IF TIMEOUT_COUNT THEN AtMost(g_ulMotionTimeOffCount + 1) ELSE 0
  /\ PRE_TIMEOUT_COUNT' = TIMEOUT_COUNT
  /\ LET due == TimedOut(g_ulMotionTimeOffCount')
     IN /\ put' = due
        /\ triggerDone' = [i \in Slot |-> Rearmed[i] \/ i \in due]
        /\ served' = served \union due
  /\ quiet' = AtMost(quiet + 1)
  /\ UNCHANGED <<START_SENSING, DISABLE, TIMEOUT_COUNT, sensing, g_ubMotionSensorCountTime,
                 g_ubMotionSensorDisableTime, uuPreMinutes, trigger, now, sampled, moved, shown>>

-----------------------------------------------------------------------------
(* The main loop, between interrupts. *)

SetTrigger(i, t) ==
  /\ (t = None) # (trigger[i] = None)
  /\ trigger' = [trigger EXCEPT ![i] = t]
  /\ triggerDone' = [triggerDone EXCEPT ![i] = IF t = None THEN @ ELSE FALSE]
  /\ put' = {} /\ served' = served \ {i} /\ shown' = shown \ {i}
  /\ UNCHANGED <<flags, sensing, counters, uuPreMinutes, now, timing, moved, quiet>>

NextMinute ==
  /\ now' = (now + 1) % (MINUTES * HOURS) /\ put' = {} /\ shown' = {}
  /\ UNCHANGED <<flags, sensing, counters, uuPreMinutes, table, timing, moved, quiet, served>>

Next ==
  \/ (\E motion \in BOOLEAN : Mid_MotionSensorHandler(motion))
  \/ SysTimer100msCall \/ SysTimer1000msCall
  \/ (\E i \in Slot, t \in Triggers \union {None} : SetTrigger(i, t))
  \/ NextMinute

Spec == Init /\ [][Next]_vars

-----------------------------------------------------------------------------
TypeOK ==
  /\ flags \in BOOLEAN \X BOOLEAN \X BOOLEAN \X BOOLEAN
  /\ g_ubMotionCount \in 0 .. SAMPLES * (TIME_2S_BY_100MS + 1) /\ g_ubMotionSensorGrade \in Level
  /\ g_ubMotionSensorCountTime \in 0 .. TIME_2S_BY_100MS - 1
  /\ g_ubMotionSensorDisableTime \in 0 .. TIME_3S_BY_100MS - 1
  /\ g_ulMotionTimeOffCount \in 0 .. MaxQuiet /\ uuPreMinutes \in 0 .. MINUTES - 1
  /\ trigger \in [Slot -> Triggers \union {None}] /\ triggerDone \in [Slot -> BOOLEAN]
  /\ now \in Minute /\ sampled \in 0 .. SAMPLES /\ phase \in 0 .. TIME_1S_BY_100MS
  /\ moved \in 0 .. SAMPLES * (TIME_2S_BY_100MS + 1) /\ quiet \in 0 .. MaxQuiet
  /\ put \subseteq Slot /\ served \subseteq Slot /\ shown \subseteq Slot

(* The grade is that of the motions of this sensing alone, although the    *)
(* count is cleared neither when a sensing ends nor when one begins: a     *)
(* sample in the time the sensor is ignored has to do it.                  *)
GradeOfThisSensing ==
  START_SENSING => g_ubMotionCount = moved /\ g_ubMotionSensorGrade = LevelOf(moved)

(* So a sensing that ends puts exactly the motion triggers of its own      *)
(* grade, and of the window triggers only such as have its grade too.      *)
SensingPutsItsGrade ==
  /\ [](TypeOK /\ GradeOfThisSensing)
  /\ [][START_SENSING /\ ~START_SENSING' =>
          LET fit(mode) == {i \in Slots(mode) : trigger[i].sens = LevelOf(moved)}
          IN fit("MOTION") \subseteq put' /\ put' \subseteq fit("MOTION") \union fit("WINDOW")]_vars

(* A window trigger whose window is open and whose grade is that of the    *)
(* sensing is passed over only if the minute's number was the last to be   *)
(* looked at, in this hour or another, or a trigger before it is looked at. *)
(* It goes off at most once a minute, however many sensings end in it.     *)
WindowPassedOver ==
  [][/\ START_SENSING /\ ~START_SENSING' =>
          \A i \in Slots("WINDOW") :
            \/ i \in put' \/ ~trigger[i].today \/ ~InWindow(i) \/ trigger[i].sens # LevelOf(moved)
            \/ uuPreMinutes = now % MINUTES
            \/ \E j \in Slots("WINDOW") : j < i /\ trigger[j].today
     /\ \A i \in put' : trigger[i].mode = "WINDOW" => i \notin shown]_vars

(* A timeout trigger goes off only after its seconds of quiet, where quiet *)
(* includes the motions that are ignored after a sensing: no other motion  *)
(* falls between two looks at TIMEOUT_COUNT.  It goes off once in a quiet  *)
(* time, however long, and in each that is long enough: what was done in   *)
(* an earlier one is not taken for done in this one.  Only a trigger of no *)
(* seconds, which the app may send, goes off in the midst of motion too,   *)
(* and then again in the quiet after it.                                   *)
TimesOutOncePerQuiet ==
  [][/\ \A i \in put' : trigger[i].mode = "TIMEOUT" =>
          quiet' >= trigger[i].ulTimeout /\ (i \in served => trigger[i].ulTimeout = 0)
     /\ phase' = 0 /\ phase # 0 =>
          \A i \in Slots("TIMEOUT") :
            /\ trigger[i].today /\ trigger[i].ulTimeout > 0
            /\ g_ulMotionTimeOffCount' >= trigger[i].ulTimeout
            => i \in served']_vars
=============================================================================
