---------------------------- MODULE Clock_proofs ----------------------------
(***************************************************************************)
(* Proofs about the parts that go by the time: MotionAlarms, for all       *)
(* levels, times and triggers; TimerEvents, for timers of any periods;     *)
(* AlarmClock, for hours, days and weeks of any length, all triggers and   *)
(* every size of the scheduler's queue; what follows for Clock, of which   *)
(* these are the parts; and the conversions of Calendar, for every day.    *)
(*                                                                         *)
(* Motion.  The invariant says what the interrupts leave to each other.    *)
(* SensingInv: while a sensing lasts, the sensor is not ignored, and count *)
(* and grade are those of its motions; after it the count is cleared,      *)
(* except before the first sample of the time in which the sensor is       *)
(* ignored.  ShownInv: a minute in which a window trigger has gone off has *)
(* been looked at.  QuietInv: the quiet time counted before a sensing is   *)
(* forgotten when it ends, for a sensing lasts longer than a second; so    *)
(* the count is never more than the quiet there has been.  ServedInv: what *)
(* has gone off since the last motion is marked as done, and stays so      *)
(* until the next.                                                         *)
(*                                                                         *)
(* Seconds.  While the main loop keeps up, at most one second waits in the *)
(* queue, and it came within the ticks that the queue has been standing    *)
(* for; what the scan of the keys has put is bounded by those ticks, so    *)
(* that there is room for a second when it comes.                          *)
(*                                                                         *)
(* One-time triggers.  The invariant relates the minute by which the       *)
(* interrupt knows that it has looked through the triggers to what the     *)
(* minute owes and has given: the stored minute is that of the clock at    *)
(* every moment; a tick that has seen the minute has left its number as    *)
(* the one looked through; what is owed is due by the table, and once      *)
(* looked for either put or excused; and nothing has rung before the look. *)
(* A minute's number differs from that of the minute before it, so the     *)
(* next minute is looked at anew.                                          *)
(*                                                                         *)
(* Days.  A date's number is a sum of quotients of its year and month.     *)
(* The walk adds one to it, through every kind of year; and each division  *)
(* of the conversions leaves a remainder that is proved to be in range.    *)
(***************************************************************************)
EXTENDS Clock, FiniteSetTheorems, WellFoundedInduction, TLAPS

CountType ==
  /\ g_ubMotionCount \in Nat /\ g_ubMotionSensorGrade \in Level
  /\ g_ubMotionSensorCountTime \in 0 .. TIME_2S_BY_100MS - 1
  /\ g_ubMotionSensorDisableTime \in 0 .. TIME_3S_BY_100MS - 1
  /\ g_ulMotionTimeOffCount \in 0 .. MaxQuiet
  /\ sampled \in 0 .. SAMPLES /\ phase \in 0 .. TIME_1S_BY_100MS
  /\ moved \in 0 .. SAMPLES * (TIME_2S_BY_100MS + 1) /\ quiet \in 0 .. MaxQuiet
TimeType == uuPreMinutes \in 0 .. MINUTES - 1 /\ now \in Minute
FlagType ==
  /\ START_SENSING \in BOOLEAN /\ DISABLE \in BOOLEAN
  /\ TIMEOUT_COUNT \in BOOLEAN /\ PRE_TIMEOUT_COUNT \in BOOLEAN
TableType ==
  /\ trigger \in [Slot -> Triggers \union {None}] /\ triggerDone \in [Slot -> BOOLEAN]
  /\ put \subseteq Slot /\ served \subseteq Slot /\ shown \subseteq Slot
Types == CountType /\ TimeType /\ FlagType /\ TableType

SensingInv ==
  /\ DISABLE => g_ubMotionSensorDisableTime > 0
  /\ ~DISABLE => g_ubMotionSensorDisableTime = 0
  /\ START_SENSING =>
       /\ ~DISABLE /\ ~TIMEOUT_COUNT
       /\ moved > 0 /\ moved <= sampled + SAMPLES * g_ubMotionSensorCountTime
       /\ g_ubMotionCount = moved /\ g_ubMotionSensorGrade = LevelOf(moved)
  /\ ~START_SENSING =>
       /\ g_ubMotionSensorCountTime = 0 /\ g_ubMotionSensorGrade = 0
       /\ g_ubMotionCount = 0 \/ (DISABLE /\ sampled = 0)
       /\ g_ubMotionCount <= SAMPLES * (TIME_2S_BY_100MS + 1)

ShownInv == shown # {} => uuPreMinutes = now % MINUTES

TimeoutSlots == Slots("TIMEOUT")
QuietInv ==
  /\ START_SENSING =>
       \/ g_ubMotionSensorCountTime <= phase
       \/ ~PRE_TIMEOUT_COUNT /\ g_ulMotionTimeOffCount = 0
  /\ ~START_SENSING => g_ulMotionTimeOffCount <= quiet

ServedInv ==
  /\ \A i \in TimeoutSlots : i \in served /\ trigger[i].ulTimeout > 0 =>
       triggerDone[i] /\ PRE_TIMEOUT_COUNT /\ TIMEOUT_COUNT
  /\ ~START_SENSING /\ PRE_TIMEOUT_COUNT =>
       \A i \in TimeoutSlots : triggerDone[i] => i \in served
MotionInv == Types /\ SensingInv /\ ShownInv /\ QuietInv /\ ServedInv

-----------------------------------------------------------------------------
(* Levels. *)

(* A set of naturals that is not empty has a least element.                *)
LEMMA Least ==
  ASSUME NEW S, S \subseteq Nat, S # {} PROVE \E i \in S : \A j \in S : i <= j
<1> DEFINE R == OpToRel(<, Nat)
<1> HIDE DEF R
<1>1. IsWellFoundedOn(R, Nat)
  BY NatLessThanWellFounded DEF R
<1>2. \A x, y \in Nat : ~(<<y, x>> \in R) => x <= y
  <2> SUFFICES ASSUME NEW x \in Nat, NEW y \in Nat, y < x PROVE <<y, x>> \in R
    OBVIOUS
  <2> QED BY Zenon DEF OpToRel, R
<1>3. \E x \in S : \A y \in S : ~(<<y, x>> \in R)
  BY <1>1, WFMin, Zenon
<1> QED BY <1>2, <1>3

LEMMA LevelNumbers ==
  /\ Len(Levels) \in Nat /\ Len(Levels) > 1
  /\ \A k \in 1 .. Len(Levels) : Levels[k] \in Nat \ {0}
  BY MotionAssumption

LEMMA LevelsRise ==
  ASSUME NEW i \in 1 .. Len(Levels), NEW j \in 1 .. Len(Levels), i < j
  PROVE  Levels[i] < Levels[j]
<1> DEFINE n == Len(Levels)
           bad == {k \in 1 .. n : i < k /\ ~(Levels[i] < Levels[k])}
<1>1. n \in Nat /\ \A k \in 1 .. n : Levels[k] \in Nat
  BY LevelNumbers
<1>2. \A k \in 1 .. n : k > 1 => Levels[k - 1] < Levels[k]
  <2> TAKE k \in 1 .. n
  <2> HAVE k > 1
  <2>1. k - 1 \in 1 .. n - 1 /\ k - 1 + 1 = k
    BY <1>1
  <2>2. \A l \in 1 .. n - 1 : Levels[l] < Levels[l + 1]
    BY MotionAssumption
  <2>3. Levels[k - 1] < Levels[k - 1 + 1]
    BY <2>1, <2>2, Zenon
  <2> QED BY <2>1, <2>3
<1>3. CASE bad # {}
  <2>1. PICK k \in bad : \A l \in bad : k <= l
    <3>1. bad \subseteq Nat
      BY <1>1
    <3> HIDE DEF bad
    <3> QED BY <1>3, <3>1, Least
  <2>2. k \in 1 .. n /\ i < k /\ k - 1 \in 1 .. n /\ k - 1 \notin bad
    BY <1>1, <2>1
  <2>3. Levels[i] <= Levels[k - 1]
    BY <1>1, <2>2
  <2>4. Levels[k - 1] < Levels[k]
    BY <1>2, <2>2
  <2> QED BY <1>1, <2>1, <2>2, <2>3, <2>4
<1> QED BY <1>3

(* What LevelOf asks of a level. *)
IsLevelOf(k, count) ==
  /\ k = 0 <=> count < Levels[1]
  /\ k > 0 => count <= Levels[k + 1] \/ k = Len(Levels) - 1
  /\ k > 1 => count > Levels[k]

(* A count has a level.                                                    *)
LEMMA LevelExists == ASSUME NEW count \in Nat PROVE \E k \in Level : IsLevelOf(k, count)
<1> DEFINE n == Len(Levels)
           S == {k \in 1 .. n - 1 : count <= Levels[k + 1] \/ k = n - 1}
<1>1. n \in Nat /\ n > 1 /\ \A k \in 1 .. n : Levels[k] \in Nat
  BY LevelNumbers
<1>2. CASE count < Levels[1]
  <2>1. 0 \in Level /\ IsLevelOf(0, count)
    BY <1>1, <1>2 DEF Level, IsLevelOf
  <2> QED BY <2>1
<1>3. CASE ~(count < Levels[1])
  <2>1. n - 1 \in S
    BY <1>1
  <2>2. PICK k \in S : \A l \in S : k <= l
    <3>1. S \subseteq Nat
      BY <1>1
    <3> HIDE DEF S
    <3> QED BY <2>1, <3>1, Least
  <2>3. k \in 1 .. n - 1 /\ (count <= Levels[k + 1] \/ k = n - 1)
    BY <2>2
  <2>4. ASSUME k > 1 PROVE count > Levels[k]
    <3>1. k - 1 \in 1 .. n - 1 /\ k - 1 \notin S
      BY <1>1, <2>2, <2>3, <2>4
    <3>2. k - 1 + 1 = k /\ k \in 1 .. n
      BY <1>1, <2>3
    <3> QED BY <1>1, <3>1, <3>2
  <2>5. k \in Level /\ k # 0
    BY <1>1, <2>3 DEF Level
  <2>6. IsLevelOf(k, count)
    <3>1. k \in Nat /\ k > 0
      BY <1>1, <2>3
    <3> HIDE DEF S
    <3> QED BY <1>3, <2>3, <2>4, <2>5, <3>1, Zenon DEF IsLevelOf
  <2> QED BY <2>5, <2>6
<1> QED BY <1>2, <1>3

LEMMA LevelFits ==
  ASSUME NEW count \in Nat
  PROVE  LevelOf(count) \in Level /\ IsLevelOf(LevelOf(count), count)
  BY LevelExists, Zenon DEF LevelOf, IsLevelOf

LEMMA NoLevel ==
  ASSUME NEW count \in Nat, count < Levels[1] PROVE LevelOf(count) = 0
  BY LevelFits DEF IsLevelOf

(* The highest level goes on for ever.                                     *)
LEMMA TopLevel ==
  ASSUME NEW count \in Nat, count >= Top PROVE LevelOf(count) = Len(Levels) - 1
<1> DEFINE n == Len(Levels)
           k == LevelOf(count)
<1>1. n \in Nat /\ n > 1 /\ \A l \in 1 .. n : Levels[l] \in Nat
  BY LevelNumbers
<1>2. k \in Level /\ IsLevelOf(k, count)
  BY LevelFits
<1>3. \A l \in 1 .. n : l < n => Levels[l] < Top
  BY <1>1, LevelsRise DEF Top
<1>4. Top \in Nat /\ ~(count < Levels[1])
  BY <1>1, <1>3 DEF Top
<1> HIDE DEF k
<1>5. k \in 1 .. n - 1
  BY <1>1, <1>2, <1>4 DEF IsLevelOf, Level
<1>6. ASSUME k < n - 1 PROVE FALSE
  <2>1. k + 1 \in 1 .. n /\ k + 1 < n
    BY <1>1, <1>5, <1>6
  <2>2. count <= Levels[k + 1]
    BY <1>1, <1>2, <1>5, <1>6 DEF IsLevelOf
  <2>3. Levels[k + 1] < Top /\ Levels[k + 1] \in Nat
    BY <1>1, <1>3, <2>1
  <2> QED BY <1>4, <2>2, <2>3
<1> QED BY <1>1, <1>5, <1>6 DEF k

(* Motion by motion, the grade stays the level of the count.               *)
LEMMA GradeGoesOn ==
  ASSUME NEW count \in Nat, g_ubMotionSensorGrade = LevelOf(count)
  PROVE  GradeAt(count + 1) = LevelOf(count + 1)
<1>1. Levels[1] \in Nat /\ Top \in Nat
  BY LevelNumbers DEF Top
<1>2. CASE count + 1 \in Levels[1] .. Top
  BY <1>2 DEF GradeAt
<1>3. CASE count + 1 < Levels[1]
  <2>1. LevelOf(count) = 0 /\ LevelOf(count + 1) = 0
    BY <1>1, <1>3, NoLevel
  <2>2. count + 1 \notin Levels[1] .. Top
    BY <1>1, <1>3
  <2> QED BY <2>1, <2>2, Zenon DEF GradeAt
<1>4. CASE count + 1 > Top
  <2>1. LevelOf(count) = LevelOf(count + 1)
    BY <1>1, <1>4, TopLevel
  <2>2. count + 1 \notin Levels[1] .. Top
    BY <1>1, <1>4
  <2> QED BY <2>1, <2>2, Zenon DEF GradeAt
<1> QED BY <1>1, <1>2, <1>3, <1>4

-----------------------------------------------------------------------------
(* Types. *)

LEMMA Assumed ==
  /\ SAMPLES \in Nat \ {0} /\ TIME_1S_BY_100MS \in Nat \ {0} /\ TIME_2S_BY_100MS \in Nat
  /\ TIME_1S_BY_100MS < TIME_2S_BY_100MS /\ TIME_3S_BY_100MS \in Nat \ {0, 1}
  /\ MINUTES \in Nat \ {0} /\ HOURS \in Nat \ {0} /\ MaxQuiet \in Nat \ {0}
  BY MotionAssumption

(* The samples of a sensing that has lasted for some ticks. *)
LEMMA Samples ==
  ASSUME NEW ticks \in 0 .. TIME_2S_BY_100MS - 1
  PROVE  /\ SAMPLES * ticks \in Nat
         /\ SAMPLES * (ticks + 1) = SAMPLES * ticks + SAMPLES
         /\ SAMPLES * ticks + SAMPLES <= SAMPLES * (TIME_2S_BY_100MS + 1)
<1>1. SAMPLES \in Nat /\ TIME_2S_BY_100MS \in Nat /\ ticks \in Nat
  BY Assumed
<1>2. \A s, m, n \in Nat : m <= n => s * m \in Nat /\ s * n \in Nat /\ s * m <= s * n
  OBVIOUS
<1>3. SAMPLES * (ticks + 1) <= SAMPLES * (TIME_2S_BY_100MS + 1)
  BY <1>1, <1>2
<1> QED BY <1>1, <1>3

(* Minutes and their numbers in the hour. *)
LEMMA MinuteNumbers ==
  /\ MINUTES * HOURS \in Nat \ {0}
  /\ \A m \in Nat : m % MINUTES \in 0 .. MINUTES - 1 /\ m % (MINUTES * HOURS) \in Minute
<1>1. MINUTES * HOURS \in Nat \ {0}
  BY Assumed
<1>2. \A m, n \in Nat : n > 0 => m % n \in 0 .. n - 1
  OBVIOUS
<1> QED BY <1>1, <1>2, Assumed DEF Minute

LEMMA InitMotion == Init => MotionInv
<1> SUFFICES ASSUME Init PROVE MotionInv
  OBVIOUS
<1>1. 0 \in Level
  BY LevelNumbers DEF Level
<1>2. CountType
  BY <1>1, Assumed, Samples DEF Init, CountType
<1>3. TimeType
  BY MinuteNumbers, Assumed DEF Init, TimeType, Minute
<1>4. FlagType
  BY Zenon DEF Init, FlagType
<1>5. TableType
  BY DEF Init, TableType
<1>6. SensingInv
  BY <1>2, Samples, Assumed DEF Init, SensingInv, CountType
<1>7. ShownInv
  BY DEF Init, ShownInv
<1>8. QuietInv
  BY DEF Init, QuietInv
<1>9. ServedInv
  BY DEF Init, ServedInv
<1> QED BY <1>2, <1>3, <1>4, <1>5, <1>6, <1>7, <1>8, <1>9 DEF MotionInv, Types

(* What a tick does to the time in which the sensor is ignored.            *)
LEMMA IgnoredTick ==
  ASSUME Types, SensingInv, SysTimer100msCall
  PROVE  /\ SensingEnds => DISABLE' /\ g_ubMotionSensorDisableTime' = 1
         /\ ~SensingEnds /\ ~DISABLE => ~DISABLE' /\ g_ubMotionSensorDisableTime' = 0
         /\ DISABLE =>
              \/ DISABLE' /\ g_ubMotionSensorDisableTime' = g_ubMotionSensorDisableTime + 1
              \/ ~DISABLE' /\ g_ubMotionSensorDisableTime' = 0
         /\ DISABLE' \in BOOLEAN
         /\ g_ubMotionSensorDisableTime' \in 0 .. TIME_3S_BY_100MS - 1
<1> DEFINE ignored == DISABLE \/ SensingEnds
           over == g_ubMotionSensorDisableTime + 1 >= TIME_3S_BY_100MS
<1>1. /\ DISABLE' = (ignored /\ ~over)
      /\ g_ubMotionSensorDisableTime' =
           IF ignored /\ ~over THEN g_ubMotionSensorDisableTime + 1
           ELSE IF ignored THEN 0 ELSE g_ubMotionSensorDisableTime
  BY DEF SysTimer100msCall
<1>2. /\ DISABLE => g_ubMotionSensorDisableTime > 0
      /\ ~DISABLE => g_ubMotionSensorDisableTime = 0
      /\ SensingEnds => ~DISABLE
  BY DEF SensingInv, SensingEnds
<1>3. g_ubMotionSensorDisableTime \in 0 .. TIME_3S_BY_100MS - 1 /\ DISABLE \in BOOLEAN
  BY DEF Types, CountType, FlagType
<1>4. DISABLE' \in BOOLEAN
  BY <1>1, Zenon
<1>5. CASE ignored /\ ~over
  <2>1. DISABLE' /\ g_ubMotionSensorDisableTime' = g_ubMotionSensorDisableTime + 1
    BY <1>1, <1>5, Zenon
  <2>2. g_ubMotionSensorDisableTime + 1 \in 0 .. TIME_3S_BY_100MS - 1
    BY <1>3, <1>5, Assumed
  <2> QED BY <1>2, <1>5, <2>1, <2>2
<1>6. CASE ignored /\ over
  <2>1. ~DISABLE' /\ g_ubMotionSensorDisableTime' = 0
    BY <1>1, <1>6, Zenon
  <2>2. ~SensingEnds
    BY <1>2, <1>6, Assumed
  <2> QED BY <1>4, <1>6, <2>1, <2>2, Assumed
<1>7. CASE ~ignored
  <2>1. ~DISABLE' /\ g_ubMotionSensorDisableTime' = g_ubMotionSensorDisableTime
    BY <1>1, <1>7, Zenon
  <2> QED BY <1>2, <1>3, <1>4, <1>7, <2>1
<1> QED BY <1>5, <1>6, <1>7

(* What a sample does to a sensing. *)
LEMMA SampleEffect ==
  ASSUME Types, SensingInv, NEW motion \in BOOLEAN, Mid_MotionSensorHandler(motion)
  PROVE  /\ sampled < SAMPLES /\ sampled' = sampled + 1
         /\ \/ MotionSample /\ ~DISABLE
            \/ QuietSample /\ ~START_SENSING
            \/ START_SENSING /\ UNCHANGED <<START_SENSING, TIMEOUT_COUNT, sensing, moved, quiet,
                                            served>>
         /\ put' = {}
         /\ UNCHANGED <<DISABLE, PRE_TIMEOUT_COUNT, counters, uuPreMinutes, table, now, phase,
                        shown>>
  BY Zenon DEF Mid_MotionSensorHandler

(* Steps by which no counter of the sensor changes. *)
Elsewhere ==
  UNCHANGED <<flags, sensing, g_ubMotionSensorCountTime, g_ubMotionSensorDisableTime,
              g_ulMotionTimeOffCount, sampled, phase, moved, quiet>>

LEMMA LoopIsElsewhere ==
  /\ \A i \in Slot, t \in Triggers \union {None} : SetTrigger(i, t) => Elsewhere
  /\ NextMinute \/ UNCHANGED vars => Elsewhere
  BY Zenon DEF SetTrigger, NextMinute, vars, Elsewhere, counters, timing, history

LEMMA NextCountType == ASSUME Types, SensingInv, [Next]_vars PROVE CountType'
<1>1. CountType
  BY DEF Types
<1> USE <1>1
<1>2. CASE \E motion \in BOOLEAN : Mid_MotionSensorHandler(motion)
  <2>1. /\ sampled < SAMPLES /\ sampled' = sampled + 1
        /\ UNCHANGED <<counters, phase>>
        /\ \/ MotionSample
           \/ QuietSample
           \/ START_SENSING /\ UNCHANGED <<sensing, moved, quiet>>
    BY <1>2, Zenon DEF Mid_MotionSensorHandler
  <2>2. sampled' \in 0 .. SAMPLES /\ UNCHANGED <<counters, phase>>
    BY <2>1, Assumed DEF CountType
  <2>3. CASE MotionSample
    <3>1. /\ g_ubMotionCount' = g_ubMotionCount + 1 /\ quiet' = 0
          /\ g_ubMotionSensorGrade' = GradeAt(g_ubMotionCount + 1)
          /\ moved' = (IF START_SENSING THEN moved ELSE 0) + 1
      BY <2>3 DEF MotionSample
    <3>2. g_ubMotionSensorGrade' \in Level
      <4>1. g_ubMotionCount + 1 \in Nat
        BY DEF CountType
      <4> QED BY <3>1, <4>1, LevelFits DEF GradeAt, CountType
    <3>3. moved' \in 0 .. SAMPLES * (TIME_2S_BY_100MS + 1)
      <4>1. CASE START_SENSING
        <5>1. moved <= sampled + SAMPLES * g_ubMotionSensorCountTime /\ moved' = moved + 1
          BY <3>1, <4>1 DEF SensingInv
        <5>2. SAMPLES * g_ubMotionSensorCountTime \in Nat
          BY Samples DEF CountType
        <5>3. moved' <= SAMPLES * g_ubMotionSensorCountTime + SAMPLES
          BY <2>1, <5>1, <5>2, Assumed DEF CountType
        <5>4. SAMPLES * g_ubMotionSensorCountTime + SAMPLES <= SAMPLES * (TIME_2S_BY_100MS + 1)
          BY Samples DEF CountType
        <5> DEFINE most == SAMPLES * (TIME_2S_BY_100MS + 1)
                   whole == SAMPLES * g_ubMotionSensorCountTime
        <5>5. most \in Nat
          BY Assumed
        <5>6. moved' <= whole + SAMPLES /\ whole + SAMPLES <= most /\ whole \in Nat
          BY <5>2, <5>3, <5>4
        <5>7. moved \in Nat
          BY DEF CountType
        <5> HIDE DEF most, whole
        <5>8. moved' \in 0 .. most
          BY <5>1, <5>5, <5>6, <5>7, Assumed
        <5> QED BY <5>8 DEF most
      <4>2. CASE ~START_SENSING
        <5>1. moved' = 1
          BY <3>1, <4>2
        <5>2. SAMPLES * 0 + SAMPLES <= SAMPLES * (TIME_2S_BY_100MS + 1)
          BY Samples, Assumed
        <5> QED BY <5>1, <5>2, Assumed
      <4> QED BY <4>1, <4>2
    <3> QED BY <2>2, <3>1, <3>2, <3>3, Assumed DEF CountType, counters
  <2>4. CASE QuietSample
    BY <2>2, <2>4 DEF CountType, QuietSample, counters
  <2>5. CASE UNCHANGED <<sensing, moved, quiet>>
    BY <2>2, <2>5 DEF CountType, counters, sensing
  <2> QED BY <2>1, <2>3, <2>4, <2>5
<1>3. CASE SysTimer100msCall
  <2>1. /\ phase < TIME_1S_BY_100MS /\ phase' = phase + 1 /\ sampled' = 0
        /\ UNCHANGED <<g_ubMotionCount, g_ulMotionTimeOffCount, moved, quiet>>
        /\ IF SensingEnds THEN EndSensing ELSE KeepSensing
    BY <1>3 DEF SysTimer100msCall
  <2>2. g_ubMotionSensorDisableTime' \in 0 .. TIME_3S_BY_100MS - 1
    BY <1>3, IgnoredTick
  <2>3. g_ubMotionSensorGrade' \in Level
    BY <2>1, LevelNumbers DEF EndSensing, KeepSensing, CountType, Level
  <2>4. g_ubMotionSensorCountTime' \in 0 .. TIME_2S_BY_100MS - 1
    BY <2>1, Assumed DEF EndSensing, KeepSensing, CountType, SensingEnds
  <2> QED BY <2>1, <2>2, <2>3, <2>4, Assumed DEF CountType
<1>4. CASE SysTimer1000msCall
  <2>1. /\ phase' = 0 /\ quiet' = AtMost(quiet + 1)
        /\ g_ulMotionTimeOffCount' = IF TIMEOUT_COUNT THEN AtMost(g_ulMotionTimeOffCount + 1) ELSE 0
        /\ UNCHANGED <<sensing, g_ubMotionSensorCountTime, g_ubMotionSensorDisableTime, sampled,
                       moved>>
    BY <1>4 DEF SysTimer1000msCall
  <2>2. \A n \in Nat : AtMost(n) \in 0 .. MaxQuiet
    BY Assumed DEF AtMost
  <2>3. quiet' \in 0 .. MaxQuiet
    BY <2>1, <2>2 DEF CountType
  <2>4. g_ulMotionTimeOffCount' \in 0 .. MaxQuiet
    BY <2>1, <2>2, Assumed DEF CountType
  <2> QED BY <2>1, <2>3, <2>4, Assumed DEF CountType, sensing
<1>5. CASE Elsewhere
  BY <1>5 DEF Elsewhere, CountType, sensing
<1> QED BY <1>2, <1>3, <1>4, <1>5, LoopIsElsewhere, Zenon DEF Next

LEMMA NextTimeType == ASSUME Types, [Next]_vars PROVE TimeType'
<1>1. TimeType /\ \A m \in Minute : m \in Nat /\ m + 1 \in Nat
  BY MinuteNumbers DEF Types, Minute
<1>2. now % MINUTES \in 0 .. MINUTES - 1
  BY <1>1, MinuteNumbers DEF TimeType
<1>3. CASE SysTimer100msCall
  <2>1. UNCHANGED now /\ uuPreMinutes' \in {uuPreMinutes, now % MINUTES}
    BY <1>3 DEF SysTimer100msCall, EndSensing, KeepSensing, PutDue
  <2> QED BY <1>1, <1>2, <2>1 DEF TimeType
<1>4. CASE NextMinute
  <2>1. UNCHANGED uuPreMinutes /\ now' = (now + 1) % (MINUTES * HOURS)
    BY <1>4 DEF NextMinute
  <2>2. now' \in Minute
    BY <1>1, <2>1, MinuteNumbers DEF TimeType
  <2> QED BY <1>1, <2>1, <2>2 DEF TimeType, Minute
<1>5. CASE UNCHANGED <<now, uuPreMinutes>>
  BY <1>1, <1>5 DEF TimeType, Minute
<1> QED BY <1>3, <1>4, <1>5, Zenon
       DEF Next, vars, Mid_MotionSensorHandler, SysTimer1000msCall, SetTrigger

LEMMA NextFlagType == ASSUME Types, SensingInv, [Next]_vars PROVE FlagType'
<1>1. FlagType
  BY DEF Types
<1>2. CASE \E motion \in BOOLEAN : Mid_MotionSensorHandler(motion)
  <2>1. UNCHANGED <<DISABLE, PRE_TIMEOUT_COUNT>>
    BY <1>2, Zenon DEF Mid_MotionSensorHandler
  <2>2. \/ MotionSample
        \/ QuietSample
        \/ UNCHANGED <<START_SENSING, TIMEOUT_COUNT>>
    BY <1>2, Zenon DEF Mid_MotionSensorHandler
  <2> QED BY <1>1, <2>1, <2>2, Zenon DEF FlagType, MotionSample, QuietSample
<1>3. CASE SysTimer100msCall
  <2>1. DISABLE' \in BOOLEAN
    BY <1>3, IgnoredTick
  <2>2. UNCHANGED <<TIMEOUT_COUNT, PRE_TIMEOUT_COUNT>> /\ (EndSensing \/ KeepSensing)
    BY <1>3, Zenon DEF SysTimer100msCall
  <2> QED BY <1>1, <2>1, <2>2, Zenon DEF FlagType, EndSensing, KeepSensing
<1>4. CASE SysTimer1000msCall
  BY <1>1, <1>4, Zenon DEF FlagType, SysTimer1000msCall
<1>5. CASE Elsewhere
  BY <1>1, <1>5, Zenon DEF FlagType, Elsewhere, flags
<1> QED BY <1>2, <1>3, <1>4, <1>5, LoopIsElsewhere, Zenon DEF Next

(* A trigger that is set or removed, slot by slot.                         *)
LEMMA SetEffect ==
  ASSUME Types, NEW i \in Slot, NEW t \in Triggers \union {None}, SetTrigger(i, t)
  PROVE  /\ trigger' \in [Slot -> Triggers \union {None}] /\ triggerDone' \in [Slot -> BOOLEAN]
         /\ trigger'[i] = t /\ (t # None => ~triggerDone'[i])
         /\ \A j \in Slot \ {i} : trigger'[j] = trigger[j] /\ triggerDone'[j] = triggerDone[j]
<1>1. trigger \in [Slot -> Triggers \union {None}] /\ triggerDone \in [Slot -> BOOLEAN]
  BY DEF Types, TableType
<1>2. /\ trigger' = [trigger EXCEPT ![i] = t]
      /\ triggerDone' = [triggerDone EXCEPT ![i] = IF t = None THEN @ ELSE FALSE]
  BY Zenon DEF SetTrigger
<1>3. (IF t = None THEN triggerDone[i] ELSE FALSE) \in BOOLEAN
  BY <1>1, Zenon
<1> QED BY <1>1, <1>2, <1>3, Zenon

LEMMA NextTableType == ASSUME Types, [Next]_vars PROVE TableType'
<1>1. TableType
  BY DEF Types
<1>2. CASE \E motion \in BOOLEAN : Mid_MotionSensorHandler(motion)
  <2>1. put' = {} /\ UNCHANGED <<table, shown>> /\ (served' = {} \/ UNCHANGED served)
    BY <1>2, Zenon DEF Mid_MotionSensorHandler, MotionSample, QuietSample
  <2> QED BY <1>1, <2>1 DEF TableType, table
<1>3. CASE SysTimer100msCall
  <2>1. UNCHANGED <<table, served>> /\ (PutDue \/ (put' = {} /\ UNCHANGED shown))
    BY <1>3, Zenon DEF SysTimer100msCall, EndSensing, KeepSensing
  <2>2. PutDue => put' \subseteq Slot /\ shown' \subseteq shown \union Slot
    BY DEF PutDue, Slots, LookedAt
  <2> QED BY <1>1, <2>1, <2>2 DEF TableType, table
<1>4. CASE SysTimer1000msCall
  <2> DEFINE due == TimedOut(g_ulMotionTimeOffCount')
  <2>1. /\ UNCHANGED <<trigger, shown>> /\ put' = due /\ served' = served \union due
        /\ triggerDone' = [i \in Slot |-> Rearmed[i] \/ i \in due]
    BY <1>4, Zenon DEF SysTimer1000msCall
  <2>2. due \subseteq Slot
    BY DEF TimedOut, Slots
  <2> HIDE DEF due
  <2>3. triggerDone' \in [Slot -> BOOLEAN]
    BY <2>1, Zenon
  <2> QED BY <1>1, <2>1, <2>2, <2>3 DEF TableType
<1>5. ASSUME NEW i \in Slot, NEW t \in Triggers \union {None}, SetTrigger(i, t) PROVE TableType'
  <2>1. put' = {} /\ served' \subseteq served /\ shown' \subseteq shown
    BY <1>5 DEF SetTrigger
  <2> QED BY <1>1, <1>5, <2>1, SetEffect DEF TableType
<1>6. CASE NextMinute
  BY <1>1, <1>6 DEF NextMinute, TableType, table
<1>7. CASE UNCHANGED vars
  BY <1>1, <1>7 DEF vars, history, table, TableType
<1> QED BY <1>2, <1>3, <1>4, <1>5, <1>6, <1>7, Zenon DEF Next

-----------------------------------------------------------------------------
(* Sensings. *)

LEMMA SampleKeepsSensing ==
  ASSUME Types, SensingInv, NEW motion \in BOOLEAN, Mid_MotionSensorHandler(motion)
  PROVE  SensingInv'
<1>1. CountType /\ sampled < SAMPLES /\ sampled' = sampled + 1
  BY SampleEffect DEF Types
<1>2. UNCHANGED <<DISABLE, g_ubMotionSensorCountTime, g_ubMotionSensorDisableTime>>
  BY SampleEffect DEF counters
<1>3. SAMPLES * g_ubMotionSensorCountTime \in Nat /\ SAMPLES * 0 = 0 /\ SAMPLES \in Nat
  BY <1>1, Samples, Assumed DEF CountType
<1>4. CASE MotionSample /\ ~DISABLE
  <2>1. /\ ~TIMEOUT_COUNT' /\ START_SENSING'
        /\ g_ubMotionCount' = g_ubMotionCount + 1
        /\ g_ubMotionSensorGrade' = GradeAt(g_ubMotionCount + 1)
        /\ moved' = (IF START_SENSING THEN moved ELSE 0) + 1
    BY <1>4 DEF MotionSample
  <2>2. g_ubMotionCount = IF START_SENSING THEN moved ELSE 0
    BY <1>4 DEF SensingInv
  <2>3. g_ubMotionSensorGrade = LevelOf(g_ubMotionCount)
    <3>1. LevelOf(0) = 0
      BY LevelNumbers, NoLevel
    <3> QED BY <2>2, <3>1 DEF SensingInv
  <2>4. g_ubMotionCount \in Nat
    BY <1>1 DEF CountType
  <2>5. moved' = g_ubMotionCount + 1 /\ moved' = g_ubMotionCount'
    BY <2>1, <2>2
  <2>6. g_ubMotionSensorGrade' = LevelOf(moved')
    BY <2>1, <2>3, <2>4, <2>5, GradeGoesOn
  <2>7. g_ubMotionCount <= sampled + SAMPLES * g_ubMotionSensorCountTime
    BY <1>1, <1>3, <2>2 DEF SensingInv, CountType
  <2>8. moved' > 0 /\ moved' <= sampled' + SAMPLES * g_ubMotionSensorCountTime'
    BY <1>1, <1>2, <1>3, <2>4, <2>5, <2>7 DEF CountType
  <2> QED BY <1>2, <1>4, <2>1, <2>5, <2>6, <2>8 DEF SensingInv
<1>5. CASE QuietSample /\ ~START_SENSING
  <2>1. /\ g_ubMotionCount' = 0 /\ ~START_SENSING' /\ UNCHANGED g_ubMotionSensorGrade
    BY <1>5 DEF QuietSample
  <2>2. 0 <= SAMPLES * (TIME_2S_BY_100MS + 1)
    BY Assumed
  <2> QED BY <1>2, <1>5, <2>1, <2>2 DEF SensingInv
<1>6. CASE /\ START_SENSING
           /\ UNCHANGED <<START_SENSING, TIMEOUT_COUNT, sensing, moved, quiet, served>>
  <2>1. moved <= sampled' + SAMPLES * g_ubMotionSensorCountTime
    BY <1>1, <1>3, <1>6 DEF SensingInv, CountType
  <2> QED BY <1>2, <1>6, <2>1 DEF SensingInv, sensing
<1> QED BY <1>4, <1>5, <1>6, SampleEffect, Zenon

LEMMA TickKeepsSensing == ASSUME Types, SensingInv, SysTimer100msCall PROVE SensingInv'
<1>1. /\ CountType /\ sampled = SAMPLES /\ sampled' = 0
      /\ UNCHANGED <<TIMEOUT_COUNT, g_ubMotionCount, moved>>
  BY DEF Types, SysTimer100msCall
<1>2. /\ SAMPLES * g_ubMotionSensorCountTime \in Nat
      /\ SAMPLES * (g_ubMotionSensorCountTime + 1)
           = SAMPLES * g_ubMotionSensorCountTime + SAMPLES
      /\ SAMPLES * g_ubMotionSensorCountTime + SAMPLES <= SAMPLES * (TIME_2S_BY_100MS + 1)
  BY <1>1, Samples DEF CountType
<1>3. CASE SensingEnds
  <2>1. /\ START_SENSING /\ ~START_SENSING'
        /\ g_ubMotionSensorCountTime' = 0 /\ g_ubMotionSensorGrade' = 0
    BY <1>3 DEF SysTimer100msCall, EndSensing, SensingEnds
  <2>2. DISABLE' /\ g_ubMotionSensorDisableTime' = 1
    BY <1>3, IgnoredTick
  <2>3. g_ubMotionCount <= SAMPLES + SAMPLES * g_ubMotionSensorCountTime
    BY <1>1, <2>1 DEF SensingInv
  <2>4. g_ubMotionCount <= SAMPLES * (TIME_2S_BY_100MS + 1)
    <3> DEFINE most == SAMPLES * (TIME_2S_BY_100MS + 1)
               whole == SAMPLES * g_ubMotionSensorCountTime
    <3>1. most \in Nat /\ whole \in Nat /\ SAMPLES \in Nat /\ g_ubMotionCount \in Nat
      BY <1>1, <1>2, Assumed DEF CountType
    <3>2. g_ubMotionCount <= SAMPLES + whole /\ whole + SAMPLES <= most
      BY <1>2, <2>3
    <3> HIDE DEF most, whole
    <3>3. g_ubMotionCount <= most
      BY <3>1, <3>2
    <3> QED BY <3>3 DEF most
  <2> QED BY <1>1, <2>1, <2>2, <2>4 DEF SensingInv
<1>4. CASE ~SensingEnds /\ START_SENSING
  <2>1. /\ START_SENSING' /\ UNCHANGED g_ubMotionSensorGrade
        /\ g_ubMotionSensorCountTime' = g_ubMotionSensorCountTime + 1
    BY <1>4 DEF SysTimer100msCall, KeepSensing
  <2>2. ~DISABLE /\ ~DISABLE' /\ g_ubMotionSensorDisableTime' = 0
    BY <1>4, IgnoredTick DEF SensingInv
  <2>3. moved <= SAMPLES + SAMPLES * g_ubMotionSensorCountTime
    BY <1>1, <1>4 DEF SensingInv
  <2>4. moved <= 0 + SAMPLES * (g_ubMotionSensorCountTime + 1)
    BY <1>1, <1>2, <2>3, Assumed DEF CountType
  <2> QED BY <1>1, <1>4, <2>1, <2>2, <2>4 DEF SensingInv
<1>5. CASE ~START_SENSING
  <2>1. /\ ~START_SENSING' /\ UNCHANGED <<g_ubMotionSensorGrade, g_ubMotionSensorCountTime>>
    BY <1>5 DEF SysTimer100msCall, KeepSensing, SensingEnds
  <2>2. /\ DISABLE' => g_ubMotionSensorDisableTime' > 0
        /\ ~DISABLE' => g_ubMotionSensorDisableTime' = 0
    <3>1. ~SensingEnds
      BY <1>5 DEF SensingEnds
    <3> QED BY <1>1, <3>1, IgnoredTick, Assumed DEF CountType
  <2>3. g_ubMotionCount = 0
    BY <1>1, <1>5, Assumed DEF SensingInv
  <2> QED BY <1>1, <1>5, <2>1, <2>2, <2>3 DEF SensingInv
<1> QED BY <1>3, <1>4, <1>5

LEMMA NextSensingInv == ASSUME Types, SensingInv, [Next]_vars PROVE SensingInv'
<1>1. CASE SysTimer1000msCall
  <2>1. UNCHANGED <<START_SENSING, DISABLE, TIMEOUT_COUNT, sensing, g_ubMotionSensorCountTime,
                    g_ubMotionSensorDisableTime, sampled, moved>>
    BY <1>1, Zenon DEF SysTimer1000msCall
  <2> QED BY <2>1 DEF SensingInv, sensing
<1>2. CASE Elsewhere
  BY <1>2 DEF SensingInv, Elsewhere, sensing, flags
<1> QED BY <1>1, <1>2, SampleKeepsSensing, TickKeepsSensing, LoopIsElsewhere, Zenon DEF Next

-----------------------------------------------------------------------------
(* Windows. *)

(* A sensing that ends puts triggers of motion, and of the windows only    *)
(* the one that is looked at.                                              *)
LEMMA PutEffect ==
  ASSUME PutDue
  PROVE  /\ \A i \in put' : i \in Slots("WINDOW") => i \in LookedAt /\ InWindow(i) /\ Fits(i)
         /\ shown' = shown \union (put' \intersect Slots("WINDOW"))
  BY DEF PutDue, Slots

LEMMA NextShownInv == ASSUME Types, ShownInv, [Next]_vars PROVE ShownInv'
<1>1. CASE SysTimer100msCall
  <2>1. UNCHANGED now /\ (PutDue \/ UNCHANGED <<uuPreMinutes, shown>>)
    BY <1>1, Zenon DEF SysTimer100msCall, EndSensing, KeepSensing
  <2>2. CASE PutDue
    <3>1. uuPreMinutes' = IF LookedAt = {} THEN uuPreMinutes ELSE now % MINUTES
      BY <2>2, Zenon DEF PutDue
    <3>2. LookedAt = {} => shown' = shown
      BY <2>2, PutEffect
    <3> QED BY <2>1, <3>1, <3>2, Zenon DEF ShownInv
  <2> QED BY <2>1, <2>2, Zenon DEF ShownInv
<1>2. CASE shown' = {} \/ UNCHANGED <<shown, uuPreMinutes, now>>
  BY <1>2, Zenon DEF ShownInv
<1>3. ASSUME NEW i \in Slot, NEW t \in Triggers \union {None}, SetTrigger(i, t)
      PROVE  shown' \subseteq shown /\ UNCHANGED <<uuPreMinutes, now>>
  BY <1>3 DEF SetTrigger
<1>4. CASE \E i \in Slot, t \in Triggers \union {None} : SetTrigger(i, t)
  <2>1. shown' \subseteq shown /\ UNCHANGED <<uuPreMinutes, now>>
    BY <1>3, <1>4
  <2> QED BY <2>1 DEF ShownInv
<1> QED BY <1>1, <1>2, <1>4, Zenon
       DEF Next, vars, history, Mid_MotionSensorHandler, SysTimer1000msCall, NextMinute

-----------------------------------------------------------------------------
(* Quiet times. *)

(* A sensing lasts longer than a second: what was counted before it is     *)
(* forgotten when it ends.                                                 *)
LEMMA ForgottenAtEnd ==
  ASSUME Types, QuietInv, SysTimer100msCall, SensingEnds
  PROVE  ~PRE_TIMEOUT_COUNT /\ g_ulMotionTimeOffCount = 0
<1>1. /\ START_SENSING /\ g_ubMotionSensorCountTime + 1 >= TIME_2S_BY_100MS
      /\ phase < TIME_1S_BY_100MS /\ CountType
  BY DEF SensingEnds, SysTimer100msCall, Types
<1>2. ~(g_ubMotionSensorCountTime <= phase)
  BY <1>1, Assumed DEF CountType
<1> QED BY <1>1, <1>2, Zenon DEF QuietInv

LEMMA NextQuietInv == ASSUME Types, SensingInv, QuietInv, [Next]_vars PROVE QuietInv'
<1>1. CountType
  BY DEF Types
<1>2. CASE \E motion \in BOOLEAN : Mid_MotionSensorHandler(motion)
  <2>1. UNCHANGED <<PRE_TIMEOUT_COUNT, counters, phase>>
    BY <1>2, Zenon DEF Mid_MotionSensorHandler
  <2>2. \/ MotionSample
        \/ UNCHANGED <<START_SENSING, quiet>>
    BY <1>2, Zenon DEF Mid_MotionSensorHandler, QuietSample
  <2>3. CASE MotionSample
    <3>1. START_SENSING'
      BY <2>3 DEF MotionSample
    <3>2. ~START_SENSING => g_ubMotionSensorCountTime <= phase
      BY <1>1 DEF SensingInv, CountType
    <3> QED BY <2>1, <3>1, <3>2, Zenon DEF QuietInv, counters
  <2>4. CASE UNCHANGED <<START_SENSING, quiet>>
    BY <2>1, <2>4, Zenon DEF QuietInv, counters
  <2> QED BY <2>2, <2>3, <2>4
<1>3. CASE SysTimer100msCall
  <2>1. /\ phase' = phase + 1 /\ UNCHANGED <<PRE_TIMEOUT_COUNT, g_ulMotionTimeOffCount, quiet>>
        /\ IF SensingEnds THEN EndSensing ELSE KeepSensing
    BY <1>3, Zenon DEF SysTimer100msCall
  <2>2. CASE SensingEnds
    <3>1. ~START_SENSING' /\ g_ulMotionTimeOffCount' = 0 /\ quiet' \in Nat
      BY <1>1, <1>3, <2>1, <2>2, ForgottenAtEnd DEF EndSensing, CountType
    <3> QED BY <3>1 DEF QuietInv
  <2>3. CASE ~SensingEnds
    <3>1. /\ UNCHANGED START_SENSING
          /\ START_SENSING => g_ubMotionSensorCountTime' = g_ubMotionSensorCountTime + 1
      BY <2>1, <2>3, Zenon DEF KeepSensing
    <3>2. START_SENSING /\ g_ubMotionSensorCountTime <= phase
            => g_ubMotionSensorCountTime' <= phase'
      BY <1>1, <2>1, <3>1 DEF CountType
    <3> QED BY <2>1, <3>1, <3>2, Zenon DEF QuietInv
  <2> QED BY <2>2, <2>3
<1>4. CASE SysTimer1000msCall
  <2>1. /\ UNCHANGED START_SENSING /\ PRE_TIMEOUT_COUNT' = TIMEOUT_COUNT
        /\ quiet' = AtMost(quiet + 1)
        /\ g_ulMotionTimeOffCount' =
             IF TIMEOUT_COUNT THEN AtMost(g_ulMotionTimeOffCount + 1) ELSE 0
    BY <1>4, Zenon DEF SysTimer1000msCall
  <2>2. CASE START_SENSING
    <3>1. ~TIMEOUT_COUNT
      BY <2>2 DEF SensingInv
    <3> QED BY <2>1, <2>2, <3>1, Zenon DEF QuietInv
  <2>3. CASE ~START_SENSING
    <3>1. g_ulMotionTimeOffCount <= quiet
      BY <2>3 DEF QuietInv
    <3>2. AtMost(g_ulMotionTimeOffCount + 1) <= AtMost(quiet + 1) /\ 0 <= AtMost(quiet + 1)
      BY <1>1, <3>1, Assumed DEF AtMost, CountType
    <3>3. g_ulMotionTimeOffCount' <= quiet'
      BY <2>1, <3>2
    <3> QED BY <2>1, <2>3, <3>3 DEF QuietInv
  <2> QED BY <2>2, <2>3
<1>5. CASE Elsewhere
  BY <1>5, Zenon DEF QuietInv, Elsewhere, flags
<1> QED BY <1>2, <1>3, <1>4, <1>5, LoopIsElsewhere, Zenon DEF Next

(* The seconds of a timeout trigger are a number.                          *)
LEMMA TimeoutNumbers ==
  ASSUME Types, NEW i \in TimeoutSlots
  PROVE  i \in Slot /\ trigger[i].mode = "TIMEOUT" /\ trigger[i].ulTimeout \in 0 .. MaxQuiet
<1>1. i \in Slot /\ trigger[i].mode = "TIMEOUT" /\ trigger[i] \in Triggers \union {None}
  BY DEF TimeoutSlots, Slots, Types, TableType
<1>2. None.mode # "TIMEOUT"
  BY DEF None
<1> QED BY <1>1, <1>2, MotionAssumption

(* The second: what was served stays done; what is done was served.        *)
LEMMA SecondKeepsServed ==
  ASSUME Types, SensingInv, ServedInv, SysTimer1000msCall PROVE ServedInv'
<1> DEFINE due == TimedOut(g_ulMotionTimeOffCount')
<1>1. /\ UNCHANGED <<START_SENSING, TIMEOUT_COUNT, trigger>> /\ PRE_TIMEOUT_COUNT' = TIMEOUT_COUNT
      /\ g_ulMotionTimeOffCount' =
           IF TIMEOUT_COUNT THEN AtMost(g_ulMotionTimeOffCount + 1) ELSE 0
      /\ triggerDone' = [i \in Slot |-> Rearmed[i] \/ i \in due] /\ served' = served \union due
  BY Zenon DEF SysTimer1000msCall
<1>2. TimeoutSlots' = TimeoutSlots
  BY <1>1, Zenon DEF TimeoutSlots, Slots
<1>3. \A i \in TimeoutSlots :
        Rearmed[i] <=> triggerDone[i] /\ ~(~PRE_TIMEOUT_COUNT /\ TIMEOUT_COUNT)
  BY TimeoutNumbers, Zenon DEF Rearmed
<1>4. \A i \in TimeoutSlots : triggerDone'[i] <=> Rearmed[i] \/ i \in due
  BY <1>1, TimeoutNumbers, Zenon
<1>5. ASSUME NEW i \in TimeoutSlots, i \in due, trigger[i].ulTimeout > 0 PROVE TIMEOUT_COUNT
  <2>1. g_ulMotionTimeOffCount' >= trigger[i].ulTimeout
    BY <1>5 DEF TimedOut
  <2>2. g_ulMotionTimeOffCount' # 0
    BY <1>5, <2>1, TimeoutNumbers
  <2> QED BY <1>1, <2>2
<1> HIDE DEF due
<1>6. ASSUME NEW i \in TimeoutSlots, i \in served', trigger[i].ulTimeout > 0
      PROVE  triggerDone'[i] /\ PRE_TIMEOUT_COUNT' /\ TIMEOUT_COUNT'
  <2>1. CASE i \in due
    BY <1>1, <1>4, <1>5, <1>6, <2>1, Zenon
  <2>2. CASE i \in served
    <3>1. triggerDone[i] /\ PRE_TIMEOUT_COUNT /\ TIMEOUT_COUNT
      BY <1>6, <2>2, Zenon DEF ServedInv
    <3> QED BY <1>1, <1>3, <1>4, <3>1, Zenon
  <2>3. i \in due \/ i \in served
    BY <1>1, <1>6
  <2> QED BY <2>1, <2>2, <2>3
<1>7. ASSUME NEW i \in TimeoutSlots, ~START_SENSING', PRE_TIMEOUT_COUNT', triggerDone'[i]
      PROVE  i \in served'
  <2>1. CASE i \in due
    BY <1>1, <2>1
  <2>2. CASE i \notin due
    <3>1. triggerDone[i] /\ ~START_SENSING /\ PRE_TIMEOUT_COUNT
      BY <1>1, <1>3, <1>4, <1>7, <2>2, Zenon
    <3>2. i \in served
      BY <3>1, Zenon DEF ServedInv
    <3> QED BY <1>1, <3>2
  <2> QED BY <2>1, <2>2
<1> QED BY <1>1, <1>2, <1>6, <1>7, Zenon DEF ServedInv

LEMMA SetKeepsServed ==
  ASSUME Types, ServedInv, NEW i \in Slot, NEW t \in Triggers \union {None}, SetTrigger(i, t)
  PROVE  ServedInv'
<1>1. /\ UNCHANGED <<START_SENSING, TIMEOUT_COUNT, PRE_TIMEOUT_COUNT>> /\ served' = served \ {i}
  BY Zenon DEF SetTrigger, flags
<1>2. ASSUME NEW j \in TimeoutSlots' PROVE j \in Slot /\ trigger'[j].mode = "TIMEOUT"
  BY <1>2 DEF TimeoutSlots, Slots
<1>3. ASSUME NEW j \in TimeoutSlots', j # i
      PROVE  /\ j \in TimeoutSlots /\ trigger'[j] = trigger[j]
             /\ triggerDone'[j] = triggerDone[j] /\ (j \in served' <=> j \in served)
  <2>1. j \in Slot \ {i} /\ trigger'[j].mode = "TIMEOUT"
    BY <1>2, <1>3
  <2>2. trigger'[j] = trigger[j] /\ triggerDone'[j] = triggerDone[j]
    BY <2>1, SetEffect
  <2> QED BY <1>1, <1>3, <2>1, <2>2 DEF TimeoutSlots, Slots
<1>4. ASSUME i \in TimeoutSlots' PROVE ~triggerDone'[i] /\ i \notin served'
  <2>1. trigger'[i] = t /\ trigger'[i].mode = "TIMEOUT"
    BY <1>2, <1>4, SetEffect
  <2>2. t # None
    BY <2>1 DEF None
  <2> QED BY <1>1, <2>2, SetEffect
<1> QED BY <1>1, <1>3, <1>4, Zenon DEF ServedInv

LEMMA NextServedInv ==
  ASSUME Types, SensingInv, QuietInv, ServedInv, [Next]_vars PROVE ServedInv'
<1>1. CASE \E motion \in BOOLEAN : Mid_MotionSensorHandler(motion)
  <2>1. UNCHANGED <<PRE_TIMEOUT_COUNT, trigger, triggerDone>>
    BY <1>1, Zenon DEF Mid_MotionSensorHandler, table
  <2>2. \/ START_SENSING' /\ served' = {}
        \/ UNCHANGED <<START_SENSING, served>> /\ (TIMEOUT_COUNT' \/ UNCHANGED TIMEOUT_COUNT)
    BY <1>1, Zenon DEF Mid_MotionSensorHandler, MotionSample, QuietSample
  <2>3. TimeoutSlots' = TimeoutSlots
    BY <2>1, Zenon DEF TimeoutSlots, Slots
  <2>4. CASE START_SENSING' /\ served' = {}
    BY <2>4 DEF ServedInv
  <2>5. CASE UNCHANGED <<START_SENSING, served>> /\ (TIMEOUT_COUNT' \/ UNCHANGED TIMEOUT_COUNT)
    <3>1. ASSUME NEW i \in TimeoutSlots', i \in served', trigger'[i].ulTimeout > 0
          PROVE  triggerDone'[i] /\ PRE_TIMEOUT_COUNT' /\ TIMEOUT_COUNT'
      <4>1. i \in TimeoutSlots /\ i \in served /\ trigger[i].ulTimeout > 0
        BY <2>1, <2>3, <2>5, <3>1
      <4>2. triggerDone[i] /\ PRE_TIMEOUT_COUNT /\ TIMEOUT_COUNT
        BY <4>1, Zenon DEF ServedInv
      <4> QED BY <2>1, <2>5, <4>2
    <3>2. ASSUME ~START_SENSING', PRE_TIMEOUT_COUNT', NEW i \in TimeoutSlots', triggerDone'[i]
          PROVE  i \in served'
      <4>1. ~START_SENSING /\ PRE_TIMEOUT_COUNT /\ i \in TimeoutSlots /\ triggerDone[i]
        BY <2>1, <2>3, <2>5, <3>2
      <4> QED BY <2>5, <4>1 DEF ServedInv
    <3> QED BY <3>1, <3>2, Zenon DEF ServedInv
  <2> QED BY <2>2, <2>4, <2>5
<1>2. CASE SysTimer100msCall
  <2>1. UNCHANGED <<TIMEOUT_COUNT, PRE_TIMEOUT_COUNT, trigger, triggerDone, served>>
    BY <1>2, Zenon DEF SysTimer100msCall, table
  <2>2. SensingEnds => ~PRE_TIMEOUT_COUNT
    BY <1>2, ForgottenAtEnd
  <2>3. ~SensingEnds => UNCHANGED START_SENSING
    BY <1>2, Zenon DEF SysTimer100msCall, KeepSensing
  <2>4. TimeoutSlots' = TimeoutSlots
    BY <2>1, Zenon DEF TimeoutSlots, Slots
  <2> QED BY <2>1, <2>2, <2>3, <2>4, Zenon DEF ServedInv
<1>3. CASE NextMinute \/ UNCHANGED vars
  <2>1. UNCHANGED <<flags, trigger, triggerDone, served>>
    BY <1>3, Zenon DEF NextMinute, vars, table, history
  <2>2. TimeoutSlots' = TimeoutSlots
    BY <2>1, Zenon DEF TimeoutSlots, Slots
  <2> QED BY <2>1, <2>2, Zenon DEF ServedInv, flags
<1> QED BY <1>1, <1>2, <1>3, SecondKeepsServed, SetKeepsServed, Zenon DEF Next

-----------------------------------------------------------------------------
(* The theorems. *)

(* The interrupts leave one another what the next one goes by: the count   *)
(* cleared, the minute marked, the quiet forgotten, what has gone off done. *)
THEOREM MotionInductive == Spec => []MotionInv
<1>1. Init => MotionInv
  BY InitMotion
<1>2. MotionInv /\ [Next]_vars => MotionInv'
  <2> SUFFICES ASSUME MotionInv, [Next]_vars PROVE MotionInv'
    OBVIOUS
  <2>1. Types /\ SensingInv /\ ShownInv /\ QuietInv /\ ServedInv
    BY DEF MotionInv
  <2>2. CountType' /\ TimeType' /\ FlagType' /\ TableType'
    BY <2>1, NextCountType, NextTimeType, NextFlagType, NextTableType
  <2>3. SensingInv' /\ ShownInv' /\ QuietInv' /\ ServedInv'
    BY <2>1, NextSensingInv, NextShownInv, NextQuietInv, NextServedInv
  <2> QED BY <2>2, <2>3, Zenon DEF MotionInv, Types
<1> QED BY <1>1, <1>2, PTL DEF Spec

LEMMA TypesAreOK == ASSUME Types, SensingInv PROVE TypeOK
<1>1. g_ubMotionCount \in 0 .. SAMPLES * (TIME_2S_BY_100MS + 1)
  <2> DEFINE most == SAMPLES * (TIME_2S_BY_100MS + 1)
  <2>1. g_ubMotionCount \in Nat /\ moved \in 0 .. most
    BY DEF Types, CountType
  <2>2. IF START_SENSING THEN g_ubMotionCount = moved ELSE g_ubMotionCount <= most
    BY DEF SensingInv
  <2>3. most \in Nat
    BY Assumed
  <2> HIDE DEF most
  <2>4. g_ubMotionCount \in 0 .. most
    BY <2>1, <2>2, <2>3
  <2> QED BY <2>4 DEF most
<1>2. flags \in BOOLEAN \X BOOLEAN \X BOOLEAN \X BOOLEAN
  BY DEF Types, FlagType, flags
<1> QED BY <1>1, <1>2, Zenon DEF TypeOK, Types, CountType, TimeType, TableType

(* A sensing that ends puts exactly the motion triggers of the grade its   *)
(* own motions have reached, and of the window triggers only such as have  *)
(* that grade: the count of the sensing before, which nothing clears when  *)
(* it ends, is cleared while the sensor is ignored.                        *)
THEOREM SensingsPutTheirGrade == Spec => SensingPutsItsGrade
<1>1. MotionInv => TypeOK /\ GradeOfThisSensing
  BY TypesAreOK DEF MotionInv, SensingInv, GradeOfThisSensing
<1> DEFINE fit(mode) == {i \in Slots(mode) : trigger[i].sens = LevelOf(moved)}
           putsIts == START_SENSING /\ ~START_SENSING' =>
                        fit("MOTION") \subseteq put'
                          /\ put' \subseteq fit("MOTION") \union fit("WINDOW")
<1>2. MotionInv /\ [Next]_vars => [putsIts]_vars
  <2> SUFFICES ASSUME MotionInv, Next, START_SENSING, ~START_SENSING'
               PROVE  /\ fit("MOTION") \subseteq put'
                      /\ put' \subseteq fit("MOTION") \union fit("WINDOW")
    BY Zenon
  <2>1. PutDue
    <3>1. SysTimer100msCall
      BY Zenon DEF Next, Mid_MotionSensorHandler, MotionSample, QuietSample, SysTimer1000msCall,
        SetTrigger, NextMinute, flags
    <3> QED BY <3>1, Zenon DEF SysTimer100msCall, EndSensing, KeepSensing
  <2>2. g_ubMotionSensorGrade = LevelOf(moved)
    BY DEF MotionInv, SensingInv
  <2>3. put' = {i \in Slots("MOTION") : Fits(i)}
                 \union {i \in LookedAt : InWindow(i) /\ Fits(i)}
    BY <2>1, Zenon DEF PutDue
  <2>4. LookedAt \subseteq Slots("WINDOW")
    BY DEF LookedAt
  <2> QED BY <2>2, <2>3, <2>4 DEF Fits
<1>3. [](TypeOK /\ GradeOfThisSensing) /\ [][putsIts]_vars => SensingPutsItsGrade
  BY PTL DEF SensingPutsItsGrade
<1> QED BY <1>1, <1>2, <1>3, MotionInductive, PTL DEF Spec

(* When a sensing ends, an open window of its grade is passed over only    *)
(* for the minute's number having been looked at or for another window     *)
(* before it; and no window goes off twice in a minute, whatever ends,     *)
(* begins and is set in it.                                                *)
THEOREM WindowsByTheMinute == Spec => WindowPassedOver
<1> DEFINE
      passedOver ==
        START_SENSING /\ ~START_SENSING' =>
          \A i \in Slots("WINDOW") :
            \/ i \in put' \/ ~trigger[i].today \/ ~InWindow(i) \/ trigger[i].sens # LevelOf(moved)
            \/ uuPreMinutes = now % MINUTES
            \/ \E j \in Slots("WINDOW") : j < i /\ trigger[j].today
      once == \A i \in put' : trigger[i].mode = "WINDOW" => i \notin shown
<1>1. ASSUME MotionInv, Next PROVE passedOver
  <2> SUFFICES ASSUME START_SENSING, ~START_SENSING', NEW i \in Slots("WINDOW"),
                      trigger[i].today, InWindow(i), trigger[i].sens = LevelOf(moved),
                      uuPreMinutes # now % MINUTES,
                      \A j \in Slots("WINDOW") : trigger[j].today => ~(j < i)
               PROVE  i \in put'
    BY Zenon
  <2>1. PutDue
    <3>1. SysTimer100msCall
      BY <1>1, Zenon DEF Next, Mid_MotionSensorHandler, MotionSample, QuietSample,
        SysTimer1000msCall, SetTrigger, NextMinute, flags
    <3> QED BY <3>1, Zenon DEF SysTimer100msCall, EndSensing, KeepSensing
  <2>2. Fits(i)
    BY <1>1 DEF MotionInv, SensingInv, Fits
  <2>3. i \in LookedAt
    <3>1. \A j \in Slots("WINDOW") : i \in Nat /\ j \in Nat
      BY DEF Slots, Slot
    <3>2. \A j \in Slots("WINDOW") : trigger[j].today => i <= j
      BY <3>1
    <3> QED BY <3>2 DEF LookedAt
  <2> QED BY <2>1, <2>2, <2>3, Zenon DEF PutDue
<1>2. ASSUME MotionInv, Next PROVE once
  <2> SUFFICES ASSUME NEW i \in put', trigger[i].mode = "WINDOW" PROVE i \notin shown
    OBVIOUS
  <2>1. put' # {}
    OBVIOUS
  <2>2. CASE SysTimer100msCall
    <3>1. PutDue
      BY <2>1, <2>2, Zenon DEF SysTimer100msCall, EndSensing, KeepSensing
    <3>2. i \in Slots("WINDOW")
      BY <3>1 DEF PutDue, Slots, LookedAt
    <3>3. LookedAt # {}
      BY <3>1, <3>2, PutEffect
    <3>4. uuPreMinutes # now % MINUTES
      BY <3>3 DEF LookedAt
    <3> QED BY <1>2, <3>4 DEF MotionInv, ShownInv
  <2>3. CASE SysTimer1000msCall
    BY <2>3 DEF SysTimer1000msCall, TimedOut, Slots
  <2>4. ~SysTimer100msCall => SysTimer1000msCall
    BY <1>2, <2>1, Zenon DEF Next, Mid_MotionSensorHandler, SetTrigger, NextMinute
  <2> QED BY <2>2, <2>3, <2>4
<1>3. MotionInv /\ [Next]_vars => [passedOver /\ once]_vars
  BY <1>1, <1>2, Zenon
<1>4. [][passedOver /\ once]_vars => WindowPassedOver
  BY PTL DEF WindowPassedOver
<1> QED BY <1>3, <1>4, MotionInductive, PTL DEF Spec

(* A timeout trigger goes off after its seconds of quiet and not before,   *)
(* once in each quiet time that is long enough, whatever motions are       *)
(* ignored in it and whatever went off in the quiet before.                *)
THEOREM TimeoutsByTheQuiet == Spec => TimesOutOncePerQuiet
<1> DEFINE after == \A i \in put' : trigger[i].mode = "TIMEOUT" =>
                      quiet' >= trigger[i].ulTimeout
                        /\ (i \in served => trigger[i].ulTimeout = 0)
           each == phase' = 0 /\ phase # 0 =>
                     \A i \in Slots("TIMEOUT") :
                       /\ trigger[i].today /\ trigger[i].ulTimeout > 0
                       /\ g_ulMotionTimeOffCount' >= trigger[i].ulTimeout
                       => i \in served'
<1>1. ASSUME MotionInv, SysTimer1000msCall
      PROVE  /\ put' = TimedOut(g_ulMotionTimeOffCount') /\ served' = served \union put'
             /\ UNCHANGED START_SENSING /\ PRE_TIMEOUT_COUNT' = TIMEOUT_COUNT
             /\ ~TIMEOUT_COUNT => g_ulMotionTimeOffCount' = 0
             /\ put' \subseteq TimeoutSlots
  <2>1. put' = TimedOut(g_ulMotionTimeOffCount') /\ served' = served \union put'
    BY <1>1, Zenon DEF SysTimer1000msCall
  <2>2. /\ UNCHANGED START_SENSING /\ PRE_TIMEOUT_COUNT' = TIMEOUT_COUNT
        /\ ~TIMEOUT_COUNT => g_ulMotionTimeOffCount' = 0
    BY <1>1, Zenon DEF SysTimer1000msCall
  <2>3. TimedOut(g_ulMotionTimeOffCount') \subseteq TimeoutSlots
    BY DEF TimedOut, TimeoutSlots
  <2> QED BY <2>1, <2>2, <2>3, Zenon
<1>2. ASSUME MotionInv, Next PROVE after
  <2> SUFFICES ASSUME NEW i \in put', trigger[i].mode = "TIMEOUT"
               PROVE  quiet' >= trigger[i].ulTimeout
                        /\ (i \in served => trigger[i].ulTimeout = 0)
    OBVIOUS
  <2>1. CASE SysTimer100msCall
    <3>1. i \in Slots("MOTION") \/ i \in Slots("WINDOW")
      BY <2>1, Zenon DEF SysTimer100msCall, EndSensing, KeepSensing, PutDue, LookedAt
    <3> QED BY <3>1 DEF Slots
  <2>2. CASE SysTimer1000msCall
    <3>1. /\ i \in TimeoutSlots /\ trigger[i].ulTimeout \in 0 .. MaxQuiet
          /\ g_ulMotionTimeOffCount' >= trigger[i].ulTimeout /\ ~Rearmed[i]
      BY <1>1, <1>2, <2>2, TimeoutNumbers DEF TimedOut, MotionInv
    <3>2. quiet' >= trigger[i].ulTimeout
      <4>1. CountType' /\ QuietInv' /\ SensingInv
        BY <1>2, NextCountType, NextQuietInv DEF MotionInv
      <4>2. CASE START_SENSING
        <5>1. g_ulMotionTimeOffCount' = 0
          BY <1>1, <1>2, <2>2, <4>1, <4>2 DEF SensingInv
        <5> QED BY <3>1, <4>1, <5>1 DEF CountType
      <4>3. CASE ~START_SENSING
        <5>1. g_ulMotionTimeOffCount' <= quiet'
          BY <1>1, <1>2, <2>2, <4>1, <4>3 DEF QuietInv
        <5> QED BY <3>1, <4>1, <5>1 DEF CountType
      <4> QED BY <4>2, <4>3
    <3>3. ASSUME i \in served, trigger[i].ulTimeout > 0 PROVE FALSE
      <4>1. triggerDone[i] /\ PRE_TIMEOUT_COUNT
        BY <1>2, <3>1, <3>3, Zenon DEF MotionInv, ServedInv
      <4>2. Rearmed[i]
        BY <1>2, <3>1, <4>1, TimeoutNumbers, Zenon DEF Rearmed, MotionInv
      <4> QED BY <3>1, <4>2
    <3> QED BY <3>1, <3>2, <3>3
  <2>3. ~SysTimer100msCall => SysTimer1000msCall
    <3>1. put' # {}
      OBVIOUS
    <3> QED BY <1>2, <3>1, Zenon DEF Next, Mid_MotionSensorHandler, SetTrigger, NextMinute
  <2> QED BY <2>1, <2>2, <2>3
<1>3. ASSUME MotionInv, Next PROVE each
  <2> SUFFICES ASSUME phase' = 0, phase # 0, NEW i \in Slots("TIMEOUT"), trigger[i].today,
                      trigger[i].ulTimeout > 0,
                      g_ulMotionTimeOffCount' >= trigger[i].ulTimeout
               PROVE  i \in served'
    OBVIOUS
  <2>1. SysTimer1000msCall
    <3>1. UNCHANGED phase \/ phase' = phase + 1 \/ SysTimer1000msCall
      BY <1>3, Zenon DEF Next, Mid_MotionSensorHandler, SysTimer100msCall, SetTrigger, NextMinute,
        timing
    <3>2. phase \in Nat
      BY <1>3 DEF MotionInv, Types, CountType
    <3> QED BY <3>1, <3>2
  <2>2. i \in TimeoutSlots /\ trigger[i].ulTimeout \in 0 .. MaxQuiet /\ i \in Slot
    BY <1>3, TimeoutNumbers DEF TimeoutSlots, MotionInv
  <2>3. TIMEOUT_COUNT
    <3>1. g_ulMotionTimeOffCount' # 0
      BY <2>2
    <3> QED BY <1>1, <1>3, <2>1, <3>1
  <2>4. CASE Rearmed[i]
    <3>1. triggerDone[i] /\ PRE_TIMEOUT_COUNT
      BY <2>2, <2>3, <2>4, TimeoutNumbers, Zenon DEF Rearmed, TimeoutSlots, Slots
    <3>2. ~START_SENSING
      BY <1>3, <2>3 DEF MotionInv, SensingInv
    <3>3. i \in served
      BY <1>3, <2>2, <3>1, <3>2, Zenon DEF MotionInv, ServedInv
    <3> QED BY <1>1, <1>3, <2>1, <3>3
  <2>5. CASE ~Rearmed[i]
    <3>1. i \in put'
      BY <1>1, <1>3, <2>1, <2>5 DEF TimedOut
    <3> QED BY <1>1, <1>3, <2>1, <3>1
  <2> QED BY <2>4, <2>5
<1>4. MotionInv /\ [Next]_vars => [after /\ each]_vars
  BY <1>2, <1>3, Zenon
<1>5. [][after /\ each]_vars => TimesOutOncePerQuiet
  BY PTL DEF TimesOutOncePerQuiet
<1> QED BY <1>4, <1>5, MotionInductive, PTL DEF Spec

-----------------------------------------------------------------------------
(* The seconds. *)

Waiting(q) == {k \in 1 .. Len(q) : q[k] = "rtc"}

InTime ==
  /\ behind <= 1 /\ Cardinality(Waiting(queue)) = behind
  /\ behind = 1 => tick <= busy
  /\ busy <= Seconds!Patience(others)
  /\ queue = <<>> => busy = 0 /\ others = 0
  /\ TIME_20MS_BY_10MS * (Len(queue) - others - behind) + ubCount20ms
       <= busy + TIME_20MS_BY_10MS
  /\ tick > 0 => ubCount20ms > 0

TimerInv ==
  /\ Cardinality(Waiting(queue)) <= behind
  /\ ~overran => InTime

(* What is waited for grows and shrinks by a period of the scan.           *)
LEMMA Products ==
  ASSUME NEW t \in Nat \ {0}, NEW a \in Int, NEW b \in Int
  PROVE  /\ t * a \in Int /\ t * (a + 1) = t * a + t /\ t * (a - 1) = t * a - t
         /\ a <= b => t * a <= t * b
         /\ t * a < t * b => a < b
<1>1. t * a \in Int /\ t * b \in Int /\ t * (a + 1) = t * a + t /\ t * (a - 1) = t * a - t
  OBVIOUS
<1>2. \A x, y \in Int : x <= y => t * x <= t * y
  <2> SUFFICES ASSUME NEW x \in Int, NEW y \in Int, x <= y PROVE t * x <= t * y
    OBVIOUS
  <2>1. PICK d \in Nat : y = x + d
    <3>1. y - x \in Nat /\ y = x + (y - x)
      OBVIOUS
    <3> QED BY <3>1
  <2>2. t * y = t * x + t * d /\ t * d \in Nat /\ t * x \in Int
    BY <2>1
  <2> QED BY <2>2
<1>3. t * a < t * b => a < b
  <2>1. CASE b <= a
    BY <1>1, <1>2, <2>1
  <2>2. CASE ~(b <= a)
    BY <2>2
  <2> QED BY <2>1, <2>2
<1> QED BY <1>1, <1>2, <1>3

(* The main loop's patience: a period of the scan less for each other      *)
(* event, and always less than a second.                                   *)
LEMMA PatienceShrinks ==
  ASSUME Seconds!TimerAssumption, NEW k \in Nat
  PROVE  /\ Seconds!Patience(k) \in Int /\ Seconds!Patience(0) \in Nat
         /\ Seconds!Patience(k) <= Seconds!Patience(0)
         /\ Seconds!Patience(0) < TIME_1S_BY_10MS
         /\ Seconds!Patience(k + 1) = Seconds!Patience(k) - TIME_20MS_BY_10MS
         /\ Seconds!Patience(k) + TIME_20MS_BY_10MS
              = TIME_20MS_BY_10MS * (SCHED_QUEUE_SIZE - k)
<1> DEFINE t == TIME_20MS_BY_10MS
           q == SCHED_QUEUE_SIZE
<1>1. t \in Nat \ {0} /\ q \in Nat \ {0} /\ TIME_1S_BY_10MS \in Nat /\ t * q <= TIME_1S_BY_10MS
  BY DEF Seconds!TimerAssumption
<1> HIDE DEF t, q
<1>2. t * (q - 1 - k) \in Int /\ t * (q - 1) \in Int /\ t * (q - 1 - k) <= t * (q - 1)
  BY <1>1, Products
<1>3. t * (q - 1) = t * q - t /\ t * q \in Int
  BY <1>1, Products
<1>4. t * (q - 1) \in Nat
  BY <1>1
<1>5. t * ((q - 1 - k) - 1) = t * (q - 1 - k) - t /\ t * ((q - 1 - k) + 1) = t * (q - 1 - k) + t
  BY <1>1, Products
<1>6. (q - 1 - k) - 1 = q - 1 - (k + 1) /\ (q - 1 - k) + 1 = q - k /\ q - 1 - 0 = q - 1
  BY <1>1
<1>7. /\ Seconds!Patience(k) = t * (q - 1 - k) /\ Seconds!Patience(k + 1) = t * (q - 1 - (k + 1))
      /\ Seconds!Patience(0) = t * (q - 1 - 0)
  BY DEF Seconds!Patience, t, q
<1> DEFINE x == t * (q - 1 - k)
           y == t * (q - 1)
           z == t * q
<1>8. /\ x \in Int /\ y \in Nat /\ z \in Int /\ x <= y /\ y = z - t /\ z <= TIME_1S_BY_10MS
      /\ Seconds!Patience(k) = x /\ Seconds!Patience(0) = y /\ Seconds!Patience(k + 1) = x - t
      /\ t * (q - k) = x + t
  BY <1>1, <1>2, <1>3, <1>4, <1>5, <1>6, <1>7, Zenon
<1> HIDE DEF x, y, z
<1>9. /\ x \in Int /\ y \in Nat /\ x <= y /\ y < TIME_1S_BY_10MS
  BY <1>1, <1>8
<1> QED BY <1>8, <1>9, Zenon DEF t, q

(* The seconds that wait, as events are put and executed.                  *)
LEMMA WaitingFinite ==
  ASSUME NEW S, NEW q \in Seq(S)
  PROVE  /\ IsFiniteSet(Waiting(q)) /\ Cardinality(Waiting(q)) \in Nat
         /\ Cardinality(Waiting(q)) <= Len(q)
         /\ q = <<>> => Cardinality(Waiting(q)) = 0
<1>1. Len(q) \in Nat /\ (q = <<>> => Len(q) = 0)
  OBVIOUS
<1> DEFINE n == Len(q)
           c == Cardinality(1 .. n)
<1>2. IsFiniteSet(1 .. Len(q)) /\ Cardinality(1 .. Len(q)) = Len(q)
  <2>1. n \in Nat
    BY <1>1
  <2> HIDE DEF n
  <2>2. IsFiniteSet(1 .. n) /\ c = IF 1 > n THEN 0 ELSE n - 1 + 1
    BY <2>1, FS_Interval
  <2> HIDE DEF c
  <2>3. c = n
    BY <2>1, <2>2
  <2> QED BY <2>2, <2>3, Zenon DEF c, n
<1>3. Waiting(q) \in SUBSET (1 .. Len(q))
  BY DEF Waiting
<1>4. IsFiniteSet(Waiting(q)) /\ Cardinality(Waiting(q)) <= Len(q)
  BY <1>2, <1>3, FS_Subset
<1>5. Cardinality(Waiting(q)) \in Nat
  BY <1>4, FS_CardinalityType
<1> QED BY <1>1, <1>4, <1>5

LEMMA WaitingPut ==
  ASSUME NEW S, NEW q \in Seq(S), NEW e \in S
  PROVE  Cardinality(Waiting(Append(q, e)))
           = IF e = "rtc" THEN Cardinality(Waiting(q)) + 1 ELSE Cardinality(Waiting(q))
<1> DEFINE n == Len(q) + 1
<1>1. CASE e = "rtc"
  <2>1. Waiting(Append(q, e)) = Waiting(q) \cup {n} /\ n \notin Waiting(q)
    BY <1>1 DEF Waiting
  <2> QED BY <1>1, <2>1, WaitingFinite, FS_AddElement
<1>2. CASE e # "rtc"
  <2>1. Waiting(Append(q, e)) = Waiting(q)
    BY <1>2 DEF Waiting
  <2> QED BY <1>2, <2>1
<1> QED BY <1>1, <1>2

LEMMA WaitingExecuted ==
  ASSUME NEW S, NEW q \in Seq(S), q # <<>>
  PROVE  Cardinality(Waiting(Tail(q)))
           = IF Head(q) = "rtc" THEN Cardinality(Waiting(q)) - 1 ELSE Cardinality(Waiting(q))
<1> DEFINE later == Waiting(q) \ {1}
           f == [k \in later |-> k - 1]
<1>1. /\ Len(q) \in Nat \ {0} /\ Tail(q) \in Seq(S) /\ Len(Tail(q)) = Len(q) - 1 /\ Head(q) = q[1]
      /\ \A k \in 1 .. Len(q) - 1 : Tail(q)[k] = q[k + 1]
  OBVIOUS
<1>2. IsFiniteSet(Waiting(q)) /\ Cardinality(Waiting(q)) \in Nat
  BY WaitingFinite
<1>3. /\ IsFiniteSet(later)
      /\ Cardinality(later) = IF 1 \in Waiting(q) THEN Cardinality(Waiting(q)) - 1
                               ELSE Cardinality(Waiting(q))
  BY <1>2, FS_RemoveElement
<1>4. 1 \in Waiting(q) <=> Head(q) = "rtc"
  BY <1>1 DEF Waiting
<1>5. \A k \in later : k - 1 \in Waiting(Tail(q))
  BY <1>1 DEF Waiting
<1>6. \A k \in Waiting(Tail(q)) : k + 1 \in later /\ (k + 1) - 1 = k
  BY <1>1 DEF Waiting
<1>7. \A k, l \in later : k - 1 = l - 1 => k = l
  BY <1>1 DEF Waiting
<1> HIDE DEF later
<1>8. f \in [later -> Waiting(Tail(q))]
  BY <1>5
<1>9. f \in Surjection(later, Waiting(Tail(q)))
  BY <1>6, <1>8 DEF Surjection
<1>10. f \in Injection(later, Waiting(Tail(q)))
  BY <1>7, <1>8 DEF Injection, IsInjective
<1>11. Cardinality(Waiting(Tail(q))) = Cardinality(later)
  BY <1>3, <1>9, <1>10, FS_Surjection
<1> QED BY <1>3, <1>4, <1>11

(* An event is put at the end of the queue, or dropped.                    *)
LEMMA EventPut ==
  ASSUME Seconds!TimerAssumption, Seconds!TypeOK, NEW e \in {"key", "rtc", "other"},
         Seconds!Put(e)
  PROVE  /\ queue' \in Seq({"key", "rtc", "other"}) /\ Len(queue') <= SCHED_QUEUE_SIZE
         /\ queue' # <<>>
         /\ \/ /\ Len(queue) < SCHED_QUEUE_SIZE /\ Len(queue') = Len(queue) + 1
               /\ queue'[Len(queue) + 1] = e
            \/ /\ Len(queue) = SCHED_QUEUE_SIZE /\ Len(queue') = Len(queue)
         /\ \A k \in 1 .. Len(queue) : queue'[k] = queue[k]
<1>1. /\ queue \in Seq({"key", "rtc", "other"}) /\ Len(queue) <= SCHED_QUEUE_SIZE
      /\ SCHED_QUEUE_SIZE \in Nat \ {0} /\ Len(queue) \in Nat
  BY DEF Seconds!TypeOK, Seconds!TimerAssumption
<1>2. CASE Len(queue) < SCHED_QUEUE_SIZE
  <2>1. queue' = Append(queue, e)
    BY <1>2 DEF Seconds!Put
  <2> QED BY <1>1, <1>2, <2>1
<1>3. CASE ~(Len(queue) < SCHED_QUEUE_SIZE)
  <2>1. queue' = queue
    BY <1>3, Zenon DEF Seconds!Put
  <2> QED BY <1>1, <1>3, <2>1
<1> QED BY <1>2, <1>3

(* The types of the numbers. *)
LEMMA Numbers ==
  ASSUME Seconds!TimerAssumption, Seconds!TypeOK
  PROVE  /\ TIME_20MS_BY_10MS \in Nat \ {0} /\ TIME_1S_BY_10MS \in Nat \ {0}
         /\ SCHED_QUEUE_SIZE \in Nat \ {0} /\ MaxOthers \in Nat
         /\ tick \in 0 .. TIME_1S_BY_10MS /\ ubCount20ms \in 0 .. TIME_20MS_BY_10MS
         /\ queue \in Seq({"key", "rtc", "other"}) /\ Len(queue) \in Nat
         /\ Len(queue) <= SCHED_QUEUE_SIZE /\ (queue = <<>> <=> Len(queue) = 0)
         /\ busy \in Nat /\ busy <= Seconds!Patience(0) + 1 /\ others \in 0 .. MaxOthers
         /\ behind \in 0 .. SCHED_QUEUE_SIZE
<1>1. Seconds!Patience(0) \in Nat /\ Seconds!Patience(0) < TIME_1S_BY_10MS
  BY PatienceShrinks
<1>2. /\ TIME_20MS_BY_10MS \in Nat \ {0} /\ TIME_1S_BY_10MS \in Nat
      /\ SCHED_QUEUE_SIZE \in Nat \ {0} /\ MaxOthers \in Nat
  BY DEF Seconds!TimerAssumption
<1>3. busy \in Nat /\ busy <= Seconds!Patience(0) + 1
  BY <1>1 DEF Seconds!TypeOK
<1>4. /\ tick \in 0 .. TIME_1S_BY_10MS /\ ubCount20ms \in 0 .. TIME_20MS_BY_10MS
      /\ queue \in Seq({"key", "rtc", "other"}) /\ Len(queue) <= SCHED_QUEUE_SIZE
      /\ others \in 0 .. MaxOthers /\ behind \in 0 .. SCHED_QUEUE_SIZE
  BY DEF Seconds!TypeOK
<1>5. TIME_1S_BY_10MS \in Nat \ {0}
  BY <1>1, <1>2
<1>6. Len(queue) \in Nat /\ (queue = <<>> <=> Len(queue) = 0)
  BY <1>4
<1> QED BY <1>2, <1>3, <1>4, <1>5, <1>6

LEMMA TimerInit ==
  ASSUME Seconds!TimerAssumption, Seconds!Init PROVE Seconds!TypeOK /\ TimerInv
<1>1. /\ TIME_20MS_BY_10MS \in Nat \ {0} /\ TIME_1S_BY_10MS \in Nat
      /\ SCHED_QUEUE_SIZE \in Nat \ {0} /\ MaxOthers \in Nat /\ Seconds!Patience(0) \in Nat
  BY PatienceShrinks DEF Seconds!TimerAssumption
<1>2. /\ tick = 0 /\ ubCount20ms = 0 /\ queue = <<>>
      /\ busy = 0 /\ others = 0 /\ overran = FALSE /\ behind = 0
  BY DEF Seconds!Init
<1>3. Seconds!TypeOK
  <2>1. /\ tick \in 0 .. TIME_1S_BY_10MS /\ ubCount20ms \in 0 .. TIME_20MS_BY_10MS
        /\ busy \in 0 .. Seconds!Patience(0) + 1 /\ others \in 0 .. MaxOthers
        /\ behind \in 0 .. SCHED_QUEUE_SIZE
    BY <1>1, <1>2
  <2>2. queue \in Seq({"key", "rtc", "other"}) /\ Len(queue) <= SCHED_QUEUE_SIZE
    BY <1>1, <1>2
  <2> QED BY <1>2, <2>1, <2>2, Zenon DEF Seconds!TypeOK
<1>4. InTime
  <2> DEFINE work == TIME_20MS_BY_10MS * (Len(queue) - others - behind)
  <2>1. work = 0
    BY <1>1, <1>2
  <2> HIDE DEF work
  <2>2. work + ubCount20ms <= busy + TIME_20MS_BY_10MS
    BY <1>1, <1>2, <2>1
  <2>3. Waiting(queue) = {}
    BY <1>2 DEF Waiting
  <2>4. Cardinality(Waiting(queue)) = behind
    BY <1>2, <2>3, FS_EmptySet
  <2>5. busy <= Seconds!Patience(others) /\ behind <= 1
    BY <1>1, <1>2
  <2>6. ~(tick > 0) /\ behind # 1
    BY <1>2
  <2> QED BY <1>2, <2>2, <2>4, <2>5, <2>6, Zenon DEF InTime, work
<1>5. Cardinality(Waiting(queue)) <= behind
  BY <1>2, <1>4 DEF InTime
<1> QED BY <1>3, <1>4, <1>5, Zenon DEF TimerInv

LEMMA TimerTypes ==
  ASSUME Seconds!TimerAssumption, Seconds!TypeOK, TimerInv, Seconds!Next
  PROVE  Seconds!TypeOK'
<1> DEFINE clockTypes == /\ tick' \in 0 .. TIME_1S_BY_10MS
                         /\ ubCount20ms' \in 0 .. TIME_20MS_BY_10MS
           queueTypes == /\ queue' \in Seq({"key", "rtc", "other"})
                         /\ Len(queue') <= SCHED_QUEUE_SIZE
           busyTypes == busy' \in 0 .. Seconds!Patience(0) + 1 /\ others' \in 0 .. MaxOthers
           lateTypes == overran' \in BOOLEAN /\ behind' \in 0 .. SCHED_QUEUE_SIZE
<1>1. clockTypes /\ queueTypes /\ busyTypes /\ lateTypes => Seconds!TypeOK'
  BY Zenon DEF Seconds!TypeOK, Seconds!Patience
<1>2. Seconds!Patience(0) \in Nat /\ overran \in BOOLEAN
  BY PatienceShrinks DEF Seconds!TypeOK
<1>3. CASE Seconds!SysTimer10msCall
  <2>1. /\ tick < TIME_1S_BY_10MS /\ tick' = tick + 1 /\ others' = others /\ behind' = behind
        /\ busy' = IF queue' = <<>> THEN 0
                   ELSE IF busy > Seconds!Patience(0) THEN busy ELSE busy + 1
        /\ overran' = (overran \/ busy' > Seconds!Patience(others))
        /\ \/ /\ ubCount20ms < TIME_20MS_BY_10MS
              /\ ubCount20ms' = ubCount20ms + 1 /\ queue' = queue
           \/ ubCount20ms' = 1 /\ Seconds!Put("key")
    BY <1>3, Zenon DEF Seconds!SysTimer10msCall, Seconds!CountsOn
  <2>2. queueTypes
    BY <2>1, Numbers, EventPut
  <2>3. clockTypes
    BY <2>1, Numbers
  <2>4. busyTypes
    BY <1>2, <2>1, Numbers
  <2>5. lateTypes
    BY <1>2, <2>1, Numbers, Zenon
  <2> QED BY <1>1, <2>2, <2>3, <2>4, <2>5, Zenon
<1>4. CASE Seconds!SysTimer1000msCall
  <2>1. /\ tick' = 0 /\ ubCount20ms' = ubCount20ms /\ busy' = busy /\ others' = others
        /\ overran' = overran /\ Seconds!Put("rtc")
        /\ behind' = IF behind < SCHED_QUEUE_SIZE THEN behind + 1 ELSE behind
    BY <1>4, Zenon DEF Seconds!SysTimer1000msCall
  <2>2. queueTypes
    BY <2>1, EventPut
  <2>3. clockTypes /\ busyTypes /\ behind' \in 0 .. SCHED_QUEUE_SIZE
    BY <1>2, <2>1, Numbers
  <2> QED BY <1>1, <1>2, <2>1, <2>2, <2>3, Zenon
<1>5. CASE Seconds!OtherPut
  <2>1. /\ others < MaxOthers /\ others' = others + 1 /\ Seconds!Put("other")
        /\ overran' = (overran \/ busy > Seconds!Patience(others'))
        /\ tick' = tick /\ ubCount20ms' = ubCount20ms /\ busy' = busy /\ behind' = behind
    BY <1>5, Zenon DEF Seconds!OtherPut
  <2>2. queueTypes
    BY <2>1, EventPut
  <2>3. clockTypes /\ busyTypes
    BY <1>2, <2>1, Numbers
  <2>4. lateTypes
    BY <1>2, <2>1, Numbers, Zenon
  <2> QED BY <1>1, <2>2, <2>3, <2>4, Zenon
<1>6. CASE Seconds!ExecuteEvent
  <2>1. /\ queue # <<>> /\ queue' = Tail(queue)
        /\ behind' = IF Head(queue) = "rtc" THEN behind - 1 ELSE behind
        /\ busy' = IF queue' = <<>> THEN 0 ELSE busy
        /\ others' = IF queue' = <<>> THEN 0 ELSE others
        /\ tick' = tick /\ ubCount20ms' = ubCount20ms /\ overran' = overran
    BY <1>6, Zenon DEF Seconds!ExecuteEvent
  <2>2. queueTypes
    BY <2>1, Numbers
  <2>3. clockTypes /\ busyTypes
    BY <1>2, <2>1, Numbers
  <2>4. Head(queue) = "rtc" => behind > 0
    <3>1. queue \in Seq({"key", "rtc", "other"})
      BY Numbers
    <3>2. /\ Cardinality(Waiting(queue)) \in Nat /\ Cardinality(Waiting(queue')) \in Nat
          /\ Head(queue) = "rtc" =>
               Cardinality(Waiting(queue')) = Cardinality(Waiting(queue)) - 1
      BY <2>1, <2>2, <3>1, WaitingFinite, WaitingExecuted
    <3>3. Cardinality(Waiting(queue)) <= behind /\ behind \in Nat
      BY Numbers DEF TimerInv
    <3> QED BY <3>2, <3>3
  <2>5. behind' \in 0 .. SCHED_QUEUE_SIZE
    BY <2>1, <2>4, Numbers
  <2> QED BY <1>1, <1>2, <2>1, <2>2, <2>3, <2>5, Zenon
<1> QED BY <1>3, <1>4, <1>5, <1>6, Zenon DEF Seconds!Next

LEMMA PutWaiting ==
  ASSUME Seconds!TimerAssumption, Seconds!TypeOK, NEW e \in {"key", "rtc", "other"},
         Seconds!Put(e)
  PROVE  Cardinality(Waiting(queue'))
           = IF e = "rtc" /\ Len(queue) < SCHED_QUEUE_SIZE
             THEN Cardinality(Waiting(queue)) + 1 ELSE Cardinality(Waiting(queue))
<1>1. queue \in Seq({"key", "rtc", "other"})
  BY DEF Seconds!TypeOK
<1>2. CASE Len(queue) < SCHED_QUEUE_SIZE
  <2>1. queue' = Append(queue, e)
    BY <1>2 DEF Seconds!Put
  <2> QED BY <1>1, <1>2, <2>1, WaitingPut
<1>3. CASE ~(Len(queue) < SCHED_QUEUE_SIZE)
  <2>1. queue' = queue
    BY <1>3, Zenon DEF Seconds!Put
  <2> QED BY <1>3, <2>1
<1> QED BY <1>2, <1>3

(* No second in the queue that is not among those the clock is behind by.  *)
LEMMA TimerCounts ==
  ASSUME Seconds!TimerAssumption, Seconds!TypeOK, TimerInv, Seconds!Next
  PROVE  Cardinality(Waiting(queue')) <= behind'
<1> DEFINE c == Cardinality(Waiting(queue))
<1>1. /\ c \in Nat /\ c <= behind /\ behind \in 0 .. SCHED_QUEUE_SIZE
      /\ SCHED_QUEUE_SIZE \in Nat /\ queue \in Seq({"key", "rtc", "other"})
  BY Numbers, WaitingFinite DEF TimerInv
<1>2. CASE Seconds!SysTimer10msCall
  <2>1. behind' = behind /\ (Seconds!Put("key") \/ queue' = queue)
    BY <1>2, Zenon DEF Seconds!SysTimer10msCall
  <2>2. Cardinality(Waiting(queue')) = c
    BY <2>1, PutWaiting
  <2> HIDE DEF c
  <2> QED BY <1>1, <2>1, <2>2
<1>3. CASE Seconds!SysTimer1000msCall
  <2>1. /\ Seconds!Put("rtc")
        /\ behind' = IF behind < SCHED_QUEUE_SIZE THEN behind + 1 ELSE behind
    BY <1>3, Zenon DEF Seconds!SysTimer1000msCall
  <2> DEFINE d == Cardinality(Waiting(queue'))
  <2>2. d = c \/ d = c + 1
    BY <2>1, PutWaiting
  <2>3. d <= SCHED_QUEUE_SIZE
    <3>1. queue' \in Seq({"key", "rtc", "other"}) /\ Len(queue') <= SCHED_QUEUE_SIZE
      BY <2>1, EventPut
    <3>2. d \in Nat /\ d <= Len(queue') /\ Len(queue') \in Nat
      BY <3>1, WaitingFinite
    <3> HIDE DEF d
    <3> QED BY <1>1, <3>1, <3>2
  <2> HIDE DEF c, d
  <2>4. d <= behind'
    BY <1>1, <2>1, <2>2, <2>3
  <2> QED BY <2>4 DEF d
<1>4. CASE Seconds!OtherPut
  <2>1. behind' = behind /\ Seconds!Put("other")
    BY <1>4, Zenon DEF Seconds!OtherPut
  <2>2. Cardinality(Waiting(queue')) = c
    BY <2>1, PutWaiting
  <2> HIDE DEF c
  <2> QED BY <1>1, <2>1, <2>2
<1>5. CASE Seconds!ExecuteEvent
  <2>1. /\ queue # <<>> /\ queue' = Tail(queue)
        /\ behind' = IF Head(queue) = "rtc" THEN behind - 1 ELSE behind
    BY <1>5, Zenon DEF Seconds!ExecuteEvent
  <2>2. Cardinality(Waiting(queue')) = IF Head(queue) = "rtc" THEN c - 1 ELSE c
    BY <1>1, <2>1, WaitingExecuted
  <2> HIDE DEF c
  <2> QED BY <1>1, <2>1, <2>2
<1> QED BY <1>2, <1>3, <1>4, <1>5, Zenon DEF Seconds!Next

(* While the loop keeps up: the steps of the timers. *)
LEMMA TickInTime ==
  ASSUME Seconds!TimerAssumption, Seconds!TypeOK, InTime, Seconds!SysTimer10msCall, ~overran'
  PROVE  InTime'
<1> DEFINE t == TIME_20MS_BY_10MS
           n == Len(queue) - others - behind
           work == t * n
           late == t * (Len(queue') - others' - behind')
           p == Seconds!Patience(others)
<1>1. /\ t \in Nat \ {0} /\ n \in Int /\ behind \in Nat /\ busy \in Nat /\ others \in Nat
      /\ Len(queue) \in Nat /\ SCHED_QUEUE_SIZE \in Nat \ {0}
      /\ tick \in Nat /\ ubCount20ms \in 0 .. t /\ (queue = <<>> <=> Len(queue) = 0)
      /\ queue \in Seq({"key", "rtc", "other"})
  BY Numbers
<1>2. /\ behind <= 1 /\ Cardinality(Waiting(queue)) = behind /\ (behind = 1 => tick <= busy)
      /\ busy <= p /\ (queue = <<>> => busy = 0 /\ others = 0)
      /\ work + ubCount20ms <= busy + t
  BY Zenon DEF InTime
<1>3. work \in Int /\ t * (n + 1) = work + t
  BY <1>1, Products
<1>4. p \in Int /\ p <= Seconds!Patience(0) /\ Seconds!Patience(0) \in Nat
  BY <1>1, PatienceShrinks
<1>5. /\ tick' = tick + 1 /\ others' = others /\ behind' = behind
      /\ busy' = IF queue' = <<>> THEN 0
                 ELSE IF busy > Seconds!Patience(0) THEN busy ELSE busy + 1
      /\ ~(busy' > p)
      /\ \/ /\ ubCount20ms < t /\ ubCount20ms' = ubCount20ms + 1 /\ queue' = queue
         \/ /\ ~(ubCount20ms < t) /\ ubCount20ms' = 1 /\ Seconds!Put("key")
  BY Zenon DEF Seconds!SysTimer10msCall, Seconds!CountsOn
<1>6. queue = <<>> => behind = 0
  BY <1>1, <1>2, WaitingFinite
<1>7. Cardinality(Waiting(queue')) = behind'
  BY <1>2, <1>5, PutWaiting
<1>8. late = work \/ (late = work + t /\ ubCount20ms = t /\ ubCount20ms' = 1)
  <2>1. CASE Len(queue') = Len(queue)
    BY <1>5, <2>1
  <2>2. CASE Len(queue') = Len(queue) + 1 /\ ubCount20ms = t /\ ubCount20ms' = 1
    <3>1. Len(queue') - others' - behind' = n + 1
      BY <1>1, <1>5, <2>2
    <3> QED BY <1>3, <2>2, <3>1
  <2> QED BY <1>1, <1>5, <2>1, <2>2, EventPut
<1>9. queue' = <<>> => queue = <<>> /\ queue' = queue /\ ubCount20ms' <= t
  BY <1>1, <1>5, EventPut
<1>10. queue = <<>> => work = 0
  <2>1. queue = <<>> => n = 0
    BY <1>1, <1>2, <1>6
  <2>2. t * 0 = 0
    BY <1>1
  <2> QED BY <2>1, <2>2
<1>11. queue' = <<>> => late = 0
  BY <1>5, <1>9, <1>10, Zenon
<1>12. queue' # <<>> => busy' = busy + 1
  BY <1>1, <1>2, <1>4, <1>5
<1> DEFINE w == work
           l == late
<1> HIDE DEF w, l, p
<1>13. l + ubCount20ms' <= busy' + t
  BY <1>1, <1>2, <1>3, <1>5, <1>8, <1>9, <1>11, <1>12 DEF w, l
<1>14. /\ behind' <= 1 /\ (behind' = 1 => tick' <= busy') /\ (tick' > 0 => ubCount20ms' > 0)
  BY <1>1, <1>2, <1>5, <1>6, <1>9, <1>12
<1>15. busy' <= p /\ (queue' = <<>> => busy' = 0 /\ others' = 0)
  BY <1>1, <1>2, <1>4, <1>5, <1>9
<1>16. p = Seconds!Patience(others')
  BY <1>5, Zenon DEF p
<1> QED BY <1>7, <1>13, <1>14, <1>15, <1>16, Zenon DEF InTime, l, Seconds!Patience

(* When a second comes the one before it has been counted: it would have   *)
(* waited for longer than the loop's patience.                             *)
LEMMA SecondInTime ==
  ASSUME Seconds!TimerAssumption, Seconds!TypeOK, InTime, Seconds!SysTimer1000msCall
  PROVE  InTime'
<1> DEFINE t == TIME_20MS_BY_10MS
           n == Len(queue) - others - behind
           room == SCHED_QUEUE_SIZE - others
           work == t * n
           p == Seconds!Patience(others)
<1>1. /\ t \in Nat \ {0} /\ n \in Int /\ room \in Int /\ behind \in Nat /\ busy \in Nat
      /\ others \in Nat /\ Len(queue) \in Nat /\ Len(queue) <= SCHED_QUEUE_SIZE
      /\ SCHED_QUEUE_SIZE \in Nat \ {0} /\ TIME_1S_BY_10MS \in Nat \ {0}
      /\ ubCount20ms \in 0 .. t
  BY Numbers
<1>2. /\ behind <= 1 /\ Cardinality(Waiting(queue)) = behind /\ (behind = 1 => tick <= busy)
      /\ busy <= p /\ (queue = <<>> => busy = 0 /\ others = 0)
      /\ work + ubCount20ms <= busy + t /\ (tick > 0 => ubCount20ms > 0)
  BY Zenon DEF InTime
<1>3. p \in Int /\ p < TIME_1S_BY_10MS /\ p + t = t * room
  <2>1. /\ p \in Int /\ p <= Seconds!Patience(0) /\ Seconds!Patience(0) \in Nat
        /\ Seconds!Patience(0) < TIME_1S_BY_10MS /\ p + t = t * room
    BY <1>1, PatienceShrinks
  <2> HIDE DEF p
  <2>2. p < TIME_1S_BY_10MS
    BY <1>1, <2>1
  <2> QED BY <2>1, <2>2, Zenon
<1>4. /\ tick = TIME_1S_BY_10MS /\ tick' = 0 /\ Seconds!Put("rtc")
      /\ behind' = IF behind < SCHED_QUEUE_SIZE THEN behind + 1 ELSE behind
      /\ ubCount20ms' = ubCount20ms /\ busy' = busy /\ others' = others
  BY Zenon DEF Seconds!SysTimer1000msCall
<1>5. behind = 0 /\ behind' = 1
  BY <1>1, <1>2, <1>3, <1>4
<1>6. Len(queue) < SCHED_QUEUE_SIZE
  <2> DEFINE w == work
             r == t * room
  <2>1. w \in Int /\ r \in Int
    BY <1>1, Products
  <2> HIDE DEF w, r
  <2>2. w < r
    <3> HIDE DEF p
    <3> QED BY <1>1, <1>2, <1>3, <1>4, <2>1 DEF w, r
  <2>3. n < room
    BY <1>1, <2>2, Products DEF w, r
  <2> QED BY <1>1, <1>5, <2>3
<1>7. Cardinality(Waiting(queue')) = behind'
  <2>1. Cardinality(Waiting(queue')) = Cardinality(Waiting(queue)) + 1
    BY <1>4, <1>6, PutWaiting
  <2> QED BY <1>2, <1>5, <2>1
<1>8. Len(queue') - others' - behind' = n /\ queue' # <<>>
  <2>1. Len(queue') = Len(queue) + 1 /\ queue' # <<>>
    BY <1>1, <1>4, <1>6, EventPut
  <2> QED BY <1>1, <1>4, <1>5, <2>1
<1>9. t * (Len(queue') - others' - behind') + ubCount20ms' <= busy' + t
  BY <1>2, <1>4, <1>8, Zenon
<1>10. behind' <= 1 /\ tick' <= busy' /\ ~(tick' > 0)
  BY <1>1, <1>4, <1>5
<1>11. busy' <= Seconds!Patience(others')
  BY <1>2, <1>4, Zenon
<1> QED BY <1>7, <1>8, <1>9, <1>10, <1>11, Zenon DEF InTime, Seconds!Patience

LEMMA OtherInTime ==
  ASSUME Seconds!TimerAssumption, Seconds!TypeOK, InTime, Seconds!OtherPut, ~overran'
  PROVE  InTime'
<1> DEFINE t == TIME_20MS_BY_10MS
           n == Len(queue) - others - behind
           work == t * n
           late == t * (Len(queue') - others' - behind')
<1>1. /\ t \in Nat \ {0} /\ n \in Int /\ behind \in Nat /\ busy \in Nat /\ others \in Nat
      /\ Len(queue) \in Nat /\ ubCount20ms \in 0 .. t
  BY Numbers
<1>2. /\ behind <= 1 /\ Cardinality(Waiting(queue)) = behind /\ (behind = 1 => tick <= busy)
      /\ work + ubCount20ms <= busy + t /\ (tick > 0 => ubCount20ms > 0)
  BY Zenon DEF InTime
<1>3. /\ others' = others + 1 /\ Seconds!Put("other") /\ ~(busy > Seconds!Patience(others'))
      /\ tick' = tick /\ ubCount20ms' = ubCount20ms /\ busy' = busy /\ behind' = behind
  BY Zenon DEF Seconds!OtherPut
<1>4. Cardinality(Waiting(queue')) = behind' /\ queue' # <<>>
  BY <1>2, <1>3, PutWaiting, EventPut
<1>5. late \in Int /\ work \in Int /\ late <= work
  <2>1. Len(queue') = Len(queue) \/ Len(queue') = Len(queue) + 1
    BY <1>3, EventPut
  <2> DEFINE m == Len(queue') - others' - behind'
  <2>2. m \in Int /\ m <= n
    BY <1>1, <1>3, <2>1
  <2> HIDE DEF m, n, t
  <2>3. t * m \in Int /\ t * n \in Int /\ t * m <= t * n
    BY <1>1, <2>2, Products
  <2> QED BY <2>3 DEF m
<1>6. late + ubCount20ms' <= busy' + t
  <2> HIDE DEF late, work
  <2> QED BY <1>1, <1>2, <1>3, <1>5
<1>7. busy' <= Seconds!Patience(others')
  <2>1. others' \in Nat
    BY <1>1, <1>3
  <2> DEFINE p == Seconds!Patience(others')
  <2>2. p \in Int
    BY <2>1, PatienceShrinks
  <2> HIDE DEF p
  <2>3. busy <= p
    BY <1>1, <1>3, <2>2 DEF p
  <2> QED BY <1>3, <2>3, Zenon DEF p
<1>8. /\ behind' <= 1 /\ (behind' = 1 => tick' <= busy') /\ (tick' > 0 => ubCount20ms' > 0)
  BY <1>2, <1>3, Zenon
<1> QED BY <1>4, <1>6, <1>7, <1>8, Zenon DEF InTime, Seconds!Patience

LEMMA ExecuteInTime ==
  ASSUME Seconds!TimerAssumption, Seconds!TypeOK, InTime, Seconds!ExecuteEvent
  PROVE  InTime'
<1> DEFINE t == TIME_20MS_BY_10MS
           n == Len(queue) - others - behind
           m == Len(queue') - others' - behind'
           c == Cardinality(Waiting(queue'))
<1>1. /\ t \in Nat \ {0} /\ n \in Int /\ behind \in Nat /\ busy \in Nat /\ others \in Nat
      /\ Len(queue) \in Nat /\ ubCount20ms \in 0 .. t /\ tick \in Nat
      /\ queue \in Seq({"key", "rtc", "other"}) /\ Seconds!Patience(0) \in Nat
  BY Numbers, PatienceShrinks
<1>2. /\ behind <= 1 /\ Cardinality(Waiting(queue)) = behind /\ (behind = 1 => tick <= busy)
      /\ busy <= Seconds!Patience(others)
      /\ t * n + ubCount20ms <= busy + t /\ (tick > 0 => ubCount20ms > 0)
  BY Zenon DEF InTime
<1>3. /\ queue # <<>> /\ queue' = Tail(queue)
      /\ behind' = IF Head(queue) = "rtc" THEN behind - 1 ELSE behind
      /\ busy' = IF queue' = <<>> THEN 0 ELSE busy
      /\ others' = IF queue' = <<>> THEN 0 ELSE others
      /\ tick' = tick /\ ubCount20ms' = ubCount20ms
  BY Zenon DEF Seconds!ExecuteEvent
<1>4. /\ queue' \in Seq({"key", "rtc", "other"}) /\ Len(queue') \in Nat
      /\ Len(queue') = Len(queue) - 1 /\ (queue' = <<>> <=> Len(queue') = 0)
  <2>1. queue # <<>> /\ queue' = Tail(queue) /\ queue \in Seq({"key", "rtc", "other"})
    BY <1>1, <1>3, Zenon
  <2>2. queue' \in Seq({"key", "rtc", "other"}) /\ Len(queue') = Len(queue) - 1
    BY <2>1
  <2>3. Len(queue') \in Nat /\ (queue' = <<>> <=> Len(queue') = 0)
    BY <2>2
  <2> QED BY <2>2, <2>3, Zenon
<1>5. c = behind' /\ c \in Nat /\ (queue' = <<>> => c = 0)
  <2>1. c = IF Head(queue) = "rtc" THEN Cardinality(Waiting(queue)) - 1
            ELSE Cardinality(Waiting(queue))
    BY <1>1, <1>3, WaitingExecuted
  <2>2. c \in Nat /\ (queue' = <<>> => c = 0)
    BY <1>4, WaitingFinite
  <2> HIDE DEF c
  <2> QED BY <1>2, <1>3, <2>1, <2>2
<1> HIDE DEF c
<1>6. behind' = behind \/ (behind = 1 /\ behind' = 0)
  BY <1>1, <1>2, <1>3, <1>5
<1>7. behind' <= 1 /\ (behind' = 1 => tick' <= busy') /\ (tick' > 0 => ubCount20ms' > 0)
  BY <1>1, <1>2, <1>3, <1>5, <1>6
<1>8. busy' <= Seconds!Patience(others') /\ (queue' = <<>> => busy' = 0 /\ others' = 0)
  <2>1. CASE queue' = <<>>
    BY <1>1, <1>3, <2>1
  <2>2. CASE queue' # <<>>
    BY <1>2, <1>3, <2>2, Zenon
  <2> QED BY <2>1, <2>2
<1>9. t * m + ubCount20ms' <= busy' + t
  <2>1. CASE queue' = <<>>
    <3>1. m = 0 /\ busy' = 0
      BY <1>3, <1>4, <1>5, <2>1
    <3>2. t * 0 = 0
      BY <1>1
    <3>3. t * m = 0
      BY <3>1, <3>2, Zenon
    <3> DEFINE l == t * m
    <3>4. l = 0
      BY <3>3
    <3> HIDE DEF l
    <3>5. l + ubCount20ms' <= busy' + t
      BY <1>1, <1>3, <3>1, <3>4
    <3> QED BY <3>5, Zenon DEF l
  <2>2. CASE queue' # <<>>
    <3>1. m \in Int /\ m <= n /\ busy' = busy
      <4>1. others' = others /\ busy' = busy
        BY <1>3, <2>2, Zenon
      <4>2. Len(queue') = Len(queue) - 1 /\ behind' \in Int /\ behind' >= behind - 1
        BY <1>1, <1>4, <1>6
      <4> QED BY <1>1, <4>1, <4>2
    <3> DEFINE w == t * n
               l == t * m
    <3>2. w \in Int /\ l \in Int /\ l <= w
      <4> HIDE DEF m, n, t
      <4> QED BY <1>1, <3>1, Products
    <3>3. w + ubCount20ms <= busy + t
      BY <1>2, Zenon
    <3> HIDE DEF w, l
    <3>4. l + ubCount20ms' <= busy' + t
      BY <1>1, <1>3, <3>1, <3>2, <3>3
    <3> QED BY <3>4, Zenon DEF l
  <2> QED BY <2>1, <2>2
<1> QED BY <1>5, <1>7, <1>8, <1>9, Zenon DEF InTime, Seconds!Patience, c

(* Whatever the periods of the timers, the size of the queue and the other *)
(* events, the clock that SysTimer1000msCall drives is never more than a   *)
(* second behind, as long as the main loop has kept up with the queue.     *)
LEMMA SecondsKeepPace ==
  Seconds!TimerAssumption => (Seconds!Spec => [](Seconds!TypeOK /\ Seconds!ClockKeepsTime))
<1> SUFFICES ASSUME Seconds!TimerAssumption
             PROVE  Seconds!Spec => [](Seconds!TypeOK /\ Seconds!ClockKeepsTime)
  OBVIOUS
<1> DEFINE Inv == Seconds!TypeOK /\ TimerInv
<1>1. Seconds!Init => Inv
  BY TimerInit
<1>2. Inv /\ [Seconds!Next]_Seconds!vars => Inv'
  <2>1. ASSUME Inv, Seconds!Next PROVE Inv'
    <3>1. Seconds!TypeOK' /\ Cardinality(Waiting(queue')) <= behind'
      BY <2>1, TimerTypes, TimerCounts
    <3>2. ASSUME ~overran' PROVE InTime'
      <4>1. InTime
        <5>1. overran \in BOOLEAN /\ ~overran
          BY <2>1, <3>2, Zenon
             DEF Seconds!TypeOK, Seconds!Next, Seconds!SysTimer10msCall,
               Seconds!SysTimer1000msCall, Seconds!OtherPut, Seconds!ExecuteEvent
        <5> QED BY <2>1, <5>1, Zenon DEF TimerInv
      <4> QED BY <2>1, <3>2, <4>1, TickInTime, SecondInTime, OtherInTime, ExecuteInTime, Zenon
              DEF Seconds!Next
    <3> QED BY <3>1, <3>2, Zenon DEF TimerInv, Waiting
  <2>2. ASSUME Inv, UNCHANGED Seconds!vars PROVE Inv'
    BY <2>2, Zenon
       DEF Seconds!vars, Seconds!history, Seconds!TypeOK, Seconds!Patience, TimerInv, InTime,
         Waiting
  <2> QED BY <2>1, <2>2
<1>3. Inv => Seconds!TypeOK /\ Seconds!ClockKeepsTime
  <2>1. ASSUME Inv, ~overran PROVE behind <= 1
    BY <2>1 DEF TimerInv, InTime
  <2> QED BY <2>1, Zenon DEF Seconds!ClockKeepsTime
<1> QED BY <1>1, <1>2, <1>3, PTL DEF Seconds!Spec

-----------------------------------------------------------------------------
(* The one-time triggers.                                                  *)

Week == 0 .. MINUTES * HOURS * DAYS - 1
Date == [minute : 0 .. MINUTES - 1, hour : 0 .. HOURS - 1, dayOfWeek : 0 .. DAYS]
Time == [days : SUBSET (1 .. DAYS), hour : 0 .. HOURS, min : 0 .. MINUTES]
Trigger == [mode : {"NONE", "ONE"}, time : Time]

ClockType == minutes \in Week /\ g_tCommonTime \in Date /\ onTimePreMinutes \in 0 .. MINUTES - 1
SlotsType ==
  /\ g_atIRDataTrigger \in [Alarms!Slot -> Trigger]
  /\ new \in [slot : Alarms!Slot, time : Times \union {Alarms!NotSet}]
LoopType ==
  /\ pc \in {"idle", "hour", "day", "copy days", "copy hour", "copy min"}
  /\ free \in 0 .. SCHED_QUEUE_SIZE
HistoryType ==
  /\ ticked \in BOOLEAN /\ owed \subseteq Alarms!Slot /\ rung \subseteq Alarms!Slot
  /\ odd \subseteq {"set", "torn clock", "queue full"}
AlarmTypes == ClockType /\ SlotsType /\ LoopType /\ HistoryType

Copying == pc \in {"copy days", "copy hour", "copy min"}
AlarmInv ==
  /\ g_tCommonTime.minute = Alarms!DateOf(minutes).minute
  /\ ticked => onTimePreMinutes = g_tCommonTime.minute
  /\ owed \subseteq Alarms!DueAt(Alarms!DateOf(minutes)) /\ (Copying => new.slot \notin owed)
  /\ odd = {} /\ owed # {} => onTimePreMinutes # g_tCommonTime.minute
  /\ "set" \notin odd /\ rung # {} => onTimePreMinutes = g_tCommonTime.minute

-----------------------------------------------------------------------------
(* Minutes, hours and days. *)

LEMMA Division ==
  ASSUME NEW n \in Nat \ {0}, NEW a \in Nat
  PROVE  a % n \in 0 .. n - 1 /\ a \div n \in Nat /\ a = n * (a \div n) + (a % n)
<1>1. a % n \in 0 .. n - 1
  OBVIOUS
<1>2. a \div n \in Nat
  OBVIOUS
<1>3. a = n * (a \div n) + (a % n)
  OBVIOUS
<1> QED BY <1>1, <1>2, <1>3, Zenon

LEMMA Remainder ==
  ASSUME NEW n \in Nat \ {0}, NEW q \in Nat, NEW r \in 0 .. n - 1
  PROVE  (n * q + r) % n = r /\ (n * q + r) \div n = q
<1>1. n * q \in Nat
  OBVIOUS
<1> DEFINE a == n * q + r
           p == a \div n
           s == a % n
<1>2. a \in Nat /\ p \in Nat /\ s \in 0 .. n - 1 /\ a = n * p + s
  BY <1>1
<1>3. n * q + r = n * p + s
  BY <1>2
<1> HIDE DEF p, s
<1>4. ~(q < p)
  <2> SUFFICES ASSUME q < p PROVE FALSE
    OBVIOUS
  <2>1. PICK d \in Nat : p = q + 1 + d
    <3>1. p - q - 1 \in Nat /\ p = q + 1 + (p - q - 1)
      BY <1>2
    <3> QED BY <3>1
  <2>2. n * p = n * q + n + n * d /\ n * d \in Nat
    BY <2>1
  <2> QED BY <1>1, <1>2, <1>3, <2>2
<1>5. ~(p < q)
  <2> SUFFICES ASSUME p < q PROVE FALSE
    OBVIOUS
  <2>1. PICK d \in Nat : q = p + 1 + d
    <3>1. q - p - 1 \in Nat /\ q = p + 1 + (q - p - 1)
      BY <1>2
    <3> QED BY <3>1
  <2>2. n * q = n * p + n + n * d /\ n * d \in Nat /\ n * p \in Nat
    BY <1>2, <2>1
  <2> QED BY <1>1, <1>2, <1>3, <2>2
<1>6. p = q
  BY <1>2, <1>4, <1>5
<1> QED BY <1>1, <1>2, <1>3, <1>6 DEF p, s

LEMMA Sizes ==
  ASSUME Alarms!ClockAssumption
  PROVE  /\ MINUTES \in Nat /\ MINUTES > 1 /\ HOURS \in Nat \ {0} /\ DAYS \in Nat \ {0}
         /\ MINUTES * HOURS \in Nat \ {0} /\ HOURS * DAYS \in Nat \ {0}
         /\ MINUTES * HOURS * DAYS = MINUTES * (HOURS * DAYS)
         /\ MINUTES * HOURS * DAYS \in Nat \ {0}
<1>1. \A a, b, c \in Nat \ {0} :
        a * b \in Nat \ {0} /\ (a * b) * c = a * (b * c) /\ (a * b) * c \in Nat \ {0}
  OBVIOUS
<1>2. MINUTES \in Nat /\ MINUTES > 1 /\ HOURS \in Nat \ {0} /\ DAYS \in Nat \ {0}
  BY DEF Alarms!ClockAssumption
<1> QED BY <1>1, <1>2

(* Entries that are put or executed one at a time keep within the queue. *)
LEMMA QueueSize ==
  ASSUME Alarms!ClockAssumption, free \in 0 .. SCHED_QUEUE_SIZE
  PROVE  /\ free \in Nat
         /\ \A n \in 0 .. free : free - n \in 0 .. SCHED_QUEUE_SIZE
         /\ free > 0 => free - 1 \in 0 .. SCHED_QUEUE_SIZE
         /\ free < SCHED_QUEUE_SIZE => free + 1 \in 0 .. SCHED_QUEUE_SIZE
<1>1. SCHED_QUEUE_SIZE \in Nat
  BY Zenon DEF Alarms!ClockAssumption
<1> QED BY <1>1

LEMMA DateType == ASSUME Alarms!ClockAssumption, NEW m \in Week PROVE Alarms!DateOf(m) \in Date
<1>1. m \in Nat /\ m < MINUTES * HOURS * DAYS
  BY Sizes DEF Week
<1>2. m % MINUTES \in 0 .. MINUTES - 1 /\ m \div MINUTES \in Nat
  <2>1. MINUTES \in Nat \ {0}
    BY Sizes
  <2> QED BY <1>1, <2>1, Division
<1>3. (m \div MINUTES) % HOURS \in 0 .. HOURS - 1
  BY <1>2, Sizes, Division
<1>4. m \div (MINUTES * HOURS) + 1 \in 0 .. DAYS
  <2> DEFINE n == MINUTES * HOURS
             q == m \div n
  <2>1. n \in Nat \ {0} /\ n * DAYS = MINUTES * HOURS * DAYS /\ DAYS \in Nat \ {0}
    BY Sizes
  <2> HIDE DEF n
  <2>2. q \in Nat /\ n * q <= m /\ m < n * DAYS
    <3>1. q \in Nat /\ m = n * q + (m % n) /\ m % n \in 0 .. n - 1
      BY <1>1, <2>1, Division
    <3>2. n * q \in Nat
      BY <2>1, <3>1
    <3> DEFINE s == m % n
               nq == n * q
    <3>3. s \in Nat /\ m = nq + s /\ nq \in Nat
      BY <2>1, <3>1, <3>2
    <3> HIDE DEF s, nq
    <3>4. nq <= m
      BY <3>3
    <3> HIDE DEF q
    <3> QED BY <1>1, <2>1, <3>1, <3>4 DEF nq
  <2> HIDE DEF q
  <2>3. ~(q >= DAYS)
    <3> SUFFICES ASSUME q >= DAYS PROVE FALSE
      OBVIOUS
    <3>1. n * q >= n * DAYS
      BY <2>1, <2>2
    <3> QED BY <1>1, <2>1, <2>2, <3>1
  <2>4. q + 1 \in 0 .. DAYS
    BY <2>1, <2>2, <2>3
  <2> QED BY <2>4 DEF n, q
<1> QED BY <1>2, <1>3, <1>4 DEF Alarms!DateOf, Date

(* A minute's number is not that of the minute before it, even at midnight *)
(* at the end of the week.                                                 *)
LEMMA NextNumber ==
  ASSUME Alarms!ClockAssumption, NEW m \in Week
  PROVE  LET next == (m + 1) % (MINUTES * HOURS * DAYS)
         IN next \in Week /\ Alarms!DateOf(next).minute # Alarms!DateOf(m).minute
<1> DEFINE N == MINUTES * HOURS * DAYS
           K == HOURS * DAYS
           next == (m + 1) % N
           q == m \div MINUTES
           r == m % MINUTES
<1>1. N \in Nat \ {0} /\ K \in Nat \ {0} /\ N = MINUTES * K /\ MINUTES \in Nat /\ MINUTES > 1
  BY Sizes
<1>2. m \in Nat /\ m + 1 <= N
  BY <1>1 DEF Week
<1>3. q \in Nat /\ r \in 0 .. MINUTES - 1 /\ m = MINUTES * q + r
  BY <1>1, <1>2
<1>4. next \in 0 .. N - 1
  BY <1>1, <1>2
<1>5. \A p \in Nat : \A s \in 0 .. MINUTES - 1 : (MINUTES * p + s) % MINUTES = s
  <2>1. MINUTES \in Nat \ {0}
    BY <1>1
  <2> QED BY <2>1, Remainder
<1> HIDE DEF N, K, q, r
<1>6. next % MINUTES # m % MINUTES
  <2>1. CASE m + 1 < N
    <3>1. next = m + 1
      <4>1. N * 0 + (m + 1) = m + 1 /\ m + 1 \in 0 .. N - 1
        BY <1>1, <1>2, <2>1
      <4>2. (N * 0 + (m + 1)) % N = m + 1
        BY <1>1, <4>1, Remainder
      <4> QED BY <4>1, <4>2
    <3>2. CASE r < MINUTES - 1
      <4>1. m + 1 = MINUTES * q + (r + 1) /\ r + 1 \in 0 .. MINUTES - 1
        BY <1>1, <1>3, <3>2
      <4>2. (MINUTES * q + (r + 1)) % MINUTES = r + 1
        BY <1>3, <1>5, <4>1, Zenon
      <4>3. next % MINUTES = r + 1
        BY <3>1, <4>1, <4>2, Zenon
      <4> QED BY <1>3, <4>3 DEF r
    <3>3. CASE r = MINUTES - 1
      <4>1. m + 1 = MINUTES * (q + 1) + 0 /\ q + 1 \in Nat /\ 0 \in 0 .. MINUTES - 1
        BY <1>1, <1>3, <3>3
      <4>2. (MINUTES * (q + 1) + 0) % MINUTES = 0
        BY <1>1, <4>1, Remainder
      <4>3. next % MINUTES = 0
        BY <3>1, <4>1, <4>2, Zenon
      <4> QED BY <1>1, <3>3, <4>3 DEF r
    <3> QED BY <1>1, <1>3, <3>2, <3>3
  <2>2. CASE m + 1 = N
    <3>1. next = 0
      <4>1. (N * 1 + 0) % N = 0 /\ N * 1 + 0 = m + 1
        BY <1>1, <2>2, Remainder
      <4> QED BY <4>1
    <3>2. next % MINUTES = 0
      <4>1. (MINUTES * 0 + 0) % MINUTES = 0 /\ MINUTES * 0 + 0 = 0
        BY <1>1, Remainder
      <4> QED BY <3>1, <4>1
    <3>3. m = MINUTES * (K - 1) + (MINUTES - 1) /\ K - 1 \in Nat
      BY <1>1, <1>2, <2>2
    <3>4. (MINUTES * (K - 1) + (MINUTES - 1)) % MINUTES = MINUTES - 1
      <4>1. MINUTES - 1 \in 0 .. MINUTES - 1
        BY <1>1
      <4> QED BY <1>5, <3>3, <4>1, Zenon
    <3>5. m % MINUTES = MINUTES - 1
      BY <3>3, <3>4, Zenon
    <3> QED BY <1>1, <3>2, <3>5
  <2> QED BY <1>1, <1>2, <2>1, <2>2
<1>7. Alarms!DateOf(next).minute = next % MINUTES /\ Alarms!DateOf(m).minute = m % MINUTES
  BY DEF Alarms!DateOf
<1>8. next \in Week
  BY <1>4 DEF N, Week
<1> QED BY <1>6, <1>7, <1>8 DEF N

-----------------------------------------------------------------------------
(* Triggers that are due, and how many of them the queue takes. *)

LEMMA SameCardinality == \A S : Alarms!Cardinality(S) = Cardinality(S)
BY Zenon DEF Alarms!Cardinality, Cardinality

LEMMA Greatest ==
  ASSUME Alarms!ClockAssumption, NEW S, S \subseteq Alarms!Slot, S # {}
  PROVE  \E i \in S : \A j \in S : j <= i
<1> DEFINE Bounds == {b \in Nat : \A i \in S : i <= b}
<1>1. MAX_IR_CODE \in Nat /\ \A i \in S : i \in Nat /\ i > 0 /\ i <= MAX_IR_CODE
  BY DEF Alarms!ClockAssumption, Alarms!Slot
<1>2. PICK b \in Bounds : \A c \in Bounds : b <= c
  <2>1. Bounds \subseteq Nat /\ MAX_IR_CODE \in Bounds
    BY <1>1
  <2> HIDE DEF Bounds
  <2> QED BY <2>1, Least
<1>3. CASE b \notin S
  <2>1. b - 1 \in Nat /\ \A i \in S : i <= b - 1
    BY <1>1, <1>2, <1>3
  <2>2. b - 1 \in Bounds
    BY <2>1
  <2> QED BY <1>2, <2>2
<1> QED BY <1>2, <1>3

LEMMA SlotsAreFinite ==
  ASSUME Alarms!ClockAssumption, NEW S, S \subseteq Alarms!Slot
  PROVE  IsFiniteSet(S) /\ Cardinality(S) \in Nat
<1>1. IsFiniteSet(Alarms!Slot)
  BY FS_Interval DEF Alarms!Slot, Alarms!ClockAssumption
<1> QED BY <1>1, FS_Subset, FS_CardinalityType

(* The queue takes no more than it has room for.                           *)
LEMMA RoomForAccepted ==
  ASSUME Alarms!ClockAssumption, free \in Nat, NEW due, due \subseteq Alarms!Slot
  PROVE  /\ Alarms!Accepted(due) \subseteq due
         /\ Cardinality(Alarms!Accepted(due)) \in 0 .. free
<1> DEFINE A == Alarms!Accepted(due)
<1>1. A \subseteq due /\ \A i \in A : Cardinality({j \in due : j < i}) < free
  BY SameCardinality DEF Alarms!Accepted
<1> HIDE DEF A
<1>2. IsFiniteSet(A) /\ Cardinality(A) \in Nat
  BY <1>1, SlotsAreFinite
<1>3. CASE A = {}
  BY <1>3, FS_EmptySet DEF A
<1>4. CASE A # {}
  <2>1. PICK m \in A : \A j \in A : j <= m
    BY <1>1, <1>4, Greatest
  <2> DEFINE before == {j \in due : j < m}
  <2>2. A \ {m} \subseteq before
    <3>1. \A j \in A : j \in Nat
      BY <1>1 DEF Alarms!Slot
    <3> QED BY <1>1, <2>1, <3>1
  <2>3. IsFiniteSet(before) /\ Cardinality(before) \in Nat /\ Cardinality(before) < free
    <3>1. before \subseteq Alarms!Slot
      OBVIOUS
    <3> QED BY <1>1, <2>1, <3>1, SlotsAreFinite
  <2> HIDE DEF before
  <2>4. Cardinality(A \ {m}) <= Cardinality(before)
    BY <2>2, <2>3, FS_Subset
  <2>5. Cardinality(A \ {m}) = Cardinality(A) - 1
    BY <1>2, FS_RemoveElement
  <2>6. Cardinality(A) <= free
    BY <1>2, <2>3, <2>4, <2>5
  <2> QED BY <1>1, <1>2, <2>6 DEF A
<1> QED BY <1>3, <1>4

LEMMA DueAreSlots == ASSUME NEW when PROVE Alarms!DueAt(when) \subseteq Alarms!Slot
  BY DEF Alarms!DueAt

(* A tick looks through the triggers, or finds that it has been done.      *)
LEMMA TickEffect ==
  ASSUME Alarms!ClockAssumption, AlarmTypes, Alarms!App_AlarmOnTimeHandler
  PROVE  /\ UNCHANGED <<Alarms!clock, Alarms!table, pc>>
         /\ ticked' = (ticked \/ pc \notin {"hour", "day"})
         /\ onTimePreMinutes' = g_tCommonTime.minute
         /\ \/ /\ onTimePreMinutes # g_tCommonTime.minute
               /\ Alarms!Put(Alarms!Accepted(Alarms!DueAt(g_tCommonTime)),
                             Alarms!DueAt(g_tCommonTime))
            \/ /\ onTimePreMinutes = g_tCommonTime.minute
               /\ UNCHANGED <<free, owed, rung, odd>>
<1>1. /\ UNCHANGED <<Alarms!clock, Alarms!table, pc>>
      /\ ticked' = (ticked \/ pc \notin {"hour", "day"})
      /\ IF onTimePreMinutes # g_tCommonTime.minute
         THEN Alarms!LookThrough(Alarms!DueAt(g_tCommonTime))
         ELSE UNCHANGED <<onTimePreMinutes, free, owed, rung, odd>>
  BY Zenon DEF Alarms!App_AlarmOnTimeHandler
<1> QED BY <1>1, Zenon DEF Alarms!LookThrough

-----------------------------------------------------------------------------
(* Types. *)

LEMMA InitTypes == ASSUME Alarms!ClockAssumption, Alarms!Init PROVE AlarmTypes
<1>1. ClockType
  BY Sizes DEF Alarms!Init, ClockType, Week, Date
<1>2. 1 \in Alarms!Slot /\ Alarms!NotSet \in Time
  BY DEF Alarms!ClockAssumption, Alarms!Slot, Alarms!NotSet, Time
<1>3. SlotsType
  <2>1. Alarms!Cleared \in Trigger
    BY <1>2 DEF Alarms!Cleared, Trigger
  <2> QED BY <1>2, <2>1 DEF Alarms!Init, SlotsType
<1>4. LoopType
  BY DEF Alarms!Init, LoopType, Alarms!ClockAssumption
<1>5. HistoryType
  BY DEF Alarms!Init, HistoryType
<1> QED BY <1>1, <1>3, <1>4, <1>5 DEF AlarmTypes

(* The stores of a conversion, field by field. *)
LEMMA DateFields ==
  ASSUME g_tCommonTime \in Date
  PROVE  /\ \A k \in 0 .. MINUTES - 1 :
              /\ [g_tCommonTime EXCEPT !.minute = k] \in Date
              /\ [g_tCommonTime EXCEPT !.minute = k].minute = k
         /\ \A k \in 0 .. HOURS - 1 :
              /\ [g_tCommonTime EXCEPT !.hour = k] \in Date
              /\ [g_tCommonTime EXCEPT !.hour = k].minute = g_tCommonTime.minute
         /\ \A k \in 0 .. DAYS :
              /\ [g_tCommonTime EXCEPT !.dayOfWeek = k] \in Date
              /\ [g_tCommonTime EXCEPT !.dayOfWeek = k].minute = g_tCommonTime.minute
  BY DEF Date

LEMMA ConvertTypes ==
  ASSUME Alarms!ClockAssumption, AlarmTypes, NEW m \in Week, Alarms!Convert(m)
  PROVE  /\ ClockType' /\ LoopType' /\ UNCHANGED <<onTimePreMinutes, Alarms!table, free>>
         /\ minutes' = m /\ pc' = "hour" /\ pc = "idle"
         /\ g_tCommonTime'.minute = Alarms!DateOf(m).minute
<1>1. ClockType /\ LoopType
  BY DEF AlarmTypes
<1>2. /\ minutes' = m /\ pc' = "hour" /\ pc = "idle"
      /\ g_tCommonTime' = [g_tCommonTime EXCEPT !.minute = Alarms!DateOf(m).minute]
      /\ UNCHANGED <<onTimePreMinutes, Alarms!table, free>>
  BY Zenon DEF Alarms!Convert
<1>3. Alarms!DateOf(m).minute \in 0 .. MINUTES - 1
  BY DateType DEF Date
<1>4. g_tCommonTime' \in Date /\ g_tCommonTime'.minute = Alarms!DateOf(m).minute
  BY <1>1, <1>2, <1>3, DateFields DEF ClockType
<1> QED BY <1>1, <1>2, <1>4 DEF ClockType, LoopType, Week, Date

LEMMA StoreTypes ==
  ASSUME Alarms!ClockAssumption, AlarmTypes, Alarms!StoreHour \/ Alarms!StoreDay
  PROVE  /\ ClockType' /\ LoopType'
         /\ UNCHANGED <<minutes, onTimePreMinutes, Alarms!table, free, Alarms!history>>
         /\ g_tCommonTime'.minute = g_tCommonTime.minute
         /\ pc \in {"hour", "day"} /\ pc' \in {"day", "idle"}
<1>1. ClockType /\ LoopType
  BY DEF AlarmTypes
<1>2. /\ UNCHANGED <<minutes, onTimePreMinutes, Alarms!table, free, Alarms!history>>
      /\ pc \in {"hour", "day"} /\ pc' \in {"day", "idle"}
      /\ \/ g_tCommonTime' = [g_tCommonTime EXCEPT !.hour = Alarms!DateOf(minutes).hour]
         \/ g_tCommonTime' = [g_tCommonTime EXCEPT !.dayOfWeek = Alarms!DateOf(minutes).dayOfWeek]
  BY DEF Alarms!StoreHour, Alarms!StoreDay
<1>3. /\ Alarms!DateOf(minutes).hour \in 0 .. HOURS - 1
      /\ Alarms!DateOf(minutes).dayOfWeek \in 0 .. DAYS
  BY <1>1, DateType DEF ClockType, Date
<1>4. g_tCommonTime' \in Date /\ g_tCommonTime'.minute = g_tCommonTime.minute
  <2>1. g_tCommonTime \in Date
    BY <1>1 DEF ClockType
  <2>2. CASE g_tCommonTime' = [g_tCommonTime EXCEPT !.hour = Alarms!DateOf(minutes).hour]
    BY <1>3, <2>1, <2>2, DateFields, Zenon
  <2>3. CASE g_tCommonTime' = [g_tCommonTime EXCEPT !.dayOfWeek = Alarms!DateOf(minutes).dayOfWeek]
    BY <1>3, <2>1, <2>3, DateFields, Zenon
  <2> QED BY <1>2, <2>2, <2>3
<1> QED BY <1>1, <1>2, <1>4 DEF ClockType, LoopType, Week, Date

LEMMA NewIsTyped ==
  ASSUME Alarms!ClockAssumption, SlotsType
  PROVE  /\ new.slot \in Alarms!Slot /\ new.time \in Time
         /\ [slot |-> 1, time |-> Alarms!NotSet]
              \in [slot : Alarms!Slot, time : Times \union {Alarms!NotSet}]
  BY DEF Alarms!ClockAssumption, SlotsType, Alarms!Slot, Alarms!NotSet, Time

(* A trigger goes into a slot that is free. *)
LEMMA InsertEffect ==
  ASSUME Alarms!ClockAssumption, AlarmTypes, NEW time \in Times, Alarms!InsertTrigger(time)
  PROVE  /\ pc = "idle" /\ pc' = "copy days"
         /\ UNCHANGED <<Alarms!clock, onTimePreMinutes, free, Alarms!history>>
         /\ SlotsType' /\ g_atIRDataTrigger[new'.slot].mode = "NONE" /\ new'.slot \in Alarms!Slot
         /\ \A i \in Alarms!Slot \ {new'.slot} : g_atIRDataTrigger'[i] = g_atIRDataTrigger[i]
<1> DEFINE unused == {i \in Alarms!Slot : g_atIRDataTrigger[i].mode = "NONE"}
           slot == CHOOSE i \in unused : \A j \in unused : i <= j
<1>1. /\ pc = "idle" /\ pc' = "copy days"
      /\ UNCHANGED <<Alarms!clock, onTimePreMinutes, free, Alarms!history>>
      /\ unused # {} /\ new' = [slot |-> slot, time |-> time]
      /\ g_atIRDataTrigger' = [g_atIRDataTrigger EXCEPT ![slot].mode = "ONE"]
  BY Zenon DEF Alarms!InsertTrigger
<1>2. slot \in unused
  <2>1. unused \subseteq Nat
    BY DEF Alarms!Slot, Alarms!ClockAssumption
  <2>2. \E i \in unused : \A j \in unused : i <= j
    <3> HIDE DEF unused
    <3> QED BY <1>1, <2>1, Least
  <2> HIDE DEF unused
  <2> QED BY <2>2, Zenon
<1>3. slot \in Alarms!Slot /\ g_atIRDataTrigger[slot].mode = "NONE"
  BY <1>2
<1> HIDE DEF slot, unused
<1>4. SlotsType
  BY DEF AlarmTypes
<1>5. [g_atIRDataTrigger[slot] EXCEPT !.mode = "ONE"] \in Trigger
  BY <1>3, <1>4 DEF SlotsType, Trigger
<1>6. g_atIRDataTrigger' =
        [g_atIRDataTrigger EXCEPT ![slot] = [g_atIRDataTrigger[slot] EXCEPT !.mode = "ONE"]]
  BY <1>1, Zenon
<1>7. /\ g_atIRDataTrigger' \in [Alarms!Slot -> Trigger]
      /\ \A i \in Alarms!Slot \ {slot} : g_atIRDataTrigger'[i] = g_atIRDataTrigger[i]
  BY <1>3, <1>4, <1>5, <1>6 DEF SlotsType
<1>8. new' \in [slot : Alarms!Slot, time : Times \union {Alarms!NotSet}] /\ new'.slot = slot
  BY <1>1, <1>3
<1> QED BY <1>1, <1>3, <1>7, <1>8 DEF SlotsType

(* Its time follows field by field, and touches no other slot. *)
LEMMA CopyEffect ==
  ASSUME Alarms!ClockAssumption, AlarmTypes, Alarms!CopyTrigger
  PROVE  /\ UNCHANGED <<Alarms!clock, onTimePreMinutes, free, Alarms!history>> /\ Copying
         /\ SlotsType' /\ LoopType' /\ (Copying' => new' = new)
         /\ \A i \in Alarms!Slot \ {new.slot} : g_atIRDataTrigger'[i] = g_atIRDataTrigger[i]
<1>1. SlotsType /\ LoopType /\ new.slot \in Alarms!Slot /\ new.time \in Time
  BY NewIsTyped DEF AlarmTypes
<1>2. /\ UNCHANGED <<Alarms!clock, onTimePreMinutes, free, Alarms!history>> /\ Copying
      /\ pc' \in {"copy hour", "copy min", "idle"}
      /\ new' = IF pc' = "idle" THEN [slot |-> 1, time |-> Alarms!NotSet] ELSE new
  BY DEF Alarms!CopyTrigger, Alarms!CopyField, Copying
<1>3. PICK field \in {"days", "hour", "min"} :
        g_atIRDataTrigger' =
          [g_atIRDataTrigger EXCEPT ![new.slot].time[field] = new.time[field]]
  BY Zenon DEF Alarms!CopyTrigger, Alarms!CopyField
<1> DEFINE old == g_atIRDataTrigger[new.slot]
           time == [old.time EXCEPT ![field] = new.time[field]]
<1>4. g_atIRDataTrigger' = [g_atIRDataTrigger EXCEPT ![new.slot] = [old EXCEPT !.time = time]]
  BY <1>3, Zenon
<1>5. old \in Trigger /\ old.time \in Time
  BY <1>1 DEF SlotsType, Trigger
<1>6. time \in Time
  BY <1>1, <1>5 DEF Time
<1>7. [old EXCEPT !.time = time] \in Trigger
  <2> HIDE DEF time, old
  <2> QED BY <1>5, <1>6 DEF Trigger
<1> HIDE DEF time, old
<1>8. /\ g_atIRDataTrigger' \in [Alarms!Slot -> Trigger]
      /\ \A i \in Alarms!Slot \ {new.slot} : g_atIRDataTrigger'[i] = g_atIRDataTrigger[i]
  BY <1>1, <1>4, <1>7 DEF SlotsType
<1>9. new' \in [slot : Alarms!Slot, time : Times \union {Alarms!NotSet}]
  BY <1>1, <1>2, NewIsTyped DEF SlotsType
<1> QED BY <1>1, <1>2, <1>8, <1>9 DEF SlotsType, LoopType, Copying

(* A trigger that is removed keeps its time and loses its mode. *)
LEMMA RemoveEffect ==
  ASSUME Alarms!ClockAssumption, AlarmTypes, NEW i \in Alarms!Slot, Alarms!Mid_RemoveIRTrigger(i)
  PROVE  /\ UNCHANGED <<Alarms!clock, onTimePreMinutes, new, pc, free, ticked, odd>> /\ pc = "idle"
         /\ SlotsType' /\ owed' = owed \ {i} /\ rung' = rung \ {i}
         /\ \A j \in Alarms!Slot \ {i} : g_atIRDataTrigger'[j] = g_atIRDataTrigger[j]
<1>1. SlotsType
  BY DEF AlarmTypes
<1>2. /\ UNCHANGED <<Alarms!clock, onTimePreMinutes, new, pc, free, ticked, odd>> /\ pc = "idle"
      /\ owed' = owed \ {i} /\ rung' = rung \ {i}
      /\ g_atIRDataTrigger' = [g_atIRDataTrigger EXCEPT ![i].mode = "NONE"]
  BY Zenon DEF Alarms!Mid_RemoveIRTrigger
<1>3. g_atIRDataTrigger' =
        [g_atIRDataTrigger EXCEPT ![i] = [g_atIRDataTrigger[i] EXCEPT !.mode = "NONE"]]
  BY <1>2, Zenon
<1>4. [g_atIRDataTrigger[i] EXCEPT !.mode = "NONE"] \in Trigger
  BY <1>1 DEF SlotsType, Trigger
<1>5. /\ g_atIRDataTrigger' \in [Alarms!Slot -> Trigger]
      /\ \A j \in Alarms!Slot \ {i} : g_atIRDataTrigger'[j] = g_atIRDataTrigger[j]
  BY <1>1, <1>3, <1>4 DEF SlotsType
<1> QED BY <1>1, <1>2, <1>5 DEF SlotsType

(* The conversions of the main loop: another minute, or the same again. *)
LEMMA NextMinuteEffect ==
  ASSUME Alarms!ClockAssumption, AlarmTypes, Alarms!NextMinute
  PROVE  /\ minutes' \in Week /\ Alarms!Convert(minutes')
         /\ Alarms!DateOf(minutes').minute # Alarms!DateOf(minutes).minute
         /\ ticked /\ ticked' = FALSE
         /\ owed' = Alarms!DueAt(Alarms!DateOf(minutes')) /\ rung' = {} /\ odd' = {}
<1> DEFINE m == (minutes + 1) % (MINUTES * HOURS * DAYS)
<1>1. /\ Alarms!Convert(m) /\ owed' = Alarms!DueAt(Alarms!DateOf(m))
      /\ ticked /\ ticked' = FALSE /\ rung' = {} /\ odd' = {}
  BY Zenon DEF Alarms!NextMinute
<1>2. minutes' = m
  BY <1>1, Zenon DEF Alarms!Convert
<1>3. minutes \in Week
  BY DEF AlarmTypes, ClockType
<1>4. m \in Week /\ Alarms!DateOf(m).minute # Alarms!DateOf(minutes).minute
  BY <1>3, NextNumber, Zenon
<1> HIDE DEF m
<1> QED BY <1>1, <1>2, <1>4, Zenon

LEMMA SetClockEffect ==
  ASSUME Alarms!ClockAssumption, AlarmTypes, Alarms!Mid_DecodeRTCSet
  PROVE  /\ minutes' \in Week /\ Alarms!Convert(minutes')
         /\ ticked' = FALSE /\ owed' = {} /\ rung' = {} /\ odd' = {"set"}
<1>1. PICK m \in Week : Alarms!Convert(m)
  BY Zenon DEF Alarms!Mid_DecodeRTCSet, Week
<1>2. minutes' = m
  BY <1>1, Zenon DEF Alarms!Convert
<1> QED BY <1>1, <1>2, Zenon DEF Alarms!Mid_DecodeRTCSet

LEMMA TickTypes ==
  ASSUME Alarms!ClockAssumption, AlarmTypes, Alarms!App_AlarmOnTimeHandler PROVE AlarmTypes'
<1>1. ClockType /\ SlotsType /\ LoopType /\ HistoryType
  BY DEF AlarmTypes
<1> DEFINE due == Alarms!DueAt(g_tCommonTime)
<1>2. /\ UNCHANGED <<Alarms!clock, Alarms!table, pc>>
      /\ ticked' = (ticked \/ pc \notin {"hour", "day"})
      /\ onTimePreMinutes' = g_tCommonTime.minute
      /\ Alarms!Put(Alarms!Accepted(due), due) \/ UNCHANGED <<free, owed, rung, odd>>
  BY TickEffect, Zenon
<1>3. onTimePreMinutes' \in 0 .. MINUTES - 1
  BY <1>1, <1>2 DEF ClockType, Date
<1>4. ClockType' /\ SlotsType'
  BY <1>1, <1>2, <1>3 DEF ClockType, SlotsType, Alarms!clock, Alarms!table
<1>5. ticked' \in BOOLEAN
  BY <1>2, Zenon
<1>6. CASE UNCHANGED <<free, owed, rung, odd>>
  BY <1>1, <1>2, <1>4, <1>5, <1>6 DEF AlarmTypes, LoopType, HistoryType
<1>7. CASE Alarms!Put(Alarms!Accepted(due), due)
  <2>1. /\ free' = free - Cardinality(Alarms!Accepted(due))
        /\ rung' = rung \union Alarms!Accepted(due) /\ owed' = owed \ Alarms!Accepted(due)
        /\ odd' \subseteq odd \union {"torn clock", "queue full"}
    <3> HIDE DEF due
    <3>1. /\ free' = free - Cardinality(Alarms!Accepted(due))
          /\ rung' = rung \union Alarms!Accepted(due) /\ owed' = owed \ Alarms!Accepted(due)
      BY <1>7, SameCardinality, Zenon DEF Alarms!Put
    <3>2. odd' = odd \union (IF g_tCommonTime # Alarms!DateOf(minutes) THEN {"torn clock"} ELSE {})
                   \union (IF Alarms!Accepted(due) # due THEN {"queue full"} ELSE {})
      BY <1>7, SameCardinality, Zenon DEF Alarms!Put
    <3>3. odd' \subseteq odd \union {"torn clock", "queue full"}
      BY <3>2
    <3> QED BY <3>1, <3>3
  <2>2. free \in 0 .. SCHED_QUEUE_SIZE /\ free \in Nat /\ due \subseteq Alarms!Slot
    <3>1. free \in 0 .. SCHED_QUEUE_SIZE
      BY <1>1 DEF LoopType
    <3> QED BY <3>1, QueueSize, DueAreSlots, Zenon
  <2>3. Alarms!Accepted(due) \subseteq due /\ Cardinality(Alarms!Accepted(due)) \in 0 .. free
    BY <2>2, RoomForAccepted
  <2>4. free' \in 0 .. SCHED_QUEUE_SIZE
    BY <2>1, <2>2, <2>3, QueueSize, Zenon
  <2>5. LoopType'
    BY <1>1, <1>2, <2>4 DEF LoopType
  <2> HIDE DEF due
  <2>6. HistoryType'
    BY <1>1, <1>5, <2>1, <2>2, <2>3 DEF HistoryType
  <2> QED BY <1>4, <2>5, <2>6 DEF AlarmTypes
<1> QED BY <1>2, <1>6, <1>7

LEMMA NextTypes ==
  ASSUME Alarms!ClockAssumption, AlarmTypes, [Alarms!Next]_(Alarms!vars) PROVE AlarmTypes'
<1>1. ClockType /\ SlotsType /\ LoopType /\ HistoryType
  BY DEF AlarmTypes
<1>2. ASSUME NEW m \in Week, Alarms!Convert(m) PROVE ClockType' /\ SlotsType' /\ LoopType'
  BY <1>1, <1>2, ConvertTypes DEF SlotsType, Alarms!table
<1>3. CASE Alarms!SameMinute
  <2>1. Alarms!Convert(minutes) /\ minutes \in Week /\ HistoryType'
    BY <1>1, <1>3 DEF Alarms!SameMinute, Alarms!history, HistoryType, ClockType
  <2> QED BY <1>2, <2>1 DEF AlarmTypes
<1>4. CASE Alarms!NextMinute
  <2>1. HistoryType'
    <3>1. owed' \subseteq Alarms!Slot
      BY <1>4, NextMinuteEffect, DueAreSlots
    <3> QED BY <1>4, <3>1, NextMinuteEffect DEF HistoryType
  <2> QED BY <1>2, <1>4, <2>1, NextMinuteEffect DEF AlarmTypes
<1>5. CASE Alarms!Mid_DecodeRTCSet
  <2>1. HistoryType'
    BY <1>5, SetClockEffect DEF HistoryType
  <2> QED BY <1>2, <1>5, <2>1, SetClockEffect DEF AlarmTypes
<1>6. CASE Alarms!StoreHour \/ Alarms!StoreDay
  <2>1. ClockType' /\ LoopType' /\ UNCHANGED <<Alarms!table, Alarms!history>>
    BY <1>6, StoreTypes
  <2> QED BY <1>1, <2>1 DEF AlarmTypes, SlotsType, HistoryType, Alarms!table, Alarms!history
<1>7. ASSUME NEW time \in Times, Alarms!InsertTrigger(time) PROVE AlarmTypes'
  <2>1. /\ SlotsType' /\ pc' = "copy days"
        /\ UNCHANGED <<Alarms!clock, onTimePreMinutes, free, Alarms!history>>
    BY <1>7, InsertEffect
  <2> QED BY <1>1, <2>1 DEF AlarmTypes, ClockType, LoopType, HistoryType, Alarms!clock,
                          Alarms!history
<1>8. CASE Alarms!CopyTrigger
  <2>1. /\ SlotsType' /\ LoopType'
        /\ UNCHANGED <<Alarms!clock, onTimePreMinutes, free, Alarms!history>>
    BY <1>8, CopyEffect
  <2> QED BY <1>1, <2>1 DEF AlarmTypes, ClockType, HistoryType, Alarms!clock, Alarms!history
<1>9. ASSUME NEW i \in Alarms!Slot, Alarms!Mid_RemoveIRTrigger(i) PROVE AlarmTypes'
  <2>1. /\ UNCHANGED <<Alarms!clock, onTimePreMinutes, new, pc, free, ticked, odd>> /\ SlotsType'
        /\ owed' \subseteq owed /\ rung' \subseteq rung
    BY <1>9, RemoveEffect
  <2> QED BY <1>1, <2>1 DEF AlarmTypes, ClockType, LoopType, HistoryType, Alarms!clock
<1>10. CASE Alarms!ExecuteEvent \/ Alarms!OtherPut
  <2>1. /\ UNCHANGED <<Alarms!clock, onTimePreMinutes, Alarms!table, pc, Alarms!history>>
        /\ \/ free < SCHED_QUEUE_SIZE /\ free' = free + 1
           \/ free > 0 /\ free' = free - 1
    BY <1>10, Zenon DEF Alarms!ExecuteEvent, Alarms!OtherPut
  <2>2. LoopType'
    <3>1. free' \in 0 .. SCHED_QUEUE_SIZE
      <4>1. free \in 0 .. SCHED_QUEUE_SIZE
        BY <1>1 DEF LoopType
      <4> QED BY <2>1, <4>1, QueueSize, Zenon
    <3> QED BY <1>1, <2>1, <3>1, Zenon DEF LoopType
  <2> QED BY <1>1, <2>1, <2>2
          DEF AlarmTypes, ClockType, SlotsType, HistoryType, Alarms!clock, Alarms!table,
            Alarms!history
<1>11. CASE UNCHANGED Alarms!vars
  BY <1>1, <1>11
     DEF AlarmTypes, ClockType, SlotsType, LoopType, HistoryType, Alarms!vars, Alarms!clock,
       Alarms!table, Alarms!history
<1> QED BY <1>3, <1>4, <1>5, <1>6, <1>7, <1>8, <1>9, <1>10, <1>11, TickTypes, Zenon
       DEF Alarms!Next, Alarms!MainLoop, Alarms!Interrupt

-----------------------------------------------------------------------------
(* What the minute owes and has given. *)

LEMMA InitAlarmInv == ASSUME Alarms!ClockAssumption, Alarms!Init PROVE AlarmInv
<1>1. Alarms!DateOf(0).minute = 0
  <2>1. (MINUTES * 0 + 0) % MINUTES = 0 /\ MINUTES * 0 + 0 = 0
    BY Sizes, Remainder
  <2> QED BY <2>1 DEF Alarms!DateOf
<1> QED BY <1>1 DEF Alarms!Init, AlarmInv, Copying

(* Steps in which the minute and what is known of it stay. *)
LEMMA MinuteStays ==
  ASSUME AlarmInv, UNCHANGED <<minutes, onTimePreMinutes, ticked, odd>>,
         g_tCommonTime'.minute = g_tCommonTime.minute,
         owed' \subseteq owed, rung' \subseteq rung,
         \A i \in owed' : g_atIRDataTrigger'[i] = g_atIRDataTrigger[i],
         Copying' => new'.slot \notin owed'
  PROVE  AlarmInv'
<1>1. owed' \subseteq Alarms!DueAt(Alarms!DateOf(minutes))'
  <2>1. PICK when : when = Alarms!DateOf(minutes)
    OBVIOUS
  <2>2. owed \subseteq Alarms!DueAt(when)
    BY <2>1 DEF AlarmInv
  <2>3. owed' \subseteq Alarms!DueAt(when)'
    BY <2>2 DEF Alarms!DueAt
  <2>4. Alarms!DateOf(minutes') = when
    BY <2>1
  <2> QED BY <2>3, <2>4
<1>2. g_tCommonTime'.minute = Alarms!DateOf(minutes').minute
  BY Zenon DEF AlarmInv
<1>3. odd' = {} /\ owed' # {} => onTimePreMinutes' # g_tCommonTime'.minute
  <2>1. owed' # {} => owed # {}
    OBVIOUS
  <2> QED BY <2>1, Zenon DEF AlarmInv
<1>4. "set" \notin odd' /\ rung' # {} => onTimePreMinutes' = g_tCommonTime'.minute
  <2>1. rung' # {} => rung # {}
    OBVIOUS
  <2> QED BY <2>1, Zenon DEF AlarmInv
<1>5. ticked' => onTimePreMinutes' = g_tCommonTime'.minute
  BY Zenon DEF AlarmInv
<1> QED BY <1>1, <1>2, <1>3, <1>4, <1>5, Zenon DEF AlarmInv

(* A new minute, or the clock set: the number in uuPreMinutes is that of   *)
(* the minute before, so the new one will be looked at.                    *)
LEMMA MinuteBegins ==
  ASSUME Alarms!ClockAssumption, AlarmTypes, AlarmInv,
         Alarms!NextMinute \/ Alarms!Mid_DecodeRTCSet
  PROVE  AlarmInv'
<1>1. minutes' \in Week /\ Alarms!Convert(minutes')
  BY NextMinuteEffect, SetClockEffect
<1>2. /\ UNCHANGED <<onTimePreMinutes, Alarms!table>> /\ pc' = "hour"
      /\ g_tCommonTime'.minute = Alarms!DateOf(minutes').minute
  <2>1. PICK m \in Week : m = minutes'
    BY <1>1
  <2>2. Alarms!Convert(m)
    BY <1>1, <2>1, Zenon DEF Alarms!Convert
  <2> QED BY <2>1, <2>2, ConvertTypes
<1>3. ~Copying'
  BY <1>2 DEF Copying
<1>4. CASE Alarms!NextMinute
  <2>1. /\ Alarms!DateOf(minutes').minute # Alarms!DateOf(minutes).minute
        /\ ticked /\ ticked' = FALSE
        /\ owed' = Alarms!DueAt(Alarms!DateOf(minutes')) /\ rung' = {} /\ odd' = {}
    BY <1>4, NextMinuteEffect
  <2>2. owed' \subseteq Alarms!DueAt(Alarms!DateOf(minutes))'
    <3>1. PICK when : when = Alarms!DateOf(minutes')
      OBVIOUS
    <3>2. owed' = Alarms!DueAt(when)
      BY <2>1, <3>1
    <3>3. Alarms!DueAt(when)' = Alarms!DueAt(when)
      BY <1>2 DEF Alarms!DueAt, Alarms!table
    <3> QED BY <3>1, <3>2, <3>3
  <2>3. onTimePreMinutes' # g_tCommonTime'.minute
    BY <1>2, <2>1, Zenon DEF AlarmInv
  <2> QED BY <1>2, <1>3, <2>1, <2>2, <2>3, Zenon DEF AlarmInv
<1>5. CASE Alarms!Mid_DecodeRTCSet
  <2>1. ticked' = FALSE /\ owed' = {} /\ rung' = {} /\ odd' = {"set"}
    BY <1>5, SetClockEffect
  <2>2. owed' \subseteq Alarms!DueAt(Alarms!DateOf(minutes))' /\ "set" \in odd'
    BY <2>1
  <2> QED BY <1>2, <1>3, <2>1, <2>2, Zenon DEF AlarmInv
<1> QED BY <1>4, <1>5

(* The tick: with the clock whole and room in the queue all that is owed   *)
(* is put, otherwise the minute is excused.                                *)
LEMMA TickKeepsAlarmInv ==
  ASSUME Alarms!ClockAssumption, AlarmTypes, AlarmInv, Alarms!App_AlarmOnTimeHandler PROVE AlarmInv'
<1> DEFINE due == Alarms!DueAt(g_tCommonTime)
<1>1. /\ UNCHANGED <<Alarms!clock, Alarms!table, pc>> /\ onTimePreMinutes' = g_tCommonTime.minute
      /\ \/ onTimePreMinutes # g_tCommonTime.minute /\ Alarms!Put(Alarms!Accepted(due), due)
         \/ onTimePreMinutes = g_tCommonTime.minute /\ UNCHANGED <<free, owed, rung, odd>>
  BY TickEffect, Zenon
<1>2. UNCHANGED <<minutes, g_tCommonTime, g_atIRDataTrigger, new>>
  BY <1>1, Zenon DEF Alarms!clock, Alarms!table
<1>3. owed' \subseteq owed
  <2> HIDE DEF due
  <2> QED BY <1>1 DEF Alarms!Put
<1>4. odd' = {} => owed' = {} \/ onTimePreMinutes = g_tCommonTime.minute
  <2> SUFFICES ASSUME odd' = {}, onTimePreMinutes # g_tCommonTime.minute PROVE owed' = {}
    OBVIOUS
  <2>1. Alarms!Put(Alarms!Accepted(due), due)
    BY <1>1, Zenon
  <2>2. /\ owed' = owed \ Alarms!Accepted(due)
        /\ odd' = odd \union (IF g_tCommonTime # Alarms!DateOf(minutes) THEN {"torn clock"} ELSE {})
                  \union (IF Alarms!Accepted(due) # due THEN {"queue full"} ELSE {})
    BY <2>1, SameCardinality, Zenon DEF Alarms!Put
  <2>3. g_tCommonTime = Alarms!DateOf(minutes) /\ Alarms!Accepted(due) = due
    BY <2>2
  <2>4. owed \subseteq due
    BY <2>3, Zenon DEF AlarmInv
  <2> QED BY <2>2, <2>3, <2>4
<1>5. odd' = {} /\ owed' # {} => onTimePreMinutes # g_tCommonTime.minute
  <2>1. odd' = {} => odd = {}
    <3> HIDE DEF due
    <3> QED BY <1>1 DEF Alarms!Put
  <2> QED BY <1>3, <2>1 DEF AlarmInv
<1>6. owed' \subseteq Alarms!DueAt(Alarms!DateOf(minutes))'
  <2>1. PICK when : when = Alarms!DateOf(minutes)
    OBVIOUS
  <2>2. Alarms!DueAt(when)' = Alarms!DueAt(when)
    BY <1>2 DEF Alarms!DueAt
  <2>3. owed \subseteq Alarms!DueAt(when) /\ when = Alarms!DateOf(minutes')
    BY <1>2, <2>1 DEF AlarmInv
  <2> QED BY <1>3, <2>2, <2>3
<1>7. Copying' => new'.slot \notin owed'
  BY <1>1, <1>2, <1>3 DEF Copying, AlarmInv
<1>8. odd' = {} => owed' = {}
  BY <1>4, <1>5
<1> QED BY <1>1, <1>2, <1>6, <1>7, <1>8, Zenon DEF AlarmInv

LEMMA NextAlarmInv ==
  ASSUME Alarms!ClockAssumption, AlarmTypes, AlarmInv, [Alarms!Next]_(Alarms!vars) PROVE AlarmInv'
<1>1. CASE Alarms!SameMinute
  <2>1. UNCHANGED Alarms!history /\ Alarms!Convert(minutes) /\ minutes \in Week
    BY <1>1 DEF Alarms!SameMinute, AlarmTypes, ClockType
  <2>2. /\ minutes' = minutes /\ pc' = "hour"
        /\ g_tCommonTime'.minute = Alarms!DateOf(minutes).minute
        /\ UNCHANGED <<onTimePreMinutes, Alarms!table>>
    <3>1. PICK m \in Week : m = minutes
      BY <2>1
    <3>2. Alarms!Convert(m)
      BY <2>1, <3>1, Zenon DEF Alarms!Convert
    <3> QED BY <3>1, <3>2, ConvertTypes
  <2>3. g_tCommonTime'.minute = g_tCommonTime.minute
    BY <2>2 DEF AlarmInv
  <2> QED BY <2>1, <2>2, <2>3, MinuteStays DEF Alarms!history, Alarms!table, Copying
<1>2. CASE Alarms!StoreHour \/ Alarms!StoreDay
  <2>1. /\ UNCHANGED <<minutes, onTimePreMinutes, Alarms!table, Alarms!history>>
        /\ pc' \in {"day", "idle"}
        /\ g_tCommonTime'.minute = g_tCommonTime.minute
    BY <1>2, StoreTypes
  <2> QED BY <2>1, MinuteStays DEF Alarms!history, Alarms!table, Copying
<1>3. ASSUME NEW time \in Times, Alarms!InsertTrigger(time) PROVE AlarmInv'
  <2>1. /\ UNCHANGED <<Alarms!clock, onTimePreMinutes, Alarms!history>> /\ new'.slot \in Alarms!Slot
        /\ g_atIRDataTrigger[new'.slot].mode = "NONE"
        /\ \A i \in Alarms!Slot \ {new'.slot} : g_atIRDataTrigger'[i] = g_atIRDataTrigger[i]
    BY <1>3, InsertEffect
  <2>2. new'.slot \notin owed
    BY <2>1 DEF AlarmInv, Alarms!DueAt
  <2>3. owed \subseteq Alarms!Slot
    BY DEF AlarmTypes, HistoryType
  <2>4. \A i \in owed' : g_atIRDataTrigger'[i] = g_atIRDataTrigger[i]
    BY <2>1, <2>2, <2>3 DEF Alarms!history
  <2> QED BY <2>1, <2>2, <2>4, MinuteStays DEF Alarms!clock, Alarms!history
<1>4. CASE Alarms!CopyTrigger
  <2>1. /\ UNCHANGED <<Alarms!clock, onTimePreMinutes, Alarms!history>>
        /\ Copying /\ (Copying' => new' = new)
        /\ \A i \in Alarms!Slot \ {new.slot} : g_atIRDataTrigger'[i] = g_atIRDataTrigger[i]
    BY <1>4, CopyEffect
  <2>2. new.slot \notin owed
    BY <2>1 DEF AlarmInv
  <2>3. owed \subseteq Alarms!Slot
    BY DEF AlarmTypes, HistoryType
  <2>4. \A i \in owed' : g_atIRDataTrigger'[i] = g_atIRDataTrigger[i]
    BY <2>1, <2>2, <2>3 DEF Alarms!history
  <2> QED BY <2>1, <2>2, <2>4, MinuteStays DEF Alarms!clock, Alarms!history
<1>5. ASSUME NEW i \in Alarms!Slot, Alarms!Mid_RemoveIRTrigger(i) PROVE AlarmInv'
  <2>1. /\ UNCHANGED <<Alarms!clock, onTimePreMinutes, new, pc, ticked, odd>> /\ pc = "idle"
        /\ owed' = owed \ {i} /\ rung' = rung \ {i}
        /\ \A j \in Alarms!Slot \ {i} : g_atIRDataTrigger'[j] = g_atIRDataTrigger[j]
    BY <1>5, RemoveEffect
  <2>2. owed \subseteq Alarms!Slot
    BY DEF AlarmTypes, HistoryType
  <2>3. \A j \in owed' : g_atIRDataTrigger'[j] = g_atIRDataTrigger[j]
    BY <2>1, <2>2
  <2>4. ~Copying'
    BY <2>1 DEF Copying
  <2> QED BY <2>1, <2>3, <2>4, MinuteStays DEF Alarms!clock
<1>6. CASE Alarms!ExecuteEvent \/ Alarms!OtherPut \/ UNCHANGED Alarms!vars
  <2>1. UNCHANGED <<Alarms!clock, onTimePreMinutes, Alarms!table, pc, Alarms!history>>
    BY <1>6, Zenon DEF Alarms!ExecuteEvent, Alarms!OtherPut, Alarms!vars
  <2>2. Copying' => new'.slot \notin owed'
    BY <2>1 DEF AlarmInv, Copying, Alarms!table, Alarms!history
  <2> QED BY <2>1, <2>2, MinuteStays DEF Alarms!clock, Alarms!table, Alarms!history
<1> QED BY <1>1, <1>2, <1>3, <1>4, <1>5, <1>6, MinuteBegins, TickKeepsAlarmInv, Zenon
       DEF Alarms!Next, Alarms!MainLoop, Alarms!Interrupt

-----------------------------------------------------------------------------
(* The theorems. *)

(* At every moment what the minute owes is due by the table, and either    *)
(* still to be looked for, put or excused; and what has rung has been      *)
(* looked for.                                                             *)
LEMMA AlarmInductive ==
  ASSUME Alarms!ClockAssumption PROVE Alarms!Spec => [](AlarmTypes /\ AlarmInv)
<1>1. Alarms!Init => AlarmTypes /\ AlarmInv
  BY InitTypes, InitAlarmInv
<1>2. AlarmTypes /\ AlarmInv /\ [Alarms!Next]_(Alarms!vars) => (AlarmTypes /\ AlarmInv)'
  BY NextTypes, NextAlarmInv
<1> QED BY <1>1, <1>2, PTL DEF Alarms!Spec

(* The clock's date, the table of triggers, the trigger being copied, the  *)
(* room in the queue and the minute's history keep their types: the queue  *)
(* is never asked for more than it has room for.                           *)
LEMMA AlarmTypesHold ==
  ASSUME Alarms!ClockAssumption PROVE Alarms!Spec => []Alarms!TypeOK
<1>1. ASSUME AlarmTypes PROVE Alarms!TypeOK
  <2>1. ClockType /\ SlotsType /\ LoopType /\ HistoryType
    BY <1>1 DEF AlarmTypes
  <2>2. new.slot \in Alarms!Slot /\ new.time \in Times \union {Alarms!NotSet}
    BY <2>1 DEF SlotsType
  <2> QED BY <2>1, <2>2, Zenon
          DEF Alarms!TypeOK, ClockType, SlotsType, LoopType, HistoryType, Week, Date, Trigger, Time
<1> QED BY <1>1, AlarmInductive, PTL

(* No one-time trigger that is due is missed when the minute runs out, in  *)
(* whatever order the stores of the date, the copying of triggers, the     *)
(* ticks and the other users of the queue come, unless the clock was set   *)
(* or read half written or the queue was full.                             *)
LEMMA NoneMissed ==
  ASSUME Alarms!ClockAssumption
  PROVE  Alarms!Spec => []Alarms!TypeOK /\ Alarms!NoAlarmMissed
<1>1. ASSUME AlarmTypes, AlarmInv, Alarms!Next, minutes' # minutes, "set" \notin odd'
      PROVE  owed = {} \/ odd # {}
  <2>1. Alarms!NextMinute
    <3>1. ~Alarms!Mid_DecodeRTCSet
      BY <1>1, SetClockEffect
    <3>2. Alarms!NextMinute \/ Alarms!SameMinute \/ UNCHANGED minutes
      BY <1>1, <3>1, TickEffect, Zenon
         DEF Alarms!Next, Alarms!MainLoop, Alarms!Interrupt, Alarms!StoreHour, Alarms!StoreDay,
           Alarms!InsertTrigger, Alarms!CopyTrigger, Alarms!CopyField,
           Alarms!Mid_RemoveIRTrigger, Alarms!ExecuteEvent, Alarms!OtherPut, Alarms!clock
    <3> QED BY <1>1, <3>2, Zenon DEF Alarms!SameMinute, Alarms!Convert
  <2> QED BY <1>1, <2>1, NextMinuteEffect, Zenon DEF AlarmInv
<1>2. AlarmTypes /\ AlarmInv /\ [Alarms!Next]_(Alarms!vars)
        => [minutes' # minutes /\ "set" \notin odd' => owed = {} \/ odd # {}]_(Alarms!vars)
  BY <1>1, Zenon
<1> QED BY <1>2, AlarmInductive, AlarmTypesHold, PTL DEF Alarms!Spec, Alarms!NoAlarmMissed

(* What is put is due by the table, unless the clock is read half written, *)
(* and within a minute it is put once: each look takes as many entries of  *)
(* the queue as it has triggers that have not rung.                        *)
LEMMA OnlyDue ==
  ASSUME Alarms!ClockAssumption PROVE Alarms!Spec => Alarms!OnlyDueRings
<1> DEFINE dueOnes == \A i \in rung' \ rung :
                        i \in Alarms!DueAt(Alarms!DateOf(minutes)) \/
                        g_tCommonTime # Alarms!DateOf(minutes)
           takesOnes == Alarms!App_AlarmOnTimeHandler /\ "set" \notin odd =>
                          free - free' = Alarms!Cardinality(rung' \ rung)
<1>1. ASSUME AlarmTypes, Alarms!App_AlarmOnTimeHandler
      PROVE  \/ /\ onTimePreMinutes # g_tCommonTime.minute
                /\ free' = free - Cardinality(Alarms!Accepted(Alarms!DueAt(g_tCommonTime)))
                /\ rung' = rung \union Alarms!Accepted(Alarms!DueAt(g_tCommonTime))
             \/ UNCHANGED <<free, rung>>
  BY <1>1, TickEffect, SameCardinality, Zenon DEF Alarms!Put
<1>2. ASSUME AlarmTypes PROVE /\ free \in Nat
                         /\ Alarms!Accepted(Alarms!DueAt(g_tCommonTime))
                              \subseteq Alarms!DueAt(g_tCommonTime)
                         /\ Cardinality(Alarms!Accepted(Alarms!DueAt(g_tCommonTime))) \in Nat
  <2>1. free \in Nat
    BY <1>2, QueueSize DEF AlarmTypes, LoopType
  <2> QED BY <2>1, RoomForAccepted, DueAreSlots
<1>3. ASSUME AlarmTypes, AlarmInv, Alarms!Next PROVE dueOnes
  <2> SUFFICES ASSUME NEW i \in rung' \ rung, g_tCommonTime = Alarms!DateOf(minutes)
               PROVE  i \in Alarms!DueAt(Alarms!DateOf(minutes))
    OBVIOUS
  <2>1. Alarms!App_AlarmOnTimeHandler
    <3>1. CASE Alarms!NextMinute \/ Alarms!Mid_DecodeRTCSet
      BY <1>3, <3>1, NextMinuteEffect, SetClockEffect
    <3>2. CASE \E j \in Alarms!Slot : Alarms!Mid_RemoveIRTrigger(j)
      BY <1>3, <3>2, RemoveEffect
    <3>3. CASE UNCHANGED rung
      BY <3>3
    <3> QED BY <1>3, <3>1, <3>2, <3>3, Zenon
            DEF Alarms!Next, Alarms!MainLoop, Alarms!Interrupt, Alarms!SameMinute,
              Alarms!StoreHour, Alarms!StoreDay, Alarms!InsertTrigger,
              Alarms!CopyTrigger, Alarms!CopyField, Alarms!ExecuteEvent, Alarms!OtherPut,
              Alarms!history
  <2> QED BY <1>1, <1>2, <1>3, <2>1
<1>4. ASSUME AlarmTypes, AlarmInv, Alarms!Next PROVE takesOnes
  <2> SUFFICES ASSUME Alarms!App_AlarmOnTimeHandler, "set" \notin odd
               PROVE  free - free' = Cardinality(rung' \ rung)
    BY SameCardinality, Zenon
  <2>1. CASE UNCHANGED <<free, rung>>
    <3>1. rung' \ rung = {} /\ free - free' = 0
      BY <1>2, <1>4, <2>1
    <3> QED BY <3>1, FS_EmptySet
  <2>2. CASE ~UNCHANGED <<free, rung>>
    <3> DEFINE A == Alarms!Accepted(Alarms!DueAt(g_tCommonTime))
    <3>1. /\ onTimePreMinutes # g_tCommonTime.minute
          /\ free' = free - Cardinality(A) /\ rung' = rung \union A
      BY <1>1, <1>4, <2>2, Zenon
    <3>2. rung = {}
      BY <1>4, <3>1, Zenon DEF AlarmInv
    <3>3. free \in Nat /\ Cardinality(A) \in Nat
      BY <1>2, <1>4
    <3> HIDE DEF A
    <3>4. rung' \ rung = A
      BY <3>1, <3>2
    <3>5. free - free' = Cardinality(A)
      BY <3>1, <3>3
    <3> QED BY <3>4, <3>5, Zenon
  <2> QED BY <2>1, <2>2
<1>5. AlarmTypes /\ AlarmInv /\ [Alarms!Next]_(Alarms!vars) => [dueOnes /\ takesOnes]_(Alarms!vars)
  BY <1>3, <1>4, Zenon
<1>6. [][dueOnes /\ takesOnes]_(Alarms!vars) => Alarms!OnlyDueRings
  BY PTL DEF Alarms!OnlyDueRings
<1> QED BY <1>5, <1>6, AlarmInductive, PTL DEF Alarms!Spec

-----------------------------------------------------------------------------
(* The parts together: each is what its own module specifies.              *)

LEMMA Parts == PartSpec => Alarms!Spec /\ Seconds!Spec
<1>1. PartInit => Alarms!Init /\ Seconds!Init
  BY Zenon DEF PartInit
<1>2. [PartNext]_<<part, calendar, alarms, seconds, vars>>
        => [Alarms!Next]_Alarms!vars /\ [Seconds!Next]_Seconds!vars
  <2>1. UNCHANGED alarms => UNCHANGED Alarms!vars
    BY Zenon DEF alarms, Alarms!vars, Alarms!clock, Alarms!table,
         Alarms!history
  <2>2. UNCHANGED seconds => UNCHANGED Seconds!vars
    BY Zenon DEF seconds, Seconds!vars, Seconds!history
  <2> QED BY <2>1, <2>2, Zenon DEF PartNext
<1> QED BY <1>1, <1>2, PTL DEF PartSpec, Alarms!Spec, Seconds!Spec

(* No one-time trigger that is due is missed when the minute runs out, in  *)
(* whatever order the stores of the date, the copying of triggers, the     *)
(* ticks and the other users of the queue come, unless the clock was set   *)
(* or read half written or the queue was full.                             *)
THEOREM NoneIsMissed == PartSpec => NoAlarmMissed
<1>1. Alarms!ClockAssumption
  BY PartsAssumption
<1>2. Alarms!Spec => []Alarms!TypeOK /\ Alarms!NoAlarmMissed
  BY <1>1, NoneMissed
<1> QED BY <1>2, Parts, PTL DEF NoAlarmMissed

(* What is put is due by the table, unless the clock is read half written, *)
(* and within a minute it is put once: each look takes as many entries of  *)
(* the queue as it has triggers that have not rung.                        *)
THEOREM OnlyTheDueRing == PartSpec => OnlyDueRings
<1>1. Alarms!ClockAssumption
  BY PartsAssumption
<1>2. Alarms!Spec => Alarms!OnlyDueRings
  BY <1>1, OnlyDue
<1> QED BY <1>2, Parts, PTL DEF OnlyDueRings

(* Whatever the periods of the timers, the size of the queue and the other *)
(* events, the clock that SysTimer1000msCall drives is never more than a   *)
(* second behind, as long as the main loop has kept up with the queue.     *)
THEOREM ClockKeepsPace == PartSpec => []ClockKeepsTime
<1>1. Seconds!TimerAssumption
  BY PartsAssumption
<1>2. Seconds!Spec => [](Seconds!TypeOK /\ Seconds!ClockKeepsTime)
  BY <1>1, SecondsKeepPace
<1> QED BY <1>2, Parts, PTL DEF ClockKeepsTime

-----------------------------------------------------------------------------
(* Years and months.  January and February count as months 13 and 14 of    *)
(* the year before, so that the days before a year and before a month are  *)
(* sums of quotients.                                                      *)
YearDays(y) == 365 * y + y \div 4 - y \div 100 + y \div 400
MonthDays(m) == 30 * m + (3 * (m + 1)) \div 5

Year(d) == Walk!ShiftedYear(d.year, d.month)
Month(d) == Walk!ShiftedMonth(d.month)
DayNumber(d) == YearDays(Year(d)) + (MonthDays(Month(d)) + d.day) - 719561

IsDate(d) ==
  /\ d \in [year : Nat, month : 1 .. 12, day : 1 .. 31]
  /\ d.year >= 1970 /\ d.day <= Walk!MonthLength(d.year, d.month)

(* The calendar after n days: its date d and weekday w.                    *)
CalendarIs(n, d, w) == IsDate(d) /\ n = DayNumber(d) /\ w = ((n + 3) % 7) + 1
CalendarInv == CalendarIs(days, date, weekday)

LEMMA MonthTable ==
  /\ MonthDays(3) = 92 /\ MonthDays(4) = 123 /\ MonthDays(5) = 153 /\ MonthDays(6) = 184
  /\ MonthDays(7) = 214 /\ MonthDays(8) = 245 /\ MonthDays(9) = 276 /\ MonthDays(10) = 306
  /\ MonthDays(11) = 337 /\ MonthDays(12) = 367 /\ MonthDays(13) = 398 /\ MonthDays(14) = 429
BY DEF MonthDays

LEMMA YearLength ==
  ASSUME NEW y \in Nat \ {0}
  PROVE  YearDays(y) = YearDays(y - 1) + (IF Walk!Leap(y) THEN 366 ELSE 365)
<1>1. y \div 4 = (y - 1) \div 4 + (IF y % 4 = 0 THEN 1 ELSE 0)
  BY SMT
<1>2. y \div 100 = (y - 1) \div 100 + (IF y % 100 = 0 THEN 1 ELSE 0)
  BY SMT
<1>3. y \div 400 = (y - 1) \div 400 + (IF y % 400 = 0 THEN 1 ELSE 0)
  BY SMT
<1>4. (y % 400 = 0 => y % 100 = 0) /\ (y % 100 = 0 => y % 4 = 0)
  BY SMT
<1>5. 365 * y = 365 * (y - 1) + 365
  BY SMT
<1>6. /\ (y - 1) \div 4 \in Int /\ (y - 1) \div 100 \in Int /\ (y - 1) \div 400 \in Int
      /\ 365 * (y - 1) \in Int
  BY SMT
<1> QED BY <1>1, <1>2, <1>3, <1>4, <1>5, <1>6, SMT DEF YearDays, Walk!Leap

(* A year in cycles of 400, centuries, cycles of four and years of those.  *)
Cycle(y) == y \div 400
CenturyIn(y) == (y \div 100) % 4
FourIn(y) == (y % 100) \div 4
YearIn(y) == y % 4

LEMMA YearParts ==
  ASSUME NEW y \in Nat
  PROVE  /\ Cycle(y) \in Nat /\ CenturyIn(y) \in 0 .. 3
         /\ FourIn(y) \in 0 .. 24 /\ YearIn(y) \in 0 .. 3
         /\ y = 400 * Cycle(y) + 100 * CenturyIn(y) + 4 * FourIn(y) + YearIn(y)
         /\ y \div 100 = 4 * Cycle(y) + CenturyIn(y)
         /\ y % 100 = 4 * FourIn(y) + YearIn(y)
         /\ YearDays(y) = 146097 * Cycle(y) + 36524 * CenturyIn(y) + 1461 * FourIn(y)
                            + 365 * YearIn(y)
<1> DEFINE j == y \div 100
           k == y % 100
           q == k \div 4
           r == k % 4
           c == j \div 4
           s == j % 4
<1>1. j \in Nat /\ k \in 0 .. 99 /\ y = 100 * j + k
  BY SMT
<1> HIDE DEF j, k
<1>2. q \in 0 .. 24 /\ r \in 0 .. 3 /\ k = 4 * q + r
  BY <1>1, SMT
<1>3. c \in Nat /\ s \in 0 .. 3 /\ j = 4 * c + s
  BY <1>1, SMT
<1> HIDE DEF q, r, c, s
<1>4. y = 400 * c + 100 * s + 4 * q + r
  BY <1>1, <1>2, <1>3, SMT
<1>5. y \div 400 = c
  BY <1>4, <1>2, <1>3, SMT
<1>6. y \div 4 = 100 * c + 25 * s + q
  BY <1>4, <1>2, <1>3, SMT
<1>7. y \div 100 = 4 * c + s /\ y % 100 = 4 * q + r /\ y % 4 = r
  BY <1>4, <1>2, <1>3, SMT
<1>8. YearDays(y) = 146097 * c + 36524 * s + 1461 * q + 365 * r
  BY <1>2, <1>3, <1>4, <1>5, <1>6, <1>7, SMT DEF YearDays
<1>9. (y \div 100) % 4 = s /\ (y % 100) \div 4 = q
  BY SMT DEF s, q, j, k
<1> QED BY <1>2, <1>3, <1>4, <1>5, <1>7, <1>8, <1>9, SMT
        DEF Cycle, CenturyIn, FourIn, YearIn

LEMMA Quotient ==
  ASSUME NEW n \in Nat, NEW q \in Int, NEW r \in Nat, r < n
  PROVE  (n * q + r) \div n = q
BY SMT

(* The steps of Mid_RTCConvertUnixToDate, for a day of a year that begins  *)
(* in March: its century, its year, its number in the year.                *)
InYear(g, y) == g \in Nat /\ 93 <= g /\ g <= 458 /\ (g = 458 => Walk!Leap(y + 1))

LEMMA LeapDay ==
  ASSUME NEW y \in Nat, Walk!Leap(y + 1)
  PROVE  YearIn(y) = 3 /\ (FourIn(y) = 24 => CenturyIn(y) = 3)
<1> DEFINE c == Cycle(y)
           s == CenturyIn(y)
           q == FourIn(y)
           r == YearIn(y)
<1>1. /\ c \in Nat /\ s \in 0 .. 3 /\ q \in 0 .. 24 /\ r \in 0 .. 3
      /\ y = 400 * c + 100 * s + 4 * q + r
  BY YearParts, SMT
<1> HIDE DEF c, s, q, r
<1>2. (y + 1) % 4 = 0 => r = 3
  BY <1>1, SMT
<1>3. r = 3 /\ q = 24 => (y + 1) % 100 = 0
  BY <1>1, SMT
<1>4. r = 3 /\ q = 24 /\ (y + 1) % 400 = 0 => s = 3
  BY <1>1, SMT
<1>5. r = 3 /\ (q = 24 => s = 3)
  BY <1>2, <1>3, <1>4, SMT DEF Walk!Leap
<1> QED BY <1>5, SMT DEF r, q, s

LEMMA CenturyFound ==
  ASSUME NEW y \in Nat, NEW g, InYear(g, y)
  PROVE  (4 * (YearDays(y) + g - 719561) + 102032) \div 146097 + 15 = y \div 100 - 4
<1> DEFINE c == Cycle(y)
           s == CenturyIn(y)
           q == FourIn(y)
           r == YearIn(y)
           n == YearDays(y)
           x == 4 * (n + g - 719561) + 102032
           z == 5844 * q + 1460 * r + 4 * g - s - 369
<1>1. /\ c \in Nat /\ s \in 0 .. 3 /\ q \in 0 .. 24 /\ r \in 0 .. 3
      /\ y \div 100 = 4 * c + s
      /\ n = 146097 * c + 36524 * s + 1461 * q + 365 * r
  BY YearParts, SMT
<1>2. g = 458 => r = 3 /\ (q = 24 => s = 3)
  BY LeapDay, SMT DEF InYear
<1> HIDE DEF c, s, q, r, n
<1>3. 0 <= z /\ z < 146097
  BY <1>1, <1>2, SMT DEF InYear
<1>4. x = 146097 * (4 * c + s - 19) + z
  BY <1>1, SMT DEF InYear
<1>5. z \in Nat /\ 4 * c + s - 19 \in Int
  BY <1>1, <1>3, SMT DEF InYear
<1> HIDE DEF x, z
<1>6. x \div 146097 = 4 * c + s - 19
  BY <1>3, <1>4, <1>5, Quotient, SMT
<1>7. x \div 146097 + 15 = y \div 100 - 4
  BY <1>1, <1>6, SMT
<1> QED BY <1>7, SMT DEF x, n

LEMMA JulianDay ==
  ASSUME NEW y \in Nat, NEW g, InYear(g, y)
  PROVE  LET a == y \div 100 - 4
         IN  YearDays(y) + g - 719561 + 2442113 + a - a \div 4
               = 365 * y + y \div 4 + g + 1722549
<1> DEFINE j == y \div 100
<1>1. j \in Nat /\ (j - 4) \div 4 = j \div 4 - 1 /\ y \div 400 = j \div 4
  BY SMT
<1>2. y \div 4 \in Nat /\ 365 * y \in Nat /\ g \in Nat /\ j \div 4 \in Nat
  BY SMT DEF InYear
<1>3. YearDays(y) = 365 * y + y \div 4 - j + j \div 4
  BY <1>1, SMT DEF YearDays
<1> HIDE DEF j
<1>4. YearDays(y) + g - 719561 + 2442113 + (j - 4) - (j - 4) \div 4
        = 365 * y + y \div 4 + g + 1722549
  BY <1>1, <1>2, <1>3, SMT
<1> QED BY <1>4, SMT DEF j

LEMMA YearFound ==
  ASSUME NEW y \in Nat, NEW g, InYear(g, y)
  PROVE  (20 * (365 * y + y \div 4 + g + 1722549) - 2442) \div 7305 = y + 4716
<1> DEFINE f == y \div 4
           r == YearIn(y)
<1>1. f \in Nat /\ r \in 0 .. 3 /\ y = 4 * f + r
  BY SMT DEF YearIn
<1>2. g = 458 => r = 3
  BY LeapDay, SMT DEF InYear
<1> HIDE DEF f, r
<1> DEFINE z == 20 * g - 5 * r - 1842
<1>3. 20 * (365 * y + f + g + 1722549) - 2442 = 7305 * (y + 4716) + z
  BY <1>1, SMT DEF InYear
<1>4. z \in Nat /\ z < 7305
  BY <1>1, <1>2, SMT DEF InYear
<1>5. y + 4716 \in Int
  BY SMT
<1> HIDE DEF z
<1>6. (7305 * (y + 4716) + z) \div 7305 = y + 4716
  BY <1>4, <1>5, Quotient, SMT
<1> QED BY <1>3, <1>6, SMT DEF f

LEMMA DayFound ==
  ASSUME NEW y \in Nat, NEW g \in Nat
  PROVE  365 * y + y \div 4 + g + 1722549 - 365 * (y + 4716) - (y + 4716) \div 4 = g + 30
<1>1. (y + 4716) \div 4 = y \div 4 + 1179
  BY SMT
<1>2. y \div 4 \in Nat
  BY SMT
<1> QED BY <1>1, <1>2, SMT

(* The months: their numbers in the year from March, found from the day.   *)
MonthFrom(d) == (d * 1000) \div 30601
DayFrom(d) == d - MonthFrom(d) * 30 - (MonthFrom(d) * 601) \div 1000

LEMMA MonthFound ==
  ASSUME NEW m \in 3 .. 14, NEW day \in 1 .. 31, m \in {4, 6, 9, 11} => day < 31,
         m = 14 => day < 30, NEW d, d = MonthDays(m) + day + 30
  PROVE  MonthFrom(d) = m + 1 /\ DayFrom(d) = day
<1> USE DEF MonthFrom, DayFrom
<1>1. \A k \in 1 .. 31 : k \in Nat /\ k <= 31 /\ k >= 1
  BY SMT
<1>2. CASE m = 3
  BY <1>1, <1>2, MonthTable, SMT
<1>3. CASE m = 4
  BY <1>1, <1>3, MonthTable, SMT
<1>4. CASE m = 5
  BY <1>1, <1>4, MonthTable, SMT
<1>5. CASE m = 6
  BY <1>1, <1>5, MonthTable, SMT
<1>6. CASE m = 7
  BY <1>1, <1>6, MonthTable, SMT
<1>7. CASE m = 8
  BY <1>1, <1>7, MonthTable, SMT
<1>8. CASE m = 9
  BY <1>1, <1>8, MonthTable, SMT
<1>9. CASE m = 10
  BY <1>1, <1>9, MonthTable, SMT
<1>10. CASE m = 11
  BY <1>1, <1>10, MonthTable, SMT
<1>11. CASE m = 12
  BY <1>1, <1>11, MonthTable, SMT
<1>12. CASE m = 13
  BY <1>1, <1>12, MonthTable, SMT
<1>13. CASE m = 14
  BY <1>1, <1>13, MonthTable, SMT
<1> QED BY <1>2, <1>3, <1>4, <1>5, <1>6, <1>7, <1>8, <1>9, <1>10, <1>11, <1>12, <1>13, SMT

-----------------------------------------------------------------------------
(* A date and the day of its number.                                       *)
LEMMA DateParts ==
  ASSUME NEW d, IsDate(d)
  PROVE  LET y == Year(d)  m == Month(d)  g == MonthDays(m) + d.day
         IN  /\ y \in Nat /\ m \in 3 .. 14 /\ d.day \in 1 .. 31
             /\ (m \in {4, 6, 9, 11} => d.day < 31) /\ (m = 14 => d.day < 30)
             /\ d.year = (IF m <= 12 THEN y ELSE y + 1)
             /\ d.month = (IF m <= 12 THEN m ELSE m - 12)
             /\ InYear(g, y)
             /\ d = [year |-> d.year, month |-> d.month, day |-> d.day]
<1> DEFINE y == Year(d)
           m == Month(d)
           g == MonthDays(m) + d.day
<1>1. /\ d.year \in Nat /\ d.year >= 1970 /\ d.month \in 1 .. 12 /\ d.day \in 1 .. 31
      /\ d.day <= Walk!MonthLength(d.year, d.month)
      /\ d = [year |-> d.year, month |-> d.month, day |-> d.day]
  BY SMT DEF IsDate
<1>2. /\ d.month <= 2 => m = d.month + 12 /\ y = d.year - 1
      /\ d.month > 2 => m = d.month /\ y = d.year
  BY <1>1, SMT DEF Month, Year, Walk!ShiftedMonth, Walk!ShiftedYear
<1> HIDE DEF y, m
<1>3. /\ y \in Nat /\ m \in 3 .. 14
      /\ d.year = (IF m <= 12 THEN y ELSE y + 1)
      /\ d.month = (IF m <= 12 THEN m ELSE m - 12)
  BY <1>1, <1>2, SMT
<1>4. (m \in {4, 6, 9, 11} => d.day < 31) /\ (m = 14 => d.day < 30)
  BY <1>1, <1>2, SMT DEF Walk!MonthLength
<1>5. m = 14 /\ d.day = 29 => Walk!Leap(y + 1)
  <2>1. m = 14 => d.month = 2 /\ d.year = y + 1
    BY <1>3, SMT
  <2>2. d.month = 2 /\ d.day = 29 => Walk!Leap(d.year)
    BY <1>1, SMT DEF Walk!MonthLength
  <2> QED BY <2>1, <2>2, SMT
<1>6. \A n \in 1 .. 31 : n \in Nat /\ n >= 1 /\ n <= 31
  BY SMT
<1>7. InYear(g, y)
  <2>1. g \in Nat /\ 93 <= g /\ g <= 458 /\ (g = 458 => m = 14 /\ d.day = 29)
    BY <1>1, <1>3, <1>4, <1>6, MonthTable, SMT
  <2> QED BY <1>5, <2>1, SMT DEF InYear
<1> QED BY <1>1, <1>3, <1>4, <1>7, SMT DEF y, m

LEMMA DateFound ==
  ASSUME NEW d, IsDate(d) PROVE Walk!Mid_RTCConvertUnixToDate(DayNumber(d)) = d
<1> DEFINE y == Year(d)
           m == Month(d)
           g == MonthDays(m) + d.day
           n == DayNumber(d)
           a == (4 * n + 102032) \div 146097 + 15
           b == n + 2442113 + a - a \div 4
           c == (20 * b - 2442) \div 7305
           f == b - 365 * c - c \div 4
           e == (f * 1000) \div 30601
<1>1. /\ y \in Nat /\ m \in 3 .. 14 /\ d.day \in 1 .. 31
      /\ (m \in {4, 6, 9, 11} => d.day < 31) /\ (m = 14 => d.day < 30)
      /\ d.year = (IF m <= 12 THEN y ELSE y + 1)
      /\ d.month = (IF m <= 12 THEN m ELSE m - 12)
      /\ InYear(g, y)
      /\ d = [year |-> d.year, month |-> d.month, day |-> d.day]
  BY DateParts, SMT
<1>2. n = YearDays(y) + g - 719561
  BY SMT DEF DayNumber
<1>3. MonthDays(m) \in Nat /\ g = MonthDays(m) + d.day /\ g \in Nat /\ d.day \in Nat
  BY <1>1, MonthTable, SMT
<1> HIDE DEF y, m, g, n
<1>4. a = y \div 100 - 4
  BY <1>1, <1>2, CenturyFound, SMT
<1> HIDE DEF a
<1>5. b = 365 * y + y \div 4 + g + 1722549
  BY <1>1, <1>2, <1>4, JulianDay, SMT
<1> HIDE DEF b
<1>6. c = y + 4716
  BY <1>1, <1>5, YearFound, SMT
<1> HIDE DEF c
<1>7. f = g + 30
  BY <1>1, <1>3, <1>5, <1>6, DayFound, SMT
<1> HIDE DEF f
<1>8. f = MonthDays(m) + d.day + 30
  BY <1>3, <1>7, SMT
<1> DEFINE day == d.day
<1> HIDE DEF day
<1>9. /\ m \in 3 .. 14 /\ day \in 1 .. 31
      /\ (m \in {4, 6, 9, 11} => day < 31) /\ (m = 14 => day < 30)
      /\ f = MonthDays(m) + day + 30
  BY <1>1, <1>8, SMT DEF day
<1>10. MonthFrom(f) = m + 1 /\ DayFrom(f) = day
  BY <1>9, MonthFound, Zenon
<1>11. e = m + 1 /\ f - e * 30 - (e * 601) \div 1000 = d.day
  BY <1>10, SMT DEF day, MonthFrom, DayFrom
<1> HIDE DEF e
<1>12. /\ d.year = (IF e <= 13 THEN c - 4716 ELSE c - 4715)
      /\ d.month = (IF e <= 13 THEN e - 1 ELSE e - 13)
  BY <1>1, <1>6, <1>11, SMT
<1>13. Walk!Mid_RTCConvertUnixToDate(n) =
         [year  |-> IF e <= 13 THEN c - 4716 ELSE c - 4715,
          month |-> IF e <= 13 THEN e - 1 ELSE e - 13,
          day   |-> f - e * 30 - (e * 601) \div 1000]
  BY SMT DEF Walk!Mid_RTCConvertUnixToDate, a, b, c, f, e
<1> QED BY <1>1, <1>11, <1>12, <1>13, SMT DEF n

(* The weekday is that of the number: a century has five days more than    *)
(* its weeks, a year one, and the months as the factor 26 / 10 says.       *)
LEMMA MonthWeekdays ==
  ASSUME NEW m \in 3 .. 14
  PROVE  \E w \in Int : (26 * (m + 1)) \div 10 + 719563 = MonthDays(m) + 7 * w
<1> DEFINE t == (26 * (m + 1)) \div 10 + 719563 - MonthDays(m)
<1>1. MonthDays(m) \in Nat /\ (26 * (m + 1)) \div 10 \in Nat /\ t % 7 = 0
  BY MonthTable, SMT
<1>2. t \in Int
  BY <1>1, SMT
<1> HIDE DEF t
<1>3. t \div 7 \in Int /\ t = 7 * (t \div 7)
  BY <1>1, <1>2, SMT
<1>4. (26 * (m + 1)) \div 10 + 719563 = MonthDays(m) + t
  BY <1>1, SMT DEF t
<1> QED BY <1>3, <1>4, SMT

LEMMA WeekdayFound ==
  ASSUME NEW d, IsDate(d)
  PROVE  Walk!Mid_RTCComputeDayOfWeek(d.year, d.month, d.day) = ((DayNumber(d) + 3) % 7) + 1
<1> DEFINE y == Year(d)
           m == Month(d)
           n == DayNumber(d)
           c == Cycle(y)
           s == CenturyIn(y)
           q == FourIn(y)
           r == YearIn(y)
           x == (26 * (m + 1)) \div 10
           j == y \div 100
           k == y % 100
           j4 == j \div 4
           k4 == k \div 4
           h == d.day + x + k + k4 + 5 * j + j4
<1>1. y \in Nat /\ m \in 3 .. 14 /\ d.day \in 1 .. 31
  BY DateParts, SMT
<1>2. n = YearDays(y) + (MonthDays(m) + d.day) - 719561
  BY SMT DEF DayNumber
<1> HIDE DEF y
<1>3. /\ c \in Nat /\ s \in 0 .. 3 /\ q \in 0 .. 24 /\ r \in 0 .. 3
      /\ j = 4 * c + s /\ k = 4 * q + r
      /\ YearDays(y) = 146097 * c + 36524 * s + 1461 * q + 365 * r
  BY <1>1, YearParts, SMT
<1>4. MonthDays(m) \in Nat /\ x \in Nat
  BY <1>1, MonthTable, SMT
<1>5. PICK w \in Int : x + 719563 = MonthDays(m) + 7 * w
  BY <1>1, MonthWeekdays, SMT
<1>6. Walk!Mid_RTCComputeDayOfWeek(d.year, d.month, d.day) = ((h + 5) % 7) + 1
  BY DEF Walk!Mid_RTCComputeDayOfWeek, Year, Month, y
<1> HIDE DEF y, m, n, c, s, q, r, x, j, k
<1>7. k4 = q /\ j4 = c
  BY <1>3, SMT
<1> HIDE DEF j4, k4
<1>8. h = d.day + x + 4 * q + r + q + 20 * c + 5 * s + c
  <2>1. j = 4 * c + s /\ k = 4 * q + r /\ k4 = q /\ j4 = c
    BY <1>3, <1>7, SMT
  <2>2. /\ d.day \in Int /\ x \in Int /\ c \in Int /\ s \in Int /\ q \in Int /\ r \in Int
    BY <1>1, <1>3, <1>4, SMT
  <2> QED BY <2>1, <2>2, SMT
<1>9. n = 146097 * c + 36524 * s + 1461 * q + 365 * r + MonthDays(m) + d.day - 719561
  BY <1>1, <1>2, <1>3, <1>4, SMT
<1> HIDE DEF h
<1> DEFINE v == w - 20868 * c - 5217 * s - 208 * q - 52 * r
<1>10. h + 5 = (n + 3) + 7 * v
  BY <1>1, <1>3, <1>4, <1>5, <1>8, <1>9, SMT
<1>11. v \in Int /\ n \in Int /\ h \in Int
  BY <1>1, <1>3, <1>4, <1>5, <1>8, <1>9, SMT
<1> HIDE DEF v
<1>12. (h + 5) % 7 = (n + 3) % 7
  BY <1>10, <1>11, SMT
<1> QED BY <1>6, <1>12, SMT DEF n

LEMMA InverseFound ==
  ASSUME NEW d, IsDate(d), d.year \in 2000 .. 2047
  PROVE  Walk!Mid_RTCConvertDateToUnixTime(d) = DayNumber(d)
<1> DEFINE y == Year(d)
           m == Month(d)
           z == y % 256
<1>1. y \in Nat /\ m \in 3 .. 14 /\ d.day \in 1 .. 31 /\ d.year = (IF m <= 12 THEN y ELSE y + 1)
  BY DateParts, SMT
<1>2. Walk!Mid_RTCConvertDateToUnixTime(d) =
        365 * z + z \div 4 - z \div 100 + z \div 400
          + 30 * m + (3 * (m + 1)) \div 5 + (d.day + 1) - 65047
  BY SMT DEF Walk!Mid_RTCConvertDateToUnixTime, Walk!UINT8, Year, Month
<1>3. DayNumber(d) = 365 * y + y \div 4 - y \div 100 + y \div 400
                       + (30 * m + (3 * (m + 1)) \div 5 + d.day) - 719561
  BY SMT DEF DayNumber, YearDays, MonthDays
<1> HIDE DEF y, m
<1>4. 1999 <= y /\ y <= 2047
  BY <1>1, SMT
<1>5. z = y - 1792
  BY <1>1, <1>4, SMT
<1> HIDE DEF z
<1>6. /\ z \div 4 = y \div 4 - 448 /\ z \div 400 = 0 /\ z \div 100 = 2
      /\ y \div 100 - y \div 400 = 15 /\ y \div 4 \in Int
      /\ y \div 100 \in Int /\ y \div 400 \in Int
  BY <1>1, <1>4, <1>5, SMT
<1>7. m \in Int /\ (3 * (m + 1)) \div 5 \in Int /\ d.day \in Int /\ y \in Int
  BY <1>1, SMT
<1> DEFINE x == (3 * (m + 1)) \div 5
<1> HIDE DEF x
<1> QED BY <1>2, <1>3, <1>5, <1>6, <1>7, SMT DEF x

-----------------------------------------------------------------------------
(* The calendar, day by day.                                               *)
LEMMA DayStep ==
  ASSUME NEW d, IsDate(d)
  PROVE  IsDate(Walk!DayAfter(d)) /\ DayNumber(Walk!DayAfter(d)) = DayNumber(d) + 1
<1> DEFINE l == Walk!MonthLength(d.year, d.month)
<1>1. /\ d.year \in Nat /\ d.year >= 1970 /\ d.month \in 1 .. 12 /\ d.day \in 1 .. 31
      /\ d.day <= l
      /\ d = [year |-> d.year, month |-> d.month, day |-> d.day]
  BY SMT DEF IsDate
<1>2. /\ l = (IF d.month = 2 THEN (IF Walk!Leap(d.year) THEN 29 ELSE 28)
              ELSE IF d.month \in {4, 6, 9, 11} THEN 30 ELSE 31)
      /\ l \in 28 .. 31
  BY SMT DEF Walk!MonthLength
<1>3. \A e : IsDate(e) => YearDays(Year(e)) \in Int /\ MonthDays(Month(e)) \in Int
  BY DateParts, SMT DEF YearDays, MonthDays
<1>4. CASE d.day < l
  <2> DEFINE e == [year |-> d.year, month |-> d.month, day |-> d.day + 1]
  <2>1. Walk!DayAfter(d) = e
    BY <1>1, <1>4, SMT DEF Walk!DayAfter
  <2>2. IsDate(e)
    BY <1>1, <1>2, <1>4, SMT DEF IsDate
  <2>3. Year(e) = Year(d) /\ Month(e) = Month(d) /\ e.day = d.day + 1
    BY SMT DEF Year, Month
  <2> DEFINE y == YearDays(Year(d))
             m == MonthDays(Month(d))
  <2>4. y \in Int /\ m \in Int /\ d.day \in Int
    BY <1>1, <1>3, SMT
  <2>5. DayNumber(e) = y + (m + (d.day + 1)) - 719561
    BY <2>3, SMT DEF DayNumber
  <2>6. DayNumber(d) = y + (m + d.day) - 719561
    BY SMT DEF DayNumber
  <2> HIDE DEF e, y, m
  <2>7. DayNumber(e) = DayNumber(d) + 1
    BY <2>4, <2>5, <2>6, SMT
  <2> QED BY <2>1, <2>2, <2>7, Zenon
<1>5. CASE d.day = l /\ d.month < 12
  <2> DEFINE e == [year |-> d.year, month |-> d.month + 1, day |-> 1]
  <2>1. Walk!DayAfter(d) = e
    <3>1. ~(d.day < l)
      BY <1>2, <1>5, SMT
    <3> QED BY <1>5, <3>1, Zenon DEF Walk!DayAfter
  <2>2. IsDate(e)
    BY <1>1, <1>5, SMT DEF IsDate, Walk!MonthLength
  <2>3. CASE d.month = 2
    <3>1. Year(d) = d.year - 1 /\ Month(d) = 14 /\ Year(e) = d.year /\ Month(e) = 3
      BY <1>1, <2>3, SMT DEF Year, Month, Walk!ShiftedYear, Walk!ShiftedMonth
    <3>2. YearDays(d.year) = YearDays(d.year - 1) + (IF Walk!Leap(d.year) THEN 366 ELSE 365)
      BY <1>1, YearLength, SMT
    <3>3. d.day = (IF Walk!Leap(d.year) THEN 29 ELSE 28)
      BY <1>2, <1>5, <2>3, SMT
    <3>4. YearDays(d.year - 1) \in Int
      BY <1>3, <3>1, SMT
    <3>5. DayNumber(d) = YearDays(d.year - 1) + (429 + d.day) - 719561
      BY <3>1, MonthTable, SMT DEF DayNumber
    <3>6. DayNumber(e) = YearDays(d.year) + (92 + 1) - 719561
      BY <3>1, MonthTable, SMT DEF DayNumber
    <3> QED BY <2>1, <2>2, <3>2, <3>3, <3>4, <3>5, <3>6, SMT
  <2>4. CASE d.month # 2
    <3>1. Year(e) = Year(d) /\ Month(e) = Month(d) + 1 /\ e.day = 1
      BY <1>1, <1>5, <2>4, SMT DEF Year, Month, Walk!ShiftedYear, Walk!ShiftedMonth
    <3>2. MonthDays(Month(d) + 1) = MonthDays(Month(d)) + l
      BY <1>1, <1>2, <1>5, <2>4, MonthTable, SMT DEF Month, Walk!ShiftedMonth
    <3> QED BY <1>1, <1>2, <1>3, <1>5, <2>1, <2>2, <3>1, <3>2, SMT DEF DayNumber
  <2> QED BY <2>3, <2>4
<1>6. CASE d.day = l /\ d.month = 12
  <2> DEFINE e == [year |-> d.year + 1, month |-> 1, day |-> 1]
  <2>1. Walk!DayAfter(d) = e
    BY <1>1, <1>6, SMT DEF Walk!DayAfter
  <2>2. IsDate(e)
    BY <1>1, <1>6, SMT DEF IsDate, Walk!MonthLength
  <2>3. Year(e) = Year(d) /\ Month(e) = 13 /\ Month(d) = 12 /\ e.day = 1 /\ d.day = 31
    BY <1>1, <1>2, <1>6, SMT DEF Year, Month, Walk!ShiftedYear, Walk!ShiftedMonth
  <2>4. DayNumber(e) = DayNumber(d) + 1
    BY <1>3, <2>3, MonthTable, SMT DEF DayNumber
  <2> QED BY <2>1, <2>2, <2>4, Zenon
<1> QED BY <1>1, <1>2, <1>4, <1>5, <1>6, SMT

LEMMA Calendars == CalendarInv => CalendarIsGregorian
<1> SUFFICES ASSUME CalendarInv PROVE CalendarIsGregorian
  OBVIOUS
<1>1. IsDate(date) /\ days = DayNumber(date) /\ weekday = ((days + 3) % 7) + 1
  BY SMT DEF CalendarInv, CalendarIs
<1>2. Walk!DateIsGregorian
  BY <1>1, DateFound, SMT DEF Walk!DateIsGregorian
<1>3. Walk!WeekdayFollows
  BY <1>1, DateFound, WeekdayFound, SMT DEF Walk!WeekdayFollows
<1>4. Walk!InverseSince2000
  BY <1>1, InverseFound, SMT DEF Walk!InverseSince2000
<1> QED BY <1>2, <1>3, <1>4, Zenon DEF CalendarIsGregorian, Walk!CalendarIsGregorian

LEMMA FirstDay == CalendarIs(0, Walk!Epoch, 4)
<1> DEFINE d == [year |-> 1970, month |-> 1, day |-> 1]
<1>1. IsDate(d)
  BY SMT DEF IsDate, Walk!MonthLength
<1>2. DayNumber(d) = 0
  <2>1. Year(d) = 1969 /\ Month(d) = 13 /\ d.day = 1
    BY SMT DEF Year, Month, Walk!ShiftedYear, Walk!ShiftedMonth
  <2>2. YearDays(1969) = 719162
    BY SMT DEF YearDays
  <2> QED BY <2>1, <2>2, MonthTable, SMT DEF DayNumber
<1> QED BY <1>1, <1>2, SMT DEF CalendarIs, Walk!Epoch

LEMMA NextDayInv == ASSUME CalendarInv, Walk!NextDay PROVE CalendarInv'
<1>1. CASE days' = 0 /\ date' = Walk!Epoch /\ weekday' = 4
  BY <1>1, FirstDay, Zenon DEF CalendarInv
<1>2. CASE days' = days + 1 /\ date' = Walk!DayAfter(date) /\ weekday' = (weekday % 7) + 1
  <2>1. IsDate(date) /\ days = DayNumber(date) /\ weekday = ((days + 3) % 7) + 1
    BY SMT DEF CalendarInv, CalendarIs
  <2>2. IsDate(date') /\ days' = DayNumber(date')
    BY <1>2, <2>1, DayStep, SMT
  <2>3. days \in Int
    BY <2>1, DateParts, SMT DEF DayNumber, YearDays, MonthDays
  <2>4. weekday' = ((days' + 3) % 7) + 1
    BY <1>2, <2>1, <2>3, SMT
  <2> QED BY <2>2, <2>4, Zenon DEF CalendarInv, CalendarIs
<1> QED BY <1>1, <1>2, Zenon DEF Walk!NextDay

(* Mid_RTC.c converts every day from 1970 to any last year of 16 bits into *)
(* its Gregorian date and weekday, and the dates of 2000 to 2047 back.     *)
THEOREM CalendarIsRight == PartSpec => []CalendarIsGregorian
<1>1. PartInit => CalendarInv
  BY FirstDay, Zenon DEF PartInit, Walk!Init, CalendarInv
<1>2. CalendarInv /\ [PartNext]_<<part, calendar, alarms, seconds, vars>> => CalendarInv'
  <2>1. CalendarInv /\ UNCHANGED calendar => CalendarInv'
    BY Zenon DEF calendar, CalendarInv
  <2> QED BY <2>1, NextDayInv, Zenon DEF PartNext
<1> QED BY <1>1, <1>2, Calendars, PTL DEF PartSpec
=============================================================================
