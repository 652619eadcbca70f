------------------------------- MODULE Clock --------------------------------
(***************************************************************************)
(* The parts that go by the time: the calendar, the one-time alarms, the   *)
(* motion sensor with its alarms, and the queueing of seconds.  They share *)
(* no state here and run one at a time, the others staying as they start.  *)
(***************************************************************************)
EXTENDS MotionAlarms

CONSTANTS
  LastYear,                                                (* of the calendar *)
  DAYS, Times,                                             (* of the alarms   *)
  TIME_20MS_BY_10MS, TIME_1S_BY_10MS, MaxOthers,           (* of the seconds  *)
  SCHED_QUEUE_SIZE                                         (* of both         *)

VARIABLES
  part,
  days, date, weekday,
  minutes, g_tCommonTime, onTimePreMinutes, g_atIRDataTrigger, pc, new, free,
  ticked, owed, rung, odd,
  tick, ubCount20ms, queue, busy, others, overran, behind

calendar == <<days, date, weekday>>
alarms   == <<minutes, g_tCommonTime, onTimePreMinutes, g_atIRDataTrigger, pc, new, free,
              ticked, owed, rung, odd>>
seconds  == <<tick, ubCount20ms, queue, busy, others, overran, behind>>

Walk == INSTANCE CalendarWalk
Alarms == INSTANCE AlarmClock WITH uuPreMinutes <- onTimePreMinutes
Seconds == INSTANCE TimerEvents

ASSUME PartsAssumption ==
  Walk!WalkAssumption /\ Alarms!ClockAssumption /\ Seconds!TimerAssumption

PartInit ==
  /\ part \in {"calendar", "alarms", "motion", "seconds"}
  /\ Walk!Init /\ Alarms!Init /\ Seconds!Init
  /\ Init /\ (part = "motion" \/ trigger = [i \in Slot |-> None])

PartNext ==
  /\ UNCHANGED part
  /\ \/ part = "calendar" /\ Walk!NextDay /\ UNCHANGED <<alarms, seconds, vars>>
     \/ part = "alarms" /\ Alarms!Next /\ UNCHANGED <<calendar, seconds, vars>>
     \/ part = "seconds" /\ Seconds!Next /\ UNCHANGED <<calendar, alarms, vars>>
     \/ part = "motion" /\ Next /\ UNCHANGED <<calendar, alarms, seconds>>

PartSpec == PartInit /\ [][PartNext]_<<part, calendar, alarms, seconds, vars>>

(* The conversions of Mid_RTC.c are those of the Gregorian calendar, for   *)
(* every day up to LastYear: date, weekday, and back from 2000 on.         *)
CalendarIsGregorian == Walk!CalendarIsGregorian

(* A one-time trigger that is due in a minute goes off in it, unless the   *)
(* clock was set or read half written, or the queue was full.              *)
NoAlarmMissed == []Alarms!TypeOK /\ Alarms!NoAlarmMissed

(* A one-time trigger goes off when the table says it is due, and once a   *)
(* minute, unless the clock was read half written or was set.              *)
OnlyDueRings == Alarms!OnlyDueRings

(* The main loop's clock counts every second the timer puts, unless the    *)
(* loop leaves the queue standing for too long.                            *)
ClockKeepsTime == Seconds!TypeOK /\ Seconds!ClockKeepsTime
=============================================================================
