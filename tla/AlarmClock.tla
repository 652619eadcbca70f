----------------------------- MODULE AlarmClock -----------------------------
(***************************************************************************)
(* The clock and the one-time triggers: the main loop advances the clock   *)
(* (Mid_RTCHandle), sets it (Mid_DecodeRTCSet) and changes the table of    *)
(* triggers; the 100 ms interrupt reads both (App_AlarmOnTimeHandler) and  *)
(* puts what is due into the scheduler.                                    *)
(*                                                                         *)
(* Nothing guards the shared data.  The fields of g_tCommonTime are stored *)
(* one after the other, and so are those of a trigger: the interrupt may   *)
(* read either half written.  Seconds are left out: a conversion within a  *)
(* minute stores what is there already.                                    *)
(***************************************************************************)
EXTENDS Integers, FiniteSets

CONSTANTS
  MINUTES, HOURS, DAYS,   (* of an hour, a day, a week: 60, 24 and 7          *)
  MAX_IR_CODE,            (* triggers: 10                                     *)
  SCHED_QUEUE_SIZE,       (* entries of the scheduler: 24                     *)
  Times                   (* when a trigger may be set: days, hour and minute *)

(* What is assumed of the constants. *)
ClockAssumption ==
  /\ MINUTES \in Nat /\ MINUTES > 1 /\ HOURS \in Nat \ {0} /\ DAYS \in Nat \ {0}
  /\ MAX_IR_CODE \in Nat \ {0} /\ SCHED_QUEUE_SIZE \in Nat \ {0}
  /\ Times \subseteq [days : SUBSET (1 .. DAYS), hour : 0 .. HOURS, min : 0 .. MINUTES]

VARIABLES
  minutes,              (* g_ullUnixTimeStamp, in minutes of the week        *)
  g_tCommonTime,        (* the date the conversion has stored                *)
  uuPreMinutes,         (* the minute the alarms have been looked through at *)
  g_atIRDataTrigger,
  pc,                   (* the main loop: what it stores next                *)
  new,                  (* the trigger it copies: its slot, and when         *)
  free,                 (* free entries of the scheduler's queue             *)
  (* History, read by no action of the program: *)
  ticked,               (* a tick has seen this minute's date complete       *)
  owed,                 (* slots due this minute and not yet put             *)
  rung,                 (* slots put this minute                             *)
  odd                   (* what this minute has suffered                     *)

clock   == <<minutes, g_tCommonTime>>
table   == <<g_atIRDataTrigger, new>>
history == <<ticked, owed, rung, odd>>
vars    == <<clock, uuPreMinutes, table, pc, free, history>>

Slot == 1 .. MAX_IR_CODE
NotSet == [days |-> {}, hour |-> 0, min |-> 0]
Cleared == [mode |-> "NONE", time |-> NotSet]

DateOf(m) ==
  [minute |-> m % MINUTES, hour |-> (m \div MINUTES) % HOURS,
   dayOfWeek |-> m \div (MINUTES * HOURS) + 1]

(* One-time triggers that are set for a date.                              *)
DueAt(date) ==
  {i \in Slot : LET trigger == g_atIRDataTrigger[i]
                IN /\ trigger.mode = "ONE"
                   /\ date.dayOfWeek \in trigger.time.days
                   /\ date.hour = trigger.time.hour /\ date.minute = trigger.time.min}

Init ==
  /\ minutes = 0 /\ g_tCommonTime = [minute |-> 0, hour |-> 0, dayOfWeek |-> 0]
  /\ uuPreMinutes = 0
  /\ g_atIRDataTrigger = [i \in Slot |-> Cleared] /\ new = [slot |-> 1, time |-> NotSet]
  /\ pc = "idle" /\ free = SCHED_QUEUE_SIZE
  /\ ticked = FALSE /\ owed = {} /\ rung = {} /\ odd = {"set"}

-----------------------------------------------------------------------------
(* The main loop. *)

(* Mid_RTCConvertUnixToDate stores the minute, then the hour, and in the   *)
(* end the day of the week.                                                *)
Convert(m) ==
  /\ pc = "idle" /\ pc' = "hour"
  /\ minutes' = m
  /\ g_tCommonTime' = [g_tCommonTime EXCEPT !.minute = DateOf(m).minute]
  /\ UNCHANGED <<uuPreMinutes, table, free>>

StoreHour ==
  /\ pc = "hour" /\ pc' = "day"
  /\ g_tCommonTime' = [g_tCommonTime EXCEPT !.hour = DateOf(minutes).hour]
  /\ UNCHANGED <<minutes, uuPreMinutes, table, free, history>>

StoreDay ==
  /\ pc = "day" /\ pc' = "idle"
  /\ g_tCommonTime' = [g_tCommonTime EXCEPT !.dayOfWeek = DateOf(minutes).dayOfWeek]
  /\ UNCHANGED <<minutes, uuPreMinutes, table, free, history>>

SameMinute == Convert(minutes) /\ UNCHANGED history

(* Ticks come every 100 ms: one at least sees the date of every minute.    *)
NextMinute ==
  /\ ticked
  /\ LET m == (minutes + 1) % (MINUTES * HOURS * DAYS)
     IN Convert(m) /\ owed' = DueAt(DateOf(m))
  /\ ticked' = FALSE /\ rung' = {} /\ odd' = {}

Mid_DecodeRTCSet ==
  /\ \E m \in 0 .. MINUTES * HOURS * DAYS - 1 : Convert(m)
  /\ ticked' = FALSE /\ rung' = {} /\ odd' = {"set"} /\ owed' = {}

(* Mid_InsertNewIRTrigger: the first free slot; its mode is copied first.  *)
InsertTrigger(time) ==
  LET unused == {i \in Slot : g_atIRDataTrigger[i].mode = "NONE"}
      slot == CHOOSE i \in unused : \A j \in unused : i <= j
  IN /\ pc = "idle" /\ unused # {}
     /\ pc' = "copy days" /\ new' = [slot |-> slot, time |-> time]
     /\ g_atIRDataTrigger' = [g_atIRDataTrigger EXCEPT ![slot].mode = "ONE"]
     /\ UNCHANGED <<clock, uuPreMinutes, free, history>>

CopyField(at, field, next) ==
  /\ pc = at /\ pc' = next
  /\ g_atIRDataTrigger' = [g_atIRDataTrigger EXCEPT ![new.slot].time[field] = new.time[field]]
  /\ new' = IF next = "idle" THEN [slot |-> 1, time |-> NotSet] ELSE new
  /\ UNCHANGED <<clock, uuPreMinutes, free, history>>

CopyTrigger ==
  \/ CopyField("copy days", "days", "copy hour")
  \/ CopyField("copy hour", "hour", "copy min")
  \/ CopyField("copy min", "min", "idle")

(* Mid_RemoveIRTrigger clears the mode and leaves the rest.                *)
Mid_RemoveIRTrigger(i) ==
  /\ pc = "idle" /\ g_atIRDataTrigger[i].mode # "NONE"
  /\ g_atIRDataTrigger' = [g_atIRDataTrigger EXCEPT ![i].mode = "NONE"]
  /\ owed' = owed \ {i} /\ rung' = rung \ {i}
  /\ UNCHANGED <<clock, uuPreMinutes, new, pc, free, ticked, odd>>

(* app_sched_execute runs an event, and its entry is free again.           *)
ExecuteEvent ==
  /\ pc = "idle" /\ free < SCHED_QUEUE_SIZE /\ free' = free + 1
  /\ UNCHANGED <<clock, uuPreMinutes, table, pc, history>>

MainLoop ==
  \/ SameMinute \/ NextMinute \/ Mid_DecodeRTCSet \/ StoreHour \/ StoreDay
  \/ (\E time \in Times : InsertTrigger(time)) \/ CopyTrigger
  \/ (\E i \in Slot : Mid_RemoveIRTrigger(i))
  \/ ExecuteEvent

-----------------------------------------------------------------------------
(* Interrupts. *)

(* Another interrupt puts an event of its own.                             *)
OtherPut ==
  /\ free > 0 /\ free' = free - 1
  /\ UNCHANGED <<clock, uuPreMinutes, table, pc, history>>

(* Of the triggers due, put one after the other, the first find room.      *)
Accepted(due) == {i \in due : Cardinality({j \in due : j < i}) < free}

Put(slots, due) ==
  /\ free' = free - Cardinality(slots)
  /\ rung' = rung \union slots /\ owed' = owed \ slots
  /\ odd' = odd \union (IF g_tCommonTime # DateOf(minutes) THEN {"torn clock"} ELSE {})
                \union (IF Accepted(due) # due THEN {"queue full"} ELSE {})

LookThrough_StopsAtFirst(due) ==
  /\ Put({i \in Accepted(due) : \A j \in due : i <= j}, due)
  /\ uuPreMinutes' = g_tCommonTime.minute
LookThrough(due) ==
  /\ Put(Accepted(due), due)
  /\ uuPreMinutes' = g_tCommonTime.minute

App_AlarmOnTimeHandler_AnyDay ==
  /\ IF uuPreMinutes # g_tCommonTime.minute
     THEN LookThrough(UNION {DueAt([g_tCommonTime EXCEPT !.dayOfWeek = d]) : d \in 1 .. DAYS})
     ELSE UNCHANGED <<uuPreMinutes, free, owed, rung, odd>>
  /\ ticked' = (ticked \/ pc \notin {"hour", "day"})
  /\ UNCHANGED <<clock, table, pc>>

App_AlarmOnTimeHandler ==
  /\ IF uuPreMinutes # g_tCommonTime.minute
     THEN LookThrough(DueAt(g_tCommonTime))
     ELSE UNCHANGED <<uuPreMinutes, free, owed, rung, odd>>
  /\ ticked' = (ticked \/ pc \notin {"hour", "day"})
  /\ UNCHANGED <<clock, table, pc>>

Interrupt == OtherPut \/ App_AlarmOnTimeHandler

Next == MainLoop \/ Interrupt

Spec == Init /\ [][Next]_vars

-----------------------------------------------------------------------------
TypeOK ==
  /\ minutes \in 0 .. MINUTES * HOURS * DAYS - 1
  /\ g_tCommonTime \in [minute : 0 .. MINUTES - 1, hour : 0 .. HOURS - 1, dayOfWeek : 0 .. DAYS]
  /\ uuPreMinutes \in 0 .. MINUTES - 1
  /\ g_atIRDataTrigger \in
       [Slot -> [mode : {"NONE", "ONE"},
                 time : [days : SUBSET (1 .. DAYS), hour : 0 .. HOURS, min : 0 .. MINUTES]]]
  /\ new.slot \in Slot /\ new.time \in Times \union {NotSet}
  /\ pc \in {"idle", "hour", "day", "copy days", "copy hour", "copy min"}
  /\ free \in 0 .. SCHED_QUEUE_SIZE
  /\ ticked \in BOOLEAN /\ owed \subseteq Slot /\ rung \subseteq Slot
  /\ odd \subseteq {"set", "torn clock", "queue full"}

(* Every trigger that is due in a minute has been put when the minute runs *)
(* out, unless in it the clock was set or read half written, or the queue  *)
(* was full: uuPreMinutes then says that the minute is done with.          *)
NoAlarmMissed ==
  [][minutes' # minutes /\ "set" \notin odd' => owed = {} \/ odd # {}]_vars

(* What is put is due at this moment by the table, which may be half       *)
(* written: only with the clock half written may another trigger go off.   *)
(* And it goes off once a minute, unless the clock is set within it: what  *)
(* a tick takes of the queue is for triggers not put before.               *)
OnlyDueRings ==
  [][/\ \A i \in rung' \ rung :
          i \in DueAt(DateOf(minutes)) \/ g_tCommonTime # DateOf(minutes)
     /\ App_AlarmOnTimeHandler /\ "set" \notin odd =>
          free - free' = Cardinality(rung' \ rung)]_vars
=============================================================================
