--------------------------- MODULE TriggerCommands ---------------------------
(***************************************************************************)
(* The commands that create and delete triggers.  A write over BLE is an   *)
(* interrupt: it sets g_ubTriggerType and puts the text into the queue of  *)
(* the scheduler.  The main loop parses the text later, by what            *)
(* g_ubTriggerType says at that time, and changes the table.               *)
(*                                                                         *)
(* The sensitivity of a motion trigger is sent by a write of its own, that *)
(* no queue delays: it goes to the next trigger that is created.           *)
(***************************************************************************)
EXTENDS Integers, FiniteSets, Sequences

CONSTANTS
  MAX_IR_CODE,        (* triggers: 10                                        *)
  SCHED_QUEUE_SIZE,   (* entries of the scheduler: 24                        *)
  TrigIDs,            (* IDs users give to triggers                          *)
  Texts,              (* what is written to the two characteristics          *)
  Digits,             (* sensitivities that are sent: 0 .. 15                *)
  MaxWrites           (* bound: writes in a behaviour                        *)

(* A text has a number of parts: the command ("c" or "d"), the ID, the     *)
(* code, the days, a time and another time.  The first time is four        *)
(* digits, or any other hexadecimal number; good says that the other parts *)
(* are well formed.                                                        *)
Text ==
  [verb : {"c", "d"}, id : TrigIDs, parts : 2 .. 6, time1 : {"digits", "hex"}, good : BOOLEAN]
Types == {"SCHEDULING", "TIMEOUT"}

ASSUME CommandAssumption ==
  /\ MAX_IR_CODE \in Nat \ {0} /\ SCHED_QUEUE_SIZE \in Nat \ {0} /\ MaxWrites \in Nat
  /\ Texts \subseteq Text /\ Digits \subseteq 0 .. 15 /\ TrigIDs \subseteq 0 .. 255

VARIABLES
  g_ubTriggerType,
  g_ubMotionSensTemp,   (* a digit, or 0xFF when there is none               *)
  g_atIRDataTrigger,
  queue,                (* of the scheduler, oldest first; the event that is
                           being handled keeps its place                     *)
  pc, tIRDataTrigger,   (* the handler, and the trigger it builds            *)
  (* History, read by no action of the program: *)
  writes,               (* writes so far                                     *)
  sensWrite,            (* the one that sent the sensitivity: 0 at the start *)
  wanted,               (* IDs of triggers, by the commands sent             *)
  odd                   (* what has kept a command from being carried out    *)

settings == <<g_ubTriggerType, g_ubMotionSensTemp>>
handler  == <<pc, tIRDataTrigger>>
history  == <<writes, sensWrite, wanted, odd>>
vars     == <<settings, g_atIRDataTrigger, queue, handler, history>>

Slot == 1 .. MAX_IR_CODE
Free(i) == g_atIRDataTrigger[i].mode = "NONE"
None == [mode |-> "NONE", id |-> 0, time1 |-> "unset", sen |-> 0, text |-> <<>>, from |-> 0]
Other == [text |-> <<>>, type |-> "none", overtaken |-> FALSE]   (* another event *)

Init ==
  /\ g_ubTriggerType = "NONE"
  /\ g_ubMotionSensTemp = 0      (* InitVarialbe is never called             *)
  /\ g_atIRDataTrigger = [i \in Slot |-> None]
  /\ queue = <<>> /\ pc = "idle" /\ tIRDataTrigger = None
  /\ writes = 0 /\ sensWrite = 0 /\ wanted = {} /\ odd = {}

-----------------------------------------------------------------------------
(* What a text asks for when it is parsed as being of a type.              *)

Parses(text, type) ==
  text.good /\ (text.parts >= 5 /\ type = "SCHEDULING" => text.time1 = "digits")

Time1(text, type) ==
  IF text.parts < 5 THEN "unset" ELSE IF type = "SCHEDULING" THEN "clock" ELSE "timeout"

Mode(text, type) ==
  CASE text.parts = 6 -> "WINDOW"
    [] text.parts = 5 -> IF type = "SCHEDULING" THEN "ONE" ELSE "TIMEOUT"
    [] text.parts = 3 -> "MOTION"
    [] OTHER          -> "NONE"

(* ConvertSensitivityToLevel: LEVEL_0 is 1, LEVEL_4 is 5.                  *)
ConvertSensitivityToLevel(digit) ==
  LET sens == 30 - 2 * digit
  IN IF sens < 4 THEN 0
     ELSE CHOOSE level \in 1 .. 5 :
            /\ sens <= <<6, 12, 18, 24, 30>>[level]
            /\ level > 1 => sens > <<6, 12, 18, 24, 30>>[level - 1]

(* The IDs of triggers when a command has been carried out.                *)
Wanted(ids, text, type) ==
  IF ~Parses(text, type) THEN ids
  ELSE IF text.verb = "d" THEN ids \ {text.id}
  ELSE IF Mode(text, type) = "NONE" \/ Cardinality(ids) = MAX_IR_CODE THEN ids
  ELSE ids \union {text.id}

-----------------------------------------------------------------------------
(* Interrupts. *)

HasRoom == Len(queue) < SCHED_QUEUE_SIZE
Count == writes < MaxWrites /\ writes' = writes + 1

(* CUS_UUID_MOT_TOUT and CUS_UUID_SCHEDULE: the type is set even if there  *)
(* is no room for the event.                                               *)
WriteText(text, type) ==
  /\ Count
  /\ g_ubTriggerType' = type
  /\ LET overtaken == [i \in DOMAIN queue |->
                         IF queue[i].type = type \/ queue[i] = Other THEN queue[i]
                         ELSE [queue[i] EXCEPT !.overtaken = TRUE]]
     IN queue' = IF HasRoom
                 THEN Append(overtaken, [text |-> <<text>>, type |-> type, overtaken |-> FALSE])
                 ELSE overtaken
  /\ wanted' = Wanted(wanted, text, type)
  /\ odd' = odd \union (IF HasRoom THEN {} ELSE {"refused"})
                \union (IF \E i \in DOMAIN queue : queue'[i].overtaken THEN {"overtaken"} ELSE {})
  /\ UNCHANGED <<g_ubMotionSensTemp, g_atIRDataTrigger, handler, sensWrite>>

(* CUS_UUID_MOT_SENS *)
WriteSensitivity(digit) ==
  /\ Count
  /\ g_ubMotionSensTemp' = digit /\ sensWrite' = writes'
  /\ UNCHANGED <<g_ubTriggerType, g_atIRDataTrigger, queue, handler, wanted, odd>>

(* Another interrupt, or a write to another characteristic, puts an event. *)
OtherPut ==
  /\ HasRoom /\ queue' = Append(queue, Other)
  /\ UNCHANGED <<settings, g_atIRDataTrigger, handler, history>>

Interrupt ==
  \/ \E text \in Texts, type \in Types : WriteText(text, type)
  \/ \E digit \in Digits : WriteSensitivity(digit)
  \/ OtherPut

-----------------------------------------------------------------------------
(* The main loop handles the first event of the queue. *)

Return == pc' = "idle" /\ queue' = Tail(queue) /\ tIRDataTrigger' = None

OtherHandled ==
  /\ pc = "idle" /\ queue # <<>> /\ Head(queue) = Other
  /\ Return
  /\ UNCHANGED <<settings, g_atIRDataTrigger, history>>

(* Mid_DecodeTimeBasedSchedulingDecode.  A text of six parts is longer     *)
(* than TempData, the buffer it is copied into: what the rest of it meets  *)
(* there depends on the build, and may make it unreadable.                 *)
Decode ==
  /\ pc = "idle" /\ queue # <<>> /\ Head(queue) # Other
  /\ LET text == Head(queue).text[1]
     IN \/ /\ Parses(text, g_ubTriggerType)
           /\ pc' = "decoded"
           /\ tIRDataTrigger' = [None EXCEPT !.id = text.id, !.text = Head(queue).text,
                                             !.time1 = Time1(text, g_ubTriggerType)]
           /\ UNCHANGED <<queue, odd>>
        \/ /\ ~Parses(text, g_ubTriggerType) \/ text.parts = 6
           /\ Return
           /\ odd' = odd \union (IF Parses(text, g_ubTriggerType) THEN {"overrun"} ELSE {})
  /\ UNCHANGED <<settings, g_atIRDataTrigger, writes, sensWrite, wanted>>

(* Mid_DecodeTimeBasedScheduling reads the type once more, and the table,  *)
(* which the main loop alone changes.                                      *)
Duplicate_OnTimeOnly(id) ==
  \E i \in Slot : g_atIRDataTrigger[i].mode = "ONE" /\ g_atIRDataTrigger[i].id = id
Duplicate(id) == \E i \in Slot : ~Free(i) /\ g_atIRDataTrigger[i].id = id

ModeNow_IgnoresType(text) == Mode(text, "SCHEDULING")
ModeNow(text) == Mode(text, g_ubTriggerType)

Full_LeavesOne == Cardinality({i \in Slot : Free(i)}) < 2
Full == \A i \in Slot : ~Free(i)

Create ==
  /\ pc = "decoded" /\ tIRDataTrigger.text[1].verb = "c"
  /\ LET built == [tIRDataTrigger EXCEPT !.mode = ModeNow(tIRDataTrigger.text[1])]
     IN IF Duplicate(built.id) \/ Full THEN Return
        ELSE /\ pc' = IF g_ubMotionSensTemp # 255 THEN "clear" ELSE "copy"
             /\ tIRDataTrigger' =
                  IF g_ubMotionSensTemp = 255 THEN built
                  ELSE [built EXCEPT !.sen = ConvertSensitivityToLevel(g_ubMotionSensTemp),
                                     !.from = sensWrite]
             /\ UNCHANGED queue
  /\ UNCHANGED <<settings, g_atIRDataTrigger, history>>

ClearSensitivity ==
  /\ pc = "clear" /\ pc' = "copy"
  /\ g_ubMotionSensTemp' = 255
  /\ UNCHANGED <<g_ubTriggerType, g_atIRDataTrigger, queue, tIRDataTrigger, history>>

(* The copy goes to the first free slot; then the table is saved.          *)
FirstFree == CHOOSE i \in Slot : Free(i) /\ \A j \in Slot : j < i => ~Free(j)
CopyTrigger ==
  /\ pc = "copy"
  /\ g_atIRDataTrigger' =
       [g_atIRDataTrigger EXCEPT ![FirstFree] = [tIRDataTrigger EXCEPT !.text = <<Head(queue)>>]]
  /\ Return
  /\ UNCHANGED <<settings, history>>

(* Mid_RemoveIRTrigger clears the mode of the first trigger with the ID.   *)
Remove(id) ==
  LET holding == {i \in Slot : ~Free(i) /\ g_atIRDataTrigger[i].id = id}
  IN IF holding = {} THEN g_atIRDataTrigger
     ELSE [g_atIRDataTrigger EXCEPT
             ![CHOOSE i \in holding : \A j \in holding : i <= j].mode = "NONE"]

Delete ==
  /\ pc = "decoded" /\ tIRDataTrigger.text[1].verb = "d"
  /\ g_atIRDataTrigger' = Remove(tIRDataTrigger.id)
  /\ Return
  /\ UNCHANGED <<settings, history>>

MainLoop ==
  OtherHandled \/ Decode \/ Create \/ ClearSensitivity \/ CopyTrigger \/ Delete

Next == Interrupt \/ MainLoop

Spec == Init /\ [][Next]_vars

-----------------------------------------------------------------------------
Trigger ==
  [mode : {"NONE", "ONE", "WINDOW", "MOTION", "TIMEOUT"}, id : TrigIDs \union {0},
   time1 : {"unset", "clock", "timeout"}, sen : 0 .. 5,
   text : UNION {[1 .. n -> Texts] : n \in 0 .. 1}, from : 0 .. MaxWrites]

TypeOK ==
  /\ g_ubTriggerType \in Types \union {"NONE"}
  /\ g_ubMotionSensTemp \in Digits \union {0, 255}
  /\ \A i \in Slot : [g_atIRDataTrigger[i] EXCEPT !.text = <<>>] \in Trigger
  /\ Len(queue) <= SCHED_QUEUE_SIZE
  /\ pc \in {"idle", "decoded", "clear", "copy"} /\ tIRDataTrigger \in Trigger
  /\ writes \in 0 .. MaxWrites /\ sensWrite \in 0 .. MaxWrites
  /\ wanted \subseteq TrigIDs /\ odd \subseteq {"refused", "overtaken", "overrun"}

(* The types are right, and an ID finds one trigger: the table never holds *)
(* two with the same one, whatever was deleted and created in between.     *)
IDsAreUnique ==
  /\ TypeOK
  /\ \A i, j \in Slot :
       ~Free(i) /\ ~Free(j) /\ g_atIRDataTrigger[i].id = g_atIRDataTrigger[j].id => i = j

(* A sensitivity that was sent goes to one trigger at most.                *)
SensitivityUsedOnce ==
  \A i, j \in Slot :
    /\ ~Free(i) /\ ~Free(j) /\ i # j
    /\ g_atIRDataTrigger[i].sen # 0 /\ g_atIRDataTrigger[j].sen # 0
    => g_atIRDataTrigger[i].from # g_atIRDataTrigger[j].from

(* A trigger is what its command asked for on the characteristic it was    *)
(* written to, although the type is kept in one variable for all commands  *)
(* that wait, unless a command of the other type came before it was done;  *)
(* and its sensitivity was not that of another trigger before.             *)
TriggerIsAsSent ==
  /\ SensitivityUsedOnce
  /\ \A i \in Slot : ~Free(i) =>
       LET trigger == g_atIRDataTrigger[i]
           command == trigger.text[1]
       IN \/ command.overtaken
          \/ /\ trigger.mode = Mode(command.text[1], command.type)
             /\ trigger.time1 = Time1(command.text[1], command.type)

(* When all commands have been handled the table holds what they ask for,  *)
(* in the order they were sent, unless one was refused by a full queue,    *)
(* overtaken or unreadable.                                                *)
CommandsInOrder ==
  queue = <<>> /\ odd = {} => {g_atIRDataTrigger[i].id : i \in {j \in Slot : ~Free(j)}} = wanted
=============================================================================
