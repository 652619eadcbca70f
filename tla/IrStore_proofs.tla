--------------------------- MODULE IrStore_proofs ---------------------------
(***************************************************************************)
(* Proofs about IrStore, for every table, every number of retries and      *)
(* every queue with room for two operations.                               *)
(*                                                                         *)
(* Until something fails (StoreInv): a write waits only as the last of the *)
(* queue and for the save in progress (QueueShape); a page to be written   *)
(* is erased, or its erase waits before the write (PagesCovered: this is   *)
(* where the room for two is needed); a save that is over has its table on *)
(* its page (Saved); and, but for the table being saved, a page with       *)
(* operations waiting belongs to an empty table, and any other page holds  *)
(* what the table holds (CodesKept, TriggersKept).                         *)
(***************************************************************************)
EXTENDS IrStore, SequenceTheorems, WellFoundedInduction, TLAPS

-----------------------------------------------------------------------------
(* Flash operations, one by one. *)

LEMMA ErasedIsEntry == Erased \in Entry /\ BlankCodes \in Table
<1>1. Erased \in Entry
  BY DEF Erased, Entry
<1> QED BY <1>1 DEF BlankCodes, Table

(* Programming erased flash leaves what is programmed.                     *)
LEMMA ProgrammedOnBlank ==
  ASSUME NEW table \in Table PROVE Programmed(BlankCodes, table) = table
<1>1. \A new : Both(Erased, new) = new
  BY DEF Both
<1> QED BY <1>1 DEF Programmed, BlankCodes, Table

LEMMA BothType ==
  ASSUME NEW old \in Entry, NEW new \in Entry PROVE Both(old, new) \in Entry
<1>1. CASE old = Erased \/ old = new \/ new = Erased
  BY <1>1 DEF Both
<1>2. CASE ~(old = Erased \/ old = new \/ new = Erased)
  <2> DEFINE s == IF old.status = new.status THEN old.status ELSE "DISABLE"
             n == IF old.id = new.id THEN old.id ELSE CLEAR
  <2>1. Both(old, new) = [status |-> s, id |-> n, code |-> Torn]
    BY <1>2 DEF Both
  <2>2. s \in {"ENABLE", "DISABLE", "ERASED"} /\ n \in IDs \union {CLEAR, 65535}
    BY DEF Entry
  <2> HIDE DEF s, n
  <2> QED BY <2>1, <2>2 DEF Entry
<1> QED BY <1>1, <1>2

LEMMA DataAfterType ==
  ASSUME dataPage \in Table, t_IRDataCommom \in Table, NEW op PROVE DataAfter(op) \in Table
<1>1. Programmed(dataPage, t_IRDataCommom) \in Table
  BY BothType DEF Programmed, Table
<1> QED BY <1>1, ErasedIsEntry DEF DataAfter

LEMMA DataCutShortType ==
  ASSUME dataPage \in Table, t_IRDataCommom \in Table, NEW op, NEW page \in DataCutShort(op)
  PROVE  page \in Table
<1>1. CASE op = Erase("data")
  <2>1. PICK done \in SUBSET Index :
          page = [i \in Index |-> IF i \in done THEN Erased ELSE dataPage[i]]
    BY <1>1 DEF DataCutShort, Erase, Write
  <2> QED BY <2>1, ErasedIsEntry DEF Table
<1>2. CASE op = Write("data", "codes")
  <2> DEFINE after == DataAfter(op)
  <2>1. PICK k \in Index :
          page = [i \in Index |-> CASE i < k -> after[i]
                                    [] i > k -> dataPage[i]
                                    [] i = k -> [after[i] EXCEPT !.code = Torn]]
    BY <1>2 DEF DataCutShort, Erase, Write
  <2>2. after \in Table
    BY DataAfterType
  <2> HIDE DEF after
  <2>3. \A e \in Entry : [e EXCEPT !.code = Torn] \in Entry
    BY DEF Entry
  <2>4. ASSUME NEW i \in Index PROVE page[i] \in Entry
    BY <2>1, <2>2, <2>3 DEF Table, Index
  <2> QED BY <2>1, <2>4 DEF Table
<1>3. CASE op # Erase("data") /\ op # Write("data", "codes")
  BY <1>3 DEF DataCutShort
<1> QED BY <1>1, <1>2, <1>3

-----------------------------------------------------------------------------
(* The queue. *)

QueueType ==
  /\ queue \in Seq(Operations) /\ Len(queue) <= QueueSize
  /\ state \in {"IDLE", "PENDING", "EXECUTING"} /\ (state # "IDLE" => queue # <<>>)
RunningType == queue_running = (state # "IDLE") /\ failed \in BOOLEAN
RetriesType == retries \in 0 .. MaxRetries
FsType == QueueType /\ RunningType /\ RetriesType

(* queue_process keeps the queue, or drops its head and fails.             *)
LEMMA ProcessQueue ==
  ASSUME NEW q \in Seq(Operations), Len(q) <= QueueSize, NEW f \in BOOLEAN,
         queue_process(q, f)
  PROVE  /\ QueueType' /\ RunningType' /\ (f => failed')
         /\ ~failed' => queue' = q /\ (state' = "IDLE" => q = <<>>)
<1>1. /\ queue' \in Seq(Operations) /\ Len(queue') <= QueueSize
      /\ state' \in {"IDLE", "PENDING", "EXECUTING"} /\ (state' # "IDLE" => queue' # <<>>)
  BY FstorageAssumption DEF queue_process
<1>2. queue_running' = (state' # "IDLE") /\ failed' \in BOOLEAN /\ (f => failed')
  BY Zenon DEF queue_process
<1>3. ~failed' => queue' = q /\ (state' = "IDLE" => q = <<>>)
  BY Zenon DEF queue_process
<1> QED BY <1>1, <1>2, <1>3 DEF QueueType, RunningType

LEMMA RequestEffect ==
  ASSUME FsType, NEW op \in Operations, Request(op)
  PROVE  /\ FsType' /\ (failed => failed')
         /\ ~failed' => queue' = Append(queue, op) /\ (state' = "IDLE" => queue' = <<>>)
<1>1. Append(queue, op) \in Seq(Operations) /\ Len(Append(queue, op)) <= QueueSize
  BY FstorageAssumption DEF FsType, QueueType, Request, Full
<1>2. RetriesType'
  BY DEF FsType, RetriesType, Request
<1>3. CASE queue_running
  <2>1. queue' = Append(queue, op) /\ UNCHANGED <<state, queue_running, failed>>
    BY <1>3 DEF Request
  <2>2. queue' # <<>> /\ state # "IDLE"
    <3>1. state # "IDLE"
      BY <1>3, Zenon DEF FsType, RunningType
    <3> QED BY <2>1, <3>1 DEF FsType, QueueType
  <2>3. QueueType'
    BY <1>1, <2>1, <2>2 DEF FsType, QueueType
  <2>4. RunningType'
    BY <2>1, Zenon DEF FsType, RunningType
  <2> QED BY <1>2, <2>1, <2>2, <2>3, <2>4 DEF FsType
<1>4. CASE ~queue_running
  <2>1. queue_process(Append(queue, op), failed)
    BY <1>4, Zenon DEF Request
  <2>2. failed \in BOOLEAN
    BY DEF FsType, RunningType
  <2> QED BY <1>1, <1>2, <2>1, <2>2, ProcessQueue DEF FsType
<1> QED BY <1>3, <1>4

LEMMA RequestEraseEffect ==
  ASSUME FsType, NEW page \in {"data", "trigger"}, RequestErase(page)
  PROVE  /\ FsType' /\ (failed => failed')
         /\ ~failed' => \/ queue' = Append(queue, Erase(page)) /\ (state' = "IDLE" => queue' = <<>>)
                        \/ Len(queue) = QueueSize /\ UNCHANGED <<queue, state>>
<1>1. CASE Request(Erase(page))
  BY <1>1, RequestEffect DEF Operations
<1>2. CASE Full /\ UNCHANGED fsvars
  BY <1>2 DEF Full, fsvars, FsType, QueueType, RunningType, RetriesType
<1> QED BY <1>1, <1>2 DEF RequestErase

LEMMA DoneEffect ==
  ASSUME FsType, OnSuccess
  PROVE  /\ FsType' /\ (failed => failed') /\ state = "EXECUTING" /\ queue # <<>>
         /\ ~failed' => queue' = Tail(queue) /\ (state' = "IDLE" => queue' = <<>>)
<1>1. state = "EXECUTING" /\ queue # <<>> /\ retries' = 0
  BY DEF OnSuccess, FsType, QueueType
<1>2. Tail(queue) \in Seq(Operations) /\ Len(Tail(queue)) <= QueueSize
  BY <1>1, FstorageAssumption DEF FsType, QueueType
<1>3. queue_process(Tail(queue), failed) /\ failed \in BOOLEAN
  BY DEF OnSuccess, FsType, RunningType
<1>4. RetriesType'
  BY <1>1, FstorageAssumption DEF RetriesType
<1> QED BY <1>1, <1>2, <1>3, <1>4, ProcessQueue DEF FsType

LEMMA FailedEffect ==
  ASSUME FsType, OnFailure \/ OnOther
  PROVE  /\ FsType' /\ (failed => failed')
         /\ ~failed' => queue' = queue /\ (state' = "IDLE" => queue' = <<>>)
<1>1. queue # <<>> /\ queue \in Seq(Operations) /\ failed \in BOOLEAN /\ Len(queue) <= QueueSize
  BY DEF OnFailure, OnOther, FsType, QueueType, RunningType
<1>2. Tail(queue) \in Seq(Operations) /\ Len(Tail(queue)) <= QueueSize
  BY <1>1, FstorageAssumption
<1>3. RetriesType'
  <2>1. \/ retries' \in {0, retries}
        \/ retries < MaxRetries /\ retries' = retries + 1
    BY Zenon DEF OnFailure, OnOther
  <2> QED BY <2>1, FstorageAssumption DEF FsType, RetriesType
<1>4. CASE queue_process(queue, failed)
  BY <1>1, <1>3, <1>4, ProcessQueue DEF FsType
<1>5. CASE queue_process(Tail(queue), TRUE)
  BY <1>2, <1>3, <1>5, ProcessQueue DEF FsType
<1> QED BY <1>4, <1>5 DEF OnFailure, OnOther

-----------------------------------------------------------------------------
(* Types. *)

RamType == t_IRDataCommom \in Table /\ g_atIRDataTrigger \in Triggers
FlashType == dataPage \in Table /\ triggerPage \in Triggers \union {GARBAGE}
LoopType ==
  /\ pc \in {"idle", "erase", "write", "wait", "remove", "triggers"}
  /\ saving \in {<<>>, <<"data", "codes">>, <<"trigger", "triggers">>, <<"trigger", "codes">>}
  /\ (saving # <<>> <=> pc \in {"erase", "write", "wait"})
  /\ then \in {"idle", "remove"} /\ ulEraseID \in IDs \union {CLEAR}

LEMMA TypeParts == TypeOK <=> FsType /\ RamType /\ FlashType /\ LoopType
BY DEF TypeOK, FsType, QueueType, RunningType, RetriesType, RamType, FlashType, LoopType

LEMMA SlotType ==
  /\ Unset \in Slot /\ NONE \in Slot /\ \A id \in IDs : [mode |-> "SET", id |-> id] \in Slot
  /\ BlankTriggers \in Triggers /\ [i \in Index |-> NONE] \in Triggers
<1>1. /\ Unset \in Slot /\ NONE \in Slot
      /\ \A id \in IDs : [mode |-> "SET", id |-> id] \in Slot
  BY DEF Unset, NONE, Slot
<1> QED BY <1>1 DEF BlankTriggers, Triggers

LEMMA InsertedType ==
  ASSUME NEW t \in Table, NEW id \in IDs, NEW code \in Codes
  PROVE  Inserted(t, id, code) \in Table
<1> DEFINE e == [status |-> "ENABLE", id |-> id, code |-> code]
<1>1. e \in Entry
  BY DEF Entry
<1>2. Inserted(t, id, code) = [t EXCEPT ![Min(Free(t))] = e]
  BY DEF Inserted
<1> HIDE DEF e
<1> QED BY <1>1, <1>2 DEF Table

LEMMA DisabledType == ASSUME NEW e \in Entry PROVE Disabled(e) \in Entry
<1>1. e.code \in Codes \union {NoCode, Torn}
  BY DEF Entry
<1> DEFINE c == e.code
<1> HIDE DEF c
<1> QED BY <1>1 DEF Disabled, Entry, c

(* What a save writes, while the main loop is in it.                       *)
LEMMA SavingIsOperation ==
  ASSUME LoopType, pc \in {"erase", "write", "wait"}
  PROVE  /\ saving \in {<<"data", "codes">>, <<"trigger", "triggers">>, <<"trigger", "codes">>}
         /\ saving[1] \in {"data", "trigger"} /\ Write(saving[1], saving[2]) \in Operations
BY DEF LoopType, Operations

LEMMA InitType == Init => TypeOK
<1> SUFFICES ASSUME Init PROVE TypeOK
  OBVIOUS
<1>1. queue_running = (state # "IDLE") /\ failed \in BOOLEAN
  BY Zenon DEF Init, fsInit
<1>2. FsType
  BY <1>1, FstorageAssumption DEF Init, fsInit, FsType, QueueType, RunningType, RetriesType
<1> QED BY <1>2, TypeParts, ErasedIsEntry, SlotType DEF Init, RamType, FlashType, LoopType

LEMMA NextFsType == ASSUME FsType, LoopType, [Next]_vars PROVE FsType'
<1>1. CASE UNCHANGED fsvars
  <2>1. RunningType'
    BY <1>1, Zenon DEF fsvars, FsType, RunningType
  <2> QED BY <1>1, <2>1 DEF fsvars, FsType, QueueType, RetriesType
<1>2. CASE Command \/ SaveReturns \/ RemoveOne \/ RemoveEnds \/ UNCHANGED vars
  <2>1. UNCHANGED fsvars
    BY <1>2, Zenon DEF Command, Mid_InsertNewIRCode, Mid_RemoveIRCode, Mid_InsertNewIRTrigger,
       Mid_RemoveIRTrigger, SaveReturns, RemoveOne, RemoveEnds, vars
  <2> QED BY <1>1, <2>1
<1>3. CASE SaveErases \/ EraseAllIRCode \/ EraseAllITrigger
  BY <1>3, SavingIsOperation, RequestEraseEffect
     DEF SaveErases, EraseAllIRCode, EraseAllITrigger
<1>4. CASE SaveWrites
  BY <1>4, SavingIsOperation, RequestEffect DEF SaveWrites
<1>5. CASE FlashDone \/ FlashFailed
  BY <1>5, DoneEffect, FailedEffect DEF FlashDone, FlashFailed
<1>6. CASE Restart
  <2>1. RunningType'
    BY <1>6, Zenon DEF Restart, RunningType
  <2> QED BY <1>6, <2>1, FstorageAssumption DEF Restart, FsType, QueueType, RetriesType
<1> QED BY <1>2, <1>3, <1>4, <1>5, <1>6, Zenon DEF Next, MainLoop

LEMMA NextLoopType == ASSUME LoopType, [Next]_vars PROVE LoopType'
<1> USE DEF LoopType
<1>1. CASE Command
  BY <1>1 DEF Command, Mid_InsertNewIRCode, Mid_RemoveIRCode, Mid_InsertNewIRTrigger,
     Mid_RemoveIRTrigger, Save
<1>2. CASE EraseAllIRCode
  BY <1>2 DEF EraseAllIRCode, locals
<1>3. CASE SaveErases \/ SaveWrites \/ EraseAllITrigger
  BY <1>3 DEF SaveErases, SaveWrites, EraseAllITrigger, locals
<1>4. CASE SaveReturns
  BY <1>4 DEF SaveReturns
<1>5. CASE RemoveOne \/ RemoveEnds
  BY <1>5 DEF RemoveOne, RemoveEnds, Save
<1>6. CASE FlashDone \/ FlashFailed \/ UNCHANGED vars
  BY <1>6 DEF FlashDone, FlashFailed, vars, locals
<1>7. CASE Restart
  BY <1>7 DEF Restart
<1> QED BY <1>1, <1>2, <1>3, <1>4, <1>5, <1>6, <1>7, Zenon DEF Next, MainLoop

LEMMA NextRamType == ASSUME RamType, FlashType', [Next]_vars PROVE RamType'
<1> USE DEF RamType
<1>1. ASSUME NEW id \in IDs, NEW code \in Codes, Mid_InsertNewIRCode(id, code) PROVE RamType'
  BY <1>1, InsertedType DEF Mid_InsertNewIRCode
<1>2. ASSUME NEW id \in IDs, Mid_RemoveIRCode(id) PROVE RamType'
  BY <1>2 DEF Mid_RemoveIRCode, ram
<1>3. ASSUME NEW id \in IDs, Mid_InsertNewIRTrigger(id) \/ Mid_RemoveIRTrigger(id)
      PROVE  RamType'
  BY <1>3, SlotType DEF Mid_InsertNewIRTrigger, Mid_RemoveIRTrigger, Triggers
<1>4. CASE RemoveOne
  BY <1>4, DisabledType DEF RemoveOne, Table
<1>5. CASE EraseAllIRCode
  BY <1>5, DisabledType DEF EraseAllIRCode, AllErased, Table
<1>6. CASE EraseAllITrigger
  BY <1>6, SlotType DEF EraseAllITrigger
<1>7. CASE \/ SaveErases \/ SaveWrites \/ SaveReturns \/ RemoveEnds \/ FlashDone
           \/ FlashFailed \/ UNCHANGED vars
  BY <1>7 DEF SaveErases, SaveWrites, SaveReturns, RemoveEnds, FlashDone, FlashFailed, vars, ram
<1>8. CASE Restart
  BY <1>8 DEF Restart, AsTriggers, FlashType
<1> QED BY <1>1, <1>2, <1>3, <1>4, <1>5, <1>6, <1>7, <1>8, Zenon DEF Next, MainLoop, Command

LEMMA NextFlashType == ASSUME FlashType, RamType, [Next]_vars PROVE FlashType'
<1> USE DEF FlashType, RamType
<1>1. CASE FlashDone
  <2>1. dataPage' \in Table
    BY <1>1, DataAfterType DEF FlashDone
  <2>2. triggerPage' \in {triggerPage, BlankTriggers, g_atIRDataTrigger, GARBAGE}
    BY <1>1 DEF FlashDone, TriggerAfter
  <2> QED BY <2>1, <2>2, SlotType
<1>2. CASE Restart
  <2>1. dataPage' \in Table
    BY <1>2, DataCutShortType DEF Restart, flash
  <2>2. triggerPage' \in {triggerPage, GARBAGE}
    BY <1>2 DEF Restart, TriggerCutShort, flash
  <2> QED BY <2>1, <2>2
<1>3. CASE Command \/ EraseAllIRCode \/ MainLoop \/ FlashFailed \/ UNCHANGED vars
  <2>1. UNCHANGED flash
    BY <1>3, Zenon DEF Command, Mid_InsertNewIRCode, Mid_RemoveIRCode, Mid_InsertNewIRTrigger,
       Mid_RemoveIRTrigger, EraseAllIRCode, MainLoop, SaveErases, SaveWrites, SaveReturns,
       RemoveOne, RemoveEnds, EraseAllITrigger, FlashFailed, vars
  <2> QED BY <2>1 DEF flash
<1> QED BY <1>1, <1>2, <1>3, Zenon DEF Next

(* The tables, the pages and the queue have their types, for every table   *)
(* and queue: a queue that is full refuses, and the refused call of        *)
(* Mid_FlashErase leaves all in order.                                     *)
THEOREM TypeCorrect == Spec => []TypeOK
<1>1. TypeOK /\ [Next]_vars => TypeOK'
  BY TypeParts, NextFsType, NextLoopType, NextRamType, NextFlashType
     DEF TypeOK, FsType, QueueType, RunningType, RetriesType, RamType, FlashType, LoopType
<1> QED BY <1>1, InitType, PTL DEF Spec

-----------------------------------------------------------------------------
(* The state of the queue and the pages while nothing has failed. *)

Touched(page) == \E k \in 1 .. Len(queue) : queue[k].page = page
Blanked(page) == IF page = "data" THEN dataPage = BlankCodes ELSE triggerPage = BlankTriggers
Covered(page) == Blanked(page) \/ \E k \in 1 .. Len(queue) : queue[k] = Erase(page)

SavingWrite == Write(saving[1], saving[2])

(* All that is queued are erases, but for the write of the save in hand,   *)
(* which is the last.                                                      *)
QueueShape ==
  /\ state = "IDLE" => queue = <<>>
  /\ \A k \in 1 .. Len(queue) :
       queue[k].kind = "write" => pc = "wait" /\ k = Len(queue) /\ queue[k] = SavingWrite
  /\ pc = "wait" /\ queue # <<>> => queue[Len(queue)] = SavingWrite

(* An erase is refused only when some other erase of the page is queued or *)
(* the page is blank already.                                              *)
PagesCovered ==
  /\ pc \in {"idle", "remove", "erase"} /\ queue # <<>> => Covered("data") /\ Covered("trigger")
  /\ pc = "triggers" =>
       Covered("data") /\ (queue # <<>> => Covered("trigger") \/ Len(queue) <= 1)
  /\ pc = "write" \/ (pc = "wait" /\ queue # <<>>) => Covered(saving[1])

Saved ==
  pc = "wait" /\ queue = <<>> =>
    /\ saving = <<"data", "codes">> => dataPage = t_IRDataCommom
    /\ saving = <<"trigger", "triggers">> => triggerPage = g_atIRDataTrigger
    /\ saving = <<"trigger", "codes">> => triggerPage = GARBAGE

(* Outside a save of the codes, RAM and page hold the same codes, or both  *)
(* are about to hold none.                                                 *)
SameCodes ==
  \A i \in Index : Enabled(dataPage, i) \/ Enabled(t_IRDataCommom, i) =>
                    dataPage[i] = t_IRDataCommom[i]
NoCodes == \A i \in Index : ~Enabled(t_IRDataCommom, i)
CodesKept ==
  saving # <<"data", "codes">> =>
    (Touched("data") => NoCodes) /\ (~Touched("data") => SameCodes)

SameTriggers ==
  triggerPage # GARBAGE =>
    \A i \in Index : \/ triggerPage[i] = g_atIRDataTrigger[i]
                     \/ "SET" \notin {triggerPage[i].mode, g_atIRDataTrigger[i].mode}
NoTriggers == \A i \in Index : g_atIRDataTrigger[i].mode # "SET"
TriggersKept ==
  saving \notin {<<"trigger", "triggers">>, <<"trigger", "codes">>} =>
    (Touched("trigger") => NoTriggers) /\ (~Touched("trigger") => SameTriggers)

Sound == QueueShape /\ PagesCovered /\ Saved /\ CodesKept /\ TriggersKept
Types == FsType /\ RamType /\ FlashType /\ LoopType

LEMMA QueueGrows ==
  ASSUME queue \in Seq(Operations), NEW op \in Operations, queue' = Append(queue, op)
  PROVE  /\ queue' # <<>> /\ Len(queue') = Len(queue) + 1 /\ queue'[Len(queue')] = op
         /\ \A k \in 1 .. Len(queue) : queue'[k] = queue[k]
OBVIOUS

LEMMA QueueShrinks ==
  ASSUME queue \in Seq(Operations), queue # <<>>, queue' = Tail(queue)
  PROVE  /\ Len(queue') = Len(queue) - 1 /\ Head(queue) = queue[1] /\ Head(queue) \in Operations
         /\ \A k \in 1 .. Len(queue') : queue'[k] = queue[k + 1]
         /\ queue' # <<>> <=> Len(queue') > 0
<1>1. /\ Len(queue') = Len(queue) - 1 /\ Head(queue) = queue[1] /\ Head(queue) \in Operations
      /\ \A k \in 1 .. Len(queue') : queue'[k] = queue[k + 1]
  OBVIOUS
<1>2. queue' \in Seq(Operations)
  OBVIOUS
<1>3. queue' # <<>> <=> Len(queue') > 0
  <2>1. \A seq \in Seq(Operations) : seq # <<>> => Len(seq) \in Nat \ {0}
    BY EmptySeq, Zenon
  <2>2. Len(<<>>) = 0
    OBVIOUS
  <2> QED BY <1>2, <2>1, <2>2
<1> QED BY <1>1, <1>3

(* What an operation queued behind the others changes.                     *)
LEMMA GrownQueue ==
  ASSUME queue \in Seq(Operations), NEW op \in Operations, queue' = Append(queue, op),
         UNCHANGED flash, NEW page \in {"data", "trigger"}
  PROVE  /\ Covered(page) => Covered(page)'
         /\ op = Erase(page) => Covered(page)'
         /\ Touched(page)' <=> Touched(page) \/ op.page = page
<1>1. /\ queue' # <<>> /\ Len(queue') = Len(queue) + 1 /\ queue'[Len(queue')] = op
      /\ Len(queue) \in Nat /\ \A k \in 1 .. Len(queue) : queue'[k] = queue[k]
  BY QueueGrows
<1>2. Covered(page) => Covered(page)'
  BY <1>1 DEF Covered, Blanked, flash
<1>3. op = Erase(page) => Covered(page)'
  BY <1>1 DEF Covered
<1>4. Touched(page)' <=> Touched(page) \/ op.page = page
  BY <1>1 DEF Touched
<1> QED BY <1>2, <1>3, <1>4

(* An erase at the head leaves its page blank; the rest moves up.          *)
LEMMA ErasedPage ==
  ASSUME queue \in Seq(Operations), queue # <<>>, queue' = Tail(queue),
         dataPage' = DataAfter(Head(queue)), triggerPage' = TriggerAfter(Head(queue)),
         NEW head \in {"data", "trigger"}, Head(queue) = Erase(head),
         NEW page \in {"data", "trigger"}
  PROVE  /\ Covered(page) => Covered(page)'
         /\ head = page => Blanked(page)' /\ Touched(page)
         /\ head # page => /\ Touched(page)' <=> Touched(page)
                           /\ page = "data" => dataPage' = dataPage
                           /\ page = "trigger" => triggerPage' = triggerPage
<1>1. /\ Len(queue') = Len(queue) - 1 /\ queue[1] = Erase(head) /\ Len(queue) \in Nat
      /\ Len(queue) > 0 /\ \A k \in 1 .. Len(queue') : queue'[k] = queue[k + 1]
  BY QueueShrinks
<1>2. head = page => Blanked(page)'
  BY DEF Blanked, DataAfter, TriggerAfter, Erase, Write
<1>3. head # page => /\ page = "data" => dataPage' = dataPage
                     /\ page = "trigger" => triggerPage' = triggerPage
  BY DEF DataAfter, TriggerAfter, Erase, Write
<1>4. head = page => Touched(page)
  BY <1>1 DEF Touched, Erase
<1>5. \A k \in 1 .. Len(queue) : k = 1 \/ (k - 1 \in 1 .. Len(queue') /\ queue'[k - 1] = queue[k])
  BY <1>1
<1>6. head # page => (Touched(page)' <=> Touched(page))
  BY <1>1, <1>5 DEF Touched, Erase
<1>7. head # page /\ Covered(page) => Covered(page)'
  <2> SUFFICES ASSUME head # page, ~Blanked(page),
                      NEW k \in 1 .. Len(queue), queue[k] = Erase(page)
               PROVE   \E j \in 1 .. Len(queue') : queue'[j] = Erase(page)
    BY <1>3 DEF Covered, Blanked
  <2>1. k # 1
    BY <1>1 DEF Erase
  <2> QED BY <1>5, <2>1
<1> QED BY <1>2, <1>3, <1>4, <1>6, <1>7 DEF Covered

-----------------------------------------------------------------------------
(* Steps that leave the queue and the pages alone. *)

LEMMA QuietPages ==
  ASSUME UNCHANGED <<fsvars, flash>>, NEW page
  PROVE  (Covered(page)' <=> Covered(page)) /\ (Touched(page)' <=> Touched(page))
BY DEF fsvars, flash, Covered, Blanked, Touched

LEMMA InsertCodeSound ==
  ASSUME Types, Sound, NEW id \in IDs, NEW code \in Codes, Mid_InsertNewIRCode(id, code)
  PROVE  Sound'
<1> USE DEF Mid_InsertNewIRCode, Save
<1>1. UNCHANGED <<queue, state>> /\ UNCHANGED <<fsvars, flash>>
  BY DEF fsvars
<1>2. pc = "idle" /\ pc' = "erase" /\ saving = <<>> /\ saving' = <<"data", "codes">>
  BY DEF Types, LoopType
<1>3. QueueShape' /\ PagesCovered' /\ Saved'
  BY <1>1, <1>2, QuietPages DEF Sound, QueueShape, PagesCovered, Saved
<1>4. CodesKept' /\ TriggersKept'
  BY <1>1, <1>2, QuietPages DEF Sound, CodesKept, TriggersKept, NoTriggers, SameTriggers, flash
<1> QED BY <1>3, <1>4 DEF Sound

LEMMA ChangeTriggerSound ==
  ASSUME Types, Sound, NEW id \in IDs, Mid_InsertNewIRTrigger(id) \/ Mid_RemoveIRTrigger(id)
  PROVE  Sound'
<1> USE DEF Mid_InsertNewIRTrigger, Mid_RemoveIRTrigger, Save
<1>1. UNCHANGED <<queue, state, t_IRDataCommom>> /\ UNCHANGED <<fsvars, flash>>
  BY DEF fsvars
<1>2. /\ pc = "idle" /\ pc' = "erase" /\ saving = <<>>
      /\ saving' \in {<<"trigger", "triggers">>, <<"trigger", "codes">>}
  BY DEF Types, LoopType
<1>3. QueueShape' /\ PagesCovered' /\ Saved'
  BY <1>1, <1>2, QuietPages DEF Sound, QueueShape, PagesCovered, Saved
<1>4. CodesKept' /\ TriggersKept'
  BY <1>1, <1>2, QuietPages DEF Sound, CodesKept, TriggersKept, NoCodes, SameCodes, Enabled, flash
<1> QED BY <1>3, <1>4 DEF Sound

LEMMA RemoveSound ==
  ASSUME Types, Sound,
         (\E id \in IDs : Mid_RemoveIRCode(id)) \/ RemoveOne \/ RemoveEnds
  PROVE  Sound'
<1> USE DEF Mid_RemoveIRCode, RemoveOne, RemoveEnds, Save, ram
<1>1. UNCHANGED <<queue, state, g_atIRDataTrigger>> /\ UNCHANGED <<fsvars, flash>>
  BY DEF fsvars
<1>2. pc \in {"idle", "remove"} /\ pc' \in {"idle", "remove", "erase"} /\ saving = <<>>
  BY DEF Types, LoopType
<1>3. saving' = <<"data", "codes">> \/ (saving' = <<>> /\ t_IRDataCommom' = t_IRDataCommom)
  BY <1>2
<1>4. QueueShape' /\ PagesCovered' /\ Saved'
  BY <1>1, <1>2, QuietPages DEF Sound, QueueShape, PagesCovered, Saved
<1>5. CodesKept'
  <2>1. CASE saving' = <<"data", "codes">>
    BY <2>1 DEF CodesKept
  <2>2. CASE saving' = <<>> /\ t_IRDataCommom' = t_IRDataCommom
    BY <1>1, <1>2, <2>2, QuietPages DEF Sound, CodesKept, NoCodes, SameCodes, Enabled, flash
  <2> QED BY <1>3, <2>1, <2>2
<1>6. TriggersKept'
  BY <1>1, <1>2, <1>3, QuietPages DEF Sound, TriggersKept, NoTriggers, SameTriggers, flash
<1> QED BY <1>4, <1>5, <1>6 DEF Sound

LEMMA SaveReturnsSound == ASSUME Types, Sound, SaveReturns PROVE Sound'
<1> USE DEF SaveReturns
<1>1. queue = <<>> /\ pc' \in {"idle", "remove"} /\ saving' = <<>>
  BY DEF is_busy, Sound, QueueShape, Types, LoopType
<1>2. UNCHANGED <<queue, state, t_IRDataCommom, g_atIRDataTrigger>> /\ UNCHANGED <<fsvars, flash>>
  BY DEF fsvars, ram
<1>3. ~Touched("data") /\ ~Touched("trigger")
  BY <1>1 DEF Touched
<1>4. QueueShape' /\ PagesCovered' /\ Saved'
  BY <1>1, <1>2 DEF Sound, QueueShape, PagesCovered, Saved
<1>5. saving \in {<<"data", "codes">>, <<"trigger", "triggers">>, <<"trigger", "codes">>}
  BY SavingIsOperation DEF Types
<1>6. SameCodes
  BY <1>1, <1>3, <1>5 DEF Sound, Saved, CodesKept, SameCodes
<1>7. SameTriggers
  BY <1>1, <1>3, <1>5 DEF Sound, Saved, TriggersKept, SameTriggers
<1>8. CodesKept' /\ TriggersKept'
  BY <1>2, <1>3, <1>6, <1>7, QuietPages
     DEF CodesKept, TriggersKept, SameCodes, SameTriggers, Enabled, flash
<1> QED BY <1>4, <1>8 DEF Sound

-----------------------------------------------------------------------------
(* Steps that queue an operation. *)

LEMMA EraseQueued ==
  ASSUME Types, QueueShape, ~failed', NEW page \in {"data", "trigger"}, RequestErase(page),
         UNCHANGED flash, pc # "wait", pc' # "wait", NEW other \in {"data", "trigger"}
  PROVE  /\ ~failed /\ QueueShape'
         /\ Covered(other) => Covered(other)'
         /\ Len(queue) < QueueSize \/ Covered(page) => Covered(page)'
         /\ Touched(other)' => Touched(other) \/ other = page
         /\ Touched(other) => Touched(other)'
         /\ ~Touched(page)' => Len(queue) = QueueSize /\ ~Touched(page)
         /\ Len(queue') <= Len(queue) + 1
<1>1. /\ queue \in Seq(Operations) /\ Len(queue) \in Nat /\ QueueSize \in Nat
      /\ Len(queue) <= QueueSize /\ Erase(page) \in Operations
      /\ Erase(page).page = page /\ Erase(page).kind = "erase"
  BY FstorageAssumption DEF Types, FsType, QueueType, Operations, Erase
<1>2. /\ ~failed
      /\ \/ queue' = Append(queue, Erase(page)) /\ (state' = "IDLE" => queue' = <<>>)
         \/ Len(queue) = QueueSize /\ UNCHANGED <<queue, state>>
  BY RequestEraseEffect DEF Types
<1>3. CASE queue' = Append(queue, Erase(page)) /\ (state' = "IDLE" => queue' = <<>>)
  <2>1. /\ Len(queue') = Len(queue) + 1 /\ queue'[Len(queue')] = Erase(page)
        /\ \A k \in 1 .. Len(queue) : queue'[k] = queue[k]
    BY <1>1, <1>3, QueueGrows
  <2>2. QueueShape'
    BY <1>1, <1>3, <2>1 DEF QueueShape
  <2>3. /\ Covered(other) => Covered(other)'
        /\ Covered(page)' /\ Touched(page)'
        /\ Touched(other)' <=> Touched(other) \/ page = other
    BY <1>1, <1>3, GrownQueue
  <2> QED BY <1>1, <1>2, <2>1, <2>2, <2>3
<1>4. CASE Len(queue) = QueueSize /\ UNCHANGED <<queue, state>>
  <2>1. QueueShape'
    BY <1>4 DEF QueueShape
  <2>2. /\ Covered(other)' <=> Covered(other)
        /\ Covered(page)' <=> Covered(page)
        /\ Touched(other)' <=> Touched(other)
        /\ Touched(page)' <=> Touched(page)
    BY <1>4 DEF Covered, Blanked, Touched, flash
  <2> QED BY <1>1, <1>2, <1>4, <2>1, <2>2
<1> QED BY <1>2, <1>3, <1>4

(* A page that is covered and not touched is blank already.                *)
LEMMA BlankAlready ==
  ASSUME NEW page, Covered(page), ~Touched(page) PROVE Blanked(page)
BY DEF Covered, Touched, Erase

LEMMA SaveErasesSound == ASSUME Types, Sound, ~failed', SaveErases PROVE Sound'
<1>1. /\ pc = "erase" /\ pc' = "write" /\ RequestErase(saving[1])
      /\ UNCHANGED <<t_IRDataCommom, g_atIRDataTrigger, dataPage, triggerPage, saving>>
      /\ UNCHANGED flash
  BY DEF SaveErases, ram, flash, locals
<1>2. /\ saving \in {<<"data", "codes">>, <<"trigger", "triggers">>, <<"trigger", "codes">>}
      /\ saving[1] \in {"data", "trigger"}
  BY <1>1, SavingIsOperation DEF Types
<1>3. /\ QueueShape' /\ \A other \in {"data", "trigger"} :
                           /\ Touched(other)' => Touched(other) \/ other = saving[1]
                           /\ Touched(other) => Touched(other)'
      /\ Len(queue) < QueueSize \/ Covered(saving[1]) => Covered(saving[1])'
  BY <1>1, <1>2, EraseQueued DEF Sound
<1>4. queue # <<>> => Covered(saving[1])
  BY <1>1, <1>2 DEF Sound, PagesCovered
<1>5. queue = <<>> => Len(queue) < QueueSize
  BY StoreAssumption, FstorageAssumption
<1>6. PagesCovered' /\ Saved'
  BY <1>1, <1>2, <1>3, <1>4, <1>5 DEF PagesCovered, Saved, Covered, Blanked
<1>7. CodesKept' /\ TriggersKept'
  BY <1>1, <1>2, <1>3
     DEF Sound, CodesKept, TriggersKept, NoCodes, SameCodes, NoTriggers, SameTriggers, Enabled
<1> QED BY <1>3, <1>6, <1>7 DEF Sound

LEMMA EraseAllIRCodeSound == ASSUME Types, Sound, ~failed', EraseAllIRCode PROVE Sound'
<1>1. /\ pc = "idle" /\ pc' = "triggers" /\ RequestErase("data")
      /\ UNCHANGED <<g_atIRDataTrigger, dataPage, triggerPage, saving>> /\ UNCHANGED flash
      /\ t_IRDataCommom' = AllErased(t_IRDataCommom)
  BY DEF EraseAllIRCode, flash, locals
<1>2. /\ QueueShape' /\ Len(queue') <= Len(queue) + 1
      /\ Covered("trigger") => Covered("trigger")'
      /\ Touched("trigger")' <=> Touched("trigger")
      /\ Len(queue) < QueueSize \/ Covered("data") => Covered("data")'
      /\ ~Touched("data")' => Len(queue) = QueueSize /\ ~Touched("data")
  BY <1>1, EraseQueued DEF Sound
<1>3. queue = <<>> => Len(queue) = 0 /\ Len(queue) < QueueSize
  BY StoreAssumption, FstorageAssumption
<1>4. queue # <<>> => Covered("data") /\ Covered("trigger")
  BY <1>1 DEF Sound, PagesCovered
<1>5. PagesCovered' /\ Saved'
  BY <1>1, <1>2, <1>3, <1>4 DEF PagesCovered, Saved
<1>6. NoCodes'
  BY <1>1 DEF NoCodes, Enabled, AllErased, Disabled
<1>7. ~Touched("data")' => SameCodes'
  <2>1. ~Touched("data")' => dataPage = BlankCodes
    BY <1>2, <1>3, <1>4, BlankAlready, FstorageAssumption DEF Blanked
  <2> QED BY <1>1, <1>6, <2>1 DEF SameCodes, NoCodes, Enabled, BlankCodes, Erased
<1>8. CodesKept' /\ TriggersKept'
  BY <1>1, <1>2, <1>6, <1>7 DEF Sound, CodesKept, TriggersKept, NoTriggers, SameTriggers
<1> QED BY <1>2, <1>5, <1>8 DEF Sound

LEMMA EraseAllITriggerSound == ASSUME Types, Sound, ~failed', EraseAllITrigger PROVE Sound'
<1>1. /\ pc = "triggers" /\ pc' = "idle" /\ RequestErase("trigger")
      /\ UNCHANGED <<t_IRDataCommom, dataPage, triggerPage, saving>> /\ UNCHANGED flash
      /\ g_atIRDataTrigger' = [i \in Index |-> NONE]
  BY DEF EraseAllITrigger, flash, locals
<1>2. /\ QueueShape'
      /\ Covered("data") => Covered("data")'
      /\ Touched("data")' <=> Touched("data")
      /\ Len(queue) < QueueSize \/ Covered("trigger") => Covered("trigger")'
      /\ ~Touched("trigger")' => Len(queue) = QueueSize /\ ~Touched("trigger")
  BY <1>1, EraseQueued DEF Sound
<1>3. Covered("data") /\ (Len(queue) = QueueSize => Covered("trigger"))
  BY <1>1, StoreAssumption, FstorageAssumption DEF Sound, PagesCovered
<1>4. Len(queue) < QueueSize \/ Len(queue) = QueueSize
  BY FstorageAssumption DEF Types, FsType, QueueType
<1>5. PagesCovered' /\ Saved'
  BY <1>1, <1>2, <1>3, <1>4 DEF PagesCovered, Saved
<1>6. NoTriggers'
  BY <1>1 DEF NoTriggers, NONE
<1>7. ~Touched("trigger")' => SameTriggers'
  <2>1. ~Touched("trigger")' => triggerPage = BlankTriggers
    BY <1>2, <1>3, BlankAlready DEF Blanked
  <2> QED BY <1>1, <2>1 DEF SameTriggers, BlankTriggers, Unset, NONE
<1>8. CodesKept' /\ TriggersKept'
  BY <1>1, <1>2, <1>6, <1>7 DEF Sound, CodesKept, TriggersKept, NoCodes, SameCodes, Enabled
<1> QED BY <1>2, <1>5, <1>8 DEF Sound

LEMMA SaveWritesSound == ASSUME Types, Sound, ~failed', SaveWrites PROVE Sound'
<1>1. /\ pc = "write" /\ pc' = "wait" /\ Request(SavingWrite)
      /\ UNCHANGED <<t_IRDataCommom, g_atIRDataTrigger, dataPage, triggerPage, saving>>
      /\ UNCHANGED flash
  BY DEF SaveWrites, SavingWrite, ram, flash, locals
<1>2. /\ saving \in {<<"data", "codes">>, <<"trigger", "triggers">>, <<"trigger", "codes">>}
      /\ saving[1] \in {"data", "trigger"} /\ SavingWrite \in Operations
      /\ SavingWrite.page = saving[1] /\ UNCHANGED SavingWrite
  BY <1>1, SavingIsOperation DEF Types, SavingWrite, Write
<1>3. /\ queue' = Append(queue, SavingWrite) /\ (state' = "IDLE" => queue' = <<>>)
      /\ queue \in Seq(Operations)
  BY <1>1, <1>2, RequestEffect DEF Types, FsType, QueueType
<1>4. /\ queue' # <<>> /\ Len(queue') = Len(queue) + 1 /\ queue'[Len(queue')] = SavingWrite
      /\ Len(queue) \in Nat /\ \A k \in 1 .. Len(queue) : queue'[k] = queue[k]
  BY <1>2, <1>3, QueueGrows
<1>5. QueueShape'
  BY <1>1, <1>2, <1>3, <1>4 DEF Sound, QueueShape
<1>6. \A page \in {"data", "trigger"} :
        /\ Covered(page) => Covered(page)'
        /\ Touched(page)' <=> Touched(page) \/ SavingWrite.page = page
  BY <1>1, <1>2, <1>3, GrownQueue
<1>7. PagesCovered' /\ Saved'
  BY <1>1, <1>2, <1>4, <1>6 DEF Sound, PagesCovered, Saved
<1>8. CodesKept' /\ TriggersKept'
  BY <1>1, <1>2, <1>6
     DEF Sound, CodesKept, TriggersKept, NoCodes, SameCodes, NoTriggers, SameTriggers, Enabled
<1> QED BY <1>5, <1>7, <1>8 DEF Sound

-----------------------------------------------------------------------------
(* Operations that end, and restarts. *)

(* The write of the save in hand is carried out: its page was blank.       *)
LEMMA WriteDoneSound ==
  ASSUME Types, Sound, ~failed', FlashDone, Head(queue).kind = "write" PROVE Sound'
<1>1. /\ queue # <<>> /\ queue' = Tail(queue) /\ queue \in Seq(Operations)
      /\ UNCHANGED <<t_IRDataCommom, g_atIRDataTrigger, pc, saving>>
      /\ dataPage' = DataAfter(Head(queue)) /\ triggerPage' = TriggerAfter(Head(queue))
  BY DoneEffect DEF Types, FsType, QueueType, FlashDone, ram, locals
<1>2. pc = "wait" /\ Len(queue) = 1 /\ queue[1] = SavingWrite /\ Head(queue) = SavingWrite
  <2>1. Head(queue) = queue[1] /\ Len(queue) \in Nat /\ Len(queue) > 0
    BY <1>1
  <2>2. queue[1].kind = "write" /\ 1 \in 1 .. Len(queue)
    BY <2>1
  <2>3. QueueShape
    BY DEF Sound
  <2> QED BY <2>1, <2>2, <2>3 DEF QueueShape
<1>3. queue' = <<>>
  BY <1>1, <1>2
<1>4. saving \in {<<"data", "codes">>, <<"trigger", "triggers">>, <<"trigger", "codes">>}
  BY <1>2, SavingIsOperation DEF Types
<1>5. Blanked(saving[1])
  <2>1. Covered(saving[1])
    BY <1>1, <1>2 DEF Sound, PagesCovered
  <2>2. \A page : queue[1] # Erase(page)
    BY <1>2 DEF SavingWrite, Write, Erase
  <2> QED BY <1>2, <2>1, <2>2 DEF Covered
<1>6. /\ saving = <<"data", "codes">> => dataPage' = t_IRDataCommom
      /\ saving = <<"trigger", "triggers">> => triggerPage' = g_atIRDataTrigger
      /\ saving = <<"trigger", "codes">> => triggerPage' = GARBAGE
  <2>1. CASE saving = <<"data", "codes">>
    <3>1. dataPage = BlankCodes /\ dataPage' = Programmed(dataPage, t_IRDataCommom)
      BY <1>1, <1>2, <1>5, <2>1 DEF Blanked, SavingWrite, DataAfter, Erase, Write
    <3> QED BY <2>1, <3>1, ProgrammedOnBlank DEF Types, RamType
  <2>2. CASE saving = <<"trigger", "triggers">>
    BY <1>1, <1>2, <1>5, <2>2 DEF Blanked, SavingWrite, TriggerAfter, Erase, Write
  <2>3. CASE saving = <<"trigger", "codes">>
    BY <1>1, <1>2, <1>5, <2>3 DEF Blanked, SavingWrite, TriggerAfter, Erase, Write
  <2> QED BY <1>4, <2>1, <2>2, <2>3
<1>7. QueueShape' /\ PagesCovered' /\ Saved'
  <2>1. QueueShape'
    BY <1>3 DEF QueueShape
  <2> QED BY <1>1, <1>2, <1>3, <1>6, <2>1 DEF PagesCovered, Saved
<1>8. CodesKept'
  <2>1. CASE saving = <<"data", "codes">>
    BY <1>1, <2>1 DEF CodesKept
  <2>2. CASE saving # <<"data", "codes">>
    <3>1. dataPage' = dataPage /\ ~Touched("data") /\ ~Touched("data")'
      BY <1>1, <1>2, <1>3, <1>4, <2>2 DEF SavingWrite, DataAfter, Erase, Write, Touched
    <3> QED BY <1>1, <3>1, <2>2 DEF Sound, CodesKept, SameCodes, Enabled
  <2> QED BY <2>1, <2>2
<1>9. TriggersKept'
  <2>1. CASE saving # <<"data", "codes">>
    BY <1>1, <1>4, <2>1 DEF TriggersKept
  <2>2. CASE saving = <<"data", "codes">>
    <3>1. triggerPage' = triggerPage /\ ~Touched("trigger") /\ ~Touched("trigger")'
      BY <1>1, <1>2, <1>3, <2>2 DEF SavingWrite, TriggerAfter, Erase, Write, Touched
    <3> QED BY <1>1, <3>1, <2>2 DEF Sound, TriggersKept, SameTriggers
  <2> QED BY <2>1, <2>2
<1> QED BY <1>7, <1>8, <1>9 DEF Sound

LEMMA EraseDoneSound ==
  ASSUME Types, Sound, ~failed', FlashDone, NEW head \in {"data", "trigger"},
         Head(queue) = Erase(head)
  PROVE  Sound'
<1>1. /\ queue # <<>> /\ queue' = Tail(queue) /\ queue \in Seq(Operations)
      /\ (state' = "IDLE" => queue' = <<>>)
      /\ UNCHANGED <<t_IRDataCommom, g_atIRDataTrigger, pc, saving>>
      /\ dataPage' = DataAfter(Head(queue)) /\ triggerPage' = TriggerAfter(Head(queue))
  BY DoneEffect DEF Types, FsType, QueueType, FlashDone, ram, locals
<1>2. /\ Len(queue') = Len(queue) - 1 /\ queue[1] = Erase(head) /\ Len(queue) \in Nat
      /\ Len(queue) > 0 /\ \A k \in 1 .. Len(queue') : queue'[k] = queue[k + 1]
      /\ queue' # <<>> <=> Len(queue') > 0
  BY <1>1, QueueShrinks
<1>3. ASSUME NEW page \in {"data", "trigger"}
      PROVE  /\ Covered(page) => Covered(page)'
             /\ head = page => Blanked(page)' /\ Touched(page)
             /\ head # page => /\ Touched(page)' <=> Touched(page)
                               /\ page = "data" => dataPage' = dataPage
                               /\ page = "trigger" => triggerPage' = triggerPage
  BY <1>1, ErasedPage
<1>4. pc = "wait" => queue' # <<>>
  <2>1. queue[1] # SavingWrite
    BY <1>2 DEF SavingWrite, Write, Erase
  <2>2. pc = "wait" => queue[Len(queue)] = SavingWrite
    BY <1>1 DEF Sound, QueueShape
  <2> QED BY <1>2, <2>1, <2>2
<1>5. UNCHANGED SavingWrite
  BY <1>1 DEF SavingWrite
<1>6. QueueShape'
  <2>1. QueueShape
    BY DEF Sound
  <2>2. ASSUME NEW k \in 1 .. Len(queue'), queue'[k].kind = "write"
        PROVE  pc' = "wait" /\ k = Len(queue') /\ queue'[k] = SavingWrite'
    <3>1. k + 1 \in 1 .. Len(queue) /\ queue[k + 1].kind = "write" /\ queue'[k] = queue[k + 1]
      BY <1>2, <2>2
    <3>2. pc = "wait" /\ k + 1 = Len(queue) /\ queue[k + 1] = SavingWrite
      BY <2>1, <3>1 DEF QueueShape
    <3>3. k = Len(queue')
      BY <1>2, <3>2
    <3> QED BY <1>1, <1>5, <3>1, <3>2, <3>3
  <2>3. pc' = "wait" /\ queue' # <<>> => queue'[Len(queue')] = SavingWrite'
    <3>1. pc = "wait" => queue[Len(queue)] = SavingWrite
      BY <1>1, <2>1 DEF QueueShape
    <3>2. queue' # <<>> => queue'[Len(queue')] = queue[Len(queue)]
      BY <1>2
    <3> QED BY <1>1, <1>5, <3>1, <3>2
  <2> QED BY <1>1, <2>2, <2>3 DEF QueueShape
<1>7. PagesCovered' /\ Saved'
  <2>1. pc = "wait" => saving[1] \in {"data", "trigger"}
    BY SavingIsOperation DEF Types
  <2>2. pc = "write" => saving[1] \in {"data", "trigger"}
    BY SavingIsOperation DEF Types
  <2> QED BY <1>1, <1>2, <1>3, <1>4, <2>1, <2>2 DEF Sound, PagesCovered, Saved
<1>8. CodesKept'
  <2>1. CASE head = "data"
    <3>1. dataPage' = BlankCodes /\ Touched("data")
      BY <1>3, <2>1 DEF Blanked
    <3> QED BY <1>1, <3>1
            DEF Sound, CodesKept, NoCodes, SameCodes, Enabled, BlankCodes, Erased
  <2>2. CASE head = "trigger"
    <3>1. dataPage' = dataPage /\ (Touched("data")' <=> Touched("data"))
      BY <1>3, <2>2
    <3> QED BY <1>1, <3>1 DEF Sound, CodesKept, NoCodes, SameCodes, Enabled
  <2> QED BY <2>1, <2>2
<1>9. TriggersKept'
  <2>1. CASE head = "trigger"
    <3>1. triggerPage' = BlankTriggers /\ Touched("trigger")
      BY <1>3, <2>1 DEF Blanked
    <3> QED BY <1>1, <3>1 DEF Sound, TriggersKept, NoTriggers, SameTriggers, BlankTriggers, Unset
  <2>2. CASE head = "data"
    <3>1. triggerPage' = triggerPage /\ (Touched("trigger")' <=> Touched("trigger"))
      BY <1>3, <2>2
    <3> QED BY <1>1, <3>1 DEF Sound, TriggersKept, NoTriggers, SameTriggers
  <2> QED BY <2>1, <2>2
<1> QED BY <1>6, <1>7, <1>8, <1>9 DEF Sound

LEMMA FlashDoneSound == ASSUME Types, Sound, ~failed', FlashDone PROVE Sound'
<1>1. Head(queue) \in Operations
  BY DoneEffect, QueueShrinks DEF Types, FsType, QueueType, FlashDone
<1>2. Head(queue).kind = "write" \/ \E head \in {"data", "trigger"} : Head(queue) = Erase(head)
  BY <1>1 DEF Operations, Write
<1> QED BY <1>2, WriteDoneSound, EraseDoneSound

LEMMA FlashFailedSound == ASSUME Types, Sound, ~failed', FlashFailed PROVE Sound'
<1>1. /\ queue' = queue /\ (state' = "IDLE" => queue' = <<>>)
      /\ UNCHANGED <<t_IRDataCommom, g_atIRDataTrigger, dataPage, triggerPage, pc, saving>>
  BY FailedEffect DEF Types, FlashFailed, ram, flash, locals
<1>2. QueueShape' /\ PagesCovered' /\ Saved'
  BY <1>1 DEF Sound, QueueShape, PagesCovered, Saved, SavingWrite, Covered, Blanked
<1>3. CodesKept' /\ TriggersKept'
  BY <1>1 DEF Sound, CodesKept, TriggersKept, NoCodes, SameCodes, NoTriggers, SameTriggers,
              Enabled, Touched
<1> QED BY <1>2, <1>3 DEF Sound

LEMMA RestartSound == ASSUME Restart PROVE Sound'
<1>1. /\ queue' = <<>> /\ pc' = "idle" /\ saving' = <<>> /\ t_IRDataCommom' = dataPage'
      /\ triggerPage' # GARBAGE => g_atIRDataTrigger' = triggerPage'
  BY DEF Restart, AsTriggers
<1> QED BY <1>1 DEF Sound, QueueShape, PagesCovered, Saved, CodesKept, SameCodes, TriggersKept,
                    SameTriggers, Touched, Enabled

-----------------------------------------------------------------------------
(* The invariant. *)

StoreInv == ~failed => Sound

LEMMA InitStoreInv == Init => StoreInv
BY DEF Init, fsInit, StoreInv, Sound, QueueShape, PagesCovered, Saved, CodesKept, SameCodes,
       TriggersKept, SameTriggers, Touched, Enabled

LEMMA NextStoreInv == ASSUME Types, StoreInv, [Next]_vars PROVE StoreInv'
<1>1. CASE Restart
  BY <1>1, RestartSound DEF StoreInv
<1>2. CASE UNCHANGED vars
  BY <1>2 DEF StoreInv, Sound, QueueShape, PagesCovered, Saved, CodesKept, SameCodes, NoCodes,
              TriggersKept, SameTriggers, NoTriggers, Touched, Covered, Blanked, SavingWrite,
              Enabled, vars, fsvars, ram, flash, locals
<1>3. CASE Next /\ ~Restart
  <2> SUFFICES ASSUME ~failed' PROVE Sound'
    BY DEF StoreInv
  <2>1. ~failed
    <3>1. CASE SaveErases \/ EraseAllIRCode \/ EraseAllITrigger
      BY <3>1, SavingIsOperation, RequestEraseEffect
         DEF Types, SaveErases, EraseAllIRCode, EraseAllITrigger
    <3>2. CASE SaveWrites
      BY <3>2, SavingIsOperation, RequestEffect DEF Types, SaveWrites
    <3>3. CASE FlashDone \/ FlashFailed
      BY <3>3, DoneEffect, FailedEffect DEF Types, FlashDone, FlashFailed
    <3>4. CASE Command \/ SaveReturns \/ RemoveOne \/ RemoveEnds
      BY <3>4, Zenon DEF Command, Mid_InsertNewIRCode, Mid_RemoveIRCode, Mid_InsertNewIRTrigger,
         Mid_RemoveIRTrigger, SaveReturns, RemoveOne, RemoveEnds, fsvars
    <3> QED BY <1>3, <3>1, <3>2, <3>3, <3>4, Zenon DEF Next, MainLoop
  <2>2. Sound
    BY <2>1 DEF StoreInv
  <2> QED BY <1>3, <2>2, InsertCodeSound, ChangeTriggerSound, RemoveSound, SaveReturnsSound,
             SaveErasesSound, EraseAllIRCodeSound, EraseAllITriggerSound, SaveWritesSound,
             FlashDoneSound, FlashFailedSound, Zenon DEF Next, MainLoop, Command
<1> QED BY <1>1, <1>2, <1>3

LEMMA TypesInvariant == Spec => []Types
<1>1. TypeOK => Types
  BY TypeParts DEF Types
<1> QED BY <1>1, TypeCorrect, PTL

LEMMA StoreInvariant == Spec => []StoreInv
BY InitStoreInv, NextStoreInv, TypesInvariant, PTL DEF Spec

-----------------------------------------------------------------------------
(* What the invariant says of the runs' properties. *)

(* No word is programmed that is not erased, though Mid_FlashErase may     *)
(* have been refused by a full queue: the write of a save stands behind    *)
(* all else, and the erase of its page that filled the queue, or a blank   *)
(* page, is before it.                                                     *)
THEOREM ErasedBeforeWritten == Spec => []WriteOnErased
<1>1. Types /\ StoreInv => WriteOnErased
  <2> SUFFICES ASSUME Types, Sound, state = "EXECUTING", Head(queue).kind = "write"
               PROVE  Blanked(Head(queue).page)
    BY DEF StoreInv, WriteOnErased, Blanked
  <2>1. /\ queue # <<>> /\ Head(queue) = queue[1] /\ Len(queue) \in Nat /\ Len(queue) > 0
    BY DEF Types, FsType, QueueType
  <2>2. pc = "wait" /\ Len(queue) = 1 /\ queue[1] = SavingWrite
    <3>1. 1 \in 1 .. Len(queue) /\ queue[1].kind = "write"
      BY <2>1
    <3> QED BY <3>1 DEF Sound, QueueShape
  <2>3. Covered(saving[1]) /\ Head(queue).page = saving[1]
    BY <2>1, <2>2 DEF Sound, PagesCovered, SavingWrite, Write
  <2>4. \A page : queue[1] # Erase(page)
    BY <2>2 DEF SavingWrite, Write, Erase
  <2> QED BY <2>2, <2>3, <2>4 DEF Covered
<1> QED BY <1>1, TypesInvariant, StoreInvariant, PTL

(* wait_for_flash_ready returns, while nothing has failed, only when the   *)
(* table is on its page: it waits for the queue to be empty, and the save  *)
(* in hand is the last there.                                              *)
THEOREM DurableSaves == Spec => SaveIsDurable
<1>1. ASSUME Types, StoreInv, SaveReturns, ~failed
      PROVE  /\ saving = <<"data", "codes">> => dataPage = t_IRDataCommom
             /\ saving = <<"trigger", "triggers">> => triggerPage = g_atIRDataTrigger
  BY <1>1 DEF StoreInv, Sound, QueueShape, Saved, SaveReturns, is_busy
<1> QED BY <1>1, TypesInvariant, StoreInvariant, PTL DEF SaveIsDurable

(* What no operation is queued for, a restart leaves as it is.             *)
LEMMA RestartLeaves ==
  ASSUME Types, Restart, NEW page \in {"data", "trigger"}, ~Touched(page)
  PROVE  IF page = "data" THEN dataPage' = dataPage ELSE triggerPage' = triggerPage
<1>1. CASE UNCHANGED flash
  BY <1>1 DEF flash
<1>2. CASE /\ state = "EXECUTING"
           /\ dataPage' \in DataCutShort(Head(queue))
           /\ triggerPage' \in TriggerCutShort(Head(queue))
  <2>1. Head(queue).page # page
    <3>1. queue # <<>> /\ Head(queue) = queue[1] /\ 1 \in 1 .. Len(queue)
      BY <1>2 DEF Types, FsType, QueueType
    <3> QED BY <3>1 DEF Touched
  <2>2. CASE page = "data"
    BY <1>2, <2>1, <2>2 DEF DataCutShort, Erase, Write
  <2>3. CASE page = "trigger"
    BY <1>2, <2>1, <2>3 DEF TriggerCutShort
  <2> QED BY <2>2, <2>3
<1> QED BY <1>1, <1>2 DEF Restart

LEMMA SmallestIndex == ASSUME NEW S, S \subseteq Index, S # {} PROVE Min(S) \in S
<1>1. S \subseteq Nat
  <2>1. \A x \in Index : x \in Nat
    BY TableAssumption DEF Index
  <2> QED BY <2>1
<1> DEFINE R == OpToRel(<, Nat)
<1> HIDE DEF R
<1>2. IsWellFoundedOn(R, Nat)
  BY NatLessThanWellFounded DEF R
<1>3. \A x, y \in Nat : ~(<<y, x>> \in R) => x =< y
  <2> SUFFICES ASSUME NEW x \in Nat, NEW y \in Nat, y < x PROVE <<y, x>> \in R
    OBVIOUS
  <2> QED BY Zenon DEF OpToRel, R
<1>4. \E x \in S : \A y \in S : ~(<<y, x>> \in R)
  BY <1>1, <1>2, WFMin, Zenon
<1>5. \E x \in S : \A y \in S : x =< y
  BY <1>1, <1>3, <1>4
<1> QED BY <1>5, Zenon DEF Min

(* Tables that hold the same enabled entries look the same to every caller. *)
LEMMA SameLookups ==
  ASSUME SameCodes, NEW id PROVE Lookup(dataPage, id) = Lookup(t_IRDataCommom, id)
<1>1. Holding(dataPage, id) = Holding(t_IRDataCommom, id)
  BY DEF SameCodes, Holding, Enabled
<1>2. CASE Holding(dataPage, id) = {}
  BY <1>1, <1>2 DEF Lookup
<1>3. CASE Holding(dataPage, id) # {}
  <2> DEFINE first == Min(Holding(dataPage, id))
  <2>1. first \in Holding(dataPage, id)
    BY <1>3, SmallestIndex DEF Holding
  <2>2. dataPage[first] = t_IRDataCommom[first]
    BY <2>1 DEF SameCodes, Holding
  <2> QED BY <1>1, <1>3, <2>2 DEF Lookup, LinearSerachID
<1> QED BY <1>2, <1>3

(* A restart between operations changes no lookup of a code: RAM and page  *)
(* hold the same enabled entries, though they may differ elsewhere.        *)
THEOREM CodesSurvive == Spec => RestartKeepsCodes
<1>1. ASSUME Types, StoreInv, Restart, Settled("data")
      PROVE  \A id \in IDs : Lookup(t_IRDataCommom', id) = Lookup(t_IRDataCommom, id)
  <2>1. Sound /\ ~Touched("data") /\ pc = "idle"
    BY <1>1, Zenon DEF Settled, StoreInv, Touched
  <2>2. SameCodes
    BY <1>1, <2>1 DEF Sound, CodesKept, Types, LoopType
  <2>3. t_IRDataCommom' = dataPage
    <3>1. dataPage' = dataPage
      BY <1>1, <2>1, RestartLeaves
    <3> QED BY <1>1, <3>1, Zenon DEF Restart
  <2> QED BY <2>2, <2>3, SameLookups
<1> QED BY <1>1, TypesInvariant, StoreInvariant, PTL DEF RestartKeepsCodes

(* A restart between operations changes no trigger that is set, unless a   *)
(* removal has left the codes on the triggers' page.                       *)
THEOREM TriggersSurvive == Spec => RestartKeepsTriggers
<1>1. ASSUME Types, StoreInv, Restart, Settled("trigger"), triggerPage # GARBAGE
      PROVE  \A i \in Index :
               \/ g_atIRDataTrigger'[i] = g_atIRDataTrigger[i]
               \/ "SET" \notin {g_atIRDataTrigger'[i].mode, g_atIRDataTrigger[i].mode}
  <2>1. Sound /\ ~Touched("trigger") /\ pc = "idle"
    BY <1>1, Zenon DEF Settled, StoreInv, Touched
  <2>2. SameTriggers
    BY <1>1, <2>1 DEF Sound, TriggersKept, Types, LoopType
  <2>3. g_atIRDataTrigger' = triggerPage
    <3>1. triggerPage' = triggerPage
      BY <1>1, <2>1, RestartLeaves
    <3>2. g_atIRDataTrigger' \in AsTriggers(triggerPage')
      BY <1>1, Zenon DEF Restart
    <3> QED BY <1>1, <3>1, <3>2 DEF AsTriggers
  <2> QED BY <1>1, <2>2, <2>3 DEF SameTriggers
<1> QED BY <1>1, TypesInvariant, StoreInvariant, PTL DEF RestartKeepsTriggers
=============================================================================
