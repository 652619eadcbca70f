------------------------------- MODULE IrStore -------------------------------
(***************************************************************************)
(* The tables of codes and of triggers, in RAM and in their pages of       *)
(* flash.  A change is made in RAM, then the page is erased (queued, the   *)
(* result ignored) and written from RAM (waited for).  The device may      *)
(* restart at any moment, and then reads the pages.                        *)
(***************************************************************************)
EXTENDS IrTable, Fstorage

(* With room for one operation only, the erase of the triggers behind that *)
(* of the codes would be dropped, and the next save write on what is there. *)
ASSUME StoreAssumption == QueueSize > 1

VARIABLES
  t_IRDataCommom,      (* codes                                            *)
  g_atIRDataTrigger,   (* triggers: their IDs, or why a slot is free       *)
  dataPage,            (* the page at IR_DATA_START_ADDRESS                *)
  triggerPage,         (* the page at IR_TRIG_START_ADDRESS                *)
  pc,                  (* where the main loop is                           *)
  saving,              (* the page being saved, and the table saved to it  *)
  then,                (* where to go on when it is saved                  *)
  ulEraseID            (* argument of Mid_RemoveIRCode                     *)

ram    == <<t_IRDataCommom, g_atIRDataTrigger>>
flash  == <<dataPage, triggerPage>>
locals == <<saving, then, ulEraseID>>
vars   == <<fsvars, ram, flash, pc, locals>>

(* A trigger has the mode NONE, one of the program's four (SET), or one    *)
(* that it does not know (UNSET), as erased flash has, whose ID reads 255.  *)
(* The ID of a slot with mode NONE is never looked at: CLEAR stands for it. *)
Unset    == [mode |-> "UNSET", id |-> 255]
NONE     == [mode |-> "NONE", id |-> CLEAR]
Slot     == [mode : {"SET", "UNSET"}, id : IDs \union {255}] \union {NONE}
Triggers == [Index -> Slot]

BlankCodes    == [i \in Index |-> Erased]
BlankTriggers == [i \in Index |-> Unset]

(* A trigger page with something else than a table of triggers on it reads *)
(* as any triggers.                                                        *)
GARBAGE == <<>>
AsTriggers(page) == IF page = GARBAGE THEN Triggers ELSE {page}

Init ==
  /\ fsInit
  /\ dataPage = BlankCodes /\ triggerPage = BlankTriggers
  /\ t_IRDataCommom = BlankCodes /\ g_atIRDataTrigger = BlankTriggers
  /\ pc = "idle"
  /\ saving = <<>> /\ then = "idle" /\ ulEraseID = CLEAR

-----------------------------------------------------------------------------
(* Flash operations.  Programming only clears bits. *)

Erase(page)         == [kind |-> "erase", page |-> page, from |-> "nothing"]
Write(page, source) == [kind |-> "write", page |-> page, from |-> source]
Operations ==
  {Erase("data"), Erase("trigger"),
   Write("data", "codes"), Write("trigger", "triggers"), Write("trigger", "codes")}

Both(old, new) ==
  CASE old = Erased \/ old = new -> new
    [] new = Erased              -> old
    [] OTHER -> [status |-> IF old.status = new.status THEN old.status ELSE "DISABLE",
                 id     |-> IF old.id = new.id THEN old.id ELSE CLEAR,
                 code   |-> Torn]
Programmed(old, new) == [i \in Index |-> Both(old[i], new[i])]

(* The pages when an operation has been carried out. *)
DataAfter(op) ==
  CASE op = Erase("data")          -> BlankCodes
    [] op = Write("data", "codes") -> Programmed(dataPage, t_IRDataCommom)
    [] OTHER                       -> dataPage

TriggerAfter(op) ==
  CASE op = Erase("trigger") -> BlankTriggers
    [] op = Write("trigger", "triggers") ->
         IF triggerPage \in {BlankTriggers, g_atIRDataTrigger} THEN g_atIRDataTrigger ELSE GARBAGE
    [] op = Write("trigger", "codes") -> GARBAGE
    [] OTHER -> triggerPage

FlashDone ==
  /\ OnSuccess
  /\ dataPage' = DataAfter(Head(queue))
  /\ triggerPage' = TriggerAfter(Head(queue))
  /\ UNCHANGED <<ram, pc, locals>>

FlashFailed == (OnFailure \/ OnOther) /\ UNCHANGED <<ram, flash, pc, locals>>

-----------------------------------------------------------------------------
(* Saving a table: Mid_FlashErase, then Mid_FlashWrite. *)

Save(page, source, next) ==
  /\ pc' = "erase" /\ saving' = <<page, source>> /\ then' = next

(* Mid_FlashErase; NRF_ERROR_NO_MEM comes back to callers that ignore it.  *)
RequestErase(page) == Request(Erase(page)) \/ (Full /\ UNCHANGED fsvars)

SaveErases_Skipped ==
  /\ pc = "erase" /\ pc' = "write"
  /\ UNCHANGED <<fsvars, ram, flash, locals>>

SaveErases ==
  /\ pc = "erase"
  /\ RequestErase(saving[1])
  /\ pc' = "write"
  /\ UNCHANGED <<ram, flash, locals>>

(* A full queue makes APP_ERROR_CHECK restart the device: see Restart.     *)
SaveWrites ==
  /\ pc = "write"
  /\ Request(Write(saving[1], saving[2]))
  /\ pc' = "wait"
  /\ UNCHANGED <<ram, flash, locals>>

(* wait_for_flash_ready *)
SaveReturns_Early ==
  /\ pc = "wait"
  /\ pc' = then /\ saving' = <<>> /\ then' = "idle"
  /\ UNCHANGED <<fsvars, ram, flash, ulEraseID>>

SaveReturns ==
  /\ pc = "wait" /\ ~is_busy
  /\ pc' = then /\ saving' = <<>> /\ then' = "idle"
  /\ UNCHANGED <<fsvars, ram, flash, ulEraseID>>

-----------------------------------------------------------------------------
(* Operations of the main loop. *)

Mid_InsertNewIRCode(id, code) ==
  /\ pc = "idle" /\ CanInsert(t_IRDataCommom)
  /\ t_IRDataCommom' = Inserted(t_IRDataCommom, id, code)
  /\ Save("data", "codes", "idle")
  /\ UNCHANGED <<fsvars, g_atIRDataTrigger, flash, ulEraseID>>

Mid_RemoveIRCode(id) ==
  /\ pc = "idle"
  /\ ulEraseID' = id /\ pc' = "remove"
  /\ UNCHANGED <<fsvars, ram, flash, saving, then>>

(* Every entry that holds the ID is cleared and saved on its own.          *)
RemoveOne_Unsaved ==
  /\ pc = "remove" /\ Holding(t_IRDataCommom, ulEraseID) # {}
  /\ t_IRDataCommom' =
       [t_IRDataCommom EXCEPT ![LinearSerachID(t_IRDataCommom, ulEraseID)] = Disabled(@)]
  /\ UNCHANGED <<fsvars, g_atIRDataTrigger, flash, pc, locals>>

RemoveOne ==
  /\ pc = "remove" /\ Holding(t_IRDataCommom, ulEraseID) # {}
  /\ t_IRDataCommom' =
       [t_IRDataCommom EXCEPT ![LinearSerachID(t_IRDataCommom, ulEraseID)] = Disabled(@)]
  /\ Save("data", "codes", "remove")
  /\ UNCHANGED <<fsvars, g_atIRDataTrigger, flash, ulEraseID>>

RemoveEnds ==
  /\ pc = "remove" /\ Holding(t_IRDataCommom, ulEraseID) = {}
  /\ pc' = "idle" /\ ulEraseID' = CLEAR
  /\ UNCHANGED <<fsvars, ram, flash, saving, then>>

WithID(id) == {i \in Index : g_atIRDataTrigger[i].id = id /\ g_atIRDataTrigger[i] # NONE}
FreeSlots  == {i \in Index : g_atIRDataTrigger[i].mode # "SET"}

Mid_InsertNewIRTrigger(id) ==
  /\ pc = "idle" /\ WithID(id) = {} /\ FreeSlots # {}
  /\ g_atIRDataTrigger' =
       [g_atIRDataTrigger EXCEPT ![Min(FreeSlots)] = [mode |-> "SET", id |-> id]]
  /\ Save("trigger", "triggers", "idle")
  /\ UNCHANGED <<fsvars, t_IRDataCommom, flash, ulEraseID>>

(* What is saved here is the table of codes.                               *)
Mid_RemoveIRTrigger(id) ==
  /\ pc = "idle" /\ WithID(id) # {}
  /\ g_atIRDataTrigger' = [g_atIRDataTrigger EXCEPT ![Min(WithID(id))] = NONE]
  /\ Save("trigger", "codes", "idle")
  /\ UNCHANGED <<fsvars, t_IRDataCommom, flash, ulEraseID>>

(* The key held for three seconds: both pages are queued to be erased, and *)
(* both tables cleared, without waiting.                                   *)
EraseAllIRCode ==
  /\ pc = "idle"
  /\ RequestErase("data")
  /\ t_IRDataCommom' = AllErased(t_IRDataCommom)
  /\ pc' = "triggers"
  /\ UNCHANGED <<g_atIRDataTrigger, flash, locals>>

EraseAllITrigger_InRam ==
  /\ pc = "triggers"
  /\ g_atIRDataTrigger' = [i \in Index |-> NONE]
  /\ pc' = "idle"
  /\ UNCHANGED <<fsvars, t_IRDataCommom, flash, locals>>

EraseAllITrigger ==
  /\ pc = "triggers"
  /\ RequestErase("trigger")
  /\ g_atIRDataTrigger' = [i \in Index |-> NONE]
  /\ pc' = "idle"
  /\ UNCHANGED <<t_IRDataCommom, flash, locals>>

Command ==
  \E id \in IDs :
    \/ \E code \in Codes : Mid_InsertNewIRCode(id, code)
    \/ Mid_RemoveIRCode(id)
    \/ Mid_InsertNewIRTrigger(id)
    \/ Mid_RemoveIRTrigger(id)

MainLoop ==
  \/ SaveErases \/ SaveWrites \/ SaveReturns
  \/ RemoveOne \/ RemoveEnds \/ EraseAllITrigger

-----------------------------------------------------------------------------
(* A restart: power lost, or an error the program answers by a reset.  The *)
(* operation that is executing may be carried out in part.                 *)

DataCutShort(op) ==
  CASE op = Erase("data") ->
         {[i \in Index |-> IF i \in done THEN Erased ELSE dataPage[i]] : done \in SUBSET Index}
    [] op = Write("data", "codes") ->
         {[i \in Index |-> CASE i < k -> DataAfter(op)[i]
                             [] i > k -> dataPage[i]
                             [] i = k -> [DataAfter(op)[i] EXCEPT !.code = Torn]] :
            k \in Index}
    [] OTHER -> {dataPage}

TriggerCutShort(op) ==
  IF op.page = "trigger" THEN {triggerPage, GARBAGE} ELSE {triggerPage}

(* Mid_FlashInit reads both pages. *)
Restart ==
  /\ \/ UNCHANGED flash
     \/ /\ state = "EXECUTING"
        /\ dataPage' \in DataCutShort(Head(queue))
        /\ triggerPage' \in TriggerCutShort(Head(queue))
  /\ t_IRDataCommom' = dataPage'
  /\ g_atIRDataTrigger' \in AsTriggers(triggerPage')
  /\ queue' = <<>> /\ state' = "IDLE" /\ queue_running' = FALSE /\ retries' = 0
  /\ failed' = FALSE
  /\ pc' = "idle" /\ saving' = <<>> /\ then' = "idle" /\ ulEraseID' = CLEAR

Next == Command \/ EraseAllIRCode \/ MainLoop \/ FlashDone \/ FlashFailed \/ Restart

(* The main loop runs on, and the SoftDevice reports every operation.      *)
Fairness == WF_vars(MainLoop) /\ WF_vars(FlashDone \/ FlashFailed)

Spec == Init /\ [][Next]_vars /\ Fairness

-----------------------------------------------------------------------------
(* Types.  A page is saved exactly while the main loop is in Save, and the *)
(* queue runs exactly while an operation is at the SoftDevice.             *)
TypeOK ==
  /\ t_IRDataCommom \in Table /\ g_atIRDataTrigger \in Triggers
  /\ dataPage \in Table /\ triggerPage \in Triggers \union {GARBAGE}
  /\ pc \in {"idle", "erase", "write", "wait", "remove", "triggers"}
  /\ saving \in {<<>>, <<"data", "codes">>, <<"trigger", "triggers">>, <<"trigger", "codes">>}
  /\ (saving # <<>> <=> pc \in {"erase", "write", "wait"})
  /\ then \in {"idle", "remove"} /\ ulEraseID \in IDs \union {CLEAR}
  /\ queue \in Seq(Operations) /\ Len(queue) <= QueueSize
  /\ state \in {"IDLE", "PENDING", "EXECUTING"} /\ (state # "IDLE" => queue # <<>>)
  /\ queue_running = (state # "IDLE")
  /\ retries \in 0 .. MaxRetries /\ failed \in BOOLEAN

(* No word is programmed that is not erased, though the erase before it    *)
(* may have been dropped because the queue was full: some other erase of   *)
(* the page is then ahead of it.                                           *)
WriteOnErased ==
  ~failed /\ state = "EXECUTING" /\ Head(queue).kind = "write" =>
    IF Head(queue).page = "data" THEN dataPage = BlankCodes ELSE triggerPage = BlankTriggers

(* Between operations, with nothing queued and nothing failed, ...         *)
Settled(page) ==
  pc = "idle" /\ ~failed /\ \A k \in 1 .. Len(queue) : queue[k].page # page

(* ... a restart changes no lookup: every ID is found with the IR data it  *)
(* had, or is not found as before.                                         *)
Lookup(table, id) ==
  IF Holding(table, id) = {} THEN NoCode ELSE table[LinearSerachID(table, id)].code

RestartKeepsCodes ==
  [][Restart /\ Settled("data") =>
       \A id \in IDs : Lookup(t_IRDataCommom', id) = Lookup(t_IRDataCommom, id)]_vars

(* ... and a restart changes no trigger, unless the last change of the     *)
(* page was the removal of a trigger, which saves the codes in its place.  *)
RestartKeepsTriggers ==
  [][Restart /\ Settled("trigger") /\ triggerPage # GARBAGE =>
       \A i \in Index :
         \/ g_atIRDataTrigger'[i] = g_atIRDataTrigger[i]
         \/ "SET" \notin {g_atIRDataTrigger'[i].mode, g_atIRDataTrigger[i].mode}]_vars

(* A save returns with the table on its page, or an operation has failed:   *)
(* the caller then tells the app SUCCESS.  (The removal of a trigger saves *)
(* the wrong table and promises nothing.)                                  *)
SaveIsDurable ==
  [][SaveReturns /\ ~failed =>
       /\ saving = <<"data", "codes">> => dataPage = t_IRDataCommom
       /\ saving = <<"trigger", "triggers">> => triggerPage = g_atIRDataTrigger]_vars

(* The main loop is never caught in an operation, though flash operations   *)
(* are retried, stand behind those of others, and may be refused.          *)
SaveEnds == pc # "idle" ~> pc = "idle"
=============================================================================
