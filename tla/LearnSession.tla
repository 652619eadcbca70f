---------------------------- MODULE LearnSession ----------------------------
(***************************************************************************)
(* Learning and erasing a code: the main loop (ProcessMain and             *)
(* App_ControlHandle), the 100 ms timer interrupt, the commands that come  *)
(* over BLE in an interrupt, and the receiver as FrameReceiver promises    *)
(* it.  Interrupts run to completion; the main loop is preempted anywhere. *)
(*                                                                         *)
(* The flags the contexts share are bits of one byte, g_FubOperation1: the *)
(* main loop changes one by loading the byte, and storing it changed, and  *)
(* what an interrupt has written in between is undone by the store.        *)
(***************************************************************************)
EXTENDS IrTable

CONSTANTS
  TIME_5S_BY_100MS,    (* ticks a learn request waits for a signal: 50     *)
  TIME_2S_BY_100MS     (* ticks the receiver is closed after a signal: 20  *)

ASSUME LearnAssumption ==
  /\ TIME_5S_BY_100MS \in Nat /\ TIME_2S_BY_100MS \in Nat
  /\ 0 < TIME_2S_BY_100MS /\ TIME_2S_BY_100MS < TIME_5S_BY_100MS

VARIABLES
  op,             (* g_FubOperation1: the set of flags that are C_ON       *)
  reg,            (* the byte as the main loop has loaded it: <<op>> or <<>> *)
  pc,             (* where the main loop is                                *)
  rx, scanning,   (* the receiver                                          *)
  protocol,       (* decodedIRData.protocol: UNKNOWN or a code             *)
  g_ubScanIRCount, g_ubDelayCount,
  uwBufferLearnID, uwBufferEraseID,
  t_IRDataCommom,
  (* History, read by no action of the program: *)
  owed,           (* a learn command has not been answered yet             *)
  answer,         (* the last answer to the last learn command             *)
  toErase,        (* IDs whose erase command has not been carried out      *)
  fresh,          (* the last frame began after the last learn command     *)
  odd             (* what has happened that the code has no provision for  *)

flags   == <<op, reg, pc>>
radio   == <<rx, scanning, protocol>>
counts  == <<g_ubScanIRCount, g_ubDelayCount>>
buffers == <<uwBufferLearnID, uwBufferEraseID, t_IRDataCommom>>
history == <<owed, answer, toErase, fresh, odd>>
vars    == <<flags, radio, counts, buffers, history>>

UNKNOWN == "UNKNOWN"
Oddities ==
  {"lost update",      (* a store undid what an interrupt had written       *)
   "early command",    (* a command came before the last was done with      *)
   "late frame",       (* a time ran out with a frame in hand               *)
   "silence"}          (* a request ended, and nobody was told              *)

(* The assignments of the main loop to flags of g_FubOperation1, in order. *)
FlagWrites ==
  [detect_off |-> [flag |-> "DETECT", to |-> "C_OFF", next |-> "learn_off"],
   learn_off  |-> [flag |-> "LEARN",  to |-> "C_OFF", next |-> "count_off"],
   count_off  |-> [flag |-> "COUNT",  to |-> "C_OFF", next |-> "result"],
   erase_off  |-> [flag |-> "ERASE",  to |-> "C_OFF", next |-> "key"],
   delay_on   |-> [flag |-> "DELAY",  to |-> "C_ON",  next |-> "detect_on"],
   detect_on  |-> [flag |-> "DETECT", to |-> "C_ON",  next |-> "learn"]]

Flags == {"LEARN", "COUNT", "DELAY", "DETECT", "ERASE"}
Steps == DOMAIN FlagWrites \union
         {"learn", "result", "stored", "erase", "removed", "key", "decode",
          "decoding", "stop", "resume"}

Init ==
  /\ op = {} /\ reg = <<>> /\ pc = "learn"
  /\ rx = "Idle" /\ scanning = FALSE
  /\ protocol = UNKNOWN
  /\ g_ubScanIRCount = 0 /\ g_ubDelayCount = 0
  /\ uwBufferLearnID = CLEAR /\ uwBufferEraseID = CLEAR
  /\ t_IRDataCommom = [i \in Index |-> Blank]
  /\ owed = FALSE /\ answer = "none" /\ toErase = {} /\ fresh = FALSE /\ odd = {}

When(happens, oddity) == IF happens THEN {oddity} ELSE {}
Note(happens, oddity) == odd' = odd \union When(happens, oddity)

-----------------------------------------------------------------------------
(* The main loop. *)

Goto(label) == pc' = label /\ UNCHANGED <<op, reg>>

LoadFlags ==
  /\ pc \in DOMAIN FlagWrites /\ reg = <<>>
  /\ reg' = <<op>>
  /\ UNCHANGED <<op, pc, radio, counts, buffers, history>>

StoreFlags ==
  /\ pc \in DOMAIN FlagWrites /\ reg # <<>>
  /\ LET w == FlagWrites[pc]
     IN /\ op' = IF w.to = "C_ON" THEN reg[1] \union {w.flag} ELSE reg[1] \ {w.flag}
        /\ pc' = w.next
  /\ reg' = <<>>
  /\ Note(reg[1] # op, "lost update")
  /\ UNCHANGED <<radio, counts, buffers, owed, answer, toErase, fresh>>

(* App_ControlHandle: a signal has been decoded while learning. *)
TestLearn_AnySignal ==
  /\ pc = "learn"
  /\ Goto(IF "LEARN" \in op THEN "detect_off" ELSE "erase")
  /\ UNCHANGED <<radio, counts, buffers, history>>

TestLearn ==
  /\ pc = "learn"
  /\ Goto(IF {"LEARN", "DETECT"} \subseteq op THEN "detect_off" ELSE "erase")
  /\ UNCHANGED <<radio, counts, buffers, history>>

(* lib_ble_noti *)
Answer(result) == owed' = FALSE /\ answer' = result

StoreCode ==
  /\ pc = "result" /\ protocol # UNKNOWN /\ CanInsert(t_IRDataCommom)
  /\ t_IRDataCommom' = Inserted(t_IRDataCommom, uwBufferLearnID, protocol)
  /\ Goto("stored")
  /\ UNCHANGED <<radio, counts, uwBufferLearnID, uwBufferEraseID, history>>

(* Mid_InsertNewIRCode returns from the flash and notifies.                *)
CodeStored ==
  /\ pc = "stored"
  /\ Answer("success")
  /\ Goto("erase")
  /\ UNCHANGED <<radio, counts, buffers, toErase, fresh, odd>>

(* A full table: Mid_InsertNewIRCode returns false and nobody is told.     *)
TableFull ==
  /\ pc = "result" /\ protocol # UNKNOWN /\ ~CanInsert(t_IRDataCommom)
  /\ Note(TRUE, "silence")
  /\ Goto("erase")
  /\ UNCHANGED <<radio, counts, buffers, owed, answer, toErase, fresh>>

NotDecoded_Silent ==
  /\ pc = "result" /\ protocol = UNKNOWN
  /\ Goto("erase")
  /\ UNCHANGED <<radio, counts, buffers, history>>

NotDecoded ==
  /\ pc = "result" /\ protocol = UNKNOWN
  /\ Answer("fail")
  /\ Goto("erase")
  /\ UNCHANGED <<radio, counts, buffers, toErase, fresh, odd>>

(* The erase flag: Mid_RemoveIRCode, then wait for the flash.              *)
TestErase_NotWhileLearning ==
  /\ pc = "erase"
  /\ IF "ERASE" \in op /\ "LEARN" \notin op
     THEN /\ t_IRDataCommom' = Removed(t_IRDataCommom, uwBufferEraseID)
          /\ toErase' = toErase \ {uwBufferEraseID}
          /\ Goto("removed")
     ELSE UNCHANGED <<t_IRDataCommom, toErase>> /\ Goto("key")
  /\ UNCHANGED <<radio, counts, uwBufferLearnID, uwBufferEraseID, owed, answer, fresh, odd>>

TestErase ==
  /\ pc = "erase"
  /\ IF "ERASE" \in op
     THEN /\ t_IRDataCommom' = Removed(t_IRDataCommom, uwBufferEraseID)
          /\ toErase' = toErase \ {uwBufferEraseID}
          /\ Goto("removed")
     ELSE UNCHANGED <<t_IRDataCommom, toErase>> /\ Goto("key")
  /\ UNCHANGED <<radio, counts, uwBufferLearnID, uwBufferEraseID, owed, answer, fresh, odd>>

CodeRemoved ==
  /\ pc = "removed"
  /\ Goto("erase_off")
  /\ UNCHANGED <<radio, counts, buffers, history>>

(* A key held for three seconds erases everything.                         *)
TestKey ==
  /\ pc = "key"
  /\ t_IRDataCommom' \in {t_IRDataCommom, AllErased(t_IRDataCommom)}
  /\ Goto("decode")
  /\ UNCHANGED <<radio, counts, uwBufferLearnID, uwBufferEraseID, history>>

(* ProcessMain: decode a complete frame, close the receiver for a while.   *)
MayDecode == "DELAY" \notin op /\ rx = "Complete"

DecodeBegin ==
  /\ pc = "decode"
  /\ IF MayDecode THEN protocol' = UNKNOWN /\ Goto("decoding")
                  ELSE UNCHANGED protocol /\ Goto("learn")
  /\ UNCHANGED <<rx, scanning, counts, buffers, history>>

DecodeEnd ==
  /\ pc = "decoding"
  /\ protocol' \in Codes \union {UNKNOWN}
  /\ Goto("stop")
  /\ UNCHANGED <<rx, scanning, counts, buffers, history>>

StopScan_Skipped ==
  /\ pc = "stop"
  /\ Goto("resume")
  /\ UNCHANGED <<radio, counts, buffers, history>>

StopScan ==
  /\ pc = "stop"
  /\ scanning' = FALSE
  /\ Goto("resume")
  /\ UNCHANGED <<rx, protocol, counts, buffers, history>>

Resume_Skipped ==
  /\ pc = "resume"
  /\ Goto("delay_on")
  /\ UNCHANGED <<radio, counts, buffers, history>>

Resume ==
  /\ pc = "resume"
  /\ rx' = "Idle"
  /\ Goto("delay_on")
  /\ UNCHANGED <<scanning, protocol, counts, buffers, history>>

MainLoop ==
  \/ LoadFlags \/ StoreFlags
  \/ TestLearn \/ StoreCode \/ CodeStored \/ TableFull \/ NotDecoded
  \/ TestErase \/ CodeRemoved \/ TestKey
  \/ DecodeBegin \/ DecodeEnd \/ StopScan \/ Resume

-----------------------------------------------------------------------------
(* Interrupts. *)

(* A signal has been decoded and not yet consumed.                         *)
SignalInHand ==
  \/ "DETECT" \in op
  \/ pc \in {"delay_on", "detect_on", "detect_off", "learn_off", "count_off", "result", "stored"}

(* A frame is being received or decoded, or its signal is in hand.         *)
FrameInHand == rx # "Idle" \/ pc \in {"decoding", "stop", "resume"} \/ SignalInHand

Mid_IrRemoteStartScan == scanning' = TRUE /\ g_ubScanIRCount' = 0

LearnWaits == {"LEARN", "COUNT"} \subseteq op

App_ControlStartLearnIR(id) ==
  /\ op' = op \union {"LEARN", "COUNT"}
  /\ Mid_IrRemoteStartScan
  /\ uwBufferLearnID' = id
  /\ owed' = TRUE /\ answer' = "none" /\ fresh' = FALSE
  /\ Note(FrameInHand \/ LearnWaits, "early command")
  /\ UNCHANGED <<reg, pc, rx, protocol, g_ubDelayCount, uwBufferEraseID, t_IRDataCommom,
                 toErase>>

App_ControlEraseIR(id) ==
  /\ op' = op \union {"ERASE"}
  /\ uwBufferEraseID' = id
  /\ toErase' = toErase \union {id}
  /\ Note("ERASE" \in op, "early command")
  /\ UNCHANGED <<reg, pc, radio, counts, uwBufferLearnID, t_IRDataCommom, owed, answer, fresh>>

(* SysTimer100msCall: a learn request has waited long enough.              *)
TimeIsUp_OneTickLate == LearnWaits /\ g_ubScanIRCount + 1 > TIME_5S_BY_100MS
TimeIsUp == LearnWaits /\ g_ubScanIRCount + 1 >= TIME_5S_BY_100MS

(* The receiver may decode again after a decoded signal, and it scans      *)
(* again if the request is still open.                                     *)
DelayEnds ==
  "DELAY" \in op /\ ("LEARN" \in op => g_ubDelayCount + 1 >= TIME_2S_BY_100MS)
Reopens == DelayEnds /\ "LEARN" \in op

ScansOn_NoStop == Reopens \/ scanning
ScansOn == Reopens \/ (scanning /\ ~TimeIsUp)

SysTimer100msCall ==
  /\ op' = op \ (When(TimeIsUp, "COUNT") \union When(DelayEnds, "DELAY"))
  /\ scanning' = ScansOn
  /\ g_ubScanIRCount' = IF TimeIsUp \/ Reopens THEN 0
                        ELSE IF LearnWaits THEN g_ubScanIRCount + 1 ELSE g_ubScanIRCount
  /\ g_ubDelayCount' = IF "DELAY" \notin op THEN g_ubDelayCount
                       ELSE IF DelayEnds THEN 0 ELSE g_ubDelayCount + 1
  /\ IF TimeIsUp /\ protocol = UNKNOWN THEN Answer("fail") ELSE UNCHANGED <<owed, answer>>
  /\ odd' = odd \union When(TimeIsUp /\ protocol # UNKNOWN, "silence")
                \union When((TimeIsUp /\ FrameInHand) \/ (Reopens /\ SignalInHand),
                               "late frame")
  /\ UNCHANGED <<reg, pc, rx, protocol, buffers, toErase, fresh>>

(* timer_led_event_handler, as far as the session sees it. *)
FrameBegin ==
  /\ scanning /\ rx = "Idle"
  /\ rx' = "Receiving" /\ fresh' = TRUE
  /\ UNCHANGED <<flags, scanning, protocol, counts, buffers, owed, answer, toErase, odd>>

FrameComplete ==
  /\ scanning /\ rx = "Receiving"
  /\ rx' = "Complete"
  /\ UNCHANGED <<flags, scanning, protocol, counts, buffers, history>>

Interrupt ==
  \/ \E id \in IDs : App_ControlStartLearnIR(id) \/ App_ControlEraseIR(id)
  \/ SysTimer100msCall
  \/ FrameBegin \/ FrameComplete

Next == MainLoop \/ Interrupt

(* The main loop always runs on, and the 100 ms timer is repeated.  What   *)
(* the user and the remote control do is not to be relied on.              *)
Fairness == WF_vars(MainLoop) /\ WF_vars(SysTimer100msCall)

Spec == Init /\ [][Next]_vars /\ Fairness

-----------------------------------------------------------------------------
(* Types, and the bounds of the counters.  A register is held only while   *)
(* the main loop changes a flag.                                           *)
TypeOK ==
  /\ op \subseteq Flags /\ reg \in {<<>>} \union {<<b>> : b \in SUBSET Flags}
  /\ pc \in Steps /\ (reg # <<>> => pc \in DOMAIN FlagWrites)
  /\ rx \in {"Idle", "Receiving", "Complete"} /\ scanning \in BOOLEAN
  /\ protocol \in Codes \union {UNKNOWN}
  /\ g_ubScanIRCount \in 0 .. TIME_5S_BY_100MS - 1
  /\ g_ubDelayCount \in 0 .. TIME_2S_BY_100MS - 1
  /\ uwBufferLearnID \in IDs \union {CLEAR} /\ uwBufferEraseID \in IDs \union {CLEAR}
  /\ t_IRDataCommom \in Table
  /\ owed \in BOOLEAN /\ answer \in {"none", "fail", "success"}
  /\ toErase \subseteq IDs /\ fresh \in BOOLEAN /\ odd \subseteq Oddities

(* The receiver is not wedged: whatever the flags go through, and however  *)
(* commands and the time-out cut across a signal, a complete frame is      *)
(* given back, unless an update of the flags was lost.                     *)
FrameGivenBack == rx = "Complete" ~> (rx = "Idle" \/ "lost update" \in odd)

(* A learn command is answered, unless an update of the flags was lost, it *)
(* was given too early, the table was full, or the time ran out with the   *)
(* protocol of an earlier signal still in decodedIRData.                   *)
LearnAnswered ==
  owed ~> (~owed \/ odd \intersect {"lost update", "early command", "silence"} # {})

(* The receiver is switched off again after every learn command, unless    *)
(* the command was given too early, an update was lost, or a time ran out  *)
(* with a frame in hand: the delay after that frame may then switch the    *)
(* receiver on again, with no time limit.                                  *)
ScanStops == scanning ~> (~scanning \/ odd \ {"silence"} # {})

(* A learn command that has failed does not succeed afterwards, unless the *)
(* time ran out with a frame in hand, it was given too early or an update  *)
(* was lost.                                                               *)
NoSuccessAfterFail ==
  [][answer = "fail" /\ answer' = "success" => odd \ {"silence"} # {}]_vars

(* The signal that is stored was received after the learn command it is    *)
(* stored for, unless the command was given too early or an update was     *)
(* lost.  A time that runs out is no excuse.                               *)
StoredSignalIsFresh ==
  pc = "result" => fresh \/ odd \intersect {"lost update", "early command"} # {}

(* Every erase command is carried out, unless the ID was overwritten by a  *)
(* command given too early, or an update of the flags was lost.            *)
EraseServed ==
  \A id \in IDs :
    id \in toErase ~> (id \notin toErase \/ odd \intersect {"lost update", "early command"} # {})
=============================================================================
