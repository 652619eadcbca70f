-------------------------- MODULE Learning_proofs --------------------------
(***************************************************************************)
(* Proofs about the two halves of learning a signal: IrReceiver, which     *)
(* samples it, and LearnSession, which stores it.                          *)
(*                                                                         *)
(* The receiver, for every even buffer length, every gap and every width   *)
(* of the tick counter.  The safety argument is parity: rawlen is odd      *)
(* while a mark is timed and even while a space is timed, so the only test *)
(* of rawlen, made at the end of a space, is enough.  The Booleans are     *)
(* proved apart from the numbers: no backend is good at both in one        *)
(* obligation.                                                             *)
(*                                                                         *)
(* The session, for every table and every two times.  A signal is fresh    *)
(* because whatever holds a frame or its signal (the receiver, the main    *)
(* loop, the flag DETECT) got it from a frame that began after the last    *)
(* command: only a command given while one of them holds something, or a   *)
(* store that brings DETECT back, can break that.  No success follows a    *)
(* failure because of two timers: a receiver that is closed after a signal *)
(* reopens before the time of the request is up (ReopensInTime), so once   *)
(* the time is up the receiver is off and the delay over, and with no      *)
(* frame in hand nothing can be stored.                                    *)
(***************************************************************************)
EXTENDS IrReceiver, TLAPS

CONSTANTS MaxCode, IDs, Codes, TIME_5S_BY_100MS, TIME_2S_BY_100MS

VARIABLES
  op, reg, step, rx, scanning, protocol, g_ubScanIRCount, g_ubDelayCount,
  uwBufferLearnID, uwBufferEraseID, t_IRDataCommom,
  owed, answer, toErase, fresh, odd

(* Both modules have a pc for the main loop; that of the session is step.  *)
S == INSTANCE LearnSession WITH pc <- step

-----------------------------------------------------------------------------
(* The receiver.                                                           *)


FlagsOK == OverflowFlag \in BOOLEAN /\ timerEnabled \in BOOLEAN /\ wasOverflow \in BOOLEAN

NumbersOK ==
  /\ StateForISR \in States
  /\ TickCounterForISR \in Ticks
  /\ rawbuf \in [0 .. RAW_BUFFER_LENGTH - 1 -> Ticks]
  /\ rawlen \in 0 .. RAW_BUFFER_LENGTH
  /\ pc \in {"loop", "decode", "stop", "resume"}

InFrame == StateForISR # "IDLE"

Parity ==
  /\ StateForISR = "MARK" => rawlen % 2 = 1
  /\ StateForISR \in {"SPACE", "STOP"} => rawlen % 2 = 0 /\ rawlen >= 2

(* The entries recorded so far, and the bound on a running space.          *)
Spacing ==
  /\ StateForISR = "SPACE" => TickCounterForISR <= RECORD_GAP_TICKS
  /\ InFrame => rawbuf[0] > RECORD_GAP_TICKS
  /\ InFrame => \A i \in 1 .. RAW_BUFFER_LENGTH - 1 :
                   i < rawlen /\ i % 2 = 0 => rawbuf[i] <= RECORD_GAP_TICKS + 1

FrameInv == NumbersOK /\ Parity /\ Spacing

(* An overflow ends the frame, and the next frame clears the flag.         *)
OverflowStopped == OverflowFlag => StateForISR \in {"IDLE", "STOP"}

IInv ==
  FlagsOK /\ FrameInv /\ OverflowReport /\ OverflowMeansFull /\ OverflowStopped

-----------------------------------------------------------------------------
LEMMA OddIsInside ==
  ASSUME NEW n \in Nat, n % 2 = 1, n <= RAW_BUFFER_LENGTH
  PROVE  n < RAW_BUFFER_LENGTH /\ (n + 1) % 2 = 0 /\ n + 1 >= 2
BY ConstantsAssumption

LEMMA EvenSuccessor ==
  ASSUME NEW n \in Nat, n % 2 = 0 PROVE (n + 1) % 2 = 1
OBVIOUS

LEMMA TickedType ==
  ASSUME TickCounterForISR \in Ticks
  PROVE  Ticked \in Ticks /\ Ticked <= TickCounterForISR + 1
BY ConstantsAssumption DEF Ticked, Ticks

LEMMA InitFlags == Init => FlagsOK
BY DEF Init, FlagsOK

LEMMA NextFlags == FlagsOK /\ [Next]_vars => FlagsOK'
<1> SUFFICES ASSUME FlagsOK, [Next]_vars PROVE FlagsOK'
  OBVIOUS
<1> USE DEF FlagsOK
<1>1. ASSUME NEW level \in Levels, timer_led_event_handler(level) PROVE FlagsOK'
  BY <1>1, Zenon DEF timer_led_event_handler, IdleTick, StartFrame, MarkTick, SpaceTick, StopTick
<1>2. CASE Mid_IrRemoteStartScan \/ Mid_IrRemoteStopScan
  BY <1>2, Zenon DEF Mid_IrRemoteStartScan, Mid_IrRemoteStopScan, irparams
<1>3. CASE DecodeBegin \/ DecodeEnd \/ MainStopScan \/ Ir_RemoteResume
  BY <1>3, Zenon DEF DecodeBegin, DecodeEnd, MainStopScan, Ir_RemoteResume, irparams
<1>4. CASE UNCHANGED vars
  BY <1>4, Zenon DEF vars, irparams
<1> QED BY <1>1, <1>2, <1>3, <1>4 DEF Next, ProcessMain, Interrupt

-----------------------------------------------------------------------------
LEMMA InitFrame == Init => FrameInv
BY ConstantsAssumption
   DEF Init, FrameInv, NumbersOK, Parity, Spacing, InFrame, States, Ticks

LEMMA IdleTickFrame ==
  ASSUME FrameInv, NEW level \in Levels, IdleTick(level), pc' = pc
  PROVE  FrameInv'
<1> USE ConstantsAssumption DEF FrameInv
<1>1. Ticked \in Ticks
  BY TickedType DEF NumbersOK
<1>2. CASE StartsFrame(level)
  <2>1. NumbersOK' /\ StateForISR' = "MARK" /\ rawlen' = 1 /\ rawbuf'[0] = Ticked
    BY <1>1, <1>2 DEF NumbersOK, IdleTick, StartFrame, Ticks, States
  <2>2. Parity'
    BY <2>1 DEF Parity
  <2>3. Spacing'
    BY <1>2, <2>1 DEF Spacing, InFrame, StartsFrame
  <2> QED BY <2>1, <2>2, <2>3
<1>3. CASE ~StartsFrame(level)
  <2>1. UNCHANGED <<StateForISR, rawbuf, rawlen>> /\ StateForISR = "IDLE"
    BY <1>3 DEF IdleTick
  <2>2. NumbersOK'
    BY <1>1, <2>1 DEF NumbersOK, IdleTick, Ticks
  <2> QED BY <2>1, <2>2 DEF Parity, Spacing, InFrame
<1> QED BY <1>2, <1>3

LEMMA MarkTickFrame ==
  ASSUME FrameInv, NEW level \in Levels, MarkTick(level), pc' = pc
  PROVE  FrameInv'
<1> USE ConstantsAssumption DEF FrameInv
<1>1. Ticked \in Ticks
  BY TickedType DEF NumbersOK
<1>2. rawlen \in Nat /\ rawlen < RAW_BUFFER_LENGTH /\ (rawlen + 1) % 2 = 0 /\ rawlen + 1 >= 2
  BY OddIsInside DEF MarkTick, Parity, NumbersOK
<1>3. CASE level = "space"
  <2>1. /\ StateForISR' = "SPACE" /\ TickCounterForISR' = 0 /\ rawlen' = rawlen + 1
        /\ rawbuf' = [rawbuf EXCEPT ![rawlen] = Ticked]
    BY <1>3 DEF MarkTick, Record
  <2>2. NumbersOK'
    BY <1>1, <1>2, <2>1 DEF NumbersOK, Ticks, States
  <2>3. Parity'
    BY <1>2, <2>1 DEF Parity
  <2>4. rawlen % 2 = 1 /\ rawlen # 0
    BY DEF MarkTick, Parity
  <2>5. rawbuf'[0] = rawbuf[0]
    BY <1>2, <2>1, <2>4 DEF NumbersOK
  <2>6. \A i \in 1 .. RAW_BUFFER_LENGTH - 1 :
           i < rawlen' /\ i % 2 = 0 => i < rawlen /\ rawbuf'[i] = rawbuf[i]
    BY <1>2, <2>1, <2>4 DEF NumbersOK
  <2>7. Spacing'
    BY <2>1, <2>5, <2>6 DEF Spacing, InFrame, MarkTick
  <2> QED BY <2>2, <2>3, <2>7
<1>4. CASE level # "space"
  <2>1. /\ UNCHANGED <<StateForISR, rawbuf, rawlen>>
        /\ TickCounterForISR' = Ticked /\ StateForISR = "MARK"
    BY <1>4 DEF MarkTick
  <2> QED BY <1>1, <2>1 DEF NumbersOK, Parity, Spacing, InFrame
<1> QED BY <1>3, <1>4

LEMMA SpaceTickFrame ==
  ASSUME FrameInv, NEW level \in Levels, SpaceTick(level), pc' = pc
  PROVE  FrameInv'
<1> USE ConstantsAssumption DEF FrameInv
<1>1. Ticked \in Ticks /\ Ticked \in Nat /\ Ticked <= RECORD_GAP_TICKS + 1
  BY TickedType DEF SpaceTick, Spacing, Ticks, NumbersOK
<1>2. rawlen \in Nat /\ rawlen % 2 = 0 /\ rawlen >= 2 /\ StateForISR = "SPACE"
  BY DEF SpaceTick, Parity, NumbersOK
<1>3. CASE UNCHANGED <<rawbuf, rawlen>>
  <2>1. /\ StateForISR' \in {"SPACE", "STOP"} /\ TickCounterForISR' \in Ticks
        /\ StateForISR' = "SPACE" => TickCounterForISR' <= RECORD_GAP_TICKS
    BY <1>1, <1>2, <1>3 DEF SpaceTick, Record, Ticks
  <2> QED BY <1>2, <1>3, <2>1 DEF NumbersOK, Parity, Spacing, InFrame, States
<1>4. CASE /\ ~BufferFull /\ Record
           /\ StateForISR' = "MARK" /\ TickCounterForISR' = 0
  <2>1. rawlen < RAW_BUFFER_LENGTH /\ rawlen' = rawlen + 1 /\ rawlen' % 2 = 1
    BY <1>2, <1>4, EvenSuccessor DEF BufferFull, Record
  <2>2. rawbuf' = [rawbuf EXCEPT ![rawlen] = Ticked]
    BY <1>4 DEF Record
  <2>3. NumbersOK'
    BY <1>1, <1>2, <1>4, <2>1, <2>2 DEF NumbersOK, Ticks, States
  <2>4. Parity'
    BY <1>4, <2>1 DEF Parity
  <2>5. rawbuf'[0] = rawbuf[0] /\ rawbuf'[rawlen] = Ticked
    BY <1>2, <2>1, <2>2 DEF NumbersOK
  <2>6. \A i \in 1 .. RAW_BUFFER_LENGTH - 1 :
           i < rawlen' => i = rawlen \/ (i < rawlen /\ rawbuf'[i] = rawbuf[i])
    BY <1>2, <2>1, <2>2 DEF NumbersOK
  <2>7. Spacing'
    BY <1>1, <1>2, <1>4, <2>5, <2>6 DEF Spacing, InFrame
  <2> QED BY <2>3, <2>4, <2>7
<1> QED BY <1>3, <1>4 DEF SpaceTick

LEMMA NextFrame == FrameInv /\ [Next]_vars => FrameInv'
<1> SUFFICES ASSUME FrameInv, [Next]_vars PROVE FrameInv'
  OBVIOUS
<1> USE DEF FrameInv
<1>1. ASSUME NEW level \in Levels, timer_led_event_handler(level) PROVE FrameInv'
  <2>1. CASE StopTick(level)
    <3>1. TickCounterForISR' \in Ticks
      BY <2>1, TickedType, ConstantsAssumption DEF StopTick, NumbersOK, Ticks
    <3> QED BY <1>1, <2>1, <3>1
            DEF timer_led_event_handler, StopTick, NumbersOK, Parity, Spacing, InFrame
  <2> QED BY <1>1, <2>1, IdleTickFrame, MarkTickFrame, SpaceTickFrame
          DEF timer_led_event_handler
<1>2. CASE Mid_IrRemoteStartScan
  BY <1>2, ConstantsAssumption
     DEF Mid_IrRemoteStartScan, NumbersOK, Parity, Spacing, InFrame, Ticks
<1>3. CASE Ir_RemoteResume
  BY <1>3 DEF Ir_RemoteResume, NumbersOK, Parity, Spacing, InFrame, States
<1>4. CASE Mid_IrRemoteStopScan \/ DecodeBegin \/ DecodeEnd \/ MainStopScan \/ UNCHANGED vars
  BY <1>4 DEF Mid_IrRemoteStopScan, DecodeBegin, DecodeEnd, MainStopScan, vars, irparams,
     NumbersOK, Parity, Spacing, InFrame
<1> QED BY <1>1, <1>2, <1>3, <1>4 DEF Next, ProcessMain, Interrupt

-----------------------------------------------------------------------------
LEMMA InitReports == Init => OverflowReport /\ OverflowMeansFull /\ OverflowStopped
BY Zenon DEF Init, OverflowReport, OverflowMeansFull, OverflowStopped

LEMMA ReportStep == OverflowReport /\ [Next]_vars => OverflowReport'
<1> SUFFICES ASSUME OverflowReport, [Next]_vars PROVE OverflowReport'
  OBVIOUS
<1> USE DEF OverflowReport
<1>1. ASSUME NEW level \in Levels, timer_led_event_handler(level) PROVE OverflowReport'
  <2>1. pc # "loop" => UNCHANGED <<StateForISR, OverflowFlag>>
    BY <1>1 DEF timer_led_event_handler, IdleTick, MarkTick, SpaceTick, StopTick
  <2> QED BY <1>1, <2>1 DEF timer_led_event_handler
<1>2. CASE Mid_IrRemoteStartScan \/ Mid_IrRemoteStopScan
  BY <1>2, Zenon DEF Mid_IrRemoteStartScan, Mid_IrRemoteStopScan, irparams
<1>3. CASE DecodeBegin \/ DecodeEnd \/ MainStopScan \/ Ir_RemoteResume
  BY <1>3, Zenon DEF DecodeBegin, DecodeEnd, MainStopScan, Ir_RemoteResume, irparams
<1>4. CASE UNCHANGED vars
  BY <1>4, Zenon DEF vars, irparams
<1> QED BY <1>1, <1>2, <1>3, <1>4 DEF Next, ProcessMain, Interrupt

LEMMA FullStep ==
  FrameInv /\ OverflowMeansFull /\ OverflowStopped /\ [Next]_vars
    => OverflowMeansFull' /\ OverflowStopped'
<1> SUFFICES ASSUME FrameInv, OverflowMeansFull, OverflowStopped, [Next]_vars
             PROVE  OverflowMeansFull' /\ OverflowStopped'
  OBVIOUS
<1> USE DEF OverflowMeansFull, OverflowStopped
<1>1. ASSUME NEW level \in Levels, timer_led_event_handler(level)
      PROVE  OverflowMeansFull' /\ OverflowStopped'
  <2>1. CASE IdleTick(level)
    BY <2>1, Zenon DEF IdleTick, StartFrame
  <2>2. CASE MarkTick(level)
    BY <2>2, "MARK" \notin {"IDLE", "STOP"}, Zenon DEF MarkTick
  <2>3. CASE SpaceTick(level)
    <3>1. ~OverflowFlag
      BY <2>3 DEF SpaceTick
    <3>2. BufferFull /\ rawlen' = rawlen => rawlen' = RAW_BUFFER_LENGTH
      BY ConstantsAssumption DEF BufferFull, FrameInv, NumbersOK
    <3>3. OverflowFlag' => BufferFull /\ rawlen' = rawlen /\ StateForISR' = "STOP"
      BY <2>3, <3>1, Zenon DEF SpaceTick
    <3> QED BY <3>2, <3>3, Zenon
  <2>4. CASE StopTick(level)
    BY <2>4, Zenon DEF StopTick
  <2> QED BY <1>1, <2>1, <2>2, <2>3, <2>4, Zenon DEF timer_led_event_handler
<1>2. CASE Ir_RemoteResume
  BY <1>2, Zenon DEF Ir_RemoteResume
<1>3. CASE Mid_IrRemoteStartScan
  BY <1>3, Zenon DEF Mid_IrRemoteStartScan
<1>4. CASE \/ Mid_IrRemoteStopScan \/ DecodeBegin \/ DecodeEnd \/ MainStopScan
           \/ UNCHANGED vars
  <2>1. UNCHANGED irparams
    BY <1>4, Zenon DEF Mid_IrRemoteStopScan, DecodeBegin, DecodeEnd, MainStopScan, vars
  <2> QED BY <2>1, Zenon DEF irparams
<1> QED BY <1>1, <1>2, <1>3, <1>4, Zenon DEF Next, ProcessMain, Interrupt

-----------------------------------------------------------------------------
LEMMA Invariance == Spec => []IInv
<1>1. Init => IInv
  BY InitFlags, InitFrame, InitReports DEF IInv
<1>2. IInv /\ [Next]_vars => IInv'
  BY NextFlags, NextFrame, ReportStep, FullStep DEF IInv
<1> QED BY <1>1, <1>2, PTL DEF Spec

(* The types hold whatever the sizes of the buffer and of the counter.     *)
THEOREM ReceiverTypes == Spec => []TypeOK
<1>1. IInv => TypeOK
  BY Zenon DEF IInv, FlagsOK, FrameInv, NumbersOK, TypeOK
<1> QED BY <1>1, Invariance, PTL

(* timer_led_event_handler never writes outside rawbuf, although only one  *)
(* of the two branches that append to it compares rawlen with the length.  *)
THEOREM BufferSafety == Spec => []MarkWriteInBounds
<1>1. FrameInv => MarkWriteInBounds
  BY OddIsInside DEF FrameInv, NumbersOK, Parity, MarkWriteInBounds
<1> QED BY <1>1, Invariance, PTL DEF IInv

(* The overflow flag of the decoded data is that of the decoded frame, and *)
(* it means a full buffer.                                                 *)
THEOREM OverflowSafety == Spec => [](OverflowReport /\ OverflowMeansFull)
BY Invariance, PTL DEF IInv

-----------------------------------------------------------------------------
(* The refinement of FrameReceiver, one lemma per kind of step. *)

LEMMA InitRefines == Init => Receiver!AbsInit
BY DEF Init, Receiver!AbsInit, Receiver!NoFrame, Phase

LEMMA WellFormedRecord ==
  ASSUME NEW n \in 2 .. RAW_BUFFER_LENGTH, n % 2 = 0,
         NEW buf, buf[0] > RECORD_GAP_TICKS,
         \A i \in 1 .. RAW_BUFFER_LENGTH - 1 :
            i < n /\ i % 2 = 0 => buf[i] <= RECORD_GAP_TICKS + 1
  PROVE  Receiver!WellFormed([i \in 0 .. n - 1 |-> buf[i]])
<1> DEFINE f == [i \in 0 .. n - 1 |-> buf[i]]
<1> USE ConstantsAssumption
<1>1. DOMAIN f = 0 .. n - 1 /\ \A i \in 0 .. n - 1 : f[i] = buf[i]
  OBVIOUS
<1>2. n \in Receiver!FrameLengths
  BY Zenon DEF Receiver!FrameLengths
<1> HIDE DEF f
<1>3. f[0] > RECORD_GAP_TICKS
  BY <1>1
<1>4. \A i \in 0 .. n - 1 \ {0} : i % 2 = 0 => f[i] <= RECORD_GAP_TICKS + 1
  BY <1>1
<1>5. Receiver!WellFormed(f)
  BY <1>1, <1>2, <1>3, <1>4, Zenon DEF Receiver!WellFormed
<1> QED BY <1>5 DEF f

LEMMA CompletedFrame ==
  ASSUME FrameInv', StateForISR' = "STOP"
  PROVE  Receiver!WellFormed(
           [i \in (IF StateForISR' = "STOP" THEN 0 .. rawlen' - 1 ELSE {}) |-> rawbuf'[i]])
<1>1. rawlen' \in 0 .. RAW_BUFFER_LENGTH
  BY Zenon DEF FrameInv, NumbersOK
<1>2. rawlen' % 2 = 0 /\ rawlen' >= 2
  BY DEF FrameInv, Parity
<1>3. rawlen' \in 2 .. RAW_BUFFER_LENGTH
  BY <1>1, <1>2, ConstantsAssumption
<1>4. rawbuf'[0] > RECORD_GAP_TICKS
  BY DEF FrameInv, Spacing, InFrame
<1>5. \A i \in 1 .. RAW_BUFFER_LENGTH - 1 :
         i < rawlen' /\ i % 2 = 0 => rawbuf'[i] <= RECORD_GAP_TICKS + 1
  BY DEF FrameInv, Spacing, InFrame
<1>6. Receiver!WellFormed([i \in 0 .. rawlen' - 1 |-> rawbuf'[i]])
  BY <1>2, <1>3, <1>4, <1>5, WellFormedRecord, Zenon
<1> QED BY <1>6, Zenon

LEMMA TickRefines ==
  ASSUME FrameInv, FrameInv', NEW level \in Levels, timer_led_event_handler(level)
  PROVE  [Receiver!AbsNext]_(Receiver!absVars)
<1> USE DEF timer_led_event_handler
<1>1. CASE IdleTick(level)
  BY <1>1 DEF IdleTick, StartFrame, Receiver!AbsNext, Receiver!Begin, Receiver!absVars, Phase
<1>2. CASE MarkTick(level)
  BY <1>2 DEF MarkTick, Receiver!absVars, Phase
<1>3. CASE StopTick(level)
  BY <1>3 DEF StopTick, Receiver!absVars, Phase
<1>4. CASE SpaceTick(level)
  <2>1. CASE StateForISR' = "STOP"
    BY <1>4, <2>1, CompletedFrame DEF SpaceTick, Receiver!AbsNext, Receiver!Complete, Phase
  <2>2. CASE StateForISR' # "STOP"
    BY <1>4, <2>2 DEF SpaceTick, Receiver!absVars, Phase
  <2> QED BY <2>1, <2>2
<1> QED BY <1>1, <1>2, <1>3, <1>4

(* IrReceiver implements FrameReceiver: a frame is handed over complete    *)
(* and well formed, does not change until it is given back, and nothing is *)
(* received while the sampling timer is off.                               *)
THEOREM ReceiverRefinement == Spec => ReceiverPromise
<1>1. ASSUME IInv, IInv', [Next]_vars PROVE [Receiver!AbsNext]_(Receiver!absVars)
  <2>1. ASSUME NEW level \in Levels, timer_led_event_handler(level)
        PROVE  [Receiver!AbsNext]_(Receiver!absVars)
    BY <1>1, <2>1, TickRefines DEF IInv
  <2>2. CASE Mid_IrRemoteStartScan \/ Mid_IrRemoteStopScan
    BY <1>1, <2>2 DEF Mid_IrRemoteStartScan, Mid_IrRemoteStopScan, irparams, IInv, FlagsOK,
       Receiver!AbsNext, Receiver!SwitchScan, Receiver!absVars, Phase
  <2>3. CASE DecodeBegin \/ DecodeEnd \/ UNCHANGED vars
    BY <2>3 DEF DecodeBegin, DecodeEnd, vars, irparams, Receiver!absVars, Phase
  <2>4. CASE MainStopScan
    BY <1>1, <2>4 DEF MainStopScan, irparams, IInv, FlagsOK, Receiver!AbsNext,
       Receiver!SwitchScan, Receiver!absVars, Phase
  <2>5. CASE Ir_RemoteResume
    BY <1>1, <2>5 DEF Ir_RemoteResume, IInv, OverflowReport, Receiver!AbsNext,
       Receiver!GiveBack, Receiver!NoFrame, Receiver!absVars, Phase
  <2> QED BY <1>1, <2>1, <2>2, <2>3, <2>4, <2>5 DEF Next, ProcessMain, Interrupt
<1> QED BY <1>1, InitRefines, Invariance, PTL DEF Spec, ReceiverPromise, Receiver!AbsSpec

-----------------------------------------------------------------------------
(* The session.                                                            *)


Undisturbed == odd \intersect {"lost update", "early command"} = {}
Orderly == odd \subseteq {"silence"}

FreshInHand == Undisturbed /\ S!FrameInHand => fresh

(* What the flags are while the main loop has a frame or a signal.         *)
FlagsOfSteps ==
  /\ step \in {"decoding", "stop", "resume", "delay_on"} => "DELAY" \notin op
  /\ step \in {"count_off", "result", "stored"} => "LEARN" \notin op
  /\ step \in {"learn_off", "count_off", "result", "stored"} => "DETECT" \notin op

ClosedWithSignal ==
  /\ step = "resume" => ~scanning
  /\ S!SignalInHand => ~scanning /\ rx = "Idle"

ReopensInTime ==
  "DELAY" \in op /\ S!LearnWaits /\ ~S!SignalInHand => g_ubScanIRCount <= g_ubDelayCount

FailedIsOver ==
  answer = "fail" => ~scanning /\ ~S!FrameInHand /\ ~({"DELAY", "LEARN"} \subseteq op)

OrderlyInv ==
  Orderly => FlagsOfSteps /\ ClosedWithSignal /\ ReopensInTime /\ FailedIsOver

-----------------------------------------------------------------------------
(* The table keeps its type.                                               *)
LEMMA DisabledType == ASSUME NEW e \in S!Entry PROVE S!Disabled(e) \in S!Entry
<1>1. e.code \in Codes \union {S!NoCode, S!Torn}
  BY DEF S!Entry
<1> DEFINE c == e.code
<1> HIDE DEF c
<1> QED BY <1>1 DEF S!Disabled, S!Entry, c

LEMMA RemovedType ==
  ASSUME NEW t \in S!Table, NEW id
  PROVE  S!Removed(t, id) \in S!Table /\ S!AllErased(t) \in S!Table
<1>1. \A i \in S!Index : S!Disabled(t[i]) \in S!Entry
  BY DisabledType DEF S!Table
<1> QED BY <1>1 DEF S!Removed, S!AllErased, S!Table

LEMMA InsertedType ==
  ASSUME NEW t \in S!Table, NEW id \in IDs \union {S!CLEAR}, NEW code \in Codes
  PROVE  S!Inserted(t, id, code) \in S!Table
<1> DEFINE e == [status |-> "ENABLE", id |-> id, code |-> code]
<1>1. e \in S!Entry
  BY DEF S!Entry
<1>2. S!Inserted(t, id, code) = [t EXCEPT ![S!Min(S!Free(t))] = e]
  BY DEF S!Inserted
<1> HIDE DEF e
<1> QED BY <1>1, <1>2 DEF S!Table

(* The six assignments to flags, spelt out.                                *)
LEMMA FlagSteps ==
  DOMAIN S!FlagWrites =
    {"detect_off", "learn_off", "count_off", "erase_off", "delay_on", "detect_on"}
BY DEF S!FlagWrites

LEMMA StoreCases ==
  ASSUME S!StoreFlags
  PROVE  \/ step = "detect_off" /\ op' = reg[1] \ {"DETECT"} /\ step' = "learn_off"
         \/ step = "learn_off" /\ op' = reg[1] \ {"LEARN"} /\ step' = "count_off"
         \/ step = "count_off" /\ op' = reg[1] \ {"COUNT"} /\ step' = "result"
         \/ step = "erase_off" /\ op' = reg[1] \ {"ERASE"} /\ step' = "key"
         \/ step = "delay_on" /\ op' = reg[1] \union {"DELAY"} /\ step' = "detect_on"
         \/ step = "detect_on" /\ op' = reg[1] \union {"DETECT"} /\ step' = "learn"
<1> DEFINE w == S!FlagWrites[step]
<1>1. /\ op' = (IF w.to = "C_ON" THEN reg[1] \union {w.flag} ELSE reg[1] \ {w.flag})
      /\ step' = w.next /\ step \in DOMAIN S!FlagWrites
  BY DEF S!StoreFlags
<1>2. step = "detect_off" => w.flag = "DETECT" /\ w.to = "C_OFF" /\ w.next = "learn_off"
  BY DEF S!FlagWrites
<1>3. step = "learn_off" => w.flag = "LEARN" /\ w.to = "C_OFF" /\ w.next = "count_off"
  BY DEF S!FlagWrites
<1>4. step = "count_off" => w.flag = "COUNT" /\ w.to = "C_OFF" /\ w.next = "result"
  BY DEF S!FlagWrites
<1>5. step = "erase_off" => w.flag = "ERASE" /\ w.to = "C_OFF" /\ w.next = "key"
  BY DEF S!FlagWrites
<1>6. step = "delay_on" => w.flag = "DELAY" /\ w.to = "C_ON" /\ w.next = "detect_on"
  BY DEF S!FlagWrites
<1>7. step = "detect_on" => w.flag = "DETECT" /\ w.to = "C_ON" /\ w.next = "learn"
  BY DEF S!FlagWrites
<1> HIDE DEF w
<1> QED BY <1>1, <1>2, <1>3, <1>4, <1>5, <1>6, <1>7, FlagSteps

(* Every step of the main loop.                                            *)
LEMMA StepNames ==
  S!Steps = {"detect_off", "learn_off", "count_off", "erase_off", "delay_on", "detect_on",
           "learn", "result", "stored", "erase", "removed", "key", "decode", "decoding",
           "stop", "resume"}
BY FlagSteps, Zenon DEF S!Steps

-----------------------------------------------------------------------------
(* Types, part by part: the flags and the numbers do not agree with one     *)
(* prover.                                                                 *)
FlagsType ==
  /\ op \subseteq S!Flags /\ reg \in {<<>>} \union {<<b>> : b \in SUBSET S!Flags}
  /\ step \in S!Steps /\ (reg # <<>> => step \in DOMAIN S!FlagWrites)
CountsType ==
  /\ g_ubScanIRCount \in 0 .. TIME_5S_BY_100MS - 1
  /\ g_ubDelayCount \in 0 .. TIME_2S_BY_100MS - 1
DataType ==
  /\ protocol \in Codes \union {S!UNKNOWN}
  /\ uwBufferLearnID \in IDs \union {S!CLEAR} /\ uwBufferEraseID \in IDs \union {S!CLEAR}
  /\ t_IRDataCommom \in S!Table /\ toErase \subseteq IDs
OthersType ==
  /\ rx \in {"Idle", "Receiving", "Complete"} /\ scanning \in BOOLEAN
  /\ owed \in BOOLEAN /\ answer \in {"none", "fail", "success"} /\ fresh \in BOOLEAN
OddType == odd \subseteq S!Oddities

LEMMA TypeParts ==
  S!TypeOK <=> FlagsType /\ CountsType /\ DataType /\ OthersType /\ OddType
BY Zenon DEF S!TypeOK, FlagsType, CountsType, DataType, OthersType, OddType

LEMMA InitType ==
  ASSUME S!LearnAssumption PROVE S!Init => S!TypeOK
<1> SUFFICES ASSUME S!Init PROVE S!TypeOK
  OBVIOUS
<1>1. S!Blank \in S!Entry
  BY DEF S!Blank, S!Entry
<1>2. t_IRDataCommom \in S!Table
  BY <1>1 DEF S!Init, S!Table
<1>3. g_ubScanIRCount \in 0 .. TIME_5S_BY_100MS - 1 /\ g_ubDelayCount \in 0 .. TIME_2S_BY_100MS - 1
  BY S!LearnAssumption DEF S!Init
<1> QED BY <1>2, <1>3, StepNames, Zenon DEF S!Init, S!TypeOK

-----------------------------------------------------------------------------
LEMMA GotoType ==
  ASSUME FlagsType, NEW label \in S!Steps, S!Goto(label), step \notin DOMAIN S!FlagWrites
  PROVE  FlagsType'
BY Zenon DEF FlagsType, S!Goto

LEMMA NextFlagsType == FlagsType /\ [S!Next]_S!vars => FlagsType'
<1> SUFFICES ASSUME FlagsType, [S!Next]_S!vars PROVE FlagsType'
  OBVIOUS
<1>1. CASE S!LoadFlags
  BY <1>1, Zenon DEF FlagsType, S!LoadFlags
<1>2. CASE S!StoreFlags
  <2>1. PICK b \in SUBSET S!Flags : reg = <<b>>
    BY <1>2, Zenon DEF FlagsType, S!StoreFlags
  <2>2. op' \subseteq S!Flags
    BY <1>2, <2>1, StoreCases DEF S!Flags
  <2>3. step' \in S!Steps
    BY <1>2, StoreCases, StepNames
  <2> QED BY <1>2, <2>2, <2>3, Zenon DEF FlagsType, S!StoreFlags
<1>3. CASE \E label \in S!Steps : S!Goto(label) /\ step \notin DOMAIN S!FlagWrites
  BY <1>3, GotoType
<1>4. CASE S!TestLearn \/ S!StoreCode \/ S!CodeStored \/ S!TableFull \/ S!NotDecoded
  <2>1. \E label \in S!Steps : S!Goto(label) /\ step \notin DOMAIN S!FlagWrites
    BY <1>4, FlagSteps, StepNames
       DEF S!TestLearn, S!StoreCode, S!CodeStored, S!TableFull, S!NotDecoded
  <2> QED BY <1>3, <2>1
<1>5. CASE S!TestErase \/ S!CodeRemoved \/ S!TestKey \/ S!DecodeBegin \/ S!DecodeEnd
                       \/ S!StopScan \/ S!Resume
  <2>1. \E label \in S!Steps : S!Goto(label) /\ step \notin DOMAIN S!FlagWrites
    BY <1>5, FlagSteps, StepNames
       DEF S!TestErase, S!CodeRemoved, S!TestKey, S!DecodeBegin, S!DecodeEnd, S!StopScan, S!Resume
  <2> QED BY <1>3, <2>1
<1>6. CASE S!Interrupt
  <2>1. op' \subseteq S!Flags
    BY <1>6 DEF FlagsType, S!Interrupt, S!App_ControlStartLearnIR, S!App_ControlEraseIR,
       S!SysTimer100msCall, S!FrameBegin, S!FrameComplete, S!flags, S!Flags
  <2>2. UNCHANGED <<reg, step>>
    BY <1>6, Zenon DEF S!Interrupt, S!App_ControlStartLearnIR, S!App_ControlEraseIR,
       S!SysTimer100msCall, S!FrameBegin, S!FrameComplete, S!flags
  <2> QED BY <2>1, <2>2, Zenon DEF FlagsType
<1>7. CASE UNCHANGED S!vars
  BY <1>7, Zenon DEF FlagsType, S!vars, S!flags
<1> QED BY <1>1, <1>2, <1>4, <1>5, <1>6, <1>7, Zenon DEF S!Next, S!MainLoop

LEMMA NextCountsType ==
  ASSUME S!LearnAssumption PROVE CountsType /\ [S!Next]_S!vars => CountsType'
<1> SUFFICES ASSUME CountsType, [S!Next]_S!vars PROVE CountsType'
  OBVIOUS
<1>1. CASE \E id \in IDs : S!App_ControlStartLearnIR(id)
  <2>1. g_ubScanIRCount' = 0 /\ g_ubDelayCount' = g_ubDelayCount
    BY <1>1, Zenon DEF S!App_ControlStartLearnIR, S!Mid_IrRemoteStartScan
  <2> QED BY <2>1, S!LearnAssumption DEF CountsType
<1>2. CASE S!SysTimer100msCall
  <2>1. \/ g_ubScanIRCount' \in {0, g_ubScanIRCount}
        \/ g_ubScanIRCount' = g_ubScanIRCount + 1 /\ S!LearnWaits /\ ~S!TimeIsUp
    BY <1>2, Zenon DEF S!SysTimer100msCall
  <2>2. \/ g_ubDelayCount' \in {0, g_ubDelayCount}
        \/ g_ubDelayCount' = g_ubDelayCount + 1 /\ "DELAY" \in op /\ ~S!DelayEnds
    BY <1>2, Zenon DEF S!SysTimer100msCall
  <2>3. g_ubScanIRCount' \in 0 .. TIME_5S_BY_100MS - 1
    BY <2>1, S!LearnAssumption DEF CountsType, S!TimeIsUp
  <2>4. g_ubDelayCount' \in 0 .. TIME_2S_BY_100MS - 1
    BY <2>2, S!LearnAssumption DEF CountsType, S!DelayEnds
  <2> QED BY <2>3, <2>4 DEF CountsType
<1>3. CASE \/ S!MainLoop \/ \E id \in IDs : S!App_ControlEraseIR(id)
           \/ S!FrameBegin \/ S!FrameComplete \/ UNCHANGED S!vars
  <2>1. UNCHANGED S!counts
    BY <1>3, Zenon DEF S!MainLoop, S!LoadFlags, S!StoreFlags, S!TestLearn, S!StoreCode,
       S!CodeStored, S!TableFull, S!NotDecoded, S!TestErase, S!CodeRemoved, S!TestKey,
       S!DecodeBegin, S!DecodeEnd, S!StopScan, S!Resume, S!App_ControlEraseIR, S!FrameBegin,
       S!FrameComplete, S!vars, S!counts
  <2> QED BY <2>1 DEF S!counts, CountsType
<1> QED BY <1>1, <1>2, <1>3, Zenon DEF S!Next, S!Interrupt

LEMMA NextDataType == DataType /\ [S!Next]_S!vars => DataType'
<1> SUFFICES ASSUME DataType, [S!Next]_S!vars PROVE DataType'
  OBVIOUS
<1> USE DEF DataType, S!buffers
<1>1. CASE S!StoreCode
  <2>1. protocol \in Codes
    BY <1>1 DEF S!StoreCode
  <2>2. t_IRDataCommom' \in S!Table
    BY <1>1, <2>1, InsertedType DEF S!StoreCode
  <2> QED BY <1>1, <2>2, Zenon DEF S!StoreCode, S!radio, S!history
<1>2. CASE S!TestErase
  <2>1. t_IRDataCommom' \in {t_IRDataCommom, S!Removed(t_IRDataCommom, uwBufferEraseID)}
    BY <1>2, Zenon DEF S!TestErase
  <2>2. toErase' \subseteq IDs
    BY <1>2 DEF S!TestErase
  <2> QED BY <1>2, <2>1, <2>2, RemovedType, Zenon DEF S!TestErase, S!radio
<1>3. CASE S!TestKey
  <2>1. t_IRDataCommom' \in {t_IRDataCommom, S!AllErased(t_IRDataCommom)}
    BY <1>3 DEF S!TestKey
  <2> QED BY <1>3, <2>1, RemovedType, Zenon DEF S!TestKey, S!radio, S!history
<1>4. CASE S!DecodeBegin \/ S!DecodeEnd
  BY <1>4 DEF S!DecodeBegin, S!DecodeEnd, S!history
<1>5. ASSUME NEW id \in IDs, S!App_ControlStartLearnIR(id) \/ S!App_ControlEraseIR(id)
      PROVE  DataType'
  BY <1>5 DEF S!App_ControlStartLearnIR, S!App_ControlEraseIR, S!radio
<1>6. CASE \/ S!LoadFlags \/ S!StoreFlags \/ S!TestLearn \/ S!CodeStored \/ S!TableFull
           \/ S!NotDecoded \/ S!CodeRemoved \/ S!StopScan \/ S!Resume
           \/ S!SysTimer100msCall \/ S!FrameBegin \/ S!FrameComplete \/ UNCHANGED S!vars
  <2>1. UNCHANGED <<protocol, S!buffers, toErase>>
    BY <1>6, Zenon DEF S!LoadFlags, S!StoreFlags, S!TestLearn, S!CodeStored, S!TableFull,
       S!NotDecoded, S!CodeRemoved, S!StopScan, S!Resume, S!SysTimer100msCall, S!FrameBegin,
       S!FrameComplete, S!vars, S!radio, S!history
  <2> QED BY <2>1
<1> QED BY <1>1, <1>2, <1>3, <1>4, <1>5, <1>6, Zenon DEF S!Next, S!MainLoop, S!Interrupt

LEMMA NextOthersType == OthersType /\ [S!Next]_S!vars => OthersType'
<1> SUFFICES ASSUME OthersType, [S!Next]_S!vars PROVE OthersType'
  OBVIOUS
<1>1. rx' \in {"Idle", "Receiving", "Complete"} /\ scanning' \in BOOLEAN
  BY Zenon DEF OthersType, S!Next, S!MainLoop, S!Interrupt, S!LoadFlags, S!StoreFlags,
     S!TestLearn, S!StoreCode, S!CodeStored, S!TableFull, S!NotDecoded, S!TestErase,
     S!CodeRemoved, S!TestKey, S!DecodeBegin, S!DecodeEnd, S!StopScan, S!Resume,
     S!App_ControlStartLearnIR, S!App_ControlEraseIR, S!SysTimer100msCall, S!FrameBegin,
     S!FrameComplete, S!Mid_IrRemoteStartScan, S!ScansOn, S!vars, S!radio
<1>2. /\ owed' \in BOOLEAN /\ answer' \in {"none", "fail", "success"}
      /\ fresh' \in BOOLEAN
  BY Zenon DEF OthersType, S!Next, S!MainLoop, S!Interrupt, S!LoadFlags, S!StoreFlags,
     S!TestLearn, S!StoreCode, S!CodeStored, S!TableFull, S!NotDecoded, S!TestErase,
     S!CodeRemoved, S!TestKey, S!DecodeBegin, S!DecodeEnd, S!StopScan, S!Resume,
     S!App_ControlStartLearnIR, S!App_ControlEraseIR, S!SysTimer100msCall, S!FrameBegin,
     S!FrameComplete, S!Answer, S!vars, S!history
<1> QED BY <1>1, <1>2 DEF OthersType

(* What has happened is never forgotten.                                   *)
LEMMA OddGrows ==
  ASSUME [S!Next]_S!vars PROVE odd \subseteq odd' /\ odd' \subseteq odd \union S!Oddities
BY DEF S!Next, S!MainLoop, S!Interrupt, S!LoadFlags, S!StoreFlags, S!TestLearn, S!StoreCode,
   S!CodeStored, S!TableFull, S!NotDecoded, S!TestErase, S!CodeRemoved, S!TestKey,
   S!DecodeBegin, S!DecodeEnd, S!StopScan, S!Resume, S!App_ControlStartLearnIR,
   S!App_ControlEraseIR, S!SysTimer100msCall, S!FrameBegin, S!FrameComplete, S!Note, S!When,
   S!Oddities, S!vars, S!history

LEMMA NextOddType == OddType /\ [S!Next]_S!vars => OddType'
BY OddGrows DEF OddType

(* The variables of the session have their types, for every table and      *)
(* times: the counters of SysTimer100msCall stay below their limits.       *)
THEOREM SessionTypes ==
  ASSUME S!LearnAssumption PROVE S!Spec => []S!TypeOK
<1>1. S!TypeOK /\ [S!Next]_S!vars => S!TypeOK'
  BY TypeParts, NextFlagsType, NextCountsType, NextDataType, NextOthersType, NextOddType, Zenon
     DEF S!TypeOK, FlagsType, CountsType, DataType, OthersType, OddType
<1> QED BY <1>1, InitType, PTL DEF S!Spec

-----------------------------------------------------------------------------
(* Freshness. *)

(* With no update lost, a store changes the one flag it is about.          *)
LEMMA StoreKeeps ==
  ASSUME S!StoreFlags, "lost update" \notin odd' PROVE reg[1] = op
BY DEF S!StoreFlags, S!Note, S!When

(* Of the interrupts, only a learn command switches another flag on than   *)
(* ERASE.                                                                  *)
LEMMA NoFlagsOn ==
  ASSUME \/ \E id \in IDs : S!App_ControlEraseIR(id)
         \/ S!LoadFlags \/ S!SysTimer100msCall \/ S!FrameBegin \/ S!FrameComplete
         \/ UNCHANGED S!vars
  PROVE  step' = step /\ op' \subseteq op \union {"ERASE"}
<1>1. step' = step
  BY Zenon DEF S!App_ControlEraseIR, S!LoadFlags, S!SysTimer100msCall, S!FrameBegin,
     S!FrameComplete, S!vars, S!flags
<1>2. op' \subseteq op \union {"ERASE"}
  BY DEF S!App_ControlEraseIR, S!LoadFlags, S!SysTimer100msCall, S!FrameBegin, S!FrameComplete,
     S!vars, S!flags
<1> QED BY <1>1, <1>2

LEMMA InitFresh == S!Init => FreshInHand
BY DEF S!Init, FreshInHand, S!FrameInHand, S!SignalInHand

LEMMA NextFresh == FreshInHand /\ [S!Next]_S!vars => FreshInHand'
<1> SUFFICES ASSUME FreshInHand, [S!Next]_S!vars, Undisturbed', S!FrameInHand' PROVE fresh'
  BY Zenon DEF FreshInHand
<1>1. Undisturbed
  BY OddGrows DEF Undisturbed
<1>2. S!FrameInHand => fresh
  BY <1>1, Zenon DEF FreshInHand
<1>3. "lost update" \notin odd' /\ "early command" \notin odd'
  BY DEF Undisturbed
<1>4. CASE S!StoreFlags
  <2>1. S!FrameInHand
    BY <1>3, <1>4, StoreKeeps, StoreCases
       DEF S!FrameInHand, S!SignalInHand, S!StoreFlags, S!radio
  <2> QED BY <1>2, <1>4, <2>1, Zenon DEF S!StoreFlags
<1>5. CASE \E id \in IDs : S!App_ControlStartLearnIR(id)
  <2>1. ~S!FrameInHand
    BY <1>3, <1>5 DEF S!App_ControlStartLearnIR, S!Note, S!When
  <2>2. ~S!FrameInHand'
    BY <1>5, <2>1 DEF S!App_ControlStartLearnIR, S!FrameInHand, S!SignalInHand
  <2> QED BY <2>2
<1>6. CASE S!FrameBegin
  BY <1>6, Zenon DEF S!FrameBegin
<1>7. CASE \/ S!LoadFlags \/ S!TestLearn \/ S!StoreCode \/ S!CodeStored \/ S!TableFull
           \/ S!NotDecoded
           \/ S!TestErase \/ S!CodeRemoved \/ S!TestKey
  <2>1. S!FrameInHand /\ fresh' = fresh
    BY <1>7 DEF S!FrameInHand, S!SignalInHand, S!LoadFlags, S!TestLearn, S!StoreCode, S!CodeStored,
       S!TableFull, S!NotDecoded, S!TestErase, S!CodeRemoved, S!TestKey, S!Goto, S!radio, S!history
  <2> QED BY <1>2, <2>1
<1>8. CASE S!DecodeBegin \/ S!DecodeEnd \/ S!StopScan \/ S!Resume
  <2>1. S!FrameInHand /\ fresh' = fresh
    BY <1>8 DEF S!FrameInHand, S!SignalInHand, S!DecodeBegin, S!MayDecode, S!DecodeEnd, S!StopScan,
       S!Resume, S!Goto, S!history
  <2> QED BY <1>2, <2>1
<1>9. CASE \/ \E id \in IDs : S!App_ControlEraseIR(id)
           \/ S!SysTimer100msCall \/ S!FrameComplete \/ UNCHANGED S!vars
  <2>1. fresh' = fresh /\ step' = step
    BY <1>9, Zenon DEF S!App_ControlEraseIR, S!SysTimer100msCall, S!FrameComplete, S!vars,
       S!flags, S!history
  <2>2. "DETECT" \in op' => "DETECT" \in op
    BY <1>9, NoFlagsOn
  <2>3. rx' # "Idle" => rx # "Idle"
    BY <1>9, Zenon DEF S!App_ControlEraseIR, S!SysTimer100msCall, S!FrameComplete, S!vars, S!radio
  <2>4. S!FrameInHand
    BY <2>1, <2>2, <2>3 DEF S!FrameInHand, S!SignalInHand
  <2> QED BY <1>2, <2>1, <2>4
<1> QED BY <1>4, <1>5, <1>6, <1>7, <1>8, <1>9, Zenon DEF S!Next, S!MainLoop, S!Interrupt

(* The signal that is stored was received after the learn command, for     *)
(* every two times of SysTimer100msCall: also when a time runs out with a  *)
(* frame in hand.                                                          *)
THEOREM SignalFreshness == S!Spec => []S!StoredSignalIsFresh
<1>1. FreshInHand => S!StoredSignalIsFresh
  BY DEF FreshInHand, Undisturbed, S!FrameInHand, S!SignalInHand, S!StoredSignalIsFresh
<1> QED BY <1>1, InitFresh, NextFresh, PTL DEF S!Spec

-----------------------------------------------------------------------------
(* No success after a failure. *)

LEMMA InitOrderly == S!Init => OrderlyInv
BY DEF S!Init, OrderlyInv, FlagsOfSteps, ClosedWithSignal, ReopensInTime, FailedIsOver,
   S!FrameInHand, S!SignalInHand, S!LearnWaits

(* Learn commands that are not too early come with no frame in hand.       *)
LEMMA StartLearnInTime ==
  ASSUME NEW id \in IDs, S!App_ControlStartLearnIR(id), Orderly' PROVE ~S!FrameInHand
BY DEF S!App_ControlStartLearnIR, S!Note, S!When, Orderly

LEMMA NextFlagsOfSteps ==
  ASSUME FlagsOfSteps, [S!Next]_S!vars, Orderly' PROVE FlagsOfSteps'
<1>1. CASE S!StoreFlags
  BY <1>1, StoreKeeps, StoreCases DEF FlagsOfSteps, Orderly
<1>2. ASSUME NEW id \in IDs, S!App_ControlStartLearnIR(id) PROVE FlagsOfSteps'
  <2>1. step \notin {"decoding", "stop", "resume", "delay_on", "learn_off", "count_off",
                  "result", "stored"}
    BY <1>2, StartLearnInTime DEF S!FrameInHand, S!SignalInHand
  <2> QED BY <1>2, <2>1 DEF S!App_ControlStartLearnIR, FlagsOfSteps
<1>3. CASE \/ \E id \in IDs : S!App_ControlEraseIR(id)
           \/ S!LoadFlags \/ S!SysTimer100msCall \/ S!FrameBegin \/ S!FrameComplete
           \/ UNCHANGED S!vars
  BY <1>3, NoFlagsOn DEF FlagsOfSteps
<1>4. CASE \/ S!TestLearn \/ S!StoreCode \/ S!CodeStored \/ S!TableFull \/ S!NotDecoded
           \/ S!TestErase
           \/ S!CodeRemoved \/ S!TestKey
  BY <1>4 DEF FlagsOfSteps, S!Goto, S!TestLearn, S!StoreCode, S!CodeStored, S!TableFull,
     S!NotDecoded, S!TestErase, S!CodeRemoved, S!TestKey
<1>5. CASE S!DecodeBegin \/ S!DecodeEnd \/ S!StopScan \/ S!Resume
  BY <1>5 DEF FlagsOfSteps, S!Goto, S!DecodeBegin, S!MayDecode, S!DecodeEnd, S!StopScan, S!Resume
<1> QED BY <1>1, <1>2, <1>3, <1>4, <1>5, Zenon DEF S!Next, S!MainLoop, S!Interrupt

(* Of the interrupts only a learn command and a reopened receiver switch   *)
(* the scan on; with a frame or signal in hand either is out of order.     *)
LEMMA NextClosed ==
  ASSUME ClosedWithSignal, FlagsOfSteps, [S!Next]_S!vars, Orderly' PROVE ClosedWithSignal'
<1> USE DEF ClosedWithSignal
<1>1. CASE S!StoreFlags
  <2>1. step' # "resume" /\ (S!SignalInHand' => S!SignalInHand)
    BY <1>1, StoreKeeps, StoreCases DEF S!SignalInHand, Orderly
  <2>2. UNCHANGED <<scanning, rx>>
    BY <1>1, Zenon DEF S!StoreFlags, S!radio
  <2> QED BY <2>1, <2>2
<1>2. ASSUME NEW id \in IDs, S!App_ControlStartLearnIR(id) PROVE ClosedWithSignal'
  <2>1. ~S!FrameInHand
    BY <1>2, StartLearnInTime
  <2>2. step' # "resume" /\ ~S!SignalInHand'
    BY <1>2, <2>1 DEF S!App_ControlStartLearnIR, S!FrameInHand, S!SignalInHand
  <2> QED BY <2>2
<1>3. CASE S!SysTimer100msCall
  <2>1. step' = step /\ rx' = rx /\ ("DETECT" \in op' <=> "DETECT" \in op)
    BY <1>3 DEF S!SysTimer100msCall, S!When
  <2>2. S!SignalInHand' <=> S!SignalInHand
    BY <2>1 DEF S!SignalInHand
  <2>3. scanning' => S!Reopens \/ scanning
    BY <1>3, Zenon DEF S!SysTimer100msCall, S!ScansOn
  <2>4. S!Reopens => ~S!SignalInHand /\ step # "resume"
    BY <1>3 DEF S!SysTimer100msCall, S!Reopens, S!DelayEnds, S!When, FlagsOfSteps, Orderly
  <2> QED BY <2>1, <2>2, <2>3, <2>4
<1>4. CASE \/ \E id \in IDs : S!App_ControlEraseIR(id)
           \/ S!LoadFlags \/ S!FrameBegin \/ S!FrameComplete \/ UNCHANGED S!vars
  <2>1. step' = step /\ scanning' = scanning /\ (rx' = rx \/ scanning)
    BY <1>4, Zenon DEF S!App_ControlEraseIR, S!LoadFlags, S!FrameBegin, S!FrameComplete, S!vars,
       S!flags, S!radio
  <2>2. "DETECT" \in op' => "DETECT" \in op
    BY <1>4, NoFlagsOn
  <2> QED BY <2>1, <2>2 DEF S!SignalInHand
<1>5. CASE \/ S!TestLearn \/ S!StoreCode \/ S!CodeStored \/ S!TableFull \/ S!NotDecoded
           \/ S!TestErase
           \/ S!CodeRemoved \/ S!TestKey
  <2>1. scanning' = scanning /\ rx' = rx
    BY <1>5, Zenon DEF S!TestLearn, S!StoreCode, S!CodeStored, S!TableFull, S!NotDecoded,
       S!TestErase, S!CodeRemoved, S!TestKey, S!radio
  <2>2. step' # "resume" /\ (S!SignalInHand' => S!SignalInHand)
    BY <1>5 DEF S!SignalInHand, S!Goto, S!TestLearn, S!StoreCode, S!CodeStored, S!TableFull,
       S!NotDecoded, S!TestErase, S!CodeRemoved, S!TestKey
  <2> QED BY <2>1, <2>2
<1>6. CASE S!DecodeBegin \/ S!DecodeEnd
  <2>1. scanning' = scanning /\ rx' = rx
    BY <1>6, Zenon DEF S!DecodeBegin, S!DecodeEnd
  <2>2. step' # "resume" /\ (S!SignalInHand' => S!SignalInHand)
    BY <1>6 DEF S!SignalInHand, S!Goto, S!DecodeBegin, S!DecodeEnd
  <2> QED BY <2>1, <2>2
<1>7. CASE S!StopScan
  BY <1>7 DEF S!StopScan, S!Goto, S!SignalInHand
<1>8. CASE S!Resume
  BY <1>8 DEF S!Resume, S!Goto, S!SignalInHand
<1> QED BY <1>1, <1>2, <1>3, <1>4, <1>5, <1>6, <1>7, <1>8, Zenon DEF S!Next, S!MainLoop, S!Interrupt

(* The two counters run in step, and the one of the delay has started      *)
(* later: it starts when the signal is consumed, with LEARN on, only if a  *)
(* new learn command has set the other to zero.                            *)
LEMMA NextReopens ==
  ASSUME ReopensInTime, FlagsOfSteps, CountsType, [S!Next]_S!vars, Orderly'
  PROVE  ReopensInTime'
<1> SUFFICES ASSUME "DELAY" \in op', S!LearnWaits', ~S!SignalInHand'
             PROVE  g_ubScanIRCount' <= g_ubDelayCount'
  BY DEF ReopensInTime
<1>1. CASE UNCHANGED S!counts /\ "DELAY" \in op /\ S!LearnWaits /\ ~S!SignalInHand
  BY <1>1 DEF ReopensInTime, S!counts
<1>2. CASE S!StoreFlags
  <2>1. "DELAY" \in op /\ S!LearnWaits /\ ~S!SignalInHand
    BY <1>2, StoreKeeps, StoreCases DEF S!SignalInHand, S!LearnWaits, Orderly
  <2> QED BY <1>1, <1>2, <2>1, Zenon DEF S!StoreFlags
<1>3. CASE \E id \in IDs : S!App_ControlStartLearnIR(id)
  <2>1. g_ubScanIRCount' = 0 /\ g_ubDelayCount' = g_ubDelayCount
    BY <1>3, Zenon DEF S!App_ControlStartLearnIR, S!Mid_IrRemoteStartScan
  <2> QED BY <2>1 DEF CountsType
<1>4. CASE S!SysTimer100msCall
  <2>1. "DELAY" \in op /\ S!LearnWaits /\ ~S!SignalInHand /\ ~S!TimeIsUp /\ ~S!DelayEnds
    BY <1>4 DEF S!SysTimer100msCall, S!When, S!LearnWaits, S!SignalInHand
  <2>2. ~S!Reopens
    BY <2>1, Zenon DEF S!Reopens
  <2>3. g_ubScanIRCount' = g_ubScanIRCount + 1 /\ g_ubDelayCount' = g_ubDelayCount + 1
    BY <1>4, <2>1, <2>2, Zenon DEF S!SysTimer100msCall
  <2> QED BY <2>1, <2>3 DEF ReopensInTime, CountsType
<1>5. CASE \/ \E id \in IDs : S!App_ControlEraseIR(id)
           \/ S!LoadFlags \/ S!FrameBegin \/ S!FrameComplete \/ UNCHANGED S!vars
  <2>1. "DELAY" \in op /\ S!LearnWaits
    BY <1>5, NoFlagsOn DEF S!LearnWaits
  <2>2. "DETECT" \in op => "DETECT" \in op'
    BY <1>5 DEF S!App_ControlEraseIR, S!LoadFlags, S!FrameBegin, S!FrameComplete, S!vars, S!flags
  <2>3. ~S!SignalInHand
    BY <1>5, <2>2, NoFlagsOn DEF S!SignalInHand
  <2>4. UNCHANGED S!counts
    BY <1>5, Zenon DEF S!App_ControlEraseIR, S!LoadFlags, S!FrameBegin, S!FrameComplete,
       S!vars, S!counts
  <2> QED BY <1>1, <2>1, <2>3, <2>4
<1>6. CASE \/ S!TestLearn \/ S!StoreCode \/ S!CodeStored \/ S!TableFull \/ S!NotDecoded
           \/ S!TestErase
           \/ S!CodeRemoved \/ S!TestKey
  <2>1. "DELAY" \in op /\ S!LearnWaits /\ ~S!SignalInHand
    BY <1>6 DEF FlagsOfSteps, S!SignalInHand, S!LearnWaits, S!Goto, S!TestLearn, S!StoreCode,
       S!CodeStored, S!TableFull, S!NotDecoded, S!TestErase, S!CodeRemoved, S!TestKey
  <2>2. UNCHANGED S!counts
    BY <1>6, Zenon DEF S!TestLearn, S!StoreCode, S!CodeStored, S!TableFull, S!NotDecoded,
       S!TestErase, S!CodeRemoved, S!TestKey
  <2> QED BY <1>1, <2>1, <2>2
<1>7. CASE S!DecodeBegin \/ S!DecodeEnd \/ S!StopScan \/ S!Resume
  <2>1. "DELAY" \in op /\ S!LearnWaits /\ ~S!SignalInHand
    BY <1>7 DEF S!SignalInHand, S!LearnWaits, S!Goto, S!DecodeBegin, S!DecodeEnd,
       S!StopScan, S!Resume
  <2>2. UNCHANGED S!counts
    BY <1>7, Zenon DEF S!DecodeBegin, S!DecodeEnd, S!StopScan, S!Resume
  <2> QED BY <1>1, <2>1, <2>2
<1> QED BY <1>2, <1>3, <1>4, <1>5, <1>6, <1>7, Zenon DEF S!Next, S!MainLoop, S!Interrupt

(* When the time of a request is up, in order, the delay is over.          *)
LEMMA TimeUpAfterDelay ==
  ASSUME S!LearnAssumption,
         ReopensInTime, CountsType, S!TimeIsUp, ~S!SignalInHand
  PROVE  "DELAY" \notin op
BY S!LearnAssumption DEF ReopensInTime, CountsType, S!TimeIsUp, S!LearnWaits

LEMMA NextFailed ==
  ASSUME S!LearnAssumption,
         FailedIsOver, ClosedWithSignal, FlagsOfSteps, ReopensInTime, CountsType,
         [S!Next]_S!vars, Orderly'
  PROVE  FailedIsOver'
<1> SUFFICES ASSUME answer' = "fail"
             PROVE  (~scanning /\ ~S!FrameInHand /\ ~({"DELAY", "LEARN"} \subseteq op))'
  BY DEF FailedIsOver
<1> DEFINE Over == ~scanning /\ ~S!FrameInHand /\ ~({"DELAY", "LEARN"} \subseteq op)
<1>1. answer = "fail" => Over
  BY DEF FailedIsOver
<1>2. CASE S!StoreFlags
  <2>1. answer = "fail" /\ UNCHANGED <<scanning, rx>>
    BY <1>2, Zenon DEF S!StoreFlags, S!radio
  <2>2. Over
    BY <1>1, <2>1
  <2>3. step = "erase_off"
    BY <1>2, <2>2, StoreCases DEF S!FrameInHand, S!SignalInHand
  <2> QED BY <1>2, <2>1, <2>2, <2>3, StoreKeeps, StoreCases DEF S!FrameInHand,
        S!SignalInHand, Orderly
<1>3. CASE \E id \in IDs : S!App_ControlStartLearnIR(id)
  BY <1>3, Zenon DEF S!App_ControlStartLearnIR
<1>4. CASE S!SysTimer100msCall
  <2>1. step' = step /\ rx' = rx /\ op' \subseteq op
    BY <1>4 DEF S!SysTimer100msCall
  <2>2. S!FrameInHand' => S!FrameInHand
    BY <2>1 DEF S!FrameInHand, S!SignalInHand
  <2>3. CASE S!TimeIsUp
    <3>1. ~S!FrameInHand
      BY <1>4, <2>3 DEF S!SysTimer100msCall, S!When, Orderly
    <3>2. "DELAY" \notin op
      BY <2>3, <3>1, TimeUpAfterDelay DEF S!FrameInHand
    <3>3. ~scanning'
      BY <1>4, <2>3, <3>2, Zenon DEF S!SysTimer100msCall, S!ScansOn, S!Reopens, S!DelayEnds
    <3> QED BY <2>1, <2>2, <3>1, <3>2, <3>3
  <2>4. CASE ~S!TimeIsUp
    <3>1. Over
      BY <1>1, <1>4, <2>4, Zenon DEF S!SysTimer100msCall
    <3>2. ~S!Reopens
      BY <3>1 DEF S!Reopens, S!DelayEnds
    <3>3. ~scanning'
      BY <1>4, <3>1, <3>2, Zenon DEF S!SysTimer100msCall, S!ScansOn
    <3> QED BY <2>1, <2>2, <3>1, <3>3
  <2> QED BY <2>3, <2>4
<1>5. CASE \/ \E id \in IDs : S!App_ControlEraseIR(id)
           \/ S!LoadFlags \/ S!FrameBegin \/ S!FrameComplete \/ UNCHANGED S!vars
  <2>1. answer = "fail"
    BY <1>5, Zenon DEF S!App_ControlEraseIR, S!LoadFlags, S!FrameBegin, S!FrameComplete,
       S!vars, S!history
  <2>2. Over
    BY <1>1, <2>1
  <2>3. scanning' = scanning /\ rx' = rx
    BY <1>5, <2>2, Zenon DEF S!App_ControlEraseIR, S!LoadFlags, S!FrameBegin,
       S!FrameComplete, S!vars, S!radio
  <2> QED BY <1>5, <2>2, <2>3, NoFlagsOn DEF S!FrameInHand, S!SignalInHand
<1>6. CASE S!NotDecoded
  BY <1>6 DEF S!NotDecoded, S!Goto, S!radio, ClosedWithSignal, FlagsOfSteps, S!FrameInHand,
     S!SignalInHand
<1>7. CASE S!CodeStored
  BY <1>7, Zenon DEF S!CodeStored, S!Answer
<1>8. CASE S!TestLearn \/ S!StoreCode \/ S!TableFull \/ S!TestErase \/ S!CodeRemoved \/ S!TestKey
  <2>1. answer = "fail" /\ UNCHANGED <<scanning, rx>>
    BY <1>8, Zenon DEF S!TestLearn, S!StoreCode, S!TableFull, S!TestErase, S!CodeRemoved, S!TestKey,
       S!history, S!radio
  <2>2. Over
    BY <1>1, <2>1
  <2>3. op' = op /\ ~S!FrameInHand'
    BY <1>8, <2>1, <2>2 DEF S!FrameInHand, S!SignalInHand, S!Goto, S!TestLearn, S!StoreCode,
       S!TableFull, S!TestErase, S!CodeRemoved, S!TestKey
  <2> QED BY <2>1, <2>2, <2>3
<1>9. CASE S!DecodeBegin \/ S!DecodeEnd \/ S!StopScan \/ S!Resume
  <2>1. Over
    BY <1>1, <1>9, Zenon DEF S!DecodeBegin, S!DecodeEnd, S!StopScan, S!Resume, S!history
  <2>2. S!DecodeBegin /\ ~S!MayDecode
    BY <1>9, <2>1 DEF S!FrameInHand, S!DecodeBegin, S!MayDecode, S!DecodeEnd, S!StopScan, S!Resume
  <2> QED BY <2>1, <2>2 DEF S!DecodeBegin, S!FrameInHand, S!SignalInHand, S!Goto
<1> QED BY <1>2, <1>3, <1>4, <1>5, <1>6, <1>7, <1>8, <1>9, Zenon DEF S!Next, S!MainLoop, S!Interrupt

LEMMA NextOrderly ==
  ASSUME S!LearnAssumption PROVE CountsType /\ OrderlyInv /\ [S!Next]_S!vars => OrderlyInv'
<1> SUFFICES ASSUME CountsType, OrderlyInv, [S!Next]_S!vars, Orderly'
             PROVE  (FlagsOfSteps /\ ClosedWithSignal /\ ReopensInTime /\ FailedIsOver)'
  BY DEF OrderlyInv
<1>1. Orderly
  BY OddGrows DEF Orderly
<1>2. FlagsOfSteps /\ ClosedWithSignal /\ ReopensInTime /\ FailedIsOver
  BY <1>1 DEF OrderlyInv
<1> QED BY <1>2, NextFlagsOfSteps, NextClosed, NextReopens, NextFailed

(* A learn command that has failed does not succeed afterwards, for every  *)
(* time-out and every shorter delay, in any order of ticks, frames and     *)
(* steps of the main loop.                                                 *)
THEOREM FailureIsFinal ==
  ASSUME S!LearnAssumption PROVE S!Spec => S!NoSuccessAfterFail
<1>1. /\ S!Init => CountsType /\ OrderlyInv
      /\ CountsType /\ OrderlyInv /\ [S!Next]_S!vars => (CountsType /\ OrderlyInv)'
  BY InitType, InitOrderly, TypeParts, NextCountsType, NextOrderly
<1>2. OrderlyInv /\ [S!Next]_S!vars =>
        [answer = "fail" /\ answer' = "success" => odd \ {"silence"} # {}]_S!vars
  <2> SUFFICES ASSUME OrderlyInv, [S!Next]_S!vars, answer = "fail", answer' = "success", Orderly
               PROVE  FALSE
    BY DEF Orderly
  <2>1. step = "stored"
    BY Zenon DEF S!Next, S!MainLoop, S!Interrupt, S!LoadFlags, S!StoreFlags, S!TestLearn,
       S!StoreCode, S!CodeStored, S!TableFull, S!NotDecoded, S!TestErase, S!CodeRemoved,
       S!TestKey, S!DecodeBegin, S!DecodeEnd, S!StopScan, S!Resume,
       S!App_ControlStartLearnIR, S!App_ControlEraseIR, S!SysTimer100msCall, S!FrameBegin,
       S!FrameComplete, S!Answer, S!vars, S!history
  <2> QED BY <2>1 DEF OrderlyInv, FailedIsOver, S!FrameInHand, S!SignalInHand
<1> QED BY <1>1, <1>2, PTL DEF S!Spec, S!NoSuccessAfterFail
=============================================================================
