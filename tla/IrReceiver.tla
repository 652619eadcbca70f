----------------------------- MODULE IrReceiver -----------------------------
(***************************************************************************)
(* The infrared receiver of Mid_IrRemote.c.                                *)
(*                                                                         *)
(* Two contexts share irparams.  TIMER1 fires every 50 us while a scan is  *)
(* on and runs timer_led_event_handler, one action here.  The main loop    *)
(* (ProcessMain) decodes a complete frame, stops the scan and resumes the  *)
(* state machine; an interrupt can come between any two of those steps.    *)
(* StartScan and StopScan are also called from interrupts (a learn command *)
(* over BLE, the 100 ms timer), which never nest in the sampling interrupt *)
(* because all of them have the same priority.                             *)
(***************************************************************************)
EXTENDS Integers

CONSTANTS
  RAW_BUFFER_LENGTH,   (* entries of rawbuf: 750 in the firmware           *)
  RECORD_GAP_TICKS,    (* 100 ticks of 50 us                               *)
  UINT16_MAX_CUSTOM    (* 65535, where the tick counter is clipped         *)

(* An even number of entries is all that keeps the handler inside rawbuf:  *)
(* only the branch that records a space compares rawlen with the length.   *)
ASSUME ConstantsAssumption ==
  /\ RAW_BUFFER_LENGTH \in Nat \ {0} /\ RAW_BUFFER_LENGTH % 2 = 0
  /\ RECORD_GAP_TICKS \in Nat
  /\ UINT16_MAX_CUSTOM \in Nat

VARIABLES
  StateForISR,         (* irparams.StateForISR                             *)
  TickCounterForISR,   (* irparams.TickCounterForISR                       *)
  rawbuf,              (* irparams.rawbuf                                  *)
  rawlen,              (* irparams.rawlen                                  *)
  OverflowFlag,        (* irparams.OverflowFlag                            *)
  timerEnabled,        (* nrfx_timer_is_enabled(&TIMER_LED)                *)
  wasOverflow,         (* IRDATA_FLAGS_WAS_OVERFLOW in decodedIRData.flags *)
  pc                   (* where ProcessMain is                             *)

irparams == <<StateForISR, TickCounterForISR, rawbuf, rawlen, OverflowFlag>>
vars == <<irparams, timerEnabled, wasOverflow, pc>>

States == {"IDLE", "MARK", "SPACE", "STOP"}
Ticks  == 0 .. UINT16_MAX_CUSTOM
Levels == {"mark", "space"}     (* INPUT_MARK, or not *)

Init ==
  /\ StateForISR = "IDLE"
  /\ TickCounterForISR = 0
  /\ rawbuf = [i \in 0 .. RAW_BUFFER_LENGTH - 1 |-> 0]
  /\ rawlen = 0
  /\ OverflowFlag = FALSE
  /\ timerEnabled = FALSE
  /\ wasOverflow = FALSE
  /\ pc = "loop"

-----------------------------------------------------------------------------
(* The sampling interrupt. *)

Ticked_NoClip == TickCounterForISR + 1

(* One more 50 us tick, clipped. *)
Ticked ==
  IF TickCounterForISR < UINT16_MAX_CUSTOM
  THEN TickCounterForISR + 1 ELSE TickCounterForISR

(* irparams.rawbuf[irparams.rawlen++] = irparams.TickCounterForISR *)
Record ==
  /\ rawbuf' = [rawbuf EXCEPT ![rawlen] = Ticked]
  /\ rawlen' = rawlen + 1

StartsFrame_AnyGap(level) == level = "mark"

(* A mark after a long enough gap starts a frame. *)
StartsFrame(level) == level = "mark" /\ Ticked > RECORD_GAP_TICKS

StartFrame ==
  /\ OverflowFlag' = FALSE
  /\ rawbuf' = [rawbuf EXCEPT ![0] = Ticked] /\ rawlen' = 1
  /\ StateForISR' = "MARK"

IdleTick(level) ==
  /\ StateForISR = "IDLE"
  /\ TickCounterForISR' = IF level = "mark" THEN 0 ELSE Ticked
  /\ IF StartsFrame(level)
     THEN StartFrame
     ELSE UNCHANGED <<StateForISR, rawbuf, rawlen, OverflowFlag>>

MarkTick(level) ==
  /\ StateForISR = "MARK"
  /\ IF level = "space"
     THEN Record /\ StateForISR' = "SPACE" /\ TickCounterForISR' = 0
     ELSE TickCounterForISR' = Ticked /\ UNCHANGED <<StateForISR, rawbuf, rawlen>>
  /\ UNCHANGED OverflowFlag

BufferFull_OffByOne == rawlen > RAW_BUFFER_LENGTH
BufferFull == rawlen >= RAW_BUFFER_LENGTH

SpaceTick(level) ==
  /\ StateForISR = "SPACE"
  /\ \/ /\ level = "mark" /\ BufferFull
        /\ OverflowFlag' = TRUE
        /\ StateForISR' = "STOP"
        /\ TickCounterForISR' = 0
        /\ UNCHANGED <<rawbuf, rawlen>>
     \/ /\ level = "mark" /\ ~BufferFull
        /\ Record
        /\ StateForISR' = "MARK"
        /\ TickCounterForISR' = 0
        /\ UNCHANGED OverflowFlag
     \/ /\ level = "space"
        /\ TickCounterForISR' = Ticked
        /\ StateForISR' = IF Ticked > RECORD_GAP_TICKS THEN "STOP" ELSE "SPACE"
        /\ UNCHANGED <<rawbuf, rawlen, OverflowFlag>>

StopTick(level) ==
  /\ StateForISR = "STOP"
  /\ TickCounterForISR' = IF level = "mark" THEN 0 ELSE Ticked
  /\ UNCHANGED <<StateForISR, rawbuf, rawlen, OverflowFlag>>

timer_led_event_handler(level) ==
  /\ timerEnabled
  /\ IdleTick(level) \/ MarkTick(level) \/ SpaceTick(level) \/ StopTick(level)
  /\ UNCHANGED <<timerEnabled, wasOverflow, pc>>

-----------------------------------------------------------------------------
(* Calls from other interrupts. *)

StartScan_Resets ==
  /\ StateForISR' = "IDLE" /\ TickCounterForISR' = 0 /\ timerEnabled' = TRUE
  /\ UNCHANGED <<rawbuf, rawlen, OverflowFlag, wasOverflow, pc>>

Mid_IrRemoteStartScan ==
  /\ TickCounterForISR' = 0
  /\ timerEnabled' = TRUE
  /\ UNCHANGED <<StateForISR, rawbuf, rawlen, OverflowFlag, wasOverflow, pc>>

Mid_IrRemoteStopScan ==
  /\ timerEnabled' = FALSE
  /\ UNCHANGED <<irparams, wasOverflow, pc>>

-----------------------------------------------------------------------------
(* The main loop: Mid_IrRemoteDecode, then stop, then resume. *)

(* StateForISR is tested and Ir_RemoteInitDecodedIRData reads OverflowFlag. *)
DecodeBegin ==
  /\ pc = "loop"
  /\ StateForISR = "STOP"
  /\ wasOverflow' = OverflowFlag
  /\ pc' = "decode"
  /\ UNCHANGED <<irparams, timerEnabled>>

(* The decoders read rawbuf until one accepts; the call returns true.      *)
DecodeEnd ==
  /\ pc = "decode"
  /\ pc' = "stop"
  /\ UNCHANGED <<irparams, timerEnabled, wasOverflow>>

MainStopScan ==
  /\ pc = "stop"
  /\ timerEnabled' = FALSE
  /\ pc' = "resume"
  /\ UNCHANGED <<irparams, wasOverflow>>

Ir_RemoteResume ==
  /\ pc = "resume"
  /\ StateForISR' = IF StateForISR = "STOP" THEN "IDLE" ELSE StateForISR
  /\ pc' = "loop"
  /\ UNCHANGED <<TickCounterForISR, rawbuf, rawlen, OverflowFlag, timerEnabled,
                 wasOverflow>>

ProcessMain == DecodeBegin \/ DecodeEnd \/ MainStopScan \/ Ir_RemoteResume

Interrupt ==
  \/ \E level \in Levels : timer_led_event_handler(level)
  \/ Mid_IrRemoteStartScan
  \/ Mid_IrRemoteStopScan

Next == ProcessMain \/ Interrupt

Spec == Init /\ [][Next]_vars

-----------------------------------------------------------------------------
(* Every variable keeps its type: in particular the tick counter and every *)
(* entry recorded from it fit the 16 bits of rawbuf, and rawlen never      *)
(* passes the length of the buffer.                                        *)
TypeOK ==
  /\ StateForISR \in States
  /\ TickCounterForISR \in Ticks
  /\ rawbuf \in [0 .. RAW_BUFFER_LENGTH - 1 -> Ticks]
  /\ rawlen \in 0 .. RAW_BUFFER_LENGTH
  /\ OverflowFlag \in BOOLEAN
  /\ timerEnabled \in BOOLEAN
  /\ wasOverflow \in BOOLEAN
  /\ pc \in {"loop", "decode", "stop", "resume"}

(* The branch that records a mark writes rawbuf[rawlen] without a test     *)
(* (timer_led_event_handler, line 62): whenever it can run, rawlen must be *)
(* an index of rawbuf.                                                     *)
MarkWriteInBounds == StateForISR = "MARK" => rawlen < RAW_BUFFER_LENGTH

(* What the main loop is told about an overflow is what happened to the    *)
(* frame it is decoding, although the flag is set in the interrupt and     *)
(* never cleared before the next frame starts.                             *)
OverflowReport ==
  pc # "loop" => StateForISR = "STOP" /\ wasOverflow = OverflowFlag

(* An overflow is raised only with the buffer full to the last entry, so a *)
(* frame handed over with the flag down holds every edge that was sampled. *)
OverflowMeansFull == OverflowFlag => rawlen = RAW_BUFFER_LENGTH

Phase ==
  [IDLE |-> "Idle", MARK |-> "Receiving", SPACE |-> "Receiving", STOP |-> "Complete"]

(* The receiver implements FrameReceiver: rawbuf is the frame once the     *)
(* state machine has stopped.                                              *)
Receiver == INSTANCE FrameReceiver WITH
  rx <- Phase[StateForISR],
  frame <- [i \in (IF StateForISR = "STOP" THEN 0 .. rawlen - 1 ELSE {}) |->
              rawbuf[i]],
  scanning <- timerEnabled

(* The receiver hands frames over whole and well formed and lets them      *)
(* alone, as the decoders take for granted when they read rawbuf in the    *)
(* main loop while timer_led_event_handler goes on sampling.               *)
ReceiverPromise == Receiver!AbsSpec

(* Op_HeaderDefine.h, line 143, of IRDATA_FLAGS_WAS_OVERFLOW: "rawlen is   *)
(* set to 0 in this case to avoid endless OverflowFlag".                   *)
OverflowEmptiesBuffer == pc = "resume" /\ wasOverflow => rawlen = 0
=============================================================================
