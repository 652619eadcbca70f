------------------------------ MODULE IrRelay ------------------------------
(***************************************************************************)
(* What the device is for: a key of somebody's remote control is learned,  *)
(* and what is emitted later stands for that key.  The composition of the  *)
(* decoders, of App_ControlHandle as far as it stores a code, and of the   *)
(* transmitter, over a receiver that samples the light every 50            *)
(* microseconds.                                                           *)
(*                                                                         *)
(* A key is external: the protocol it is read as, the frames that mean it  *)
(* (one, or one for each toggle bit), and the frame sent while it is held. *)
(***************************************************************************)
EXTENDS IrDecoders, IrTransmitter

CONSTANTS
  Keys,          (* records [protocol, forms, held]                         *)
  Pauses,        (* ticks from the start of the scan to the frame           *)
  RepeatPauses,  (* the same while a key is held: no more than the distance *)
                 (* at which the protocol repeats its frames                *)
  Phases,        (* microseconds from the start of the frame to a sample    *)
  Excesses,      (* microseconds by which the receiver module lengthens marks *)
  MaxFrames      (* bound: the frames received                              *)

(* The bound of 255 bits: above it the code's byte counters wrap around.   *)
ASSUME RelayAssumption ==
  /\ \A k \in Keys: \A f \in k.forms \union {k.held}: f \in Seq(Nat) /\ Len(f) <= 513
  /\ Pauses \subseteq Nat /\ RepeatPauses \subseteq Pauses /\ MaxFrames \in Nat
  /\ Phases \subseteq 0..(MICROS_PER_TICK - 1) /\ Excesses \subseteq 10..MICROS_PER_TICK

VARIABLES
  decodedIRData,           (* what the last frame was decoded to            *)
  learned,                 (* the code stored for the last learn command:   *)
                           (* <<code>>, or <<>> when it failed              *)
  sLastSendToggleValue,
  (* History: *)
  key,           (* the key of the last frame received                      *)
  heard,         (* "press": its first frame; "hold": a repeat, after the   *)
                 (* first frame; "unheard": a repeat, the first was missed  *)
  pressed,       (* what the last first frame was decoded to                *)
  frames,        (* the frames received                                     *)
  emissions      (* what has been emitted for this code, at most twice      *)

vars == <<decodedIRData, learned, sLastSendToggleValue, key, heard, pressed, frames,
          emissions>>

Init ==
  /\ decodedIRData = Blank /\ learned = <<>> /\ sLastSendToggleValue = 1
  /\ key \in Keys /\ heard = "nothing" /\ pressed = Blank /\ frames = 0
  /\ emissions = <<>>

----------------------------------------------------------------------------
(* The receiver: entry i of the frame is as many ticks long as samples     *)
(* fall between its edges, and a falling edge comes late by the excess.    *)

(* The times of the edges of a frame.                                      *)
Edges(frame) ==
  LET upTo[i \in 0..Len(frame)] ==
        IF i = 0 THEN <<0>>
        ELSE LET before == upTo[i - 1] IN Append(before, Last(before) + frame[i])
  IN  upTo[Len(frame)]

Received(frame, pause, phase, excess) ==
  LET edges == Edges(frame)
      samples == [i \in DOMAIN edges |->
                    (edges[i] + (IF i % 2 = 0 THEN excess ELSE 0) - phase)
                      \div MICROS_PER_TICK]
  IN  [pause |-> pause, ticks |-> [i \in DOMAIN frame |-> samples[i + 1] - samples[i]]]

----------------------------------------------------------------------------
(* A learn command and the frame that answers it: the code is stored       *)
(* unless the protocol is unknown.                                         *)

Learn(k, how, frame, pauses) ==
  /\ frames < MaxFrames
  /\ \E pause \in pauses, phase \in Phases, excess \in Excesses:
       decodedIRData' =
         Mid_IrRemoteDecode(Received(frame, pause, phase, excess), decodedIRData)
  /\ learned' = IF decodedIRData'.protocol = "UNKNOWN" THEN <<>> ELSE <<decodedIRData'>>
  /\ pressed' = IF how = "press" THEN decodedIRData' ELSE pressed
  /\ key' = k /\ heard' = how /\ frames' = frames + 1 /\ emissions' = <<>>
  /\ UNCHANGED sLastSendToggleValue

Press == \E k \in Keys: \E frame \in k.forms: Learn(k, "press", frame, Pauses)

Hold == heard = "press" /\ Learn(key, "hold", key.held, RepeatPauses)

HoldUnheard == \E k \in Keys: Learn(k, "unheard", k.held, RepeatPauses)

(* The toggle bit of the next emission: a repeat has none, others take     *)
(* turns.                                                                  *)
NextToggle_Stuck(d) == IF d.isRepeat THEN 0 ELSE 1
NextToggle(d) == IF d.isRepeat THEN 0 ELSE 1 - sLastSendToggleValue

(* App_ControlStartEmitIR, for the code of the last learn command.         *)
Emit ==
  /\ learned # <<>> /\ Len(emissions) < 2
  /\ LET d == learned[1]
         toggle == NextToggle(d)
     IN  /\ emissions' = Append(emissions, Mid_IrSendCommon(d, toggle))
         /\ sLastSendToggleValue' = IF UsesToggle(d) THEN toggle ELSE sLastSendToggleValue
  /\ UNCHANGED <<decodedIRData, learned, key, heard, pressed, frames>>

Next == Press \/ Hold \/ HoldUnheard \/ Emit

Spec == Init /\ [][Next]_vars

----------------------------------------------------------------------------
(* Properties.                                                             *)

Bit == {0, 1}
IsWord(w, n) == Len(w) = n /\ \A i \in DOMAIN w: w[i] \in Bit

(* What is decoded has an address and a command of 16 bits, and a raw word *)
(* as long as the number of bits says, whichever decoder took the frame.   *)
TypeOK ==
  /\ IsWord(decodedIRData.address, 16) /\ IsWord(decodedIRData.command, 16)
  /\ IsWord(decodedIRData.raw, Len(decodedIRData.raw))
  /\ sLastSendToggleValue \in Bit
  /\ learned \in {<<>>, <<decodedIRData>>} /\ Len(emissions) <= 2

(* Every key of a protocol the device knows is read as that protocol: no   *)
(* decoder that is tried earlier takes the frame, wherever the samples     *)
(* fall and however much the receiver lengthens the marks.  The excuse: in *)
(* the first moments of a scan a frame with the timing of NEC is taken for *)
(* a repeat, which makes it NEC2.                                          *)
FrameReadByItsDecoder ==
  heard = "press" =>
    \/ decodedIRData.protocol = key.protocol
    \/ /\ decodedIRData.protocol = "NEC2" /\ decodedIRData.isRepeat
       /\ key.protocol \in {"NEC", "ONKYO", "APPLE"}

(* A learned key that is held when the next learn command comes is read as *)
(* the same address and command, although its frames may carry neither.    *)
HeldKeyIsTheKey ==
  [][Hold => /\ learned' # <<>>
             /\ decodedIRData'.address = decodedIRData.address
             /\ decodedIRData'.command = decodedIRData.command]_vars

(* The codes that are known not to survive:                                *)
(* - the command of LG is sent with 8 of its 16 bits;                      *)
(* - an NEC address or a Samsung command of 16 bits that is below 256 is   *)
(*   taken for a byte and its complement;                                  *)
(* - NEC2 is sent as NEC, whatever Onkyo or Apple frame it was;            *)
(* - an Onkyo address that is a byte and its complement is read as a byte  *)
(*   and sent as 16 bits;                                                  *)
(* - nothing is sent for a protocol without a sender;                      *)
(* - a repeat whose first frame was missed stands for an earlier key.      *)
WithoutSender == {"PULSE_WIDTH", "KASEIKYO", "WHYNTER", "LG2"}
Lossy(d) ==
  \/ d.protocol = "LG" /\ ~HighByteZero(d.command)
  \/ d.protocol \in {"NEC", "NEC2"} /\ HighByteZero(d.address) /\ ~IsChecked(d.raw, 0)
  \/ d.protocol = "NEC2" /\ (~IsChecked(d.raw, 2) \/ Byte(d.raw, 0) # Byte(d.address, 0))
  \/ d.protocol = "ONKYO" /\ IsChecked(d.raw, 0)
  \/ d.protocol = "SAMSUNG" /\ HighByteZero(d.command) /\ ~IsChecked(d.raw, 2)
  \/ d.protocol \in WithoutSender

SameFrame(sent, form, percent) ==
  /\ Len(sent) = Len(form)
  /\ \A i \in DOMAIN sent:
       LET off == sent[i] - form[i] IN 100 * off <= percent * form[i]
                                    /\ -100 * off <= percent * form[i]

(* An appliance that reads what is emitted as this program would, takes    *)
(* the repeat for the same address and command as the frame before it.     *)
RepeatMeansTheSame ==
  \A e \in DOMAIN emissions: Len(emissions[e]) > 1 =>
    \A excess \in Excesses:
      \A first \in {Mid_IrRemoteDecode(Received(emissions[e][1], 30000, 0, excess), Blank)}:
      \A second \in {Mid_IrRemoteDecode(Received(emissions[e][2], 400, 0, excess), first)}:
        first.address = second.address /\ first.command = second.command

(* What is emitted for a learned code is a frame of the key: every bit in  *)
(* its place, after decoding, storing and encoding, and the timings those  *)
(* of the protocol, or within a fourth of them when they were measured.    *)
(* Its repeat means the same.                                              *)
EmitsTheKey ==
  /\ RepeatMeansTheSame
  /\ \A e \in DOMAIN emissions:
       heard \in {"press", "hold"} /\ ~Lossy(pressed) =>
         \E form \in key.forms:
           SameFrame(emissions[e][1], form,
                     IF learned[1].protocol = "PULSE_DISTANCE" THEN 25 ELSE 0)

(* The types are right, and two emissions of a code of RC5 or RC6 are two  *)
(* presses for the appliance, and not one long press: their toggle bits    *)
(* differ.  The excuse: a code learned from a repeat is sent without       *)
(* toggling.                                                               *)
NextPressToggles ==
  /\ TypeOK
  /\ Len(emissions) = 2 /\ UsesToggle(learned[1]) => emissions[1][1] # emissions[2][1]

----------------------------------------------------------------------------
(* What comments of the source say of the program.                         *)

(* "must be RC5_BITS" (Ir_RC5_RC6.c:125): what is decoded as RC5 has the   *)
(* 13 bits of RC5.                                                         *)
RC5_BITS == 13
RC5HasItsBits == decodedIRData.protocol = "RC5" => decodedIRData.numberOfBits = RC5_BITS

(* "the 16 bit command" (Ir_LG.c:40): what is emitted for a key of LG is   *)
(* the frame that was learned, with its whole command.                     *)
LGKeepsItsCommand ==
  \A e \in DOMAIN emissions:
    learned[1].protocol = "LG" => emissions[e][1] \in key.forms
=============================================================================
