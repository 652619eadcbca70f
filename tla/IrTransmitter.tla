--------------------------- MODULE IrTransmitter ---------------------------
(***************************************************************************)
(* What the device emits for a learned code: Mid_IrSendCommon and the send *)
(* function of each protocol.  A code is what the decoders leave in        *)
(* decodedIRData; its address and its command are words of 16 bits.  An    *)
(* emission is the sequence of frames, the one asked for and its repeats;  *)
(* the pauses between them are left out.                                   *)
(***************************************************************************)
EXTENDS IrPulse

(* A key is always emitted with one repeat.                                *)
Twice(f) == <<f, f>>

(* The short frames that some protocols repeat a key with.                 *)
sendNECSpecialRepeat == <<8960, 2240, 560>>
sendSamsungLGSpecialRepeat == <<4480, 4480, 560, 560, 560>>

----------------------------------------------------------------------------
(* The words.                                                              *)

(* A byte and its complement, as many protocols send one.                  *)
Checked(byte) == byte \o Inverted(byte)
HighByteZero(w) == Byte(w, 1) = Zeros(8)

computeNECRawDataAndChecksum(address, command) ==
    (IF HighByteZero(address) THEN Checked(Byte(address, 0)) ELSE address)
        \o Checked(Byte(command, 0))

SamsungWord(address, command) ==
    address \o (IF HighByteZero(command) THEN Checked(Byte(command, 0)) ELSE command)

(* The sum of the four nibbles of the command.                             *)
LGChecksum(command) ==
    Bits((Number(SubSeq(command, 1, 4)) + Number(SubSeq(command, 5, 8))
            + Number(SubSeq(command, 9, 12)) + Number(SubSeq(command, 13, 16))) % 16, 4)

computeLGRawDataAndChecksum(address, command) ==
    LGChecksum(command) \o command \o Byte(address, 0)

VendorParity(vendor) ==
    LET byte == Xor(Byte(vendor, 0), Byte(vendor, 1))
    IN  Xor(SubSeq(byte, 1, 4), SubSeq(byte, 5, 8))

KaseikyoWord(vendor, address, command) ==
    LET low == VendorParity(vendor) \o SubSeq(address, 1, 12)
        byte == Byte(command, 0)
    IN  vendor \o low \o byte \o Xor(byte, Xor(Byte(low, 0), Byte(low, 1)))

DenonWord(address, command, sharp) ==
    SubSeq(address, 1, 5) \o Byte(command, 0) \o <<0, IF sharp THEN 1 ELSE 0>>

(* The second frame of a key: all but the address inverted.                *)
DenonInverted(word) == SubSeq(word, 1, 5) \o Inverted(SubSeq(word, 6, 15))

(* A command with bit 6 set is RC5X: the bit is sent inverted in front.    *)
RC5Word_NotInverted(address, command, toggle) ==
    SubSeq(command, 1, 6) \o SubSeq(address, 1, 5) \o <<toggle, command[7]>>

RC5Word(address, command, toggle) ==
    LET extended == command[7] = 1 \/ command[8] = 1
    IN  SubSeq(command, 1, 6) \o SubSeq(address, 1, 5)
          \o <<toggle, IF extended THEN 0 ELSE 1>>

RC6Word(address, command, toggle) ==
    Byte(command, 0) \o Byte(address, 0) \o <<toggle, 0, 0, 0>>

LegoWord(channel, command, mode) ==
    Xor(Xor(Inverted(channel), mode), command) \o command \o mode \o channel

(* All bytes, the identifier shifted by one, add up to zero.               *)
MagiQuestChecksum(wandId, magnitude) ==
    LET id == <<0>> \o wandId
        sum == Number(Byte(id, 0)) + Number(Byte(id, 1)) + Number(Byte(id, 2))
                 + Number(Byte(id, 3)) + Number(SubSeq(magnitude, 1, 8)) + magnitude[9]
    IN  Bits((256 - (sum % 256)) % 256, 8)

----------------------------------------------------------------------------
(* The frames.                                                             *)

sendKaseikyo(vendor, d) ==
    Twice(sendPulseDistanceWidth(KaseikyoProtocolConstants,
                                 KaseikyoWord(vendor, d.address, d.command)))

(* Denon has no header, and sends every frame again inverted.              *)
sendDenon(word) ==
    LET c == DenonProtocolConstants
        frames == <<sendPulseDistanceWidthData(c, word),
                    sendPulseDistanceWidthData(c, DenonInverted(word))>>
    IN  frames \o frames

(* A repeat has no header.                                                 *)
sendJVC(word) ==
    <<sendPulseDistanceWidth(JVCProtocolConstants, word),
      sendPulseDistanceWidthData(JVCProtocolConstants, word)>>

(* A header of six units and two, a start bit, and a toggle bit of double  *)
(* width.                                                                  *)
RC6Frame(word) ==
    LET sent == Reverse(word)
        toggle == IF sent[4] = 1 THEN <<MARK, MARK, SPACE, SPACE>>
                                 ELSE <<SPACE, SPACE, MARK, MARK>>
    IN  Durations([i \in 1..6 |-> MARK] \o <<SPACE, SPACE, MARK, SPACE>>
                    \o Biphase(SubSeq(sent, 1, 3), MARK) \o toggle
                    \o Biphase(SubSeq(sent, 5, Len(sent)), MARK), RC6_UNIT)

MagiQuestFrame(wandId, magnitude) ==
    LET c == MagiQuestProtocolConstants
    IN  UptoLastMark(sendPulseDistanceWidthData(c, Zeros(8))
          \o sendPulseDistanceWidthData(c, wandId)
          \o sendPulseDistanceWidthData(c, magnitude)
          \o sendPulseDistanceWidthData(c, MagiQuestChecksum(wandId, magnitude)))

(* With the timings that were measured, and no repeat.                     *)
Mid_IrSendPulseDistance(d) == <<sendPulseDistanceWidth(d.timing, d.raw)>>

(* The command of LG is cut to a byte.                                     *)
LGCommand(command) == Widen(Byte(command, 0), 16)

----------------------------------------------------------------------------
(* "toggle" is the toggle bit that RC5 and RC6 send.                       *)

Mid_IrSendCommon(d, toggle) ==
    LET nec(word) == sendPulseDistanceWidth(NECProtocolConstants, word)
        a == d.address
        c == d.command
        p == d.protocol
    IN  CASE p = "NEC" -> <<nec(computeNECRawDataAndChecksum(a, c)), sendNECSpecialRepeat>>
          [] p = "NEC2" -> Twice(nec(computeNECRawDataAndChecksum(a, c)))
          [] p = "ONKYO" -> <<nec(a \o c), sendNECSpecialRepeat>>
          [] p = "APPLE" -> <<nec(APPLE_ADDRESS \o Byte(c, 0) \o Byte(a, 0)),
                              sendNECSpecialRepeat>>
          [] p = "SAMSUNG" ->
               <<sendPulseDistanceWidth(SamsungProtocolConstants, SamsungWord(a, c)),
                 sendSamsungLGSpecialRepeat>>
          [] p = "SAMSUNG_LG" ->
               <<sendPulseDistanceWidth(SamsungProtocolConstants, a \o Checked(Byte(c, 0))),
                 sendSamsungLGSpecialRepeat>>
          [] p = "SAMSUNG48" ->
               Twice(sendPulseDistanceWidth(SamsungProtocolConstants,
                         a \o Checked(Byte(c, 0)) \o Checked(Byte(c, 1))))
          [] p = "SONY" ->
               Twice(sendPulseDistanceWidth(SonyProtocolConstants,
                         SubSeq(SubSeq(c, 1, 7) \o a, 1, d.numberOfBits)))
          [] p = "PANASONIC" -> sendKaseikyo(PANASONIC_VENDOR_ID_CODE, d)
          [] p = "KASEIKYO_JVC" -> sendKaseikyo(JVC_VENDOR_ID_CODE, d)
          [] p = "KASEIKYO_DENON" -> sendKaseikyo(DENON_VENDOR_ID_CODE, d)
          [] p = "KASEIKYO_SHARP" -> sendKaseikyo(SHARP_VENDOR_ID_CODE, d)
          [] p = "KASEIKYO_MITSUBISHI" -> sendKaseikyo(MITSUBISHI_VENDOR_ID_CODE, d)
          [] p = "DENON" -> sendDenon(DenonWord(a, c, FALSE))
          [] p = "SHARP" -> sendDenon(DenonWord(a, c, TRUE))
          [] p = "LG" ->
               <<sendPulseDistanceWidth(LGProtocolConstants,
                     computeLGRawDataAndChecksum(a, LGCommand(c))), sendNECSpecialRepeat>>
          [] p = "JVC" -> sendJVC(Byte(a, 0) \o Byte(c, 0))
          [] p = "RC5" -> Twice(sendBiphaseData(RC5_UNIT, RC5Word(a, c, toggle)))
          [] p = "RC6" -> Twice(RC6Frame(RC6Word(a, c, toggle)))
          [] p = "BOSEWAVE" ->
               Twice(sendPulseDistanceWidth(BoseWaveProtocolConstants, Checked(Byte(c, 0))))
          [] p = "FAST" ->
               Twice(sendPulseDistanceWidth(FASTProtocolConstants, Checked(Byte(c, 0))))
          [] p = "MAGIQUEST" -> <<MagiQuestFrame(Widen(d.raw, 31), SubSeq(c, 1, 9))>>
          [] p = "LEGO_PF" ->
               LET frame == sendPulseDistanceWidth(LegoProtocolConstants,
                                LegoWord(SubSeq(a, 1, 4), SubSeq(c, 1, 4), SubSeq(c, 5, 8)))
               IN  [i \in 1..(IF d.isRepeat THEN 5 ELSE 1) |-> frame]
          [] p = "PULSE_DISTANCE" -> Mid_IrSendPulseDistance(d)
          [] OTHER -> <<>>

(* RC5 and RC6 share one toggle; a code learned from a repeat is sent with *)
(* the toggle bit clear and leaves it alone.                               *)
UsesToggle(d) == d.protocol \in {"RC5", "RC6"} /\ ~d.isRepeat
=============================================================================
