---------------------------- MODULE IrDecoders ----------------------------
(***************************************************************************)
(* The decoders of the infrared codes, in the order in which               *)
(* Mid_IrRemoteDecode tries them: the first one whose checks pass takes    *)
(* the frame, the last one takes every frame.                              *)
(*                                                                         *)
(* rx is the received frame: "pause", the ticks before it, and "ticks", its*)
(* marks and spaces in turn.  last is decodedIRData as the frame before    *)
(* left it: the short frames that repeat a key carry no code, and stand    *)
(* for the last one, whatever and whenever it was.                         *)
(*                                                                         *)
(* Whether a frame is flagged as a repeat matters to the senders of RC5,   *)
(* RC6 and LEGO_PF only, so that of Denon, which counts frames, and the    *)
(* parity flags, which nobody reads, are left out.                         *)
(***************************************************************************)
EXTENDS IrPulse

NoTiming == Timing(0, 0, 0, 0, 0, 0, FALSE)

(* What Ir_RemoteInitDecodedIRData leaves before the decoders run.  The    *)
(* code keeps the timings of an earlier frame: they are read for a code of *)
(* PULSE_DISTANCE only, and its decoder has set them.                      *)
Blank ==
    [protocol |-> "UNKNOWN", address |-> Zeros(16), command |-> Zeros(16),
     raw |-> Zeros(32), numberOfBits |-> 0, isRepeat |-> FALSE, timing |-> NoTiming]

Code(protocol, address, command, raw, numberOfBits, isRepeat) ==
    [Blank EXCEPT !.protocol = protocol, !.address = Widen(address, 16),
                  !.command = Widen(command, 16), !.raw = raw,
                  !.numberOfBits = numberOfBits, !.isRepeat = isRepeat]

(* A frame without a code of its own.                                      *)
LastAgain_NoCommand(protocol, last) ==
    Code(protocol, last.address, <<>>, Zeros(32), 0, TRUE)

LastAgain(protocol, last) ==
    Code(protocol, last.address, last.command, Zeros(32), 0, TRUE)

(* A frame of n bits between a header and a stop mark.                     *)
FrameLength(n) == 2 * n + 4
HasHeaderAndBits(rx, c, n) == rawlen(rx) = FrameLength(n) /\ checkHeader(rx, c)
StopMark(rx, us) == matchMark(rx.ticks[Len(rx.ticks)], us)

(* The pause before a frame that is taken for a repeat.                    *)
checkForRepeat(rx, micros) == rx.pause < micros \div MICROS_PER_TICK

----------------------------------------------------------------------------
(* NEC, Onkyo and Apple.                                                   *)

IsShortRepeat(rx, headerMark, headerSpace, bitMark) ==
    /\ rawlen(rx) = 4
    /\ matchMark(rx.ticks[1], headerMark)
    /\ matchSpace(rx.ticks[2], headerSpace)
    /\ matchMark(rx.ticks[3], bitMark)

IsNec_AnyHeader(rx) == IsShortRepeat(rx, 8960, 2240, 560) \/ rawlen(rx) = FrameLength(32)

IsNec(rx) == \/ IsShortRepeat(rx, 8960, 2240, 560)
             \/ HasHeaderAndBits(rx, NECProtocolConstants, 32)

IsChecked(w, k) == Byte(w, k + 1) = Inverted(Byte(w, k))

NecProtocol(w) ==
    IF SubSeq(w, 1, 16) = APPLE_ADDRESS THEN "APPLE"
    ELSE IF IsChecked(w, 2) THEN "NEC" ELSE "ONKYO"

decodeNec(rx, last) ==
    LET w == decodePulseDistanceWidthData(rx, NECProtocolConstants, 32, 3)
        short == checkForRepeat(rx, 70100)
        protocol == NecProtocol(w)
        address == IF protocol = "APPLE" THEN Byte(w, 3)
                   ELSE IF IsChecked(w, 0) THEN Byte(w, 0) ELSE SubSeq(w, 1, 16)
        command == IF protocol = "ONKYO" THEN SubSeq(w, 17, 32) ELSE Byte(w, 2)
    IN  IF rawlen(rx) = 4 THEN LastAgain(last.protocol, last)
        ELSE Code(IF short THEN "NEC2" ELSE protocol, address, command, w, 32, short)

----------------------------------------------------------------------------
(* Kaseikyo, the protocol of several vendors.                              *)

IsKaseikyo(rx) == HasHeaderAndBits(rx, KaseikyoProtocolConstants, 48)

KaseikyoProtocol(vendor) ==
    CASE vendor = PANASONIC_VENDOR_ID_CODE -> "PANASONIC"
      [] vendor = SHARP_VENDOR_ID_CODE -> "KASEIKYO_SHARP"
      [] vendor = DENON_VENDOR_ID_CODE -> "KASEIKYO_DENON"
      [] vendor = JVC_VENDOR_ID_CODE -> "KASEIKYO_JVC"
      [] vendor = MITSUBISHI_VENDOR_ID_CODE -> "KASEIKYO_MITSUBISHI"
      [] OTHER -> "KASEIKYO"

decodeKaseikyo(rx) ==
    LET w == decodePulseDistanceWidthData(rx, KaseikyoProtocolConstants, 48, 3)
    IN  Code(KaseikyoProtocol(SubSeq(w, 1, 16)), SubSeq(w, 21, 32), Byte(w, 4),
             SubSeq(w, 17, 48), 48, checkForRepeat(rx, 92500))

----------------------------------------------------------------------------
(* Denon and Sharp have no header.  The frame that follows another after   *)
(* 45 milliseconds is the other one inverted.                              *)

IsDenon(rx) == rawlen(rx) = 32 /\ StopMark(rx, 260)

decodeDenon(rx, last) ==
    LET w == decodePulseDistanceWidthData(rx, DenonProtocolConstants, 15, 1)
        frameBits == <<w[14], w[15]>>
        follows == checkForRepeat(rx, 56250)
        sharp == frameBits = <<0, 1>> \/ (follows /\ frameBits = <<1, 0>>)
        command == IF follows /\ w[14] = 1 THEN last.command ELSE SubSeq(w, 6, 13)
    IN  Code(IF sharp THEN "SHARP" ELSE "DENON", SubSeq(w, 1, 5), command, w, 15, FALSE)

----------------------------------------------------------------------------
(* Sony has no stop mark: its bits are told by their marks.                *)

SonyBits == {12, 15, 20}
IsSony(rx) ==
    checkHeader(rx, SonyProtocolConstants) /\ \E n \in SonyBits: rawlen(rx) = 2 * n + 2

decodeSony(rx) ==
    LET n == (rawlen(rx) - 1) \div 2
        w == decodePulseDistanceWidthData(rx, SonyProtocolConstants, n, 3)
    IN  Code("SONY", SubSeq(w, 8, n), SubSeq(w, 1, 7), w, n, checkForRepeat(rx, 24000))

----------------------------------------------------------------------------
(* RC5 and RC6.  The condition on the length of the frame that stands      *)
(* before each asks for a length below a minimum and above a maximum, so   *)
(* that it never refuses one.  After the end of the frame the level is a   *)
(* space.                                                                  *)

Level(levels, i) == IF i <= Len(levels) THEN levels[i] ELSE SPACE

RC5BitCount(levels) == Len(levels) \div 2

IsRC5(rx) ==
    LET levels == BiphaseLevels(rx, 1, RC5_UNIT)
    IN  /\ BiphaseInTime(rx, 1, RC5_UNIT)
        /\ \A k \in 1..RC5BitCount(levels): Level(levels, 2 * k) # Level(levels, 2 * k + 1)

decodeRC5(rx) ==
    LET levels == BiphaseLevels(rx, 1, RC5_UNIT)
        n == RC5BitCount(levels)
        w == [k \in 1..n |-> 1 - Level(levels, 2 * (n + 1 - k))]
        d == Widen(w, 16)
        extended == IF d[13] = 0 THEN 1 ELSE 0
    IN  Code("RC5", SubSeq(d, 7, 11), SubSeq(d, 1, 6) \o <<extended>>, w, n,
             checkForRepeat(rx, 125571))

(* Bit k, counted from 0, of RC6 starts and ends at these levels: the      *)
(* start bit comes first, and the toggle bit 3 is twice as wide.           *)
RC6Start(k) == IF k <= 3 THEN 2 * k + 3 ELSE 2 * k + 5
RC6End(k) == IF k < 3 THEN 2 * k + 4 ELSE 2 * k + 6
RC6BitCount(levels) == Cardinality({k \in 0..Len(levels): RC6Start(k) <= Len(levels)})

IsRC6(rx) ==
    LET levels == BiphaseLevels(rx, 3, RC6_UNIT)
        n == RC6BitCount(levels)
    IN  /\ rawlen(rx) > 3
        /\ matchMark(rx.ticks[1], 6 * RC6_UNIT) /\ matchSpace(rx.ticks[2], 2 * RC6_UNIT)
        /\ BiphaseInTime(rx, 3, RC6_UNIT)
        /\ Level(levels, 2) = SPACE
        /\ \A k \in 0..(n - 1): Level(levels, RC6Start(k)) # Level(levels, RC6End(k))
        /\ n > 3 => /\ Level(levels, 9) = Level(levels, 10)
                    /\ Level(levels, 11) = Level(levels, 12)

decodeRC6(rx) ==
    LET levels == BiphaseLevels(rx, 3, RC6_UNIT)
        n == RC6BitCount(levels)
        w == [k \in 1..n |-> Level(levels, RC6Start(n - k))]
        d == Widen(w, 16)
    IN  Code("RC6", IF n < 36 THEN Byte(d, 1) ELSE SubSeq(d, 9, 15), Byte(d, 0), w, n,
             checkForRepeat(rx, 133750))

----------------------------------------------------------------------------
(* LG; the header mark of LG2 is in the range of the one of LG.            *)

LGConstants(rx) ==
    IF matchMark(rx.ticks[1], 9000) THEN LGProtocolConstants ELSE LG2ProtocolConstants

IsLG(rx) == \/ IsShortRepeat(rx, LGConstants(rx).headerMark, 2000, 500)
            \/ HasHeaderAndBits(rx, LGConstants(rx), 28)

decodeLG(rx, last) ==
    LET w == decodePulseDistanceWidthData(rx, LGProtocolConstants, 28, 3)
        protocol == IF LGConstants(rx) = LGProtocolConstants THEN "LG" ELSE "LG2"
    IN  IF rawlen(rx) = 4 THEN LastAgain(last.protocol, last)
        ELSE Code(protocol, SubSeq(w, 21, 28), SubSeq(w, 5, 20), w, 28, FALSE)

----------------------------------------------------------------------------
(* JVC repeats a key without the header.  Any frame of that length is      *)
(* taken, and is unknown unless it looks like such a repeat; the pause     *)
(* before it is compared with a number of microseconds.                    *)

IsJVC(rx) == rawlen(rx) = 34 \/ HasHeaderAndBits(rx, JVCProtocolConstants, 16)

decodeJVC(rx, last) ==
    LET w == decodePulseDistanceWidthData(rx, JVCProtocolConstants, 16, 3)
        repeats == rx.pause < 23788 /\ matchMark(rx.ticks[1], 526) /\ StopMark(rx, 526)
    IN  CASE rawlen(rx) # 34 -> Code("JVC", Byte(w, 0), Byte(w, 1), w, 16, FALSE)
          [] rawlen(rx) = 34 /\ repeats -> LastAgain("JVC", last)
          [] rawlen(rx) = 34 /\ ~repeats -> Blank

----------------------------------------------------------------------------
(* Samsung with 32 and 48 bits, and the repeat of six entries.             *)

IsSamsung(rx) == rawlen(rx) \in {6, 68, 100} /\ checkHeader(rx, SamsungProtocolConstants)

(* Of 48 bits the last 16 are kept as the raw word.                        *)
SamsungRaw(n, w) == IF n = 48 THEN SubSeq(w, 33, 48) ELSE w

decodeSamsung(rx, last) ==
    LET c == SamsungProtocolConstants
        n == (rawlen(rx) - 4) \div 2
        w == decodePulseDistanceWidthData(rx, c, n, 3)
        command == IF n = 48 THEN Byte(w, 2) \o Byte(w, 4)
                   ELSE IF IsChecked(w, 2) THEN Byte(w, 2) ELSE SubSeq(w, 17, 32)
    IN  IF rawlen(rx) = 6 THEN LastAgain("SAMSUNG_LG", last)
        ELSE Code(IF n = 48 THEN "SAMSUNG48" ELSE "SAMSUNG", SubSeq(w, 1, 16), command,
                  SamsungRaw(n, w), n, checkForRepeat(rx, 68750))

----------------------------------------------------------------------------
(* The rarer protocols of a fixed length.                                  *)

IsFAST(rx) == HasHeaderAndBits(rx, FASTProtocolConstants, 16)
decodeFAST(rx) ==
    LET w == decodePulseDistanceWidthData(rx, FASTProtocolConstants, 16, 3)
    IN  Code("FAST", <<>>, Byte(w, 0), w, 16, checkForRepeat(rx, 31070))

IsWhynter(rx) == HasHeaderAndBits(rx, WhynterProtocolConstants, 32)
decodeWhynter(rx) ==
    LET w == decodePulseDistanceWidthData(rx, WhynterProtocolConstants, 32, 3)
    IN  Code("WHYNTER", <<>>, <<>>, w, 32, FALSE)

IsLego(rx) == HasHeaderAndBits(rx, LegoProtocolConstants, 16) /\ StopMark(rx, 158)
decodeLegoPowerFunctions(rx) ==
    LET w == decodePulseDistanceWidthData(rx, LegoProtocolConstants, 16, 3)
    IN  Code("LEGO_PF", SubSeq(w, 13, 16), SubSeq(w, 5, 12), w, 16, FALSE)

IsBoseWave(rx) ==
    /\ HasHeaderAndBits(rx, BoseWaveProtocolConstants, 16)
    /\ StopMark(rx, 520)
    /\ IsChecked(decodePulseDistanceWidthData(rx, BoseWaveProtocolConstants, 16, 3), 0)
decodeBoseWave(rx) ==
    LET w == decodePulseDistanceWidthData(rx, BoseWaveProtocolConstants, 16, 3)
    IN  Code("BOSEWAVE", <<>>, Byte(w, 0), w, 16, checkForRepeat(rx, 62000))

IsMagiQuest(rx) ==
    /\ rawlen(rx) = 112
    /\ decodePulseDistanceWidthData(rx, MagiQuestProtocolConstants, 8, 1) = Zeros(8)
decodeMagiQuest(rx) ==
    LET c == MagiQuestProtocolConstants
        id == decodePulseDistanceWidthData(rx, c, 31, 17)
        rest == decodePulseDistanceWidthData(rx, c, 17, 79)
    IN  Code("MAGIQUEST", SubSeq(id, 1, 16), SubSeq(rest, 9, 17), id, 56, FALSE)

----------------------------------------------------------------------------
(* Any protocol of pulse distance or pulse width: its timings are those of *)
(* the frame.  The durations after the header, up to the last mark, are    *)
(* sorted into bins of neighbouring tick counts.  The counts are bytes:    *)
(* this holds for frames of up to 255 bits.                                *)

DURATION_ARRAY_SIZE == 50

Entries(rx, first) == {i \in first..(Len(rx.ticks) - 2): (i - first) % 2 = 0}

(* The rounded mean of each run of neighbouring tick counts.               *)
aggregateArrayCounts(rx, entries) ==
    LET used == {rx.ticks[i] : i \in entries}
        starts == SelectSeq([v \in 1..(DURATION_ARRAY_SIZE - 1) |-> v],
                            LAMBDA v: v \in used /\ v - 1 \notin used)
        inBin(v) == {i \in entries: rx.ticks[i] >= v /\ v..rx.ticks[i] \subseteq used}
        mean(bin) == (MapThenSumSet(LAMBDA i: rx.ticks[i], bin) + Cardinality(bin) \div 2)
                        \div Cardinality(bin)
    IN  [k \in DOMAIN starts |-> mean(inBin(starts[k]))]

MarkBins(rx) == aggregateArrayCounts(rx, Entries(rx, 3))
SpaceBins(rx) == aggregateArrayCounts(rx, Entries(rx, 4))

IsDistanceWidth(rx) ==
    /\ rawlen(rx) >= FrameLength(8)
    /\ \A i \in 3..(Len(rx.ticks) - 2): rx.ticks[i] < DURATION_ARRAY_SIZE
    /\ LET marks == Len(MarkBins(rx))
           spaces == Len(SpaceBins(rx))
       IN  marks <= 2 /\ spaces <= 2 /\ (marks = 2 \/ spaces = 2)

(* The timings with which such a frame is sent again.                      *)
DistanceWidthTimingInfo(rx) ==
    LET us(ticks) == ticks * MICROS_PER_TICK
        marks == MarkBins(rx)
        spaces == SpaceBins(rx)
        byMark == Len(marks) = 2
    IN  Timing(us(rx.ticks[1]), us(rx.ticks[2]),
               us(Last(marks)), IF byMark THEN us(spaces[1]) ELSE us(Last(spaces)),
               us(marks[1]), IF byMark THEN us(Last(spaces)) ELSE us(spaces[1]), FALSE)

decodeDistanceWidth(rx) ==
    LET c == DistanceWidthTimingInfo(rx)
        byMark == c.oneMark # c.zeroMark
        n == rawlen(rx) \div 2 - (IF byMark THEN 1 ELSE 2)
        w == decodePulseDistanceWidthData(rx, c, n, 3)
    IN  [Code(IF byMark THEN "PULSE_WIDTH" ELSE "PULSE_DISTANCE", <<>>, <<>>, w, n,
              checkForRepeat(rx, 100000)) EXCEPT !.timing = c]

----------------------------------------------------------------------------
(* Mid_IrRemoteDecode: the decoders in turn.  The last one, decodeHash,    *)
(* leaves the protocol unknown, and so does a frame too short for it.      *)

DecodeOrder ==
    <<"Nec", "Kaseikyo", "Denon", "Sony", "RC5", "RC6", "LG", "JVC", "Samsung", "FAST",
      "Whynter", "Lego", "BoseWave", "MagiQuest", "DistanceWidth", "Hash">>

Takes(decoder, rx) ==
    CASE decoder = "Nec" -> IsNec(rx)
      [] decoder = "Kaseikyo" -> IsKaseikyo(rx)
      [] decoder = "Denon" -> IsDenon(rx)
      [] decoder = "Sony" -> IsSony(rx)
      [] decoder = "RC5" -> IsRC5(rx)
      [] decoder = "RC6" -> IsRC6(rx)
      [] decoder = "LG" -> IsLG(rx)
      [] decoder = "JVC" -> IsJVC(rx)
      [] decoder = "Samsung" -> IsSamsung(rx)
      [] decoder = "FAST" -> IsFAST(rx)
      [] decoder = "Whynter" -> IsWhynter(rx)
      [] decoder = "Lego" -> IsLego(rx)
      [] decoder = "BoseWave" -> IsBoseWave(rx)
      [] decoder = "MagiQuest" -> IsMagiQuest(rx)
      [] decoder = "DistanceWidth" -> IsDistanceWidth(rx)
      [] decoder = "Hash" -> TRUE

FirstToTake(rx) ==
    DecodeOrder[CHOOSE i \in DOMAIN DecodeOrder:
                  /\ Takes(DecodeOrder[i], rx)
                  /\ \A j \in 1..(i - 1): ~Takes(DecodeOrder[j], rx)]

Mid_IrRemoteDecode(rx, last) ==
    LET decoder == FirstToTake(rx)
    IN  CASE decoder = "Nec" -> decodeNec(rx, last)
          [] decoder = "Kaseikyo" -> decodeKaseikyo(rx)
          [] decoder = "Denon" -> decodeDenon(rx, last)
          [] decoder = "Sony" -> decodeSony(rx)
          [] decoder = "RC5" -> decodeRC5(rx)
          [] decoder = "RC6" -> decodeRC6(rx)
          [] decoder = "LG" -> decodeLG(rx, last)
          [] decoder = "JVC" -> decodeJVC(rx, last)
          [] decoder = "Samsung" -> decodeSamsung(rx, last)
          [] decoder = "FAST" -> decodeFAST(rx)
          [] decoder = "Whynter" -> decodeWhynter(rx)
          [] decoder = "Lego" -> decodeLegoPowerFunctions(rx)
          [] decoder = "BoseWave" -> decodeBoseWave(rx)
          [] decoder = "MagiQuest" -> decodeMagiQuest(rx)
          [] decoder = "DistanceWidth" -> decodeDistanceWidth(rx)
          [] decoder = "Hash" -> Blank
=============================================================================
