------------------------- MODULE IrEmission_proofs -------------------------
(***************************************************************************)
(* Proofs about IrRelay: what it emits is read by an appliance that        *)
(* decodes as it does, and means the key that was learned.                 *)
(*                                                                         *)
(* Sent for a decoded code is a frame that is read as that code, and then  *)
(* one that is read as it again (EmissionRepeats).  For each protocol the  *)
(* word that the sender builds of address and command is the word the      *)
(* decoder read (the lemmas that end in Back), unless the code is Lossy,   *)
(* and the frame of the held key is read as the code before it; so a key   *)
(* of which all this holds (StandsFor), and every Genuine one is such a    *)
(* key, is sent as one of its own frames after its first frame and after   *)
(* the next (GoodInv).                                                     *)
(***************************************************************************)
EXTENDS IrRelay_proofs

----------------------------------------------------------------------------
(* What each frame is decoded to: the code that its word carries, whatever *)
(* the pause before it and whatever was decoded before.                    *)

HasCode(d, p, a, c, raw, n) ==
  /\ d.protocol = p /\ d.address = Widen(a, 16) /\ d.command = Widen(c, 16)
  /\ d.raw = raw /\ d.numberOfBits = n

LEMMA CodeHas ==
  ASSUME NEW p, NEW a, NEW c, NEW raw, NEW n, NEW rep
  PROVE  HasCode(Code(p, a, c, raw, n, rep), p, a, c, raw, n)
BY CodeFields, SMT DEF HasCode

LEMMA FirstCodeHas ==
  ASSUME NEW p, NEW a, NEW c, NEW raw, NEW n
  PROVE  HasCode(Code(p, a, c, raw, n, FALSE), p, a, c, raw, n)
BY DEF HasCode, Code, Blank

(* The address and the command of a word of NEC.                           *)
NecAddress(w) == IF NecProtocol(w) = "APPLE" THEN Byte(w, 3)
                 ELSE IF IsChecked(w, 0) THEN Byte(w, 0) ELSE SubSeq(w, 1, 16)
NecCommand(w) == IF NecProtocol(w) = "ONKYO" THEN SubSeq(w, 17, 32) ELSE Byte(w, 2)

LEMMA NecDecoded ==
  ASSUME NEW w \in Word(32), NEW last,
         NEW rx, Sampled(sendPulseDistanceWidth(NECProtocolConstants, w), rx.ticks)
  PROVE  \E p \in {"NEC2", NecProtocol(w)} :
           HasCode(Mid_IrRemoteDecode(rx, last), p, NecAddress(w), NecCommand(w), w, 32)
<1> DEFINE u == decodePulseDistanceWidthData(rx, NECProtocolConstants, 32, 3)
           short == checkForRepeat(rx, 70100)
           p == IF short THEN "NEC2" ELSE NecProtocol(w)
           code == Code(p, NecAddress(w), NecCommand(w), w, 32, short)
<1>1. FirstToTake(rx) = "Nec" /\ rawlen(rx) = 68 /\ u = w
  BY NECRead
<1> DEFINE protocol == NecProtocol(u)
           address == IF protocol = "APPLE" THEN Byte(u, 3)
                      ELSE IF IsChecked(u, 0) THEN Byte(u, 0) ELSE SubSeq(u, 1, 16)
           command == IF protocol = "ONKYO" THEN SubSeq(u, 17, 32) ELSE Byte(u, 2)
<1>2. decodeNec(rx, last)
        = IF rawlen(rx) = 4 THEN LastAgain(last.protocol, last)
          ELSE Code(IF short THEN "NEC2" ELSE protocol, address, command, u, 32, short)
  BY SMT DEF decodeNec
<1>3. address = NecAddress(u) /\ command = NecCommand(u)
  <2> HIDE DEF u
  <2> QED BY Zenon DEF NecAddress, NecCommand
<1>4. HasCode(code, p, NecAddress(w), NecCommand(w), w, 32)
  <2> HIDE DEF p, short
  <2> QED BY CodeHas, Zenon
<1>5. p \in {"NEC2", NecProtocol(w)}
  <2> HIDE DEF short
  <2> QED BY Zenon
<1> HIDE DEF u, short, address, command
<1>6. decodeNec(rx, last) = code
  BY <1>1, <1>2, <1>3
<1> HIDE DEF p, code
<1>7. Mid_IrRemoteDecode(rx, last) = code
  BY <1>1, <1>6, Dispatched, Zenon
<1> QED BY <1>4, <1>5, <1>7, Zenon

LEMMA KaseikyoDecoded ==
  ASSUME NEW w \in Word(48), NEW last,
         NEW rx, Sampled(sendPulseDistanceWidth(KaseikyoProtocolConstants, w), rx.ticks)
  PROVE  HasCode(Mid_IrRemoteDecode(rx, last), KaseikyoProtocol(SubSeq(w, 1, 16)),
                 SubSeq(w, 21, 32), Byte(w, 4), SubSeq(w, 17, 48), 48)
<1> DEFINE u == decodePulseDistanceWidthData(rx, KaseikyoProtocolConstants, 48, 3)
           rep == checkForRepeat(rx, 92500)
           code(v) == Code(KaseikyoProtocol(SubSeq(v, 1, 16)), SubSeq(v, 21, 32), Byte(v, 4),
                           SubSeq(v, 17, 48), 48, rep)
<1>1. FirstToTake(rx) = "Kaseikyo" /\ u = w
  BY KaseikyoRead
<1>2. decodeKaseikyo(rx) = code(u)
  BY SMT DEF decodeKaseikyo
<1>3. HasCode(code(w), KaseikyoProtocol(SubSeq(w, 1, 16)), SubSeq(w, 21, 32), Byte(w, 4),
              SubSeq(w, 17, 48), 48)
  <2> HIDE DEF rep
  <2> QED BY CodeHas, Zenon
<1> HIDE DEF u, code
<1>4. Mid_IrRemoteDecode(rx, last) = code(w)
  BY <1>1, <1>2, Dispatched, Zenon
<1> QED BY <1>3, <1>4, Zenon

(* The two bits that Denon and Sharp differ in, and the rest of the word.  *)
LEMMA DenonDecoded ==
  ASSUME NEW w \in Word(15), NEW last, NEW rx, rx.pause \in Nat,
         Sampled(sendPulseDistanceWidthData(DenonProtocolConstants, w), rx.ticks)
  PROVE  LET d == Mid_IrRemoteDecode(rx, last)
         IN  /\ w[14] = 0 =>
                  HasCode(d, IF w[15] = 1 THEN "SHARP" ELSE "DENON", SubSeq(w, 1, 5),
                          SubSeq(w, 6, 13), w, 15)
             /\ w[14] = 1 /\ rx.pause < 1125 =>
                  HasCode(d, IF w[15] = 0 THEN "SHARP" ELSE "DENON", SubSeq(w, 1, 5),
                          last.command, w, 15)
<1> DEFINE u == decodePulseDistanceWidthData(rx, DenonProtocolConstants, 15, 1)
           follows == checkForRepeat(rx, 56250)
           sharp(v) == <<v[14], v[15]>> = <<0, 1>> \/ (follows /\ <<v[14], v[15]>> = <<1, 0>>)
           p(v) == IF sharp(v) THEN "SHARP" ELSE "DENON"
           c(v) == IF follows /\ v[14] = 1 THEN last.command ELSE SubSeq(v, 6, 13)
           code(v) == Code(p(v), SubSeq(v, 1, 5), c(v), v, 15, FALSE)
<1>1. FirstToTake(rx) = "Denon" /\ u = w
  BY DenonRead
<1>2. decodeDenon(rx, last) = code(u)
  BY SMT DEF decodeDenon
<1>3. HasCode(code(w), p(w), SubSeq(w, 1, 5), c(w), w, 15)
  <2> HIDE DEF p, c
  <2> QED BY FirstCodeHas, Zenon
<1>4. w[14] \in {0, 1} /\ w[15] \in {0, 1}
  BY DEF Word, Bit
<1>5. rx.pause < 1125 => follows
  BY DEF checkForRepeat, MICROS_PER_TICK
<1>6. w[14] = 0 => p(w) = (IF w[15] = 1 THEN "SHARP" ELSE "DENON") /\ c(w) = SubSeq(w, 6, 13)
  <2> HIDE DEF follows
  <2> QED BY <1>4
<1>7. w[14] = 1 /\ follows
        => p(w) = (IF w[15] = 0 THEN "SHARP" ELSE "DENON") /\ c(w) = last.command
  <2> HIDE DEF follows
  <2> QED BY <1>4
<1> HIDE DEF u, code
<1>8. Mid_IrRemoteDecode(rx, last) = code(w)
  BY <1>1, <1>2, Dispatched, Zenon
<1> HIDE DEF p, c, follows
<1> QED BY <1>3, <1>5, <1>6, <1>7, <1>8, ZenonT(30)

LEMMA SonyDecoded ==
  ASSUME NEW n \in {12, 15, 20}, NEW w \in Word(n), NEW last,
         NEW rx, Sampled(sendPulseDistanceWidth(SonyProtocolConstants, w), rx.ticks)
  PROVE  HasCode(Mid_IrRemoteDecode(rx, last), "SONY", SubSeq(w, 8, n), SubSeq(w, 1, 7), w, n)
<1> DEFINE u(m) == decodePulseDistanceWidthData(rx, SonyProtocolConstants, m, 3)
           rep == checkForRepeat(rx, 24000)
           code(m, v) == Code("SONY", SubSeq(v, 8, m), SubSeq(v, 1, 7), v, m, rep)
<1>1. FirstToTake(rx) = "Sony" /\ rawlen(rx) = 2 * n + 2 /\ u(n) = w
  BY SonyRead
<1>2. decodeSony(rx) = code((rawlen(rx) - 1) \div 2, u((rawlen(rx) - 1) \div 2))
  BY SMT DEF decodeSony
<1>3. (rawlen(rx) - 1) \div 2 = n
  BY <1>1
<1>4. HasCode(code(n, w), "SONY", SubSeq(w, 8, n), SubSeq(w, 1, 7), w, n)
  <2> HIDE DEF rep
  <2> QED BY CodeHas, Zenon
<1> HIDE DEF u, code
<1>5. decodeSony(rx) = code(n, w)
  BY <1>1, <1>2, <1>3
<1>6. Mid_IrRemoteDecode(rx, last) = code(n, w)
  BY <1>1, <1>5, Dispatched, Zenon
<1> QED BY <1>4, <1>6, Zenon

LEMMA LGDecoded ==
  ASSUME NEW w \in Word(28), NEW last,
         NEW rx, Sampled(sendPulseDistanceWidth(LGProtocolConstants, w), rx.ticks)
  PROVE  HasCode(Mid_IrRemoteDecode(rx, last), "LG", SubSeq(w, 21, 28), SubSeq(w, 5, 20), w, 28)
<1> DEFINE u == decodePulseDistanceWidthData(rx, LGProtocolConstants, 28, 3)
           code(v) == Code("LG", SubSeq(v, 21, 28), SubSeq(v, 5, 20), v, 28, FALSE)
<1>1. /\ FirstToTake(rx) = "LG" /\ rawlen(rx) = 60 /\ u = w
      /\ LGConstants(rx) = LGProtocolConstants
  BY LGRead
<1>2. rawlen(rx) # 4
  BY <1>1
<1>3. decodeLG(rx, last) = code(u)
  BY <1>1, <1>2, Zenon DEF decodeLG
<1>4. HasCode(code(w), "LG", SubSeq(w, 21, 28), SubSeq(w, 5, 20), w, 28)
  BY FirstCodeHas, Zenon
<1> HIDE DEF u, code
<1>5. Mid_IrRemoteDecode(rx, last) = code(w)
  BY <1>1, <1>3, Dispatched, Zenon
<1> QED BY <1>4, <1>5, Zenon

LEMMA JVCDecoded ==
  ASSUME NEW w \in Word(16), NEW last,
         NEW rx, Sampled(sendPulseDistanceWidth(JVCProtocolConstants, w), rx.ticks)
  PROVE  HasCode(Mid_IrRemoteDecode(rx, last), "JVC", Byte(w, 0), Byte(w, 1), w, 16)
<1> DEFINE u == decodePulseDistanceWidthData(rx, JVCProtocolConstants, 16, 3)
           repeats == rx.pause < 23788 /\ matchMark(rx.ticks[1], 526) /\ StopMark(rx, 526)
           code(v) == Code("JVC", Byte(v, 0), Byte(v, 1), v, 16, FALSE)
<1>1. FirstToTake(rx) = "JVC" /\ rawlen(rx) = 36 /\ u = w
  BY JVCRead
<1>2. rawlen(rx) # 34
  BY <1>1
<1>3. decodeJVC(rx, last)
        = CASE rawlen(rx) # 34 -> code(u)
            [] rawlen(rx) = 34 /\ repeats -> LastAgain("JVC", last)
            [] rawlen(rx) = 34 /\ ~repeats -> Blank
  BY SMT DEF decodeJVC
<1>4. HasCode(code(w), "JVC", Byte(w, 0), Byte(w, 1), w, 16)
  BY FirstCodeHas, Zenon
<1> HIDE DEF u, code, repeats
<1>5. decodeJVC(rx, last) = code(w)
  BY <1>1, <1>2, <1>3
<1>6. Mid_IrRemoteDecode(rx, last) = code(w)
  BY <1>1, <1>5, Dispatched, Zenon
<1> QED BY <1>4, <1>6, Zenon

SamsungCommand(n, w) ==
  IF n = 48 THEN Byte(w, 2) \o Byte(w, 4)
  ELSE IF IsChecked(w, 2) THEN Byte(w, 2) ELSE SubSeq(w, 17, 32)

LEMMA SamsungDecoded ==
  ASSUME NEW n \in {32, 48}, NEW w \in Word(n), NEW last,
         NEW rx, Sampled(sendPulseDistanceWidth(SamsungProtocolConstants, w), rx.ticks)
  PROVE  HasCode(Mid_IrRemoteDecode(rx, last), IF n = 48 THEN "SAMSUNG48" ELSE "SAMSUNG",
                 SubSeq(w, 1, 16), SamsungCommand(n, w), SamsungRaw(n, w), n)
<1> DEFINE u(m) == decodePulseDistanceWidthData(rx, SamsungProtocolConstants, m, 3)
           rep == checkForRepeat(rx, 68750)
           m == (rawlen(rx) - 4) \div 2
           p(k) == IF k = 48 THEN "SAMSUNG48" ELSE "SAMSUNG"
           code(k, v) == Code(p(k), SubSeq(v, 1, 16), SamsungCommand(k, v), SamsungRaw(k, v), k,
                              rep)
<1>1. FirstToTake(rx) = "Samsung" /\ rawlen(rx) = 2 * n + 4 /\ u(n) = w
  BY SamsungRead
<1>2. decodeSamsung(rx, last)
        = IF rawlen(rx) = 6 THEN LastAgain("SAMSUNG_LG", last) ELSE code(m, u(m))
  BY SMT DEF decodeSamsung, SamsungCommand
<1>3. m = n /\ rawlen(rx) # 6
  BY <1>1
<1>4. HasCode(code(n, w), p(n), SubSeq(w, 1, 16), SamsungCommand(n, w), SamsungRaw(n, w), n)
  <2> HIDE DEF rep, p
  <2> QED BY CodeHas, Zenon
<1> HIDE DEF u, code, m
<1>5. decodeSamsung(rx, last) = code(n, w)
  BY <1>1, <1>2, <1>3
<1>6. Mid_IrRemoteDecode(rx, last) = code(n, w)
  BY <1>1, <1>5, Dispatched, Zenon
<1> QED BY <1>4, <1>6, Zenon

LEMMA FASTDecoded ==
  ASSUME NEW w \in Word(16), NEW last,
         NEW rx, Sampled(sendPulseDistanceWidth(FASTProtocolConstants, w), rx.ticks)
  PROVE  HasCode(Mid_IrRemoteDecode(rx, last), "FAST", <<>>, Byte(w, 0), w, 16)
<1> DEFINE u == decodePulseDistanceWidthData(rx, FASTProtocolConstants, 16, 3)
           rep == checkForRepeat(rx, 31070)
           code(v) == Code("FAST", <<>>, Byte(v, 0), v, 16, rep)
<1>1. FirstToTake(rx) = "FAST" /\ u = w
  BY FASTRead
<1>2. decodeFAST(rx) = code(u)
  BY SMT DEF decodeFAST
<1>3. HasCode(code(w), "FAST", <<>>, Byte(w, 0), w, 16)
  <2> HIDE DEF rep
  <2> QED BY CodeHas, Zenon
<1> HIDE DEF u, code
<1>4. Mid_IrRemoteDecode(rx, last) = code(w)
  BY <1>1, <1>2, Dispatched, Zenon
<1> QED BY <1>3, <1>4, Zenon

LEMMA BoseWaveDecoded ==
  ASSUME NEW w \in Word(16), IsChecked(w, 0), NEW last,
         NEW rx, Sampled(sendPulseDistanceWidth(BoseWaveProtocolConstants, w), rx.ticks)
  PROVE  HasCode(Mid_IrRemoteDecode(rx, last), "BOSEWAVE", <<>>, Byte(w, 0), w, 16)
<1> DEFINE u == decodePulseDistanceWidthData(rx, BoseWaveProtocolConstants, 16, 3)
           rep == checkForRepeat(rx, 62000)
           code(v) == Code("BOSEWAVE", <<>>, Byte(v, 0), v, 16, rep)
<1>1. FirstToTake(rx) = "BoseWave" /\ u = w
  BY BoseWaveRead
<1>2. decodeBoseWave(rx) = code(u)
  BY SMT DEF decodeBoseWave
<1>3. HasCode(code(w), "BOSEWAVE", <<>>, Byte(w, 0), w, 16)
  <2> HIDE DEF rep
  <2> QED BY CodeHas, Zenon
<1> HIDE DEF u, code
<1>4. Mid_IrRemoteDecode(rx, last) = code(w)
  BY <1>1, <1>2, Dispatched, Zenon
<1> QED BY <1>3, <1>4, Zenon

LEMMA WhynterDecoded ==
  ASSUME NEW w \in Word(32), NEW last,
         NEW rx, Sampled(sendPulseDistanceWidth(WhynterProtocolConstants, w), rx.ticks)
  PROVE  HasCode(Mid_IrRemoteDecode(rx, last), "WHYNTER", <<>>, <<>>, w, 32)
<1> DEFINE u == decodePulseDistanceWidthData(rx, WhynterProtocolConstants, 32, 3)
           code(v) == Code("WHYNTER", <<>>, <<>>, v, 32, FALSE)
<1>1. FirstToTake(rx) = "Whynter" /\ u = w
  BY WhynterRead
<1>2. decodeWhynter(rx) = code(u)
  BY SMT DEF decodeWhynter
<1>3. HasCode(code(w), "WHYNTER", <<>>, <<>>, w, 32)
  BY FirstCodeHas, Zenon
<1> HIDE DEF u, code
<1>4. Mid_IrRemoteDecode(rx, last) = code(w)
  BY <1>1, <1>2, Dispatched, Zenon
<1> QED BY <1>3, <1>4, Zenon

LEMMA LegoDecoded ==
  ASSUME NEW w \in Word(16), NEW last,
         NEW rx, Sampled(sendPulseDistanceWidth(LegoProtocolConstants, w), rx.ticks)
  PROVE  HasCode(Mid_IrRemoteDecode(rx, last), "LEGO_PF", SubSeq(w, 13, 16), SubSeq(w, 5, 12),
                 w, 16)
<1> DEFINE u == decodePulseDistanceWidthData(rx, LegoProtocolConstants, 16, 3)
           code(v) == Code("LEGO_PF", SubSeq(v, 13, 16), SubSeq(v, 5, 12), v, 16, FALSE)
<1>1. FirstToTake(rx) = "Lego" /\ u = w
  BY LegoRead
<1>2. decodeLegoPowerFunctions(rx) = code(u)
  BY SMT DEF decodeLegoPowerFunctions
<1>3. HasCode(code(w), "LEGO_PF", SubSeq(w, 13, 16), SubSeq(w, 5, 12), w, 16)
  BY FirstCodeHas, Zenon
<1> HIDE DEF u, code
<1>4. Mid_IrRemoteDecode(rx, last) = code(w)
  BY <1>1, <1>2, Dispatched, Zenon
<1> QED BY <1>3, <1>4, Zenon

----------------------------------------------------------------------------
(* The short frames that repeat a key.                                     *)

LEMMA ShortTicks ==
  ASSUME NEW rx, Sampled(sendNECSpecialRepeat, rx.ticks)
  PROVE  /\ rawlen(rx) = 4 /\ MarkTicks(8960, rx.ticks[1])
         /\ SpaceTicks(2240, rx.ticks[2]) /\ MarkTicks(560, rx.ticks[3])
<1> DEFINE f == sendNECSpecialRepeat
<1>1. Len(f) = 3 /\ f[1] = 8960 /\ f[2] = 2240 /\ f[3] = 560
  BY DEF sendNECSpecialRepeat
<1>2. /\ Len(rx.ticks) = 3
      /\ \A i \in 1 .. 3 : /\ i % 2 = 1 => MarkTicks(f[i], rx.ticks[i])
                           /\ i % 2 # 1 => SpaceTicks(f[i], rx.ticks[i])
  <2> HIDE DEF MarkTicks, SpaceTicks
  <2> QED BY <1>1, SMT DEF Sampled
<1>3. MarkTicks(f[1], rx.ticks[1]) /\ SpaceTicks(f[2], rx.ticks[2]) /\ MarkTicks(f[3], rx.ticks[3])
  <2>1. 1 % 2 = 1 /\ 2 % 2 # 1 /\ 3 % 2 = 1
    OBVIOUS
  <2> QED BY <1>2, <2>1
<1> QED BY <1>1, <1>2, <1>3 DEF rawlen

LEMMA ShortDecoded ==
  ASSUME NEW last, NEW rx, Sampled(sendNECSpecialRepeat, rx.ticks)
  PROVE  Mid_IrRemoteDecode(rx, last) = LastAgain(last.protocol, last)
<1>1. /\ rawlen(rx) = 4 /\ MarkTicks(8960, rx.ticks[1])
      /\ SpaceTicks(2240, rx.ticks[2]) /\ MarkTicks(560, rx.ticks[3])
  BY ShortTicks
<1>2. IsShortRepeat(rx, 8960, 2240, 560)
  BY <1>1 DEF IsShortRepeat, MarkTicks, SpaceTicks, matchMark, matchSpace, matchTicks, TICKS_LOW,
              TICKS_HIGH, MARK_EXCESS_MICROS
<1>3. FirstToTake(rx) = "Nec"
  <2>1. IsNec(rx)
    BY <1>2 DEF IsNec
  <2> QED BY <2>1, InTurn, Zenon
<1>4. decodeNec(rx, last) = LastAgain(last.protocol, last)
  BY <1>1 DEF decodeNec
<1> QED BY <1>3, <1>4, Dispatched, Zenon

LEMMA SamsungShortDecoded ==
  ASSUME NEW last, NEW rx, Sampled(sendSamsungLGSpecialRepeat, rx.ticks)
  PROVE  Mid_IrRemoteDecode(rx, last) = LastAgain("SAMSUNG_LG", last)
<1> DEFINE f == sendSamsungLGSpecialRepeat
<1>1. Len(f) = 5 /\ f[1] = 4480 /\ f[2] = 4480
  BY DEF sendSamsungLGSpecialRepeat
<1>2. Len(rx.ticks) = 5 /\ rawlen(rx) = 6
  BY <1>1 DEF Sampled, rawlen
<1>3. MarkTicks(4480, rx.ticks[1]) /\ SpaceTicks(4480, rx.ticks[2])
  <2>1. 1 % 2 = 1 /\ 2 % 2 # 1 /\ 1 \in 1 .. Len(f) /\ 2 \in 1 .. Len(f)
    BY <1>1
  <2> HIDE DEF f
  <2>2. MarkTicks(f[1], rx.ticks[1]) /\ SpaceTicks(f[2], rx.ticks[2])
    BY <2>1, Zenon DEF Sampled, f
  <2> QED BY <1>1, <2>2
<1> DEFINE t1 == rx.ticks[1]
<1>4. t1 \in Int /\ 88 < t1 /\ t1 < 92
  BY <1>3 DEF MarkTicks
<1>5. matchMark(t1, 4480) /\ matchSpace(rx.ticks[2], 4480) /\ ~matchMark(t1, 2664)
  BY <1>3, <1>4 DEF SpaceTicks, matchMark, matchSpace, matchTicks, TICKS_LOW, TICKS_HIGH,
                    MARK_EXCESS_MICROS
<1>6. /\ ~IsNec(rx) /\ ~IsKaseikyo(rx) /\ ~IsDenon(rx) /\ ~IsSony(rx) /\ ~IsLG(rx) /\ ~IsJVC(rx)
  BY <1>2, Refusals
<1>7. ~IsRC5(rx)
  <2>1. 1 \in 1 .. Len(rx.ticks) /\ Len(rx.ticks) \in Nat
    BY <1>2
  <2> QED BY <1>4, <2>1, NotRC5
<1>8. ~IsRC6(rx)
  BY <1>5, NotRC6
<1>9. IsSamsung(rx)
  <2>1. SamsungProtocolConstants.headerMark = 4480 /\ SamsungProtocolConstants.headerSpace = 4480
    BY SamsungTiming
  <2>2. checkHeader(rx, SamsungProtocolConstants)
    BY <1>2, <1>5, <2>1 DEF checkHeader
  <2> QED BY <1>2, <2>2 DEF IsSamsung
<1>10. FirstToTake(rx) = "Samsung"
  BY <1>6, <1>7, <1>8, <1>9, InTurn, Zenon
<1>11. decodeSamsung(rx, last) = LastAgain("SAMSUNG_LG", last)
  BY <1>2 DEF decodeSamsung
<1> QED BY <1>10, <1>11, Dispatched, Zenon

LEMMA DataFirstTick ==
  ASSUME NEW c \in Timings, ~ByMark(c), NEW n \in Nat, n > 0, NEW w \in Word(n),
         NEW rx, Sampled(sendPulseDistanceWidthData(c, w), rx.ticks)
  PROVE  MarkTicks(c.zeroMark, rx.ticks[1])
<1> DEFINE f == sendPulseDistanceWidthData(c, w)
           sent == Sent(c, w)
<1>1. /\ f \in Seq(Nat) /\ Len(f) = 2 * n + 1
      /\ \A i \in 1 .. n : f[2 * i - 1] = MarkOf(c, sent[i])
  BY DataEntries
<1>2. 1 \in 1 .. n /\ 2 * 1 - 1 = 1 /\ 1 \in 1 .. Len(f) /\ 1 % 2 = 1
  BY <1>1
<1>3. MarkOf(c, sent[1]) = c.zeroMark
  BY Zenon DEF MarkOf, ByMark
<1> HIDE DEF f, sent
<1>4. f[1] = MarkOf(c, sent[1])
  BY <1>1, <1>2
<1>5. MarkTicks(f[1], rx.ticks[1])
  BY <1>2, Zenon DEF Sampled, f
<1> QED BY <1>3, <1>4, <1>5

JVCInTime(pause) == pause \in Nat /\ pause < 23788

LEMMA JVCDataDecoded ==
  ASSUME NEW w \in Word(16), NEW last, NEW rx, JVCInTime(rx.pause),
         Sampled(sendPulseDistanceWidthData(JVCProtocolConstants, w), rx.ticks)
  PROVE  Mid_IrRemoteDecode(rx, last) = LastAgain("JVC", last)
<1> DEFINE c == JVCProtocolConstants
           t1 == rx.ticks[1]
           tn == rx.ticks[Len(rx.ticks)]
<1>1. /\ c \in Timings /\ ~ByMark(c) /\ Separable(c) /\ c.oneMark = 526 /\ c.zeroMark = 526
      /\ 16 \in Nat
  BY JVCTiming
<1>2. Len(rx.ticks) \in Nat /\ rawlen(rx) = 34 /\ MarkTicks(526, tn)
  <2> HIDE DEF c, tn
  <2>1. Len(rx.ticks) \in Nat /\ rawlen(rx) = 2 * 16 + 2 /\ MarkTicks(c.zeroMark, tn)
    BY <1>1, DataTicks DEF c, tn
  <2> QED BY <1>1, <2>1
<1>3. MarkTicks(526, t1)
  <2> DEFINE n == 16
  <2>1. n \in Nat /\ n > 0 /\ w \in Word(n)
    OBVIOUS
  <2> HIDE DEF c, n, t1
  <2>2. MarkTicks(c.zeroMark, t1)
    BY <1>1, <2>1, DataFirstTick DEF c, t1
  <2> QED BY <1>1, <2>2
<1>4. t1 \in Int /\ 9 < t1 /\ t1 < 13
  BY <1>3 DEF MarkTicks
<1>5. matchMark(t1, 526) /\ StopMark(rx, 526) /\ ~matchMark(t1, 2664)
  BY <1>2, <1>3 DEF MarkTicks, StopMark, matchMark, matchTicks, TICKS_LOW, TICKS_HIGH,
                    MARK_EXCESS_MICROS
<1>6. ~IsNec(rx) /\ ~IsKaseikyo(rx) /\ ~IsDenon(rx) /\ ~IsSony(rx) /\ ~IsLG(rx)
  BY <1>2, Refusals
<1>7. ~IsRC5(rx)
  <2>1. 1 \in 1 .. Len(rx.ticks) /\ 1 % 2 = 1
    BY <1>2 DEF rawlen
  <2> QED BY <1>2, <1>4, <2>1, NotRC5
<1>8. ~IsRC6(rx)
  BY <1>5, NotRC6
<1>9. IsJVC(rx)
  BY <1>2 DEF IsJVC
<1>10. FirstToTake(rx) = "JVC"
  BY <1>6, <1>7, <1>8, <1>9, InTurn, Zenon
<1>11. decodeJVC(rx, last) = LastAgain("JVC", last)
  <2> DEFINE repeats == rx.pause < 23788 /\ matchMark(rx.ticks[1], 526) /\ StopMark(rx, 526)
             other == Code("JVC",
                           Byte(decodePulseDistanceWidthData(rx, JVCProtocolConstants, 16, 3), 0),
                           Byte(decodePulseDistanceWidthData(rx, JVCProtocolConstants, 16, 3), 1),
                           decodePulseDistanceWidthData(rx, JVCProtocolConstants, 16, 3), 16, FALSE)
  <2>1. decodeJVC(rx, last) = CASE rawlen(rx) # 34 -> other
                                [] rawlen(rx) = 34 /\ repeats -> LastAgain("JVC", last)
                                [] rawlen(rx) = 34 /\ ~repeats -> Blank
    BY SMT DEF decodeJVC
  <2>2. repeats
    BY <1>5 DEF JVCInTime
  <2> HIDE DEF other, repeats
  <2> QED BY <1>2, <2>1, <2>2
<1> QED BY <1>10, <1>11, Dispatched, Zenon

LEMMA LastAgainHas ==
  ASSUME NEW p, NEW last, Typed(last)
  PROVE  LET d == LastAgain(p, last)
         IN  d.protocol = p /\ d.address = last.address /\ d.command = last.command
               /\ d.numberOfBits = 0 /\ d.isRepeat
<1>1. \A w \in Word(16) : Widen(w, 16) = w
  <2> SUFFICES ASSUME NEW w \in Word(16) PROVE Widen(w, 16) = w
    OBVIOUS
  <2>1. Len(w) = 16
    BY WordLen
  <2> QED BY <2>1 DEF Widen, Word
<1>2. /\ LastAgain(p, last).protocol = p
      /\ LastAgain(p, last).address = Widen(last.address, 16)
      /\ LastAgain(p, last).command = Widen(last.command, 16)
      /\ LastAgain(p, last).numberOfBits = 0 /\ LastAgain(p, last).isRepeat
  BY DEF LastAgain, Code, Blank
<1> QED BY <1>1, <1>2, Zenon DEF Typed

----------------------------------------------------------------------------
(* RC5 and RC6.                                                            *)

RC5Address(w) == SubSeq(Widen(w, 16), 7, 11)
RC5Command(w) == SubSeq(Widen(w, 16), 1, 6) \o <<IF Widen(w, 16)[13] = 0 THEN 1 ELSE 0>>

LEMMA RC5Decoded ==
  ASSUME NEW w \in Word(13), NEW last, NEW rx, Sampled(sendBiphaseData(RC5_UNIT, w), rx.ticks)
  PROVE  HasCode(Mid_IrRemoteDecode(rx, last), "RC5", RC5Address(w), RC5Command(w), w, 13)
<1> DEFINE levels == BiphaseLevels(rx, 1, RC5_UNIT)
           n == RC5BitCount(levels)
           u(m) == [k \in 1 .. m |-> 1 - Level(levels, 2 * (m + 1 - k))]
           rep == checkForRepeat(rx, 125571)
           code(m, v) == Code("RC5", RC5Address(v), RC5Command(v), v, m, rep)
<1>1. /\ FirstToTake(rx) = "RC5" /\ n = 13
      /\ \A k \in 1 .. 13 : 1 - Level(levels, 2 * (14 - k)) = w[k]
  BY RC5Read
<1>2. decodeRC5(rx) = code(n, u(n))
  BY SMT DEF decodeRC5, RC5Address, RC5Command
<1>3. u(13) = w
  <2>1. w = [k \in 1 .. 13 |-> w[k]]
    BY DEF Word
  <2>2. \A k \in 1 .. 13 : 13 + 1 - k = 14 - k
    OBVIOUS
  <2> HIDE DEF levels
  <2> QED BY <1>1, <2>1, <2>2
<1>4. HasCode(code(13, w), "RC5", RC5Address(w), RC5Command(w), w, 13)
  <2> HIDE DEF rep
  <2> QED BY CodeHas, Zenon
<1> HIDE DEF n, u, code, levels
<1>5. decodeRC5(rx) = code(13, w)
  BY <1>1, <1>2, <1>3, Zenon
<1>6. Mid_IrRemoteDecode(rx, last) = code(13, w)
  BY <1>1, <1>5, Dispatched, Zenon
<1> QED BY <1>4, <1>6, Zenon

LEMMA RC6Decoded ==
  ASSUME NEW w \in Word(20), NEW last, NEW rx, Sampled(RC6Frame(w), rx.ticks)
  PROVE  HasCode(Mid_IrRemoteDecode(rx, last), "RC6", Byte(Widen(w, 16), 1),
                 Byte(Widen(w, 16), 0), w, 20)
<1> DEFINE levels == BiphaseLevels(rx, 3, RC6_UNIT)
           n == RC6BitCount(levels)
           u(m) == [k \in 1 .. m |-> Level(levels, RC6Start(m - k))]
           rep == checkForRepeat(rx, 133750)
           address(m, v) == IF m < 36 THEN Byte(Widen(v, 16), 1) ELSE SubSeq(Widen(v, 16), 9, 15)
           code(m, v) == Code("RC6", address(m, v), Byte(Widen(v, 16), 0), v, m, rep)
<1>1. /\ FirstToTake(rx) = "RC6" /\ n = 20
      /\ \A k \in 1 .. 20 : Level(levels, RC6Start(20 - k)) = w[k]
  BY RC6Read
<1>2. decodeRC6(rx) = code(n, u(n))
  BY SMT DEF decodeRC6
<1>3. u(20) = w
  <2>1. w = [k \in 1 .. 20 |-> w[k]]
    BY DEF Word
  <2> HIDE DEF levels
  <2> QED BY <1>1, <2>1
<1>4. address(20, w) = Byte(Widen(w, 16), 1)
  OBVIOUS
<1>5. HasCode(code(20, w), "RC6", address(20, w), Byte(Widen(w, 16), 0), w, 20)
  <2> HIDE DEF rep, address
  <2> QED BY CodeHas, Zenon
<1> HIDE DEF n, u, code, levels, address
<1>6. decodeRC6(rx) = code(20, w)
  BY <1>1, <1>2, <1>3, Zenon
<1>7. Mid_IrRemoteDecode(rx, last) = code(20, w)
  BY <1>1, <1>6, Dispatched, Zenon
<1> QED BY <1>4, <1>5, <1>7, Zenon

----------------------------------------------------------------------------
(* Words and their parts.                                                  *)

LEMMA WordsEqual ==
  ASSUME NEW n \in Nat, NEW v \in Word(n), NEW w \in Word(n), \A i \in 1 .. n : v[i] = w[i]
  PROVE  v = w
BY DEF Word

LEMMA WidenIs ==
  ASSUME NEW m \in Nat, NEW w \in Word(m), NEW n \in Nat
  PROVE  /\ Widen(w, n) \in Word(n)
         /\ \A i \in 1 .. n : Widen(w, n)[i] = IF i <= m THEN w[i] ELSE 0
<1>1. w \in Seq(Bit) /\ Len(w) = m
  BY WordSeq
<1>2. \A i \in 1 .. n : Widen(w, n)[i] = IF i <= m THEN w[i] ELSE 0
  BY <1>1 DEF Widen
<1> QED BY <1>1, <1>2, WidenWord

LEMMA InvertedIs ==
  ASSUME NEW n \in Nat, NEW w \in Word(n)
  PROVE  Inverted(w) \in Word(n) /\ \A i \in 1 .. n : Inverted(w)[i] = 1 - w[i]
BY DEF Inverted, Word, Bit

LEMMA CheckedIs ==
  ASSUME NEW b \in Word(8)
  PROVE  /\ Checked(b) \in Word(16)
         /\ \A i \in 1 .. 8 : Checked(b)[i] = b[i] /\ Checked(b)[8 + i] = 1 - b[i]
<1>1. 8 \in Nat /\ 8 + 8 = 16
  OBVIOUS
<1>2. Inverted(b) \in Word(8) /\ \A i \in 1 .. 8 : Inverted(b)[i] = 1 - b[i]
  BY <1>1, InvertedIs, Zenon
<1> DEFINE v == Inverted(b)
<1> HIDE DEF v
<1>3. /\ b \o v \in Word(8 + 8)
      /\ \A j \in 1 .. 8 : (b \o v)[j] = b[j]
      /\ \A j \in 1 .. 8 : (b \o v)[8 + j] = v[j]
  BY <1>1, <1>2, JoinedWords DEF v
<1>4. Checked(b) = b \o v
  BY DEF Checked, v
<1> QED BY <1>1, <1>2, <1>3, <1>4 DEF v

LEMMA XorIs ==
  ASSUME NEW n \in Nat, NEW v \in Word(n), NEW w \in Word(n)
  PROVE  Xor(v, w) \in Word(n)
<1>1. \A i \in 1 .. n : (v[i] + w[i]) % 2 \in Bit
  BY DEF Word, Bit
<1> QED BY <1>1 DEF Xor, Word

LEMMA BitsWord ==
  ASSUME NEW v \in Nat, NEW n \in Nat PROVE Bits(v, n) \in Word(n)
<1>1. \A i \in 1 .. n : (v \div 2^(i - 1)) % 2 \in {0, 1}
  <2> SUFFICES ASSUME NEW i \in 1 .. n PROVE (v \div 2^(i - 1)) % 2 \in {0, 1}
    OBVIOUS
  <2> DEFINE y == 2^(i - 1)
  <2>1. y \in Int
    OBVIOUS
  <2> HIDE DEF y
  <2>2. (v \div y) % 2 \in {0, 1}
    BY <2>1
  <2> QED BY <2>2 DEF y
<1> QED BY <1>1 DEF Bits, Word, Bit

(* A word in two parts.                                                    *)
LEMMA PartsOf ==
  ASSUME NEW m \in Nat, NEW k \in Nat, NEW s \in Word(m), NEW t \in Word(k)
  PROVE  /\ m > 0 => SubSeq(s \o t, 1, m) = s
         /\ SubSeq(s \o t, m + 1, m + k) = t
<1> DEFINE w == s \o t
           n == m + k
<1>1. /\ n \in Nat /\ w \in Word(n) /\ \A j \in 1 .. m : w[j] = s[j]
      /\ \A j \in 1 .. k : w[m + j] = t[j]
  <2>1. n \in Nat
    OBVIOUS
  <2> QED BY <2>1, JoinedWords, Zenon
<1> HIDE DEF w
<1>2. m > 0 => SubSeq(w, 1, m) = s
  <2> SUFFICES ASSUME m > 0 PROVE SubSeq(w, 1, m) = s
    OBVIOUS
  <2>1. 1 \in Nat /\ 1 <= 1 /\ 1 + m - 1 <= n /\ 1 + m - 1 = m
    BY <1>1
  <2>2. /\ SubSeq(w, 1, 1 + m - 1) \in Word(m)
        /\ \A i \in 1 .. m : SubSeq(w, 1, 1 + m - 1)[i] = w[1 + i - 1]
    BY <1>1, <2>1, SubWordIs
  <2>3. SubSeq(w, 1, m) \in Word(m) /\ \A i \in 1 .. m : SubSeq(w, 1, m)[i] = s[i]
    BY <1>1, <2>1, <2>2
  <2> QED BY <2>3, WordsEqual
<1>3. SubSeq(w, m + 1, m + k) = t
  <2>1. m + 1 \in Nat /\ 1 <= m + 1 /\ (m + 1) + k - 1 <= n /\ (m + 1) + k - 1 = m + k
    BY <1>1
  <2>2. /\ SubSeq(w, m + 1, (m + 1) + k - 1) \in Word(k)
        /\ \A i \in 1 .. k : SubSeq(w, m + 1, (m + 1) + k - 1)[i] = w[(m + 1) + i - 1]
    BY <1>1, <2>1, SubWordIs
  <2>3. SubSeq(w, m + 1, m + k) \in Word(k) /\ \A i \in 1 .. k : SubSeq(w, m + 1, m + k)[i] = t[i]
    BY <1>1, <2>1, <2>2
  <2> DEFINE v == SubSeq(w, m + 1, m + k)
  <2>4. v \in Word(k) /\ \A i \in 1 .. k : v[i] = t[i]
    BY <2>3
  <2> HIDE DEF v
  <2>5. v = t
    BY <2>4, WordsEqual, Zenon
  <2> QED BY <2>5 DEF v
<1> QED BY <1>2, <1>3 DEF w

LEMMA MagiQuestDecoded ==
  ASSUME NEW id \in Word(31), NEW magnitude \in Word(9), NEW checksum \in Word(8), NEW last,
         NEW rx, Sampled(MagiQuestCoded(id, magnitude, checksum), rx.ticks)
  PROVE  HasCode(Mid_IrRemoteDecode(rx, last), "MAGIQUEST", SubSeq(id, 1, 16), magnitude, id, 56)
<1> DEFINE c == MagiQuestProtocolConstants
           u == decodePulseDistanceWidthData(rx, c, 31, 17)
           v == decodePulseDistanceWidthData(rx, c, 17, 79)
           code(x, y) == Code("MAGIQUEST", SubSeq(x, 1, 16), SubSeq(y, 9, 17), x, 56, FALSE)
<1>1. FirstToTake(rx) = "MagiQuest" /\ u = id /\ v = checksum \o magnitude
  BY MagiQuestRead
<1>2. decodeMagiQuest(rx) = code(u, v)
  BY Zenon DEF decodeMagiQuest
<1>3. SubSeq(checksum \o magnitude, 9, 17) = magnitude
  <2> DEFINE m == 8
             k == 9
  <2>1. m \in Nat /\ k \in Nat /\ m + 1 = 9 /\ m + k = 17
    OBVIOUS
  <2>2. checksum \in Word(m) /\ magnitude \in Word(k)
    OBVIOUS
  <2> HIDE DEF m, k
  <2>3. SubSeq(checksum \o magnitude, m + 1, m + k) = magnitude
    BY <2>1, <2>2, PartsOf, Zenon
  <2> QED BY <2>1, <2>3
<1> HIDE DEF u, v
<1>4. decodeMagiQuest(rx) = Code("MAGIQUEST", SubSeq(id, 1, 16), magnitude, id, 56, FALSE)
  BY <1>1, <1>2, <1>3
<1>5. HasCode(decodeMagiQuest(rx), "MAGIQUEST", SubSeq(id, 1, 16), magnitude, id, 56)
  BY <1>4, FirstCodeHas, Zenon
<1>6. Mid_IrRemoteDecode(rx, last) = decodeMagiQuest(rx)
  BY <1>1, Dispatched, Zenon
<1> QED BY <1>5, <1>6, Zenon

----------------------------------------------------------------------------
(* What is emitted for a code, protocol by protocol.                       *)

NecSent(d) == sendPulseDistanceWidth(NECProtocolConstants,
                                     computeNECRawDataAndChecksum(d.address, d.command))
OnkyoSent(d) == sendPulseDistanceWidth(NECProtocolConstants, d.address \o d.command)
AppleSent(d) == sendPulseDistanceWidth(NECProtocolConstants,
                                       APPLE_ADDRESS \o Byte(d.command, 0) \o Byte(d.address, 0))
SamsungSent(d) ==
  sendPulseDistanceWidth(SamsungProtocolConstants, SamsungWord(d.address, d.command))
SamsungLGSent(d) ==
  sendPulseDistanceWidth(SamsungProtocolConstants, d.address \o Checked(Byte(d.command, 0)))
Samsung48Sent(d) ==
  sendPulseDistanceWidth(SamsungProtocolConstants,
    d.address \o Checked(Byte(d.command, 0)) \o Checked(Byte(d.command, 1)))
SonySent(d) ==
  sendPulseDistanceWidth(SonyProtocolConstants,
    SubSeq(SubSeq(d.command, 1, 7) \o d.address, 1, d.numberOfBits))
LGSent(d) ==
  sendPulseDistanceWidth(LGProtocolConstants,
    computeLGRawDataAndChecksum(d.address, LGCommand(d.command)))
BoseWaveSent(d) == sendPulseDistanceWidth(BoseWaveProtocolConstants, Checked(Byte(d.command, 0)))
FASTSent(d) == sendPulseDistanceWidth(FASTProtocolConstants, Checked(Byte(d.command, 0)))
LegoSent(d) ==
  sendPulseDistanceWidth(LegoProtocolConstants,
    LegoWord(SubSeq(d.address, 1, 4), SubSeq(d.command, 1, 4), SubSeq(d.command, 5, 8)))

Vendors == {PANASONIC_VENDOR_ID_CODE, JVC_VENDOR_ID_CODE, DENON_VENDOR_ID_CODE,
            SHARP_VENDOR_ID_CODE, MITSUBISHI_VENDOR_ID_CODE}

(* The same word is sent in every case of a group.                         *)
LEMMA SentFor ==
  ASSUME NEW d, NEW t
  PROVE  LET s == Mid_IrSendCommon(d, t)
             p == d.protocol
         IN  /\ p = "NEC" => s = <<NecSent(d), sendNECSpecialRepeat>>
             /\ p = "NEC2" => s = Twice(NecSent(d))
             /\ p = "ONKYO" => s = <<OnkyoSent(d), sendNECSpecialRepeat>>
             /\ p = "APPLE" => s = <<AppleSent(d), sendNECSpecialRepeat>>
             /\ p = "SAMSUNG" => s = <<SamsungSent(d), sendSamsungLGSpecialRepeat>>
             /\ p = "SAMSUNG_LG" => s = <<SamsungLGSent(d), sendSamsungLGSpecialRepeat>>
             /\ p = "SAMSUNG48" => s = Twice(Samsung48Sent(d))
             /\ p = "SONY" => s = Twice(SonySent(d))
             /\ p = "PANASONIC" => s = sendKaseikyo(PANASONIC_VENDOR_ID_CODE, d)
             /\ p = "KASEIKYO_JVC" => s = sendKaseikyo(JVC_VENDOR_ID_CODE, d)
             /\ p = "KASEIKYO_DENON" => s = sendKaseikyo(DENON_VENDOR_ID_CODE, d)
             /\ p = "KASEIKYO_SHARP" => s = sendKaseikyo(SHARP_VENDOR_ID_CODE, d)
             /\ p = "KASEIKYO_MITSUBISHI" => s = sendKaseikyo(MITSUBISHI_VENDOR_ID_CODE, d)
             /\ p = "DENON" => s = sendDenon(DenonWord(d.address, d.command, FALSE))
             /\ p = "SHARP" => s = sendDenon(DenonWord(d.address, d.command, TRUE))
             /\ p = "LG" => s = <<LGSent(d), sendNECSpecialRepeat>>
             /\ p = "JVC" => s = sendJVC(Byte(d.address, 0) \o Byte(d.command, 0))
             /\ p = "RC5" => s = Twice(sendBiphaseData(RC5_UNIT, RC5Word(d.address, d.command, t)))
             /\ p = "RC6" => s = Twice(RC6Frame(RC6Word(d.address, d.command, t)))
             /\ p = "BOSEWAVE" => s = Twice(BoseWaveSent(d))
             /\ p = "FAST" => s = Twice(FASTSent(d))
             /\ p = "MAGIQUEST" => s = <<MagiQuestFrame(Widen(d.raw, 31), SubSeq(d.command, 1, 9))>>
             /\ p = "LEGO_PF" => s = [i \in 1 .. (IF d.isRepeat THEN 5 ELSE 1) |-> LegoSent(d)]
             /\ p = "PULSE_DISTANCE" => s = Mid_IrSendPulseDistance(d)
             /\ p \notin {"NEC", "NEC2", "ONKYO", "APPLE", "SAMSUNG", "SAMSUNG_LG", "SAMSUNG48",
                          "SONY", "PANASONIC", "KASEIKYO_JVC", "KASEIKYO_DENON", "KASEIKYO_SHARP",
                          "KASEIKYO_MITSUBISHI", "DENON", "SHARP", "LG", "JVC", "RC5", "RC6",
                          "BOSEWAVE", "FAST", "MAGIQUEST", "LEGO_PF", "PULSE_DISTANCE"}
                  => s = <<>>
<1> DEFINE s == Mid_IrSendCommon(d, t)
           p == d.protocol
<1>1. s
          = CASE p = "NEC" -> <<NecSent(d), sendNECSpecialRepeat>>
              [] p = "NEC2" -> Twice(NecSent(d))
              [] p = "ONKYO" -> <<OnkyoSent(d), sendNECSpecialRepeat>>
              [] p = "APPLE" -> <<AppleSent(d), sendNECSpecialRepeat>>
              [] p = "SAMSUNG" -> <<SamsungSent(d), sendSamsungLGSpecialRepeat>>
              [] p = "SAMSUNG_LG" -> <<SamsungLGSent(d), sendSamsungLGSpecialRepeat>>
              [] p = "SAMSUNG48" -> Twice(Samsung48Sent(d))
              [] p = "SONY" -> Twice(SonySent(d))
              [] p = "PANASONIC" -> sendKaseikyo(PANASONIC_VENDOR_ID_CODE, d)
              [] p = "KASEIKYO_JVC" -> sendKaseikyo(JVC_VENDOR_ID_CODE, d)
              [] p = "KASEIKYO_DENON" -> sendKaseikyo(DENON_VENDOR_ID_CODE, d)
              [] p = "KASEIKYO_SHARP" -> sendKaseikyo(SHARP_VENDOR_ID_CODE, d)
              [] p = "KASEIKYO_MITSUBISHI" -> sendKaseikyo(MITSUBISHI_VENDOR_ID_CODE, d)
              [] p = "DENON" -> sendDenon(DenonWord(d.address, d.command, FALSE))
              [] p = "SHARP" -> sendDenon(DenonWord(d.address, d.command, TRUE))
              [] p = "LG" -> <<LGSent(d), sendNECSpecialRepeat>>
              [] p = "JVC" -> sendJVC(Byte(d.address, 0) \o Byte(d.command, 0))
              [] p = "RC5" -> Twice(sendBiphaseData(RC5_UNIT, RC5Word(d.address, d.command, t)))
              [] p = "RC6" -> Twice(RC6Frame(RC6Word(d.address, d.command, t)))
              [] p = "BOSEWAVE" -> Twice(BoseWaveSent(d))
              [] p = "FAST" -> Twice(FASTSent(d))
              [] p = "MAGIQUEST" -> <<MagiQuestFrame(Widen(d.raw, 31), SubSeq(d.command, 1, 9))>>
              [] p = "LEGO_PF" -> [i \in 1 .. (IF d.isRepeat THEN 5 ELSE 1) |-> LegoSent(d)]
              [] p = "PULSE_DISTANCE" -> Mid_IrSendPulseDistance(d)
              [] OTHER -> <<>>
  BY Zenon DEF Mid_IrSendCommon, NecSent, OnkyoSent, AppleSent, SamsungSent, SamsungLGSent,
     Samsung48Sent, SonySent, LGSent, BoseWaveSent, FASTSent, LegoSent
<1> HIDE DEF s, p
<1> QED BY <1>1 DEF s, p

----------------------------------------------------------------------------
(* The repeat of an emission means the same as the frame before it.        *)

(* The frame f is read as this address and command, whatever came before.  *)
Fixed(f, a, c) ==
  /\ f \in Seq(Nat)
  /\ \A rx, last : Sampled(f, rx.ticks)
       => /\ Mid_IrRemoteDecode(rx, last).address = a
          /\ Mid_IrRemoteDecode(rx, last).command = c

Late(rx) == rx.pause = 30000
Soon(rx) == rx.pause = 400

(* The frame g is read as the frame before it, when it follows soon.       *)
Again(g) ==
  /\ g \in Seq(Nat)
  /\ \A rx, last : Sampled(g, rx.ticks) /\ Soon(rx) /\ Typed(last)
       => /\ Mid_IrRemoteDecode(rx, last).address = last.address
          /\ Mid_IrRemoteDecode(rx, last).command = last.command

Repeats(s) ==
  Len(s) > 1 =>
    /\ s[1] \in Seq(Nat) /\ s[2] \in Seq(Nat)
    /\ \A rx1, rx2 :
         Sampled(s[1], rx1.ticks) /\ Late(rx1) /\ Sampled(s[2], rx2.ticks) /\ Soon(rx2)
           => LET first == Mid_IrRemoteDecode(rx1, Blank)
                  second == Mid_IrRemoteDecode(rx2, first)
              IN  first.address = second.address /\ first.command = second.command

LEMMA TwiceRepeats ==
  ASSUME NEW f, NEW a, NEW c, Fixed(f, a, c) PROVE Repeats(Twice(f))
<1>1. Twice(f)[1] = f /\ Twice(f)[2] = f
  BY DEF Twice
<1> QED BY <1>1, Zenon DEF Fixed, Repeats

LEMMA SampledLen == ASSUME NEW f, NEW ticks, Sampled(f, ticks) PROVE Len(ticks) \in Nat
BY DEF Sampled

LEMMA AgainRepeats ==
  ASSUME NEW f, NEW a, NEW c, Fixed(f, a, c), NEW g, Again(g) PROVE Repeats(<<f, g>>)
<1> DEFINE s == <<f, g>>
<1>1. s[1] = f /\ s[2] = g
  OBVIOUS
<1> HIDE DEF s
<1>2. s[1] \in Seq(Nat) /\ s[2] \in Seq(Nat)
  BY <1>1, Zenon DEF Fixed, Again
<1>3. ASSUME NEW rx1, NEW rx2, Sampled(f, rx1.ticks), Sampled(g, rx2.ticks), Soon(rx2)
      PROVE  LET first == Mid_IrRemoteDecode(rx1, Blank)
                 second == Mid_IrRemoteDecode(rx2, first)
             IN  first.address = second.address /\ first.command = second.command
  <2> DEFINE first == Mid_IrRemoteDecode(rx1, Blank)
  <2>1. Typed(first)
    <3> DEFINE l == Len(rx1.ticks)
    <3>1. l \in Nat
      BY <1>3, SampledLen, Zenon
    <3> QED BY <3>1, BlankTyped, DecodedTyped
  <2> HIDE DEF first
  <2>2. LET second == Mid_IrRemoteDecode(rx2, first)
        IN  second.address = first.address /\ second.command = first.command
    BY <1>3, <2>1, Zenon DEF Again
  <2> QED BY <2>2, Zenon DEF first
<1>4. Repeats(s)
  BY <1>1, <1>2, <1>3, Zenon DEF Repeats
<1> QED BY <1>4 DEF s

LEMMA LastAgainSame ==
  ASSUME NEW p, NEW last, Typed(last)
  PROVE  LastAgain(p, last).address = last.address /\ LastAgain(p, last).command = last.command
BY LastAgainHas

LEMMA ShortAgain == Again(sendNECSpecialRepeat) /\ Again(sendSamsungLGSpecialRepeat)
<1>1. sendNECSpecialRepeat \in Seq(Nat) /\ sendSamsungLGSpecialRepeat \in Seq(Nat)
  BY DEF sendNECSpecialRepeat, sendSamsungLGSpecialRepeat
<1>2. Again(sendNECSpecialRepeat)
  <2>1. ASSUME NEW rx, NEW last, Sampled(sendNECSpecialRepeat, rx.ticks), Typed(last)
        PROVE  /\ Mid_IrRemoteDecode(rx, last).address = last.address
               /\ Mid_IrRemoteDecode(rx, last).command = last.command
    <3> DEFINE p == last.protocol
    <3>1. Mid_IrRemoteDecode(rx, last) = LastAgain(p, last)
      BY <2>1, ShortDecoded, Zenon
    <3> HIDE DEF p
    <3> QED BY <2>1, <3>1, LastAgainSame, Zenon
  <2> QED BY <1>1, <2>1, Zenon DEF Again
<1>3. Again(sendSamsungLGSpecialRepeat)
  <2>1. ASSUME NEW rx, NEW last, Sampled(sendSamsungLGSpecialRepeat, rx.ticks), Typed(last)
        PROVE  /\ Mid_IrRemoteDecode(rx, last).address = last.address
               /\ Mid_IrRemoteDecode(rx, last).command = last.command
    <3>1. Mid_IrRemoteDecode(rx, last) = LastAgain("SAMSUNG_LG", last)
      BY <2>1, SamsungShortDecoded, Zenon
    <3> QED BY <2>1, <3>1, LastAgainSame, Zenon
  <2> QED BY <1>1, <2>1, Zenon DEF Again
<1> QED BY <1>2, <1>3

(* The frames of every protocol are sequences of durations.                *)
LEMMA Frames ==
  ASSUME NEW n \in Nat, NEW w \in Word(n)
  PROVE  /\ sendPulseDistanceWidth(NECProtocolConstants, w) \in Seq(Nat)
         /\ sendPulseDistanceWidth(KaseikyoProtocolConstants, w) \in Seq(Nat)
         /\ sendPulseDistanceWidth(SonyProtocolConstants, w) \in Seq(Nat)
         /\ sendPulseDistanceWidth(LGProtocolConstants, w) \in Seq(Nat)
         /\ sendPulseDistanceWidth(JVCProtocolConstants, w) \in Seq(Nat)
         /\ sendPulseDistanceWidth(SamsungProtocolConstants, w) \in Seq(Nat)
         /\ sendPulseDistanceWidth(FASTProtocolConstants, w) \in Seq(Nat)
         /\ sendPulseDistanceWidth(LegoProtocolConstants, w) \in Seq(Nat)
         /\ sendPulseDistanceWidth(BoseWaveProtocolConstants, w) \in Seq(Nat)
         /\ sendPulseDistanceWidthData(DenonProtocolConstants, w) \in Seq(Nat)
         /\ sendPulseDistanceWidthData(JVCProtocolConstants, w) \in Seq(Nat)
<1>1. \A c \in Timings : /\ sendPulseDistanceWidth(c, w) \in Seq(Nat)
                         /\ sendPulseDistanceWidthData(c, w) \in Seq(Nat)
  BY FramedEntries, DataEntries, Zenon
<1>2. /\ NECProtocolConstants \in Timings /\ KaseikyoProtocolConstants \in Timings
      /\ SonyProtocolConstants \in Timings /\ LGProtocolConstants \in Timings
      /\ JVCProtocolConstants \in Timings /\ SamsungProtocolConstants \in Timings
      /\ FASTProtocolConstants \in Timings /\ LegoProtocolConstants \in Timings
      /\ BoseWaveProtocolConstants \in Timings /\ DenonProtocolConstants \in Timings
  BY NECTiming, KaseikyoTiming, SonyTiming, LGTiming, JVCTiming, SamsungTiming,
     FASTTiming, LegoTiming, BoseWaveTiming, DenonTiming
<1> QED BY <1>1, <1>2, Zenon

LEMMA NecFixed ==
  ASSUME NEW w \in Word(32)
  PROVE  Fixed(sendPulseDistanceWidth(NECProtocolConstants, w), Widen(NecAddress(w), 16),
               Widen(NecCommand(w), 16))
<1>1. sendPulseDistanceWidth(NECProtocolConstants, w) \in Seq(Nat)
  <2> DEFINE n == 32
  <2>1. n \in Nat /\ w \in Word(n)
    OBVIOUS
  <2> HIDE DEF n
  <2> QED BY <2>1, Frames, Zenon
<1> DEFINE f == sendPulseDistanceWidth(NECProtocolConstants, w)
           a == Widen(NecAddress(w), 16)
           c == Widen(NecCommand(w), 16)
<1>2. ASSUME NEW rx, NEW last, Sampled(f, rx.ticks)
      PROVE  Mid_IrRemoteDecode(rx, last).address = a /\ Mid_IrRemoteDecode(rx, last).command = c
  BY <1>2, NecDecoded DEF HasCode
<1> HIDE DEF f, a, c
<1>3. Fixed(f, a, c)
  BY <1>1, <1>2, Zenon DEF Fixed, f
<1> QED BY <1>3 DEF f, a, c

LEMMA KaseikyoFixed ==
  ASSUME NEW w \in Word(48)
  PROVE  Fixed(sendPulseDistanceWidth(KaseikyoProtocolConstants, w),
               Widen(SubSeq(w, 21, 32), 16), Widen(Byte(w, 4), 16))
<1>1. sendPulseDistanceWidth(KaseikyoProtocolConstants, w) \in Seq(Nat)
  <2> DEFINE n == 48
  <2>1. n \in Nat /\ w \in Word(n)
    OBVIOUS
  <2> HIDE DEF n
  <2> QED BY <2>1, Frames, Zenon
<1> DEFINE f == sendPulseDistanceWidth(KaseikyoProtocolConstants, w)
           a == Widen(SubSeq(w, 21, 32), 16)
           c == Widen(Byte(w, 4), 16)
<1>2. ASSUME NEW rx, NEW last, Sampled(f, rx.ticks)
      PROVE  Mid_IrRemoteDecode(rx, last).address = a /\ Mid_IrRemoteDecode(rx, last).command = c
  BY <1>2, KaseikyoDecoded DEF HasCode
<1> HIDE DEF f, a, c
<1>3. Fixed(f, a, c)
  BY <1>1, <1>2, Zenon DEF Fixed, f
<1> QED BY <1>3 DEF f, a, c

LEMMA SonyFixed ==
  ASSUME NEW n \in {12, 15, 20}, NEW w \in Word(n)
  PROVE  \E a, c : Fixed(sendPulseDistanceWidth(SonyProtocolConstants, w), a, c)
<1>1. n \in Nat
  OBVIOUS
<1>2. sendPulseDistanceWidth(SonyProtocolConstants, w) \in Seq(Nat)
  BY <1>1, Frames, Zenon
<1>3. \A rx, last : Sampled(sendPulseDistanceWidth(SonyProtocolConstants, w), rx.ticks)
        => HasCode(Mid_IrRemoteDecode(rx, last), "SONY", SubSeq(w, 8, n), SubSeq(w, 1, 7), w, n)
  BY SonyDecoded
<1>4. Fixed(sendPulseDistanceWidth(SonyProtocolConstants, w), Widen(SubSeq(w, 8, n), 16),
            Widen(SubSeq(w, 1, 7), 16))
  BY <1>2, <1>3, Zenon DEF Fixed, HasCode
<1> QED BY <1>4, Zenon

LEMMA LGFixed ==
  ASSUME NEW w \in Word(28)
  PROVE  Fixed(sendPulseDistanceWidth(LGProtocolConstants, w), Widen(SubSeq(w, 21, 28), 16),
               Widen(SubSeq(w, 5, 20), 16))
<1>1. sendPulseDistanceWidth(LGProtocolConstants, w) \in Seq(Nat)
  <2> DEFINE n == 28
  <2>1. n \in Nat /\ w \in Word(n)
    OBVIOUS
  <2> HIDE DEF n
  <2> QED BY <2>1, Frames, Zenon
<1> DEFINE f == sendPulseDistanceWidth(LGProtocolConstants, w)
           a == Widen(SubSeq(w, 21, 28), 16)
           c == Widen(SubSeq(w, 5, 20), 16)
<1>2. ASSUME NEW rx, NEW last, Sampled(f, rx.ticks)
      PROVE  Mid_IrRemoteDecode(rx, last).address = a /\ Mid_IrRemoteDecode(rx, last).command = c
  BY <1>2, LGDecoded DEF HasCode
<1> HIDE DEF f, a, c
<1>3. Fixed(f, a, c)
  BY <1>1, <1>2, Zenon DEF Fixed, f
<1> QED BY <1>3 DEF f, a, c

LEMMA JVCFixed ==
  ASSUME NEW w \in Word(16)
  PROVE  /\ Fixed(sendPulseDistanceWidth(JVCProtocolConstants, w), Widen(Byte(w, 0), 16),
                  Widen(Byte(w, 1), 16))
         /\ Again(sendPulseDistanceWidthData(JVCProtocolConstants, w))
<1> DEFINE f == sendPulseDistanceWidth(JVCProtocolConstants, w)
           g == sendPulseDistanceWidthData(JVCProtocolConstants, w)
<1>1. f \in Seq(Nat) /\ g \in Seq(Nat)
  <2> DEFINE n == 16
  <2>1. n \in Nat /\ w \in Word(n)
    OBVIOUS
  <2> HIDE DEF n
  <2> QED BY <2>1, Frames, Zenon
<1>2. Fixed(f, Widen(Byte(w, 0), 16), Widen(Byte(w, 1), 16))
  <2> DEFINE a == Widen(Byte(w, 0), 16)
             c == Widen(Byte(w, 1), 16)
  <2>1. ASSUME NEW rx, NEW last, Sampled(f, rx.ticks)
        PROVE  Mid_IrRemoteDecode(rx, last).address = a /\ Mid_IrRemoteDecode(rx, last).command = c
    BY <2>1, JVCDecoded DEF HasCode
  <2> HIDE DEF f, a, c
  <2>2. Fixed(f, a, c)
    BY <1>1, <2>1, Zenon DEF Fixed
  <2> QED BY <2>2 DEF a, c
<1>3. ASSUME NEW rx, NEW last, Sampled(g, rx.ticks), Soon(rx), Typed(last)
      PROVE  /\ Mid_IrRemoteDecode(rx, last).address = last.address
             /\ Mid_IrRemoteDecode(rx, last).command = last.command
  <2>1. JVCInTime(rx.pause)
    BY <1>3 DEF JVCInTime, Soon
  <2>2. Mid_IrRemoteDecode(rx, last) = LastAgain("JVC", last)
    BY <1>3, <2>1, JVCDataDecoded, Zenon
  <2> QED BY <1>3, <2>2, LastAgainSame, Zenon
<1>4. Again(g)
  BY <1>1, <1>3, Zenon DEF Again
<1> QED BY <1>2, <1>4

LEMMA SamsungFixed ==
  ASSUME NEW n \in {32, 48}, NEW w \in Word(n)
  PROVE  Fixed(sendPulseDistanceWidth(SamsungProtocolConstants, w), Widen(SubSeq(w, 1, 16), 16),
               Widen(SamsungCommand(n, w), 16))
<1>1. n \in Nat
  OBVIOUS
<1>2. sendPulseDistanceWidth(SamsungProtocolConstants, w) \in Seq(Nat)
  BY <1>1, Frames, Zenon
<1>3. \A rx, last : Sampled(sendPulseDistanceWidth(SamsungProtocolConstants, w), rx.ticks)
        => HasCode(Mid_IrRemoteDecode(rx, last), IF n = 48 THEN "SAMSUNG48" ELSE "SAMSUNG",
                   SubSeq(w, 1, 16), SamsungCommand(n, w), SamsungRaw(n, w), n)
  BY SamsungDecoded
<1> QED BY <1>2, <1>3, Zenon DEF Fixed, HasCode

LEMMA RareFixed ==
  ASSUME NEW w \in Word(16)
  PROVE  /\ Fixed(sendPulseDistanceWidth(FASTProtocolConstants, w), Widen(<<>>, 16),
                  Widen(Byte(w, 0), 16))
         /\ Fixed(sendPulseDistanceWidth(LegoProtocolConstants, w), Widen(SubSeq(w, 13, 16), 16),
                  Widen(SubSeq(w, 5, 12), 16))
         /\ IsChecked(w, 0) =>
              Fixed(sendPulseDistanceWidth(BoseWaveProtocolConstants, w), Widen(<<>>, 16),
                    Widen(Byte(w, 0), 16))
<1>1. /\ sendPulseDistanceWidth(FASTProtocolConstants, w) \in Seq(Nat)
      /\ sendPulseDistanceWidth(LegoProtocolConstants, w) \in Seq(Nat)
      /\ sendPulseDistanceWidth(BoseWaveProtocolConstants, w) \in Seq(Nat)
  <2> DEFINE n == 16
  <2>1. n \in Nat /\ w \in Word(n)
    OBVIOUS
  <2> HIDE DEF n
  <2> QED BY <2>1, Frames, Zenon
<1>2. Fixed(sendPulseDistanceWidth(FASTProtocolConstants, w), Widen(<<>>, 16),
            Widen(Byte(w, 0), 16))
  <2> DEFINE f == sendPulseDistanceWidth(FASTProtocolConstants, w)
             a == Widen(<<>>, 16)
             c == Widen(Byte(w, 0), 16)
  <2>1. ASSUME NEW rx, NEW last, Sampled(f, rx.ticks)
        PROVE  Mid_IrRemoteDecode(rx, last).address = a /\ Mid_IrRemoteDecode(rx, last).command = c
    BY <2>1, FASTDecoded DEF HasCode
  <2> HIDE DEF f, a, c
  <2>2. Fixed(f, a, c)
    BY <1>1, <2>1, Zenon DEF Fixed, f
  <2> QED BY <2>2 DEF f, a, c
<1>3. Fixed(sendPulseDistanceWidth(LegoProtocolConstants, w), Widen(SubSeq(w, 13, 16), 16),
            Widen(SubSeq(w, 5, 12), 16))
  <2> DEFINE f == sendPulseDistanceWidth(LegoProtocolConstants, w)
             a == Widen(SubSeq(w, 13, 16), 16)
             c == Widen(SubSeq(w, 5, 12), 16)
  <2>1. ASSUME NEW rx, NEW last, Sampled(f, rx.ticks)
        PROVE  Mid_IrRemoteDecode(rx, last).address = a /\ Mid_IrRemoteDecode(rx, last).command = c
    BY <2>1, LegoDecoded DEF HasCode
  <2> HIDE DEF f, a, c
  <2>2. Fixed(f, a, c)
    BY <1>1, <2>1, Zenon DEF Fixed, f
  <2> QED BY <2>2 DEF f, a, c
<1>4. IsChecked(w, 0) =>
        Fixed(sendPulseDistanceWidth(BoseWaveProtocolConstants, w), Widen(<<>>, 16),
              Widen(Byte(w, 0), 16))
  <2> DEFINE f == sendPulseDistanceWidth(BoseWaveProtocolConstants, w)
             a == Widen(<<>>, 16)
             c == Widen(Byte(w, 0), 16)
  <2>1. ASSUME NEW rx, NEW last, Sampled(f, rx.ticks), IsChecked(w, 0)
        PROVE  Mid_IrRemoteDecode(rx, last).address = a /\ Mid_IrRemoteDecode(rx, last).command = c
    BY <2>1, BoseWaveDecoded DEF HasCode
  <2> HIDE DEF f, a, c
  <2>2. IsChecked(w, 0) => Fixed(f, a, c)
    BY <1>1, <2>1, Zenon DEF Fixed, f
  <2> QED BY <2>2 DEF f, a, c
<1> QED BY <1>2, <1>3, <1>4

LEMMA DurationsSeq ==
  ASSUME NEW n \in Nat, n >= 1, NEW levels \in [1 .. n -> Bit], levels[1] = 1,
         NEW unit \in {RC5_UNIT, RC6_UNIT}
  PROVE  Durations(levels, unit) \in Seq(Nat)
<1>1. unit \in Nat
  BY DEF RC5_UNIT, RC6_UNIT
<1> QED BY <1>1, DurationsAreRuns DEF CodedRuns

LEMMA RC5Fixed ==
  ASSUME NEW w \in Word(13)
  PROVE  Fixed(sendBiphaseData(RC5_UNIT, w), Widen(RC5Address(w), 16), Widen(RC5Command(w), 16))
<1>1. sendBiphaseData(RC5_UNIT, w) \in Seq(Nat)
  <2> DEFINE n == 27
             v == RC5Levels(w)
  <2>1. n \in Nat /\ n >= 1
    OBVIOUS
  <2>2. v \in [1 .. n -> Bit] /\ v[1] = 1 /\ sendBiphaseData(RC5_UNIT, w) = Durations(v, RC5_UNIT)
    BY RC5LevelsAre DEF Word
  <2> HIDE DEF n, v
  <2> QED BY <2>1, <2>2, DurationsSeq, Zenon
<1> DEFINE f == sendBiphaseData(RC5_UNIT, w)
           a == Widen(RC5Address(w), 16)
           c == Widen(RC5Command(w), 16)
<1>2. ASSUME NEW rx, NEW last, Sampled(f, rx.ticks)
      PROVE  Mid_IrRemoteDecode(rx, last).address = a /\ Mid_IrRemoteDecode(rx, last).command = c
  BY <1>2, RC5Decoded DEF HasCode
<1> HIDE DEF f, a, c
<1>3. Fixed(f, a, c)
  BY <1>1, <1>2, Zenon DEF Fixed, f
<1> QED BY <1>3 DEF f, a, c

LEMMA RC6Fixed ==
  ASSUME NEW w \in Word(20)
  PROVE  Fixed(RC6Frame(w), Widen(Byte(Widen(w, 16), 1), 16), Widen(Byte(Widen(w, 16), 0), 16))
<1>1. RC6Frame(w) \in Seq(Nat)
  <2> DEFINE n == 52
             v == RC6Levels(w)
  <2>1. n \in Nat /\ n >= 1
    OBVIOUS
  <2>2. v \in [1 .. n -> Bit] /\ v[1] = 1 /\ RC6Frame(w) = Durations(v, RC6_UNIT)
    <3>1. v \in Word(52) /\ RC6Frame(w) = Durations(v, RC6_UNIT) /\ \A j \in 1 .. 6 : v[j] = 1
      BY RC6LevelsAre
    <3> HIDE DEF v
    <3> QED BY <3>1 DEF Word
  <2> HIDE DEF n, v
  <2> QED BY <2>1, <2>2, DurationsSeq, Zenon
<1> DEFINE f == RC6Frame(w)
           a == Widen(Byte(Widen(w, 16), 1), 16)
           c == Widen(Byte(Widen(w, 16), 0), 16)
<1>2. ASSUME NEW rx, NEW last, Sampled(f, rx.ticks)
      PROVE  Mid_IrRemoteDecode(rx, last).address = a /\ Mid_IrRemoteDecode(rx, last).command = c
  BY <1>2, RC6Decoded DEF HasCode
<1> HIDE DEF f, a, c
<1>3. Fixed(f, a, c)
  BY <1>1, <1>2, Zenon DEF Fixed, f
<1> QED BY <1>3 DEF f, a, c

----------------------------------------------------------------------------
(* The words that are sent for a code.                                     *)

LEMMA Sixteen ==
  ASSUME NEW w \in Word(16)
  PROVE  /\ Byte(w, 0) \in Word(8) /\ Byte(w, 1) \in Word(8)
         /\ \A i \in 1 .. 8 : Byte(w, 0)[i] = w[i] /\ Byte(w, 1)[i] = w[8 + i]
<1>1. 16 \in Nat /\ 0 \in Nat /\ 1 \in Nat /\ 8 * 0 + 8 <= 16 /\ 8 * 1 + 8 <= 16
  OBVIOUS
<1>2. Byte(w, 0) \in Word(8) /\ \A i \in 1 .. 8 : Byte(w, 0)[i] = w[8 * 0 + i]
  BY <1>1, ByteWord
<1>3. Byte(w, 1) \in Word(8) /\ \A i \in 1 .. 8 : Byte(w, 1)[i] = w[8 * 1 + i]
  BY <1>1, ByteWord
<1> QED BY <1>2, <1>3

LEMMA TwoBytes ==
  ASSUME NEW s \in Word(8), NEW t \in Word(8) PROVE s \o t \in Word(16)
<1>1. 8 \in Nat /\ 8 + 8 = 16
  OBVIOUS
<1>2. s \o t \in Word(8 + 8)
  BY <1>1, JoinedWords
<1> QED BY <1>1, <1>2

LEMMA TwoWords ==
  ASSUME NEW s \in Word(16), NEW t \in Word(16) PROVE s \o t \in Word(32)
<1>1. 16 \in Nat /\ 16 + 16 = 32
  OBVIOUS
<1>2. s \o t \in Word(16 + 16)
  BY <1>1, JoinedWords
<1> QED BY <1>1, <1>2

LEMMA ThreeWords ==
  ASSUME NEW s \in Word(16), NEW t \in Word(16), NEW u \in Word(16) PROVE s \o t \o u \in Word(48)
<1> DEFINE st == s \o t
<1>1. 16 \in Nat /\ 32 \in Nat /\ 32 + 16 = 48
  OBVIOUS
<1>2. st \in Word(32)
  BY TwoWords, Zenon
<1> HIDE DEF st
<1>3. st \o u \in Word(32 + 16)
  BY <1>1, <1>2, JoinedWords
<1> QED BY <1>1, <1>3 DEF st

LEMMA AppleWord == APPLE_ADDRESS \in Word(16)
<1> DEFINE v == 34798
           n == 16
<1>1. v \in Nat /\ n \in Nat /\ APPLE_ADDRESS = Bits(v, n)
  BY DEF APPLE_ADDRESS
<1> HIDE DEF v, n
<1>2. APPLE_ADDRESS \in Word(n)
  BY <1>1, BitsWord
<1> QED BY <1>2 DEF n

LEMMA VendorWord == \A vendor \in Vendors : vendor \in Word(16)
<1> DEFINE n == 16
<1>1. \A vendor \in Vendors : \E v \in Nat : vendor = Bits(v, n)
  <2>1. /\ 8194 \in Nat /\ 12884 \in Nat /\ 52003 \in Nat /\ 23210 \in Nat /\ 259 \in Nat
    OBVIOUS
  <2> QED BY <2>1 DEF Vendors, PANASONIC_VENDOR_ID_CODE, JVC_VENDOR_ID_CODE, DENON_VENDOR_ID_CODE,
                      SHARP_VENDOR_ID_CODE, MITSUBISHI_VENDOR_ID_CODE
<1>2. n \in Nat
  OBVIOUS
<1> HIDE DEF n
<1>3. \A vendor \in Vendors : vendor \in Word(n)
  BY <1>1, <1>2, BitsWord, Zenon
<1> QED BY <1>3 DEF n

LEMMA NecWords ==
  ASSUME NEW a \in Word(16), NEW c \in Word(16)
  PROVE  /\ computeNECRawDataAndChecksum(a, c) \in Word(32)
         /\ a \o c \in Word(32)
         /\ APPLE_ADDRESS \o Byte(c, 0) \o Byte(a, 0) \in Word(32)
<1>1. Byte(c, 0) \in Word(8) /\ Byte(a, 0) \in Word(8)
  BY Sixteen
<1>2. computeNECRawDataAndChecksum(a, c) \in Word(32)
  <2> DEFINE x == IF HighByteZero(a) THEN Checked(Byte(a, 0)) ELSE a
             y == Checked(Byte(c, 0))
  <2>1. x \in Word(16) /\ y \in Word(16)
    BY <1>1, CheckedIs
  <2>2. computeNECRawDataAndChecksum(a, c) = x \o y
    BY DEF computeNECRawDataAndChecksum
  <2> HIDE DEF x, y
  <2> QED BY <2>1, <2>2, TwoWords
<1>3. a \o c \in Word(32)
  BY TwoWords
<1>4. APPLE_ADDRESS \o Byte(c, 0) \o Byte(a, 0) \in Word(32)
  <2> DEFINE x == Byte(c, 0)
             y == Byte(a, 0)
             z == APPLE_ADDRESS
             zx == z \o x
  <2>1. x \in Word(8) /\ y \in Word(8) /\ z \in Word(16)
    BY <1>1, AppleWord
  <2>2. 16 \in Nat /\ 8 \in Nat /\ 24 \in Nat /\ 16 + 8 = 24 /\ 24 + 8 = 32
    OBVIOUS
  <2> HIDE DEF x, y, z
  <2>3. zx \in Word(16 + 8)
    BY <2>1, <2>2, JoinedWords
  <2>4. zx \in Word(24)
    BY <2>2, <2>3
  <2> HIDE DEF zx
  <2>5. zx \o y \in Word(24 + 8)
    BY <2>1, <2>2, <2>4, JoinedWords
  <2>6. zx \o y \in Word(32)
    BY <2>2, <2>5
  <2> QED BY <2>6 DEF zx, x, y, z
<1> QED BY <1>2, <1>3, <1>4

LEMMA SamsungWords ==
  ASSUME NEW a \in Word(16), NEW c \in Word(16)
  PROVE  /\ SamsungWord(a, c) \in Word(32)
         /\ a \o Checked(Byte(c, 0)) \in Word(32)
         /\ a \o Checked(Byte(c, 0)) \o Checked(Byte(c, 1)) \in Word(48)
<1> DEFINE x == Checked(Byte(c, 0))
           y == Checked(Byte(c, 1))
<1>1. x \in Word(16) /\ y \in Word(16)
  BY Sixteen, CheckedIs
<1>2. SamsungWord(a, c) \in {a \o x, a \o c}
  BY DEF SamsungWord
<1> HIDE DEF x, y
<1>3. a \o x \in Word(32) /\ a \o c \in Word(32)
  BY <1>1, TwoWords
<1>4. a \o x \o y \in Word(48)
  BY <1>1, ThreeWords
<1> QED BY <1>2, <1>3, <1>4 DEF x, y

LEMMA SonyWord ==
  ASSUME NEW a \in Word(16), NEW c \in Word(16), NEW n \in 0 .. 23
  PROVE  SubSeq(SubSeq(c, 1, 7) \o a, 1, n) \in Word(n)
<1> DEFINE x == SubSeq(c, 1, 7)
           w == x \o a
<1>1. x \in Word(7)
  <2> DEFINE l == 16
             k == 7
             o == 1
  <2>1. /\ l \in Nat /\ k \in Nat /\ o \in Nat /\ 1 <= o /\ o + k - 1 <= l /\ o + k - 1 = 7
        /\ c \in Word(l)
    OBVIOUS
  <2> HIDE DEF l, k, o
  <2>2. SubSeq(c, o, o + k - 1) \in Word(k)
    BY <2>1, SubWordIs
  <2>3. SubSeq(c, o, 7) \in Word(k)
    BY <2>1, <2>2
  <2> QED BY <2>3 DEF k, o
<1>2. 7 \in Nat /\ 16 \in Nat /\ 7 + 16 = 23
  OBVIOUS
<1> HIDE DEF x
<1>3. w \in Word(7 + 16)
  BY <1>1, <1>2, JoinedWords
<1>4. w \in Word(23)
  BY <1>2, <1>3
<1> HIDE DEF w
<1>5. SubSeq(w, 1, n) \in Word(n)
  <2> DEFINE l == 23
             o == 1
  <2>1. /\ l \in Nat /\ n \in Nat /\ o \in Nat /\ 1 <= o /\ o + n - 1 <= l /\ o + n - 1 = n
        /\ w \in Word(l)
    BY <1>4
  <2> HIDE DEF l, o
  <2>2. SubSeq(w, o, o + n - 1) \in Word(n)
    BY <2>1, SubWordIs
  <2>3. SubSeq(w, o, n) \in Word(n)
    BY <2>1, <2>2
  <2> QED BY <2>3 DEF o
<1> QED BY <1>5 DEF w, x

LEMMA JVCWord ==
  ASSUME NEW a \in Word(16), NEW c \in Word(16) PROVE Byte(a, 0) \o Byte(c, 0) \in Word(16)
<1> DEFINE x == Byte(a, 0)
           y == Byte(c, 0)
<1>1. x \in Word(8) /\ y \in Word(8)
  BY Sixteen
<1> HIDE DEF x, y
<1>2. x \o y \in Word(16)
  BY <1>1, TwoBytes
<1> QED BY <1>2 DEF x, y

LEMMA CheckedByte ==
  ASSUME NEW b \in Word(8)
  PROVE  /\ Checked(b) \in Word(16) /\ IsChecked(Checked(b), 0) /\ Byte(Checked(b), 0) = b
<1> DEFINE w == Checked(b)
<1>1. /\ w \in Word(16) /\ \A i \in 1 .. 8 : w[i] = b[i] /\ w[8 + i] = 1 - b[i]
  BY CheckedIs
<1>2. 8 \in Nat /\ 0 + 1 = 1
  OBVIOUS
<1>3. /\ Inverted(b) \in Word(8) /\ \A i \in 1 .. 8 : Inverted(b)[i] = 1 - b[i]
  BY <1>2, InvertedIs, Zenon
<1> HIDE DEF w
<1>4. /\ Byte(w, 0) \in Word(8) /\ Byte(w, 1) \in Word(8)
      /\ \A i \in 1 .. 8 : Byte(w, 0)[i] = w[i] /\ Byte(w, 1)[i] = w[8 + i]
  BY <1>1, Sixteen
<1>5. Byte(w, 0) = b
  <2>1. \A i \in 1 .. 8 : Byte(w, 0)[i] = b[i]
    BY <1>1, <1>4
  <2> QED BY <1>2, <1>4, <2>1, WordsEqual, Zenon
<1>6. Byte(w, 1) = Inverted(b)
  <2>1. \A i \in 1 .. 8 : Byte(w, 1)[i] = Inverted(b)[i]
    BY <1>1, <1>3, <1>4
  <2> QED BY <1>2, <1>3, <1>4, <2>1, WordsEqual, Zenon
<1>7. IsChecked(w, 0)
  BY <1>2, <1>5, <1>6 DEF IsChecked
<1> QED BY <1>1, <1>5, <1>7 DEF w

LEMMA DenonWordIs ==
  ASSUME NEW a \in Word(16), NEW c \in Word(16), NEW sharp \in BOOLEAN
  PROVE  LET w == DenonWord(a, c, sharp)
         IN  /\ w \in Word(15) /\ w[14] = 0 /\ w[15] = IF sharp THEN 1 ELSE 0
             /\ \A i \in 1 .. 5 : w[i] = a[i]
             /\ \A i \in 1 .. 8 : w[5 + i] = c[i]
<1> DEFINE x == SubSeq(a, 1, 5)
           y == Byte(c, 0)
           s == IF sharp THEN 1 ELSE 0
           z == <<0, s>>
           xy == x \o y
           w == xy \o z
<1>1. x \in Word(5) /\ \A i \in 1 .. 5 : x[i] = a[i]
  <2> DEFINE l == 16
             k == 5
             o == 1
  <2>1. /\ l \in Nat /\ k \in Nat /\ o \in Nat /\ 1 <= o /\ o + k - 1 <= l /\ o + k - 1 = 5
        /\ a \in Word(l)
    OBVIOUS
  <2>2. \A i \in 1 .. 5 : o + i - 1 = i
    OBVIOUS
  <2> HIDE DEF l, o
  <2>3. /\ SubSeq(a, o, o + k - 1) \in Word(k)
        /\ \A i \in 1 .. k : SubSeq(a, o, o + k - 1)[i] = a[o + i - 1]
    <3> HIDE DEF k
    <3> QED BY <2>1, SubWordIs
  <2>4. SubSeq(a, o, 5) \in Word(5) /\ \A i \in 1 .. 5 : SubSeq(a, o, 5)[i] = a[i]
    BY <2>1, <2>2, <2>3
  <2> QED BY <2>4 DEF o
<1>2. y \in Word(8) /\ \A i \in 1 .. 8 : y[i] = c[i]
  BY Sixteen
<1>3. z \in Word(2) /\ z[1] = 0 /\ z[2] = s
  BY DEF Word, Bit
<1> HIDE DEF x, y, z, s
<1>4. 5 \in Nat /\ 8 \in Nat /\ 2 \in Nat /\ 13 \in Nat /\ 5 + 8 = 13 /\ 13 + 2 = 15
  OBVIOUS
<1>5. xy \in Word(5 + 8) /\ (\A j \in 1 .. 5 : xy[j] = x[j]) /\ \A j \in 1 .. 8 : xy[5 + j] = y[j]
  BY <1>1, <1>2, <1>4, JoinedWords, ZenonT(30)
<1>6. xy \in Word(13)
  BY <1>4, <1>5
<1> HIDE DEF xy
<1>7. w \in Word(13 + 2) /\ (\A j \in 1 .. 13 : w[j] = xy[j]) /\ \A j \in 1 .. 2 : w[13 + j] = z[j]
  BY <1>3, <1>4, <1>6, JoinedWords
<1> HIDE DEF w
<1>8. /\ w \in Word(15) /\ w[14] = 0 /\ w[15] = s
      /\ \A i \in 1 .. 5 : w[i] = a[i]
      /\ \A i \in 1 .. 8 : w[5 + i] = c[i]
  BY <1>1, <1>2, <1>3, <1>4, <1>5, <1>7
<1>9. DenonWord(a, c, sharp) = w
  BY Zenon DEF DenonWord, w, xy, x, y, z, s
<1> QED BY <1>8, <1>9 DEF s

LEMMA DenonInvertedIs ==
  ASSUME NEW w \in Word(15), w[14] = 0
  PROVE  LET v == DenonInverted(w)
         IN  /\ v \in Word(15) /\ v[14] = 1 /\ v[15] = 1 - w[15]
             /\ SubSeq(v, 1, 5) = SubSeq(w, 1, 5)
<1> DEFINE x == SubSeq(w, 1, 5)
           r == SubSeq(w, 6, 15)
           y == Inverted(r)
           v == x \o y
<1>1. x \in Word(5) /\ r \in Word(10) /\ \A i \in 1 .. 10 : r[i] = w[5 + i]
  <2> DEFINE l == 15
             k == 5
             o == 1
             kk == 10
             oo == 6
  <2>1. /\ l \in Nat /\ k \in Nat /\ o \in Nat /\ 1 <= o /\ o + k - 1 <= l /\ o + k - 1 = 5
        /\ w \in Word(l)
        /\ kk \in Nat /\ oo \in Nat /\ 1 <= oo /\ oo + kk - 1 <= l /\ oo + kk - 1 = 15
        /\ \A i \in 1 .. 10 : oo + i - 1 = 5 + i
    OBVIOUS
  <2> HIDE DEF l, k, o, kk, oo
  <2>2. SubSeq(w, o, o + k - 1) \in Word(k)
    BY <2>1, SubWordIs
  <2>3. /\ SubSeq(w, oo, oo + kk - 1) \in Word(kk)
        /\ \A i \in 1 .. kk : SubSeq(w, oo, oo + kk - 1)[i] = w[oo + i - 1]
    BY <2>1, SubWordIs
  <2>4. SubSeq(w, o, 5) \in Word(k) /\ SubSeq(w, oo, 15) \in Word(kk)
    BY <2>1, <2>2, <2>3
  <2>5. \A i \in 1 .. kk : SubSeq(w, oo, 15)[i] = w[oo + i - 1]
    BY <2>1, <2>3
  <2> QED BY <2>1, <2>4, <2>5 DEF k, o, kk, oo
<1>2. 5 \in Nat /\ 10 \in Nat /\ 5 + 10 = 15 /\ 5 > 0
  OBVIOUS
<1> HIDE DEF x, r
<1>3. y \in Word(10) /\ \A i \in 1 .. 10 : y[i] = 1 - r[i]
  BY <1>1, <1>2, InvertedIs
<1> HIDE DEF y
<1>4. v \in Word(5 + 10) /\ \A j \in 1 .. 10 : v[5 + j] = y[j]
  <2>1. x \in Word(5) /\ y \in Word(10)
    BY <1>1, <1>3, Zenon
  <2> QED BY <1>2, <2>1, JoinedWords
<1>5. SubSeq(v, 1, 5) = x
  BY <1>1, <1>2, <1>3, PartsOf
<1> HIDE DEF v
<1>6. v \in Word(15) /\ v[14] = 1 /\ v[15] = 1 - w[15]
  BY <1>1, <1>2, <1>3, <1>4
<1>7. DenonInverted(w) = v
  BY Zenon DEF DenonInverted, v, x, y, r
<1> QED BY <1>5, <1>6, <1>7 DEF x

LEMMA LegoWordIs ==
  ASSUME NEW a \in Word(4), NEW c \in Word(4), NEW m \in Word(4)
  PROVE  LegoWord(a, c, m) \in Word(16)
<1> DEFINE i == Inverted(a)
           p == Xor(i, m)
           x == Xor(p, c)
           xc == x \o c
           xcm == xc \o m
<1>1. 4 \in Nat /\ 8 \in Nat /\ 12 \in Nat /\ 4 + 4 = 8 /\ 8 + 4 = 12 /\ 12 + 4 = 16
  OBVIOUS
<1>2. i \in Word(4)
  BY <1>1, InvertedIs
<1> HIDE DEF i
<1>3. p \in Word(4)
  BY <1>1, <1>2, XorIs
<1> HIDE DEF p
<1>4. x \in Word(4)
  BY <1>1, <1>3, XorIs
<1> HIDE DEF x
<1>5. xc \in Word(4 + 4)
  BY <1>1, <1>4, JoinedWords
<1>6. xc \in Word(8)
  BY <1>1, <1>5
<1> HIDE DEF xc
<1>7. xcm \in Word(8 + 4)
  BY <1>1, <1>6, JoinedWords
<1>8. xcm \in Word(12)
  BY <1>1, <1>7
<1> HIDE DEF xcm
<1>9. xcm \o a \in Word(12 + 4)
  BY <1>1, <1>8, JoinedWords
<1>10. LegoWord(a, c, m) = xcm \o a
  BY Zenon DEF LegoWord, xcm, xc, x, p, i
<1> QED BY <1>1, <1>9, <1>10

LEMMA KaseikyoWordIs ==
  ASSUME NEW vendor \in Word(16), NEW a \in Word(16), NEW c \in Word(16)
  PROVE  KaseikyoWord(vendor, a, c) \in Word(48)
<1> DEFINE byte0 == Xor(Byte(vendor, 0), Byte(vendor, 1))
           v0 == SubSeq(byte0, 1, 4)
           v1 == SubSeq(byte0, 5, 8)
           parity == Xor(v0, v1)
           a12 == SubSeq(a, 1, 12)
           low == parity \o a12
           byte == Byte(c, 0)
           x == Xor(Byte(low, 0), Byte(low, 1))
           y == Xor(byte, x)
           high == byte \o y
<1>1. /\ 4 \in Nat /\ 8 \in Nat /\ 12 \in Nat /\ 4 + 12 = 16
  OBVIOUS
<1>2. byte0 \in Word(8) /\ byte \in Word(8)
  <2>1. Byte(vendor, 0) \in Word(8) /\ Byte(vendor, 1) \in Word(8) /\ byte \in Word(8)
    BY Sixteen
  <2> QED BY <1>1, <2>1, XorIs
<1> HIDE DEF byte0, byte
<1>3. v0 \in Word(4) /\ v1 \in Word(4)
  <2> DEFINE l == 8
             k == 4
             o == 1
             oo == 5
  <2>1. /\ l \in Nat /\ k \in Nat /\ o \in Nat /\ 1 <= o /\ o + k - 1 <= l /\ o + k - 1 = 4
        /\ oo \in Nat /\ 1 <= oo /\ oo + k - 1 <= l /\ oo + k - 1 = 8 /\ byte0 \in Word(l)
    BY <1>2
  <2> HIDE DEF l, k, o, oo
  <2>2. SubSeq(byte0, o, o + k - 1) \in Word(k) /\ SubSeq(byte0, oo, oo + k - 1) \in Word(k)
    BY <2>1, SubWordIs
  <2>3. SubSeq(byte0, o, 4) \in Word(k) /\ SubSeq(byte0, oo, 8) \in Word(k)
    BY <2>1, <2>2
  <2> QED BY <2>3 DEF k, o, oo
<1> HIDE DEF v0, v1
<1>4. parity \in Word(4)
  BY <1>1, <1>3, XorIs
<1> HIDE DEF parity
<1>5. a12 \in Word(12)
  <2> DEFINE l == 16
             k == 12
             o == 1
  <2>1. /\ l \in Nat /\ k \in Nat /\ o \in Nat /\ 1 <= o /\ o + k - 1 <= l /\ o + k - 1 = 12
        /\ a \in Word(l)
    OBVIOUS
  <2> HIDE DEF l, k, o
  <2>2. SubSeq(a, o, o + k - 1) \in Word(k)
    BY <2>1, SubWordIs
  <2>3. SubSeq(a, o, 12) \in Word(k)
    BY <2>1, <2>2
  <2> QED BY <2>3 DEF k, o
<1> HIDE DEF a12
<1>6. low \in Word(4 + 12)
  BY <1>1, <1>4, <1>5, JoinedWords
<1>7. low \in Word(16)
  BY <1>1, <1>6
<1> HIDE DEF low
<1>8. x \in Word(8)
  <2>1. Byte(low, 0) \in Word(8) /\ Byte(low, 1) \in Word(8)
    BY <1>7, Sixteen
  <2> QED BY <1>1, <2>1, XorIs
<1> HIDE DEF x
<1>9. y \in Word(8)
  BY <1>1, <1>2, <1>8, XorIs
<1> HIDE DEF y
<1>10. high \in Word(16)
  BY <1>2, <1>9, TwoBytes
<1>11. vendor \o low \o high \in Word(48)
  <2> HIDE DEF high
  <2> QED BY <1>7, <1>10, ThreeWords
<1>12. vendor \o low \o high = vendor \o low \o byte \o y
  <2> DEFINE first == vendor \o low
  <2>1. first \in Word(32)
    BY <1>7, TwoWords
  <2> HIDE DEF first
  <2>2. first \in Seq(Bit) /\ byte \in Seq(Bit) /\ y \in Seq(Bit)
    <3>1. 32 \in Nat
      OBVIOUS
    <3> QED BY <1>1, <1>2, <1>9, <2>1, <3>1, WordSeq
  <2>3. first \o (byte \o y) = (first \o byte) \o y
    BY <2>2
  <2> QED BY <2>3 DEF first
<1>13. KaseikyoWord(vendor, a, c) = vendor \o low \o byte \o y
  BY Zenon DEF KaseikyoWord, VendorParity, low, byte, y, x, parity, v0, v1, byte0, a12
<1> QED BY <1>11, <1>12, <1>13

(* Only whether a bit is one tells in what is sent.                        *)
LEMMA AnyWord ==
  ASSUME NEW n \in Nat, NEW S, NEW w \in Seq(S), Len(w) = n, NEW c
  PROVE  \E v \in Word(n) : sendPulseDistanceWidth(c, w) = sendPulseDistanceWidth(c, v)
<1> DEFINE v == [i \in 1 .. n |-> IF w[i] = 1 THEN 1 ELSE 0]
           sw == Sent(c, w)
           sv == Sent(c, v)
           f(s) == [k \in 1 .. (2 * n) |->
                      IF k % 2 = 1 THEN MarkOf(c, s[(k + 1) \div 2]) ELSE SpaceOf(c, s[k \div 2])]
           stop == IF c.oneMark = c.zeroMark THEN <<c.zeroMark>> ELSE <<>>
<1>1. v \in Word(n) /\ Len(v) = n /\ \A i \in 1 .. n : v[i] = 1 <=> w[i] = 1
  <2>1. v \in Word(n)
    BY DEF Word, Bit
  <2> QED BY <2>1, WordLen
<1> HIDE DEF v
<1>2. \A i \in 1 .. n : sv[i] = 1 <=> sw[i] = 1
  <2>1. CASE c.msbFirst
    <3>1. \A i \in 1 .. n : sv[i] = v[n - i + 1] /\ sw[i] = w[n - i + 1]
      BY <1>1, <2>1 DEF Sent, Reverse
    <3> HIDE DEF sv, sw
    <3> QED BY <1>1, <3>1
  <2>2. CASE ~c.msbFirst
    BY <1>1, <2>2 DEF Sent
  <2> QED BY <2>1, <2>2
<1>3. sendPulseDistanceWidthData(c, w) = f(sw) \o stop
  BY Zenon DEF sendPulseDistanceWidthData, Sent, MarkOf, SpaceOf
<1>4. sendPulseDistanceWidthData(c, v) = f(sv) \o stop
  BY <1>1, Zenon DEF sendPulseDistanceWidthData, Sent, MarkOf, SpaceOf
<1> HIDE DEF sw, sv, stop
<1>5. f(sw) = f(sv)
  <2>1. ASSUME NEW k \in 1 .. (2 * n) PROVE f(sw)[k] = f(sv)[k]
    <3>1. CASE k % 2 = 1
      <4>1. (k + 1) \div 2 \in 1 .. n
        BY <3>1
      <4> QED BY <1>2, <3>1, <4>1 DEF MarkOf
    <3>2. CASE k % 2 # 1
      <4>1. k \div 2 \in 1 .. n
        BY <3>2
      <4> QED BY <1>2, <3>2, <4>1 DEF SpaceOf
    <3> QED BY <3>1, <3>2
  <2> QED BY <2>1
<1>6. sendPulseDistanceWidthData(c, w) = sendPulseDistanceWidthData(c, v)
  BY <1>3, <1>4, <1>5, Zenon
<1>7. sendPulseDistanceWidth(c, w) = sendPulseDistanceWidth(c, v)
  BY <1>6, Zenon DEF sendPulseDistanceWidth
<1> QED BY <1>1, <1>7

LEMMA FunctionSeq ==
  ASSUME NEW n \in Nat, NEW S, NEW f \in [1 .. n -> S] PROVE f \in Seq(S) /\ Len(f) = n
OBVIOUS

LEMMA LGWord ==
  ASSUME NEW a \in Word(16), NEW c \in Word(16)
  PROVE  \E w \in Word(28) :
           sendPulseDistanceWidth(LGProtocolConstants, computeLGRawDataAndChecksum(a, c))
             = sendPulseDistanceWidth(LGProtocolConstants, w)
<1> DEFINE x == LGChecksum(c)
           S == {x[i] : i \in 1 .. 4} \union Bit
           xc == x \o c
           b == Byte(a, 0)
           w == xc \o b
           n == 28
<1>1. x \in Seq(S) /\ Len(x) = 4
  <2> DEFINE m == 4
  <2>1. \E v : x = [i \in 1 .. m |-> (v \div 2^(i - 1)) % 2]
    BY Zenon DEF LGChecksum, Bits
  <2>2. m \in Nat
    OBVIOUS
  <2> HIDE DEF m
  <2>3. DOMAIN x = 1 .. m /\ x = [i \in 1 .. m |-> x[i]]
    BY <2>1
  <2>4. \A i \in 1 .. m : x[i] \in S
    BY DEF m
  <2> HIDE DEF S, x
  <2>5. x \in [1 .. m -> S]
    BY <2>3, <2>4
  <2>6. x \in Seq(S) /\ Len(x) = m
    BY <2>2, <2>5, FunctionSeq
  <2> QED BY <2>6 DEF m
<1>2. c \in Seq(S) /\ Len(c) = 16 /\ b \in Seq(S) /\ Len(b) = 8
  <2>1. 16 \in Nat /\ 8 \in Nat
    OBVIOUS
  <2>2. b \in Word(8)
    BY Sixteen
  <2> HIDE DEF b
  <2>3. c \in Seq(Bit) /\ Len(c) = 16 /\ b \in Seq(Bit) /\ Len(b) = 8
    BY <2>1, <2>2, WordSeq
  <2> QED BY <2>3
<1> HIDE DEF x, S, b
<1>3. xc \in Seq(S) /\ Len(xc) = 20
  <2>1. xc \in Seq(S) /\ Len(xc) = Len(x) + Len(c)
    BY <1>1, <1>2, Joined, ZenonT(30)
  <2> HIDE DEF xc
  <2> QED BY <1>1, <1>2, <2>1
<1> HIDE DEF xc
<1>4. w \in Seq(S) /\ Len(w) = n /\ n \in Nat
  <2>1. w \in Seq(S) /\ Len(w) = Len(xc) + Len(b)
    BY <1>2, <1>3, Joined, ZenonT(30)
  <2> HIDE DEF w
  <2> QED BY <1>2, <1>3, <2>1
<1>5. computeLGRawDataAndChecksum(a, c) = w
  BY Zenon DEF computeLGRawDataAndChecksum, w, xc, x, b
<1> HIDE DEF w, n
<1>6. \E v \in Word(n) : sendPulseDistanceWidth(LGProtocolConstants, w)
                           = sendPulseDistanceWidth(LGProtocolConstants, v)
  BY <1>4, AnyWord
<1> QED BY <1>5, <1>6 DEF n

(* A Sony code without bits, stored for the repeat of another protocol:    *)
(* its frames are a header mark, which no decoder takes.                   *)
LEMMA BareMark ==
  ASSUME NEW w, w \in Word(0)
  PROVE  Fixed(sendPulseDistanceWidth(SonyProtocolConstants, w), Blank.address, Blank.command)
<1> DEFINE c == SonyProtocolConstants
           f == sendPulseDistanceWidth(c, w)
<1>1. f \in Seq(Nat) /\ Len(f) = 1 /\ f[1] = 2400
  <2> DEFINE n == 0
  <2>1. n \in Nat /\ w \in Word(n) /\ 2 * n + 1 = 1
    OBVIOUS
  <2>2. c \in Timings /\ ByMark(c) /\ c.headerMark = 2400
    BY SonyTiming
  <2> HIDE DEF n, c
  <2>3. f \in Seq(Nat) /\ Len(f) = 2 * n + 1 /\ f[1] = c.headerMark
    BY <2>1, <2>2, FramedEntries
  <2> QED BY <2>1, <2>2, <2>3
<1> HIDE DEF f
<1>2. ASSUME NEW rx, NEW last, Sampled(f, rx.ticks)
      PROVE  Mid_IrRemoteDecode(rx, last) = Blank
  <2> DEFINE t == rx.ticks[1]
  <2>1. Len(rx.ticks) = 1 /\ rawlen(rx) = 2 /\ MarkTicks(2400, t)
    <3>1. Len(rx.ticks) = 1
      BY <1>1, <1>2 DEF Sampled
    <3>2. MarkTicks(2400, t)
      <4>1. 1 \in 1 .. Len(f) /\ 1 % 2 = 1
        BY <1>1
      <4>2. MarkTicks(f[1], t)
        BY <1>2, <4>1, Zenon DEF Sampled
      <4> QED BY <1>1, <4>2
    <3> QED BY <3>1, <3>2 DEF rawlen
  <2>2. t \in Int /\ t >= 46 /\ t <= 68
    BY <2>1 DEF MarkTicks
  <2>3. ~IsRC5(rx)
    BY <2>1, <2>2, LongMarkNotRC5
  <2>4. ~IsRC6(rx)
    BY <2>1 DEF IsRC6
  <2>5. /\ ~IsNec(rx) /\ ~IsKaseikyo(rx) /\ ~IsDenon(rx) /\ ~IsSony(rx) /\ ~IsLG(rx) /\ ~IsJVC(rx)
        /\ ~IsSamsung(rx) /\ ~IsFAST(rx) /\ ~IsWhynter(rx) /\ ~IsLego(rx) /\ ~IsBoseWave(rx)
    BY <2>1, Refusals
  <2>6. ~IsMagiQuest(rx) /\ ~IsDistanceWidth(rx)
    BY <2>1 DEF IsMagiQuest, IsDistanceWidth, FrameLength
  <2>7. FirstToTake(rx) = "Hash"
    BY <2>3, <2>4, <2>5, <2>6, InTurn, Zenon
  <2> QED BY <2>7 DEF Mid_IrRemoteDecode
<1>3. f \in Seq(Nat)
  BY <1>1
<1>4. Fixed(f, Blank.address, Blank.command)
  BY <1>2, <1>3, Zenon DEF Fixed
<1> QED BY <1>4 DEF f

----------------------------------------------------------------------------
(* Every emission of a code that was decoded repeats what it says.         *)

Sendable(d) == Typed(d) /\ (d.protocol = "SONY" => d.numberOfBits \in {0, 12, 15, 20})

LEMMA NecRepeats ==
  ASSUME NEW d, Typed(d)
  PROVE  /\ Repeats(<<NecSent(d), sendNECSpecialRepeat>>) /\ Repeats(Twice(NecSent(d)))
         /\ Repeats(<<OnkyoSent(d), sendNECSpecialRepeat>>)
         /\ Repeats(<<AppleSent(d), sendNECSpecialRepeat>>)
<1>1. \A w \in Word(32) :
        LET f == sendPulseDistanceWidth(NECProtocolConstants, w)
        IN  Repeats(<<f, sendNECSpecialRepeat>>) /\ Repeats(Twice(f))
  BY NecFixed, ShortAgain, AgainRepeats, TwiceRepeats, Zenon
<1>2. d.address \in Word(16) /\ d.command \in Word(16)
  BY Zenon DEF Typed
<1> QED BY <1>1, <1>2, NecWords, Zenon DEF NecSent, OnkyoSent, AppleSent

LEMMA SamsungRepeats ==
  ASSUME NEW d, Typed(d)
  PROVE  /\ Repeats(<<SamsungSent(d), sendSamsungLGSpecialRepeat>>)
         /\ Repeats(<<SamsungLGSent(d), sendSamsungLGSpecialRepeat>>)
         /\ Repeats(Twice(Samsung48Sent(d)))
<1>1. \A n \in {32, 48} : \A w \in Word(n) :
        LET f == sendPulseDistanceWidth(SamsungProtocolConstants, w)
        IN  Repeats(<<f, sendSamsungLGSpecialRepeat>>) /\ Repeats(Twice(f))
  BY SamsungFixed, ShortAgain, AgainRepeats, TwiceRepeats, ZenonT(30)
<1>2. /\ \A w \in Word(32) :
           LET f == sendPulseDistanceWidth(SamsungProtocolConstants, w)
           IN  Repeats(<<f, sendSamsungLGSpecialRepeat>>)
      /\ \A w \in Word(48) :
           LET f == sendPulseDistanceWidth(SamsungProtocolConstants, w)
           IN  Repeats(Twice(f))
  <2>1. 32 \in {32, 48} /\ 48 \in {32, 48}
    OBVIOUS
  <2> QED BY <1>1, <2>1, Zenon
<1>3. d.address \in Word(16) /\ d.command \in Word(16)
  BY Zenon DEF Typed
<1> QED BY <1>2, <1>3, SamsungWords, Zenon DEF SamsungSent, SamsungLGSent, Samsung48Sent

LEMMA KaseikyoRepeats ==
  ASSUME NEW d, Typed(d), NEW vendor \in Vendors PROVE Repeats(sendKaseikyo(vendor, d))
<1> DEFINE w == KaseikyoWord(vendor, d.address, d.command)
<1>1. w \in Word(48)
  BY VendorWord, KaseikyoWordIs, Zenon DEF Typed
<1>2. sendKaseikyo(vendor, d) = Twice(sendPulseDistanceWidth(KaseikyoProtocolConstants, w))
  BY Zenon DEF sendKaseikyo
<1> HIDE DEF w
<1> QED BY <1>1, <1>2, KaseikyoFixed, TwiceRepeats, Zenon

LEMMA SonyRepeats ==
  ASSUME NEW d, Sendable(d), d.protocol = "SONY" PROVE Repeats(Twice(SonySent(d)))
<1> DEFINE n == d.numberOfBits
           w == SubSeq(SubSeq(d.command, 1, 7) \o d.address, 1, n)
           f == sendPulseDistanceWidth(SonyProtocolConstants, w)
<1>1. n \in {0, 12, 15, 20} /\ d.address \in Word(16) /\ d.command \in Word(16)
  BY Zenon DEF Sendable, Typed
<1> HIDE DEF n
<1>2. n \in 0 .. 23
  BY <1>1
<1>3. w \in Word(n)
  BY <1>1, <1>2, SonyWord, Zenon
<1> HIDE DEF w
<1>4. \E a, c : Fixed(f, a, c)
  <2>1. CASE n = 0
    <3>1. w \in Word(0)
      BY <1>3, <2>1
    <3> QED BY <3>1, BareMark, Zenon
  <2>2. CASE n \in {12, 15, 20}
    BY <1>3, <2>2, SonyFixed, Zenon
  <2> QED BY <1>1, <2>1, <2>2, Zenon
<1>5. Repeats(Twice(f))
  BY <1>4, TwiceRepeats, Zenon
<1>6. SonySent(d) = f
  BY Zenon DEF SonySent, w, n
<1> QED BY <1>5, <1>6, Zenon

LEMMA LGRepeats ==
  ASSUME NEW d, Typed(d) PROVE Repeats(<<LGSent(d), sendNECSpecialRepeat>>)
<1> DEFINE c == LGCommand(d.command)
           a == d.address
<1>1. a \in Word(16) /\ d.command \in Word(16)
  BY Zenon DEF Typed
<1>2. c \in Word(16)
  <2> DEFINE n == 16
             b == Byte(d.command, 0)
  <2>1. n \in Nat /\ b \in Seq(Bit)
    <3>1. b \in Word(8) /\ 8 \in Nat
      BY <1>1, Sixteen
    <3> QED BY <3>1, WordSeq
  <2> HIDE DEF n, b
  <2>2. Widen(b, n) \in Word(n)
    BY <2>1, WidenWord
  <2> QED BY <2>2 DEF LGCommand, n, b
<1> HIDE DEF c
<1>3. PICK w \in Word(28) : sendPulseDistanceWidth(LGProtocolConstants,
                              computeLGRawDataAndChecksum(a, c))
                              = sendPulseDistanceWidth(LGProtocolConstants, w)
  BY <1>1, <1>2, LGWord, Zenon
<1>4. LGSent(d) = sendPulseDistanceWidth(LGProtocolConstants, w)
  BY <1>3, Zenon DEF LGSent, c
<1> QED BY <1>4, LGFixed, ShortAgain, AgainRepeats, Zenon

LEMMA JVCRepeats ==
  ASSUME NEW d, Typed(d) PROVE Repeats(sendJVC(Byte(d.address, 0) \o Byte(d.command, 0)))
<1> DEFINE w == Byte(d.address, 0) \o Byte(d.command, 0)
<1>1. w \in Word(16)
  BY JVCWord, Zenon DEF Typed
<1> HIDE DEF w
<1>2. Repeats(sendJVC(w))
  BY <1>1, JVCFixed, AgainRepeats, Zenon DEF sendJVC
<1> QED BY <1>2 DEF w

LEMMA BiphaseRepeats ==
  ASSUME NEW d, Typed(d), NEW t \in Bit
  PROVE  /\ Repeats(Twice(sendBiphaseData(RC5_UNIT, RC5Word(d.address, d.command, t))))
         /\ Repeats(Twice(RC6Frame(RC6Word(d.address, d.command, t))))
<1>1. d.address \in Word(16) /\ d.command \in Word(16)
  BY Zenon DEF Typed
<1>2. RC5Word(d.address, d.command, t) \in Word(13)
  BY <1>1, RC5WordIs, Zenon
<1>3. RC6Word(d.address, d.command, t) \in Word(20)
  BY <1>1, RC6WordIs, Zenon
<1> QED BY <1>2, <1>3, RC5Fixed, RC6Fixed, TwiceRepeats, Zenon

LEMMA Nibbles ==
  ASSUME NEW w \in Word(16)
  PROVE  /\ SubSeq(w, 1, 4) \in Word(4) /\ SubSeq(w, 5, 8) \in Word(4)
         /\ SubSeq(w, 9, 12) \in Word(4) /\ SubSeq(w, 13, 16) \in Word(4)
<1> DEFINE n == 16
           m == 4
<1>1. n \in Nat /\ m \in Nat /\ w \in Word(n)
  OBVIOUS
<1>2. \A a \in 1 .. 13 : a \in Nat /\ 1 <= a /\ a + m - 1 <= n
  OBVIOUS
<1>3. 1 + m - 1 = 4 /\ 5 + m - 1 = 8 /\ 9 + m - 1 = 12 /\ 13 + m - 1 = 16
  OBVIOUS
<1> HIDE DEF n, m
<1>4. \A a \in 1 .. 13 : SubSeq(w, a, a + m - 1) \in Word(m)
  BY <1>1, <1>2, SubWordIs
<1>5. 1 \in 1 .. 13 /\ 5 \in 1 .. 13 /\ 9 \in 1 .. 13 /\ 13 \in 1 .. 13
  OBVIOUS
<1>6. /\ SubSeq(w, 1, 1 + m - 1) \in Word(m) /\ SubSeq(w, 5, 5 + m - 1) \in Word(m)
      /\ SubSeq(w, 9, 9 + m - 1) \in Word(m) /\ SubSeq(w, 13, 13 + m - 1) \in Word(m)
  BY <1>4, <1>5
<1>7. /\ SubSeq(w, 1, 4) \in Word(m) /\ SubSeq(w, 5, 8) \in Word(m)
      /\ SubSeq(w, 9, 12) \in Word(m) /\ SubSeq(w, 13, 16) \in Word(m)
  BY <1>3, <1>6
<1> QED BY <1>7 DEF m

LEMMA RareRepeats ==
  ASSUME NEW d, Typed(d)
  PROVE  /\ Repeats(Twice(BoseWaveSent(d))) /\ Repeats(Twice(FASTSent(d)))
         /\ \A n \in {1, 5} : Repeats([i \in 1 .. n |-> LegoSent(d)])
<1> DEFINE b == Byte(d.command, 0)
<1>1. d.address \in Word(16) /\ d.command \in Word(16)
  BY Zenon DEF Typed
<1>2. b \in Word(8)
  BY <1>1, Sixteen
<1>3. Repeats(Twice(BoseWaveSent(d))) /\ Repeats(Twice(FASTSent(d)))
  <2> DEFINE w == Checked(b)
  <2>1. w \in Word(16) /\ IsChecked(w, 0)
    BY <1>2, CheckedByte
  <2> HIDE DEF w
  <2>2. BoseWaveSent(d) = sendPulseDistanceWidth(BoseWaveProtocolConstants, w)
    BY Zenon DEF BoseWaveSent, w
  <2>3. FASTSent(d) = sendPulseDistanceWidth(FASTProtocolConstants, w)
    BY Zenon DEF FASTSent, w
  <2> QED BY <2>1, <2>2, <2>3, RareFixed, TwiceRepeats, Zenon
<1>4. \E a, c : Fixed(LegoSent(d), a, c)
  <2>1. LegoWord(SubSeq(d.address, 1, 4), SubSeq(d.command, 1, 4), SubSeq(d.command, 5, 8))
          \in Word(16)
    <3>1. /\ SubSeq(d.address, 1, 4) \in Word(4)
          /\ SubSeq(d.command, 1, 4) \in Word(4) /\ SubSeq(d.command, 5, 8) \in Word(4)
      BY <1>1, Nibbles, Zenon
    <3> QED BY <3>1, LegoWordIs, Zenon
  <2> QED BY <2>1, RareFixed, Zenon DEF LegoSent
<1>5. ASSUME NEW n \in {1, 5} PROVE Repeats([i \in 1 .. n |-> LegoSent(d)])
  <2> DEFINE f == LegoSent(d)
             s == [i \in 1 .. n |-> f]
  <2>1. PICK a, c : Fixed(f, a, c)
    BY <1>4
  <2> HIDE DEF f
  <2>2. Len(s) > 1 => s[1] = f /\ s[2] = f
    <3>1. n \in Nat
      OBVIOUS
    <3>2. Len(s) = n
      BY <3>1
    <3> QED BY <3>1, <3>2
  <2> HIDE DEF s
  <2>3. Len(s) > 1 => s[1] \in Seq(Nat) /\ s[2] \in Seq(Nat)
    BY <2>1, <2>2, Zenon DEF Fixed
  <2>4. Repeats(s)
    <3> DEFINE long == Len(s) > 1
    <3>1. CASE ~long
      BY <3>1, Zenon DEF Repeats
    <3>2. CASE long
      <4> HIDE DEF long
      <4>1. s[1] = f /\ s[2] = f
        BY <2>2, <3>2, Zenon DEF long
      <4> QED BY <2>1, <4>1, Zenon DEF Fixed, Repeats
    <3> QED BY <3>1, <3>2
  <2> QED BY <2>4 DEF s, f
<1> QED BY <1>3, <1>4, <1>5

LEMMA WidenSame == ASSUME NEW w \in Word(16) PROVE Widen(w, 16) = w
<1>1. Len(w) = 16
  BY WordLen
<1> QED BY <1>1 DEF Widen, Word

LEMMA DenonRepeats ==
  ASSUME NEW d, Typed(d), NEW sharp \in BOOLEAN
  PROVE  Repeats(sendDenon(DenonWord(d.address, d.command, sharp)))
<1> DEFINE w == DenonWord(d.address, d.command, sharp)
           v == DenonInverted(w)
           f == sendPulseDistanceWidthData(DenonProtocolConstants, w)
           g == sendPulseDistanceWidthData(DenonProtocolConstants, v)
           s == sendDenon(w)
<1>1. w \in Word(15) /\ w[14] = 0
  BY DenonWordIs, ZenonT(30) DEF Typed
<1> HIDE DEF w
<1>2. v \in Word(15) /\ v[14] = 1 /\ SubSeq(v, 1, 5) = SubSeq(w, 1, 5)
  BY <1>1, DenonInvertedIs
<1> HIDE DEF v
<1>3. f \in Seq(Nat) /\ g \in Seq(Nat)
  <2> DEFINE n == 15
  <2>1. n \in Nat /\ w \in Word(n) /\ v \in Word(n)
    BY <1>1, <1>2
  <2> HIDE DEF n
  <2> QED BY <2>1, Frames, Zenon
<1>4. s[1] = f /\ s[2] = g
  <2>1. s = <<f, g>> \o <<f, g>>
    BY Zenon DEF sendDenon, v
  <2> HIDE DEF s, f, g
  <2> QED BY <2>1
<1>5. ASSUME NEW rx1, NEW rx2, Sampled(f, rx1.ticks), Late(rx1), Sampled(g, rx2.ticks), Soon(rx2)
      PROVE  LET first == Mid_IrRemoteDecode(rx1, Blank)
                 second == Mid_IrRemoteDecode(rx2, first)
             IN  first.address = second.address /\ first.command = second.command
  <2> DEFINE first == Mid_IrRemoteDecode(rx1, Blank)
             second == Mid_IrRemoteDecode(rx2, first)
             x == SubSeq(w, 1, 5)
  <2>1. rx1.pause \in Nat /\ rx2.pause \in Nat /\ rx2.pause < 1125
    BY <1>5 DEF Late, Soon
  <2>2. first.address = Widen(x, 16)
    <3>1. HasCode(first, IF w[15] = 1 THEN "SHARP" ELSE "DENON", SubSeq(w, 1, 5),
                  SubSeq(w, 6, 13), w, 15)
      <4> HIDE DEF first
      <4> QED BY <1>1, <1>5, <2>1, DenonDecoded DEF first
    <3> HIDE DEF first
    <3> QED BY <3>1, Zenon DEF HasCode
  <2>3. Typed(first)
    <3> DEFINE l == Len(rx1.ticks)
    <3>1. l \in Nat
      BY <1>5, SampledLen, Zenon
    <3> QED BY <3>1, BlankTyped, DecodedTyped
  <2>4. second.address = Widen(x, 16) /\ second.command = Widen(first.command, 16)
    <3> HIDE DEF first
    <3>1. HasCode(second, IF v[15] = 0 THEN "SHARP" ELSE "DENON", SubSeq(v, 1, 5),
                  first.command, v, 15)
      <4> HIDE DEF second
      <4> QED BY <1>2, <1>5, <2>1, DenonDecoded DEF second
    <3> HIDE DEF second, x
    <3> QED BY <1>2, <3>1, Zenon DEF HasCode, x
  <2> HIDE DEF first, second, x
  <2>5. first.address = second.address /\ first.command = second.command
    BY <2>2, <2>3, <2>4, WidenSame, Zenon DEF Typed
  <2> QED BY <2>5, Zenon DEF first, second
<1> HIDE DEF s, f, g
<1>6. Repeats(s)
  BY <1>3, <1>4, <1>5, Zenon DEF Repeats
<1> QED BY <1>6, Zenon DEF s, w

LEMMA EmissionRepeats ==
  ASSUME NEW d, Sendable(d), NEW t \in Bit PROVE Repeats(Mid_IrSendCommon(d, t))
<1> DEFINE s == Mid_IrSendCommon(d, t)
           p == d.protocol
<1> SUFFICES Repeats(s)
  OBVIOUS
<1>1. Typed(d)
  BY Zenon DEF Sendable
<1>2. \A f : Repeats(<<f>>)
  <2>1. \A f : ~(Len(<<f>>) > 1)
    OBVIOUS
  <2> QED BY <2>1, Zenon DEF Repeats
<1>3. Repeats(<<>>)
  <2>1. ~(Len(<<>>) > 1)
    OBVIOUS
  <2> QED BY <2>1, Zenon DEF Repeats
<1>4. CASE p \in {"NEC", "NEC2", "ONKYO", "APPLE"}
  <2>1. \/ s = <<NecSent(d), sendNECSpecialRepeat>>
        \/ s = Twice(NecSent(d))
        \/ s = <<OnkyoSent(d), sendNECSpecialRepeat>>
        \/ s = <<AppleSent(d), sendNECSpecialRepeat>>
    BY <1>4, SentFor, Zenon
  <2> HIDE DEF s
  <2> QED BY <1>1, <2>1, NecRepeats, Zenon
<1>5. CASE p \in {"SAMSUNG", "SAMSUNG_LG", "SAMSUNG48"}
  <2>1. \/ s = <<SamsungSent(d), sendSamsungLGSpecialRepeat>>
        \/ s = <<SamsungLGSent(d), sendSamsungLGSpecialRepeat>>
        \/ s = Twice(Samsung48Sent(d))
    BY <1>5, SentFor, Zenon
  <2> HIDE DEF s
  <2> QED BY <1>1, <2>1, SamsungRepeats, Zenon
<1>6. CASE p = "SONY"
  <2>1. s = Twice(SonySent(d))
    BY <1>6, SentFor, Zenon
  <2> HIDE DEF s
  <2> QED BY <1>6, <2>1, SonyRepeats, Zenon
<1>7. CASE p \in {"PANASONIC", "KASEIKYO_JVC", "KASEIKYO_DENON", "KASEIKYO_SHARP",
                  "KASEIKYO_MITSUBISHI"}
  <2>1. \/ s = sendKaseikyo(PANASONIC_VENDOR_ID_CODE, d)
        \/ s = sendKaseikyo(JVC_VENDOR_ID_CODE, d)
        \/ s = sendKaseikyo(DENON_VENDOR_ID_CODE, d)
        \/ s = sendKaseikyo(SHARP_VENDOR_ID_CODE, d)
        \/ s = sendKaseikyo(MITSUBISHI_VENDOR_ID_CODE, d)
    BY <1>7, SentFor, Zenon
  <2> HIDE DEF s
  <2> QED BY <1>1, <2>1, KaseikyoRepeats, Zenon DEF Vendors
<1>8. CASE p \in {"DENON", "SHARP"}
  <2>1. \/ s = sendDenon(DenonWord(d.address, d.command, FALSE))
        \/ s = sendDenon(DenonWord(d.address, d.command, TRUE))
    BY <1>8, SentFor, Zenon
  <2> HIDE DEF s
  <2> QED BY <1>1, <2>1, DenonRepeats, Zenon
<1>9. CASE p = "LG"
  <2>1. s = <<LGSent(d), sendNECSpecialRepeat>>
    BY <1>9, SentFor, Zenon
  <2> HIDE DEF s
  <2> QED BY <1>1, <2>1, LGRepeats, Zenon
<1>10. CASE p = "JVC"
  <2>1. s = sendJVC(Byte(d.address, 0) \o Byte(d.command, 0))
    BY <1>10, SentFor, Zenon
  <2> HIDE DEF s
  <2> QED BY <1>1, <2>1, JVCRepeats, Zenon
<1>11. CASE p \in {"RC5", "RC6"}
  <2>1. \/ s = Twice(sendBiphaseData(RC5_UNIT, RC5Word(d.address, d.command, t)))
        \/ s = Twice(RC6Frame(RC6Word(d.address, d.command, t)))
    BY <1>11, SentFor, Zenon
  <2> HIDE DEF s
  <2> QED BY <1>1, <2>1, BiphaseRepeats, Zenon
<1>12. CASE p \in {"BOSEWAVE", "FAST"}
  <2>1. \/ s = Twice(BoseWaveSent(d))
        \/ s = Twice(FASTSent(d))
    BY <1>12, SentFor, Zenon
  <2> HIDE DEF s
  <2> QED BY <1>1, <2>1, RareRepeats, Zenon
<1>13. CASE p = "LEGO_PF"
  <2> DEFINE n == IF d.isRepeat THEN 5 ELSE 1
  <2>1. n \in {1, 5}
    OBVIOUS
  <2>2. s = [i \in 1 .. n |-> LegoSent(d)]
    BY <1>13, SentFor, Zenon
  <2> HIDE DEF n, s
  <2> QED BY <1>1, <2>1, <2>2, RareRepeats, Zenon
<1>14. CASE p \in {"MAGIQUEST", "PULSE_DISTANCE"}
  <2>1. \E f : s = <<f>>
    BY <1>14, SentFor, Zenon DEF Mid_IrSendPulseDistance
  <2> QED BY <1>2, <2>1, Zenon
<1>15. CASE p \notin {"NEC", "NEC2", "ONKYO", "APPLE", "SAMSUNG", "SAMSUNG_LG", "SAMSUNG48",
                      "SONY", "PANASONIC", "KASEIKYO_JVC", "KASEIKYO_DENON", "KASEIKYO_SHARP",
                      "KASEIKYO_MITSUBISHI", "DENON", "SHARP", "LG", "JVC", "RC5", "RC6",
                      "BOSEWAVE", "FAST", "MAGIQUEST", "LEGO_PF", "PULSE_DISTANCE"}
  <2>1. s = <<>>
    BY <1>15, SentFor, Zenon
  <2> QED BY <1>3, <2>1, Zenon
<1> HIDE DEF s, p
<1> QED BY <1>4, <1>5, <1>6, <1>7, <1>8, <1>9, <1>10, <1>11, <1>12, <1>13, <1>14, <1>15

(* The number of bits of a Sony code is one of those of its protocol, or   *)
(* none, when it stands for the code before it.                            *)
LEMMA SonyBitCount ==
  ASSUME NEW rx, Len(rx.ticks) \in Nat, NEW last, Sendable(last)
  PROVE  Sendable(Mid_IrRemoteDecode(rx, last))
<1> DEFINE d == Mid_IrRemoteDecode(rx, last)
           decoder == FirstToTake(rx)
           Fits(x) == x.protocol = "SONY" => x.numberOfBits \in {0, 12, 15, 20}
<1>1. Typed(d)
  BY DecodedTyped, Zenon DEF Sendable
<1>2. Takes(decoder, rx)
  BY FirstToTakeTakes
<1>3. d = CASE decoder = "Nec" -> decodeNec(rx, last)
            [] decoder = "Kaseikyo" -> decodeKaseikyo(rx)
            [] decoder = "Denon" -> decodeDenon(rx, last)
            [] decoder = "Sony" -> decodeSony(rx)
            [] decoder = "RC5" -> decodeRC5(rx)
            [] decoder = "RC6" -> decodeRC6(rx)
            [] decoder = "LG" -> decodeLG(rx, last)
            [] decoder = "JVC" -> decodeJVC(rx, last)
            [] decoder = "Samsung" -> decodeSamsung(rx, last)
            [] decoder = "FAST" -> decodeFAST(rx)
            [] decoder = "Whynter" -> decodeWhynter(rx)
            [] decoder = "Lego" -> decodeLegoPowerFunctions(rx)
            [] decoder = "BoseWave" -> decodeBoseWave(rx)
            [] decoder = "MagiQuest" -> decodeMagiQuest(rx)
            [] decoder = "DistanceWidth" -> decodeDistanceWidth(rx)
            [] decoder = "Hash" -> Blank
  BY Zenon DEF Mid_IrRemoteDecode
<1>4. decoder \in {"Nec", "Kaseikyo", "Denon", "Sony", "RC5", "RC6", "LG", "JVC", "Samsung",
                   "FAST", "Whynter", "Lego", "BoseWave", "MagiQuest", "DistanceWidth", "Hash"}
  <2>1. PICK i \in 1 .. 16 : decoder = DecodeOrder[i]
    BY FirstToTakeTakes
  <2> HIDE DEF decoder
  <2> QED BY <2>1, Order, SMTT(30)
<1> HIDE DEF d, decoder
<1>5. /\ \A p, a, c, raw, n, rep : LET x == Code(p, a, c, raw, n, rep)
                                   IN  x.protocol = p /\ x.numberOfBits = n
      /\ \A p : Fits(LastAgain(p, last))
      /\ Fits(Blank)
  BY DEF LastAgain, Code, Blank
<1>6. Fits(last)
  BY Zenon DEF Sendable
<1>7. \A p, a, c, raw, n, rep : p # "SONY" => Code(p, a, c, raw, n, rep).protocol # "SONY"
  BY <1>5
<1>8. /\ Fits(decodeNec(rx, last)) /\ Fits(decodeLG(rx, last)) /\ Fits(decodeJVC(rx, last))
      /\ Fits(decodeSamsung(rx, last)) /\ Fits(decodeDenon(rx, last))
  <2>1. \A w : NecProtocol(w) # "SONY"
    BY DEF NecProtocol
  <2>2. Fits(decodeNec(rx, last))
    BY <1>5, <1>7, <2>1, SMT DEF decodeNec
  <2>3. Fits(decodeLG(rx, last))
    <3> DEFINE w == decodePulseDistanceWidthData(rx, LGProtocolConstants, 28, 3)
               protocol == IF LGConstants(rx) = LGProtocolConstants THEN "LG" ELSE "LG2"
               rep == FALSE
               code == Code(protocol, SubSeq(w, 21, 28), SubSeq(w, 5, 20), w, 28, rep)
    <3>1. decodeLG(rx, last)
            = IF rawlen(rx) = 4 THEN LastAgain(last.protocol, last) ELSE code
      BY SMT DEF decodeLG
    <3> HIDE DEF w, rep
    <3> QED BY <1>5, <1>7, <3>1
  <2>4. Fits(decodeJVC(rx, last))
    <3> DEFINE w == decodePulseDistanceWidthData(rx, JVCProtocolConstants, 16, 3)
               repeats == rx.pause < 23788 /\ matchMark(rx.ticks[1], 526) /\ StopMark(rx, 526)
               rep == FALSE
               code == Code("JVC", Byte(w, 0), Byte(w, 1), w, 16, rep)
    <3>1. decodeJVC(rx, last)
            = CASE rawlen(rx) # 34 -> code
                [] rawlen(rx) = 34 /\ repeats -> LastAgain("JVC", last)
                [] rawlen(rx) = 34 /\ ~repeats -> Blank
      BY SMT DEF decodeJVC
    <3> HIDE DEF w, rep, repeats
    <3> QED BY <1>5, <1>7, <3>1
  <2>5. Fits(decodeSamsung(rx, last))
    BY <1>5, <1>7, SMT DEF decodeSamsung
  <2>6. Fits(decodeDenon(rx, last))
    <3> DEFINE w == decodePulseDistanceWidthData(rx, DenonProtocolConstants, 15, 1)
               frameBits == <<w[14], w[15]>>
               follows == checkForRepeat(rx, 56250)
               sharp == frameBits = <<0, 1>> \/ (follows /\ frameBits = <<1, 0>>)
               command == IF follows /\ w[14] = 1 THEN last.command ELSE SubSeq(w, 6, 13)
               rep == FALSE
    <3>1. decodeDenon(rx, last)
            = Code(IF sharp THEN "SHARP" ELSE "DENON", SubSeq(w, 1, 5), command, w, 15, rep)
      BY SMT DEF decodeDenon
    <3> HIDE DEF w, rep, command, sharp
    <3> QED BY <1>7, <3>1
  <2> QED BY <2>2, <2>3, <2>4, <2>5, <2>6
<1>9. /\ Fits(decodeKaseikyo(rx)) /\ Fits(decodeRC5(rx)) /\ Fits(decodeRC6(rx))
     /\ Fits(decodeFAST(rx)) /\ Fits(decodeWhynter(rx)) /\ Fits(decodeLegoPowerFunctions(rx))
     /\ Fits(decodeBoseWave(rx)) /\ Fits(decodeMagiQuest(rx)) /\ Fits(decodeDistanceWidth(rx))
  <2>1. Fits(decodeKaseikyo(rx))
    <3>1. \A v : KaseikyoProtocol(v) # "SONY"
      BY DEF KaseikyoProtocol
    <3> QED BY <1>7, <3>1, SMT DEF decodeKaseikyo
  <2>2. Fits(decodeRC5(rx))
    BY <1>7, SMT DEF decodeRC5
  <2>3. Fits(decodeRC6(rx))
    BY <1>7, SMT DEF decodeRC6
  <2>4. Fits(decodeFAST(rx))
    BY <1>7, SMT DEF decodeFAST
  <2>5. Fits(decodeWhynter(rx))
    <3> DEFINE w == decodePulseDistanceWidthData(rx, WhynterProtocolConstants, 32, 3)
               rep == FALSE
    <3>1. decodeWhynter(rx)
            = Code("WHYNTER", <<>>, <<>>, w, 32, rep)
      BY SMT DEF decodeWhynter
    <3> HIDE DEF w, rep
    <3> QED BY <1>7, <3>1
  <2>6. Fits(decodeLegoPowerFunctions(rx))
    <3> DEFINE w == decodePulseDistanceWidthData(rx, LegoProtocolConstants, 16, 3)
               rep == FALSE
    <3>1. decodeLegoPowerFunctions(rx)
            = Code("LEGO_PF", SubSeq(w, 13, 16), SubSeq(w, 5, 12), w, 16, rep)
      BY SMT DEF decodeLegoPowerFunctions
    <3> HIDE DEF w, rep
    <3> QED BY <1>7, <3>1
  <2>7. Fits(decodeBoseWave(rx))
    BY <1>7, SMT DEF decodeBoseWave
  <2>8. Fits(decodeMagiQuest(rx))
    <3> DEFINE c == MagiQuestProtocolConstants
               id == decodePulseDistanceWidthData(rx, c, 31, 17)
               rest == decodePulseDistanceWidthData(rx, c, 17, 79)
               rep == FALSE
    <3>1. decodeMagiQuest(rx)
            = Code("MAGIQUEST", SubSeq(id, 1, 16), SubSeq(rest, 9, 17), id, 56, rep)
      BY SMT DEF decodeMagiQuest
    <3> HIDE DEF id, rest, rep
    <3> QED BY <1>7, <3>1
  <2>9. Fits(decodeDistanceWidth(rx))
    <3>1. \A p, a, c, raw, n, rep, timing : p # "SONY" =>
            [Code(p, a, c, raw, n, rep) EXCEPT !.timing = timing].protocol # "SONY"
      BY DEF Code, Blank
    <3> QED BY <3>1, SMT DEF decodeDistanceWidth
  <2> QED BY <2>1, <2>2, <2>3, <2>4, <2>5, <2>6, <2>7, <2>8, <2>9
<1>10. decoder = "Sony" => Fits(decodeSony(rx))
  <2> SUFFICES ASSUME decoder = "Sony" PROVE Fits(decodeSony(rx))
    OBVIOUS
  <2> DEFINE n == (rawlen(rx) - 1) \div 2
  <2>1. IsSony(rx)
    BY <1>2, TakesIs
  <2>2. \E m \in SonyBits : rawlen(rx) = 2 * m + 2
    BY <2>1, Zenon DEF IsSony
  <2>3. n \in {12, 15, 20}
    BY <2>2 DEF SonyBits
  <2>4. decodeSony(rx).numberOfBits = n
    <3> DEFINE w == decodePulseDistanceWidthData(rx, SonyProtocolConstants, n, 3)
               rep == checkForRepeat(rx, 24000)
    <3>1. decodeSony(rx) = Code("SONY", SubSeq(w, 8, n), SubSeq(w, 1, 7), w, n, rep)
      BY SMT DEF decodeSony
    <3> HIDE DEF n
    <3> QED BY <1>5, <3>1
  <2> HIDE DEF n
  <2> QED BY <2>3, <2>4
<1> HIDE DEF Fits
<1>11. Fits(d)
  <2>1. Fits(Blank)
    BY <1>5
  <2> QED BY <1>3, <1>4, <1>8, <1>10, <1>9, <2>1
<1> QED BY <1>1, <1>11, Zenon DEF Sendable, Fits, d

(* What is emitted stands for the code that was decoded last, with a       *)
(* toggle bit.                                                             *)
SentBy(s, d) == \E t \in Bit : s = Mid_IrSendCommon(d, t)

SentInv ==
  /\ RelayInv /\ Sendable(decodedIRData)
  /\ \/ emissions = <<>>
     \/ \E e : emissions = <<e>> /\ SentBy(e, decodedIRData)
     \/ \E e, f : emissions = <<e, f>> /\ SentBy(e, decodedIRData) /\ SentBy(f, decodedIRData)

LEMMA SentInit == Init => SentInv
<1> SUFFICES ASSUME Init PROVE SentInv
  OBVIOUS
<1>1. Sendable(Blank)
  <2>1. Blank.protocol # "SONY"
    BY DEF Blank
  <2> QED BY <2>1, BlankTyped, Zenon DEF Sendable
<1>2. decodedIRData = Blank /\ emissions = <<>>
  BY Zenon DEF Init
<1> QED BY <1>1, <1>2, RelayInit, Zenon DEF SentInv

LEMMA LearnSent ==
  ASSUME SentInv, NEW k \in Keys, NEW how, NEW frame \in k.forms \union {k.held}, NEW pauses,
         Learn(k, how, frame, pauses)
  PROVE  SentInv'
<1>1. RelayInv /\ Sendable(decodedIRData)
  BY Zenon DEF SentInv
<1>2. RelayInv'
  BY <1>1, LearnTyped, Zenon
<1>3. PICK pause \in pauses, phase \in Phases, excess \in Excesses :
        decodedIRData' = Mid_IrRemoteDecode(Received(frame, pause, phase, excess), decodedIRData)
  BY Zenon DEF Learn
<1>4. Sendable(decodedIRData')
  <2> DEFINE rx == Received(frame, pause, phase, excess)
  <2>1. Len(rx.ticks) \in Nat
    BY SampledFrame, Zenon
  <2> HIDE DEF rx
  <2>2. decodedIRData' = Mid_IrRemoteDecode(rx, decodedIRData)
    BY <1>3, Zenon DEF rx
  <2> QED BY <1>1, <2>1, <2>2, SonyBitCount, Zenon
<1>5. emissions' = <<>>
  BY Zenon DEF Learn
<1>6. Sendable(decodedIRData)'
  BY <1>4, Zenon DEF Sendable, Typed
<1> QED BY <1>2, <1>5, <1>6, Zenon DEF SentInv

LEMMA EmitSent ==
  ASSUME SentInv, Emit PROVE SentInv'
<1>1. RelayInv /\ Sendable(decodedIRData)
  BY Zenon DEF SentInv
<1>2. RelayInv'
  BY <1>1, EmitTyped, Zenon
<1>3. decodedIRData' = decodedIRData /\ learned # <<>> /\ Len(emissions) < 2
  BY Zenon DEF Emit
<1>4. Sendable(decodedIRData)'
  BY <1>1, <1>3, Zenon DEF Sendable, Typed
<1> DEFINE e == Mid_IrSendCommon(decodedIRData, NextToggle(decodedIRData))
<1>5. learned[1] = decodedIRData
  <2>1. learned \in {<<>>, <<decodedIRData>>}
    BY <1>1, Zenon DEF RelayInv
  <2> QED BY <1>3, <2>1
<1>6. emissions' = Append(emissions, e)
  <2>1. emissions' = Append(emissions, Mid_IrSendCommon(learned[1], NextToggle(learned[1])))
    BY Zenon DEF Emit
  <2> QED BY <1>5, <2>1, Zenon
<1>7. SentBy(e, decodedIRData')
  <2>1. NextToggle(decodedIRData) \in Bit
    <3>1. sLastSendToggleValue \in {0, 1}
      BY <1>1, Zenon DEF RelayInv, Bit
    <3> QED BY <3>1 DEF NextToggle, Bit
  <2> QED BY <1>3, <2>1, Zenon DEF SentBy
<1> HIDE DEF e
<1>8. CASE emissions = <<>>
  <2>1. emissions' = <<e>>
    BY <1>6, <1>8
  <2> QED BY <1>2, <1>4, <1>7, <2>1, Zenon DEF SentInv
<1>9. CASE \E b : emissions = <<b>> /\ SentBy(b, decodedIRData)
  <2>1. PICK b : emissions = <<b>> /\ SentBy(b, decodedIRData)
    BY <1>9
  <2>2. emissions' = <<b, e>>
    BY <1>6, <2>1, Appended, Zenon
  <2> QED BY <1>2, <1>3, <1>4, <1>7, <2>1, <2>2, Zenon DEF SentInv
<1>10. CASE \E b, c : emissions = <<b, c>>
  BY <1>3, <1>10
<1> QED BY <1>8, <1>9, <1>10, Zenon DEF SentInv

LEMMA SentStep == SentInv /\ [Next]_vars => SentInv'
<1> SUFFICES ASSUME SentInv, [Next]_vars PROVE SentInv'
  OBVIOUS
<1>1. key \in Keys
  BY Zenon DEF SentInv, RelayInv
<1>2. CASE Press
  <2>1. PICK k \in Keys : \E frame \in k.forms : Learn(k, "press", frame, Pauses)
    BY <1>2, Zenon DEF Press
  <2>2. PICK frame \in k.forms : Learn(k, "press", frame, Pauses)
    BY <2>1, Zenon
  <2>3. frame \in k.forms \union {k.held}
    OBVIOUS
  <2> QED BY <2>2, <2>3, LearnSent, Zenon
<1>3. CASE Hold
  <2>1. Learn(key, "hold", key.held, RepeatPauses) /\ key.held \in key.forms \union {key.held}
    BY <1>3, Zenon DEF Hold
  <2> QED BY <1>1, <2>1, LearnSent, Zenon
<1>4. CASE HoldUnheard
  <2>1. PICK k \in Keys : Learn(k, "unheard", k.held, RepeatPauses)
    BY <1>4, Zenon DEF HoldUnheard
  <2>2. k.held \in k.forms \union {k.held}
    OBVIOUS
  <2> QED BY <2>1, <2>2, LearnSent, Zenon
<1>5. CASE Emit
  BY <1>5, EmitSent
<1>6. CASE UNCHANGED vars
  <2>1. RelayInv'
    BY <1>6, RelayStep, Zenon DEF SentInv
  <2> QED BY <1>6, <2>1, Zenon DEF vars, SentInv, SentBy, Sendable, Typed
<1> QED BY <1>2, <1>3, <1>4, <1>5, <1>6, Zenon DEF Next

----------------------------------------------------------------------------
(* Taking words apart, and putting them together again.                    *)

LEMMA SplitAt ==
  ASSUME NEW n \in Nat, NEW w \in Word(n), NEW a \in Nat, NEW m \in Nat, NEW k \in Nat,
         1 <= a, a + m + k - 1 <= n
  PROVE  SubSeq(w, a, a + m - 1) \o SubSeq(w, a + m, a + m + k - 1) = SubSeq(w, a, a + m + k - 1)
<1> DEFINE u == SubSeq(w, a, a + m - 1)
           l == a + m
           v == SubSeq(w, l, l + k - 1)
           j == m + k
           z == SubSeq(w, a, a + j - 1)
<1>1. u \in Word(m) /\ \A i \in 1 .. m : u[i] = w[a + i - 1]
  <2>1. a + m - 1 <= n
    OBVIOUS
  <2> QED BY <2>1, SubWordIs
<1>2. v \in Word(k) /\ \A i \in 1 .. k : v[i] = w[l + i - 1]
  <2>1. l \in Nat /\ 1 <= l /\ l + k - 1 <= n
    OBVIOUS
  <2> HIDE DEF l
  <2> QED BY <2>1, SubWordIs
<1>3. z \in Word(j) /\ \A i \in 1 .. j : z[i] = w[a + i - 1]
  <2>1. j \in Nat /\ a + j - 1 <= n
    OBVIOUS
  <2> HIDE DEF j
  <2> QED BY <2>1, SubWordIs
<1>4. a + m + k - 1 = a + j - 1 /\ a + m + k - 1 = l + k - 1
  OBVIOUS
<1> HIDE DEF u, v, z
<1>5. /\ u \o v \in Word(m + k)
      /\ \A i \in 1 .. m : (u \o v)[i] = u[i]
      /\ \A i \in 1 .. k : (u \o v)[m + i] = v[i]
  BY <1>1, <1>2, JoinedWords, Zenon
<1> DEFINE x == u \o v
<1>6. x \in Word(j) /\ \A i \in 1 .. m : x[i] = u[i]
  BY <1>5
<1>7. \A i \in 1 .. k : x[m + i] = v[i]
  BY <1>5
<1> HIDE DEF x
<1>8. \A i \in 1 .. j : x[i] = z[i]
  <2>1. ASSUME NEW i \in 1 .. j PROVE x[i] = z[i]
    <3>1. z[i] = w[a + i - 1]
      BY <1>3
    <3>2. CASE i <= m
      BY <1>1, <1>6, <3>1, <3>2
    <3>3. CASE i > m
      <4>1. i - m \in 1 .. k /\ i = m + (i - m) /\ l + (i - m) - 1 = a + i - 1
        BY <3>3
      <4>2. x[i] = v[i - m]
        BY <1>7, <4>1
      <4> QED BY <1>2, <3>1, <4>1, <4>2
    <3> QED BY <3>2, <3>3
  <2> QED BY <2>1
<1>9. x = z
  <2>1. j \in Nat
    OBVIOUS
  <2> HIDE DEF j
  <2> QED BY <1>3, <1>6, <1>8, <2>1, WordsEqual
<1> QED BY <1>4, <1>9 DEF x, u, v, z

LEMMA Whole ==
  ASSUME NEW n \in Nat, NEW w \in Word(n) PROVE SubSeq(w, 1, n) = w
<1>1. 1 + n - 1 = n /\ 1 + n - 1 <= n /\ 1 <= 1
  OBVIOUS
<1>2. SubSeq(w, 1, 1 + n - 1) \in Word(n)
      /\ \A i \in 1 .. n : SubSeq(w, 1, 1 + n - 1)[i] = w[1 + i - 1]
  BY <1>1, SubWordIs
<1> DEFINE v == SubSeq(w, 1, n)
<1>3. v \in Word(n) /\ \A i \in 1 .. n : v[i] = w[i]
  BY <1>1, <1>2
<1> HIDE DEF v
<1>4. v = w
  BY <1>3, WordsEqual
<1> QED BY <1>4 DEF v

LEMMA WidenKeeps ==
  ASSUME NEW m \in Nat, NEW x \in Word(m), NEW n \in Nat, m <= n
  PROVE  SubSeq(Widen(x, n), 1, m) = x
<1> DEFINE y == Widen(x, n)
           v == SubSeq(y, 1, m)
<1>1. y \in Word(n) /\ \A i \in 1 .. m : y[i] = x[i]
  BY WidenIs
<1> HIDE DEF y
<1>2. 1 + m - 1 = m /\ 1 + m - 1 <= n /\ 1 <= 1
  OBVIOUS
<1>3. /\ SubSeq(y, 1, 1 + m - 1) \in Word(m)
      /\ \A i \in 1 .. m : SubSeq(y, 1, 1 + m - 1)[i] = y[1 + i - 1]
  BY <1>1, <1>2, SubWordIs
<1>4. v \in Word(m) /\ \A i \in 1 .. m : v[i] = x[i]
  BY <1>1, <1>2, <1>3
<1> HIDE DEF v
<1>5. v = x
  BY <1>4, WordsEqual
<1> QED BY <1>5 DEF v, y

LEMMA WidenByte ==
  ASSUME NEW b \in Word(8)
  PROVE  /\ Widen(b, 16) \in Word(16) /\ Byte(Widen(b, 16), 0) = b
         /\ HighByteZero(Widen(b, 16))
<1> DEFINE w == Widen(b, 16)
<1>1. w \in Word(16) /\ \A i \in 1 .. 16 : w[i] = IF i <= 8 THEN b[i] ELSE 0
  BY WidenIs
<1> HIDE DEF w
<1> DEFINE low == Byte(w, 0)
           high == Byte(w, 1)
<1>2. low \in Word(8) /\ high \in Word(8)
      /\ \A i \in 1 .. 8 : low[i] = w[i] /\ high[i] = w[8 + i]
  BY <1>1, Sixteen
<1> HIDE DEF low, high
<1>3. low = b
  <2>1. \A i \in 1 .. 8 : low[i] = b[i]
    BY <1>1, <1>2
  <2> QED BY <1>2, <2>1, WordsEqual
<1>4. high = Zeros(8)
  <2>1. Zeros(8) \in Word(8) /\ \A i \in 1 .. 8 : Zeros(8)[i] = 0
    BY DEF Zeros, Word, Bit
  <2>2. \A i \in 1 .. 8 : high[i] = Zeros(8)[i]
    BY <1>1, <1>2, <2>1
  <2> QED BY <1>2, <2>1, <2>2, WordsEqual
<1> QED BY <1>1, <1>3, <1>4 DEF low, high, w, HighByteZero

LEMMA LowByteWidens ==
  ASSUME NEW w \in Word(16), HighByteZero(w) PROVE Widen(Byte(w, 0), 16) = w
<1> DEFINE b == Byte(w, 0)
           v == Widen(b, 16)
<1>1. b \in Word(8) /\ \A i \in 1 .. 8 : b[i] = w[i] /\ w[8 + i] = 0
  <2>1. /\ Byte(w, 0) \in Word(8)
        /\ \A i \in 1 .. 8 : Byte(w, 0)[i] = w[i] /\ Byte(w, 1)[i] = w[8 + i]
    BY Sixteen
  <2>2. \A i \in 1 .. 8 : Byte(w, 1)[i] = 0
    BY DEF HighByteZero, Zeros
  <2> QED BY <2>1, <2>2
<1> HIDE DEF b
<1>2. v \in Word(16) /\ \A i \in 1 .. 16 : v[i] = IF i <= 8 THEN b[i] ELSE 0
  <2>1. b \in Word(8)
    BY <1>1
  <2> QED BY <2>1, WidenIs
<1> HIDE DEF v
<1>3. \A i \in 1 .. 16 : v[i] = w[i]
  <2>1. ASSUME NEW i \in 1 .. 16 PROVE v[i] = w[i]
    <3>1. CASE i <= 8
      BY <1>1, <1>2, <3>1
    <3>2. CASE i > 8
      <4>1. i - 8 \in 1 .. 8 /\ i = 8 + (i - 8)
        BY <3>2
      <4>2. w[i] = 0
        BY <1>1, <4>1
      <4> QED BY <1>2, <3>2, <4>2
    <3> QED BY <3>1, <3>2
  <2> QED BY <2>1
<1>4. v = w
  BY <1>2, <1>3, WordsEqual
<1> QED BY <1>4 DEF v, b

LEMMA Quarters ==
  ASSUME NEW w \in Word(32)
  PROVE  /\ SubSeq(w, 1, 16) \in Word(16) /\ SubSeq(w, 17, 32) \in Word(16)
         /\ \A k \in 0 .. 3 : Byte(w, k) \in Word(8)
         /\ SubSeq(w, 1, 16) \o SubSeq(w, 17, 32) = w
         /\ Byte(w, 0) \o Byte(w, 1) = SubSeq(w, 1, 16)
         /\ Byte(w, 2) \o Byte(w, 3) = SubSeq(w, 17, 32)
         /\ SubSeq(w, 1, 16) \o Byte(w, 2) \o Byte(w, 3) = w
<1> DEFINE n == 32
           m == 16
           k == 8
<1>1. n \in Nat /\ m \in Nat /\ k \in Nat /\ w \in Word(n)
  OBVIOUS
<1>2. /\ 1 + m - 1 = 16 /\ 1 + m = 17 /\ 1 + m + m - 1 = 32 /\ 17 + m - 1 = 32
      /\ 1 + k - 1 = 8 /\ 1 + k = 9 /\ 1 + k + k - 1 = 16
      /\ 17 + k - 1 = 24 /\ 17 + k = 25 /\ 17 + k + k - 1 = 32
      /\ 9 + k - 1 = 16 /\ 25 + k - 1 = 32 /\ n = 32
  OBVIOUS
<1> HIDE DEF n, m, k
<1>3. SubSeq(w, 1, 16) \in Word(m) /\ SubSeq(w, 17, 32) \in Word(m)
  <2>1. 1 \in Nat /\ 1 <= 1 /\ 1 + m - 1 <= n /\ 17 \in Nat /\ 1 <= 17 /\ 17 + m - 1 <= n
    BY <1>2
  <2>2. SubSeq(w, 1, 1 + m - 1) \in Word(m) /\ SubSeq(w, 17, 17 + m - 1) \in Word(m)
    BY <1>1, <2>1, SubWordIs
  <2> QED BY <1>2, <2>2
<1>4. /\ SubSeq(w, 1, 8) \in Word(k) /\ SubSeq(w, 9, 16) \in Word(k)
      /\ SubSeq(w, 17, 24) \in Word(k) /\ SubSeq(w, 25, 32) \in Word(k)
  <2>1. \A a \in {1, 9, 17, 25} : a \in Nat /\ 1 <= a /\ a + k - 1 <= n
    BY <1>2
  <2>2. \A a \in {1, 9, 17, 25} : SubSeq(w, a, a + k - 1) \in Word(k)
    BY <1>1, <2>1, SubWordIs
  <2>3. /\ SubSeq(w, 1, 1 + k - 1) \in Word(k) /\ SubSeq(w, 9, 9 + k - 1) \in Word(k)
        /\ SubSeq(w, 17, 17 + k - 1) \in Word(k) /\ SubSeq(w, 25, 25 + k - 1) \in Word(k)
    BY <2>2
  <2> QED BY <1>2, <2>3
<1>5. SubSeq(w, 1, 16) \o SubSeq(w, 17, 32) = w
  <2>1. 1 \in Nat /\ 1 <= 1 /\ 1 + m + m - 1 <= n
    BY <1>2
  <2>2. SubSeq(w, 1, 1 + m - 1) \o SubSeq(w, 1 + m, 1 + m + m - 1) = SubSeq(w, 1, 1 + m + m - 1)
    BY <1>1, <2>1, SplitAt
  <2>3. SubSeq(w, 1, n) = w
    BY <1>1, Whole
  <2> QED BY <1>2, <2>2, <2>3
<1>6. SubSeq(w, 1, 8) \o SubSeq(w, 9, 16) = SubSeq(w, 1, 16)
  <2>1. 1 \in Nat /\ 1 <= 1 /\ 1 + k + k - 1 <= n
    BY <1>2
  <2>2. SubSeq(w, 1, 1 + k - 1) \o SubSeq(w, 1 + k, 1 + k + k - 1) = SubSeq(w, 1, 1 + k + k - 1)
    BY <1>1, <2>1, SplitAt
  <2> QED BY <1>2, <2>2
<1>7. SubSeq(w, 17, 24) \o SubSeq(w, 25, 32) = SubSeq(w, 17, 32)
  <2>1. 17 \in Nat /\ 1 <= 17 /\ 17 + k + k - 1 <= n
    BY <1>2
  <2>2. SubSeq(w, 17, 17 + k - 1) \o SubSeq(w, 17 + k, 17 + k + k - 1)
          = SubSeq(w, 17, 17 + k + k - 1)
    BY <1>1, <2>1, SplitAt
  <2> QED BY <1>2, <2>2
<1>8. SubSeq(w, 1, 16) \o SubSeq(w, 17, 24) \o SubSeq(w, 25, 32) = w
  <2> DEFINE x == SubSeq(w, 1, 16)
             y == SubSeq(w, 17, 24)
             z == SubSeq(w, 25, 32)
  <2>1. x \in Word(m) /\ y \in Word(k) /\ z \in Word(k)
    BY <1>3, <1>4
  <2>2. x \o (y \o z) = w
    BY <1>5, <1>7
  <2> HIDE DEF x, y, z
  <2>3. (x \o y) \o z = x \o (y \o z)
    <3>1. x \in Seq(Bit) /\ y \in Seq(Bit) /\ z \in Seq(Bit)
      BY <1>1, <2>1, WordSeq
    <3> QED BY <3>1
  <2> QED BY <2>2, <2>3 DEF x, y, z
<1>9. /\ Byte(w, 0) = SubSeq(w, 1, 8) /\ Byte(w, 1) = SubSeq(w, 9, 16)
      /\ Byte(w, 2) = SubSeq(w, 17, 24) /\ Byte(w, 3) = SubSeq(w, 25, 32)
  BY DEF Byte
<1>10. \A i \in 0 .. 3 : Byte(w, i) \in Word(k)
  <2>1. \A i \in 0 .. 3 : i = 0 \/ i = 1 \/ i = 2 \/ i = 3
    OBVIOUS
  <2> QED BY <1>4, <1>9, <2>1
<1> QED BY <1>3, <1>5, <1>6, <1>7, <1>8, <1>9, <1>10 DEF m, k

----------------------------------------------------------------------------
(* A code is sent with the word that it was read from.                     *)

FirstSent(d, t) == Mid_IrSendCommon(d, t)[1]

LEMMA FirstFor ==
  ASSUME NEW d, NEW t
  PROVE  LET f == FirstSent(d, t)
             p == d.protocol
         IN  /\ p \in {"NEC", "NEC2"} => f = NecSent(d)
             /\ p = "ONKYO" => f = OnkyoSent(d)
             /\ p = "APPLE" => f = AppleSent(d)
             /\ p = "SAMSUNG" => f = SamsungSent(d)
             /\ p = "SAMSUNG_LG" => f = SamsungLGSent(d)
             /\ p = "SAMSUNG48" => f = Samsung48Sent(d)
             /\ p = "SONY" => f = SonySent(d)
             /\ p = "LG" => f = LGSent(d)
             /\ p = "JVC" => f = sendPulseDistanceWidth(JVCProtocolConstants,
                                                        Byte(d.address, 0) \o Byte(d.command, 0))
             /\ p = "RC5" => f = sendBiphaseData(RC5_UNIT, RC5Word(d.address, d.command, t))
             /\ p = "RC6" => f = RC6Frame(RC6Word(d.address, d.command, t))
             /\ p = "BOSEWAVE" => f = BoseWaveSent(d)
             /\ p = "FAST" => f = FASTSent(d)
             /\ p = "LEGO_PF" => f = LegoSent(d)
             /\ p = "MAGIQUEST" => f = MagiQuestFrame(Widen(d.raw, 31), SubSeq(d.command, 1, 9))
<1> DEFINE s == Mid_IrSendCommon(d, t)
           p == d.protocol
<1>1. \A x, y : <<x>>[1] = x /\ <<x, y>>[1] = x /\ Twice(x)[1] = x
  BY DEF Twice
<1>2. /\ p = "NEC" => s = <<NecSent(d), sendNECSpecialRepeat>>
      /\ p = "NEC2" => s = Twice(NecSent(d))
      /\ p = "ONKYO" => s = <<OnkyoSent(d), sendNECSpecialRepeat>>
      /\ p = "APPLE" => s = <<AppleSent(d), sendNECSpecialRepeat>>
      /\ p = "SAMSUNG" => s = <<SamsungSent(d), sendSamsungLGSpecialRepeat>>
      /\ p = "SAMSUNG_LG" => s = <<SamsungLGSent(d), sendSamsungLGSpecialRepeat>>
      /\ p = "SAMSUNG48" => s = Twice(Samsung48Sent(d))
      /\ p = "SONY" => s = Twice(SonySent(d))
      /\ p = "LG" => s = <<LGSent(d), sendNECSpecialRepeat>>
      /\ p = "BOSEWAVE" => s = Twice(BoseWaveSent(d))
      /\ p = "FAST" => s = Twice(FASTSent(d))
  BY SentFor, Zenon
<1> HIDE DEF p, s
<1>3. p \in {"NEC", "NEC2"} => s[1] = NecSent(d)
  BY <1>1, <1>2, Zenon
<1>4. /\ p = "ONKYO" => s[1] = OnkyoSent(d)
      /\ p = "APPLE" => s[1] = AppleSent(d)
      /\ p = "SAMSUNG" => s[1] = SamsungSent(d)
      /\ p = "SAMSUNG_LG" => s[1] = SamsungLGSent(d)
      /\ p = "SAMSUNG48" => s[1] = Samsung48Sent(d)
      /\ p = "SONY" => s[1] = SonySent(d)
      /\ p = "LG" => s[1] = LGSent(d)
      /\ p = "BOSEWAVE" => s[1] = BoseWaveSent(d)
      /\ p = "FAST" => s[1] = FASTSent(d)
  BY <1>1, <1>2, Zenon
<1>5. p = "JVC" => s[1] = sendPulseDistanceWidth(JVCProtocolConstants,
                                                 Byte(d.address, 0) \o Byte(d.command, 0))
  <2> SUFFICES ASSUME p = "JVC"
               PROVE  s[1] = sendPulseDistanceWidth(JVCProtocolConstants,
                               Byte(d.address, 0) \o Byte(d.command, 0))
    OBVIOUS
  <2>1. s = sendJVC(Byte(d.address, 0) \o Byte(d.command, 0))
    BY SentFor, Zenon DEF p, s
  <2> QED BY <1>1, <2>1, Zenon DEF sendJVC
<1>6. p = "RC5" => s[1] = sendBiphaseData(RC5_UNIT, RC5Word(d.address, d.command, t))
  <2> DEFINE f == sendBiphaseData(RC5_UNIT, RC5Word(d.address, d.command, t))
  <2> SUFFICES ASSUME p = "RC5" PROVE s[1] = f
    OBVIOUS
  <2>1. s = Twice(f)
    BY SentFor, Zenon DEF p, s
  <2> HIDE DEF f
  <2> QED BY <1>1, <2>1, Zenon
<1>7. p = "RC6" => s[1] = RC6Frame(RC6Word(d.address, d.command, t))
  <2> DEFINE f == RC6Frame(RC6Word(d.address, d.command, t))
  <2> SUFFICES ASSUME p = "RC6" PROVE s[1] = f
    OBVIOUS
  <2>1. s = Twice(f)
    BY SentFor, Zenon DEF p, s
  <2> HIDE DEF f
  <2> QED BY <1>1, <2>1, Zenon
<1>8. p = "MAGIQUEST" => s[1] = MagiQuestFrame(Widen(d.raw, 31), SubSeq(d.command, 1, 9))
  <2> DEFINE f == MagiQuestFrame(Widen(d.raw, 31), SubSeq(d.command, 1, 9))
  <2> SUFFICES ASSUME p = "MAGIQUEST" PROVE s[1] = f
    OBVIOUS
  <2>1. s = <<f>>
    BY SentFor, Zenon DEF p, s
  <2> HIDE DEF f
  <2> QED BY <1>1, <2>1, Zenon
<1>9. p = "LEGO_PF" => s[1] = LegoSent(d)
  <2> DEFINE n == IF d.isRepeat THEN 5 ELSE 1
  <2>1. 1 \in 1 .. n
    OBVIOUS
  <2>2. p = "LEGO_PF" => s = [i \in 1 .. n |-> LegoSent(d)]
    BY SentFor, Zenon DEF p, s
  <2> HIDE DEF n
  <2> QED BY <2>1, <2>2, Zenon
<1> QED BY <1>3, <1>4, <1>5, <1>6, <1>7, <1>8, <1>9, Zenon DEF FirstSent, p, s

LEMMA NecRebuilt ==
  ASSUME NEW w \in Word(32), NEW a, NEW c, IsChecked(w, 2), Byte(c, 0) = Byte(w, 2),
         HighByteZero(a) => IsChecked(w, 0) /\ Byte(a, 0) = Byte(w, 0),
         ~HighByteZero(a) => a = SubSeq(w, 1, 16)
  PROVE  computeNECRawDataAndChecksum(a, c) = w
<1>1. Byte(w, 3) = Inverted(Byte(w, 2)) /\ (IsChecked(w, 0) => Byte(w, 1) = Inverted(Byte(w, 0)))
  BY DEF IsChecked
<1> DEFINE x == IF HighByteZero(a) THEN Checked(Byte(a, 0)) ELSE a
           y == Checked(Byte(c, 0))
           low == SubSeq(w, 1, 16)
           high == SubSeq(w, 17, 32)
<1>2. computeNECRawDataAndChecksum(a, c) = x \o y
  BY Zenon DEF computeNECRawDataAndChecksum
<1>3. low \o high = w /\ Byte(w, 0) \o Byte(w, 1) = low /\ Byte(w, 2) \o Byte(w, 3) = high
  BY Quarters
<1> HIDE DEF low, high
<1>4. y = high
  BY <1>1, <1>3, Zenon DEF Checked
<1>5. x = low
  BY <1>1, <1>3, Zenon DEF Checked, low
<1> HIDE DEF x, y
<1> QED BY <1>2, <1>3, <1>4, <1>5

LEMMA NecBack ==
  ASSUME NEW w \in Word(32), NEW d, NEW p \in {"NEC2", NecProtocol(w)},
         HasCode(d, p, NecAddress(w), NecCommand(w), w, 32), ~Lossy(d), NEW t
  PROVE  FirstSent(d, t) = sendPulseDistanceWidth(NECProtocolConstants, w)
<1> DEFINE a == d.address
           c == d.command
           low == SubSeq(w, 1, 16)
           high == SubSeq(w, 17, 32)
<1>1. d.protocol = p /\ a = Widen(NecAddress(w), 16) /\ c = Widen(NecCommand(w), 16) /\ d.raw = w
  BY DEF HasCode
<1>2. low \in Word(16) /\ high \in Word(16) /\ low \o high = w
      /\ low \o Byte(w, 2) \o Byte(w, 3) = w
  BY Quarters
<1>3. Byte(w, 0) \in Word(8) /\ Byte(w, 2) \in Word(8) /\ Byte(w, 3) \in Word(8)
  <2>1. 0 \in 0 .. 3 /\ 2 \in 0 .. 3 /\ 3 \in 0 .. 3
    OBVIOUS
  <2> QED BY <2>1, Quarters
<1>4. /\ p \in {"NEC", "NEC2"} => (HighByteZero(a) => IsChecked(w, 0))
      /\ p = "NEC2" => IsChecked(w, 2) /\ Byte(w, 0) = Byte(a, 0)
      /\ p = "ONKYO" => ~IsChecked(w, 0)
  BY <1>1, Zenon DEF Lossy
<1>5. \A b \in Word(8) : Byte(Widen(b, 16), 0) = b /\ HighByteZero(Widen(b, 16))
  BY WidenByte
<1>6. Widen(low, 16) = low /\ Widen(high, 16) = high
  BY <1>2, WidenSame
<1> DEFINE q == NecProtocol(w)
<1>7. /\ q = "APPLE" => low = APPLE_ADDRESS
      /\ q = "NEC" => IsChecked(w, 2)
      /\ q = "ONKYO" => ~IsChecked(w, 2)
      /\ q \in {"APPLE", "NEC", "ONKYO"}
  BY DEF NecProtocol
<1>8. /\ q = "APPLE" => NecAddress(w) = Byte(w, 3)
      /\ q # "APPLE" /\ IsChecked(w, 0) => NecAddress(w) = Byte(w, 0)
      /\ q # "APPLE" /\ ~IsChecked(w, 0) => NecAddress(w) = low
      /\ q = "ONKYO" => NecCommand(w) = high
      /\ q # "ONKYO" => NecCommand(w) = Byte(w, 2)
  BY DEF NecAddress, NecCommand
<1> HIDE DEF q, low, high
<1>9. CASE p \in {"NEC", "NEC2"}
  <2>1. IsChecked(w, 2)
    BY <1>4, <1>7, <1>9 DEF q
  <2>2. q # "ONKYO"
    BY <1>7, <2>1
  <2>3. Byte(c, 0) = Byte(w, 2)
    BY <1>1, <1>3, <1>5, <1>8, <2>2
  <2>4. HighByteZero(a) => IsChecked(w, 0) /\ Byte(a, 0) = Byte(w, 0)
    <3> SUFFICES ASSUME HighByteZero(a) PROVE IsChecked(w, 0) /\ Byte(a, 0) = Byte(w, 0)
      OBVIOUS
    <3>1. IsChecked(w, 0)
      BY <1>4, <1>9
    <3>2. CASE p = "NEC2"
      BY <1>4, <3>1, <3>2
    <3>3. CASE p = "NEC" /\ q = "NEC"
      BY <1>1, <1>3, <1>5, <1>8, <3>1, <3>3
    <3>4. p = "NEC2" \/ (p = "NEC" /\ q = "NEC")
      BY <1>9 DEF q
    <3> QED BY <3>2, <3>3, <3>4
  <2>5. ~HighByteZero(a) => a = low
    <3> SUFFICES ASSUME ~HighByteZero(a) PROVE a = low
      OBVIOUS
    <3>1. NecAddress(w) \notin Word(8)
      BY <1>1, <1>5
    <3>2. NecAddress(w) = low
      BY <1>3, <1>8, <3>1
    <3> QED BY <1>1, <1>6, <3>2
  <2>6. computeNECRawDataAndChecksum(a, c) = w
    BY <2>1, <2>3, <2>4, <2>5, NecRebuilt DEF low
  <2>7. FirstSent(d, t) = NecSent(d)
    BY <1>1, <1>9, FirstFor, Zenon
  <2> QED BY <2>6, <2>7, Zenon DEF NecSent
<1>10. CASE p = "ONKYO"
  <2>1. q = "ONKYO"
    BY <1>10 DEF q
  <2>2. a = low /\ c = high
    BY <1>1, <1>4, <1>6, <1>8, <1>10, <2>1
  <2>3. FirstSent(d, t) = OnkyoSent(d)
    BY <1>1, <1>10, FirstFor, Zenon
  <2> QED BY <1>2, <2>2, <2>3, Zenon DEF OnkyoSent
<1>11. CASE p = "APPLE"
  <2>1. q = "APPLE"
    BY <1>11 DEF q
  <2>2. low = APPLE_ADDRESS /\ Byte(a, 0) = Byte(w, 3) /\ Byte(c, 0) = Byte(w, 2)
    BY <1>1, <1>3, <1>5, <1>7, <1>8, <2>1
  <2>3. FirstSent(d, t) = AppleSent(d)
    BY <1>1, <1>11, FirstFor, Zenon
  <2> QED BY <1>2, <2>2, <2>3, Zenon DEF AppleSent
<1>12. p \in {"NEC", "NEC2", "ONKYO", "APPLE"}
  BY <1>7 DEF q
<1> QED BY <1>9, <1>10, <1>11, <1>12

LEMMA Widened ==
  ASSUME NEW m \in Nat, NEW x \in Word(m), m <= 16
  PROVE  Widen(x, 16) \in Word(16) /\ \A i \in 1 .. m : Widen(x, 16)[i] = x[i]
<1> DEFINE n == 16
<1>1. n \in Nat /\ m <= n
  OBVIOUS
<1> HIDE DEF n
<1>2. /\ Widen(x, n) \in Word(n)
      /\ \A i \in 1 .. n : Widen(x, n)[i] = IF i <= m THEN x[i] ELSE 0
  BY <1>1, WidenIs
<1>3. \A i \in 1 .. m : Widen(x, n)[i] = x[i]
  BY <1>1, <1>2
<1> QED BY <1>2, <1>3 DEF n

LEMMA PartIs ==
  ASSUME NEW n \in Nat, NEW w \in Word(n), NEW a \in Nat, NEW m \in Nat, NEW b \in Nat,
         1 <= a, b = a + m - 1, b <= n
  PROVE  SubSeq(w, a, b) \in Word(m) /\ \A i \in 1 .. m : SubSeq(w, a, b)[i] = w[a + i - 1]
BY SubWordIs

LEMMA KaseikyoBack ==
  ASSUME NEW w \in Word(48), w = KaseikyoWord(SubSeq(w, 1, 16), SubSeq(w, 21, 32), Byte(w, 4)),
         NEW d, HasCode(d, KaseikyoProtocol(SubSeq(w, 1, 16)), SubSeq(w, 21, 32), Byte(w, 4),
                        SubSeq(w, 17, 48), 48),
         ~Lossy(d), NEW t
  PROVE  FirstSent(d, t) = sendPulseDistanceWidth(KaseikyoProtocolConstants, w)
<1> DEFINE v == SubSeq(w, 1, 16)
           x == SubSeq(w, 21, 32)
           b == Byte(w, 4)
           p == KaseikyoProtocol(v)
<1>1. x \in Word(12) /\ b \in Word(8)
  <2> DEFINE n == 48
             m == 12
             k == 8
  <2>1. /\ n \in Nat /\ m \in Nat /\ k \in Nat /\ 21 \in Nat /\ 33 \in Nat /\ 1 <= 21 /\ 1 <= 33
        /\ 21 + m - 1 <= n /\ 33 + k - 1 <= n /\ 21 + m - 1 = 32 /\ 33 + k - 1 = 40
        /\ w \in Word(n) /\ 8 * 4 + 1 = 33 /\ 8 * 4 + 8 = 40
    OBVIOUS
  <2> HIDE DEF n, m, k
  <2>2. SubSeq(w, 21, 21 + m - 1) \in Word(m) /\ SubSeq(w, 33, 33 + k - 1) \in Word(k)
    BY <2>1, SubWordIs
  <2>3. SubSeq(w, 21, 32) \in Word(m) /\ SubSeq(w, 33, 40) \in Word(k)
    BY <2>1, <2>2
  <2>4. Byte(w, 4) = SubSeq(w, 33, 40)
    BY <2>1 DEF Byte
  <2> QED BY <2>3, <2>4 DEF m, k
<1>2. d.protocol = p /\ d.address = Widen(x, 16) /\ d.command = Widen(b, 16)
  BY Zenon DEF HasCode
<1>3. w = KaseikyoWord(v, x, b)
  OBVIOUS
<1> HIDE DEF v, x, b
<1>4. SubSeq(d.address, 1, 12) = x /\ SubSeq(x, 1, 12) = x
  <2> DEFINE m == 12
             n == 16
  <2>1. m \in Nat /\ n \in Nat /\ m <= n /\ x \in Word(m)
    BY <1>1
  <2> HIDE DEF m, n
  <2>2. SubSeq(Widen(x, n), 1, m) = x /\ SubSeq(x, 1, m) = x
    BY <2>1, WidenKeeps, Whole
  <2> QED BY <1>2, <2>2 DEF m, n
<1>5. Byte(d.command, 0) = b /\ Byte(b, 0) = b
  <2>1. Byte(Widen(b, 16), 0) = b
    BY <1>1, WidenByte
  <2>2. SubSeq(b, 1, 8) = b
    BY <1>1, Whole
  <2>3. Byte(b, 0) = SubSeq(b, 1, 8)
    BY DEF Byte
  <2> QED BY <1>2, <2>1, <2>2, <2>3
<1>6. KaseikyoWord(v, d.address, d.command) = w
  <2>1. KaseikyoWord(v, d.address, d.command) = KaseikyoWord(v, x, b)
    BY <1>4, <1>5, Zenon DEF KaseikyoWord
  <2> QED BY <1>3, <2>1
<1>7. p # "KASEIKYO"
  BY <1>2, Zenon DEF Lossy, WithoutSender
<1>8. \/ p = "PANASONIC" /\ v = PANASONIC_VENDOR_ID_CODE
      \/ p = "KASEIKYO_SHARP" /\ v = SHARP_VENDOR_ID_CODE
      \/ p = "KASEIKYO_DENON" /\ v = DENON_VENDOR_ID_CODE
      \/ p = "KASEIKYO_JVC" /\ v = JVC_VENDOR_ID_CODE
      \/ p = "KASEIKYO_MITSUBISHI" /\ v = MITSUBISHI_VENDOR_ID_CODE
  BY <1>7 DEF KaseikyoProtocol
<1> HIDE DEF p
<1>9. Mid_IrSendCommon(d, t) = sendKaseikyo(v, d)
  BY <1>2, <1>8, SentFor, Zenon
<1>10. sendKaseikyo(v, d)[1] = sendPulseDistanceWidth(KaseikyoProtocolConstants, w)
  <2> DEFINE f == sendPulseDistanceWidth(KaseikyoProtocolConstants, w)
  <2>1. sendKaseikyo(v, d) = Twice(f)
    BY <1>6, Zenon DEF sendKaseikyo
  <2> HIDE DEF f
  <2>2. Twice(f)[1] = f
    BY DEF Twice
  <2> QED BY <2>1, <2>2 DEF f
<1> QED BY <1>9, <1>10, Zenon DEF FirstSent

LEMMA DenonBack ==
  ASSUME NEW w \in Word(15), w[14] = 0, NEW d,
         HasCode(d, IF w[15] = 1 THEN "SHARP" ELSE "DENON", SubSeq(w, 1, 5), SubSeq(w, 6, 13),
                 w, 15),
         NEW t
  PROVE  FirstSent(d, t) = sendPulseDistanceWidthData(DenonProtocolConstants, w)
<1> DEFINE sharp == w[15] = 1
           a == d.address
           c == d.command
           u == DenonWord(a, c, sharp)
           x == SubSeq(w, 1, 5)
           y == SubSeq(w, 6, 13)
<1>1. d.protocol = (IF sharp THEN "SHARP" ELSE "DENON") /\ a = Widen(x, 16) /\ c = Widen(y, 16)
  BY DEF HasCode
<1>2. /\ x \in Word(5) /\ \A i \in 1 .. 5 : x[i] = w[i]
      /\ y \in Word(8) /\ \A i \in 1 .. 8 : y[i] = w[5 + i]
  <2> DEFINE n == 15
             m == 5
             k == 8
  <2>1. /\ n \in Nat /\ m \in Nat /\ k \in Nat /\ 1 + m - 1 <= n /\ 6 + k - 1 <= n
        /\ 1 + m - 1 = 5 /\ 6 + k - 1 = 13 /\ w \in Word(n) /\ 1 \in Nat /\ 6 \in Nat
        /\ 1 <= 1 /\ 1 <= 6
    OBVIOUS
  <2> HIDE DEF n, m, k
  <2>2. /\ SubSeq(w, 1, 1 + m - 1) \in Word(m)
        /\ \A i \in 1 .. m : SubSeq(w, 1, 1 + m - 1)[i] = w[1 + i - 1]
    BY <2>1, SubWordIs
  <2>3. /\ SubSeq(w, 6, 6 + k - 1) \in Word(k)
        /\ \A i \in 1 .. k : SubSeq(w, 6, 6 + k - 1)[i] = w[6 + i - 1]
    BY <2>1, SubWordIs
  <2>4. x \in Word(m) /\ \A i \in 1 .. m : x[i] = w[1 + i - 1]
    BY <2>1, <2>2
  <2>5. y \in Word(k) /\ \A i \in 1 .. k : y[i] = w[6 + i - 1]
    BY <2>1, <2>3
  <2>6. \A i \in Nat : 1 + i - 1 = i /\ 6 + i - 1 = 5 + i
    OBVIOUS
  <2> HIDE DEF x, y
  <2>7. /\ x \in Word(5) /\ \A i \in 1 .. 5 : x[i] = w[i]
    BY <2>4, <2>6 DEF m
  <2>8. /\ y \in Word(8) /\ \A i \in 1 .. 8 : y[i] = w[5 + i]
    BY <2>5, <2>6 DEF k
  <2> QED BY <2>7, <2>8 DEF x, y
<1> HIDE DEF x, y
<1>3. /\ a \in Word(16) /\ c \in Word(16)
      /\ \A i \in 1 .. 5 : a[i] = w[i]
      /\ \A i \in 1 .. 8 : c[i] = w[5 + i]
  <2>1. Widen(x, 16) \in Word(16) /\ \A i \in 1 .. 5 : Widen(x, 16)[i] = x[i]
    <3>1. x \in Word(5) /\ 5 \in Nat /\ 5 <= 16
      BY <1>2
    <3> QED BY <3>1, Widened, Zenon
  <2>2. Widen(y, 16) \in Word(16) /\ \A i \in 1 .. 8 : Widen(y, 16)[i] = y[i]
    <3>1. y \in Word(8) /\ 8 \in Nat /\ 8 <= 16
      BY <1>2
    <3> QED BY <3>1, Widened, Zenon
  <2> QED BY <1>1, <1>2, <2>1, <2>2
<1> HIDE DEF a, c
<1>4. u \in Word(15) /\ u[14] = 0 /\ u[15] = (IF sharp THEN 1 ELSE 0)
      /\ (\A i \in 1 .. 5 : u[i] = a[i]) /\ \A i \in 1 .. 8 : u[5 + i] = c[i]
  <2>1. sharp \in BOOLEAN
    OBVIOUS
  <2> HIDE DEF sharp
  <2> QED BY <1>3, <2>1, DenonWordIs
<1> HIDE DEF u
<1>5. u = w
  <2>1. w[15] \in {0, 1}
    BY DEF Word, Bit
  <2>2. \A i \in 1 .. 15 : i \in 1 .. 5 \/ (i - 5 \in 1 .. 8 /\ i = 5 + (i - 5)) \/ i = 14 \/ i = 15
    OBVIOUS
  <2>3. \A i \in 1 .. 15 : u[i] = w[i]
    BY <1>3, <1>4, <2>1, <2>2
  <2> QED BY <1>4, <2>3, WordsEqual
<1>6. Mid_IrSendCommon(d, t) = sendDenon(u)
  <2>1. CASE sharp
    <3>1. d.protocol = "SHARP" /\ sharp = TRUE
      BY <1>1, <2>1
    <3>2. Mid_IrSendCommon(d, t) = sendDenon(DenonWord(a, c, TRUE))
      BY <3>1, SentFor, Zenon DEF a, c
    <3> QED BY <3>1, <3>2, Zenon DEF u
  <2>2. CASE ~sharp
    <3>1. d.protocol = "DENON" /\ sharp = FALSE
      BY <1>1, <2>2
    <3>2. Mid_IrSendCommon(d, t) = sendDenon(DenonWord(a, c, FALSE))
      BY <3>1, SentFor, Zenon DEF a, c
    <3> QED BY <3>1, <3>2, Zenon DEF u
  <2> QED BY <2>1, <2>2
<1>7. sendDenon(u)[1] = sendPulseDistanceWidthData(DenonProtocolConstants, u)
  <2> DEFINE f == sendPulseDistanceWidthData(DenonProtocolConstants, u)
             g == sendPulseDistanceWidthData(DenonProtocolConstants, DenonInverted(u))
  <2>1. sendDenon(u) = <<f, g>> \o <<f, g>>
    BY Zenon DEF sendDenon
  <2> HIDE DEF f, g
  <2>2. (<<f, g>> \o <<f, g>>)[1] = f
    OBVIOUS
  <2> QED BY <2>1, <2>2, Zenon DEF f
<1> QED BY <1>5, <1>6, <1>7, Zenon DEF FirstSent

LEMMA SonyWordBack ==
  ASSUME NEW j \in Nat, NEW k \in Nat, NEW m \in Nat, j <= m, k <= m, NEW w \in Word(j + k)
  PROVE  SubSeq(SubSeq(Widen(SubSeq(w, 1, j), m), 1, j) \o Widen(SubSeq(w, j + 1, j + k), m),
                1, j + k) = w
<1> DEFINE n == j + k
           l == j + 1
           x == SubSeq(w, 1, j)
           y == SubSeq(w, l, n)
           a == Widen(y, m)
           low == SubSeq(Widen(x, m), 1, j)
<1>1. n \in Nat /\ l \in Nat /\ 1 \in Nat /\ 1 <= 1 /\ 1 <= l /\ j = 1 + j - 1 /\ n = l + k - 1
      /\ j <= n /\ n <= n
  OBVIOUS
<1>2. x \in Word(j) /\ \A i \in 1 .. j : x[i] = w[1 + i - 1]
  BY <1>1, PartIs
<1>3. y \in Word(k) /\ \A i \in 1 .. k : y[i] = w[l + i - 1]
  <2> HIDE DEF l
  <2> QED BY <1>1, PartIs
<1> HIDE DEF x, y
<1>4. low = x
  BY <1>2, WidenKeeps, Zenon
<1>5. a \in Word(m) /\ \A i \in 1 .. k : a[i] = y[i]
  BY <1>3, WidenIs
<1> HIDE DEF a, low
<1>6. low \in Word(j) /\ a \in Word(m)
  BY <1>2, <1>4, <1>5
<1>7. \A i \in 1 .. j : low[i] = w[i]
  BY <1>2, <1>4
<1>8. \A i \in 1 .. k : a[i] = w[j + i]
  BY <1>3, <1>5
<1> DEFINE z == low \o a
           v == SubSeq(z, 1, n)
<1>9. /\ z \in Word(j + m)
      /\ \A i \in 1 .. j : z[i] = low[i]
      /\ \A i \in 1 .. m : z[j + i] = a[i]
  BY <1>6, JoinedWords, Zenon
<1> HIDE DEF z
<1>10. v \in Word(n) /\ \A i \in 1 .. n : v[i] = z[1 + i - 1]
  BY <1>9, PartIs
<1> HIDE DEF v
<1>11. \A i \in 1 .. n : v[i] = w[i]
  <2>1. ASSUME NEW i \in 1 .. n PROVE v[i] = w[i]
    <3>1. v[i] = z[i]
      BY <1>10
    <3>2. CASE i <= j
      BY <1>7, <1>9, <3>1, <3>2
    <3>3. CASE i > j
      <4>1. i - j \in 1 .. k /\ i - j \in 1 .. m /\ i = j + (i - j)
        BY <3>3
      <4>2. z[i] = a[i - j] /\ a[i - j] = w[i]
        BY <1>8, <1>9, <4>1
      <4> QED BY <3>1, <4>2
    <3> QED BY <3>2, <3>3
  <2> QED BY <2>1
<1>12. v = w
  BY <1>10, <1>11, WordsEqual
<1> QED BY <1>12 DEF v, z, low, a, x, y, l, n

LEMMA SonyBack ==
  ASSUME NEW n \in Nat, n - 7 \in 0 .. 16, NEW w \in Word(n), NEW d,
         HasCode(d, "SONY", SubSeq(w, 8, n), SubSeq(w, 1, 7), w, n), NEW t
  PROVE  FirstSent(d, t) = sendPulseDistanceWidth(SonyProtocolConstants, w)
<1> DEFINE j == 7
           k == n - 7
           m == 16
           a == d.address
           c == d.command
           v == SubSeq(SubSeq(c, 1, 7) \o a, 1, n)
<1>1. /\ j \in Nat /\ k \in Nat /\ m \in Nat /\ j <= m /\ k <= m /\ n = j + k /\ 8 = j + 1
      /\ w \in Word(j + k)
  OBVIOUS
<1>2. /\ d.protocol = "SONY" /\ d.numberOfBits = n
      /\ a = Widen(SubSeq(w, 8, n), m) /\ c = Widen(SubSeq(w, 1, j), m)
  BY Zenon DEF HasCode
<1>3. SonySent(d) = sendPulseDistanceWidth(SonyProtocolConstants, v)
  BY <1>2, Zenon DEF SonySent
<1>4. v = SubSeq(SubSeq(c, 1, j) \o a, 1, n)
  OBVIOUS
<1> HIDE DEF j, k, m, a, c, v
<1>5. v = w
  <2>1. SubSeq(SubSeq(Widen(SubSeq(w, 1, j), m), 1, j) \o Widen(SubSeq(w, j + 1, j + k), m),
               1, j + k) = w
    BY <1>1, SonyWordBack, Zenon
  <2> QED BY <1>1, <1>2, <1>4, <2>1
<1>6. FirstSent(d, t) = SonySent(d)
  BY <1>2, FirstFor, Zenon
<1> QED BY <1>3, <1>5, <1>6, Zenon

LEMMA RC5WordAt ==
  ASSUME NEW a \in Word(16), NEW c \in Word(16), NEW t \in Bit
  PROVE  LET w == RC5Word(a, c, t)
         IN  /\ w \in Word(13) /\ w[12] = t
             /\ w[13] = IF c[7] = 1 \/ c[8] = 1 THEN 0 ELSE 1
             /\ \A i \in 1 .. 6 : w[i] = c[i]
             /\ \A i \in 1 .. 5 : w[6 + i] = a[i]
<1> DEFINE x == SubSeq(c, 1, 6)
           y == SubSeq(a, 1, 5)
           s == IF c[7] = 1 \/ c[8] = 1 THEN 0 ELSE 1
           z == <<t, s>>
           xy == x \o y
           w == xy \o z
           l == 16
           m == 6
           k == 5
           o == 1
           j == 2
<1>1. /\ l \in Nat /\ m \in Nat /\ k \in Nat /\ o \in Nat /\ j \in Nat /\ o <= o
      /\ m = o + m - 1 /\ k = o + k - 1 /\ m <= l /\ k <= l
      /\ a \in Word(l) /\ c \in Word(l)
  OBVIOUS
<1>2. m + k \in Nat
  OBVIOUS
<1>3. z \in Word(j) /\ z[1] = t /\ z[2] = s
  BY DEF Word, Bit
<1>4. x = SubSeq(c, o, m) /\ y = SubSeq(a, o, k)
  OBVIOUS
<1> HIDE DEF l, m, k, o, x, y, z, s, j
<1>5. x \in Word(m) /\ \A i \in 1 .. m : x[i] = c[o + i - 1]
  BY <1>1, <1>4, PartIs
<1>6. y \in Word(k) /\ \A i \in 1 .. k : y[i] = a[o + i - 1]
  BY <1>1, <1>4, PartIs
<1>7. /\ xy \in Word(m + k)
      /\ \A i \in 1 .. m : xy[i] = x[i]
      /\ \A i \in 1 .. k : xy[m + i] = y[i]
  <2>1. m \in Nat /\ k \in Nat /\ x \in Word(m) /\ y \in Word(k)
    BY <1>1, <1>5, <1>6
  <2> QED BY <2>1, JoinedWords, Zenon
<1> HIDE DEF xy
<1>8. /\ w \in Word(m + k + j)
      /\ \A i \in 1 .. m + k : w[i] = xy[i]
      /\ \A i \in 1 .. j : w[m + k + i] = z[i]
  <2>1. m + k \in Nat /\ j \in Nat /\ xy \in Word(m + k) /\ z \in Word(j)
    BY <1>1, <1>2, <1>3, <1>7
  <2> QED BY <2>1, JoinedWords, Zenon
<1> HIDE DEF w
<1>9. \A i \in 1 .. 6 : w[i] = c[i]
  BY <1>5, <1>7, <1>8 DEF m, k, o
<1>10. \A i \in 1 .. 5 : w[6 + i] = a[i]
  BY <1>6, <1>7, <1>8 DEF m, k, o
<1>11. w \in Word(13) /\ w[12] = t /\ w[13] = s
  <2>1. 1 \in 1 .. j /\ 2 \in 1 .. j /\ m + k + j = 13 /\ m + k + 1 = 12 /\ m + k + 2 = 13
    BY DEF m, k, j
  <2> QED BY <1>3, <1>8, <2>1
<1>12. RC5Word(a, c, t) = w
  BY Zenon DEF RC5Word, w, xy, x, y, z, s
<1> QED BY <1>9, <1>10, <1>11, <1>12 DEF s

LEMMA RC5CodeAt ==
  ASSUME NEW w \in Word(13)
  PROVE  LET a == Widen(RC5Address(w), 16)
             c == Widen(RC5Command(w), 16)
         IN  /\ a \in Word(16) /\ c \in Word(16)
             /\ \A i \in 1 .. 5 : a[i] = w[6 + i]
             /\ \A i \in 1 .. 6 : c[i] = w[i]
             /\ c[7] = (IF w[13] = 0 THEN 1 ELSE 0) /\ c[8] = 0
<1> DEFINE v == Widen(w, 16)
           x == SubSeq(v, 7, 11)
           y == SubSeq(v, 1, 6)
           f == IF v[13] = 0 THEN 1 ELSE 0
           z == <<f>>
           u == y \o z
           l == 16
           m == 6
           k == 5
           o == 1
           n == 13
<1>1. /\ l \in Nat /\ m \in Nat /\ k \in Nat /\ o \in Nat /\ n \in Nat /\ n <= l /\ o <= o
      /\ m = o + m - 1 /\ m <= l /\ 7 \in Nat /\ 11 \in Nat /\ 1 <= 7 /\ 11 = 7 + k - 1
      /\ 11 <= l /\ k <= l /\ m + o \in Nat /\ w \in Word(n)
  OBVIOUS
<1>2. z \in Word(o) /\ z[1] = f
  BY DEF Word, Bit
<1>3. x = SubSeq(v, 7, 11) /\ y = SubSeq(v, o, m) /\ v = Widen(w, l)
  OBVIOUS
<1> HIDE DEF l, m, k, o, n, x, y, z, v
<1>4. v \in Word(l) /\ \A i \in 1 .. n : v[i] = w[i]
  <2>1. n \in Nat /\ l \in Nat /\ w \in Word(n)
    BY <1>1
  <2>2. /\ Widen(w, l) \in Word(l)
        /\ \A i \in 1 .. l : Widen(w, l)[i] = IF i <= n THEN w[i] ELSE 0
    BY <2>1, WidenIs, Zenon
  <2>3. v \in Word(l) /\ \A i \in 1 .. l : v[i] = IF i <= n THEN w[i] ELSE 0
    BY <1>3, <2>2, Zenon
  <2>4. \A i \in 1 .. n : i \in 1 .. l /\ i <= n
    BY <1>1
  <2> QED BY <2>3, <2>4, Zenon
<1>5. x \in Word(k) /\ \A i \in 1 .. k : x[i] = v[7 + i - 1]
  BY <1>1, <1>3, <1>4, PartIs, SMTT(30)
<1>6. y \in Word(m) /\ \A i \in 1 .. m : y[i] = v[o + i - 1]
  BY <1>1, <1>3, <1>4, PartIs
<1>7. /\ u \in Word(m + o)
      /\ \A i \in 1 .. m : u[i] = y[i]
      /\ \A i \in 1 .. o : u[m + i] = z[i]
  <2>1. m \in Nat /\ o \in Nat /\ y \in Word(m) /\ z \in Word(o)
    BY <1>1, <1>2, <1>6
  <2> QED BY <2>1, JoinedWords, Zenon
<1> HIDE DEF u
<1> DEFINE a == Widen(x, l)
           c == Widen(u, l)
<1>8. a \in Word(l) /\ \A i \in 1 .. k : a[i] = x[i]
  BY <1>1, <1>5, WidenIs, SMTT(30)
<1>9. c \in Word(l) /\ \A i \in 1 .. l : c[i] = IF i <= m + o THEN u[i] ELSE 0
  BY <1>1, <1>7, WidenIs
<1> HIDE DEF a, c
<1>10. \A i \in 1 .. 5 : a[i] = w[6 + i]
  BY <1>4, <1>5, <1>8 DEF k, n
<1>11. \A i \in 1 .. 6 : c[i] = w[i]
  BY <1>4, <1>6, <1>7, <1>9 DEF m, o, n, l
<1>12. c[7] = u[7] /\ c[8] = 0
  BY <1>9 DEF m, o, l
<1>13. u[7] = f
  BY <1>2, <1>7 DEF m, o
<1>14. v[13] = w[13]
  BY <1>4 DEF n
<1>15. RC5Address(w) = x /\ RC5Command(w) = u
  BY Zenon DEF RC5Address, RC5Command, x, u, y, z, v
<1>16. a = Widen(RC5Address(w), 16) /\ c = Widen(RC5Command(w), 16)
  BY <1>15 DEF a, c, l
<1>17. a \in Word(16) /\ c \in Word(16)
  BY <1>8, <1>9 DEF l
<1> QED BY <1>10, <1>11, <1>12, <1>13, <1>14, <1>16, <1>17, Zenon

LEMMA RC5Back ==
  ASSUME NEW w \in Word(13), NEW d, HasCode(d, "RC5", RC5Address(w), RC5Command(w), w, 13),
         NEW t \in Bit
  PROVE  FirstSent(d, t) = sendBiphaseData(RC5_UNIT, [w EXCEPT ![12] = t])
<1> DEFINE a == d.address
           c == d.command
           u == RC5Word(a, c, t)
           v == [w EXCEPT ![12] = t]
<1>1. d.protocol = "RC5" /\ a = Widen(RC5Address(w), 16) /\ c = Widen(RC5Command(w), 16)
  BY Zenon DEF HasCode
<1>2. /\ a \in Word(16) /\ c \in Word(16)
      /\ \A i \in 1 .. 5 : a[i] = w[6 + i]
      /\ \A i \in 1 .. 6 : c[i] = w[i]
      /\ c[7] = (IF w[13] = 0 THEN 1 ELSE 0) /\ c[8] = 0
  BY <1>1, RC5CodeAt, ZenonT(30)
<1>3. FirstSent(d, t) = sendBiphaseData(RC5_UNIT, u)
  BY <1>1, FirstFor, Zenon
<1> HIDE DEF a, c
<1>4. /\ u \in Word(13) /\ u[12] = t
      /\ u[13] = (IF c[7] = 1 \/ c[8] = 1 THEN 0 ELSE 1)
      /\ \A i \in 1 .. 6 : u[i] = c[i]
      /\ \A i \in 1 .. 5 : u[6 + i] = a[i]
  <2>1. a \in Word(16) /\ c \in Word(16)
    BY <1>2
  <2> QED BY <2>1, RC5WordAt, ZenonT(30)
<1> HIDE DEF u
<1>5. v \in Word(13) /\ v[12] = t /\ \A i \in 1 .. 13 : i # 12 => v[i] = w[i]
  BY DEF Word
<1>6. w[13] \in {0, 1}
  BY DEF Word, Bit
<1> HIDE DEF v
<1>7. \A i \in 1 .. 13 : u[i] = v[i]
  <2>1. \A i \in 1 .. 13 : i \in 1 .. 6 \/ (i - 6 \in 1 .. 5 /\ i = 6 + (i - 6)) \/ i = 12 \/ i = 13
    OBVIOUS
  <2> QED BY <1>2, <1>4, <1>5, <1>6, <2>1
<1>8. u = v
  BY <1>4, <1>5, <1>7, WordsEqual
<1> QED BY <1>3, <1>8 DEF v

LEMMA PartEqual ==
  ASSUME NEW n \in Nat, NEW v \in Word(n), NEW m \in Nat, NEW w \in Word(m), NEW k \in Nat,
         NEW a \in Nat, NEW b \in Nat, NEW x \in Nat, NEW y \in Nat, 1 <= a, b = a + k - 1,
         b <= n, 1 <= x, y = x + k - 1, y <= m,
         \A i \in 1 .. k : v[a + i - 1] = w[x + i - 1]
  PROVE  SubSeq(v, a, b) = SubSeq(w, x, y)
<1> DEFINE s == SubSeq(v, a, b)
           t == SubSeq(w, x, y)
<1>1. s \in Word(k) /\ \A i \in 1 .. k : s[i] = v[a + i - 1]
  BY PartIs
<1>2. t \in Word(k) /\ \A i \in 1 .. k : t[i] = w[x + i - 1]
  BY PartIs
<1> HIDE DEF s, t
<1>3. \A i \in 1 .. k : s[i] = t[i]
  BY <1>1, <1>2
<1>4. s = t
  BY <1>1, <1>2, <1>3, WordsEqual
<1> QED BY <1>4 DEF s, t

LEMMA WidenItself ==
  ASSUME NEW n \in Nat, NEW w \in Word(n) PROVE Widen(w, n) = w
<1> DEFINE v == Widen(w, n)
<1>1. v \in Word(n) /\ \A i \in 1 .. n : v[i] = IF i <= n THEN w[i] ELSE 0
  BY WidenIs, Zenon
<1> HIDE DEF v
<1>2. \A i \in 1 .. n : v[i] = w[i]
  BY <1>1
<1>3. v = w
  BY <1>1, <1>2, WordsEqual
<1> QED BY <1>3 DEF v

LEMMA ThreeParts ==
  ASSUME NEW m \in Nat, NEW k \in Nat, NEW j \in Nat, NEW w \in Word(m + k + j)
  PROVE  /\ SubSeq(w, 1, m) \o SubSeq(w, m + 1, m + k) \o SubSeq(w, m + k + 1, m + k + j) = w
         /\ SubSeq(w, 1, m) \in Word(m) /\ SubSeq(w, m + 1, m + k) \in Word(k)
         /\ SubSeq(w, m + k + 1, m + k + j) \in Word(j)
<1> DEFINE n == m + k + j
           l == m + k
           x == SubSeq(w, 1, m)
           y == SubSeq(w, m + 1, m + k)
           z == SubSeq(w, l + 1, n)
           u == SubSeq(w, 1, l)
<1>1. /\ n \in Nat /\ l \in Nat /\ m <= n /\ l <= n /\ n = l + j
      /\ w \in Word(n) /\ 1 <= 1 /\ 1 \in Nat
  OBVIOUS
<1>2. x \o y = u
  <2>1. SubSeq(w, 1, 1 + m - 1) \o SubSeq(w, 1 + m, 1 + m + k - 1) = SubSeq(w, 1, 1 + m + k - 1)
    BY SplitAt
  <2>2. 1 + m - 1 = m /\ 1 + m = m + 1 /\ 1 + m + k - 1 = m + k
    OBVIOUS
  <2> QED BY <2>1, <2>2
<1>3. u \o z = SubSeq(w, 1, n)
  <2> HIDE DEF l, n
  <2>1. SubSeq(w, 1, 1 + l - 1) \o SubSeq(w, 1 + l, 1 + l + j - 1) = SubSeq(w, 1, 1 + l + j - 1)
    BY <1>1, SplitAt
  <2>2. 1 + l - 1 = l /\ 1 + l = l + 1 /\ 1 + l + j - 1 = n
    BY <1>1
  <2> QED BY <2>1, <2>2
<1>4. SubSeq(w, 1, n) = w
  BY <1>1, Whole
<1>5. x \in Word(m) /\ y \in Word(k)
  <2> DEFINE o == m + 1
  <2>1. /\ o \in Nat /\ 1 <= o /\ l = o + k - 1 /\ m = 1 + m - 1
    OBVIOUS
  <2> HIDE DEF l, n, o
  <2>2. SubSeq(w, o, l) \in Word(k)
    BY <1>1, <2>1, PartIs
  <2>3. SubSeq(w, 1, m) \in Word(m)
    BY <1>1, <2>1, PartIs
  <2> QED BY <2>2, <2>3 DEF o, l
<1>6. z \in Word(j)
  <2> DEFINE o == l + 1
  <2>1. o \in Nat /\ 1 <= o /\ n = o + j - 1 /\ n <= n
    OBVIOUS
  <2> HIDE DEF l, n, o
  <2>2. SubSeq(w, o, n) \in Word(j)
    BY <1>1, <2>1, PartIs
  <2> QED BY <2>2 DEF o
<1> QED BY <1>2, <1>3, <1>4, <1>5, <1>6

LEMMA Halves ==
  ASSUME NEW w \in Word(16) PROVE Byte(w, 0) \o Byte(w, 1) = w
<1> DEFINE m == 8
           n == 16
<1>1. m \in Nat /\ w \in Word(n) /\ 1 <= 1 /\ 1 \in Nat /\ n \in Nat /\ 1 + m + m - 1 <= n
      /\ 1 + m - 1 = 8 /\ 1 + m = 9 /\ 1 + m + m - 1 = 16 /\ n = 16
  OBVIOUS
<1> HIDE DEF m, n
<1>2. SubSeq(w, 1, 1 + m - 1) \o SubSeq(w, 1 + m, 1 + m + m - 1) = SubSeq(w, 1, 1 + m + m - 1)
  BY <1>1, SplitAt
<1>3. SubSeq(w, 1, n) = w
  BY <1>1, Whole
<1>4. SubSeq(w, 1, 8) \o SubSeq(w, 9, 16) = w
  BY <1>1, <1>2, <1>3
<1>5. Byte(w, 0) = SubSeq(w, 1, 8) /\ Byte(w, 1) = SubSeq(w, 9, 16)
  BY DEF Byte
<1> QED BY <1>4, <1>5

LEMMA RC6Back ==
  ASSUME NEW w \in Word(20), w[18] = 0, w[19] = 0, w[20] = 0, NEW d,
         HasCode(d, "RC6", Byte(Widen(w, 16), 1), Byte(Widen(w, 16), 0), w, 20), NEW t \in Bit
  PROVE  FirstSent(d, t) = RC6Frame([w EXCEPT ![17] = t])
<1> DEFINE a == d.address
           c == d.command
           x == Byte(Widen(w, 16), 0)
           y == Byte(Widen(w, 16), 1)
           z == <<t, 0, 0, 0>>
           xy == x \o y
           u == xy \o z
           v == [w EXCEPT ![17] = t]
           m == 8
           k == 4
<1>1. d.protocol = "RC6" /\ a = Widen(y, 16) /\ c = Widen(x, 16)
  BY Zenon DEF HasCode
<1>2. /\ x \in Word(8) /\ y \in Word(8)
      /\ \A i \in 1 .. 8 : x[i] = w[i] /\ y[i] = w[8 + i]
  <2> DEFINE b == Widen(w, 16)
             l == 16
             n == 20
  <2>1. l \in Nat /\ n \in Nat /\ w \in Word(n)
    OBVIOUS
  <2> HIDE DEF l, n
  <2>2. Widen(w, l) \in Word(l) /\ \A i \in 1 .. l : Widen(w, l)[i] = IF i <= n THEN w[i] ELSE 0
    BY <2>1, WidenIs, Zenon
  <2>3. b \in Word(16) /\ \A i \in 1 .. 16 : b[i] = w[i]
    BY <2>2 DEF l, n
  <2> HIDE DEF b
  <2>4. /\ Byte(b, 0) \in Word(8) /\ Byte(b, 1) \in Word(8)
        /\ \A i \in 1 .. 8 : Byte(b, 0)[i] = b[i] /\ Byte(b, 1)[i] = b[8 + i]
    BY <2>3, Sixteen
  <2> QED BY <2>3, <2>4 DEF b
<1> HIDE DEF x, y
<1>3. FirstSent(d, t) = RC6Frame(u)
  <2>1. FirstSent(d, t) = RC6Frame(RC6Word(a, c, t))
    BY <1>1, FirstFor, Zenon
  <2>2. Byte(c, 0) = x /\ Byte(a, 0) = y
    BY <1>1, <1>2, WidenByte
  <2>3. RC6Word(a, c, t) = u
    BY <2>2, Zenon DEF RC6Word
  <2> QED BY <2>1, <2>3
<1>4. z \in Word(k) /\ z[1] = t /\ z[2] = 0 /\ z[3] = 0 /\ z[4] = 0
  BY DEF Word, Bit
<1>5. m \in Nat /\ k \in Nat /\ m + m \in Nat /\ x \in Word(m) /\ y \in Word(m)
  BY <1>2
<1> HIDE DEF z, m, k
<1>6. /\ xy \in Word(m + m)
      /\ \A i \in 1 .. m : xy[i] = x[i]
      /\ \A i \in 1 .. m : xy[m + i] = y[i]
  BY <1>5, JoinedWords, Zenon
<1> HIDE DEF xy
<1>7. /\ u \in Word(m + m + k)
      /\ \A i \in 1 .. m + m : u[i] = xy[i]
      /\ \A i \in 1 .. k : u[m + m + i] = z[i]
  <2>1. m + m \in Nat /\ k \in Nat /\ xy \in Word(m + m) /\ z \in Word(k)
    BY <1>4, <1>5, <1>6
  <2> QED BY <2>1, JoinedWords, Zenon
<1> HIDE DEF u
<1>8. \A i \in 1 .. 16 : u[i] = w[i]
  <2>1. \A i \in 1 .. 16 : i \in 1 .. 8 \/ (i - 8 \in 1 .. 8 /\ i = 8 + (i - 8))
    OBVIOUS
  <2> QED BY <1>2, <1>6, <1>7, <2>1 DEF m
<1>9. u[17] = t /\ u[18] = 0 /\ u[19] = 0 /\ u[20] = 0 /\ u \in Word(20)
  <2>1. /\ 1 \in 1 .. k /\ 2 \in 1 .. k /\ 3 \in 1 .. k /\ 4 \in 1 .. k /\ m + m + k = 20
        /\ m + m + 1 = 17 /\ m + m + 2 = 18 /\ m + m + 3 = 19 /\ m + m + 4 = 20
    BY DEF m, k
  <2> QED BY <1>4, <1>7, <2>1
<1>10. v \in Word(20) /\ v[17] = t /\ \A i \in 1 .. 20 : i # 17 => v[i] = w[i]
  BY DEF Word
<1> HIDE DEF v
<1>11. \A i \in 1 .. 20 : u[i] = v[i]
  <2>1. \A i \in 1 .. 20 : i \in 1 .. 16 \/ i = 17 \/ i = 18 \/ i = 19 \/ i = 20
    OBVIOUS
  <2> QED BY <1>8, <1>9, <1>10, <2>1
<1>12. u = v
  BY <1>9, <1>10, <1>11, WordsEqual
<1> QED BY <1>3, <1>12 DEF v

LEMMA LGBack ==
  ASSUME NEW w \in Word(28), SubSeq(w, 1, 4) = LGChecksum(SubSeq(w, 5, 20)), NEW d,
         d.protocol = "LG", d.address = Widen(SubSeq(w, 21, 28), 16),
         d.command = Widen(SubSeq(w, 5, 20), 16), ~Lossy(d), NEW t
  PROVE  FirstSent(d, t) = sendPulseDistanceWidth(LGProtocolConstants, w)
<1> DEFINE x == SubSeq(w, 1, 4)
           y == SubSeq(w, 5, 20)
           z == SubSeq(w, 21, 28)
<1>1. x \o y \o z = w /\ y \in Word(16) /\ z \in Word(8)
  <2> DEFINE m == 4
             k == 16
             j == 8
  <2>1. m = 4 /\ m + 1 = 5 /\ m + k = 20 /\ m + k + 1 = 21 /\ m + k + j = 28
    OBVIOUS
  <2>2. m \in Nat /\ k \in Nat /\ j \in Nat /\ w \in Word(m + k + j)
    OBVIOUS
  <2> HIDE DEF m, k, j
  <2>3. /\ SubSeq(w, 1, m) \o SubSeq(w, m + 1, m + k) \o SubSeq(w, m + k + 1, m + k + j) = w
        /\ SubSeq(w, m + 1, m + k) \in Word(k)
        /\ SubSeq(w, m + k + 1, m + k + j) \in Word(j)
    BY <2>2, ThreeParts, Zenon
  <2>4. /\ x = SubSeq(w, 1, m) /\ y = SubSeq(w, m + 1, m + k)
        /\ z = SubSeq(w, m + k + 1, m + k + j)
    BY <2>1
  <2> HIDE DEF x, y, z
  <2>5. x \o y \o z = w /\ y \in Word(k) /\ z \in Word(j)
    BY <2>3, <2>4, Zenon
  <2> QED BY <2>5 DEF k, j
<1>2. x = LGChecksum(y)
  OBVIOUS
<1>3. d.command = Widen(y, 16) /\ d.address = Widen(z, 16)
  OBVIOUS
<1> HIDE DEF x, y, z
<1>4. d.command = y
  BY <1>1, <1>3, WidenSame
<1>5. HighByteZero(y)
  BY <1>4, Zenon DEF Lossy
<1>6. LGCommand(y) = y
  BY <1>1, <1>5, LowByteWidens DEF LGCommand
<1>7. Byte(d.address, 0) = z
  BY <1>1, <1>3, WidenByte
<1>8. computeLGRawDataAndChecksum(d.address, LGCommand(d.command)) = w
  BY <1>1, <1>2, <1>4, <1>6, <1>7, Zenon DEF computeLGRawDataAndChecksum
<1>9. FirstSent(d, t) = LGSent(d)
  BY FirstFor, Zenon
<1> QED BY <1>8, <1>9, Zenon DEF LGSent

LEMMA JVCBack ==
  ASSUME NEW w \in Word(16), NEW d, d.protocol = "JVC", d.address = Widen(Byte(w, 0), 16),
         d.command = Widen(Byte(w, 1), 16), NEW t
  PROVE  FirstSent(d, t) = sendPulseDistanceWidth(JVCProtocolConstants, w)
<1>1. Byte(w, 0) \in Word(8) /\ Byte(w, 1) \in Word(8)
  BY Sixteen
<1>2. Byte(d.address, 0) = Byte(w, 0) /\ Byte(d.command, 0) = Byte(w, 1)
  BY <1>1, WidenByte
<1>3. Byte(d.address, 0) \o Byte(d.command, 0) = w
  BY <1>2, Halves, Zenon
<1>4. FirstSent(d, t) = sendPulseDistanceWidth(JVCProtocolConstants,
                                               Byte(d.address, 0) \o Byte(d.command, 0))
  BY FirstFor, Zenon
<1> QED BY <1>3, <1>4, Zenon

LEMMA CheckedBack ==
  ASSUME NEW w \in Word(16), IsChecked(w, 0), NEW d, d.command = Widen(Byte(w, 0), 16)
  PROVE  Checked(Byte(d.command, 0)) = w
<1>1. Byte(w, 0) \in Word(8)
  BY Sixteen
<1>2. Byte(d.command, 0) = Byte(w, 0)
  BY <1>1, WidenByte
<1>3. 0 + 1 = 1
  OBVIOUS
<1>4. Byte(w, 1) = Inverted(Byte(w, 0))
  BY <1>3 DEF IsChecked
<1> QED BY <1>2, <1>4, Halves, Zenon DEF Checked

LEMMA SamsungBack ==
  ASSUME NEW w \in Word(32), NEW d, d.address = Widen(SubSeq(w, 1, 16), 16),
         d.command = Widen(SamsungCommand(32, w), 16),
         \/ d.protocol = "SAMSUNG" /\ (HighByteZero(d.command) => IsChecked(w, 2))
         \/ d.protocol = "SAMSUNG_LG" /\ IsChecked(w, 2),
         NEW t
  PROVE  FirstSent(d, t) = sendPulseDistanceWidth(SamsungProtocolConstants, w)
<1> DEFINE low == SubSeq(w, 1, 16)
           high == SubSeq(w, 17, 32)
           a == d.address
           c == d.command
<1>1. /\ low \in Word(16) /\ high \in Word(16) /\ low \o high = w
      /\ Byte(w, 2) \o Byte(w, 3) = high
  BY Quarters
<1>2. Byte(w, 2) \in Word(8)
  <2>1. 2 \in 0 .. 3
    OBVIOUS
  <2> QED BY <2>1, Quarters
<1>3. a = low
  BY <1>1, WidenSame
<1>4. c = Widen(IF IsChecked(w, 2) THEN Byte(w, 2) ELSE high, 16)
  BY DEF SamsungCommand
<1>5. Byte(w, 3) = Inverted(Byte(w, 2)) <=> IsChecked(w, 2)
  <2>1. 2 + 1 = 3
    OBVIOUS
  <2> QED BY <2>1 DEF IsChecked
<1>6. FirstSent(d, t) = IF d.protocol = "SAMSUNG" THEN SamsungSent(d) ELSE SamsungLGSent(d)
  BY FirstFor, Zenon
<1> HIDE DEF low, high, a, c
<1>7. CASE IsChecked(w, 2)
  <2>1. HighByteZero(c) /\ Byte(c, 0) = Byte(w, 2)
    BY <1>2, <1>4, <1>7, WidenByte
  <2>2. Checked(Byte(c, 0)) = high
    BY <1>1, <1>5, <1>7, <2>1, Zenon DEF Checked
  <2>3. SamsungWord(a, c) = w /\ a \o Checked(Byte(c, 0)) = w
    BY <1>1, <1>3, <2>1, <2>2, Zenon DEF SamsungWord
  <2> QED BY <1>6, <2>3, Zenon DEF SamsungSent, SamsungLGSent, a, c
<1>8. CASE ~IsChecked(w, 2)
  <2>1. d.protocol = "SAMSUNG" /\ ~HighByteZero(c)
    BY <1>8 DEF c
  <2>2. c = high
    BY <1>1, <1>4, <1>8, WidenSame
  <2>3. SamsungWord(a, c) = w
    BY <1>1, <1>3, <2>1, <2>2, Zenon DEF SamsungWord
  <2> QED BY <1>6, <2>1, <2>3, Zenon DEF SamsungSent, a, c
<1> QED BY <1>7, <1>8

LEMMA Samsung48Back ==
  ASSUME NEW w \in Word(48),
         w = SubSeq(w, 1, 16) \o Checked(Byte(w, 2)) \o Checked(Byte(w, 4)), NEW d,
         HasCode(d, "SAMSUNG48", SubSeq(w, 1, 16), SamsungCommand(48, w), SamsungRaw(48, w), 48),
         NEW t
  PROVE  FirstSent(d, t) = sendPulseDistanceWidth(SamsungProtocolConstants, w)
<1> DEFINE low == SubSeq(w, 1, 16)
           x == Byte(w, 2)
           y == Byte(w, 4)
           u == x \o y
           a == d.address
           c == d.command
<1>1. low \in Word(16) /\ x \in Word(8) /\ y \in Word(8)
  <2> DEFINE n == 48
             m == 16
  <2>1. /\ n \in Nat /\ m \in Nat /\ w \in Word(n) /\ 1 \in Nat /\ 1 <= 1 /\ m = 1 + m - 1 /\ m <= n
        /\ 2 \in Nat /\ 4 \in Nat /\ 8 * 2 + 8 <= n /\ 8 * 4 + 8 <= n
    OBVIOUS
  <2> HIDE DEF n, m
  <2>2. SubSeq(w, 1, m) \in Word(m)
    BY <2>1, PartIs
  <2>3. x \in Word(8) /\ y \in Word(8)
    BY <2>1, ByteWord
  <2> QED BY <2>2, <2>3 DEF m
<1>2. c = Widen(u, 16) /\ a = Widen(low, 16) /\ d.protocol = "SAMSUNG48"
  <2>1. SamsungCommand(48, w) = u
    BY DEF SamsungCommand
  <2> HIDE DEF u
  <2> QED BY <2>1, Zenon DEF HasCode
<1>3. w = low \o Checked(x) \o Checked(y)
  OBVIOUS
<1> HIDE DEF low, x, y, a, c
<1>4. a = low
  BY <1>1, <1>2, WidenSame
<1>5. u \in Word(16) /\ \A i \in 1 .. 8 : u[i] = x[i] /\ u[8 + i] = y[i]
  <2> DEFINE m == 8
  <2>1. m \in Nat /\ x \in Word(m) /\ y \in Word(m)
    BY <1>1
  <2> HIDE DEF m
  <2>2. /\ u \in Word(m + m)
        /\ \A i \in 1 .. m : u[i] = x[i]
        /\ \A i \in 1 .. m : u[m + i] = y[i]
    BY <2>1, JoinedWords, Zenon
  <2> HIDE DEF u
  <2>3. m = 8 /\ m + m = 16
    BY DEF m
  <2>4. u \in Word(16)
    BY <2>2, <2>3, Zenon
  <2>5. \A i \in 1 .. 8 : u[i] = x[i] /\ u[8 + i] = y[i]
    BY <2>2 DEF m
  <2> QED BY <2>4, <2>5
<1> HIDE DEF u
<1>6. c = u
  BY <1>2, <1>5, WidenSame
<1>7. /\ Byte(u, 0) \in Word(8) /\ Byte(u, 1) \in Word(8)
      /\ \A i \in 1 .. 8 : Byte(u, 0)[i] = u[i] /\ Byte(u, 1)[i] = u[8 + i]
  BY <1>5, Sixteen
<1>8. Byte(u, 0) = x
  <2>1. \A i \in 1 .. 8 : Byte(u, 0)[i] = x[i]
    BY <1>5, <1>7
  <2> QED BY <1>1, <1>7, <2>1, WordsEqual
<1>9. Byte(u, 1) = y
  <2>1. \A i \in 1 .. 8 : Byte(u, 1)[i] = y[i]
    BY <1>5, <1>7
  <2> QED BY <1>1, <1>7, <2>1, WordsEqual
<1>10. FirstSent(d, t) = Samsung48Sent(d)
  BY <1>2, FirstFor, Zenon
<1>11. Samsung48Sent(d) = sendPulseDistanceWidth(SamsungProtocolConstants,
                                                 low \o Checked(x) \o Checked(y))
  BY <1>4, <1>6, <1>8, <1>9, Zenon DEF Samsung48Sent, a, c
<1> QED BY <1>3, <1>10, <1>11, Zenon

LEMMA LegoBack ==
  ASSUME NEW w \in Word(16),
         w = LegoWord(SubSeq(w, 13, 16), SubSeq(w, 5, 8), SubSeq(w, 9, 12)), NEW d,
         HasCode(d, "LEGO_PF", SubSeq(w, 13, 16), SubSeq(w, 5, 12), w, 16), NEW t
  PROVE  FirstSent(d, t) = sendPulseDistanceWidth(LegoProtocolConstants, w)
<1> DEFINE x == SubSeq(w, 13, 16)
           y == SubSeq(w, 5, 12)
           p == SubSeq(w, 5, 8)
           q == SubSeq(w, 9, 12)
           a == d.address
           c == d.command
           n == 16
           m == 8
           k == 4
<1>1. /\ n \in Nat /\ m \in Nat /\ k \in Nat /\ w \in Word(n) /\ k <= n /\ m <= n
      /\ 16 = 13 + k - 1 /\ 12 = 5 + m - 1 /\ 8 = 5 + k - 1 /\ 12 = 9 + k - 1 /\ 4 = 1 + k - 1
      /\ 16 <= n /\ 4 = k /\ 8 <= n
  OBVIOUS
<1>2. a = Widen(x, n) /\ c = Widen(y, n) /\ d.protocol = "LEGO_PF"
  BY Zenon DEF HasCode
<1>3. w = LegoWord(x, p, q)
  OBVIOUS
<1> HIDE DEF n, m, k, a, c
<1>4. x \in Word(k)
  BY <1>1, PartIs
<1>5. y \in Word(m) /\ \A i \in 1 .. m : y[i] = w[5 + i - 1]
  BY <1>1, PartIs
<1> HIDE DEF x, y
<1>6. SubSeq(a, 1, 4) = x
  <2>1. SubSeq(Widen(x, n), 1, k) = x
    BY <1>1, <1>4, WidenKeeps
  <2> QED BY <1>1, <1>2, <2>1
<1>7. c \in Word(n) /\ \A i \in 1 .. m : c[i] = w[5 + i - 1]
  <2>1. m \in Nat /\ n \in Nat /\ y \in Word(m)
    BY <1>1, <1>5
  <2>2. Widen(y, n) \in Word(n) /\ \A i \in 1 .. n : Widen(y, n)[i] = IF i <= m THEN y[i] ELSE 0
    BY <2>1, WidenIs, Zenon
  <2> HIDE DEF y
  <2> QED BY <1>1, <1>2, <1>5, <2>2
<1>8. SubSeq(c, 1, 4) = p
  <2>1. \A i \in 1 .. k : c[1 + i - 1] = w[5 + i - 1]
    BY <1>7 DEF k, m
  <2>2. 1 \in Nat /\ 4 \in Nat /\ 5 \in Nat /\ 8 \in Nat /\ 1 <= 1 /\ 4 <= n /\ 1 <= 5
    BY <1>1
  <2> QED BY <1>1, <1>7, <2>1, <2>2, PartEqual
<1>9. SubSeq(c, 5, 8) = q
  <2>1. \A i \in 1 .. k : c[5 + i - 1] = w[9 + i - 1]
    BY <1>7 DEF k, m
  <2>2. 9 \in Nat /\ 12 \in Nat /\ 5 \in Nat /\ 8 \in Nat /\ 1 <= 9 /\ 12 <= n /\ 1 <= 5
    BY <1>1
  <2> QED BY <1>1, <1>7, <2>1, <2>2, PartEqual
<1> HIDE DEF p, q
<1>10. FirstSent(d, t) = LegoSent(d)
  BY <1>2, FirstFor, Zenon
<1>11. LegoSent(d) = sendPulseDistanceWidth(LegoProtocolConstants, LegoWord(x, p, q))
  BY <1>6, <1>8, <1>9, Zenon DEF LegoSent, a, c
<1> QED BY <1>3, <1>10, <1>11, Zenon

LEMMA MagiQuestBack ==
  ASSUME NEW id \in Word(31), NEW magnitude \in Word(9), NEW d,
         HasCode(d, "MAGIQUEST", SubSeq(id, 1, 16), magnitude, id, 56), NEW t
  PROVE  FirstSent(d, t) = MagiQuestFrame(id, magnitude)
<1>1. /\ d.protocol = "MAGIQUEST" /\ d.raw = id /\ d.command = Widen(magnitude, 16)
  BY Zenon DEF HasCode
<1>2. Widen(id, 31) = id
  <2> DEFINE n == 31
  <2>1. n \in Nat /\ id \in Word(n)
    OBVIOUS
  <2> HIDE DEF n
  <2>2. Widen(id, n) = id
    BY <2>1, WidenItself
  <2> QED BY <2>2 DEF n
<1>3. SubSeq(d.command, 1, 9) = magnitude
  <2> DEFINE n == 16
             m == 9
  <2>1. n \in Nat /\ m \in Nat /\ magnitude \in Word(m) /\ m <= n
    OBVIOUS
  <2> HIDE DEF n, m
  <2>2. SubSeq(Widen(magnitude, n), 1, m) = magnitude
    BY <2>1, WidenKeeps
  <2> QED BY <1>1, <2>2 DEF n, m
<1>4. FirstSent(d, t) = MagiQuestFrame(Widen(d.raw, 31), SubSeq(d.command, 1, 9))
  BY <1>1, FirstFor, Zenon
<1> QED BY <1>1, <1>2, <1>3, <1>4, Zenon

----------------------------------------------------------------------------
(* The keys of the protocols that are not measured, and what is emitted    *)
(* for them.                                                               *)

NecKey(k) ==
  \E w \in Word(32) : /\ k.forms = {sendPulseDistanceWidth(NECProtocolConstants, w)}
                      /\ k.held = sendNECSpecialRepeat

(* The vendor must be known, or nothing is emitted.                        *)
KaseikyoKey(k) ==
  \E w \in Word(48) :
    /\ k.forms = {sendPulseDistanceWidth(KaseikyoProtocolConstants, w)}
    /\ k.held = sendPulseDistanceWidth(KaseikyoProtocolConstants, w)
    /\ \/ KaseikyoProtocol(SubSeq(w, 1, 16)) = "KASEIKYO"
       \/ w = KaseikyoWord(SubSeq(w, 1, 16), SubSeq(w, 21, 32), Byte(w, 4))

(* The inverted frame comes soon after the first one.                      *)
DenonKey(k) ==
  /\ \A p \in RepeatPauses : p < 1125
  /\ \E w \in Word(15) :
       /\ w[14] = 0
       /\ k.forms = {sendPulseDistanceWidthData(DenonProtocolConstants, w)}
       /\ k.held = sendPulseDistanceWidthData(DenonProtocolConstants, DenonInverted(w))

SonyKey(k) ==
  \E n \in {12, 15, 20} : \E w \in Word(n) :
    /\ k.forms = {sendPulseDistanceWidth(SonyProtocolConstants, w)}
    /\ k.held = sendPulseDistanceWidth(SonyProtocolConstants, w)

(* One frame for each toggle bit.                                          *)
RC5Key(k) ==
  \E w \in Word(13) :
    /\ k.forms = {sendBiphaseData(RC5_UNIT, [w EXCEPT ![12] = t]) : t \in Bit}
    /\ k.held \in k.forms

RC6Key(k) ==
  \E w \in Word(20) :
    /\ w[18] = 0 /\ w[19] = 0 /\ w[20] = 0
    /\ k.forms = {RC6Frame([w EXCEPT ![17] = t]) : t \in Bit} /\ k.held \in k.forms

LGKey(k) ==
  \E w \in Word(28) : /\ SubSeq(w, 1, 4) = LGChecksum(SubSeq(w, 5, 20))
                      /\ k.forms = {sendPulseDistanceWidth(LGProtocolConstants, w)}
                      /\ k.held = sendNECSpecialRepeat

JVCKey(k) ==
  /\ \A p \in RepeatPauses : JVCInTime(p)
  /\ \E w \in Word(16) : /\ k.forms = {sendPulseDistanceWidth(JVCProtocolConstants, w)}
                         /\ k.held = sendPulseDistanceWidthData(JVCProtocolConstants, w)

(* The short repeat is for commands of a byte and its complement.          *)
SamsungKey(k) ==
  \/ \E w \in Word(32) :
       /\ k.forms = {sendPulseDistanceWidth(SamsungProtocolConstants, w)}
       /\ \/ k.held = sendPulseDistanceWidth(SamsungProtocolConstants, w)
          \/ k.held = sendSamsungLGSpecialRepeat /\ IsChecked(w, 2)
  \/ \E w \in Word(48) :
       /\ w = SubSeq(w, 1, 16) \o Checked(Byte(w, 2)) \o Checked(Byte(w, 4))
       /\ k.forms = {sendPulseDistanceWidth(SamsungProtocolConstants, w)}
       /\ k.held = sendPulseDistanceWidth(SamsungProtocolConstants, w)

RareForm(f) ==
  \/ \E w \in Word(16) :
       \/ IsChecked(w, 0) /\ f = sendPulseDistanceWidth(FASTProtocolConstants, w)
       \/ IsChecked(w, 0) /\ f = sendPulseDistanceWidth(BoseWaveProtocolConstants, w)
       \/ /\ w = LegoWord(SubSeq(w, 13, 16), SubSeq(w, 5, 8), SubSeq(w, 9, 12))
          /\ f = sendPulseDistanceWidth(LegoProtocolConstants, w)
  \/ \E w \in Word(32) : f = sendPulseDistanceWidth(WhynterProtocolConstants, w)
  \/ \E id \in Word(31), magnitude \in Word(9) :
       /\ MagiQuestChecksum(id, magnitude) \in Word(8)
       /\ f = MagiQuestFrame(id, magnitude)
RareKey(k) == \E f : k.forms = {f} /\ k.held = f /\ RareForm(f)

Genuine(k) ==
  \/ NecKey(k) \/ KaseikyoKey(k) \/ DenonKey(k) \/ SonyKey(k) \/ RC5Key(k) \/ RC6Key(k)
  \/ LGKey(k) \/ JVCKey(k) \/ SamsungKey(k) \/ RareKey(k)

LEMMA SamePart ==
  ASSUME NEW n \in Nat, NEW v \in Word(n), NEW w \in Word(n), NEW a \in Nat, NEW b \in Nat,
         1 <= a, b <= n, a <= b + 1, \A i \in a .. b : v[i] = w[i]
  PROVE  SubSeq(v, a, b) = SubSeq(w, a, b)
<1> DEFINE k == b + 1 - a
<1>1. k \in Nat /\ b = a + k - 1
  OBVIOUS
<1> HIDE DEF k
<1>2. \A i \in 1 .. k : v[a + i - 1] = w[a + i - 1]
  BY <1>1
<1> QED BY <1>1, <1>2, PartEqual

(* The code e is sent as a frame of the key, unless the code d that it     *)
(* stands for is one that does not survive.                                *)
SentAsKey(k, d, e) == ~Lossy(d) => \A t \in Bit : FirstSent(e, t) \in k.forms

(* The frame of the key while it is held is read as the code d before it.  *)
HeldAs(k, d) ==
  \A rx : Sampled(k.held, rx.ticks) /\ rx.pause \in RepeatPauses
    => LET e == Mid_IrRemoteDecode(rx, d)
       IN  /\ e.protocol # "UNKNOWN" /\ e.address = d.address /\ e.command = d.command
           /\ SentAsKey(k, d, e)

StandsFor(k) ==
  \A f \in k.forms : \A rx, last :
    Sampled(f, rx.ticks) /\ rx.pause \in Nat /\ Typed(last)
      => LET d == Mid_IrRemoteDecode(rx, last) IN SentAsKey(k, d, d) /\ HeldAs(k, d)

(* A key that sends the same frame as long as it is held.                  *)
AlwaysRead(k, f, p, a, c, raw, n) ==
  /\ k.forms = {f} /\ k.held = f /\ p # "UNKNOWN"
  /\ \A rx, last : Sampled(f, rx.ticks) => HasCode(Mid_IrRemoteDecode(rx, last), p, a, c, raw, n)
  /\ \A d : HasCode(d, p, a, c, raw, n) /\ ~Lossy(d) => \A t \in Bit : FirstSent(d, t) = f

LEMMA SameFrameKey ==
  ASSUME NEW k, NEW f, NEW p, NEW a, NEW c, NEW raw, NEW n, AlwaysRead(k, f, p, a, c, raw, n)
  PROVE  StandsFor(k)
<1>1. /\ k.forms = {f} /\ k.held = f /\ p # "UNKNOWN"
      /\ \A rx, last : Sampled(f, rx.ticks)
           => HasCode(Mid_IrRemoteDecode(rx, last), p, a, c, raw, n)
      /\ \A d : HasCode(d, p, a, c, raw, n) /\ ~Lossy(d) => \A t \in Bit : FirstSent(d, t) = f
  BY Zenon DEF AlwaysRead
<1>2. \A d : HasCode(d, p, a, c, raw, n) => SentAsKey(k, d, d)
  BY <1>1 DEF SentAsKey
<1>3. \A d, e : HasCode(d, p, a, c, raw, n) /\ HasCode(e, p, a, c, raw, n)
        => /\ e.protocol # "UNKNOWN" /\ e.address = d.address /\ e.command = d.command
           /\ Lossy(e) <=> Lossy(d)
  <2> SUFFICES ASSUME NEW d, NEW e, HasCode(d, p, a, c, raw, n), HasCode(e, p, a, c, raw, n)
               PROVE  /\ e.protocol # "UNKNOWN" /\ e.address = d.address
                      /\ e.command = d.command
                      /\ Lossy(e) <=> Lossy(d)
    BY Zenon
  <2>1. p # "UNKNOWN"
    BY <1>1
  <2>2. /\ d.protocol = p /\ e.protocol = p /\ e.address = d.address /\ e.command = d.command
        /\ e.raw = d.raw
    BY Zenon DEF HasCode
  <2>3. Lossy(e) <=> Lossy(d)
    <3>1. e.protocol = d.protocol /\ e.address = d.address /\ e.command = d.command
          /\ e.raw = d.raw
      BY <2>2
    <3> QED BY <3>1, Zenon DEF Lossy
  <2> QED BY <2>1, <2>2, <2>3
<1>4. \A d : HasCode(d, p, a, c, raw, n) => HeldAs(k, d)
  <2> SUFFICES ASSUME NEW d, HasCode(d, p, a, c, raw, n), NEW rx, Sampled(k.held, rx.ticks)
               PROVE  LET e == Mid_IrRemoteDecode(rx, d)
                      IN  /\ e.protocol # "UNKNOWN" /\ e.address = d.address
                          /\ e.command = d.command /\ SentAsKey(k, d, e)
    BY Zenon DEF HeldAs
  <2> DEFINE e == Mid_IrRemoteDecode(rx, d)
  <2>1. HasCode(e, p, a, c, raw, n)
    BY <1>1, Zenon
  <2> HIDE DEF e
  <2>2. SentAsKey(k, d, e)
    BY <1>2, <1>3, <2>1, Zenon DEF SentAsKey
  <2> QED BY <1>3, <2>1, <2>2, Zenon DEF e
<1> QED BY <1>1, <1>2, <1>4, Zenon DEF StandsFor

(* The code that stands for the one before it is sent as that one.         *)
LEMMA SameSends ==
  ASSUME NEW d, NEW e, e.protocol = d.protocol, e.address = d.address, e.command = d.command,
         d.protocol \in {"NEC", "NEC2", "ONKYO", "APPLE", "LG", "JVC", "DENON", "SHARP"}, NEW t
  PROVE  FirstSent(e, t) = FirstSent(d, t)
<1> DEFINE p == d.protocol
<1>1. CASE p \in {"NEC", "NEC2"}
  <2>1. FirstSent(d, t) = NecSent(d) /\ FirstSent(e, t) = NecSent(e)
    BY <1>1, FirstFor, Zenon
  <2> QED BY <2>1, Zenon DEF NecSent
<1>2. CASE p = "ONKYO"
  BY <1>2, FirstFor, ZenonT(30) DEF OnkyoSent
<1>3. CASE p = "APPLE"
  BY <1>3, FirstFor, Zenon DEF AppleSent
<1>4. CASE p = "LG"
  BY <1>4, FirstFor, Zenon DEF LGSent
<1>5. CASE p = "JVC"
  BY <1>5, FirstFor, Zenon
<1>6. CASE p = "DENON"
  <2>1. Mid_IrSendCommon(d, t) = sendDenon(DenonWord(d.address, d.command, FALSE))
    BY <1>6, SentFor, Zenon
  <2>2. Mid_IrSendCommon(e, t) = sendDenon(DenonWord(e.address, e.command, FALSE))
    BY <1>6, SentFor, Zenon
  <2> QED BY <2>1, <2>2, Zenon DEF FirstSent
<1>7. CASE p = "SHARP"
  <2>1. Mid_IrSendCommon(d, t) = sendDenon(DenonWord(d.address, d.command, TRUE))
    BY <1>7, SentFor, Zenon
  <2>2. Mid_IrSendCommon(e, t) = sendDenon(DenonWord(e.address, e.command, TRUE))
    BY <1>7, SentFor, Zenon
  <2> QED BY <2>1, <2>2, Zenon DEF FirstSent
<1> QED BY <1>1, <1>2, <1>3, <1>4, <1>5, <1>6, <1>7

(* A key whose frame while it is held stands for the code before it.       *)
LEMMA LastAgainKey ==
  ASSUME NEW d, Typed(d), NEW k,
         \A rx : Sampled(k.held, rx.ticks) /\ rx.pause \in RepeatPauses
           => Mid_IrRemoteDecode(rx, d) = LastAgain(d.protocol, d),
         d.protocol \in {"NEC", "NEC2", "ONKYO", "APPLE", "LG", "JVC"}, SentAsKey(k, d, d)
  PROVE  HeldAs(k, d)
<1> DEFINE p == d.protocol
           e == LastAgain(p, d)
<1>1. e.protocol = p /\ e.address = d.address /\ e.command = d.command
  <2> HIDE DEF p
  <2> QED BY LastAgainHas
<1>2. e.protocol # "UNKNOWN"
  <2> HIDE DEF e
  <2> QED BY <1>1
<1> HIDE DEF e
<1>3. \A t : FirstSent(e, t) = FirstSent(d, t)
  <2>1. d.protocol \in {"NEC", "NEC2", "ONKYO", "APPLE", "LG", "JVC", "DENON", "SHARP"}
    OBVIOUS
  <2> QED BY <1>1, <2>1, SameSends, Zenon
<1>4. SentAsKey(k, d, e)
  BY <1>3, Zenon DEF SentAsKey
<1> QED BY <1>1, <1>2, <1>4, Zenon DEF HeldAs, e

(* A key with a frame for each toggle bit, all of them sent.               *)
TogglesRead(k, p, a, c) ==
  /\ k.held \in k.forms /\ p # "UNKNOWN"
  /\ \A f \in k.forms : \A rx, last : Sampled(f, rx.ticks)
       => LET d == Mid_IrRemoteDecode(rx, last)
          IN  /\ d.protocol = p /\ d.address = a /\ d.command = c
              /\ \A t \in Bit : FirstSent(d, t) \in k.forms

LEMMA ToggleKey ==
  ASSUME NEW k, NEW p, NEW a, NEW c, TogglesRead(k, p, a, c) PROVE StandsFor(k)
<1>1. k.held \in k.forms /\ p # "UNKNOWN"
  BY Zenon DEF TogglesRead
<1>2. \A f \in k.forms : \A rx, last : Sampled(f, rx.ticks)
        => LET d == Mid_IrRemoteDecode(rx, last)
           IN  /\ d.protocol = p /\ d.address = a /\ d.command = c
               /\ \A t \in Bit : FirstSent(d, t) \in k.forms
  BY Zenon DEF TogglesRead
<1>3. ASSUME NEW f \in k.forms, NEW rx, NEW last, Sampled(f, rx.ticks)
      PROVE  LET d == Mid_IrRemoteDecode(rx, last) IN SentAsKey(k, d, d) /\ HeldAs(k, d)
  <2> DEFINE d == Mid_IrRemoteDecode(rx, last)
  <2>1. /\ d.protocol = p /\ d.address = a /\ d.command = c
        /\ \A t \in Bit : FirstSent(d, t) \in k.forms
    BY <1>3, <1>2, Zenon
  <2> HIDE DEF d
  <2>2. ASSUME NEW x, Sampled(k.held, x.ticks)
        PROVE  LET e == Mid_IrRemoteDecode(x, d)
               IN  /\ e.protocol # "UNKNOWN" /\ e.address = d.address /\ e.command = d.command
                   /\ SentAsKey(k, d, e)
    <3> DEFINE e == Mid_IrRemoteDecode(x, d)
    <3>1. /\ e.protocol = p /\ e.address = a /\ e.command = c
          /\ \A t \in Bit : FirstSent(e, t) \in k.forms
      BY <1>1, <1>2, <2>2, Zenon
    <3> HIDE DEF e
    <3>2. SentAsKey(k, d, e)
      BY <3>1, Zenon DEF SentAsKey
    <3> QED BY <1>1, <2>1, <3>1, <3>2 DEF e
  <2>3. HeldAs(k, d)
    BY <2>2, Zenon DEF HeldAs
  <2>4. SentAsKey(k, d, d)
    BY <2>1, Zenon DEF SentAsKey
  <2> QED BY <2>3, <2>4 DEF d
<1> QED BY <1>3, Zenon DEF StandsFor

LEMMA NecStands == ASSUME NEW k, NecKey(k) PROVE StandsFor(k)
<1>1. PICK w \in Word(32) : /\ k.forms = {sendPulseDistanceWidth(NECProtocolConstants, w)}
                            /\ k.held = sendNECSpecialRepeat
  BY Zenon DEF NecKey
<1> DEFINE f == sendPulseDistanceWidth(NECProtocolConstants, w)
<1>2. ASSUME NEW rx, NEW last, Sampled(f, rx.ticks), Typed(last)
      PROVE  LET d == Mid_IrRemoteDecode(rx, last) IN SentAsKey(k, d, d) /\ HeldAs(k, d)
  <2> DEFINE d == Mid_IrRemoteDecode(rx, last)
  <2>1. PICK p \in {"NEC2", NecProtocol(w)} :
          HasCode(d, p, NecAddress(w), NecCommand(w), w, 32)
    BY <1>2, NecDecoded, Zenon
  <2>2. Typed(d)
    <3>1. Len(rx.ticks) \in Nat
      BY <1>2, SampledLen, Zenon
    <3> QED BY <1>2, <3>1, DecodedTyped, Zenon
  <2> HIDE DEF d
  <2>3. d.protocol \in {"NEC", "NEC2", "ONKYO", "APPLE", "LG", "JVC"}
    <3>1. p \in {"NEC2", "APPLE", "NEC", "ONKYO"}
      BY DEF NecProtocol
    <3>2. d.protocol = p
      BY <2>1, Zenon DEF HasCode
    <3> QED BY <3>1, <3>2
  <2>4. SentAsKey(k, d, d)
    <3>1. ~Lossy(d) => \A t \in Bit : FirstSent(d, t) = f
      BY <2>1, NecBack, Zenon
    <3> HIDE DEF f
    <3>2. f \in k.forms
      BY <1>1 DEF f
    <3> QED BY <3>1, <3>2, Zenon DEF SentAsKey
  <2>5. \A x : Sampled(k.held, x.ticks) => Mid_IrRemoteDecode(x, d) = LastAgain(d.protocol, d)
    BY <1>1, ShortDecoded, Zenon
  <2>6. HeldAs(k, d)
    BY <2>2, <2>3, <2>4, <2>5, LastAgainKey
  <2> QED BY <2>4, <2>6 DEF d
<1> HIDE DEF f
<1>3. k.forms = {f}
  BY <1>1 DEF f
<1> QED BY <1>2, <1>3, Zenon DEF StandsFor

LEMMA KaseikyoStands == ASSUME NEW k, KaseikyoKey(k) PROVE StandsFor(k)
<1>1. PICK w \in Word(48) :
        /\ k.forms = {sendPulseDistanceWidth(KaseikyoProtocolConstants, w)}
        /\ k.held = sendPulseDistanceWidth(KaseikyoProtocolConstants, w)
        /\ \/ KaseikyoProtocol(SubSeq(w, 1, 16)) = "KASEIKYO"
           \/ w = KaseikyoWord(SubSeq(w, 1, 16), SubSeq(w, 21, 32), Byte(w, 4))
  BY Zenon DEF KaseikyoKey
<1> DEFINE f == sendPulseDistanceWidth(KaseikyoProtocolConstants, w)
           p == KaseikyoProtocol(SubSeq(w, 1, 16))
           a == SubSeq(w, 21, 32)
           c == Byte(w, 4)
           raw == SubSeq(w, 17, 48)
           n == 48
<1>2. p # "UNKNOWN"
  BY DEF KaseikyoProtocol
<1>3. \A rx, last : Sampled(f, rx.ticks) => HasCode(Mid_IrRemoteDecode(rx, last), p, a, c, raw, n)
  BY KaseikyoDecoded, Zenon
<1>4. ASSUME NEW d, HasCode(d, p, a, c, raw, n), ~Lossy(d) PROVE \A t \in Bit : FirstSent(d, t) = f
  <2>1. d.protocol # "KASEIKYO"
    BY <1>4, Zenon DEF Lossy, WithoutSender
  <2>2. d.protocol = p
    BY <1>4, Zenon DEF HasCode
  <2>3. w = KaseikyoWord(SubSeq(w, 1, 16), SubSeq(w, 21, 32), Byte(w, 4))
    BY <1>1, <2>1, <2>2, Zenon
  <2> QED BY <1>4, <2>3, KaseikyoBack, Zenon
<1>5. k.forms = {f} /\ k.held = f
  BY <1>1
<1> HIDE DEF f, p, a, c, raw, n
<1>6. AlwaysRead(k, f, p, a, c, raw, n)
  BY <1>2, <1>3, <1>4, <1>5, Zenon DEF AlwaysRead
<1> QED BY <1>6, SameFrameKey, Zenon

LEMMA SonyStands == ASSUME NEW k, SonyKey(k) PROVE StandsFor(k)
<1>1. PICK n \in {12, 15, 20} : \E w \in Word(n) :
        /\ k.forms = {sendPulseDistanceWidth(SonyProtocolConstants, w)}
        /\ k.held = sendPulseDistanceWidth(SonyProtocolConstants, w)
  BY Zenon DEF SonyKey
<1>2. PICK w \in Word(n) : /\ k.forms = {sendPulseDistanceWidth(SonyProtocolConstants, w)}
                           /\ k.held = sendPulseDistanceWidth(SonyProtocolConstants, w)
  BY <1>1
<1> DEFINE f == sendPulseDistanceWidth(SonyProtocolConstants, w)
           p == "SONY"
           a == SubSeq(w, 8, n)
           c == SubSeq(w, 1, 7)
<1>3. n \in Nat /\ n - 7 \in 0 .. 16
  OBVIOUS
<1>4. \A rx, last : Sampled(f, rx.ticks) => HasCode(Mid_IrRemoteDecode(rx, last), p, a, c, w, n)
  BY SonyDecoded, Zenon
<1>5. \A d : HasCode(d, p, a, c, w, n) /\ ~Lossy(d) => \A t \in Bit : FirstSent(d, t) = f
  BY <1>3, SonyBack, Zenon
<1>6. k.forms = {f} /\ k.held = f
  BY <1>2
<1>7. p # "UNKNOWN"
  OBVIOUS
<1> HIDE DEF f, p, a, c
<1>8. AlwaysRead(k, f, p, a, c, w, n)
  BY <1>4, <1>5, <1>6, <1>7, Zenon DEF AlwaysRead
<1> QED BY <1>8, SameFrameKey, Zenon

LEMMA RC5Stands == ASSUME NEW k, RC5Key(k) PROVE StandsFor(k)
<1>1. PICK w \in Word(13) :
        /\ k.forms = {sendBiphaseData(RC5_UNIT, [w EXCEPT ![12] = t]) : t \in Bit}
        /\ k.held \in k.forms
  BY Zenon DEF RC5Key
<1> DEFINE v(t) == [w EXCEPT ![12] = t]
           Has(d) == /\ d.protocol = "RC5" /\ d.address = Widen(RC5Address(w), 16)
                     /\ d.command = Widen(RC5Command(w), 16)
                     /\ \A t \in Bit : FirstSent(d, t) \in k.forms
<1>2. \A s \in Bit : /\ v(s) \in Word(13) /\ \A t \in Bit : [v(s) EXCEPT ![12] = t] = v(t)
                     /\ RC5Address(v(s)) = RC5Address(w) /\ RC5Command(v(s)) = RC5Command(w)
  <2> SUFFICES ASSUME NEW s \in Bit
               PROVE  /\ v(s) \in Word(13) /\ \A t \in Bit : [v(s) EXCEPT ![12] = t] = v(t)
                      /\ RC5Address(v(s)) = RC5Address(w) /\ RC5Command(v(s)) = RC5Command(w)
    OBVIOUS
  <2> DEFINE u == v(s)
             m == 16
             n == 13
             x == Widen(u, m)
             y == Widen(w, m)
  <2>1. v(s) \in Word(13) /\ \A i \in 1 .. 13 : i # 12 => v(s)[i] = w[i]
    BY DEF Word
  <2>2. \A t \in Bit : [v(s) EXCEPT ![12] = t] = v(t)
    BY DEF Word
  <2>3. m \in Nat /\ n \in Nat /\ w \in Word(n) /\ u \in Word(n)
    BY <2>1
  <2> HIDE DEF v, u, m, n
  <2>4. /\ x \in Word(m) /\ \A i \in 1 .. m : x[i] = IF i <= n THEN u[i] ELSE 0
        /\ y \in Word(m) /\ \A i \in 1 .. m : y[i] = IF i <= n THEN w[i] ELSE 0
    BY <2>3, WidenIs, Zenon
  <2> HIDE DEF x, y
  <2>5. x \in Word(16) /\ y \in Word(16) /\ \A i \in 1 .. 16 : i # 12 => x[i] = y[i]
    BY <2>1, <2>4 DEF u, m, n
  <2>6. SubSeq(x, 7, 11) = SubSeq(y, 7, 11)
    <3>1. 7 \in Nat /\ 11 \in Nat /\ 1 <= 7 /\ 11 <= m /\ 7 <= 11 + 1
          /\ \A i \in 7 .. 11 : x[i] = y[i]
      BY <2>5 DEF m
    <3>2. m \in Nat /\ x \in Word(m) /\ y \in Word(m)
      BY <2>3, <2>4
    <3> QED BY <3>1, <3>2, SamePart
  <2>7. SubSeq(x, 1, 6) = SubSeq(y, 1, 6)
    <3>1. 1 \in Nat /\ 6 \in Nat /\ 1 <= 1 /\ 6 <= m /\ 1 <= 6 + 1
          /\ \A i \in 1 .. 6 : x[i] = y[i]
      BY <2>5 DEF m
    <3>2. m \in Nat /\ x \in Word(m) /\ y \in Word(m)
      BY <2>3, <2>4
    <3> QED BY <3>1, <3>2, SamePart
  <2>8. x[13] = y[13]
    BY <2>5
  <2>9. x = Widen(u, 16) /\ y = Widen(w, 16)
    BY DEF x, y, m
  <2>10. RC5Address(u) = RC5Address(w) /\ RC5Command(u) = RC5Command(w)
    BY <2>6, <2>7, <2>8, <2>9, Zenon DEF RC5Address, RC5Command
  <2> QED BY <2>1, <2>2, <2>10 DEF u
<1> HIDE DEF v
<1>3. \A s \in Bit : \A rx, last :
        Sampled(sendBiphaseData(RC5_UNIT, v(s)), rx.ticks) => Has(Mid_IrRemoteDecode(rx, last))
  <2> SUFFICES ASSUME NEW s \in Bit, NEW rx, NEW last,
                      Sampled(sendBiphaseData(RC5_UNIT, v(s)), rx.ticks)
               PROVE  Has(Mid_IrRemoteDecode(rx, last))
    BY Zenon
  <2> DEFINE d == Mid_IrRemoteDecode(rx, last)
             u == v(s)
  <2>1. HasCode(d, "RC5", RC5Address(u), RC5Command(u), u, 13)
    BY <1>2, RC5Decoded, Zenon
  <2> HIDE DEF d, u
  <2>2. RC5Address(u) = RC5Address(w) /\ RC5Command(u) = RC5Command(w) /\ u \in Word(13)
    BY <1>2 DEF u
  <2>3. \A t \in Bit : FirstSent(d, t) \in k.forms
    <3> SUFFICES ASSUME NEW t \in Bit PROVE FirstSent(d, t) \in k.forms
      OBVIOUS
    <3>1. FirstSent(d, t) = sendBiphaseData(RC5_UNIT, [u EXCEPT ![12] = t])
      BY <2>1, <2>2, RC5Back, Zenon
    <3>2. [u EXCEPT ![12] = t] = v(t)
      BY <1>2, Zenon DEF u
    <3>3. sendBiphaseData(RC5_UNIT, v(t)) \in k.forms
      BY <1>1 DEF v
    <3> QED BY <3>1, <3>2, <3>3
  <2> QED BY <2>1, <2>2, <2>3, Zenon DEF HasCode, d
<1>4. \A f \in k.forms : \E s \in Bit : f = sendBiphaseData(RC5_UNIT, v(s))
  BY <1>1 DEF v
<1> DEFINE p == "RC5"
<1>5. p # "UNKNOWN"
  OBVIOUS
<1>6. \A f \in k.forms : \A rx, last : Sampled(f, rx.ticks)
        => LET d == Mid_IrRemoteDecode(rx, last)
           IN  /\ d.protocol = p /\ d.address = Widen(RC5Address(w), 16)
               /\ d.command = Widen(RC5Command(w), 16)
               /\ \A t \in Bit : FirstSent(d, t) \in k.forms
  BY <1>3, <1>4, Zenon
<1> HIDE DEF p
<1>7. TogglesRead(k, p, Widen(RC5Address(w), 16), Widen(RC5Command(w), 16))
  BY <1>1, <1>5, <1>6, ZenonT(30) DEF TogglesRead
<1> QED BY <1>7, ToggleKey, Zenon

LEMMA RC6Stands == ASSUME NEW k, RC6Key(k) PROVE StandsFor(k)
<1>1. PICK w \in Word(20) :
        /\ w[18] = 0 /\ w[19] = 0 /\ w[20] = 0
        /\ k.forms = {RC6Frame([w EXCEPT ![17] = t]) : t \in Bit} /\ k.held \in k.forms
  BY Zenon DEF RC6Key
<1> DEFINE v(t) == [w EXCEPT ![17] = t]
           b == Widen(w, 16)
           Has(d) == /\ d.protocol = "RC6" /\ d.address = Widen(Byte(b, 1), 16)
                     /\ d.command = Widen(Byte(b, 0), 16)
                     /\ \A t \in Bit : FirstSent(d, t) \in k.forms
<1>2. \A s \in Bit : /\ v(s) \in Word(20) /\ \A t \in Bit : [v(s) EXCEPT ![17] = t] = v(t)
                     /\ Widen(v(s), 16) = b
                     /\ v(s)[18] = 0 /\ v(s)[19] = 0 /\ v(s)[20] = 0
  <2> SUFFICES ASSUME NEW s \in Bit
               PROVE  /\ v(s) \in Word(20) /\ \A t \in Bit : [v(s) EXCEPT ![17] = t] = v(t)
                      /\ Widen(v(s), 16) = b
                      /\ v(s)[18] = 0 /\ v(s)[19] = 0 /\ v(s)[20] = 0
    OBVIOUS
  <2> DEFINE u == v(s)
             m == 16
             n == 20
             x == Widen(u, m)
             y == Widen(w, m)
  <2>1. v(s) \in Word(20) /\ \A i \in 1 .. 20 : i # 17 => v(s)[i] = w[i]
    BY DEF Word
  <2>2. \A t \in Bit : [v(s) EXCEPT ![17] = t] = v(t)
    BY DEF Word
  <2>3. v(s)[18] = 0 /\ v(s)[19] = 0 /\ v(s)[20] = 0
    <3>1. \A i \in {18, 19, 20} : i \in 1 .. 20 /\ i # 17
      OBVIOUS
    <3> QED BY <1>1, <2>1, <3>1
  <2>4. m \in Nat /\ n \in Nat /\ w \in Word(n) /\ u \in Word(n)
    BY <2>1
  <2> HIDE DEF v, u, m, n
  <2>5. /\ x \in Word(m) /\ \A i \in 1 .. m : x[i] = IF i <= n THEN u[i] ELSE 0
        /\ y \in Word(m) /\ \A i \in 1 .. m : y[i] = IF i <= n THEN w[i] ELSE 0
    BY <2>4, WidenIs, Zenon
  <2> HIDE DEF x, y
  <2>6. \A i \in 1 .. m : x[i] = y[i]
    BY <2>1, <2>5 DEF u, m, n
  <2>7. x = y
    BY <2>4, <2>5, <2>6, WordsEqual
  <2>8. x = Widen(v(s), 16) /\ y = Widen(w, 16)
    BY DEF x, y, m, u
  <2> QED BY <2>1, <2>2, <2>3, <2>7, <2>8
<1> HIDE DEF v, b
<1>3. \A s \in Bit : \A rx, last :
        Sampled(RC6Frame(v(s)), rx.ticks) => Has(Mid_IrRemoteDecode(rx, last))
  <2> SUFFICES ASSUME NEW s \in Bit, NEW rx, NEW last, Sampled(RC6Frame(v(s)), rx.ticks)
               PROVE  Has(Mid_IrRemoteDecode(rx, last))
    BY Zenon
  <2> DEFINE d == Mid_IrRemoteDecode(rx, last)
             u == v(s)
  <2>1. HasCode(d, "RC6", Byte(Widen(u, 16), 1), Byte(Widen(u, 16), 0), u, 20)
    BY <1>2, RC6Decoded, Zenon
  <2> HIDE DEF d, u
  <2>2. Widen(u, 16) = b /\ u \in Word(20) /\ u[18] = 0 /\ u[19] = 0 /\ u[20] = 0
    BY <1>2 DEF u
  <2>3. \A t \in Bit : FirstSent(d, t) \in k.forms
    <3> SUFFICES ASSUME NEW t \in Bit PROVE FirstSent(d, t) \in k.forms
      OBVIOUS
    <3>1. FirstSent(d, t) = RC6Frame([u EXCEPT ![17] = t])
      BY <2>1, <2>2, RC6Back, Zenon
    <3>2. [u EXCEPT ![17] = t] = v(t)
      BY <1>2, Zenon DEF u
    <3>3. RC6Frame(v(t)) \in k.forms
      BY <1>1 DEF v
    <3> QED BY <3>1, <3>2, <3>3
  <2> QED BY <2>1, <2>2, <2>3, Zenon DEF HasCode, d
<1>4. \A f \in k.forms : \E s \in Bit : f = RC6Frame(v(s))
  BY <1>1 DEF v
<1> DEFINE p == "RC6"
<1>5. p # "UNKNOWN"
  OBVIOUS
<1>6. \A f \in k.forms : \A rx, last : Sampled(f, rx.ticks)
        => LET d == Mid_IrRemoteDecode(rx, last)
           IN  /\ d.protocol = p /\ d.address = Widen(Byte(b, 1), 16)
               /\ d.command = Widen(Byte(b, 0), 16)
               /\ \A t \in Bit : FirstSent(d, t) \in k.forms
  BY <1>3, <1>4, Zenon
<1>7. k.held \in k.forms
  BY <1>1, Zenon
<1> HIDE DEF p
<1>8. TogglesRead(k, p, Widen(Byte(b, 1), 16), Widen(Byte(b, 0), 16))
  BY <1>5, <1>6, <1>7, Zenon DEF TogglesRead
<1> QED BY <1>8, ToggleKey, Zenon

LEMMA LGStands == ASSUME NEW k, LGKey(k) PROVE StandsFor(k)
<1>1. PICK w \in Word(28) : /\ SubSeq(w, 1, 4) = LGChecksum(SubSeq(w, 5, 20))
                            /\ k.forms = {sendPulseDistanceWidth(LGProtocolConstants, w)}
                            /\ k.held = sendNECSpecialRepeat
  BY Zenon DEF LGKey
<1> DEFINE f == sendPulseDistanceWidth(LGProtocolConstants, w)
<1>2. ASSUME NEW rx, NEW last, Sampled(f, rx.ticks), Typed(last)
      PROVE  LET d == Mid_IrRemoteDecode(rx, last) IN SentAsKey(k, d, d) /\ HeldAs(k, d)
  <2> DEFINE d == Mid_IrRemoteDecode(rx, last)
  <2>1. HasCode(d, "LG", SubSeq(w, 21, 28), SubSeq(w, 5, 20), w, 28)
    BY <1>2, LGDecoded, Zenon
  <2>2. Typed(d)
    <3>1. Len(rx.ticks) \in Nat
      BY <1>2, SampledLen, Zenon
    <3> QED BY <1>2, <3>1, DecodedTyped, Zenon
  <2> HIDE DEF d
  <2>3. /\ d.protocol = "LG" /\ d.address = Widen(SubSeq(w, 21, 28), 16)
        /\ d.command = Widen(SubSeq(w, 5, 20), 16)
    BY <2>1, Zenon DEF HasCode
  <2>4. SentAsKey(k, d, d)
    <3>1. ~Lossy(d) => \A t \in Bit : FirstSent(d, t) = f
      BY <1>1, <2>3, LGBack, Zenon
    <3> HIDE DEF f
    <3>2. f \in k.forms
      BY <1>1 DEF f
    <3> QED BY <3>1, <3>2, Zenon DEF SentAsKey
  <2>5. \A x : Sampled(k.held, x.ticks) => Mid_IrRemoteDecode(x, d) = LastAgain(d.protocol, d)
    BY <1>1, ShortDecoded, Zenon
  <2>6. d.protocol \in {"NEC", "NEC2", "ONKYO", "APPLE", "LG", "JVC"}
    BY <2>3
  <2>7. HeldAs(k, d)
    BY <2>2, <2>4, <2>5, <2>6, LastAgainKey
  <2> QED BY <2>4, <2>7 DEF d
<1> HIDE DEF f
<1>3. k.forms = {f}
  BY <1>1 DEF f
<1> QED BY <1>2, <1>3, Zenon DEF StandsFor

LEMMA JVCStands == ASSUME NEW k, JVCKey(k) PROVE StandsFor(k)
<1>1. \A p \in RepeatPauses : JVCInTime(p)
  BY Zenon DEF JVCKey
<1>2. PICK w \in Word(16) :
        /\ k.forms = {sendPulseDistanceWidth(JVCProtocolConstants, w)}
        /\ k.held = sendPulseDistanceWidthData(JVCProtocolConstants, w)
  BY Zenon DEF JVCKey
<1> DEFINE f == sendPulseDistanceWidth(JVCProtocolConstants, w)
<1>3. ASSUME NEW rx, NEW last, Sampled(f, rx.ticks), Typed(last)
      PROVE  LET d == Mid_IrRemoteDecode(rx, last) IN SentAsKey(k, d, d) /\ HeldAs(k, d)
  <2> DEFINE d == Mid_IrRemoteDecode(rx, last)
  <2>1. HasCode(d, "JVC", Byte(w, 0), Byte(w, 1), w, 16)
    BY <1>3, JVCDecoded, Zenon
  <2>2. Typed(d)
    <3>1. Len(rx.ticks) \in Nat
      BY <1>3, SampledLen, Zenon
    <3> QED BY <1>3, <3>1, DecodedTyped, Zenon
  <2> HIDE DEF d
  <2>3. /\ d.protocol = "JVC" /\ d.address = Widen(Byte(w, 0), 16)
        /\ d.command = Widen(Byte(w, 1), 16)
    BY <2>1, Zenon DEF HasCode
  <2>4. SentAsKey(k, d, d)
    <3>1. \A t \in Bit : FirstSent(d, t) = f
      BY <2>3, JVCBack, Zenon
    <3> HIDE DEF f
    <3>2. f \in k.forms
      BY <1>2 DEF f
    <3> QED BY <3>1, <3>2, Zenon DEF SentAsKey
  <2>5. \A x : Sampled(k.held, x.ticks) /\ x.pause \in RepeatPauses
          => Mid_IrRemoteDecode(x, d) = LastAgain(d.protocol, d)
    BY <1>1, <1>2, <2>3, JVCDataDecoded, Zenon
  <2>6. d.protocol \in {"NEC", "NEC2", "ONKYO", "APPLE", "LG", "JVC"}
    BY <2>3
  <2>7. HeldAs(k, d)
    BY <2>2, <2>4, <2>5, <2>6, LastAgainKey
  <2> QED BY <2>4, <2>7 DEF d
<1> HIDE DEF f
<1>4. k.forms = {f}
  BY <1>2 DEF f
<1> QED BY <1>3, <1>4, Zenon DEF StandsFor

LEMMA DenonStands == ASSUME NEW k, DenonKey(k) PROVE StandsFor(k)
<1>1. \A p \in RepeatPauses : p \in Nat /\ p < 1125
  BY RelayAssumption DEF DenonKey
<1>2. PICK w \in Word(15) :
        /\ w[14] = 0
        /\ k.forms = {sendPulseDistanceWidthData(DenonProtocolConstants, w)}
        /\ k.held = sendPulseDistanceWidthData(DenonProtocolConstants, DenonInverted(w))
  BY Zenon DEF DenonKey
<1> DEFINE f == sendPulseDistanceWidthData(DenonProtocolConstants, w)
           v == DenonInverted(w)
           p == IF w[15] = 1 THEN "SHARP" ELSE "DENON"
           x == SubSeq(w, 1, 5)
<1>3. /\ v \in Word(15) /\ v[14] = 1
      /\ (IF v[15] = 0 THEN "SHARP" ELSE "DENON") = p
      /\ SubSeq(v, 1, 5) = x
  <2>1. /\ v \in Word(15) /\ v[14] = 1 /\ v[15] = 1 - w[15]
        /\ SubSeq(v, 1, 5) = SubSeq(w, 1, 5)
    BY <1>2, DenonInvertedIs, Zenon
  <2>2. w[15] \in {0, 1}
    BY DEF Word, Bit
  <2> HIDE DEF v
  <2> QED BY <2>1, <2>2
<1>4. p \in {"DENON", "SHARP"}
  OBVIOUS
<1> HIDE DEF v
<1>5. ASSUME NEW rx, NEW last, Sampled(f, rx.ticks), rx.pause \in Nat, Typed(last)
      PROVE  LET d == Mid_IrRemoteDecode(rx, last) IN SentAsKey(k, d, d) /\ HeldAs(k, d)
  <2> DEFINE d == Mid_IrRemoteDecode(rx, last)
  <2>1. HasCode(d, p, x, SubSeq(w, 6, 13), w, 15)
    BY <1>2, <1>5, DenonDecoded, Zenon
  <2>2. Typed(d)
    <3>1. Len(rx.ticks) \in Nat
      BY <1>5, SampledLen, Zenon
    <3> QED BY <1>5, <3>1, DecodedTyped, Zenon
  <2> HIDE DEF d
  <2>3. \A t \in Bit : FirstSent(d, t) = f
    BY <1>2, <2>1, DenonBack, Zenon
  <2> HIDE DEF f
  <2>4. f \in k.forms
    BY <1>2 DEF f
  <2>5. SentAsKey(k, d, d)
    BY <2>3, <2>4, Zenon DEF SentAsKey
  <2>6. d.protocol = p /\ d.address = Widen(x, 16)
    BY <2>1, Zenon DEF HasCode
  <2>7. ASSUME NEW y, Sampled(k.held, y.ticks), y.pause \in RepeatPauses
        PROVE  LET e == Mid_IrRemoteDecode(y, d)
               IN  /\ e.protocol # "UNKNOWN" /\ e.address = d.address /\ e.command = d.command
                   /\ SentAsKey(k, d, e)
    <3> DEFINE e == Mid_IrRemoteDecode(y, d)
    <3>1. y.pause \in Nat /\ y.pause < 1125
      BY <1>1, <2>7
    <3>2. HasCode(e, p, x, d.command, v, 15)
      <4>1. Sampled(sendPulseDistanceWidthData(DenonProtocolConstants, v), y.ticks)
        BY <1>2, <2>7, Zenon DEF v
      <4>2. HasCode(e, IF v[15] = 0 THEN "SHARP" ELSE "DENON", SubSeq(v, 1, 5), d.command, v, 15)
        BY <1>3, <3>1, <4>1, DenonDecoded
      <4> HIDE DEF e, p, x
      <4> QED BY <1>3, <4>2
    <3> HIDE DEF e
    <3>3. e.protocol = p /\ e.address = Widen(x, 16) /\ e.command = Widen(d.command, 16)
      BY <3>2, Zenon DEF HasCode
    <3>4. e.command = d.command
      BY <2>2, <3>3, WidenSame DEF Typed
    <3> HIDE DEF p, x
    <3>5. d.protocol \in {"NEC", "NEC2", "ONKYO", "APPLE", "LG", "JVC", "DENON", "SHARP"}
      BY <1>4, <2>6
    <3>6. \A t \in Bit : FirstSent(e, t) = f
      BY <2>3, <2>6, <3>3, <3>4, <3>5, SameSends
    <3>7. SentAsKey(k, d, e)
      BY <2>4, <3>6, Zenon DEF SentAsKey
    <3>8. e.protocol # "UNKNOWN"
      BY <1>4, <3>3
    <3> QED BY <2>6, <3>3, <3>4, <3>7, <3>8 DEF e
  <2>8. HeldAs(k, d)
    BY <2>7, Zenon DEF HeldAs
  <2> QED BY <2>5, <2>8 DEF d
<1> HIDE DEF f
<1>6. k.forms = {f}
  BY <1>2 DEF f
<1> QED BY <1>5, <1>6, Zenon DEF StandsFor

LEMMA SamsungStands == ASSUME NEW k, SamsungKey(k) PROVE StandsFor(k)
<1>1. CASE \E w \in Word(32) :
             /\ k.forms = {sendPulseDistanceWidth(SamsungProtocolConstants, w)}
             /\ \/ k.held = sendPulseDistanceWidth(SamsungProtocolConstants, w)
                \/ k.held = sendSamsungLGSpecialRepeat /\ IsChecked(w, 2)
  <2>1. PICK w \in Word(32) :
          /\ k.forms = {sendPulseDistanceWidth(SamsungProtocolConstants, w)}
          /\ \/ k.held = sendPulseDistanceWidth(SamsungProtocolConstants, w)
             \/ k.held = sendSamsungLGSpecialRepeat /\ IsChecked(w, 2)
    BY <1>1, Zenon
  <2> DEFINE n == 32
             f == sendPulseDistanceWidth(SamsungProtocolConstants, w)
             p == "SAMSUNG"
             a == SubSeq(w, 1, 16)
             c == SamsungCommand(n, w)
  <2>2. \A rx, last : Sampled(f, rx.ticks)
          => HasCode(Mid_IrRemoteDecode(rx, last), p, a, c, w, n)
    <3> SUFFICES ASSUME NEW rx, NEW last, Sampled(f, rx.ticks)
                 PROVE  HasCode(Mid_IrRemoteDecode(rx, last), p, a, c, w, n)
      OBVIOUS
    <3> DEFINE q == IF n = 48 THEN "SAMSUNG48" ELSE "SAMSUNG"
    <3>1. n \in {32, 48} /\ w \in Word(n) /\ q = p
      OBVIOUS
    <3>2. SamsungRaw(n, w) = w
      BY DEF SamsungRaw
    <3> HIDE DEF n, p
    <3>3. HasCode(Mid_IrRemoteDecode(rx, last), q, a, c, w, n)
      BY <3>1, <3>2, SamsungDecoded, ZenonT(30)
    <3> HIDE DEF q
    <3> QED BY <3>1, <3>3, Zenon
  <2>3. ASSUME NEW d, HasCode(d, p, a, c, w, n)
        PROVE  /\ d.protocol = p /\ d.address = Widen(a, 16) /\ d.command = Widen(c, 16)
               /\ ~Lossy(d) => (HighByteZero(d.command) => IsChecked(w, 2))
    <3>1. /\ d.protocol = p /\ d.address = Widen(a, 16) /\ d.command = Widen(c, 16) /\ d.raw = w
      BY <2>3, Zenon DEF HasCode
    <3> QED BY <3>1, Zenon DEF Lossy
  <2>4. ASSUME NEW d, HasCode(d, p, a, c, w, n), ~Lossy(d) PROVE \A t \in Bit : FirstSent(d, t) = f
    <3> HIDE DEF a
    <3>1. d.address = Widen(SubSeq(w, 1, 16), 16)
      BY <2>3, <2>4 DEF a
    <3>2. d.command = Widen(SamsungCommand(32, w), 16)
      BY <2>3, <2>4
    <3>3. d.protocol = "SAMSUNG" /\ (HighByteZero(d.command) => IsChecked(w, 2))
      BY <2>3, <2>4
    <3> QED BY <3>1, <3>2, <3>3, SamsungBack, Zenon
  <2>5. p # "UNKNOWN" /\ k.forms = {f}
    BY <2>1
  <2>6. CASE k.held = f
    <3> HIDE DEF f, p, a, c, n
    <3>1. AlwaysRead(k, f, p, a, c, w, n)
      BY <2>2, <2>4, <2>5, <2>6, Zenon DEF AlwaysRead
    <3> QED BY <3>1, SameFrameKey, Zenon
  <2>7. CASE k.held = sendSamsungLGSpecialRepeat /\ IsChecked(w, 2)
    <3>1. ASSUME NEW rx, NEW last, Sampled(f, rx.ticks), Typed(last)
          PROVE  LET d == Mid_IrRemoteDecode(rx, last) IN SentAsKey(k, d, d) /\ HeldAs(k, d)
      <4> DEFINE d == Mid_IrRemoteDecode(rx, last)
      <4>1. HasCode(d, p, a, c, w, n)
        BY <2>2, <3>1, Zenon
      <4>2. Typed(d)
        <5>1. Len(rx.ticks) \in Nat
          BY <3>1, SampledLen, Zenon
        <5> QED BY <3>1, <5>1, DecodedTyped, Zenon
      <4> HIDE DEF d, f, p, a, c, n
      <4>3. SentAsKey(k, d, d)
        BY <2>4, <2>5, <4>1 DEF SentAsKey
      <4>4. ASSUME NEW x, Sampled(k.held, x.ticks)
            PROVE  LET e == Mid_IrRemoteDecode(x, d)
                   IN  /\ e.protocol # "UNKNOWN" /\ e.address = d.address
                       /\ e.command = d.command /\ SentAsKey(k, d, e)
        <5> DEFINE e == Mid_IrRemoteDecode(x, d)
        <5>1. e = LastAgain("SAMSUNG_LG", d)
          BY <2>7, <4>4, SamsungShortDecoded, Zenon
        <5> HIDE DEF e
        <5>2. e.protocol = "SAMSUNG_LG" /\ e.address = d.address /\ e.command = d.command
          <6> DEFINE q == "SAMSUNG_LG"
          <6> HIDE DEF q
          <6>1. /\ LastAgain(q, d).protocol = q /\ LastAgain(q, d).address = d.address
                /\ LastAgain(q, d).command = d.command
            BY <4>2, LastAgainHas
          <6> QED BY <5>1, <6>1 DEF q
        <5>3. d.address = Widen(a, 16) /\ d.command = Widen(c, 16)
          BY <2>3, <4>1, Zenon
        <5>4. \A t \in Bit : FirstSent(e, t) = f
          <6>1. e.address = Widen(SubSeq(w, 1, 16), 16)
            BY <5>2, <5>3 DEF a
          <6>2. e.command = Widen(SamsungCommand(32, w), 16)
            BY <5>2, <5>3 DEF c, n
          <6> QED BY <2>7, <5>2, <6>1, <6>2, SamsungBack, Zenon DEF f
        <5>5. SentAsKey(k, d, e)
          BY <2>5, <5>4 DEF SentAsKey
        <5>6. e.protocol # "UNKNOWN"
          BY <5>2
        <5> QED BY <5>2, <5>5, <5>6, Zenon DEF e
      <4>5. HeldAs(k, d)
        BY <4>4, Zenon DEF HeldAs
      <4> QED BY <4>3, <4>5, Zenon DEF d
    <3> HIDE DEF f
    <3> QED BY <2>5, <3>1, Zenon DEF StandsFor
  <2> HIDE DEF f
  <2> QED BY <2>1, <2>6, <2>7 DEF f
<1>2. CASE \E w \in Word(48) :
             /\ w = SubSeq(w, 1, 16) \o Checked(Byte(w, 2)) \o Checked(Byte(w, 4))
             /\ k.forms = {sendPulseDistanceWidth(SamsungProtocolConstants, w)}
             /\ k.held = sendPulseDistanceWidth(SamsungProtocolConstants, w)
  <2>1. PICK w \in Word(48) :
             /\ w = SubSeq(w, 1, 16) \o Checked(Byte(w, 2)) \o Checked(Byte(w, 4))
             /\ k.forms = {sendPulseDistanceWidth(SamsungProtocolConstants, w)}
             /\ k.held = sendPulseDistanceWidth(SamsungProtocolConstants, w)
    BY <1>2, Zenon
  <2> DEFINE n == 48
             f == sendPulseDistanceWidth(SamsungProtocolConstants, w)
             p == "SAMSUNG48"
             a == SubSeq(w, 1, 16)
             c == SamsungCommand(n, w)
             raw == SamsungRaw(n, w)
  <2>2. \A rx, last : Sampled(f, rx.ticks)
          => HasCode(Mid_IrRemoteDecode(rx, last), p, a, c, raw, n)
    <3> SUFFICES ASSUME NEW rx, NEW last, Sampled(f, rx.ticks)
                 PROVE  HasCode(Mid_IrRemoteDecode(rx, last), p, a, c, raw, n)
      OBVIOUS
    <3> DEFINE q == IF n = 48 THEN "SAMSUNG48" ELSE "SAMSUNG"
    <3>1. n \in {32, 48} /\ w \in Word(n) /\ q = p
      OBVIOUS
    <3> HIDE DEF n, p
    <3>2. HasCode(Mid_IrRemoteDecode(rx, last), q, a, c, raw, n)
      BY <3>1, SamsungDecoded, Zenon
    <3> HIDE DEF q
    <3> QED BY <3>1, <3>2, Zenon
  <2>3. \A d : HasCode(d, p, a, c, raw, n) => \A t \in Bit : FirstSent(d, t) = f
    BY <2>1, Samsung48Back, Zenon
  <2>4. p # "UNKNOWN" /\ k.forms = {f} /\ k.held = f
    BY <2>1
  <2> HIDE DEF f, p, a, c, n, raw
  <2>5. AlwaysRead(k, f, p, a, c, raw, n)
    BY <2>2, <2>3, <2>4, Zenon DEF AlwaysRead
  <2> QED BY <2>5, SameFrameKey, Zenon
<1> QED BY <1>1, <1>2, Zenon DEF SamsungKey

LEMMA CheckedSent ==
  ASSUME NEW w \in Word(16), IsChecked(w, 0), NEW d, NEW p, NEW t,
         HasCode(d, p, <<>>, Byte(w, 0), w, 16)
  PROVE  /\ p = "FAST" => FirstSent(d, t) = sendPulseDistanceWidth(FASTProtocolConstants, w)
         /\ p = "BOSEWAVE" =>
              FirstSent(d, t) = sendPulseDistanceWidth(BoseWaveProtocolConstants, w)
<1>1. d.protocol = p /\ d.command = Widen(Byte(w, 0), 16)
  BY Zenon DEF HasCode
<1>2. Checked(Byte(d.command, 0)) = w
  BY <1>1, CheckedBack
<1>3. p = "FAST" => FirstSent(d, t) = FASTSent(d)
  BY <1>1, FirstFor, Zenon
<1>4. p = "BOSEWAVE" => FirstSent(d, t) = BoseWaveSent(d)
  BY <1>1, FirstFor, Zenon
<1> QED BY <1>2, <1>3, <1>4, Zenon DEF FASTSent, BoseWaveSent

LEMMA FASTStands ==
  ASSUME NEW k, NEW w \in Word(16), IsChecked(w, 0),
         k.forms = {sendPulseDistanceWidth(FASTProtocolConstants, w)},
         k.held = sendPulseDistanceWidth(FASTProtocolConstants, w)
  PROVE  StandsFor(k)
<1> DEFINE f == sendPulseDistanceWidth(FASTProtocolConstants, w)
           p == "FAST"
           a == <<>>
           c == Byte(w, 0)
           n == 16
<1>1. \A rx, last : Sampled(f, rx.ticks) => HasCode(Mid_IrRemoteDecode(rx, last), p, a, c, w, n)
  BY FASTDecoded, Zenon
<1>2. \A d : HasCode(d, p, a, c, w, n) => \A t \in Bit : FirstSent(d, t) = f
  BY CheckedSent, Zenon
<1>3. p # "UNKNOWN" /\ k.forms = {f} /\ k.held = f
  OBVIOUS
<1> HIDE DEF f, p, a, c, n
<1>4. AlwaysRead(k, f, p, a, c, w, n)
  BY <1>1, <1>2, <1>3, Zenon DEF AlwaysRead
<1> QED BY <1>4, SameFrameKey, Zenon

LEMMA BoseWaveStands ==
  ASSUME NEW k, NEW w \in Word(16), IsChecked(w, 0),
         k.forms = {sendPulseDistanceWidth(BoseWaveProtocolConstants, w)},
         k.held = sendPulseDistanceWidth(BoseWaveProtocolConstants, w)
  PROVE  StandsFor(k)
<1> DEFINE f == sendPulseDistanceWidth(BoseWaveProtocolConstants, w)
           p == "BOSEWAVE"
           a == <<>>
           c == Byte(w, 0)
           n == 16
<1>1. \A rx, last : Sampled(f, rx.ticks) => HasCode(Mid_IrRemoteDecode(rx, last), p, a, c, w, n)
  BY BoseWaveDecoded, Zenon
<1>2. \A d : HasCode(d, p, a, c, w, n) => \A t \in Bit : FirstSent(d, t) = f
  BY CheckedSent, Zenon
<1>3. p # "UNKNOWN" /\ k.forms = {f} /\ k.held = f
  OBVIOUS
<1> HIDE DEF f, p, a, c, n
<1>4. AlwaysRead(k, f, p, a, c, w, n)
  BY <1>1, <1>2, <1>3, Zenon DEF AlwaysRead
<1> QED BY <1>4, SameFrameKey, Zenon

LEMMA LegoStands ==
  ASSUME NEW k, NEW w \in Word(16),
         w = LegoWord(SubSeq(w, 13, 16), SubSeq(w, 5, 8), SubSeq(w, 9, 12)),
         k.forms = {sendPulseDistanceWidth(LegoProtocolConstants, w)},
         k.held = sendPulseDistanceWidth(LegoProtocolConstants, w)
  PROVE  StandsFor(k)
<1> DEFINE f == sendPulseDistanceWidth(LegoProtocolConstants, w)
           p == "LEGO_PF"
           a == SubSeq(w, 13, 16)
           c == SubSeq(w, 5, 12)
           n == 16
<1>1. \A rx, last : Sampled(f, rx.ticks) => HasCode(Mid_IrRemoteDecode(rx, last), p, a, c, w, n)
  BY LegoDecoded, Zenon
<1>2. \A d : HasCode(d, p, a, c, w, n) => \A t \in Bit : FirstSent(d, t) = f
  BY LegoBack, Zenon
<1>3. p # "UNKNOWN" /\ k.forms = {f} /\ k.held = f
  OBVIOUS
<1> HIDE DEF f, p, a, c, n
<1>4. AlwaysRead(k, f, p, a, c, w, n)
  BY <1>1, <1>2, <1>3, Zenon DEF AlwaysRead
<1> QED BY <1>4, SameFrameKey, Zenon

(* What there is no sender for is never emitted.                           *)
LEMMA WhynterStands ==
  ASSUME NEW k, NEW w \in Word(32),
         k.forms = {sendPulseDistanceWidth(WhynterProtocolConstants, w)},
         k.held = sendPulseDistanceWidth(WhynterProtocolConstants, w)
  PROVE  StandsFor(k)
<1> DEFINE f == sendPulseDistanceWidth(WhynterProtocolConstants, w)
           p == "WHYNTER"
           a == <<>>
           n == 32
<1>1. \A rx, last : Sampled(f, rx.ticks) => HasCode(Mid_IrRemoteDecode(rx, last), p, a, a, w, n)
  BY WhynterDecoded, Zenon
<1>2. \A d : HasCode(d, p, a, a, w, n) => Lossy(d)
  <2> SUFFICES ASSUME NEW d, HasCode(d, p, a, a, w, n) PROVE Lossy(d)
    OBVIOUS
  <2>1. d.protocol = p
    BY Zenon DEF HasCode
  <2>2. p \in WithoutSender
    BY DEF WithoutSender
  <2> HIDE DEF p
  <2> QED BY <2>1, <2>2, Zenon DEF Lossy
<1>3. p # "UNKNOWN" /\ k.forms = {f} /\ k.held = f
  OBVIOUS
<1> HIDE DEF f, p, a, n
<1>4. AlwaysRead(k, f, p, a, a, w, n)
  BY <1>1, <1>2, <1>3, Zenon DEF AlwaysRead
<1> QED BY <1>4, SameFrameKey, Zenon

LEMMA MagiQuestStands ==
  ASSUME NEW k, NEW id \in Word(31), NEW magnitude \in Word(9),
         MagiQuestChecksum(id, magnitude) \in Word(8),
         k.forms = {MagiQuestFrame(id, magnitude)}, k.held = MagiQuestFrame(id, magnitude)
  PROVE  StandsFor(k)
<1> DEFINE f == MagiQuestFrame(id, magnitude)
           checksum == MagiQuestChecksum(id, magnitude)
           p == "MAGIQUEST"
           a == SubSeq(id, 1, 16)
           n == 56
<1>1. f = MagiQuestCoded(id, magnitude, checksum)
  BY Zenon DEF MagiQuestFrame, MagiQuestCoded
<1>2. \A rx, last : Sampled(f, rx.ticks)
        => HasCode(Mid_IrRemoteDecode(rx, last), p, a, magnitude, id, n)
  <2> HIDE DEF f, checksum
  <2>1. checksum \in Word(8)
    BY DEF checksum
  <2> QED BY <1>1, <2>1, MagiQuestDecoded, Zenon
<1>3. \A d : HasCode(d, p, a, magnitude, id, n) => \A t \in Bit : FirstSent(d, t) = f
  BY MagiQuestBack, Zenon
<1>4. p # "UNKNOWN" /\ k.forms = {f} /\ k.held = f
  OBVIOUS
<1> HIDE DEF f, p, a, n
<1>5. AlwaysRead(k, f, p, a, magnitude, id, n)
  BY <1>2, <1>3, <1>4, Zenon DEF AlwaysRead
<1> QED BY <1>5, SameFrameKey, Zenon

LEMMA RareStands == ASSUME NEW k, RareKey(k) PROVE StandsFor(k)
<1>1. PICK f : k.forms = {f} /\ k.held = f /\ RareForm(f)
  BY Zenon DEF RareKey
<1>2. CASE \E w \in Word(16) :
        \/ IsChecked(w, 0) /\ f = sendPulseDistanceWidth(FASTProtocolConstants, w)
        \/ IsChecked(w, 0) /\ f = sendPulseDistanceWidth(BoseWaveProtocolConstants, w)
        \/ /\ w = LegoWord(SubSeq(w, 13, 16), SubSeq(w, 5, 8), SubSeq(w, 9, 12))
           /\ f = sendPulseDistanceWidth(LegoProtocolConstants, w)
  <2>1. PICK w \in Word(16) :
          \/ IsChecked(w, 0) /\ f = sendPulseDistanceWidth(FASTProtocolConstants, w)
          \/ IsChecked(w, 0) /\ f = sendPulseDistanceWidth(BoseWaveProtocolConstants, w)
          \/ /\ w = LegoWord(SubSeq(w, 13, 16), SubSeq(w, 5, 8), SubSeq(w, 9, 12))
             /\ f = sendPulseDistanceWidth(LegoProtocolConstants, w)
    BY <1>2, Zenon
  <2>2. CASE IsChecked(w, 0) /\ f = sendPulseDistanceWidth(FASTProtocolConstants, w)
    BY <1>1, <2>2, FASTStands, Zenon
  <2>3. CASE IsChecked(w, 0) /\ f = sendPulseDistanceWidth(BoseWaveProtocolConstants, w)
    BY <1>1, <2>3, BoseWaveStands, Zenon
  <2>4. CASE /\ w = LegoWord(SubSeq(w, 13, 16), SubSeq(w, 5, 8), SubSeq(w, 9, 12))
             /\ f = sendPulseDistanceWidth(LegoProtocolConstants, w)
    BY <1>1, <2>4, LegoStands, Zenon
  <2> QED BY <2>1, <2>2, <2>3, <2>4, Zenon
<1>3. CASE \E w \in Word(32) : f = sendPulseDistanceWidth(WhynterProtocolConstants, w)
  BY <1>1, <1>3, WhynterStands, Zenon
<1>4. CASE \E id \in Word(31), magnitude \in Word(9) :
             /\ MagiQuestChecksum(id, magnitude) \in Word(8)
             /\ f = MagiQuestFrame(id, magnitude)
  BY <1>1, <1>4, MagiQuestStands, Zenon
<1> QED BY <1>1, <1>2, <1>3, <1>4, Zenon DEF RareForm

LEMMA GenuineStands == ASSUME NEW k, Genuine(k) PROVE StandsFor(k)
BY NecStands, KaseikyoStands, DenonStands, SonyStands, RC5Stands, RC6Stands, LGStands,
   JVCStands, SamsungStands, RareStands, Zenon DEF Genuine

----------------------------------------------------------------------------
(* The key is held or emitted: both stand for its first frame.             *)

GoodInv ==
  /\ SentInv
  /\ Genuine(key) =>
       /\ heard = "press" => pressed = decodedIRData /\ HeldAs(key, decodedIRData)
       /\ heard \in {"press", "hold"} => SentAsKey(key, pressed, decodedIRData)

LEMMA GoodInit == Init => GoodInv
<1> SUFFICES ASSUME Init PROVE GoodInv
  OBVIOUS
<1>1. heard = "nothing"
  BY Zenon DEF Init
<1>2. SentInv
  BY SentInit
<1> HIDE DEF SentInv, Genuine, HeldAs, SentAsKey
<1> QED BY <1>1, <1>2 DEF GoodInv

(* What a learn command reads is a sampling of the frame.                  *)
LEMMA LearnReads ==
  ASSUME NEW k \in Keys, NEW how, NEW frame \in k.forms \union {k.held}, NEW pauses,
         Learn(k, how, frame, pauses)
  PROVE  \E rx : /\ rx.pause \in pauses /\ Sampled(frame, rx.ticks)
                 /\ decodedIRData' = Mid_IrRemoteDecode(rx, decodedIRData)
<1>1. PICK pause \in pauses, phase \in Phases, excess \in Excesses :
        decodedIRData' = Mid_IrRemoteDecode(Received(frame, pause, phase, excess), decodedIRData)
  BY Zenon DEF Learn
<1> DEFINE rx == Received(frame, pause, phase, excess)
<1>2. rx.pause = pause /\ Sampled(frame, rx.ticks)
  <2>1. rx.pause = pause
    BY Zenon DEF Received
  <2>2. Sampled(frame, rx.ticks)
    BY SampledFrame, Zenon
  <2> QED BY <2>1, <2>2
<1>3. decodedIRData' = Mid_IrRemoteDecode(rx, decodedIRData)
  BY <1>1, Zenon
<1> HIDE DEF rx
<1>4. rx.pause \in pauses
  BY <1>2
<1> QED BY <1>2, <1>3, <1>4, Zenon

LEMMA PressGood ==
  ASSUME GoodInv, SentInv', NEW k \in Keys, NEW frame \in k.forms,
         Learn(k, "press", frame, Pauses)
  PROVE  GoodInv'
<1>1. Typed(decodedIRData)
  BY Zenon DEF GoodInv, SentInv, RelayInv
<1>2. PICK rx : /\ rx.pause \in Pauses /\ Sampled(frame, rx.ticks)
                /\ decodedIRData' = Mid_IrRemoteDecode(rx, decodedIRData)
  <2>1. frame \in k.forms \union {k.held}
    OBVIOUS
  <2> QED BY <2>1, LearnReads, Zenon
<1>3. key' = k /\ heard' = "press" /\ pressed' = decodedIRData'
  BY Zenon DEF Learn
<1>4. ASSUME Genuine(k)
      PROVE  SentAsKey(k, decodedIRData', decodedIRData') /\ HeldAs(k, decodedIRData')
  <2>1. rx.pause \in Nat
    BY <1>2, RelayAssumption, Zenon
  <2>2. StandsFor(k)
    BY <1>4, GenuineStands, Zenon
  <2> QED BY <1>1, <1>2, <2>1, <2>2, Zenon DEF StandsFor
<1> QED BY <1>3, <1>4, Zenon DEF GoodInv

LEMMA HeldRead ==
  ASSUME GoodInv, Genuine(key), Hold
  PROVE  /\ decodedIRData'.protocol # "UNKNOWN" /\ decodedIRData'.address = decodedIRData.address
         /\ decodedIRData'.command = decodedIRData.command
         /\ SentAsKey(key, decodedIRData, decodedIRData')
<1>1. heard = "press" /\ Learn(key, "hold", key.held, RepeatPauses) /\ key \in Keys
  BY Zenon DEF Hold, GoodInv, SentInv, RelayInv
<1>2. key.held \in key.forms \union {key.held}
  OBVIOUS
<1>3. PICK rx : /\ rx.pause \in RepeatPauses /\ Sampled(key.held, rx.ticks)
                /\ decodedIRData' = Mid_IrRemoteDecode(rx, decodedIRData)
  BY <1>1, <1>2, LearnReads, Zenon
<1>4. HeldAs(key, decodedIRData)
  BY <1>1, Zenon DEF GoodInv
<1> QED BY <1>3, <1>4, Zenon DEF HeldAs

LEMMA GoodStep == GoodInv /\ [Next]_vars => GoodInv'
<1> SUFFICES ASSUME GoodInv, [Next]_vars PROVE GoodInv'
  OBVIOUS
<1>1. SentInv'
  BY SentStep, Zenon DEF GoodInv
<1>2. CASE Press
  <2>1. PICK k \in Keys : \E frame \in k.forms : Learn(k, "press", frame, Pauses)
    BY <1>2, Zenon DEF Press
  <2>2. PICK frame \in k.forms : Learn(k, "press", frame, Pauses)
    BY <2>1, Zenon
  <2> QED BY <1>1, <2>2, PressGood, Zenon
<1>3. CASE Hold
  <2>1. key' = key /\ heard' = "hold" /\ pressed' = pressed /\ heard = "press"
    <3>1. "hold" # "press"
      OBVIOUS
    <3> QED BY <1>3, <3>1, Zenon DEF Hold, Learn
  <2>2. Genuine(key) => SentAsKey(key, pressed, decodedIRData')
    <3> SUFFICES ASSUME Genuine(key) PROVE SentAsKey(key, pressed, decodedIRData')
      OBVIOUS
    <3>1. pressed = decodedIRData
      BY <2>1, Zenon DEF GoodInv
    <3>2. SentAsKey(key, decodedIRData, decodedIRData')
      BY <1>3, HeldRead, Zenon
    <3> QED BY <3>1, <3>2, Zenon
  <2>3. heard' # "press"
    BY <2>1
  <2> QED BY <1>1, <2>1, <2>2, <2>3, Zenon DEF GoodInv
<1>4. CASE HoldUnheard
  <2>1. heard' = "unheard"
    BY <1>4, Zenon DEF HoldUnheard, Learn
  <2>2. heard' # "press" /\ heard' \notin {"press", "hold"}
    BY <2>1
  <2> QED BY <1>1, <2>2, Zenon DEF GoodInv
<1>5. CASE Emit
  BY <1>1, <1>5, Zenon DEF Emit, GoodInv
<1>6. CASE UNCHANGED vars
  BY <1>1, <1>6, Zenon DEF vars, GoodInv
<1> QED BY <1>2, <1>3, <1>4, <1>5, <1>6, Zenon DEF Next

LEMMA GoodHolds == Spec => []GoodInv
BY GoodInit, GoodStep, PTL DEF Spec

(* Without a difference, a frame is the form, whatever is allowed.         *)
LEMMA ItsOwnFrame ==
  ASSUME NEW f \in Seq(Nat), NEW percent \in Nat PROVE SameFrame(f, f, percent)
<1> SUFFICES ASSUME NEW i \in DOMAIN f
             PROVE  LET off == f[i] - f[i] IN 100 * off <= percent * f[i]
                                           /\ -100 * off <= percent * f[i]
  BY DEF SameFrame
<1>1. f[i] \in Nat
  OBVIOUS
<1>2. f[i] - f[i] = 0 /\ percent * f[i] >= 0
  BY <1>1
<1> QED BY <1>2

LEMMA GoodEmits == GoodInv /\ RepeatMeansTheSame => (Genuine(key) => EmitsTheKey)
<1> SUFFICES ASSUME GoodInv, RepeatMeansTheSame, Genuine(key), NEW e \in DOMAIN emissions,
                    heard \in {"press", "hold"}, ~Lossy(pressed)
             PROVE  \E form \in key.forms :
                      SameFrame(emissions[e][1], form,
                                IF learned[1].protocol = "PULSE_DISTANCE" THEN 25 ELSE 0)
  BY Zenon DEF EmitsTheKey
<1>1. SentBy(emissions[e], decodedIRData)
  <2> HIDE DEF SentBy
  <2>1. CASE emissions = <<>>
    BY <2>1
  <2>2. CASE \E s : emissions = <<s>> /\ SentBy(s, decodedIRData)
    BY <2>2
  <2>3. CASE \E s, u : /\ emissions = <<s, u>>
                       /\ SentBy(s, decodedIRData) /\ SentBy(u, decodedIRData)
    BY <2>3
  <2> QED BY <2>1, <2>2, <2>3, Zenon DEF GoodInv, SentInv
<1>2. PICK t \in Bit : emissions[e][1] = FirstSent(decodedIRData, t)
  BY <1>1, Zenon DEF SentBy, FirstSent
<1>3. SentAsKey(key, pressed, decodedIRData)
  BY Zenon DEF GoodInv
<1>4. emissions[e][1] \in key.forms
  BY <1>2, <1>3, Zenon DEF SentAsKey
<1>5. emissions[e][1] \in Seq(Nat)
  <2>1. key \in Keys
    BY Zenon DEF GoodInv, SentInv, RelayInv
  <2>2. emissions[e][1] \in key.forms \union {key.held}
    BY <1>4
  <2> QED BY <2>1, <2>2, RelayAssumption, Zenon
<1> DEFINE percent == IF learned[1].protocol = "PULSE_DISTANCE" THEN 25 ELSE 0
<1>6. percent \in Nat
  OBVIOUS
<1> HIDE DEF percent
<1>7. SameFrame(emissions[e][1], emissions[e][1], percent)
  BY <1>5, <1>6, ItsOwnFrame, Zenon
<1> QED BY <1>4, <1>7, Zenon DEF percent

LEMMA GoodHeld ==
  GoodInv /\ Hold /\ Genuine(key) => /\ learned' # <<>>
                                     /\ decodedIRData'.address = decodedIRData.address
                                     /\ decodedIRData'.command = decodedIRData.command
<1> SUFFICES ASSUME GoodInv, Hold, Genuine(key)
             PROVE  /\ learned' # <<>>
                    /\ decodedIRData'.address = decodedIRData.address
                    /\ decodedIRData'.command = decodedIRData.command
  OBVIOUS
<1>1. /\ decodedIRData'.protocol # "UNKNOWN" /\ decodedIRData'.address = decodedIRData.address
      /\ decodedIRData'.command = decodedIRData.command
  BY HeldRead, Zenon
<1>2. learned' = IF decodedIRData'.protocol = "UNKNOWN" THEN <<>> ELSE <<decodedIRData'>>
  BY Zenon DEF Hold, Learn
<1> QED BY <1>1, <1>2

----------------------------------------------------------------------------
(* The theorems.                                                           *)

(* What is emitted is read, by an appliance that decodes as this program   *)
(* does, as the same address and command again in its repeat: for every    *)
(* key that was learned, whatever code it was decoded to, and however much *)
(* the appliance's receiver lengthens the marks.                           *)
THEOREM RepeatsMeanTheSame == Spec => []RepeatMeansTheSame
<1>1. SentInv => RepeatMeansTheSame
  <2> SUFFICES ASSUME SentInv PROVE RepeatMeansTheSame
    OBVIOUS
  <2>1. \A e \in DOMAIN emissions : SentBy(emissions[e], decodedIRData)
    <3>1. CASE emissions = <<>>
      BY <3>1
    <3>2. CASE \E e : emissions = <<e>> /\ SentBy(e, decodedIRData)
      <4> HIDE DEF SentBy
      <4> QED BY <3>2
    <3>3. CASE \E e, f : /\ emissions = <<e, f>>
                         /\ SentBy(e, decodedIRData) /\ SentBy(f, decodedIRData)
      BY <3>3
    <3> QED BY <3>1, <3>2, <3>3, Zenon DEF SentInv
  <2>2. \A e \in DOMAIN emissions : Repeats(emissions[e])
    BY <2>1, EmissionRepeats, Zenon DEF SentInv, SentBy
  <2>3. ASSUME NEW e \in DOMAIN emissions, Len(emissions[e]) > 1, NEW excess \in Excesses
        PROVE  LET s == emissions[e]
                   first == Mid_IrRemoteDecode(Received(s[1], 30000, 0, excess), Blank)
                   second == Mid_IrRemoteDecode(Received(s[2], 400, 0, excess), first)
               IN  first.address = second.address /\ first.command = second.command
    <3> DEFINE s == emissions[e]
               f == s[1]
               g == s[2]
               rx1 == Received(f, 30000, 0, excess)
               rx2 == Received(g, 400, 0, excess)
    <3>1. f \in Seq(Nat) /\ g \in Seq(Nat)
      BY <2>2, <2>3, Zenon DEF Repeats
    <3>2. Sampled(f, rx1.ticks) /\ Late(rx1) /\ Sampled(g, rx2.ticks) /\ Soon(rx2)
      <4> HIDE DEF f, g
      <4>1. 0 \in 0 .. 49 /\ excess \in 10 .. 50
        <5>1. 0 \in 0 .. 49
          OBVIOUS
        <5>2. Excesses \subseteq 10 .. 50
          BY RelayAssumption, Zenon DEF MICROS_PER_TICK
        <5> QED BY <5>1, <5>2
      <4>2. \A h \in Seq(Nat) : \A pause :
              /\ Received(h, pause, 0, excess).pause = pause
              /\ Sampled(h, Received(h, pause, 0, excess).ticks)
        BY <4>1, TicksOf
      <4> QED BY <3>1, <4>2 DEF Late, Soon
    <3> HIDE DEF rx1, rx2
    <3>3. LET first == Mid_IrRemoteDecode(rx1, Blank)
              second == Mid_IrRemoteDecode(rx2, first)
          IN  first.address = second.address /\ first.command = second.command
      BY <2>2, <2>3, <3>2, Zenon DEF Repeats
    <3> QED BY <3>3 DEF rx1, rx2
  <2> QED BY <2>3 DEF RepeatMeansTheSame
<1>2. Spec => []SentInv
  BY SentInit, SentStep, PTL DEF Spec
<1> QED BY <1>1, <1>2, PTL

(* What is emitted for a learned key is one of its frames, bit for bit and *)
(* duration for duration, and its repeat means the same: for every word a  *)
(* key of these protocols can carry, and however it is received, unless    *)
(* the code is one of those that do not survive (Lossy).                   *)
THEOREM KeysAreEmitted == Spec => [](Genuine(key) => EmitsTheKey)
<1>1. GoodInv /\ RepeatMeansTheSame => (Genuine(key) => EmitsTheKey)
  BY GoodEmits
<1> QED BY <1>1, GoodHolds, RepeatsMeanTheSame, PTL

(* A key of these protocols that is held when a learn command comes is     *)
(* learned as the key of the frame before: the frame of a held key carries *)
(* no code of its own in NEC, LG and Samsung, no header in JVC, and the    *)
(* inverted command in Denon.                                              *)
THEOREM HeldKeysAreRead ==
  Spec => [][Hold /\ Genuine(key) => /\ learned' # <<>>
                                     /\ decodedIRData'.address = decodedIRData.address
                                     /\ decodedIRData'.command = decodedIRData.command]_vars
<1>1. GoodInv /\ [Next]_vars
        => [Hold /\ Genuine(key) => /\ learned' # <<>>
                                    /\ decodedIRData'.address = decodedIRData.address
                                    /\ decodedIRData'.command = decodedIRData.command]_vars
  <2> HIDE DEF Hold, GoodInv, Genuine, Next, vars
  <2> QED BY GoodHeld
<1> QED BY <1>1, GoodHolds, PTL DEF Spec

(* So a remote control with such keys only is always understood.           *)
THEOREM HeldRemoteIsRead ==
  ASSUME \A k \in Keys : Genuine(k) PROVE Spec => HeldKeyIsTheKey
<1>1. GoodInv /\ [Next]_vars
        => [Hold => /\ learned' # <<>>
                    /\ decodedIRData'.address = decodedIRData.address
                    /\ decodedIRData'.command = decodedIRData.command]_vars
  <2>1. GoodInv => Genuine(key)
    BY Zenon DEF GoodInv, SentInv, RelayInv
  <2> HIDE DEF Hold, GoodInv, Genuine, Next, vars
  <2> QED BY <2>1, GoodHeld
<1> QED BY <1>1, GoodHolds, PTL DEF Spec, HeldKeyIsTheKey
=============================================================================
