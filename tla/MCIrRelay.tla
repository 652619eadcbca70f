----------------------------- MODULE MCIrRelay -----------------------------
(***************************************************************************)
(* One key or two of every protocol, written as the raw words on the air.  *)
(* The words are chosen so that neighbouring bytes and nibbles differ.     *)
(***************************************************************************)
EXTENDS IrRelay

Key(protocol, forms, held) == [protocol |-> protocol, forms |-> forms, held |-> held]
Same(protocol, frame) == Key(protocol, {frame}, frame)
Framed(c, word) == sendPulseDistanceWidth(c, word)

NECRepeat == <<8960, 2240, 560>>
NECKey(protocol, word) == Key(protocol, {Framed(NECProtocolConstants, word)}, NECRepeat)

NECKeys ==
  {NECKey("NEC", Bits(4, 8) \o Bits(251, 8) \o Bits(8, 8) \o Bits(247, 8)),
   NECKey("NEC", Bits(4660, 16) \o Bits(18, 8) \o Bits(237, 8)),
   NECKey("NEC", Bits(52, 16) \o Bits(18, 8) \o Bits(237, 8)),
   NECKey("ONKYO", Bits(27858, 16) \o Bits(1453, 16)),
   NECKey("ONKYO", Bits(4, 8) \o Bits(251, 8) \o Bits(1453, 16)),
   NECKey("APPLE", APPLE_ADDRESS \o Bits(11, 8) \o Bits(163, 8))}

KaseikyoKeys ==
  {Same("PANASONIC", Framed(KaseikyoProtocolConstants,
         PANASONIC_VENDOR_ID_CODE \o Bits(0, 4) \o Bits(1032, 12) \o Bits(61, 8)
           \o Bits(253, 8))),
       Same("KASEIKYO", Framed(KaseikyoProtocolConstants,
         Bits(4660, 16) \o Bits(4, 4) \o Bits(80, 12) \o Bits(18, 8) \o Bits(23, 8)))}

DenonKey(protocol, word, second) ==
  Key(protocol, {sendPulseDistanceWidthData(DenonProtocolConstants, word)},
                sendPulseDistanceWidthData(DenonProtocolConstants, second))

DenonKeys ==
  {DenonKey("DENON", Bits(2, 5) \o Bits(225, 8) \o <<0, 0>>,
                     Bits(2, 5) \o Bits(30, 8) \o <<1, 1>>),
   DenonKey("SHARP", Bits(17, 5) \o Bits(22, 8) \o <<0, 1>>,
                     Bits(17, 5) \o Bits(233, 8) \o <<1, 0>>)}

SonyKeys == {Same("SONY", Framed(SonyProtocolConstants, Bits(149, n))): n \in {12, 15, 20}}

RC5Key(start, command, address) ==
  LET frame(toggle) == sendBiphaseData(889, Bits(command, 6) \o Bits(address, 5)
                                              \o <<toggle, start>>)
  IN  Key("RC5", {frame(0), frame(1)}, frame(1))

(* RC6 mode 0 on the air: leader, start bit, mode, wide toggle, 16 bits.   *)
RC6Key(address, command) ==
  LET bit(b) == IF b = 1 THEN <<1, 0>> ELSE <<0, 1>>
      bits(w) == FlattenSeq([i \in DOMAIN w |-> bit(w[i])])
      wide(t) == IF t = 1 THEN <<1, 1, 0, 0>> ELSE <<0, 0, 1, 1>>
      frame(t) == Durations(<<1, 1, 1, 1, 1, 1, 0, 0, 1, 0, 0, 1, 0, 1, 0, 1>> \o wide(t)
                    \o bits(Reverse(Bits(address, 8))) \o bits(Reverse(Bits(command, 8))), 444)
  IN  Key("RC6", {frame(0), frame(1)}, frame(1))

BiphaseKeys == {RC5Key(1, 12, 5), RC5Key(0, 44, 20), RC6Key(4, 23)}

LGKey(word) == Key("LG", {Framed(LGProtocolConstants, word)}, NECRepeat)
LGKeys == {LGKey(Bits(8, 4) \o Bits(68, 16) \o Bits(136, 8)),
           LGKey(Bits(10, 4) \o Bits(4660, 16) \o Bits(136, 8))}

JVCKeys ==
  LET word == Bits(3, 8) \o Bits(23, 8)
  IN  {Key("JVC", {Framed(JVCProtocolConstants, word)},
                  sendPulseDistanceWidthData(JVCProtocolConstants, word))}

SamsungKeys ==
  {Key("SAMSUNG", {Framed(SamsungProtocolConstants,
                          Bits(1799, 16) \o Bits(2, 8) \o Bits(253, 8))},
       <<4480, 4480, 560, 560, 560>>),
   Same("SAMSUNG", Framed(SamsungProtocolConstants, Bits(1799, 16) \o Bits(4660, 16))),
   Same("SAMSUNG", Framed(SamsungProtocolConstants, Bits(1799, 16) \o Bits(52, 16))),
   Same("SAMSUNG48", Framed(SamsungProtocolConstants,
          Bits(1799, 16) \o Bits(2, 8) \o Bits(253, 8) \o Bits(20, 8) \o Bits(235, 8)))}

MagiQuestKey ==
  LET pulses(w) == sendPulseDistanceWidthData(MagiQuestProtocolConstants, w)
      id == Bits(305419896, 31)
  IN  Same("MAGIQUEST", Front(pulses(Zeros(8)) \o pulses(id) \o pulses(Bits(137, 9))
                                \o pulses(MagiQuestChecksum(id, Bits(137, 9)))))

RareKeys ==
  {Same("FAST", Framed(FASTProtocolConstants, Bits(11, 8) \o Bits(244, 8))),
   Same("WHYNTER", Framed(WhynterProtocolConstants, Bits(22136, 16) \o Bits(4660, 16))),
   Same("LEGO_PF", Framed(LegoProtocolConstants,
                          Bits(9, 4) \o Bits(5, 4) \o Bits(1, 4) \o Bits(2, 4))),
   Same("BOSEWAVE", Framed(BoseWaveProtocolConstants, Bits(76, 8) \o Bits(179, 8))),
   MagiQuestKey}

UnknownKeys ==
  {Same("PULSE_DISTANCE", Framed(Timing(5000, 2000, 500, 1500, 500, 500, FALSE),
                                 Bits(22136, 16) \o Bits(4660, 16) \o Bits(86, 8))),
   Same("PULSE_WIDTH", Framed(Timing(4000, 1000, 1200, 600, 600, 600, FALSE), Bits(86, 24)))}

MCKeys == NECKeys \union KaseikyoKeys \union DenonKeys \union SonyKeys \union BiphaseKeys
            \union LGKeys \union JVCKeys \union SamsungKeys \union RareKeys \union UnknownKeys

(* A burst of light as long as one time unit of RC5.                       *)
BurstKeys == {Same("none", <<889>>)}
=============================================================================
