------------------------------ MODULE IrPulse ------------------------------
(***************************************************************************)
(* The layer that the decoders and the senders of the infrared codes       *)
(* share: the timings of each protocol, pulse distance, pulse width and    *)
(* biphase coding, and the matching of measured ticks of 50 microseconds.  *)
(*                                                                         *)
(* A word is the sequence of its bits, least significant first, so that    *)
(* shifting and joining bytes is concatenation.  A frame is the sequence   *)
(* of its durations in microseconds, mark, space, ..., mark; a space after *)
(* the last mark is part of the pause that follows and is left out.        *)
(***************************************************************************)
EXTENDS Integers, Sequences, FiniteSets, SequencesExt

MICROS_PER_TICK == 50
MARK_EXCESS_MICROS == 20

----------------------------------------------------------------------------
(* Words.                                                                  *)

Bits(v, n) == [i \in 1..n |-> (v \div 2^(i - 1)) % 2]
Number(w) == FoldRight(LAMBDA b, high: 2 * high + b, w, 0)
Zeros(n) == [i \in 1..n |-> 0]
Inverted(w) == [i \in DOMAIN w |-> 1 - w[i]]
Xor(v, w) == [i \in DOMAIN v |-> (v[i] + w[i]) % 2]

(* Byte k of a word, counted from 0, and a word widened to n bits.         *)
Byte(w, k) == SubSeq(w, 8 * k + 1, 8 * k + 8)
Widen(w, n) == [i \in 1..n |-> IF i <= Len(w) THEN w[i] ELSE 0]

----------------------------------------------------------------------------
(* The timings: header mark and space, mark and space of a one, mark and   *)
(* space of a zero, and the order of the bits.                             *)

Timing(hm, hs, om, os, zm, zs, msb) ==
    [headerMark |-> hm, headerSpace |-> hs, oneMark |-> om, oneSpace |-> os,
     zeroMark |-> zm, zeroSpace |-> zs, msbFirst |-> msb]

NECProtocolConstants      == Timing(8960, 4480, 560, 1680, 560, 560, FALSE)
KaseikyoProtocolConstants == Timing(3456, 1728, 432, 1296, 432, 432, FALSE)
DenonProtocolConstants    == Timing(260, 780, 260, 1820, 260, 780, FALSE)
SonyProtocolConstants     == Timing(2400, 600, 1200, 600, 600, 600, FALSE)
LGProtocolConstants       == Timing(9000, 4200, 500, 1580, 500, 550, TRUE)
LG2ProtocolConstants      == Timing(9500, 3000, 500, 1580, 500, 550, TRUE)
JVCProtocolConstants      == Timing(8416, 4208, 526, 1578, 526, 526, FALSE)
SamsungProtocolConstants  == Timing(4480, 4480, 560, 1680, 560, 560, FALSE)
FASTProtocolConstants     == Timing(2104, 1052, 526, 1578, 526, 526, FALSE)
WhynterProtocolConstants  == Timing(2850, 2850, 750, 2150, 750, 750, TRUE)
LegoProtocolConstants     == Timing(158, 1026, 158, 553, 158, 263, FALSE)
BoseWaveProtocolConstants == Timing(1014, 1468, 520, 1468, 520, 468, FALSE)
MagiQuestProtocolConstants == Timing(287, 861, 574, 574, 287, 861, TRUE)

RC5_UNIT == 889
RC6_UNIT == 444
APPLE_ADDRESS == Bits(34798, 16)          \* 0x87EE
PANASONIC_VENDOR_ID_CODE  == Bits(8194, 16)     \* 0x2002
DENON_VENDOR_ID_CODE      == Bits(12884, 16)    \* 0x3254
MITSUBISHI_VENDOR_ID_CODE == Bits(52003, 16)    \* 0xCB23
SHARP_VENDOR_ID_CODE      == Bits(23210, 16)    \* 0x5AAA
JVC_VENDOR_ID_CODE        == Bits(259, 16)      \* 0x0103

----------------------------------------------------------------------------
(* Sending.                                                                *)

UptoLastMark(f) == IF f # <<>> /\ Len(f) % 2 = 0 THEN Front(f) ELSE f

(* The word, in the order of the protocol, and a stop mark when its ones   *)
(* and zeros differ by their spaces.                                       *)
sendPulseDistanceWidthData(c, word) ==
    LET sent == IF c.msbFirst THEN Reverse(word) ELSE word
        mark(bit) == IF bit = 1 THEN c.oneMark ELSE c.zeroMark
        space(bit) == IF bit = 1 THEN c.oneSpace ELSE c.zeroSpace
    IN  [k \in 1..(2 * Len(word)) |->
            IF k % 2 = 1 THEN mark(sent[(k + 1) \div 2]) ELSE space(sent[k \div 2])]
          \o (IF c.oneMark = c.zeroMark THEN <<c.zeroMark>> ELSE <<>>)

sendPulseDistanceWidth(c, word) ==
    UptoLastMark(<<c.headerMark, c.headerSpace>> \o sendPulseDistanceWidthData(c, word))

MARK == 1
SPACE == 0

(* The durations of a sequence of levels of one time unit each: equal      *)
(* levels next to each other are one mark or one space, which starts where *)
(* the level changes.                                                      *)
Starts(levels) == {i \in DOMAIN levels: i = 1 \/ levels[i] # levels[i - 1]}
Run(levels, i) == Cardinality({j \in Starts(levels): j <= i})

Durations(levels, unit) ==
    UptoLastMark([k \in 1..Cardinality(Starts(levels)) |->
        unit * Cardinality({i \in DOMAIN levels: Run(levels, i) = k})])

(* A bit as two levels: in RC5 a one is a space, then a mark.              *)
Biphase(bits, firstOfOne) ==
    [i \in 1..(2 * Len(bits)) |->
        IF (bits[(i + 1) \div 2] = 1) = (i % 2 = 1) THEN firstOfOne ELSE 1 - firstOfOne]

(* The start bit is a one; its space is part of the pause before it.       *)
sendBiphaseData(unit, word) ==
    Durations(<<MARK>> \o Biphase(Reverse(word), SPACE), unit)

----------------------------------------------------------------------------
(* Matching.  The receiver module lengthens marks and shortens spaces.     *)

(* A tick is 50 us, the tolerance 25 %.  The integer macros for just these *)
(* values are not compiled: the #if that would choose them comes before    *)
(* MICROS_PER_TICK is defined.                                             *)
TICKS_LOW(us) == (75 * us) \div 5000
TICKS_HIGH(us) == (125 * us) \div 5000 + 1

matchTicks(ticks, us) == ticks >= TICKS_LOW(us) /\ ticks <= TICKS_HIGH(us)
matchMark(ticks, us) == matchTicks(ticks, us + MARK_EXCESS_MICROS)
matchSpace(ticks, us) == matchTicks(ticks, us - MARK_EXCESS_MICROS)

(* What is received is the pause before the frame and the durations of the *)
(* frame, both in ticks: rawbuf[0] and the entries after it.               *)
rawlen(rx) == Len(rx.ticks) + 1

checkHeader(rx, c) ==
    /\ rawlen(rx) > 2
    /\ matchMark(rx.ticks[1], c.headerMark)
    /\ matchSpace(rx.ticks[2], c.headerSpace)

(* Only what tells a one from a zero is looked at: the space, or the mark  *)
(* when the marks differ.  Whatever does not match a one is a zero.        *)
decodePulseDistanceWidthData(rx, c, numberOfBits, offset) ==
    LET isOne(i) == IF c.oneMark = c.zeroMark
                    THEN matchSpace(rx.ticks[offset + 2 * i - 1], c.oneSpace)
                    ELSE matchMark(rx.ticks[offset + 2 * i - 2], c.oneMark)
        bits == [i \in 1..numberOfBits |-> IF isOne(i) THEN 1 ELSE 0]
    IN  IF c.msbFirst THEN Reverse(bits) ELSE bits

(* The number of time units of entry i of the buffer, 0 for an error.      *)
TimingIntervals(rx, i, unit) ==
    LET us(n) == n * unit + (IF i % 2 = 1 THEN MARK_EXCESS_MICROS ELSE -MARK_EXCESS_MICROS)
        fits == {n \in 1..3: matchTicks(rx.ticks[i], us(n))}
    IN  IF fits = {} THEN 0 ELSE CHOOSE n \in fits: \A m \in fits: n <= m

(* The levels from entry "first" on (getBiphaselevel until the end of the  *)
(* buffer): one for each time unit, the one of the entry that it is in.    *)
UnitsUpTo(rx, first, unit) ==
    LET upTo[k \in 0..(Len(rx.ticks) - first + 1)] ==
            IF k = 0 THEN <<0>>
            ELSE LET before == upTo[k - 1]
                 IN  Append(before, Last(before) + TimingIntervals(rx, first + k - 1, unit))
    IN  upTo[Len(rx.ticks) - first + 1]

LevelsFrom(upTo, first) ==
    LET entry(t) == CHOOSE k \in 1..(Len(upTo) - 1): upTo[k] < t /\ t <= upTo[k + 1]
    IN  [t \in 1..Last(upTo) |-> (first + entry(t) - 1) % 2]

BiphaseLevels(rx, first, unit) == LevelsFrom(UnitsUpTo(rx, first, unit), first)

BiphaseInTime(rx, first, unit) ==
    \A i \in first..Len(rx.ticks): TimingIntervals(rx, i, unit) # 0
=============================================================================
