--------------------------- MODULE IrRelay_proofs ---------------------------
(***************************************************************************)
(* Proofs about IrRelay, for all keys, pauses, phases and excesses: how a  *)
(* key is read.  What is sent of it is in IrEmission_proofs.               *)
(*                                                                         *)
(* Durations.  Edges are the sums of the durations, so that what is        *)
(* received of a mark of d microseconds is a number of ticks within        *)
(* d - 40 .. d + 100, and of a space within d - 100 .. d + 40 (Sampled):   *)
(* marks are lengthened by the excess, and spaces shortened.  What the     *)
(* recursive functions build is found by induction over a set of numbers   *)
(* (Climb).                                                                *)
(*                                                                         *)
(* Pulse distance and width.  Entry by entry a frame is the mark and space *)
(* of its bits (FramedEntries, DataEntries); of each protocol the limits   *)
(* of 25 percent separate the two bits (ReadsTheWord).                     *)
(*                                                                         *)
(* Biphase.  What is sent is the runs of equal levels, and each run        *)
(* becomes one entry (DurationsAreRuns); the intervals that the decoder    *)
(* takes out of it are the units of that run (LevelAt), so that it sees    *)
(* the levels that were sent (LevelsRead).                                 *)
(*                                                                         *)
(* The order of the decoders.  A frame is taken by the first decoder that  *)
(* takes it.  Most refuse it by its length or its first mark (Refusals);   *)
(* RC5 and RC6 look at levels and can go far into a frame of another       *)
(* protocol before they meet one that is too long for them (NotRC5,        *)
(* PulsesNotRC6, LongMarkNotRC5).  An RC6 frame is not one of Denon's, for *)
(* its last mark is at least as long as a unit of RC6 less 40 microseconds *)
(* and that of Denon shorter; this is where the excess must not be below   *)
(* what receiver modules add.                                              *)
(*                                                                         *)
(* Emissions.  RelayInv: what has been decoded is a word whichever decoder *)
(* took the frame, and what has been emitted is the code that is stored,   *)
(* sent with one toggle and then the other.  From its durations a biphase  *)
(* frame's levels can be told (SameDurations), and from these the word; so *)
(* two words that differ in their toggle bit are different frames.         *)
(***************************************************************************)
EXTENDS IrRelay, FiniteSetTheorems, SequenceTheorems, WellFoundedInduction, TLAPS

LEMMA Least ==
  ASSUME NEW S, S \subseteq Nat, S # {} PROVE \E i \in S : \A j \in S : i <= j
<1> DEFINE R == OpToRel(<, Nat)
<1> HIDE DEF R
<1>1. IsWellFoundedOn(R, Nat)
  BY NatLessThanWellFounded DEF R
<1>2. \A x, y \in Nat : ~(<<y, x>> \in R) => x <= y
  <2> SUFFICES ASSUME NEW x \in Nat, NEW y \in Nat, y < x PROVE <<y, x>> \in R
    OBVIOUS
  <2> QED BY Zenon DEF OpToRel, R
<1>3. \E x \in S : \A y \in S : ~(<<y, x>> \in R)
  BY <1>1, WFMin, Zenon
<1> QED BY <1>2, <1>3

(* Induction over a set.                                                   *)
LEMMA Climb ==
  ASSUME NEW T, 0 \in T, \A n \in Nat : n \in T => n + 1 \in T
  PROVE  \A n \in Nat : n \in T
<1> DEFINE Out == {n \in Nat : n \notin T}
<1> SUFFICES ASSUME Out # {} PROVE FALSE
  OBVIOUS
<1>1. PICK i \in Out : \A j \in Out : i <= j
  BY Least, Out \subseteq Nat, Zenon
<1>2. i # 0 /\ i \in Nat
  BY <1>1
<1>3. i - 1 \in Nat /\ i - 1 \notin Out
  BY <1>1, <1>2
<1> QED BY <1>1, <1>2, <1>3

(* The sequence of the sums of the first 0, 1, ..., n steps.               *)
Sums(f, n, step) ==
  /\ f \in Seq(Int) /\ Len(f) = n + 1 /\ f[1] = 0
  /\ \A k \in 1 .. n : f[k + 1] = f[k] + step[k]

(* What the recursive definitions of Edges and UnitsUpTo ask of a function.*)
Built(u, n, step) ==
  u = [i \in 0 .. n |-> IF i = 0 THEN <<0>> ELSE Append(u[i - 1], Last(u[i - 1]) + step[i])]

LEMMA Growing ==
  ASSUME NEW n \in Nat, NEW step \in [1 .. n -> Int], NEW m \in Nat, m < n,
         NEW f, Sums(f, m, step)
  PROVE  Sums(Append(f, Last(f) + step[m + 1]), m + 1, step)
<1>1. f \in Seq(Int) /\ Len(f) = m + 1 /\ f[1] = 0 /\ \A k \in 1 .. m : f[k + 1] = f[k] + step[k]
  BY Zenon DEF Sums
<1>2. Last(f) = f[m + 1] /\ f[m + 1] \in Int /\ step[m + 1] \in Int
  BY <1>1 DEF Last
<1> DEFINE e == Last(f) + step[m + 1]
           g == Append(f, e)
<1>3. e \in Int /\ e = f[m + 1] + step[m + 1]
  BY <1>2
<1> HIDE DEF e
<1>4. g \in Seq(Int) /\ Len(g) = m + 2 /\ \A k \in 1 .. m + 1 : g[k] = f[k]
  BY <1>1, <1>3
<1>5. g[m + 2] = e
  BY <1>1, <1>3
<1>6. \A k \in 1 .. m + 1 : g[k + 1] = g[k] + step[k]
  <2> HIDE DEF g
  <2> QED BY <1>1, <1>3, <1>4, <1>5, SMTT(30)
<1>7. Sums(g, m + 1, step)
  <2> HIDE DEF g
  <2> QED BY <1>1, <1>4, <1>6 DEF Sums
<1> QED BY <1>7 DEF e, g

LEMMA BuiltExists ==
  ASSUME NEW n \in Nat, NEW step PROVE \E u : Built(u, n, step)
<1> DEFINE T == {m \in Nat : \E u : Built(u, m, step)}
<1>1. 0 \in T
  <2> DEFINE next(f, i) == IF i = 0 THEN <<0>> ELSE Append(f[i - 1], Last(f[i - 1]) + step[i])
             v == [i \in 0 .. 0 |-> <<0>>]
  <2>1. \A i \in 0 .. 0 : next(v, i) = <<0>>
    <3>1. \A i \in 0 .. 0 : i = 0
      OBVIOUS
    <3> QED BY <3>1, Zenon
  <2>2. v = [i \in 0 .. 0 |-> next(v, i)]
    <3> HIDE DEF next
    <3> QED BY <2>1
  <2>3. Built(v, 0, step)
    BY <2>2, Zenon DEF Built
  <2> HIDE DEF v
  <2> QED BY <2>3
<1>2. ASSUME NEW m \in Nat, m \in T PROVE m + 1 \in T
  <2>1. PICK u : Built(u, m, step)
    BY <1>2
  <2> DEFINE next(f, i) == IF i = 0 THEN <<0>> ELSE Append(f[i - 1], Last(f[i - 1]) + step[i])
             v == [i \in 0 .. (m + 1) |-> IF i = m + 1 THEN next(u, m + 1) ELSE u[i]]
  <2>2. u = [i \in 0 .. m |-> next(u, i)]
    BY <2>1 DEF Built
  <2>3. \A i \in 0 .. m : v[i] = u[i] /\ u[i] = next(u, i)
    <3>1. \A i \in 0 .. m : u[i] = next(u, i)
      <4> HIDE DEF next
      <4> QED BY <2>2
    <3>2. \A i \in 0 .. m : v[i] = u[i]
      <4> HIDE DEF next
      <4> QED BY SMT
    <3> QED BY <3>1, <3>2, Zenon
  <2>4. v[m + 1] = next(u, m + 1)
    OBVIOUS
  <2>5. \A i \in 0 .. (m + 1) : i # 0 => v[i - 1] = u[i - 1]
    <3> SUFFICES ASSUME NEW i \in 0 .. (m + 1), i # 0 PROVE v[i - 1] = u[i - 1]
      OBVIOUS
    <3>1. i - 1 \in 0 .. m
      OBVIOUS
    <3> QED BY <3>1, <2>3
  <2>6. \A i \in 0 .. (m + 1) : v[i] = next(v, i)
    <3> SUFFICES ASSUME NEW i \in 0 .. (m + 1) PROVE v[i] = next(v, i)
      OBVIOUS
    <3>1. next(v, i) = next(u, i)
      <4> HIDE DEF v
      <4> QED BY <2>5
    <3>2. CASE i = m + 1
      BY <3>1, <3>2, <2>4
    <3>3. CASE i # m + 1
      <4>1. i \in 0 .. m
        BY <3>3
      <4> HIDE DEF v, next
      <4> QED BY <4>1, <3>1, <2>3
    <3> QED BY <3>2, <3>3
  <2>7. v = [i \in 0 .. (m + 1) |-> next(v, i)]
    <3>1. v = [i \in 0 .. (m + 1) |-> v[i]]
      OBVIOUS
    <3> HIDE DEF v, next
    <3> QED BY <3>1, <2>6
  <2>8. Built(v, m + 1, step)
    BY <2>7, Zenon DEF Built
  <2> HIDE DEF v
  <2> QED BY <2>8
<1> HIDE DEF T
<1>3. n \in T
  BY <1>1, <1>2, Climb
<1> QED BY <1>3 DEF T

LEMMA BuiltSums ==
  ASSUME NEW n \in Nat, NEW step \in [1 .. n -> Int], NEW u, Built(u, n, step)
  PROVE  Sums(u[n], n, step)
<1> DEFINE T == {m \in Nat : m <= n => Sums(u[m], m, step)}
<1>1. \A i \in 0 .. n : u[i] = IF i = 0 THEN <<0>> ELSE Append(u[i - 1], Last(u[i - 1]) + step[i])
  BY DEF Built
<1>2. 0 \in T
  <2>1. u[0] = <<0>>
    BY <1>1
  <2>2. Sums(<<0>>, 0, step)
    BY DEF Sums
  <2> QED BY <2>1, <2>2
<1>3. ASSUME NEW m \in Nat, m \in T PROVE m + 1 \in T
  <2> SUFFICES ASSUME m + 1 <= n PROVE Sums(u[m + 1], m + 1, step)
    OBVIOUS
  <2>1. Sums(u[m], m, step) /\ m < n
    BY <1>3
  <2>2. u[m + 1] = Append(u[m], Last(u[m]) + step[m + 1])
    <3>1. m + 1 \in 0 .. n /\ m + 1 # 0 /\ (m + 1) - 1 = m
      OBVIOUS
    <3> QED BY <3>1, <1>1
  <2> QED BY <2>1, <2>2, Growing, Zenon
<1> HIDE DEF T
<1>4. n \in T
  BY <1>2, <1>3, Climb
<1> QED BY <1>4 DEF T

LEMMA EdgesSum ==
  ASSUME NEW frame \in Seq(Nat)
  PROVE  Sums(Edges(frame), Len(frame), frame)
<1> DEFINE n == Len(frame)
           U == CHOOSE u : Built(u, n, frame)
<1>1. n \in Nat /\ frame \in [1 .. n -> Int]
  OBVIOUS
<1>2. Edges(frame) = U[n]
  BY DEF Edges, Built
<1>3. Built(U, n, frame)
  BY <1>1, BuiltExists
<1> HIDE DEF U, n
<1>4. Sums(U[n], n, frame)
  BY <1>1, <1>3, BuiltSums, Zenon
<1> QED BY <1>2, <1>4 DEF n

(* The number of samples between two edges.                                *)
LEMMA Samples ==
  ASSUME NEW x \in Int, NEW d \in Int
  PROVE  LET t == (x + d) \div 50 - x \div 50
         IN  t \in Int /\ d - 50 < 50 * t /\ 50 * t < d + 50
OBVIOUS

(* The ticks that a duration may take, as a mark or as a space.            *)
MarkTicks(f, t) == t \in Int /\ f - 40 < 50 * t /\ 50 * t < f + 100
SpaceTicks(f, t) == t \in Int /\ f - 100 < 50 * t /\ 50 * t < f + 40

Sampled(frame, ticks) ==
  /\ ticks \in Seq(Int) /\ Len(ticks) = Len(frame)
  /\ \A i \in 1 .. Len(frame) : /\ i % 2 = 1 => MarkTicks(frame[i], ticks[i])
                                /\ i % 2 # 1 => SpaceTicks(frame[i], ticks[i])

LEMMA TicksOf ==
  ASSUME NEW frame \in Seq(Nat), NEW pause, NEW phase \in 0 .. 49, NEW excess \in 10 .. 50
  PROVE  /\ Received(frame, pause, phase, excess).pause = pause
         /\ Sampled(frame, Received(frame, pause, phase, excess).ticks)
<1> DEFINE n == Len(frame)
           edges == Edges(frame)
           samples == [i \in DOMAIN edges |->
                         (edges[i] + (IF i % 2 = 0 THEN excess ELSE 0) - phase) \div 50]
           ticks == [i \in 1 .. n |-> samples[i + 1] - samples[i]]
<1>1. /\ n \in Nat /\ DOMAIN frame = 1 .. n /\ \A i \in 1 .. n : frame[i] \in Nat
      /\ edges \in Seq(Int) /\ Len(edges) = n + 1
      /\ \A i \in 1 .. n : edges[i + 1] = edges[i] + frame[i]
  BY EdgesSum, SMTT(30) DEF Sums
<1>2. Received(frame, pause, phase, excess) = [pause |-> pause, ticks |-> ticks]
  BY <1>1 DEF Received, MICROS_PER_TICK
<1> HIDE DEF n, edges
<1>3. \A i \in 1 .. n + 1 : edges[i] \in Int
  BY <1>1
<1>4. \A i \in 1 .. n + 1 :
        samples[i] = (edges[i] + (IF i % 2 = 0 THEN excess ELSE 0) - phase) \div 50
  BY <1>1
<1> HIDE DEF samples
<1>5. ASSUME NEW i \in 1 .. n
      PROVE  /\ i % 2 = 1 => MarkTicks(frame[i], samples[i + 1] - samples[i])
             /\ i % 2 # 1 => SpaceTicks(frame[i], samples[i + 1] - samples[i])
  <2> DEFINE e == edges[i]
             f == frame[i]
  <2>1. e \in Int /\ f \in Nat /\ edges[i + 1] = e + f
    BY <1>1, <1>3
  <2>2. i \in 1 .. n + 1 /\ i + 1 \in 1 .. n + 1
    BY <1>1
  <2>3. CASE i % 2 = 1
    <3>1. i % 2 # 0 /\ (i + 1) % 2 = 0
      BY <2>3
    <3>2. /\ samples[i] = (e + 0 - phase) \div 50
          /\ samples[i + 1] = ((e + f) + excess - phase) \div 50
      BY <1>4, <2>1, <2>2, <3>1, Zenon
    <3> HIDE DEF e, f
    <3>3. MarkTicks(f, samples[i + 1] - samples[i])
      <4> DEFINE x == e - phase
                 d == f + excess
      <4>1. x \in Int /\ d \in Int /\ f + 10 <= d /\ d <= f + 50
        BY <2>1
      <4>2. samples[i] = x \div 50 /\ samples[i + 1] = (x + d) \div 50
        BY <3>2, <2>1
      <4> HIDE DEF x, d
      <4> QED BY <4>1, <4>2, <2>1, Samples DEF MarkTicks
    <3> QED BY <2>3, <3>3 DEF f
  <2>4. CASE i % 2 # 1
    <3>1. (i + 1) % 2 # 0 /\ i % 2 = 0
      BY <2>4
    <3>2. /\ samples[i] = (e + excess - phase) \div 50
          /\ samples[i + 1] = ((e + f) + 0 - phase) \div 50
      BY <1>4, <2>1, <2>2, <3>1, Zenon
    <3> HIDE DEF e, f
    <3>3. SpaceTicks(f, samples[i + 1] - samples[i])
      <4> DEFINE x == e + excess - phase
                 d == f - excess
      <4>1. x \in Int /\ d \in Int /\ f - 50 <= d /\ d <= f - 10
        BY <2>1
      <4>2. samples[i] = x \div 50 /\ samples[i + 1] = (x + d) \div 50
        BY <3>2, <2>1
      <4> HIDE DEF x, d
      <4> QED BY <4>1, <4>2, <2>1, Samples DEF SpaceTicks
    <3> QED BY <2>4, <3>3 DEF f
  <2> QED BY <2>3, <2>4
<1>6. \A i \in 1 .. n : samples[i + 1] - samples[i] \in Int
  BY <1>5 DEF MarkTicks, SpaceTicks
<1>7. ticks \in Seq(Int) /\ Len(ticks) = n
  BY <1>1, <1>6
<1>8. \A i \in 1 .. n : ticks[i] = samples[i + 1] - samples[i]
  OBVIOUS
<1> HIDE DEF ticks
<1>9. Sampled(frame, ticks)
  BY <1>5, <1>7, <1>8 DEF n, Sampled
<1> QED BY <1>2, <1>9

----------------------------------------------------------------------------
(* Pulse distance and pulse width.                                         *)

Word(n) == [1 .. n -> Bit]
Timings == [headerMark : Nat, headerSpace : Nat, oneMark : Nat, oneSpace : Nat,
            zeroMark : Nat, zeroSpace : Nat, msbFirst : BOOLEAN]

Sent(c, w) == IF c.msbFirst THEN Reverse(w) ELSE w
MarkOf(c, bit) == IF bit = 1 THEN c.oneMark ELSE c.zeroMark
SpaceOf(c, bit) == IF bit = 1 THEN c.oneSpace ELSE c.zeroSpace
ByMark(c) == c.oneMark # c.zeroMark

LEMMA WordLen ==
  ASSUME NEW n \in Nat, NEW w \in Word(n)
  PROVE  w \in Seq(Bit) /\ w \in Seq(Nat) /\ Len(w) = n
BY DEF Word, Bit

LEMMA ReverseWord ==
  ASSUME NEW n \in Nat, NEW w \in Word(n)
  PROVE  Reverse(w) \in Word(n) /\ Reverse(Reverse(w)) = w
<1>1. Len(w) = n
  BY WordLen
<1>2. Reverse(w) = [i \in 1 .. n |-> w[n - i + 1]]
  BY <1>1 DEF Reverse
<1>3. \A i \in 1 .. n : n - i + 1 \in 1 .. n /\ n - (n - i + 1) + 1 = i
  OBVIOUS
<1>4. Reverse(w) \in Word(n)
  BY <1>2, <1>3 DEF Word
<1>5. Len(Reverse(w)) = n
  BY <1>4, WordLen
<1> DEFINE v == Reverse(w)
<1>6. Reverse(v) = [i \in 1 .. n |-> v[n - i + 1]]
  BY <1>5 DEF Reverse
<1>7. \A i \in 1 .. n : v[n - i + 1] = w[i]
  BY <1>2, <1>3
<1> HIDE DEF v
<1>8. Reverse(v) = w
  BY <1>6, <1>7 DEF Word
<1> QED BY <1>4, <1>8 DEF v

LEMMA SentWord ==
  ASSUME NEW n \in Nat, NEW w \in Word(n), NEW c
  PROVE  Sent(c, w) \in Word(n)
BY ReverseWord DEF Sent

(* The entries of the coded word: IsCoded from entry "first" on.           *)
IsCoded(f, first, c, n, sent) ==
  \A i \in 1 .. n :
    /\ first + 2 * i - 2 \in 1 .. Len(f) /\ f[first + 2 * i - 2] = MarkOf(c, sent[i])
    /\ ByMark(c) \/ (/\ first + 2 * i - 1 \in 1 .. Len(f)
                     /\ f[first + 2 * i - 1] = SpaceOf(c, sent[i]))

LEMMA Joined ==
  ASSUME NEW S, NEW s \in Seq(S), NEW t \in Seq(S)
  PROVE  /\ s \o t \in Seq(S) /\ Len(s \o t) = Len(s) + Len(t)
         /\ Len(s) \in Nat /\ Len(t) \in Nat
         /\ \A k \in 1 .. Len(s) : (s \o t)[k] = s[k]
         /\ \A k \in 1 .. Len(t) : (s \o t)[Len(s) + k] = t[k]
OBVIOUS

LEMMA DataEntries ==
  ASSUME NEW c \in Timings, NEW n \in Nat, NEW w \in Word(n)
  PROVE  LET f == sendPulseDistanceWidthData(c, w)
         IN  /\ f \in Seq(Nat)
             /\ Len(f) = IF ByMark(c) THEN 2 * n ELSE 2 * n + 1
             /\ \A i \in 1 .. n : /\ f[2 * i - 1] = MarkOf(c, Sent(c, w)[i])
                                  /\ f[2 * i] = SpaceOf(c, Sent(c, w)[i])
             /\ ByMark(c) \/ f[2 * n + 1] = c.zeroMark
<1> DEFINE sent == Sent(c, w)
           pulses == [k \in 1 .. 2 * n |->
                       IF k % 2 = 1 THEN MarkOf(c, sent[(k + 1) \div 2])
                                    ELSE SpaceOf(c, sent[k \div 2])]
           stop == IF c.oneMark = c.zeroMark THEN <<c.zeroMark>> ELSE <<>>
           f == pulses \o stop
<1>1. sendPulseDistanceWidthData(c, w) = f
  BY WordLen DEF sendPulseDistanceWidthData, Sent, MarkOf, SpaceOf
<1>2. \A b : MarkOf(c, b) \in Nat /\ SpaceOf(c, b) \in Nat
  BY DEF MarkOf, SpaceOf, Timings
<1>3. c.zeroMark \in Nat
  BY DEF Timings
<1> HIDE DEF sent
<1>4. pulses \in Seq(Nat) /\ Len(pulses) = 2 * n
  BY <1>2
<1>5. stop \in Seq(Nat) /\ Len(stop) = IF ByMark(c) THEN 0 ELSE 1
  BY <1>3 DEF ByMark
<1>6. ByMark(c) \/ stop[1] = c.zeroMark
  BY DEF ByMark
<1>7. ASSUME NEW i \in 1 .. n
      PROVE  pulses[2 * i - 1] = MarkOf(c, sent[i]) /\ pulses[2 * i] = SpaceOf(c, sent[i])
  <2>1. /\ 2 * i - 1 \in 1 .. 2 * n /\ (2 * i - 1) % 2 = 1 /\ ((2 * i - 1) + 1) \div 2 = i
        /\ 2 * i \in 1 .. 2 * n /\ (2 * i) % 2 # 1 /\ (2 * i) \div 2 = i
    OBVIOUS
  <2> QED BY <2>1
<1> HIDE DEF pulses, stop
<1>8. f \in Seq(Nat) /\ Len(f) = IF ByMark(c) THEN 2 * n ELSE 2 * n + 1
  <2>1. f \in Seq(Nat) /\ Len(f) = Len(pulses) + Len(stop)
    BY <1>4, <1>5, Joined
  <2> HIDE DEF f
  <2> QED BY <2>1, <1>4, <1>5
<1>9. \A k \in 1 .. 2 * n : f[k] = pulses[k]
  <2>1. \A k \in 1 .. Len(pulses) : f[k] = pulses[k]
    BY <1>4, <1>5, Joined
  <2> QED BY <2>1, <1>4
<1>10. ByMark(c) \/ f[2 * n + 1] = c.zeroMark
  <2> SUFFICES ASSUME ~ByMark(c) PROVE f[2 * n + 1] = stop[1]
    BY <1>6
  <2>1. \A k \in 1 .. Len(stop) : f[Len(pulses) + k] = stop[k]
    <3>1. stop \in Seq(Nat) /\ pulses \in Seq(Nat)
      BY <1>4, <1>5, Zenon
    <3> QED BY <3>1, Joined
  <2>2. 1 \in 1 .. Len(stop)
    BY <1>5
  <2> HIDE DEF f
  <2> QED BY <2>1, <2>2, <1>4
<1> HIDE DEF f
<1>11. \A i \in 1 .. n : f[2 * i - 1] = pulses[2 * i - 1] /\ f[2 * i] = pulses[2 * i]
  BY <1>9
<1> QED BY <1>1, <1>7, <1>8, <1>10, <1>11 DEF sent

LEMMA FramedEntries ==
  ASSUME NEW c \in Timings, NEW n \in Nat, NEW w \in Word(n)
  PROVE  LET f == sendPulseDistanceWidth(c, w)
         IN  /\ f \in Seq(Nat)
             /\ Len(f) = IF ByMark(c) THEN 2 * n + 1 ELSE 2 * n + 3
             /\ f[1] = c.headerMark /\ (n > 0 => f[2] = c.headerSpace)
             /\ IsCoded(f, 3, c, n, Sent(c, w))
             /\ ByMark(c) \/ f[2 * n + 3] = c.zeroMark
<1> DEFINE data == sendPulseDistanceWidthData(c, w)
           h == <<c.headerMark, c.headerSpace>>
           g == h \o data
           f == sendPulseDistanceWidth(c, w)
           sent == Sent(c, w)
<1>1. /\ data \in Seq(Nat)
      /\ Len(data) = IF ByMark(c) THEN 2 * n ELSE 2 * n + 1
      /\ \A i \in 1 .. n : /\ data[2 * i - 1] = MarkOf(c, sent[i])
                           /\ data[2 * i] = SpaceOf(c, sent[i])
      /\ ByMark(c) \/ data[2 * n + 1] = c.zeroMark
  BY DataEntries
<1>2. h \in Seq(Nat) /\ Len(h) = 2 /\ h[1] = c.headerMark /\ h[2] = c.headerSpace
  BY DEF Timings
<1> HIDE DEF data, h, sent
<1>3. /\ g \in Seq(Nat) /\ Len(g) = Len(data) + 2
      /\ g[1] = c.headerMark /\ g[2] = c.headerSpace
      /\ \A k \in 1 .. Len(data) : g[k + 2] = data[k]
  <2>1. /\ g \in Seq(Nat) /\ Len(g) = Len(h) + Len(data) /\ Len(data) \in Nat
        /\ \A k \in 1 .. Len(h) : g[k] = h[k]
        /\ \A k \in 1 .. Len(data) : g[Len(h) + k] = data[k]
    <3>1. h \in Seq(Nat) /\ data \in Seq(Nat)
      BY <1>1, <1>2
    <3> QED BY <3>1, Joined
  <2> HIDE DEF g
  <2> QED BY <2>1, <1>2
<1>4. f = UptoLastMark(g)
  BY DEF sendPulseDistanceWidth, data, h
<1> HIDE DEF g, f
<1>5. /\ f \in Seq(Nat) /\ Len(f) = IF ByMark(c) THEN 2 * n + 1 ELSE 2 * n + 3
      /\ \A k \in 1 .. Len(f) : f[k] = g[k]
  <2>1. CASE ByMark(c)
    <3>1. Len(g) = 2 * n + 2 /\ g # <<>> /\ Len(g) % 2 = 0
      BY <1>1, <1>3, <2>1
    <3>2. f = SubSeq(g, 1, 2 * n + 1)
      BY <3>1, <1>4 DEF UptoLastMark, Front
    <3> QED BY <2>1, <3>1, <3>2, <1>3, SMTT(30)
  <2>2. CASE ~ByMark(c)
    <3>1. Len(g) = 2 * n + 3 /\ Len(g) % 2 # 0
      BY <1>1, <1>3, <2>2
    <3>2. f = g
      BY <3>1, <1>4 DEF UptoLastMark
    <3> QED BY <2>2, <3>1, <3>2, <1>3
  <2> QED BY <2>1, <2>2
<1>6. /\ f[1] = c.headerMark /\ (n > 0 => f[2] = c.headerSpace)
      /\ ByMark(c) \/ f[2 * n + 3] = c.zeroMark
  <2>1. 1 \in 1 .. Len(f) /\ (n > 0 => 2 \in 1 .. Len(f))
    BY <1>5
  <2>2. ByMark(c) \/ (2 * n + 1 \in 1 .. Len(data) /\ 2 * n + 3 \in 1 .. Len(f))
    BY <1>1, <1>5
  <2>3. ByMark(c) \/ f[2 * n + 3] = data[2 * n + 1]
    BY <2>2, <1>3, <1>5
  <2> QED BY <1>1, <1>3, <1>5, <2>1, <2>3
<1>7. ASSUME NEW i \in 1 .. n
      PROVE  /\ 3 + 2 * i - 2 \in 1 .. Len(f) /\ f[3 + 2 * i - 2] = MarkOf(c, sent[i])
             /\ ByMark(c) \/ (/\ 3 + 2 * i - 1 \in 1 .. Len(f)
                              /\ f[3 + 2 * i - 1] = SpaceOf(c, sent[i]))
  <2>1. /\ 3 + 2 * i - 2 = (2 * i - 1) + 2 /\ 3 + 2 * i - 1 = 2 * i + 2
        /\ 2 * i - 1 \in 1 .. Len(data) /\ 2 * i \in 1 .. Len(data)
    BY <1>1
  <2>2. (2 * i - 1) + 2 \in 1 .. Len(f) /\ (ByMark(c) \/ 2 * i + 2 \in 1 .. Len(f))
    BY <1>5
  <2>3. f[(2 * i - 1) + 2] = data[2 * i - 1] /\ (ByMark(c) \/ f[2 * i + 2] = data[2 * i])
    BY <1>3, <1>5, <2>1, <2>2
  <2> QED BY <1>1, <2>1, <2>2, <2>3
<1>8. IsCoded(f, 3, c, n, sent)
  BY <1>7, Zenon DEF IsCoded
<1> QED BY <1>5, <1>6, <1>8, Zenon DEF f, sent

(* What tells a one from a zero is far enough apart, however it is sampled.*)
Separable(c) ==
  IF ByMark(c)
  THEN \A t : /\ MarkTicks(c.oneMark, t) => matchMark(t, c.oneMark)
              /\ MarkTicks(c.zeroMark, t) => ~matchMark(t, c.oneMark)
  ELSE \A t : /\ SpaceTicks(c.oneSpace, t) => matchSpace(t, c.oneSpace)
              /\ SpaceTicks(c.zeroSpace, t) => ~matchSpace(t, c.oneSpace)

LEMMA ReadsTheWord ==
  ASSUME NEW frame \in Seq(Nat), NEW rx, Sampled(frame, rx.ticks),
         NEW c \in Timings, Separable(c), NEW n \in Nat, NEW w \in Word(n),
         NEW first \in Nat, first % 2 = 1, IsCoded(frame, first, c, n, Sent(c, w))
  PROVE  decodePulseDistanceWidthData(rx, c, n, first) = w
<1> DEFINE ticks == rx.ticks
           sent == Sent(c, w)
           isOne(i) == IF c.oneMark = c.zeroMark
                       THEN matchSpace(ticks[first + 2 * i - 1], c.oneSpace)
                       ELSE matchMark(ticks[first + 2 * i - 2], c.oneMark)
           bits == [i \in 1 .. n |-> IF isOne(i) THEN 1 ELSE 0]
<1>1. \A i \in 1 .. Len(frame) :
        /\ i % 2 = 1 => MarkTicks(frame[i], ticks[i])
        /\ i % 2 # 1 => SpaceTicks(frame[i], ticks[i])
  BY DEF Sampled
<1>2. sent \in Word(n)
  BY SentWord
<1>3. decodePulseDistanceWidthData(rx, c, n, first)
        = IF c.msbFirst THEN Reverse(bits) ELSE bits
  BY Zenon DEF decodePulseDistanceWidthData
<1>4. ASSUME NEW i \in 1 .. n PROVE isOne(i) <=> sent[i] = 1
  <2> DEFINE m == first + 2 * i - 2
             s == first + 2 * i - 1
  <2>1. m % 2 = 1 /\ s % 2 # 1
    OBVIOUS
  <2> HIDE DEF ticks, sent
  <2>2. CASE ByMark(c)
    <3>1. m \in 1 .. Len(frame) /\ frame[m] = MarkOf(c, sent[i])
      BY Zenon DEF IsCoded, sent
    <3>2. MarkTicks(MarkOf(c, sent[i]), ticks[m])
      BY <3>1, <2>1, <1>1, Zenon
    <3>3. isOne(i) <=> matchMark(ticks[m], c.oneMark)
      BY <2>2, Zenon DEF ByMark
    <3> HIDE DEF m, isOne
    <3>4. sent[i] = 1 => MarkOf(c, sent[i]) = c.oneMark
      BY DEF MarkOf
    <3>5. sent[i] # 1 => MarkOf(c, sent[i]) = c.zeroMark
      BY DEF MarkOf
    <3>6. /\ MarkTicks(c.oneMark, ticks[m]) => matchMark(ticks[m], c.oneMark)
          /\ MarkTicks(c.zeroMark, ticks[m]) => ~matchMark(ticks[m], c.oneMark)
      BY <2>2, Zenon DEF Separable
    <3> QED BY <3>2, <3>3, <3>4, <3>5, <3>6, Zenon
  <2>3. CASE ~ByMark(c)
    <3>1. s \in 1 .. Len(frame) /\ frame[s] = SpaceOf(c, sent[i])
      BY <2>3, Zenon DEF IsCoded, sent
    <3>2. SpaceTicks(SpaceOf(c, sent[i]), ticks[s])
      BY <3>1, <2>1, <1>1, Zenon
    <3>3. isOne(i) <=> matchSpace(ticks[s], c.oneSpace)
      BY <2>3, Zenon DEF ByMark
    <3> HIDE DEF s, isOne
    <3>4. sent[i] = 1 => SpaceOf(c, sent[i]) = c.oneSpace
      BY DEF SpaceOf
    <3>5. sent[i] # 1 => SpaceOf(c, sent[i]) = c.zeroSpace
      BY DEF SpaceOf
    <3>6. /\ SpaceTicks(c.oneSpace, ticks[s]) => matchSpace(ticks[s], c.oneSpace)
          /\ SpaceTicks(c.zeroSpace, ticks[s]) => ~matchSpace(ticks[s], c.oneSpace)
      BY <2>3, Zenon DEF Separable
    <3> QED BY <3>2, <3>3, <3>4, <3>5, <3>6, Zenon
  <2> QED BY <2>2, <2>3
<1> HIDE DEF isOne
<1>5. bits = sent
  <2>1. \A i \in 1 .. n : sent[i] \in {0, 1}
    BY <1>2 DEF Word, Bit
  <2>2. \A i \in 1 .. n : bits[i] = sent[i]
    BY <1>4, <2>1
  <2> QED BY <1>2, <2>2 DEF Word
<1> HIDE DEF bits, sent
<1>6. (IF c.msbFirst THEN Reverse(sent) ELSE sent) = w
  BY ReverseWord, Zenon DEF Sent, sent
<1> QED BY <1>3, <1>5, <1>6, Zenon

LEMMA NECTiming ==
  LET c == NECProtocolConstants
  IN  /\ c \in Timings /\ ~ByMark(c) /\ Separable(c)
      /\ c.headerMark = 8960 /\ c.headerSpace = 4480 /\ c.oneMark = 560 /\ c.zeroMark = 560
<1> DEFINE c == NECProtocolConstants
<1>1. /\ c \in Timings /\ c.headerMark = 8960 /\ c.headerSpace = 4480
      /\ c.oneMark = 560 /\ c.zeroMark = 560 /\ c.oneSpace = 1680 /\ c.zeroSpace = 560
  BY DEF NECProtocolConstants, Timing, Timings
<1> HIDE DEF c
<1>2. ~ByMark(c)
  BY <1>1 DEF ByMark
<1>3. Separable(c)
  BY <1>1, <1>2
     DEF Separable, SpaceTicks, matchSpace, matchTicks, TICKS_LOW, TICKS_HIGH, MARK_EXCESS_MICROS
<1> QED BY <1>1, <1>2, <1>3 DEF c

LEMMA KaseikyoTiming ==
  LET c == KaseikyoProtocolConstants
  IN  /\ c \in Timings /\ ~ByMark(c) /\ Separable(c)
      /\ c.headerMark = 3456 /\ c.headerSpace = 1728 /\ c.oneMark = 432 /\ c.zeroMark = 432
<1> DEFINE c == KaseikyoProtocolConstants
<1>1. /\ c \in Timings /\ c.headerMark = 3456 /\ c.headerSpace = 1728
      /\ c.oneMark = 432 /\ c.zeroMark = 432 /\ c.oneSpace = 1296 /\ c.zeroSpace = 432
  BY DEF KaseikyoProtocolConstants, Timing, Timings
<1> HIDE DEF c
<1>2. ~ByMark(c)
  BY <1>1 DEF ByMark
<1>3. Separable(c)
  BY <1>1, <1>2
     DEF Separable, SpaceTicks, matchSpace, matchTicks, TICKS_LOW, TICKS_HIGH, MARK_EXCESS_MICROS
<1> QED BY <1>1, <1>2, <1>3 DEF c

LEMMA DenonTiming ==
  LET c == DenonProtocolConstants
  IN  /\ c \in Timings /\ ~ByMark(c) /\ Separable(c)
      /\ c.headerMark = 260 /\ c.headerSpace = 780 /\ c.oneMark = 260 /\ c.zeroMark = 260
<1> DEFINE c == DenonProtocolConstants
<1>1. /\ c \in Timings /\ c.headerMark = 260 /\ c.headerSpace = 780
      /\ c.oneMark = 260 /\ c.zeroMark = 260 /\ c.oneSpace = 1820 /\ c.zeroSpace = 780
  BY DEF DenonProtocolConstants, Timing, Timings
<1> HIDE DEF c
<1>2. ~ByMark(c)
  BY <1>1 DEF ByMark
<1>3. Separable(c)
  BY <1>1, <1>2
     DEF Separable, SpaceTicks, matchSpace, matchTicks, TICKS_LOW, TICKS_HIGH, MARK_EXCESS_MICROS
<1> QED BY <1>1, <1>2, <1>3 DEF c

LEMMA SonyTiming ==
  LET c == SonyProtocolConstants
  IN  /\ c \in Timings /\ ByMark(c) /\ Separable(c)
      /\ c.headerMark = 2400 /\ c.headerSpace = 600 /\ c.oneMark = 1200 /\ c.zeroMark = 600
<1> DEFINE c == SonyProtocolConstants
<1>1. /\ c \in Timings /\ c.headerMark = 2400 /\ c.headerSpace = 600
      /\ c.oneMark = 1200 /\ c.zeroMark = 600 /\ c.oneSpace = 600 /\ c.zeroSpace = 600
  BY DEF SonyProtocolConstants, Timing, Timings
<1> HIDE DEF c
<1>2. ByMark(c)
  BY <1>1 DEF ByMark
<1>3. Separable(c)
  BY <1>1, <1>2
     DEF Separable, MarkTicks, matchMark, matchTicks, TICKS_LOW, TICKS_HIGH, MARK_EXCESS_MICROS
<1> QED BY <1>1, <1>2, <1>3 DEF c

LEMMA LGTiming ==
  LET c == LGProtocolConstants
  IN  /\ c \in Timings /\ ~ByMark(c) /\ Separable(c)
      /\ c.headerMark = 9000 /\ c.headerSpace = 4200 /\ c.oneMark = 500 /\ c.zeroMark = 500
<1> DEFINE c == LGProtocolConstants
<1>1. /\ c \in Timings /\ c.headerMark = 9000 /\ c.headerSpace = 4200
      /\ c.oneMark = 500 /\ c.zeroMark = 500 /\ c.oneSpace = 1580 /\ c.zeroSpace = 550
  BY DEF LGProtocolConstants, Timing, Timings
<1> HIDE DEF c
<1>2. ~ByMark(c)
  BY <1>1 DEF ByMark
<1>3. Separable(c)
  BY <1>1, <1>2
     DEF Separable, SpaceTicks, matchSpace, matchTicks, TICKS_LOW, TICKS_HIGH, MARK_EXCESS_MICROS
<1> QED BY <1>1, <1>2, <1>3 DEF c

LEMMA JVCTiming ==
  LET c == JVCProtocolConstants
  IN  /\ c \in Timings /\ ~ByMark(c) /\ Separable(c)
      /\ c.headerMark = 8416 /\ c.headerSpace = 4208 /\ c.oneMark = 526 /\ c.zeroMark = 526
<1> DEFINE c == JVCProtocolConstants
<1>1. /\ c \in Timings /\ c.headerMark = 8416 /\ c.headerSpace = 4208
      /\ c.oneMark = 526 /\ c.zeroMark = 526 /\ c.oneSpace = 1578 /\ c.zeroSpace = 526
  BY DEF JVCProtocolConstants, Timing, Timings
<1> HIDE DEF c
<1>2. ~ByMark(c)
  BY <1>1 DEF ByMark
<1>3. Separable(c)
  BY <1>1, <1>2
     DEF Separable, SpaceTicks, matchSpace, matchTicks, TICKS_LOW, TICKS_HIGH, MARK_EXCESS_MICROS
<1> QED BY <1>1, <1>2, <1>3 DEF c

LEMMA SamsungTiming ==
  LET c == SamsungProtocolConstants
  IN  /\ c \in Timings /\ ~ByMark(c) /\ Separable(c)
      /\ c.headerMark = 4480 /\ c.headerSpace = 4480 /\ c.oneMark = 560 /\ c.zeroMark = 560
<1> DEFINE c == SamsungProtocolConstants
<1>1. /\ c \in Timings /\ c.headerMark = 4480 /\ c.headerSpace = 4480
      /\ c.oneMark = 560 /\ c.zeroMark = 560 /\ c.oneSpace = 1680 /\ c.zeroSpace = 560
  BY DEF SamsungProtocolConstants, Timing, Timings
<1> HIDE DEF c
<1>2. ~ByMark(c)
  BY <1>1 DEF ByMark
<1>3. Separable(c)
  BY <1>1, <1>2
     DEF Separable, SpaceTicks, matchSpace, matchTicks, TICKS_LOW, TICKS_HIGH, MARK_EXCESS_MICROS
<1> QED BY <1>1, <1>2, <1>3 DEF c

LEMMA FASTTiming ==
  LET c == FASTProtocolConstants
  IN  /\ c \in Timings /\ ~ByMark(c) /\ Separable(c)
      /\ c.headerMark = 2104 /\ c.headerSpace = 1052 /\ c.oneMark = 526 /\ c.zeroMark = 526
<1> DEFINE c == FASTProtocolConstants
<1>1. /\ c \in Timings /\ c.headerMark = 2104 /\ c.headerSpace = 1052
      /\ c.oneMark = 526 /\ c.zeroMark = 526 /\ c.oneSpace = 1578 /\ c.zeroSpace = 526
  BY DEF FASTProtocolConstants, Timing, Timings
<1> HIDE DEF c
<1>2. ~ByMark(c)
  BY <1>1 DEF ByMark
<1>3. Separable(c)
  BY <1>1, <1>2
     DEF Separable, SpaceTicks, matchSpace, matchTicks, TICKS_LOW, TICKS_HIGH, MARK_EXCESS_MICROS
<1> QED BY <1>1, <1>2, <1>3 DEF c

LEMMA WhynterTiming ==
  LET c == WhynterProtocolConstants
  IN  /\ c \in Timings /\ ~ByMark(c) /\ Separable(c)
      /\ c.headerMark = 2850 /\ c.headerSpace = 2850 /\ c.oneMark = 750 /\ c.zeroMark = 750
<1> DEFINE c == WhynterProtocolConstants
<1>1. /\ c \in Timings /\ c.headerMark = 2850 /\ c.headerSpace = 2850
      /\ c.oneMark = 750 /\ c.zeroMark = 750 /\ c.oneSpace = 2150 /\ c.zeroSpace = 750
  BY DEF WhynterProtocolConstants, Timing, Timings
<1> HIDE DEF c
<1>2. ~ByMark(c)
  BY <1>1 DEF ByMark
<1>3. Separable(c)
  BY <1>1, <1>2
     DEF Separable, SpaceTicks, matchSpace, matchTicks, TICKS_LOW, TICKS_HIGH, MARK_EXCESS_MICROS
<1> QED BY <1>1, <1>2, <1>3 DEF c

LEMMA LegoTiming ==
  LET c == LegoProtocolConstants
  IN  /\ c \in Timings /\ ~ByMark(c) /\ Separable(c)
      /\ c.headerMark = 158 /\ c.headerSpace = 1026 /\ c.oneMark = 158 /\ c.zeroMark = 158
<1> DEFINE c == LegoProtocolConstants
<1>1. /\ c \in Timings /\ c.headerMark = 158 /\ c.headerSpace = 1026
      /\ c.oneMark = 158 /\ c.zeroMark = 158 /\ c.oneSpace = 553 /\ c.zeroSpace = 263
  BY DEF LegoProtocolConstants, Timing, Timings
<1> HIDE DEF c
<1>2. ~ByMark(c)
  BY <1>1 DEF ByMark
<1>3. Separable(c)
  BY <1>1, <1>2
     DEF Separable, SpaceTicks, matchSpace, matchTicks, TICKS_LOW, TICKS_HIGH, MARK_EXCESS_MICROS
<1> QED BY <1>1, <1>2, <1>3 DEF c

LEMMA BoseWaveTiming ==
  LET c == BoseWaveProtocolConstants
  IN  /\ c \in Timings /\ ~ByMark(c) /\ Separable(c)
      /\ c.headerMark = 1014 /\ c.headerSpace = 1468 /\ c.oneMark = 520 /\ c.zeroMark = 520
<1> DEFINE c == BoseWaveProtocolConstants
<1>1. /\ c \in Timings /\ c.headerMark = 1014 /\ c.headerSpace = 1468
      /\ c.oneMark = 520 /\ c.zeroMark = 520 /\ c.oneSpace = 1468 /\ c.zeroSpace = 468
  BY DEF BoseWaveProtocolConstants, Timing, Timings
<1> HIDE DEF c
<1>2. ~ByMark(c)
  BY <1>1 DEF ByMark
<1>3. Separable(c)
  BY <1>1, <1>2
     DEF Separable, SpaceTicks, matchSpace, matchTicks, TICKS_LOW, TICKS_HIGH, MARK_EXCESS_MICROS
<1> QED BY <1>1, <1>2, <1>3 DEF c

LEMMA MagiQuestTiming ==
  LET c == MagiQuestProtocolConstants
  IN  /\ c \in Timings /\ ByMark(c) /\ Separable(c)
      /\ c.headerMark = 287 /\ c.headerSpace = 861 /\ c.oneMark = 574 /\ c.zeroMark = 287
<1> DEFINE c == MagiQuestProtocolConstants
<1>1. /\ c \in Timings /\ c.headerMark = 287 /\ c.headerSpace = 861
      /\ c.oneMark = 574 /\ c.zeroMark = 287 /\ c.oneSpace = 574 /\ c.zeroSpace = 861
  BY DEF MagiQuestProtocolConstants, Timing, Timings
<1> HIDE DEF c
<1>2. ByMark(c)
  BY <1>1 DEF ByMark
<1>3. Separable(c)
  BY <1>1, <1>2
     DEF Separable, MarkTicks, matchMark, matchTicks, TICKS_LOW, TICKS_HIGH, MARK_EXCESS_MICROS
<1> QED BY <1>1, <1>2, <1>3 DEF c

----------------------------------------------------------------------------
(* The order of the decoders.                                              *)

LEMMA FirstTakes ==
  ASSUME NEW rx, NEW i \in 1 .. 16, Takes(DecodeOrder[i], rx),
         \A j \in 1 .. i - 1 : ~Takes(DecodeOrder[j], rx)
  PROVE  FirstToTake(rx) = DecodeOrder[i]
<1> DEFINE First(k) == /\ Takes(DecodeOrder[k], rx)
                       /\ \A j \in 1 .. k - 1 : ~Takes(DecodeOrder[j], rx)
<1>1. DOMAIN DecodeOrder = 1 .. 16
  BY DEF DecodeOrder
<1>2. FirstToTake(rx) = DecodeOrder[CHOOSE k \in 1 .. 16 : First(k)]
  BY <1>1, Zenon DEF FirstToTake
<1>3. First(i)
  OBVIOUS
<1>4. \A k \in 1 .. 16 : First(k) => k = i
  <2> SUFFICES ASSUME NEW k \in 1 .. 16, First(k), k # i PROVE FALSE
    BY Zenon
  <2>1. k \in 1 .. i - 1 \/ i \in 1 .. k - 1
    OBVIOUS
  <2> QED BY <2>1, Zenon
<1> HIDE DEF First
<1>5. (CHOOSE k \in 1 .. 16 : First(k)) = i
  BY <1>3, <1>4, Zenon
<1> QED BY <1>2, <1>5, Zenon

LEMMA Order ==
  /\ DecodeOrder[1] = "Nec" /\ DecodeOrder[2] = "Kaseikyo" /\ DecodeOrder[3] = "Denon"
  /\ DecodeOrder[4] = "Sony" /\ DecodeOrder[5] = "RC5" /\ DecodeOrder[6] = "RC6"
  /\ DecodeOrder[7] = "LG" /\ DecodeOrder[8] = "JVC" /\ DecodeOrder[9] = "Samsung"
  /\ DecodeOrder[10] = "FAST" /\ DecodeOrder[11] = "Whynter" /\ DecodeOrder[12] = "Lego"
  /\ DecodeOrder[13] = "BoseWave" /\ DecodeOrder[14] = "MagiQuest"
  /\ DecodeOrder[15] = "DistanceWidth" /\ DecodeOrder[16] = "Hash"
BY DEF DecodeOrder

(* RC5 refuses an entry that is no number of its time units, RC6 a header  *)
(* mark of another length.                                                 *)
LEMMA NotRC5 ==
  ASSUME NEW rx, Len(rx.ticks) \in Nat, NEW i \in 1 .. Len(rx.ticks), rx.ticks[i] \in Int,
         rx.ticks[i] < 12 \/ (i % 2 = 1 /\ rx.ticks[i] < 13) \/ rx.ticks[i] > 68
  PROVE  ~IsRC5(rx)
<1> DEFINE t == rx.ticks[i]
           us(n) == n * 889 + (IF i % 2 = 1 THEN 20 ELSE -20)
<1>1. \A n \in 1 .. 3 : ~matchTicks(t, us(n))
  <2>1. /\ t \in Int
        /\ t < 12 \/ (i % 2 = 1 /\ t < 13) \/ t > 68
    OBVIOUS
  <2> SUFFICES ASSUME NEW n \in 1 .. 3 PROVE ~matchTicks(t, us(n))
    BY Zenon
  <2> HIDE DEF t
  <2>2. CASE i % 2 = 1
    <3>1. us(n) \in {909, 1798, 2687}
      BY <2>2
    <3> HIDE DEF us
    <3> QED BY <2>1, <3>1 DEF matchTicks, TICKS_LOW, TICKS_HIGH
  <2>3. CASE i % 2 # 1
    <3>1. us(n) \in {869, 1758, 2647}
      BY <2>3
    <3> HIDE DEF us
    <3> QED BY <2>1, <2>3, <3>1 DEF matchTicks, TICKS_LOW, TICKS_HIGH
  <2> QED BY <2>2, <2>3, Zenon
<1> HIDE DEF us
<1>2. TimingIntervals(rx, i, 889) = 0
  <2> DEFINE fits == {n \in 1 .. 3 : matchTicks(t, us(n))}
  <2>1. TimingIntervals(rx, i, 889)
          = IF fits = {} THEN 0 ELSE CHOOSE n \in fits : \A m \in fits : n <= m
    BY Zenon DEF TimingIntervals, MARK_EXCESS_MICROS, us
  <2>2. fits = {}
    BY <1>1, Zenon
  <2> HIDE DEF fits
  <2> QED BY <2>1, <2>2
<1>3. ~BiphaseInTime(rx, 1, 889)
  BY <1>2 DEF BiphaseInTime
<1> QED BY <1>3 DEF IsRC5, RC5_UNIT

LEMMA NotRC6 ==
  ASSUME NEW rx, ~matchMark(rx.ticks[1], 2664) \/ ~matchSpace(rx.ticks[2], 888)
  PROVE  ~IsRC6(rx)
<1>1. 6 * RC6_UNIT = 2664 /\ 2 * RC6_UNIT = 888
  BY DEF RC6_UNIT
<1>2. IsRC6(rx) => /\ matchMark(rx.ticks[1], 6 * RC6_UNIT)
                   /\ matchSpace(rx.ticks[2], 2 * RC6_UNIT)
  BY SMT DEF IsRC6
<1> QED BY <1>1, <1>2

LEMMA FramedTicks ==
  ASSUME NEW c \in Timings, Separable(c), NEW n \in Nat, n > 0, NEW w \in Word(n),
         NEW rx, Sampled(sendPulseDistanceWidth(c, w), rx.ticks)
  PROVE  /\ Len(rx.ticks) \in Nat
         /\ rawlen(rx) = IF ByMark(c) THEN 2 * n + 2 ELSE 2 * n + 4
         /\ MarkTicks(c.headerMark, rx.ticks[1]) /\ SpaceTicks(c.headerSpace, rx.ticks[2])
         /\ MarkTicks(MarkOf(c, Sent(c, w)[1]), rx.ticks[3])
         /\ ByMark(c) => MarkTicks(MarkOf(c, Sent(c, w)[n]), rx.ticks[Len(rx.ticks)])
         /\ ~ByMark(c) => MarkTicks(c.zeroMark, rx.ticks[Len(rx.ticks)])
         /\ decodePulseDistanceWidthData(rx, c, n, 3) = w
<1> DEFINE f == sendPulseDistanceWidth(c, w)
           sent == Sent(c, w)
           ticks == rx.ticks
<1>1. /\ f \in Seq(Nat) /\ Len(f) = IF ByMark(c) THEN 2 * n + 1 ELSE 2 * n + 3
      /\ f[1] = c.headerMark /\ f[2] = c.headerSpace
      /\ IsCoded(f, 3, c, n, sent)
      /\ ByMark(c) \/ f[2 * n + 3] = c.zeroMark
  BY FramedEntries
<1> HIDE DEF f
<1>2. decodePulseDistanceWidthData(rx, c, n, 3) = w
  BY <1>1, ReadsTheWord DEF f
<1> HIDE DEF sent, ticks
<1>3. /\ Len(ticks) = Len(f)
      /\ \A i \in 1 .. Len(f) : /\ i % 2 = 1 => MarkTicks(f[i], ticks[i])
                                /\ i % 2 # 1 => SpaceTicks(f[i], ticks[i])
  BY DEF Sampled, f, ticks
<1>4. /\ Len(f) \in Nat /\ Len(f) >= 3 /\ Len(f) % 2 = 1
      /\ rawlen(rx) = IF ByMark(c) THEN 2 * n + 2 ELSE 2 * n + 4
  <2>1. Len(ticks) = Len(f) /\ Len(f) = IF ByMark(c) THEN 2 * n + 1 ELSE 2 * n + 3
    BY <1>1, <1>3, Zenon
  <2>2. rawlen(rx) = Len(ticks) + 1
    BY DEF rawlen, ticks
  <2> QED BY <2>1, <2>2
<1>5. f[3] = MarkOf(c, sent[1]) /\ f[2 * n + 1] = MarkOf(c, sent[n])
  <2>1. /\ 1 \in 1 .. n /\ n \in 1 .. n
        /\ 3 + 2 * 1 - 2 = 3 /\ 3 + 2 * n - 2 = 2 * n + 1
    OBVIOUS
  <2>2. \A i \in 1 .. n : f[3 + 2 * i - 2] = MarkOf(c, sent[i])
    BY <1>1 DEF IsCoded
  <2> QED BY <2>1, <2>2
<1>6. MarkTicks(f[1], ticks[1]) /\ SpaceTicks(f[2], ticks[2]) /\ MarkTicks(f[3], ticks[3])
  <2>1. 1 \in 1 .. Len(f) /\ 2 \in 1 .. Len(f) /\ 3 \in 1 .. Len(f)
    BY <1>4
  <2>2. 1 % 2 = 1 /\ 2 % 2 # 1 /\ 3 % 2 = 1
    OBVIOUS
  <2> QED BY <2>1, <2>2, <1>3
<1>7. MarkTicks(f[Len(f)], ticks[Len(f)])
  <2>1. Len(f) \in 1 .. Len(f)
    BY <1>4
  <2> QED BY <2>1, <1>3, <1>4
<1>8. /\ ByMark(c) => MarkTicks(MarkOf(c, sent[n]), ticks[Len(ticks)])
      /\ ~ByMark(c) => MarkTicks(c.zeroMark, ticks[Len(ticks)])
  <2>1. ByMark(c) => f[Len(f)] = MarkOf(c, sent[n])
    BY <1>1, <1>5
  <2>2. ~ByMark(c) => f[Len(f)] = c.zeroMark
    BY <1>1
  <2> QED BY <1>3, <1>7, <2>1, <2>2, Zenon
<1>9. Len(ticks) \in Nat
  BY <1>3, <1>4
<1>10. MarkTicks(c.headerMark, ticks[1]) /\ SpaceTicks(c.headerSpace, ticks[2])
       /\ MarkTicks(MarkOf(c, sent[1]), ticks[3])
  BY <1>1, <1>5, <1>6
<1> QED BY <1>2, <1>4, <1>8, <1>9, <1>10, Zenon DEF ticks, sent

LEMMA TakesIs ==
  ASSUME NEW rx
  PROVE  /\ Takes("Nec", rx) <=> IsNec(rx)
         /\ Takes("Kaseikyo", rx) <=> IsKaseikyo(rx)
         /\ Takes("Denon", rx) <=> IsDenon(rx)
         /\ Takes("Sony", rx) <=> IsSony(rx)
         /\ Takes("RC5", rx) <=> IsRC5(rx)
         /\ Takes("RC6", rx) <=> IsRC6(rx)
         /\ Takes("LG", rx) <=> IsLG(rx)
         /\ Takes("JVC", rx) <=> IsJVC(rx)
         /\ Takes("Samsung", rx) <=> IsSamsung(rx)
         /\ Takes("FAST", rx) <=> IsFAST(rx)
         /\ Takes("Whynter", rx) <=> IsWhynter(rx)
         /\ Takes("Lego", rx) <=> IsLego(rx)
         /\ Takes("BoseWave", rx) <=> IsBoseWave(rx)
         /\ Takes("MagiQuest", rx) <=> IsMagiQuest(rx)
         /\ Takes("DistanceWidth", rx) <=> IsDistanceWidth(rx)
         /\ Takes("Hash", rx)
BY DEF Takes

LEMMA Refusals ==
  ASSUME NEW rx
  PROVE  /\ \/ rawlen(rx) \notin {4, 68}
            \/ rawlen(rx) = 68 /\ ~matchMark(rx.ticks[1], 8960)
            => ~IsNec(rx)
         /\ rawlen(rx) # 100 \/ ~matchMark(rx.ticks[1], 3456) => ~IsKaseikyo(rx)
         /\ rawlen(rx) # 32 \/ ~matchMark(rx.ticks[Len(rx.ticks)], 260) => ~IsDenon(rx)
         /\ rawlen(rx) \notin {26, 32, 42} \/ ~matchMark(rx.ticks[1], 2400) => ~IsSony(rx)
         /\ rawlen(rx) \notin {4, 60} => ~IsLG(rx)
         /\ \/ rawlen(rx) \notin {34, 36}
            \/ rawlen(rx) = 36 /\ ~matchMark(rx.ticks[1], 8416)
            => ~IsJVC(rx)
         /\ rawlen(rx) \notin {6, 68, 100} \/ ~matchMark(rx.ticks[1], 4480) => ~IsSamsung(rx)
         /\ rawlen(rx) # 36 \/ ~matchMark(rx.ticks[1], 2104) => ~IsFAST(rx)
         /\ rawlen(rx) # 68 \/ ~matchMark(rx.ticks[1], 2850) => ~IsWhynter(rx)
         /\ rawlen(rx) # 36 \/ ~matchMark(rx.ticks[1], 158) => ~IsLego(rx)
         /\ rawlen(rx) # 36 \/ ~matchMark(rx.ticks[1], 1014) => ~IsBoseWave(rx)
<1>1. \/ rawlen(rx) \notin {4, 68}
      \/ rawlen(rx) = 68 /\ ~matchMark(rx.ticks[1], 8960)
      => ~IsNec(rx)
  BY NECTiming DEF IsNec, IsShortRepeat, HasHeaderAndBits, checkHeader, FrameLength
<1>2. rawlen(rx) # 100 \/ ~matchMark(rx.ticks[1], 3456) => ~IsKaseikyo(rx)
  BY KaseikyoTiming DEF IsKaseikyo, HasHeaderAndBits, checkHeader, FrameLength
<1>3. rawlen(rx) # 32 \/ ~matchMark(rx.ticks[Len(rx.ticks)], 260) => ~IsDenon(rx)
  BY DEF IsDenon, StopMark
<1>4. rawlen(rx) \notin {26, 32, 42} \/ ~matchMark(rx.ticks[1], 2400) => ~IsSony(rx)
  BY SonyTiming DEF IsSony, SonyBits, checkHeader
<1>5. rawlen(rx) \notin {4, 60} => ~IsLG(rx)
  BY DEF IsLG, IsShortRepeat, HasHeaderAndBits, FrameLength
<1>6. \/ rawlen(rx) \notin {34, 36}
      \/ rawlen(rx) = 36 /\ ~matchMark(rx.ticks[1], 8416)
      => ~IsJVC(rx)
  BY JVCTiming DEF IsJVC, HasHeaderAndBits, checkHeader, FrameLength
<1>7. rawlen(rx) \notin {6, 68, 100} \/ ~matchMark(rx.ticks[1], 4480) => ~IsSamsung(rx)
  BY SamsungTiming DEF IsSamsung, checkHeader
<1>8. rawlen(rx) # 36 \/ ~matchMark(rx.ticks[1], 2104) => ~IsFAST(rx)
  BY FASTTiming DEF IsFAST, HasHeaderAndBits, checkHeader, FrameLength
<1>9. rawlen(rx) # 68 \/ ~matchMark(rx.ticks[1], 2850) => ~IsWhynter(rx)
  BY WhynterTiming DEF IsWhynter, HasHeaderAndBits, checkHeader, FrameLength
<1>10. rawlen(rx) # 36 \/ ~matchMark(rx.ticks[1], 158) => ~IsLego(rx)
  BY LegoTiming DEF IsLego, HasHeaderAndBits, checkHeader, FrameLength
<1>11. rawlen(rx) # 36 \/ ~matchMark(rx.ticks[1], 1014) => ~IsBoseWave(rx)
  BY BoseWaveTiming DEF IsBoseWave, HasHeaderAndBits, checkHeader, FrameLength
<1> QED BY <1>1, <1>2, <1>3, <1>4, <1>5, <1>6, <1>7, <1>8, <1>9, <1>10, <1>11, SMT

(* None of the first k decoders takes the frame.                           *)
Refused(rx, k) == \A j \in 1 .. k : ~Takes(DecodeOrder[j], rx)

LEMMA RefusedNext ==
  ASSUME NEW rx, NEW k \in 0 .. 15
  PROVE  /\ Refused(rx, 0)
         /\ Refused(rx, k) /\ ~Takes(DecodeOrder[k + 1], rx) => Refused(rx, k + 1)
         /\ Refused(rx, k) /\ Takes(DecodeOrder[k + 1], rx)
              => FirstToTake(rx) = DecodeOrder[k + 1]
<1>1. Refused(rx, 0)
  BY DEF Refused
<1>2. ASSUME Refused(rx, k), ~Takes(DecodeOrder[k + 1], rx) PROVE Refused(rx, k + 1)
  <2>1. \A j \in 1 .. k + 1 : j \in 1 .. k \/ j = k + 1
    OBVIOUS
  <2> QED BY <1>2, <2>1, Zenon DEF Refused
<1>3. ASSUME Refused(rx, k), Takes(DecodeOrder[k + 1], rx)
      PROVE  FirstToTake(rx) = DecodeOrder[k + 1]
  <2>1. k + 1 \in 1 .. 16 /\ (k + 1) - 1 = k
    OBVIOUS
  <2>2. \A j \in 1 .. (k + 1) - 1 : ~Takes(DecodeOrder[j], rx)
    BY <1>3, <2>1 DEF Refused
  <2> QED BY <1>3, <2>1, <2>2, FirstTakes, Zenon
<1> QED BY <1>1, <1>2, <1>3, Zenon

LEMMA InTurn ==
  ASSUME NEW rx
  PROVE  /\ Refused(rx, 0)
         /\ Refused(rx, 0) /\ ~IsNec(rx) => Refused(rx, 1)
         /\ Refused(rx, 0) /\ IsNec(rx) => FirstToTake(rx) = "Nec"
         /\ Refused(rx, 1) /\ ~IsKaseikyo(rx) => Refused(rx, 2)
         /\ Refused(rx, 1) /\ IsKaseikyo(rx) => FirstToTake(rx) = "Kaseikyo"
         /\ Refused(rx, 2) /\ ~IsDenon(rx) => Refused(rx, 3)
         /\ Refused(rx, 2) /\ IsDenon(rx) => FirstToTake(rx) = "Denon"
         /\ Refused(rx, 3) /\ ~IsSony(rx) => Refused(rx, 4)
         /\ Refused(rx, 3) /\ IsSony(rx) => FirstToTake(rx) = "Sony"
         /\ Refused(rx, 4) /\ ~IsRC5(rx) => Refused(rx, 5)
         /\ Refused(rx, 4) /\ IsRC5(rx) => FirstToTake(rx) = "RC5"
         /\ Refused(rx, 5) /\ ~IsRC6(rx) => Refused(rx, 6)
         /\ Refused(rx, 5) /\ IsRC6(rx) => FirstToTake(rx) = "RC6"
         /\ Refused(rx, 6) /\ ~IsLG(rx) => Refused(rx, 7)
         /\ Refused(rx, 6) /\ IsLG(rx) => FirstToTake(rx) = "LG"
         /\ Refused(rx, 7) /\ ~IsJVC(rx) => Refused(rx, 8)
         /\ Refused(rx, 7) /\ IsJVC(rx) => FirstToTake(rx) = "JVC"
         /\ Refused(rx, 8) /\ ~IsSamsung(rx) => Refused(rx, 9)
         /\ Refused(rx, 8) /\ IsSamsung(rx) => FirstToTake(rx) = "Samsung"
         /\ Refused(rx, 9) /\ ~IsFAST(rx) => Refused(rx, 10)
         /\ Refused(rx, 9) /\ IsFAST(rx) => FirstToTake(rx) = "FAST"
         /\ Refused(rx, 10) /\ ~IsWhynter(rx) => Refused(rx, 11)
         /\ Refused(rx, 10) /\ IsWhynter(rx) => FirstToTake(rx) = "Whynter"
         /\ Refused(rx, 11) /\ ~IsLego(rx) => Refused(rx, 12)
         /\ Refused(rx, 11) /\ IsLego(rx) => FirstToTake(rx) = "Lego"
         /\ Refused(rx, 12) /\ ~IsBoseWave(rx) => Refused(rx, 13)
         /\ Refused(rx, 12) /\ IsBoseWave(rx) => FirstToTake(rx) = "BoseWave"
         /\ Refused(rx, 13) /\ ~IsMagiQuest(rx) => Refused(rx, 14)
         /\ Refused(rx, 13) /\ IsMagiQuest(rx) => FirstToTake(rx) = "MagiQuest"
         /\ Refused(rx, 14) /\ ~IsDistanceWidth(rx) => Refused(rx, 15)
         /\ Refused(rx, 14) /\ IsDistanceWidth(rx) => FirstToTake(rx) = "DistanceWidth"
         /\ Refused(rx, 15) => FirstToTake(rx) = "Hash"
<1>1. \A k \in 0 .. 15 :
        /\ Refused(rx, 0)
        /\ Refused(rx, k) /\ ~Takes(DecodeOrder[k + 1], rx) => Refused(rx, k + 1)
        /\ Refused(rx, k) /\ Takes(DecodeOrder[k + 1], rx)
             => FirstToTake(rx) = DecodeOrder[k + 1]
  BY RefusedNext
<1>2. /\ Refused(rx, 0) /\ ~IsNec(rx) => Refused(rx, 1)
      /\ Refused(rx, 0) /\ IsNec(rx) => FirstToTake(rx) = "Nec"
  <2>1. 0 \in 0 .. 15 /\ 0 + 1 = 1
    OBVIOUS
  <2>2. Takes("Nec", rx) <=> IsNec(rx)
    BY TakesIs, Zenon
  <2> QED BY <1>1, <2>1, <2>2, Order
<1>3. /\ Refused(rx, 1) /\ ~IsKaseikyo(rx) => Refused(rx, 2)
      /\ Refused(rx, 1) /\ IsKaseikyo(rx) => FirstToTake(rx) = "Kaseikyo"
  <2>1. 1 \in 0 .. 15 /\ 1 + 1 = 2
    OBVIOUS
  <2>2. Takes("Kaseikyo", rx) <=> IsKaseikyo(rx)
    BY TakesIs, Zenon
  <2> QED BY <1>1, <2>1, <2>2, Order
<1>4. /\ Refused(rx, 2) /\ ~IsDenon(rx) => Refused(rx, 3)
      /\ Refused(rx, 2) /\ IsDenon(rx) => FirstToTake(rx) = "Denon"
  <2>1. 2 \in 0 .. 15 /\ 2 + 1 = 3
    OBVIOUS
  <2>2. Takes("Denon", rx) <=> IsDenon(rx)
    BY TakesIs, Zenon
  <2> QED BY <1>1, <2>1, <2>2, Order
<1>5. /\ Refused(rx, 3) /\ ~IsSony(rx) => Refused(rx, 4)
      /\ Refused(rx, 3) /\ IsSony(rx) => FirstToTake(rx) = "Sony"
  <2>1. 3 \in 0 .. 15 /\ 3 + 1 = 4
    OBVIOUS
  <2>2. Takes("Sony", rx) <=> IsSony(rx)
    BY TakesIs, Zenon
  <2> QED BY <1>1, <2>1, <2>2, Order
<1>6. /\ Refused(rx, 4) /\ ~IsRC5(rx) => Refused(rx, 5)
      /\ Refused(rx, 4) /\ IsRC5(rx) => FirstToTake(rx) = "RC5"
  <2>1. 4 \in 0 .. 15 /\ 4 + 1 = 5
    OBVIOUS
  <2>2. Takes("RC5", rx) <=> IsRC5(rx)
    BY TakesIs, Zenon
  <2> QED BY <1>1, <2>1, <2>2, Order
<1>7. /\ Refused(rx, 5) /\ ~IsRC6(rx) => Refused(rx, 6)
      /\ Refused(rx, 5) /\ IsRC6(rx) => FirstToTake(rx) = "RC6"
  <2>1. 5 \in 0 .. 15 /\ 5 + 1 = 6
    OBVIOUS
  <2>2. Takes("RC6", rx) <=> IsRC6(rx)
    BY TakesIs, Zenon
  <2> QED BY <1>1, <2>1, <2>2, Order
<1>8. /\ Refused(rx, 6) /\ ~IsLG(rx) => Refused(rx, 7)
      /\ Refused(rx, 6) /\ IsLG(rx) => FirstToTake(rx) = "LG"
  <2>1. 6 \in 0 .. 15 /\ 6 + 1 = 7
    OBVIOUS
  <2>2. Takes("LG", rx) <=> IsLG(rx)
    BY TakesIs, Zenon
  <2> QED BY <1>1, <2>1, <2>2, Order
<1>9. /\ Refused(rx, 7) /\ ~IsJVC(rx) => Refused(rx, 8)
      /\ Refused(rx, 7) /\ IsJVC(rx) => FirstToTake(rx) = "JVC"
  <2>1. 7 \in 0 .. 15 /\ 7 + 1 = 8
    OBVIOUS
  <2>2. Takes("JVC", rx) <=> IsJVC(rx)
    BY TakesIs, Zenon
  <2> QED BY <1>1, <2>1, <2>2, Order
<1>10. /\ Refused(rx, 8) /\ ~IsSamsung(rx) => Refused(rx, 9)
       /\ Refused(rx, 8) /\ IsSamsung(rx) => FirstToTake(rx) = "Samsung"
  <2>1. 8 \in 0 .. 15 /\ 8 + 1 = 9
    OBVIOUS
  <2>2. Takes("Samsung", rx) <=> IsSamsung(rx)
    BY TakesIs, Zenon
  <2> QED BY <1>1, <2>1, <2>2, Order
<1>11. /\ Refused(rx, 9) /\ ~IsFAST(rx) => Refused(rx, 10)
       /\ Refused(rx, 9) /\ IsFAST(rx) => FirstToTake(rx) = "FAST"
  <2>1. 9 \in 0 .. 15 /\ 9 + 1 = 10
    OBVIOUS
  <2>2. Takes("FAST", rx) <=> IsFAST(rx)
    BY TakesIs, Zenon
  <2> QED BY <1>1, <2>1, <2>2, Order
<1>12. /\ Refused(rx, 10) /\ ~IsWhynter(rx) => Refused(rx, 11)
       /\ Refused(rx, 10) /\ IsWhynter(rx) => FirstToTake(rx) = "Whynter"
  <2>1. 10 \in 0 .. 15 /\ 10 + 1 = 11
    OBVIOUS
  <2>2. Takes("Whynter", rx) <=> IsWhynter(rx)
    BY TakesIs, Zenon
  <2> QED BY <1>1, <2>1, <2>2, Order
<1>13. /\ Refused(rx, 11) /\ ~IsLego(rx) => Refused(rx, 12)
       /\ Refused(rx, 11) /\ IsLego(rx) => FirstToTake(rx) = "Lego"
  <2>1. 11 \in 0 .. 15 /\ 11 + 1 = 12
    OBVIOUS
  <2>2. Takes("Lego", rx) <=> IsLego(rx)
    BY TakesIs, Zenon
  <2> QED BY <1>1, <2>1, <2>2, Order
<1>14. /\ Refused(rx, 12) /\ ~IsBoseWave(rx) => Refused(rx, 13)
       /\ Refused(rx, 12) /\ IsBoseWave(rx) => FirstToTake(rx) = "BoseWave"
  <2>1. 12 \in 0 .. 15 /\ 12 + 1 = 13
    OBVIOUS
  <2>2. Takes("BoseWave", rx) <=> IsBoseWave(rx)
    BY TakesIs, Zenon
  <2> QED BY <1>1, <2>1, <2>2, Order
<1>15. /\ Refused(rx, 13) /\ ~IsMagiQuest(rx) => Refused(rx, 14)
       /\ Refused(rx, 13) /\ IsMagiQuest(rx) => FirstToTake(rx) = "MagiQuest"
  <2>1. 13 \in 0 .. 15 /\ 13 + 1 = 14
    OBVIOUS
  <2>2. Takes("MagiQuest", rx) <=> IsMagiQuest(rx)
    BY TakesIs, Zenon
  <2> QED BY <1>1, <2>1, <2>2, Order
<1>16. /\ Refused(rx, 14) /\ ~IsDistanceWidth(rx) => Refused(rx, 15)
       /\ Refused(rx, 14) /\ IsDistanceWidth(rx) => FirstToTake(rx) = "DistanceWidth"
  <2>1. 14 \in 0 .. 15 /\ 14 + 1 = 15
    OBVIOUS
  <2>2. Takes("DistanceWidth", rx) <=> IsDistanceWidth(rx)
    BY TakesIs, Zenon
  <2> QED BY <1>1, <2>1, <2>2, Order
<1>17. /\ Refused(rx, 15) /\ ~TRUE => Refused(rx, 16)
       /\ Refused(rx, 15) /\ TRUE => FirstToTake(rx) = "Hash"
  <2>1. 15 \in 0 .. 15 /\ 15 + 1 = 16
    OBVIOUS
  <2>2. Takes("Hash", rx) <=> TRUE
    BY TakesIs, Zenon
  <2> QED BY <1>1, <2>1, <2>2, Order
<1>18. Refused(rx, 0)
  BY RefusedNext
<1> QED BY <1>2, <1>3, <1>4, <1>5, <1>6, <1>7, <1>8, <1>9, <1>10, <1>11, <1>12, <1>13,
          <1>14, <1>15, <1>16, <1>17, <1>18, Zenon

----------------------------------------------------------------------------
(* What is received for a framed word is read by the decoder of the        *)
(* protocol, and read as the word.                                         *)

LEMMA FramedRead ==
  ASSUME NEW c \in Timings, ~ByMark(c), Separable(c), NEW n \in Nat, n > 0, NEW w \in Word(n),
         NEW rx, Sampled(sendPulseDistanceWidth(c, w), rx.ticks)
  PROVE  /\ Len(rx.ticks) \in Nat /\ rawlen(rx) = 2 * n + 4
         /\ MarkTicks(c.headerMark, rx.ticks[1]) /\ SpaceTicks(c.headerSpace, rx.ticks[2])
         /\ MarkTicks(c.zeroMark, rx.ticks[3])
         /\ MarkTicks(c.zeroMark, rx.ticks[Len(rx.ticks)])
         /\ decodePulseDistanceWidthData(rx, c, n, 3) = w
<1>1. MarkOf(c, Sent(c, w)[1]) = c.zeroMark
  BY DEF ByMark, MarkOf
<1> QED BY <1>1, FramedTicks

LEMMA NECRead ==
  ASSUME NEW w \in Word(32),
         NEW rx, Sampled(sendPulseDistanceWidth(NECProtocolConstants, w), rx.ticks)
  PROVE  /\ FirstToTake(rx) = "Nec" /\ rawlen(rx) = 68
         /\ decodePulseDistanceWidthData(rx, NECProtocolConstants, 32, 3) = w
<1> DEFINE t == rx.ticks[1]
           space == rx.ticks[2]
           end == rx.ticks[Len(rx.ticks)]
<1>1. /\ Len(rx.ticks) \in Nat /\ rawlen(rx) = 68
      /\ MarkTicks(8960, t) /\ SpaceTicks(4480, space)
      /\ MarkTicks(560, rx.ticks[3]) /\ MarkTicks(560, end)
      /\ decodePulseDistanceWidthData(rx, NECProtocolConstants, 32, 3) = w
  <2> DEFINE c == NECProtocolConstants
  <2>1. /\ c \in Timings /\ ~ByMark(c) /\ Separable(c) /\ 32 \in Nat /\ 32 > 0
        /\ c.headerMark = 8960 /\ c.headerSpace = 4480 /\ c.zeroMark = 560
    BY NECTiming
  <2> HIDE DEF c
  <2>2. Sampled(sendPulseDistanceWidth(c, w), rx.ticks)
    BY DEF c
  <2>3. /\ Len(rx.ticks) \in Nat /\ rawlen(rx) = 2 * 32 + 4
        /\ MarkTicks(8960, t) /\ SpaceTicks(4480, space)
        /\ MarkTicks(560, rx.ticks[3]) /\ MarkTicks(560, end)
        /\ decodePulseDistanceWidthData(rx, c, 32, 3) = w
    BY <2>1, <2>2, FramedRead
  <2> QED BY <2>3 DEF c
<1>2. /\ t \in Int /\ matchSpace(space, 4480) /\ matchMark(end, 560)
      /\ matchMark(t, 8960)
  <2> HIDE DEF t, space, end
  <2> QED
    BY <1>1 DEF MarkTicks, SpaceTicks, matchMark, matchSpace, matchTicks, TICKS_LOW, TICKS_HIGH,
                MARK_EXCESS_MICROS
<1>3. IsNec(rx)
  <2>1. /\ NECProtocolConstants.headerMark = 8960
        /\ NECProtocolConstants.headerSpace = 4480
    BY NECTiming
  <2>2. HasHeaderAndBits(rx, NECProtocolConstants, 32)
    BY <1>1, <1>2, <2>1 DEF HasHeaderAndBits, checkHeader, FrameLength
  <2> QED BY <2>2 DEF IsNec
<1> QED BY <1>1, <1>3, InTurn

LEMMA KaseikyoRead ==
  ASSUME NEW w \in Word(48),
         NEW rx, Sampled(sendPulseDistanceWidth(KaseikyoProtocolConstants, w), rx.ticks)
  PROVE  /\ FirstToTake(rx) = "Kaseikyo" /\ rawlen(rx) = 100
         /\ decodePulseDistanceWidthData(rx, KaseikyoProtocolConstants, 48, 3) = w
<1> DEFINE t == rx.ticks[1]
           space == rx.ticks[2]
           end == rx.ticks[Len(rx.ticks)]
<1>1. /\ Len(rx.ticks) \in Nat /\ rawlen(rx) = 100
      /\ MarkTicks(3456, t) /\ SpaceTicks(1728, space)
      /\ MarkTicks(432, rx.ticks[3]) /\ MarkTicks(432, end)
      /\ decodePulseDistanceWidthData(rx, KaseikyoProtocolConstants, 48, 3) = w
  <2> DEFINE c == KaseikyoProtocolConstants
  <2>1. /\ c \in Timings /\ ~ByMark(c) /\ Separable(c) /\ 48 \in Nat /\ 48 > 0
        /\ c.headerMark = 3456 /\ c.headerSpace = 1728 /\ c.zeroMark = 432
    BY KaseikyoTiming
  <2> HIDE DEF c
  <2>2. Sampled(sendPulseDistanceWidth(c, w), rx.ticks)
    BY DEF c
  <2>3. /\ Len(rx.ticks) \in Nat /\ rawlen(rx) = 2 * 48 + 4
        /\ MarkTicks(3456, t) /\ SpaceTicks(1728, space)
        /\ MarkTicks(432, rx.ticks[3]) /\ MarkTicks(432, end)
        /\ decodePulseDistanceWidthData(rx, c, 48, 3) = w
    BY <2>1, <2>2, FramedRead
  <2> QED BY <2>3 DEF c
<1>2. /\ t \in Int /\ matchSpace(space, 1728) /\ matchMark(end, 432)
      /\ matchMark(t, 3456)
  <2> HIDE DEF t, space, end
  <2> QED
    BY <1>1 DEF MarkTicks, SpaceTicks, matchMark, matchSpace, matchTicks, TICKS_LOW, TICKS_HIGH,
                MARK_EXCESS_MICROS
<1>3. IsKaseikyo(rx)
  <2>1. /\ KaseikyoProtocolConstants.headerMark = 3456
        /\ KaseikyoProtocolConstants.headerSpace = 1728
    BY KaseikyoTiming
  <2>2. HasHeaderAndBits(rx, KaseikyoProtocolConstants, 48)
    BY <1>1, <1>2, <2>1 DEF HasHeaderAndBits, checkHeader, FrameLength
  <2> QED BY <2>2 DEF IsKaseikyo
<1>4. /\ ~IsNec(rx)
  BY <1>1, <1>2, Refusals, SMTT(30)
<1> QED BY <1>1, <1>3, <1>4, InTurn

LEMMA LGRead ==
  ASSUME NEW w \in Word(28),
         NEW rx, Sampled(sendPulseDistanceWidth(LGProtocolConstants, w), rx.ticks)
  PROVE  /\ FirstToTake(rx) = "LG" /\ rawlen(rx) = 60
         /\ LGConstants(rx) = LGProtocolConstants
         /\ decodePulseDistanceWidthData(rx, LGProtocolConstants, 28, 3) = w
<1> DEFINE t == rx.ticks[1]
           space == rx.ticks[2]
           end == rx.ticks[Len(rx.ticks)]
<1>1. /\ Len(rx.ticks) \in Nat /\ rawlen(rx) = 60
      /\ MarkTicks(9000, t) /\ SpaceTicks(4200, space)
      /\ MarkTicks(500, rx.ticks[3]) /\ MarkTicks(500, end)
      /\ decodePulseDistanceWidthData(rx, LGProtocolConstants, 28, 3) = w
  <2> DEFINE c == LGProtocolConstants
  <2>1. /\ c \in Timings /\ ~ByMark(c) /\ Separable(c) /\ 28 \in Nat /\ 28 > 0
        /\ c.headerMark = 9000 /\ c.headerSpace = 4200 /\ c.zeroMark = 500
    BY LGTiming
  <2> HIDE DEF c
  <2>2. Sampled(sendPulseDistanceWidth(c, w), rx.ticks)
    BY DEF c
  <2>3. /\ Len(rx.ticks) \in Nat /\ rawlen(rx) = 2 * 28 + 4
        /\ MarkTicks(9000, t) /\ SpaceTicks(4200, space)
        /\ MarkTicks(500, rx.ticks[3]) /\ MarkTicks(500, end)
        /\ decodePulseDistanceWidthData(rx, c, 28, 3) = w
    BY <2>1, <2>2, FramedRead
  <2> QED BY <2>3 DEF c
<1>2. /\ t \in Int /\ matchSpace(space, 4200) /\ matchMark(end, 500)
      /\ matchMark(t, 9000) /\ ~matchMark(t, 2664) /\ t > 68
  <2> HIDE DEF t, space, end
  <2> QED
    BY <1>1 DEF MarkTicks, SpaceTicks, matchMark, matchSpace, matchTicks, TICKS_LOW, TICKS_HIGH,
                MARK_EXCESS_MICROS
<1>3. IsLG(rx) /\ LGConstants(rx) = LGProtocolConstants
  <2>1. /\ LGProtocolConstants.headerMark = 9000
        /\ LGProtocolConstants.headerSpace = 4200
    BY LGTiming
  <2>2. HasHeaderAndBits(rx, LGProtocolConstants, 28)
    BY <1>1, <1>2, <2>1 DEF HasHeaderAndBits, checkHeader, FrameLength
  <2>3. LGConstants(rx) = LGProtocolConstants
    BY <1>2 DEF LGConstants
  <2> QED BY <2>2, <2>3, LGTiming DEF IsLG
<1>4. /\ ~IsNec(rx) /\ ~IsKaseikyo(rx) /\ ~IsDenon(rx) /\ ~IsSony(rx)
  <2>1. ~IsNec(rx) /\ ~IsKaseikyo(rx)
    BY <1>1, <1>2, Refusals, SMTT(30)
  <2>2. ~IsDenon(rx) /\ ~IsSony(rx)
    BY <1>1, <1>2, Refusals, SMTT(30)
  <2> QED BY <2>1, <2>2, Zenon
<1>5. ~IsRC5(rx) /\ ~IsRC6(rx)
  <2>1. 1 \in 1 .. Len(rx.ticks)
    BY <1>1 DEF rawlen
  <2> QED BY <1>1, <1>2, <2>1, NotRC5, NotRC6
<1> QED BY <1>1, <1>3, <1>4, <1>5, InTurn

LEMMA JVCRead ==
  ASSUME NEW w \in Word(16),
         NEW rx, Sampled(sendPulseDistanceWidth(JVCProtocolConstants, w), rx.ticks)
  PROVE  /\ FirstToTake(rx) = "JVC" /\ rawlen(rx) = 36
         /\ decodePulseDistanceWidthData(rx, JVCProtocolConstants, 16, 3) = w
<1> DEFINE t == rx.ticks[1]
           space == rx.ticks[2]
           end == rx.ticks[Len(rx.ticks)]
<1>1. /\ Len(rx.ticks) \in Nat /\ rawlen(rx) = 36
      /\ MarkTicks(8416, t) /\ SpaceTicks(4208, space)
      /\ MarkTicks(526, rx.ticks[3]) /\ MarkTicks(526, end)
      /\ decodePulseDistanceWidthData(rx, JVCProtocolConstants, 16, 3) = w
  <2> DEFINE c == JVCProtocolConstants
  <2>1. /\ c \in Timings /\ ~ByMark(c) /\ Separable(c) /\ 16 \in Nat /\ 16 > 0
        /\ c.headerMark = 8416 /\ c.headerSpace = 4208 /\ c.zeroMark = 526
    BY JVCTiming
  <2> HIDE DEF c
  <2>2. Sampled(sendPulseDistanceWidth(c, w), rx.ticks)
    BY DEF c
  <2>3. /\ Len(rx.ticks) \in Nat /\ rawlen(rx) = 2 * 16 + 4
        /\ MarkTicks(8416, t) /\ SpaceTicks(4208, space)
        /\ MarkTicks(526, rx.ticks[3]) /\ MarkTicks(526, end)
        /\ decodePulseDistanceWidthData(rx, c, 16, 3) = w
    BY <2>1, <2>2, FramedRead
  <2> QED BY <2>3 DEF c
<1>2. /\ t \in Int /\ matchSpace(space, 4208) /\ matchMark(end, 526)
      /\ matchMark(t, 8416) /\ ~matchMark(t, 2664) /\ t > 68
  <2> HIDE DEF t, space, end
  <2> QED
    BY <1>1 DEF MarkTicks, SpaceTicks, matchMark, matchSpace, matchTicks, TICKS_LOW, TICKS_HIGH,
                MARK_EXCESS_MICROS
<1>3. IsJVC(rx)
  <2>1. /\ JVCProtocolConstants.headerMark = 8416
        /\ JVCProtocolConstants.headerSpace = 4208
    BY JVCTiming
  <2>2. HasHeaderAndBits(rx, JVCProtocolConstants, 16)
    BY <1>1, <1>2, <2>1 DEF HasHeaderAndBits, checkHeader, FrameLength
  <2> QED BY <2>2 DEF IsJVC
<1>4. /\ ~IsNec(rx) /\ ~IsKaseikyo(rx) /\ ~IsDenon(rx) /\ ~IsSony(rx)
      /\ ~IsLG(rx)
  <2>1. ~IsNec(rx) /\ ~IsKaseikyo(rx)
    BY <1>1, <1>2, Refusals, SMTT(30)
  <2>2. ~IsDenon(rx) /\ ~IsSony(rx)
    BY <1>1, <1>2, Refusals, SMTT(30)
  <2>3. ~IsLG(rx)
    BY <1>1, <1>2, Refusals, SMTT(30)
  <2> QED BY <2>1, <2>2, <2>3, Zenon
<1>5. ~IsRC5(rx) /\ ~IsRC6(rx)
  <2>1. 1 \in 1 .. Len(rx.ticks)
    BY <1>1 DEF rawlen
  <2> QED BY <1>1, <1>2, <2>1, NotRC5, NotRC6
<1> QED BY <1>1, <1>3, <1>4, <1>5, InTurn

LEMMA SamsungRead ==
  ASSUME NEW n \in {32, 48}, NEW w \in Word(n),
         NEW rx, Sampled(sendPulseDistanceWidth(SamsungProtocolConstants, w), rx.ticks)
  PROVE  /\ FirstToTake(rx) = "Samsung" /\ rawlen(rx) = 2 * n + 4
         /\ decodePulseDistanceWidthData(rx, SamsungProtocolConstants, n, 3) = w
<1> DEFINE t == rx.ticks[1]
           space == rx.ticks[2]
           end == rx.ticks[Len(rx.ticks)]
<1>1. /\ Len(rx.ticks) \in Nat /\ rawlen(rx) = 2 * n + 4
      /\ MarkTicks(4480, t) /\ SpaceTicks(4480, space)
      /\ MarkTicks(560, rx.ticks[3]) /\ MarkTicks(560, end)
      /\ decodePulseDistanceWidthData(rx, SamsungProtocolConstants, n, 3) = w
  <2> DEFINE c == SamsungProtocolConstants
  <2>1. /\ c \in Timings /\ ~ByMark(c) /\ Separable(c) /\ n \in Nat /\ n > 0
        /\ c.headerMark = 4480 /\ c.headerSpace = 4480 /\ c.zeroMark = 560
    BY SamsungTiming
  <2> HIDE DEF c
  <2>2. Sampled(sendPulseDistanceWidth(c, w), rx.ticks)
    BY DEF c
  <2>3. /\ Len(rx.ticks) \in Nat /\ rawlen(rx) = 2 * n + 4
        /\ MarkTicks(4480, t) /\ SpaceTicks(4480, space)
        /\ MarkTicks(560, rx.ticks[3]) /\ MarkTicks(560, end)
        /\ decodePulseDistanceWidthData(rx, c, n, 3) = w
    BY <2>1, <2>2, FramedRead
  <2> QED BY <2>3 DEF c
<1>2. /\ t \in Int /\ matchSpace(space, 4480) /\ matchMark(end, 560)
      /\ matchMark(t, 4480) /\ ~matchMark(t, 8960) /\ ~matchMark(t, 3456)
      /\ ~matchMark(t, 2664) /\ t > 68
  <2> HIDE DEF t, space, end
  <2> QED
    BY <1>1 DEF MarkTicks, SpaceTicks, matchMark, matchSpace, matchTicks, TICKS_LOW, TICKS_HIGH,
                MARK_EXCESS_MICROS
<1>3. IsSamsung(rx)
  <2>1. /\ SamsungProtocolConstants.headerMark = 4480
        /\ SamsungProtocolConstants.headerSpace = 4480
    BY SamsungTiming
  <2> QED BY <1>1, <1>2, <2>1 DEF checkHeader, IsSamsung
<1>4. /\ ~IsNec(rx) /\ ~IsKaseikyo(rx) /\ ~IsDenon(rx) /\ ~IsSony(rx)
      /\ ~IsLG(rx) /\ ~IsJVC(rx)
  <2>1. ~IsNec(rx) /\ ~IsKaseikyo(rx)
    BY <1>1, <1>2, Refusals, SMTT(30)
  <2>2. ~IsDenon(rx) /\ ~IsSony(rx)
    BY <1>1, <1>2, Refusals, SMTT(30)
  <2>3. ~IsLG(rx) /\ ~IsJVC(rx)
    BY <1>1, <1>2, Refusals, SMTT(30)
  <2> QED BY <2>1, <2>2, <2>3, Zenon
<1>5. ~IsRC5(rx) /\ ~IsRC6(rx)
  <2>1. 1 \in 1 .. Len(rx.ticks)
    BY <1>1 DEF rawlen
  <2> QED BY <1>1, <1>2, <2>1, NotRC5, NotRC6
<1> QED BY <1>1, <1>3, <1>4, <1>5, InTurn

LEMMA LegoRead ==
  ASSUME NEW w \in Word(16),
         NEW rx, Sampled(sendPulseDistanceWidth(LegoProtocolConstants, w), rx.ticks)
  PROVE  /\ FirstToTake(rx) = "Lego" /\ rawlen(rx) = 36
         /\ decodePulseDistanceWidthData(rx, LegoProtocolConstants, 16, 3) = w
<1> DEFINE t == rx.ticks[1]
           space == rx.ticks[2]
           end == rx.ticks[Len(rx.ticks)]
<1>1. /\ Len(rx.ticks) \in Nat /\ rawlen(rx) = 36
      /\ MarkTicks(158, t) /\ SpaceTicks(1026, space)
      /\ MarkTicks(158, rx.ticks[3]) /\ MarkTicks(158, end)
      /\ decodePulseDistanceWidthData(rx, LegoProtocolConstants, 16, 3) = w
  <2> DEFINE c == LegoProtocolConstants
  <2>1. /\ c \in Timings /\ ~ByMark(c) /\ Separable(c) /\ 16 \in Nat /\ 16 > 0
        /\ c.headerMark = 158 /\ c.headerSpace = 1026 /\ c.zeroMark = 158
    BY LegoTiming
  <2> HIDE DEF c
  <2>2. Sampled(sendPulseDistanceWidth(c, w), rx.ticks)
    BY DEF c
  <2>3. /\ Len(rx.ticks) \in Nat /\ rawlen(rx) = 2 * 16 + 4
        /\ MarkTicks(158, t) /\ SpaceTicks(1026, space)
        /\ MarkTicks(158, rx.ticks[3]) /\ MarkTicks(158, end)
        /\ decodePulseDistanceWidthData(rx, c, 16, 3) = w
    BY <2>1, <2>2, FramedRead
  <2> QED BY <2>3 DEF c
<1>2. /\ t \in Int /\ matchSpace(space, 1026) /\ matchMark(end, 158)
      /\ matchMark(t, 158) /\ ~matchMark(t, 8416) /\ ~matchMark(t, 2104)
      /\ ~matchMark(t, 2664) /\ t < 12
  <2> HIDE DEF t, space, end
  <2> QED
    BY <1>1 DEF MarkTicks, SpaceTicks, matchMark, matchSpace, matchTicks, TICKS_LOW, TICKS_HIGH,
                MARK_EXCESS_MICROS
<1>3. IsLego(rx)
  <2>1. /\ LegoProtocolConstants.headerMark = 158
        /\ LegoProtocolConstants.headerSpace = 1026
    BY LegoTiming
  <2>2. HasHeaderAndBits(rx, LegoProtocolConstants, 16)
    BY <1>1, <1>2, <2>1 DEF HasHeaderAndBits, checkHeader, FrameLength
  <2> QED BY <1>1, <1>2, <2>2 DEF IsLego, StopMark
<1>4. /\ ~IsNec(rx) /\ ~IsKaseikyo(rx) /\ ~IsDenon(rx) /\ ~IsSony(rx)
      /\ ~IsLG(rx) /\ ~IsJVC(rx) /\ ~IsSamsung(rx) /\ ~IsFAST(rx)
      /\ ~IsWhynter(rx)
  <2>1. ~IsNec(rx) /\ ~IsKaseikyo(rx)
    BY <1>1, <1>2, Refusals, SMTT(30)
  <2>2. ~IsDenon(rx) /\ ~IsSony(rx)
    BY <1>1, <1>2, Refusals, SMTT(30)
  <2>3. ~IsLG(rx) /\ ~IsJVC(rx)
    BY <1>1, <1>2, Refusals, SMTT(30)
  <2>4. ~IsSamsung(rx) /\ ~IsFAST(rx)
    BY <1>1, <1>2, Refusals, SMTT(30)
  <2>5. ~IsWhynter(rx)
    BY <1>1, <1>2, Refusals, SMTT(30)
  <2> QED BY <2>1, <2>2, <2>3, <2>4, <2>5, Zenon
<1>5. ~IsRC5(rx) /\ ~IsRC6(rx)
  <2>1. 1 \in 1 .. Len(rx.ticks)
    BY <1>1 DEF rawlen
  <2> QED BY <1>1, <1>2, <2>1, NotRC5, NotRC6
<1> QED BY <1>1, <1>3, <1>4, <1>5, InTurn

LEMMA BoseWaveRead ==
  ASSUME NEW w \in Word(16), IsChecked(w, 0),
         NEW rx, Sampled(sendPulseDistanceWidth(BoseWaveProtocolConstants, w), rx.ticks)
  PROVE  /\ FirstToTake(rx) = "BoseWave" /\ rawlen(rx) = 36
         /\ decodePulseDistanceWidthData(rx, BoseWaveProtocolConstants, 16, 3) = w
<1> DEFINE t == rx.ticks[1]
           space == rx.ticks[2]
           end == rx.ticks[Len(rx.ticks)]
<1>1. /\ Len(rx.ticks) \in Nat /\ rawlen(rx) = 36
      /\ MarkTicks(1014, t) /\ SpaceTicks(1468, space)
      /\ MarkTicks(520, rx.ticks[3]) /\ MarkTicks(520, end)
      /\ decodePulseDistanceWidthData(rx, BoseWaveProtocolConstants, 16, 3) = w
  <2> DEFINE c == BoseWaveProtocolConstants
  <2>1. /\ c \in Timings /\ ~ByMark(c) /\ Separable(c) /\ 16 \in Nat /\ 16 > 0
        /\ c.headerMark = 1014 /\ c.headerSpace = 1468 /\ c.zeroMark = 520
    BY BoseWaveTiming
  <2> HIDE DEF c
  <2>2. Sampled(sendPulseDistanceWidth(c, w), rx.ticks)
    BY DEF c
  <2>3. /\ Len(rx.ticks) \in Nat /\ rawlen(rx) = 2 * 16 + 4
        /\ MarkTicks(1014, t) /\ SpaceTicks(1468, space)
        /\ MarkTicks(520, rx.ticks[3]) /\ MarkTicks(520, end)
        /\ decodePulseDistanceWidthData(rx, c, 16, 3) = w
    BY <2>1, <2>2, FramedRead
  <2> QED BY <2>3 DEF c
<1>2. /\ t \in Int /\ matchSpace(space, 1468) /\ matchMark(end, 520)
      /\ matchMark(t, 1014) /\ ~matchMark(t, 8416) /\ ~matchMark(t, 2104)
      /\ ~matchMark(t, 158) /\ ~matchMark(t, 2664)
  <2> HIDE DEF t, space, end
  <2> QED
    BY <1>1 DEF MarkTicks, SpaceTicks, matchMark, matchSpace, matchTicks, TICKS_LOW, TICKS_HIGH,
                MARK_EXCESS_MICROS
<1>3. IsBoseWave(rx)
  <2>1. /\ BoseWaveProtocolConstants.headerMark = 1014
        /\ BoseWaveProtocolConstants.headerSpace = 1468
    BY BoseWaveTiming
  <2>2. HasHeaderAndBits(rx, BoseWaveProtocolConstants, 16)
    BY <1>1, <1>2, <2>1 DEF HasHeaderAndBits, checkHeader, FrameLength
  <2> QED BY <1>1, <1>2, <2>2 DEF IsBoseWave, StopMark
<1>4. /\ ~IsNec(rx) /\ ~IsKaseikyo(rx) /\ ~IsDenon(rx) /\ ~IsSony(rx)
      /\ ~IsLG(rx) /\ ~IsJVC(rx) /\ ~IsSamsung(rx) /\ ~IsFAST(rx)
      /\ ~IsWhynter(rx) /\ ~IsLego(rx)
  <2>1. ~IsNec(rx) /\ ~IsKaseikyo(rx)
    BY <1>1, <1>2, Refusals, SMTT(30)
  <2>2. ~IsDenon(rx) /\ ~IsSony(rx)
    BY <1>1, <1>2, Refusals, SMTT(30)
  <2>3. ~IsLG(rx) /\ ~IsJVC(rx)
    BY <1>1, <1>2, Refusals, SMTT(30)
  <2>4. ~IsSamsung(rx) /\ ~IsFAST(rx)
    BY <1>1, <1>2, Refusals, SMTT(30)
  <2>5. ~IsWhynter(rx) /\ ~IsLego(rx)
    BY <1>1, <1>2, Refusals, SMTT(30)
  <2> QED BY <2>1, <2>2, <2>3, <2>4, <2>5, Zenon
<1>5. ~IsRC5(rx) /\ ~IsRC6(rx)
  <2>1. 3 \in 1 .. Len(rx.ticks) /\ 3 % 2 = 1
    BY <1>1 DEF rawlen
  <2>2. rx.ticks[3] \in Int /\ rx.ticks[3] < 13
    BY <1>1 DEF MarkTicks
  <2> QED BY <1>1, <1>2, <2>1, <2>2, NotRC5, NotRC6
<1> QED BY <1>1, <1>3, <1>4, <1>5, InTurn

----------------------------------------------------------------------------
(* Biphase: the levels that the decoders of RC5 and RC6 see.               *)

LEMMA SumsGrow ==
  ASSUME NEW n \in Nat, NEW step \in [1 .. n -> Nat], NEW f, Sums(f, n, step),
         NEW i \in 1 .. n + 1, NEW j \in 1 .. n + 1, i <= j
  PROVE  f[i] \in Int /\ f[i] <= f[j]
<1> DEFINE T == {d \in Nat : i + d <= n + 1 => f[i] <= f[i + d]}
<1>1. /\ \A k \in 1 .. n + 1 : f[k] \in Int
      /\ \A k \in 1 .. n : f[k + 1] = f[k] + step[k] /\ step[k] \in Nat
  BY DEF Sums
<1>2. 0 \in T
  <2>1. i + 0 = i /\ f[i] <= f[i]
    BY <1>1
  <2> QED BY <2>1
<1>3. ASSUME NEW d \in Nat, d \in T PROVE d + 1 \in T
  <2> SUFFICES ASSUME i + (d + 1) <= n + 1 PROVE f[i] <= f[i + (d + 1)]
    OBVIOUS
  <2>1. f[i] <= f[i + d] /\ i + d \in 1 .. n /\ i + d \in 1 .. n + 1
    BY <1>3
  <2>2. f[(i + d) + 1] = f[i + d] + step[i + d] /\ step[i + d] \in Nat /\ f[i + d] \in Int
    BY <1>1, <2>1
  <2>3. (i + d) + 1 = i + (d + 1)
    OBVIOUS
  <2> QED BY <1>1, <2>1, <2>2, <2>3
<1> HIDE DEF T
<1>4. j - i \in Nat /\ i + (j - i) = j
  OBVIOUS
<1>5. j - i \in T
  BY <1>2, <1>3, <1>4, Climb
<1> QED BY <1>1, <1>4, <1>5 DEF T

(* The place in a sequence of sums, if it has one, is the only one.        *)
LEMMA OnePlace ==
  ASSUME NEW n \in Nat, NEW step \in [1 .. n -> Nat], NEW f, Sums(f, n, step), NEW t \in Int,
         NEW i \in 1 .. n, f[i] < t, t <= f[i + 1], NEW j \in 1 .. n, f[j] < t, t <= f[j + 1]
  PROVE  i = j
<1>1. \A a, b \in 1 .. n + 1 : a <= b => f[a] \in Int /\ f[b] \in Int /\ f[a] <= f[b]
  BY SumsGrow, SMTT(30)
<1>2. i \in 1 .. n + 1 /\ i + 1 \in 1 .. n + 1 /\ j \in 1 .. n + 1 /\ j + 1 \in 1 .. n + 1
  OBVIOUS
<1>3. ~(i + 1 <= j)
  BY <1>1, <1>2
<1>4. ~(j + 1 <= i)
  BY <1>1, <1>2
<1> QED BY <1>3, <1>4

Intervals(rx, first, unit) ==
  [k \in 1 .. (Len(rx.ticks) - first + 1) |-> TimingIntervals(rx, first + k - 1, unit)]

LEMMA IntervalsType ==
  ASSUME NEW rx, NEW i, NEW unit PROVE TimingIntervals(rx, i, unit) \in 0 .. 3
<1> DEFINE us(n) == n * unit + (IF i % 2 = 1 THEN 20 ELSE -20)
           fits == {n \in 1 .. 3 : matchTicks(rx.ticks[i], us(n))}
<1>1. TimingIntervals(rx, i, unit)
        = IF fits = {} THEN 0 ELSE CHOOSE n \in fits : \A m \in fits : n <= m
  BY Zenon DEF TimingIntervals, MARK_EXCESS_MICROS
<1>2. fits \subseteq 1 .. 3 /\ fits \subseteq Nat
  OBVIOUS
<1> HIDE DEF fits
<1>3. CASE fits = {}
  BY <1>1, <1>3
<1>4. CASE fits # {}
  <2> DEFINE least(n) == \A m \in fits : n <= m
  <2>1. \E n \in fits : least(n)
    BY <1>2, <1>4, Least
  <2>2. TimingIntervals(rx, i, unit) = CHOOSE n \in fits : least(n)
    BY <1>1, <1>4
  <2> HIDE DEF least
  <2>3. (CHOOSE n \in fits : least(n)) \in fits
    BY <2>1, Zenon
  <2>4. TimingIntervals(rx, i, unit) \in fits
    BY <2>2, <2>3, Zenon
  <2>5. TimingIntervals(rx, i, unit) \in 1 .. 3
    BY <1>2, <2>4, Zenon
  <2> QED BY <2>5
<1> QED BY <1>3, <1>4

LEMMA UnitsSum ==
  ASSUME NEW rx, Len(rx.ticks) \in Nat, NEW first \in Nat, first <= Len(rx.ticks) + 1, NEW unit
  PROVE  LET n == Len(rx.ticks) - first + 1
         IN  /\ n \in Nat /\ Intervals(rx, first, unit) \in [1 .. n -> Nat]
             /\ Sums(UnitsUpTo(rx, first, unit), n, Intervals(rx, first, unit))
<1> DEFINE n == Len(rx.ticks) - first + 1
           step == Intervals(rx, first, unit)
           body(u) == [k \in 0 .. n |->
                         IF k = 0 THEN <<0>>
                         ELSE Append(u[k - 1], Last(u[k - 1])
                                                 + TimingIntervals(rx, first + k - 1, unit))]
           U == CHOOSE u : u = body(u)
<1>1. n \in Nat
  OBVIOUS
<1>2. UnitsUpTo(rx, first, unit) = U[n]
  BY DEF UnitsUpTo
<1>3. /\ step \in [1 .. n -> Nat]
      /\ \A k \in 1 .. n : step[k] = TimingIntervals(rx, first + k - 1, unit)
  <2>1. \A k \in 1 .. n : TimingIntervals(rx, first + k - 1, unit) \in Nat
    <3> SUFFICES ASSUME NEW k \in 1 .. n PROVE TimingIntervals(rx, first + k - 1, unit) \in Nat
      OBVIOUS
    <3>1. TimingIntervals(rx, first + k - 1, unit) \in 0 .. 3
      BY IntervalsType, Zenon
    <3> QED BY <3>1
  <2> QED BY <2>1 DEF Intervals
<1> HIDE DEF step
<1>4. ASSUME NEW u PROVE u = body(u) <=> Built(u, n, step)
  <2> DEFINE g(k) == IF k = 0 THEN <<0>>
                     ELSE Append(u[k - 1], Last(u[k - 1])
                                             + TimingIntervals(rx, first + k - 1, unit))
             h(k) == IF k = 0 THEN <<0>> ELSE Append(u[k - 1], Last(u[k - 1]) + step[k])
  <2>1. \A k \in 0 .. n : g(k) = h(k)
    <3> SUFFICES ASSUME NEW k \in 0 .. n PROVE g(k) = h(k)
      OBVIOUS
    <3>1. CASE k = 0
      BY <3>1
    <3>2. CASE k # 0
      <4>1. k \in 1 .. n
        BY <3>2
      <4>2. step[k] = TimingIntervals(rx, first + k - 1, unit)
        BY <4>1, <1>3
      <4> QED BY <4>2
    <3> QED BY <3>1, <3>2
  <2>2. [k \in 0 .. n |-> g(k)] = [k \in 0 .. n |-> h(k)]
    <3> HIDE DEF g, h
    <3> QED BY <2>1
  <2> QED BY <2>2, Zenon DEF Built
<1>5. \E u : u = body(u)
  <2>1. \E u : Built(u, n, step)
    BY <1>1, BuiltExists
  <2> HIDE DEF n
  <2> QED BY <2>1, <1>4, Zenon
<1>6. U = body(U)
  <2> HIDE DEF n
  <2> QED BY <1>5, Zenon
<1> HIDE DEF U
<1>7. Built(U, n, step)
  BY <1>4, <1>6, Zenon
<1> HIDE DEF n
<1>8. \A k \in 1 .. n : step[k] \in Int
  BY <1>1, <1>3
<1>9. step \in [1 .. n -> Int]
  BY <1>3, <1>8
<1>10. Sums(U[n], n, step)
  BY <1>1, <1>7, <1>9, BuiltSums, Zenon
<1> QED BY <1>1, <1>2, <1>3, <1>10 DEF n, step

(* A level is the one of the entry in which its time unit falls.           *)
LevelsOf(rx, first, unit, f, n) ==
  /\ Len(BiphaseLevels(rx, first, unit)) = f[n + 1] /\ f[n + 1] \in Nat
  /\ \A k \in 1 .. n, t \in Int :
       f[k] < t /\ t <= f[k + 1]
         => t \in 1 .. f[n + 1] /\ BiphaseLevels(rx, first, unit)[t] = (first + k - 1) % 2

UnitSums(rx, first, unit, f, n) ==
  /\ Len(rx.ticks) \in Nat /\ first \in Nat /\ first <= Len(rx.ticks) + 1
  /\ n = Len(rx.ticks) - first + 1 /\ Sums(f, n, Intervals(rx, first, unit))

LEMMA LevelAt ==
  ASSUME NEW rx, NEW first, NEW unit, NEW f, NEW n, UnitSums(rx, first, unit, f, n)
  PROVE  LevelsOf(rx, first, unit, f, n)
<1> DEFINE step == Intervals(rx, first, unit)
           U == UnitsUpTo(rx, first, unit)
           entry(t) == CHOOSE k \in 1 .. (Len(U) - 1) : U[k] < t /\ t <= U[k + 1]
<1>1. /\ Len(rx.ticks) \in Nat /\ first \in Nat /\ first <= Len(rx.ticks) + 1
      /\ n = Len(rx.ticks) - first + 1 /\ Sums(f, n, step)
  BY Zenon DEF UnitSums
<1>2. n \in Nat /\ step \in [1 .. n -> Nat] /\ Sums(U, n, step)
  BY <1>1, UnitsSum
<1> HIDE DEF step, U
<1>3. /\ U \in Seq(Int) /\ Len(U) = n + 1 /\ U[1] = 0
      /\ f \in Seq(Int) /\ Len(f) = n + 1 /\ f[1] = 0
  BY <1>1, <1>2 DEF Sums
<1>4. \A k \in 1 .. n + 1 : U[k] = f[k]
  <2> DEFINE T == {d \in Nat : d + 1 <= n + 1 => U[d + 1] = f[d + 1]}
  <2>1. 0 \in T
    BY <1>3
  <2>2. ASSUME NEW d \in Nat, d \in T PROVE d + 1 \in T
    <3> SUFFICES ASSUME (d + 1) + 1 <= n + 1 PROVE U[(d + 1) + 1] = f[(d + 1) + 1]
      OBVIOUS
    <3>1. d + 1 \in 1 .. n /\ U[d + 1] = f[d + 1]
      BY <1>2, <2>2
    <3>2. U[(d + 1) + 1] = U[d + 1] + step[d + 1] /\ f[(d + 1) + 1] = f[d + 1] + step[d + 1]
      BY <1>1, <1>2, <3>1 DEF Sums
    <3> QED BY <3>1, <3>2
  <2> HIDE DEF T
  <2>3. \A d \in Nat : d \in T
    BY <2>1, <2>2, Climb
  <2> SUFFICES ASSUME NEW k \in 1 .. n + 1 PROVE U[k] = f[k]
    OBVIOUS
  <2>4. k - 1 \in Nat /\ (k - 1) + 1 = k
    BY <1>2
  <2>5. k - 1 \in T
    BY <2>3, <2>4
  <2> QED BY <2>4, <2>5 DEF T
<1>5. /\ U[1] = 0 /\ \A i \in 1 .. n + 1 : U[i] \in Int
      /\ \A i, j \in 1 .. n + 1 : i <= j => U[i] <= U[j]
  <2>1. ASSUME NEW i \in 1 .. n + 1, NEW j \in 1 .. n + 1, i <= j PROVE U[i] <= U[j]
    BY <1>2, <2>1, SumsGrow, Zenon
  <2>2. ASSUME NEW i \in 1 .. n + 1 PROVE U[i] \in Int
    BY <1>2, <1>3
  <2> QED BY <1>3, <2>1, <2>2, Zenon
<1>6. BiphaseLevels(rx, first, unit) = [t \in 1 .. Last(U) |-> (first + entry(t) - 1) % 2]
  BY Zenon DEF BiphaseLevels, LevelsFrom, U
<1>7. Last(U) = f[n + 1] /\ f[n + 1] \in Nat
  <2>1. Last(U) = U[n + 1] /\ n + 1 \in 1 .. n + 1 /\ 1 \in 1 .. n + 1 /\ 1 <= n + 1
    BY <1>2, <1>3 DEF Last
  <2>2. U[1] <= U[n + 1] /\ U[n + 1] \in Int /\ U[n + 1] = f[n + 1]
    BY <1>4, <1>5, <2>1
  <2> QED BY <1>5, <2>1, <2>2
<1>8. ASSUME NEW k \in 1 .. n, NEW t \in Int, f[k] < t, t <= f[k + 1]
      PROVE  t \in 1 .. f[n + 1] /\ BiphaseLevels(rx, first, unit)[t] = (first + k - 1) % 2
  <2>1. /\ k \in 1 .. n + 1 /\ k + 1 \in 1 .. n + 1 /\ 1 \in 1 .. n + 1 /\ n + 1 \in 1 .. n + 1
        /\ 1 <= k /\ k + 1 <= n + 1
    BY <1>2
  <2>2. U[k] < t /\ t <= U[k + 1]
    BY <1>4, <1>8, <2>1
  <2>3. /\ U[1] <= U[k] /\ U[k + 1] <= U[n + 1] /\ U[n + 1] = f[n + 1]
        /\ U[1] = 0 /\ U[k] \in Int /\ U[k + 1] \in Int /\ f[n + 1] \in Nat
    BY <1>4, <1>5, <1>7, <2>1
  <2>4. t \in 1 .. f[n + 1]
    BY <2>2, <2>3
  <2>5. entry(t) = k
    <3>1. Len(U) - 1 = n
      BY <1>2, <1>3
    <3>2. \A j \in 1 .. n : U[j] < t /\ t <= U[j + 1] => j = k
      BY <1>2, <2>2, OnePlace, Zenon
    <3> QED BY <2>2, <3>1, <3>2, Zenon
  <2> HIDE DEF entry
  <2> QED BY <1>6, <1>7, <2>4, <2>5
<1> HIDE DEF entry
<1>9. Len(BiphaseLevels(rx, first, unit)) = f[n + 1]
  BY <1>6, <1>7
<1> QED BY <1>7, <1>8, <1>9, Zenon DEF LevelsOf

----------------------------------------------------------------------------
(* The runs of equal levels, and the time units up to the end of each.     *)

LEMMA Segment ==
  ASSUME NEW n \in Nat, NEW S, S \subseteq 1 .. n, \A i \in S : \A j \in 1 .. i : j \in S
  PROVE  Cardinality(S) \in 0 .. n /\ S = 1 .. Cardinality(S)
<1> DEFINE Out == {i \in Nat : i >= 1 /\ i \notin S}
<1>1. n + 1 \in Out
  OBVIOUS
<1>2. PICK m \in Out : \A j \in Out : m <= j
  BY <1>1, Least, Out \subseteq Nat, Zenon
<1>3. m \in Nat /\ m >= 1 /\ m <= n + 1 /\ m \notin S
  BY <1>1, <1>2
<1>4. ASSUME NEW j \in S PROVE j \in 1 .. m - 1
  <2>1. j \in 1 .. n /\ (m <= j => m \in 1 .. j)
    BY <1>3
  <2>2. m \notin 1 .. j
    BY <1>3
  <2> QED BY <1>3, <2>1, <2>2
<1>5. ASSUME NEW j \in 1 .. m - 1 PROVE j \in S
  <2>1. j \in Nat /\ j >= 1 /\ ~(m <= j)
    BY <1>3
  <2>2. j \notin Out
    BY <1>2, <2>1
  <2> QED BY <2>1, <2>2
<1>6. S = 1 .. m - 1
  BY <1>4, <1>5, Zenon
<1>7. Cardinality(1 .. m - 1) = m - 1
  <2>1. m - 1 \in Int /\ 1 \in Int
    BY <1>3
  <2>2. Cardinality(1 .. m - 1) = IF 1 > m - 1 THEN 0 ELSE m - 1 - 1 + 1
    BY <2>1, FS_Interval, Zenon
  <2> QED BY <1>3, <2>2
<1> QED BY <1>3, <1>6, <1>7

LEMMA RunSteps ==
  ASSUME NEW n \in Nat, n >= 1, NEW levels \in [1 .. n -> Bit]
  PROVE  /\ Run(levels, 1) = 1 /\ Run(levels, n) = Cardinality(Starts(levels))
         /\ \A i \in 1 .. n : Run(levels, i) \in Nat
         /\ \A i \in 1 .. n, j \in 1 .. n : i <= j => Run(levels, i) <= Run(levels, j)
         /\ \A i \in 1 .. n - 1 :
              Run(levels, i + 1) = Run(levels, i) + (IF levels[i + 1] # levels[i] THEN 1 ELSE 0)
<1> DEFINE starts == Starts(levels)
           upTo(i) == {j \in starts : j <= i}
<1>1. /\ starts \subseteq 1 .. n /\ 1 \in starts
      /\ \A i \in 1 .. n : i \in starts <=> i = 1 \/ levels[i] # levels[i - 1]
  BY DEF Starts
<1>2. \A i : Run(levels, i) = Cardinality(upTo(i))
  BY Zenon DEF Run
<1> HIDE DEF starts
<1>3. IsFiniteSet(1 .. n)
  BY FS_Interval
<1>4. \A i : IsFiniteSet(upTo(i)) /\ Cardinality(upTo(i)) \in Nat
  <2> SUFFICES ASSUME NEW i PROVE IsFiniteSet(upTo(i)) /\ Cardinality(upTo(i)) \in Nat
    BY Zenon
  <2>1. upTo(i) \in SUBSET (1 .. n)
    BY <1>1
  <2>2. IsFiniteSet(upTo(i))
    BY <1>3, <2>1, FS_Subset, Zenon
  <2> QED BY <2>2, FS_CardinalityType, Zenon
<1>5. Run(levels, 1) = 1
  <2>1. starts \subseteq 1 .. n /\ 1 \in starts /\ \A j \in 1 .. n : j <= 1 <=> j = 1
    BY <1>1
  <2>2. upTo(1) = {1}
    BY <2>1, Zenon
  <2> QED BY <1>2, <2>2, FS_Singleton
<1>6. Run(levels, n) = Cardinality(starts)
  <2>1. starts \subseteq 1 .. n /\ \A j \in 1 .. n : j <= n
    BY <1>1
  <2>2. upTo(n) = starts
    BY <2>1, Zenon
  <2> QED BY <1>2, <2>2
<1>7. ASSUME NEW i \in 1 .. n, NEW j \in 1 .. n, i <= j PROVE Run(levels, i) <= Run(levels, j)
  <2>1. \A x \in 1 .. n : x <= i => x <= j
    BY <1>7
  <2>2. upTo(i) \in SUBSET upTo(j)
    BY <1>1, <2>1
  <2> HIDE DEF upTo
  <2>3. Cardinality(upTo(i)) <= Cardinality(upTo(j))
    BY <1>4, <2>2, FS_Subset
  <2> QED BY <1>2, <2>3
<1>8. ASSUME NEW i \in 1 .. n - 1
      PROVE  Run(levels, i + 1) = Run(levels, i) + (IF levels[i + 1] # levels[i] THEN 1 ELSE 0)
  <2>1. i + 1 \in 1 .. n /\ i + 1 # 1 /\ (i + 1) - 1 = i
    BY <1>8
  <2>2. i + 1 \in starts <=> levels[i + 1] # levels[i]
    BY <1>1, <2>1
  <2>3. \A x \in 1 .. n : x <= i + 1 <=> x <= i \/ x = i + 1
    BY <1>8
  <2>4. i + 1 \notin upTo(i)
    BY <1>8
  <2>5. CASE levels[i + 1] # levels[i]
    <3>1. upTo(i + 1) = upTo(i) \union {i + 1}
      BY <1>1, <2>1, <2>2, <2>3, <2>5
    <3> HIDE DEF upTo
    <3>2. Cardinality(upTo(i + 1)) = Cardinality(upTo(i)) + 1
      BY <1>4, <2>4, <3>1, FS_AddElement
    <3> QED BY <1>2, <2>5, <3>2
  <2>6. CASE levels[i + 1] = levels[i]
    <3>1. upTo(i + 1) = upTo(i)
      BY <1>1, <2>1, <2>2, <2>3, <2>6
    <3> HIDE DEF upTo
    <3>2. Cardinality(upTo(i)) \in Nat
      BY <1>4
    <3> QED BY <1>2, <2>6, <3>1, <3>2
  <2> QED BY <2>5, <2>6, Zenon
<1>9. \A i \in 1 .. n : Run(levels, i) \in Nat
  <2> HIDE DEF upTo
  <2> QED BY <1>2, <1>4
<1> QED BY <1>5, <1>6, <1>7, <1>8, <1>9, Zenon DEF starts

(* The end of run k.                                                       *)
End(levels, k) == Cardinality({i \in DOMAIN levels : Run(levels, i) <= k})

EndsOf(levels, n, r) ==
  /\ r \in 1 .. n
  /\ \A k \in 0 .. r : End(levels, k) \in 0 .. n
  /\ End(levels, 0) = 0 /\ End(levels, r) = n
  /\ \A k \in 1 .. r :
       /\ End(levels, k - 1) < End(levels, k)
       /\ Cardinality({i \in DOMAIN levels : Run(levels, i) = k})
            = End(levels, k) - End(levels, k - 1)
       /\ \A t \in 1 .. n : Run(levels, t) = k
                              <=> End(levels, k - 1) < t /\ t <= End(levels, k)
  /\ \A t \in 1 .. n : Run(levels, t) \in 1 .. r /\ levels[t] = Run(levels, t) % 2

LEMMA RunEnds ==
  ASSUME NEW n \in Nat, n >= 1, NEW levels \in [1 .. n -> Bit], levels[1] = 1,
         NEW r, r = Cardinality(Starts(levels))
  PROVE  EndsOf(levels, n, r)
<1> DEFINE run(i) == Run(levels, i)
           low(k) == {i \in DOMAIN levels : run(i) <= k}
           end(k) == End(levels, k)
<1> HIDE DEF run
<1>1. /\ run(1) = 1 /\ run(n) = r /\ \A i \in 1 .. n : run(i) \in Nat
      /\ \A i \in 1 .. n, j \in 1 .. n : i <= j => run(i) <= run(j)
      /\ \A i \in 1 .. n - 1 :
           run(i + 1) = run(i) + (IF levels[i + 1] # levels[i] THEN 1 ELSE 0)
  BY RunSteps DEF run
<1>2. \A t \in 1 .. n : run(t) \in 1 .. r
  <2> SUFFICES ASSUME NEW t \in 1 .. n PROVE run(t) \in 1 .. r
    OBVIOUS
  <2>1. 1 \in 1 .. n /\ n \in 1 .. n /\ 1 <= t /\ t <= n
    OBVIOUS
  <2> QED BY <1>1, <2>1
<1>3. ASSUME NEW k \in 0 .. r PROVE end(k) \in 0 .. n /\ low(k) = 1 .. end(k)
  <2>1. low(k) \subseteq 1 .. n
    OBVIOUS
  <2>2. ASSUME NEW i \in low(k), NEW j \in 1 .. i PROVE j \in low(k)
    <3>1. i \in 1 .. n /\ run(i) <= k /\ j \in 1 .. n /\ j <= i
      OBVIOUS
    <3>2. run(j) <= run(i) /\ run(j) \in Nat /\ run(i) \in Nat
      BY <1>1, <3>1
    <3>3. r \in Nat
      BY <1>1
    <3> QED BY <3>1, <3>2, <3>3
  <2>3. end(k) = Cardinality(low(k))
    BY DEF End, run
  <2> HIDE DEF low, end
  <2> QED BY <2>1, <2>2, <2>3, Segment, Zenon
<1>4. \A k \in 0 .. r, t \in 1 .. n : run(t) <= k <=> t <= end(k)
  <2> SUFFICES ASSUME NEW k \in 0 .. r, NEW t \in 1 .. n PROVE run(t) <= k <=> t <= end(k)
    OBVIOUS
  <2>1. run(t) <= k <=> t \in low(k)
    OBVIOUS
  <2>2. low(k) = 1 .. end(k) /\ end(k) \in 0 .. n
    BY <1>3
  <2> HIDE DEF low, end
  <2> QED BY <2>1, <2>2
<1>5. r \in 1 .. n
  <2> DEFINE T == {d \in Nat : d + 1 <= n => run(d + 1) <= d + 1}
  <2>1. 0 \in T
    BY <1>1
  <2>2. ASSUME NEW d \in Nat, d \in T PROVE d + 1 \in T
    <3> SUFFICES ASSUME (d + 1) + 1 <= n PROVE run((d + 1) + 1) <= (d + 1) + 1
      OBVIOUS
    <3> DEFINE i == d + 1
    <3>1. i \in 1 .. n - 1 /\ i \in 1 .. n /\ i + 1 \in 1 .. n /\ run(i) <= i
      BY <2>2
    <3> HIDE DEF i
    <3>2. run(i + 1) <= run(i) + 1 /\ run(i) \in Nat
      BY <1>1, <3>1, SMTT(30)
    <3>3. run(i + 1) \in Nat
      BY <1>1, <3>1
    <3> QED BY <3>1, <3>2, <3>3 DEF i
  <2> HIDE DEF T
  <2>3. n - 1 \in T
    BY <2>1, <2>2, Climb
  <2>4. run(n) <= n
    BY <2>3 DEF T
  <2>5. n \in 1 .. n
    OBVIOUS
  <2> QED BY <1>1, <1>2, <2>4, <2>5
<1>6. end(0) = 0
  <2>1. end(0) \in 0 .. n
    BY <1>3, <1>5
  <2>2. end(0) # 0 => 1 \in 1 .. n /\ 1 <= end(0)
    BY <2>1
  <2>3. 0 \in 0 .. r /\ ~(run(1) <= 0)
    BY <1>1, <1>5
  <2> HIDE DEF end
  <2> QED BY <1>4, <2>2, <2>3
<1>7. end(r) = n
  <2>1. end(r) \in 0 .. n /\ r \in 0 .. r /\ n \in 1 .. n /\ run(n) <= r
    BY <1>1, <1>3, <1>5
  <2>2. n <= end(r)
    BY <1>4, <2>1
  <2> HIDE DEF end
  <2> QED BY <2>1, <2>2
<1>8. ASSUME NEW k \in 1 .. r
      PROVE  \A t \in 1 .. n : run(t) = k <=> end(k - 1) < t /\ t <= end(k)
  <2> SUFFICES ASSUME NEW t \in 1 .. n PROVE run(t) = k <=> end(k - 1) < t /\ t <= end(k)
    OBVIOUS
  <2>1. k - 1 \in 0 .. r /\ k \in 0 .. r
    BY <1>5
  <2>2. run(t) \in Nat /\ end(k - 1) \in Int /\ end(k) \in Int
    BY <1>1, <1>3, <2>1
  <2>3. (run(t) <= k <=> t <= end(k)) /\ (run(t) <= k - 1 <=> t <= end(k - 1))
    BY <1>4, <2>1
  <2> HIDE DEF end
  <2> QED BY <2>2, <2>3
<1>9. ASSUME NEW k \in 1 .. r PROVE end(k - 1) < end(k)
  <2>1. k - 1 \in 0 .. r /\ k \in 0 .. r /\ n \in 1 .. n
    BY <1>5
  <2>2. /\ end(k - 1) \in 0 .. n /\ end(k) \in 0 .. n
        /\ \A t \in 1 .. n : run(t) <= k - 1 <=> t <= end(k - 1)
        /\ \A t \in 1 .. n : run(t) <= k <=> t <= end(k)
    BY <1>3, <1>4, <2>1
  <2> HIDE DEF end
  <2>3. end(k - 1) # n
    <3>1. ~(run(n) <= k - 1)
      BY <1>1, <1>5
    <3> QED BY <2>1, <2>2, <3>1
  <2> DEFINE e == end(k - 1)
  <2>4. e + 1 \in 1 .. n /\ e \in 0 .. n - 1
    BY <2>2, <2>3
  <2>5. run(e + 1) <= k
    <3>1. CASE e = 0
      <4>1. run(e + 1) = 1
        BY <1>1, <3>1
      <4> QED BY <4>1
    <3>2. CASE e # 0
      <4>1. e \in 1 .. n - 1 /\ e \in 1 .. n
        BY <2>4, <3>2
      <4>2. run(e + 1) <= run(e) + 1 /\ run(e) \in Nat
        BY <1>1, <4>1, SMTT(30)
      <4>3. run(e) <= k - 1
        BY <2>2, <4>1
      <4>4. run(e + 1) \in Nat
        BY <1>1, <2>4
      <4> HIDE DEF e
      <4> QED BY <4>2, <4>3, <4>4
    <3> QED BY <3>1, <3>2
  <2>6. e + 1 <= end(k)
    BY <2>2, <2>4, <2>5
  <2> QED BY <2>2, <2>6
<1>10. ASSUME NEW k \in 1 .. r
       PROVE  Cardinality({i \in DOMAIN levels : run(i) = k}) = end(k) - end(k - 1)
  <2>1. end(k - 1) \in 0 .. n /\ end(k) \in 0 .. n /\ end(k - 1) < end(k)
    BY <1>3, <1>5, <1>9
  <2>2. {i \in DOMAIN levels : run(i) = k} = (end(k - 1) + 1) .. end(k)
    <3>1. {i \in DOMAIN levels : run(i) = k} = {i \in 1 .. n : end(k - 1) < i /\ i <= end(k)}
      <4>1. DOMAIN levels = 1 .. n
        OBVIOUS
      <4> HIDE DEF end
      <4> QED BY <1>8, <4>1
    <3> HIDE DEF end
    <3> QED BY <2>1, <3>1
  <2> DEFINE a == end(k - 1)
             b == end(k)
  <2> HIDE DEF end, a, b
  <2>3. a \in Int /\ a + 1 \in Int /\ b \in Int /\ a < b
    BY <2>1 DEF a, b
  <2>4. Cardinality((a + 1) .. b) = IF a + 1 > b THEN 0 ELSE b - (a + 1) + 1
    BY <2>3, FS_Interval, Zenon
  <2>5. Cardinality((a + 1) .. b) = b - a
    BY <2>3, <2>4
  <2> QED BY <2>2, <2>5, Zenon DEF a, b
<1>11. ASSUME NEW t \in 1 .. n PROVE levels[t] = run(t) % 2
  <2> DEFINE T == {d \in Nat : d + 1 <= n => levels[d + 1] = run(d + 1) % 2}
  <2>1. 0 \in T
    BY <1>1
  <2>2. ASSUME NEW d \in Nat, d \in T PROVE d + 1 \in T
    <3> SUFFICES ASSUME (d + 1) + 1 <= n PROVE levels[(d + 1) + 1] = run((d + 1) + 1) % 2
      OBVIOUS
    <3> DEFINE i == d + 1
    <3>1. i \in 1 .. n - 1 /\ i \in 1 .. n /\ i + 1 \in 1 .. n /\ levels[i] = run(i) % 2
      BY <2>2
    <3> HIDE DEF i
    <3>2. run(i + 1) = run(i) + (IF levels[i + 1] # levels[i] THEN 1 ELSE 0) /\ run(i) \in Nat
      BY <1>1, <3>1
    <3>3. levels[i] \in {0, 1} /\ levels[i + 1] \in {0, 1}
      BY <3>1 DEF Bit
    <3>4. CASE levels[i + 1] = levels[i]
      BY <3>1, <3>2, <3>4 DEF i
    <3>5. CASE levels[i + 1] # levels[i]
      <4>1. run(i + 1) = run(i) + 1
        BY <3>2, <3>5
      <4>2. levels[i + 1] = (run(i) + 1) % 2
        BY <3>1, <3>2, <3>3, <3>5
      <4> QED BY <4>1, <4>2 DEF i
    <3> QED BY <3>4, <3>5
  <2> HIDE DEF T
  <2>3. t - 1 \in T
    BY <2>1, <2>2, Climb
  <2>4. t - 1 \in Nat /\ (t - 1) + 1 = t /\ t <= n
    OBVIOUS
  <2> QED BY <2>3, <2>4 DEF T
<1>12. \A k \in 0 .. r : end(k) \in 0 .. n
  BY <1>3
<1> HIDE DEF end
<1>13. /\ \A k \in 1 .. r :
           /\ end(k - 1) < end(k)
           /\ Cardinality({i \in DOMAIN levels : run(i) = k}) = end(k) - end(k - 1)
           /\ \A t \in 1 .. n : run(t) = k <=> end(k - 1) < t /\ t <= end(k)
       /\ \A t \in 1 .. n : run(t) \in 1 .. r /\ levels[t] = run(t) % 2
  BY <1>2, <1>8, <1>9, <1>10, <1>11, Zenon
<1> QED BY <1>5, <1>6, <1>7, <1>12, <1>13, Zenon DEF run, end, EndsOf

(* The least number of time units that fits an entry.                      *)
LEMMA IntervalFits ==
  ASSUME NEW rx, NEW i, NEW unit, NEW m \in 1 .. 3,
         matchTicks(rx.ticks[i], m * unit + (IF i % 2 = 1 THEN 20 ELSE -20)),
         \A n \in 1 .. 3 :
           n < m => ~matchTicks(rx.ticks[i], n * unit + (IF i % 2 = 1 THEN 20 ELSE -20))
  PROVE  TimingIntervals(rx, i, unit) = m
<1> DEFINE t == rx.ticks[i]
           us(n) == n * unit + (IF i % 2 = 1 THEN 20 ELSE -20)
           fits == {n \in 1 .. 3 : matchTicks(t, us(n))}
<1>1. TimingIntervals(rx, i, unit)
        = IF fits = {} THEN 0 ELSE CHOOSE n \in fits : \A k \in fits : n <= k
  BY Zenon DEF TimingIntervals, MARK_EXCESS_MICROS
<1>2. matchTicks(t, us(m)) /\ \A n \in 1 .. 3 : n < m => ~matchTicks(t, us(n))
  OBVIOUS
<1> HIDE DEF t, us
<1>3. fits \subseteq Nat /\ m \in fits /\ \A n \in fits : m <= n
  BY <1>2
<1> HIDE DEF fits
<1> DEFINE least(n) == \A k \in fits : n <= k
<1>4. least(m)
  BY <1>3, Zenon
<1>5. ASSUME NEW n \in fits, least(n) PROVE n = m
  <2>1. n \in Nat /\ m \in Nat /\ m <= n /\ n <= m
    BY <1>3, <1>5, Zenon
  <2> QED BY <2>1
<1>6. TimingIntervals(rx, i, unit) = CHOOSE n \in fits : least(n)
  <2>1. fits # {}
    BY <1>3
  <2> QED BY <1>1, <2>1, Zenon
<1> HIDE DEF least
<1> QED BY <1>3, <1>4, <1>6, <1>5

(* A duration of up to three time units is told from the other ones.       *)
LEMMA IntervalOf ==
  ASSUME NEW rx, NEW i \in Nat, NEW unit \in {RC5_UNIT, RC6_UNIT}, NEW m \in 1 .. 3,
         \/ i % 2 = 1 /\ MarkTicks(m * unit, rx.ticks[i])
         \/ i % 2 # 1 /\ SpaceTicks(m * unit, rx.ticks[i])
  PROVE  TimingIntervals(rx, i, unit) = m
<1> DEFINE t == rx.ticks[i]
           us(n) == n * unit + (IF i % 2 = 1 THEN 20 ELSE -20)
<1>1. /\ \/ i % 2 = 1 /\ MarkTicks(m * unit, t)
         \/ i % 2 # 1 /\ SpaceTicks(m * unit, t)
      /\ unit = 889 \/ unit = 444
  BY DEF RC5_UNIT, RC6_UNIT
<1> HIDE DEF t
<1>2. matchTicks(t, us(m)) /\ \A n \in 1 .. 3 : n < m => ~matchTicks(t, us(n))
  <2> DEFINE u1 == us(1)
             u2 == us(2)
             u3 == us(3)
  <2>1. /\ m = 1 => us(m) = u1
        /\ m = 2 => us(m) = u2
        /\ m = 3 => us(m) = u3
    BY Zenon
  <2>2. CASE unit = 889 /\ i % 2 = 1
    <3>1. u1 = 909 /\ u2 = 1798 /\ u3 = 2687 /\ MarkTicks(m * 889, t)
      BY <1>1, <2>2
    <3> HIDE DEF us, u1, u2, u3
    <3>2. CASE m = 1
      BY <2>1, <3>1, <3>2 DEF matchTicks, TICKS_LOW, TICKS_HIGH, MarkTicks
    <3>3. CASE m = 2
      BY <2>1, <3>1, <3>3 DEF matchTicks, TICKS_LOW, TICKS_HIGH, MarkTicks, u1
    <3>4. CASE m = 3
      BY <2>1, <3>1, <3>4 DEF matchTicks, TICKS_LOW, TICKS_HIGH, MarkTicks, u1, u2
    <3> QED BY <3>2, <3>3, <3>4
  <2>3. CASE unit = 889 /\ i % 2 # 1
    <3>1. u1 = 869 /\ u2 = 1758 /\ u3 = 2647 /\ SpaceTicks(m * 889, t)
      BY <1>1, <2>3
    <3> HIDE DEF us, u1, u2, u3
    <3>2. CASE m = 1
      BY <2>1, <3>1, <3>2 DEF matchTicks, TICKS_LOW, TICKS_HIGH, SpaceTicks
    <3>3. CASE m = 2
      BY <2>1, <3>1, <3>3 DEF matchTicks, TICKS_LOW, TICKS_HIGH, SpaceTicks, u1
    <3>4. CASE m = 3
      BY <2>1, <3>1, <3>4 DEF matchTicks, TICKS_LOW, TICKS_HIGH, SpaceTicks, u1, u2
    <3> QED BY <3>2, <3>3, <3>4
  <2>4. CASE unit = 444 /\ i % 2 = 1
    <3>1. u1 = 464 /\ u2 = 908 /\ u3 = 1352 /\ MarkTicks(m * 444, t)
      BY <1>1, <2>4
    <3> HIDE DEF us, u1, u2, u3
    <3>2. CASE m = 1
      BY <2>1, <3>1, <3>2 DEF matchTicks, TICKS_LOW, TICKS_HIGH, MarkTicks
    <3>3. CASE m = 2
      BY <2>1, <3>1, <3>3 DEF matchTicks, TICKS_LOW, TICKS_HIGH, MarkTicks, u1
    <3>4. CASE m = 3
      BY <2>1, <3>1, <3>4 DEF matchTicks, TICKS_LOW, TICKS_HIGH, MarkTicks, u1, u2
    <3> QED BY <3>2, <3>3, <3>4
  <2>5. CASE unit = 444 /\ i % 2 # 1
    <3>1. u1 = 424 /\ u2 = 868 /\ u3 = 1312 /\ SpaceTicks(m * 444, t)
      BY <1>1, <2>5
    <3> HIDE DEF us, u1, u2, u3
    <3>2. CASE m = 1
      BY <2>1, <3>1, <3>2 DEF matchTicks, TICKS_LOW, TICKS_HIGH, SpaceTicks
    <3>3. CASE m = 2
      BY <2>1, <3>1, <3>3 DEF matchTicks, TICKS_LOW, TICKS_HIGH, SpaceTicks, u1
    <3>4. CASE m = 3
      BY <2>1, <3>1, <3>4 DEF matchTicks, TICKS_LOW, TICKS_HIGH, SpaceTicks, u1, u2
    <3> QED BY <3>2, <3>3, <3>4
  <2> QED BY <1>1, <2>2, <2>3, <2>4, <2>5
<1> QED BY <1>2, IntervalFits, Zenon DEF t

(* The levels of n time units as r runs, of which run k ends at end[k].    *)
RunsOf(levels, n, r, end) ==
  /\ n \in Nat /\ r \in 1 .. n /\ levels \in [1 .. n -> Bit]
  /\ end \in [0 .. r -> 0 .. n] /\ end[0] = 0 /\ end[r] = n
  /\ \A k \in 1 .. r : end[k - 1] < end[k]
  /\ \A t \in 1 .. n : \E k \in 1 .. r : end[k - 1] < t /\ t <= end[k]
  /\ \A t \in 1 .. n, k \in 1 .. r : end[k - 1] < t /\ t <= end[k] => levels[t] = k % 2

LastMark(r) == IF r % 2 = 0 THEN r - 1 ELSE r

(* The frame of these runs.                                                *)
CodedRuns(f, r, end, unit) ==
  /\ f \in Seq(Nat) /\ Len(f) = LastMark(r)
  /\ \A k \in 1 .. Len(f) : f[k] = unit * (end[k] - end[k - 1])

LEMMA DurationsAreRuns ==
  ASSUME NEW n \in Nat, n >= 1, NEW levels \in [1 .. n -> Bit], levels[1] = 1, NEW unit \in Nat
  PROVE  \E r, end : RunsOf(levels, n, r, end) /\ CodedRuns(Durations(levels, unit), r, end, unit)
<1> DEFINE r == Cardinality(Starts(levels))
           end == [k \in 0 .. r |-> End(levels, k)]
           of(k) == {i \in DOMAIN levels : Run(levels, i) = k}
           size(k) == unit * Cardinality(of(k))
           all == [k \in 1 .. r |-> size(k)]
<1>1. EndsOf(levels, n, r)
  BY RunEnds
<1>2. Durations(levels, unit) = UptoLastMark(all)
  BY Zenon DEF Durations
<1> HIDE DEF r, of
<1>3. /\ r \in 1 .. n /\ End(levels, 0) = 0 /\ End(levels, r) = n
      /\ \A k \in 0 .. r : End(levels, k) \in 0 .. n
  BY <1>1, Zenon DEF EndsOf
<1>4. \A k \in 1 .. r :
        /\ End(levels, k - 1) < End(levels, k)
        /\ Cardinality(of(k)) = End(levels, k) - End(levels, k - 1)
        /\ \A t \in 1 .. n : Run(levels, t) = k
                                <=> End(levels, k - 1) < t /\ t <= End(levels, k)
  BY <1>1, Zenon DEF EndsOf, of
<1>5. \A t \in 1 .. n : Run(levels, t) \in 1 .. r /\ levels[t] = Run(levels, t) % 2
  BY <1>1, Zenon DEF EndsOf
<1>6. \A k \in 1 .. r : k \in 0 .. r /\ k - 1 \in 0 .. r
  BY <1>3
<1>7. \A k \in 0 .. r : end[k] = End(levels, k)
  OBVIOUS
<1>8. end \in [0 .. r -> 0 .. n]
  BY <1>3
<1> HIDE DEF end
<1>9. ASSUME NEW k \in 1 .. r
      PROVE  /\ end[k - 1] < end[k] /\ Cardinality(of(k)) = end[k] - end[k - 1]
             /\ \A t \in 1 .. n : Run(levels, t) = k <=> end[k - 1] < t /\ t <= end[k]
  <2>1. end[k - 1] = End(levels, k - 1) /\ end[k] = End(levels, k)
    BY <1>6, <1>7
  <2> QED BY <1>4, <2>1
<1>10. RunsOf(levels, n, r, end)
  <2>1. end[0] = 0 /\ end[r] = n
    <3>1. 0 \in 0 .. r /\ r \in 0 .. r
      BY <1>3
    <3> QED BY <1>3, <1>7, <3>1
  <2>2. ASSUME NEW t \in 1 .. n
        PROVE  /\ \E k \in 1 .. r : end[k - 1] < t /\ t <= end[k]
               /\ \A k \in 1 .. r : end[k - 1] < t /\ t <= end[k] => levels[t] = k % 2
    <3>1. Run(levels, t) \in 1 .. r /\ levels[t] = Run(levels, t) % 2
      BY <1>5
    <3>2. \A k \in 1 .. r : Run(levels, t) = k <=> end[k - 1] < t /\ t <= end[k]
      BY <1>9
    <3>3. \E k \in 1 .. r : end[k - 1] < t /\ t <= end[k]
      BY <3>1, <3>2
    <3>4. \A k \in 1 .. r : end[k - 1] < t /\ t <= end[k] => levels[t] = k % 2
      BY <3>1, <3>2
    <3> QED BY <3>3, <3>4, Zenon
  <2>3. \A k \in 1 .. r : end[k - 1] < end[k]
    BY <1>9
  <2>4. r \in 1 .. n
    BY <1>3
  <2> QED BY <1>8, <2>1, <2>2, <2>3, <2>4, Zenon DEF RunsOf
<1>11. ASSUME NEW k \in 1 .. r
       PROVE  size(k) = unit * (end[k] - end[k - 1]) /\ size(k) \in Nat
  <2> DEFINE d == end[k] - end[k - 1]
  <2>1. d \in Nat
    <3>1. end[k] \in 0 .. n /\ end[k - 1] \in 0 .. n /\ end[k - 1] < end[k]
      BY <1>6, <1>8, <1>9
    <3> QED BY <3>1
  <2>2. Cardinality(of(k)) = d
    BY <1>9
  <2> HIDE DEF d
  <2>3. unit * d \in Nat
    BY <2>1
  <2> QED BY <2>2, <2>3 DEF d
<1> HIDE DEF size
<1>12. /\ all \in Seq(Nat) /\ Len(all) = r /\ r \in Nat /\ r >= 1
       /\ \A k \in 1 .. r : all[k] = size(k)
  <2>1. \A k \in 1 .. r : size(k) \in Nat
    BY <1>11
  <2>2. r \in Nat /\ r >= 1
    BY <1>3
  <2> QED BY <2>1, <2>2
<1> HIDE DEF all
<1> DEFINE f == UptoLastMark(all)
<1>13. /\ f \in Seq(Nat) /\ Len(f) = LastMark(r)
       /\ \A k \in 1 .. Len(f) : k \in 1 .. r /\ f[k] = all[k]
  <2>1. CASE r % 2 = 0
    <3>1. f = SubSeq(all, 1, r - 1)
      <4>1. all # <<>>
        BY <1>12
      <4> QED BY <1>12, <2>1, <4>1 DEF UptoLastMark, Front
    <3> HIDE DEF f
    <3>2. f \in Seq(Nat) /\ Len(f) = r - 1 /\ \A k \in 1 .. r - 1 : f[k] = all[k]
      BY <1>12, <3>1
    <3> QED BY <1>12, <2>1, <3>2 DEF LastMark
  <2>2. CASE r % 2 # 0
    <3>1. f = all
      BY <1>12, <2>2 DEF UptoLastMark
    <3> HIDE DEF f
    <3> QED BY <1>12, <2>2, <3>1 DEF LastMark
  <2> QED BY <2>1, <2>2
<1>14. CodedRuns(f, r, end, unit)
  <2> HIDE DEF f
  <2>1. \A k \in 1 .. Len(f) : f[k] = unit * (end[k] - end[k - 1])
    BY <1>11, <1>12, <1>13
  <2> QED BY <1>13, <2>1, Zenon DEF CodedRuns
<1> QED BY <1>2, <1>10, <1>14, Zenon

(* The runs from one on are short enough to be told apart.                 *)
ShortRuns(r, end, first) == \A k \in first .. r : end[k] - end[k - 1] <= 3

(* What is received for a sequence of levels has the same levels, from the *)
(* run on at which the decoder starts.                                     *)
LEMMA LevelsRead ==
  ASSUME NEW levels, NEW n, NEW r, NEW end, RunsOf(levels, n, r, end),
         NEW f, NEW unit \in {RC5_UNIT, RC6_UNIT}, CodedRuns(f, r, end, unit),
         NEW first \in {1, 3}, first <= r, ShortRuns(r, end, first),
         NEW rx, Sampled(f, rx.ticks)
  PROVE  LET b == end[first - 1]
             seen == BiphaseLevels(rx, first, unit)
         IN  /\ BiphaseInTime(rx, first, unit)
             /\ Len(rx.ticks) = LastMark(r)
             /\ Len(seen) = end[LastMark(r)] - b /\ Len(seen) \in 0 .. n - b
             /\ \A t \in 1 .. n - b : Level(seen, t) = levels[b + t]
<1> DEFINE b == end[first - 1]
           seen == BiphaseLevels(rx, first, unit)
           last == LastMark(r)
           ticks == rx.ticks
<1>1. n \in Nat /\ r \in 1 .. n /\ r \in Nat /\ first \in Nat /\ 1 <= first
  <2>1. n \in Nat /\ r \in 1 .. n
    BY Zenon DEF RunsOf
  <2> QED BY <2>1
<1>2. \A k \in 0 .. r : end[k] \in Int /\ 0 <= end[k] /\ end[k] <= n
  <2>1. end \in [0 .. r -> 0 .. n]
    BY Zenon DEF RunsOf
  <2> QED BY <1>1, <2>1
<1>3. \A k \in 1 .. r : end[k - 1] < end[k]
  BY Zenon DEF RunsOf
<1>4. \A t \in 1 .. n : \E k \in 1 .. r : end[k - 1] < t /\ t <= end[k] /\ levels[t] = k % 2
  <2>1. /\ \A t \in 1 .. n : \E k \in 1 .. r : end[k - 1] < t /\ t <= end[k]
        /\ \A t \in 1 .. n, k \in 1 .. r : end[k - 1] < t /\ t <= end[k] => levels[t] = k % 2
    BY Zenon DEF RunsOf
  <2> QED BY <2>1, Zenon
<1>5. first = 1 \/ first = 3
  OBVIOUS
<1>6. /\ last \in Nat /\ first <= last /\ last <= r /\ last % 2 = 1
      /\ r = last \/ (r = last + 1 /\ r % 2 = 0)
  BY <1>1, <1>5 DEF LastMark
<1> HIDE DEF last
<1>7. b \in Int /\ 0 <= b /\ b <= n
  <2>1. first - 1 \in 0 .. r
    BY <1>1
  <2> QED BY <1>2, <2>1
<1>8. /\ Len(ticks) = last
      /\ \A i \in 1 .. last : /\ i % 2 = 1 => MarkTicks(f[i], ticks[i])
                              /\ i % 2 # 1 => SpaceTicks(f[i], ticks[i])
  BY DEF Sampled, CodedRuns, last
<1>9. \A i \in 1 .. last : f[i] = unit * (end[i] - end[i - 1])
  BY DEF CodedRuns, last
<1>10. \A k \in first .. r : end[k] - end[k - 1] <= 3
  BY DEF ShortRuns
<1>11. ASSUME NEW i \in first .. last
       PROVE  TimingIntervals(rx, i, unit) = end[i] - end[i - 1] /\ end[i] - end[i - 1] \in 1 .. 3
  <2> DEFINE m == end[i] - end[i - 1]
  <2>1. /\ i \in 1 .. last /\ i \in first .. r /\ i \in Nat /\ i \in 1 .. r
        /\ i \in 0 .. r /\ i - 1 \in 0 .. r
    BY <1>1, <1>6
  <2>2. m \in 1 .. 3
    <3>1. end[i] \in Int /\ end[i - 1] \in Int /\ end[i - 1] < end[i]
      BY <1>2, <1>3, <2>1
    <3>2. end[i] - end[i - 1] <= 3
      BY <1>10, <2>1
    <3> QED BY <3>1, <3>2
  <2>3. \/ i % 2 = 1 /\ MarkTicks(f[i], ticks[i])
        \/ i % 2 # 1 /\ SpaceTicks(f[i], ticks[i])
    BY <1>8, <2>1
  <2>4. f[i] = m * unit
    <3>1. f[i] = unit * m
      BY <1>9, <2>1
    <3> HIDE DEF m
    <3>2. unit \in Nat
      BY DEF RC5_UNIT, RC6_UNIT
    <3> QED BY <2>2, <3>1, <3>2
  <2> HIDE DEF m
  <2>5. TimingIntervals(rx, i, unit) = m
    <3>1. \/ i % 2 = 1 /\ MarkTicks(m * unit, rx.ticks[i])
          \/ i % 2 # 1 /\ SpaceTicks(m * unit, rx.ticks[i])
      BY <2>3, <2>4
    <3>2. i \in Nat
      BY <2>1
    <3> QED BY <2>2, <3>1, <3>2, IntervalOf
  <2> QED BY <2>2, <2>5 DEF m
<1>12. BiphaseInTime(rx, first, unit)
  <2>1. \A i \in first .. last : TimingIntervals(rx, i, unit) # 0
    <3> SUFFICES ASSUME NEW i \in first .. last PROVE TimingIntervals(rx, i, unit) # 0
      OBVIOUS
    <3> QED BY <1>11
  <2> QED BY <1>8, <2>1 DEF BiphaseInTime
<1> DEFINE count == last - first + 1
           g == [k \in 1 .. (count + 1) |-> end[first + k - 2] - b]
           step == Intervals(rx, first, unit)
<1>13. /\ count \in Nat /\ Len(ticks) \in Nat /\ first <= Len(ticks) + 1
       /\ count = Len(ticks) - first + 1 /\ first + (count + 1) - 2 = last
  BY <1>1, <1>6, <1>8
<1>14. \A k \in 1 .. count + 1 : first + k - 2 \in 0 .. r
  BY <1>1, <1>6
<1>15. \A k \in 1 .. count + 1 : g[k] = end[first + k - 2] - b /\ g[k] \in Int
  <2> SUFFICES ASSUME NEW k \in 1 .. count + 1
               PROVE  g[k] = end[first + k - 2] - b /\ g[k] \in Int
    OBVIOUS
  <2>1. end[first + k - 2] \in Int
    BY <1>2, <1>14
  <2>2. g[k] = end[first + k - 2] - b
    OBVIOUS
  <2> HIDE DEF g, b
  <2> QED BY <1>7, <2>1, <2>2
<1>16. DOMAIN g = 1 .. count + 1 /\ g = [k \in 1 .. count + 1 |-> g[k]]
  OBVIOUS
<1> HIDE DEF g
<1>17. g \in Seq(Int) /\ Len(g) = count + 1
  <2> HIDE DEF count
  <2>1. count \in Nat
    BY <1>13
  <2>2. \A k \in 1 .. count + 1 : g[k] \in Int
    BY <1>15
  <2> QED BY <1>16, <2>1, <2>2
<1>18. g[1] = 0
  <2>1. 1 \in 1 .. count + 1 /\ first + 1 - 2 = first - 1
    BY <1>13
  <2>2. g[1] = end[first - 1] - b
    BY <1>15, <2>1
  <2> QED BY <1>7, <2>2
<1>19. ASSUME NEW k \in 1 .. count PROVE g[k + 1] = g[k] + step[k]
  <2> DEFINE i == first + k - 1
  <2>1. /\ k \in 1 .. count + 1 /\ k + 1 \in 1 .. count + 1
        /\ first + (k + 1) - 2 = i /\ first + k - 2 = i - 1 /\ i \in first .. last
        /\ k \in 1 .. (Len(ticks) - first + 1) /\ i \in 0 .. r /\ i - 1 \in 0 .. r
    BY <1>1, <1>6, <1>13
  <2>2. g[k + 1] = end[i] - b /\ g[k] = end[i - 1] - b
    BY <1>15, <2>1
  <2>3. step[k] = TimingIntervals(rx, i, unit)
    BY <2>1 DEF Intervals
  <2> HIDE DEF i, b
  <2>4. TimingIntervals(rx, i, unit) = end[i] - end[i - 1]
    BY <1>11, <2>1
  <2>5. end[i] \in Int /\ end[i - 1] \in Int
    BY <1>2, <2>1
  <2> QED BY <1>7, <2>2, <2>3, <2>4, <2>5
<1>20. Sums(g, count, step)
  <2> HIDE DEF count, step
  <2> QED BY <1>17, <1>18, <1>19, Zenon DEF Sums
<1>21. g[count + 1] = end[last] - b
  <2>1. count + 1 \in 1 .. count + 1
    BY <1>13
  <2> HIDE DEF count
  <2> QED BY <1>13, <1>15, <2>1
<1>22. /\ Len(seen) = g[count + 1] /\ g[count + 1] \in Nat
       /\ \A k \in 1 .. count, t \in Int :
            g[k] < t /\ t <= g[k + 1]
              => t \in 1 .. g[count + 1] /\ seen[t] = (first + k - 1) % 2
  <2>1. /\ Len(rx.ticks) \in Nat /\ first \in Nat /\ first <= Len(rx.ticks) + 1
        /\ count = Len(rx.ticks) - first + 1
    BY <1>1, <1>13
  <2> HIDE DEF count
  <2>2. Sums(g, count, Intervals(rx, first, unit))
    BY <1>20, Zenon DEF step
  <2>3. UnitSums(rx, first, unit, g, count)
    BY <2>1, <2>2, Zenon DEF UnitSums
  <2>4. LevelsOf(rx, first, unit, g, count)
    BY <2>3, LevelAt, Zenon
  <2> QED BY <2>4, Zenon DEF LevelsOf, seen
<1>23. Len(seen) = end[last] - b /\ Len(seen) \in 0 .. n - b
  <2>1. last \in 0 .. r
    BY <1>6
  <2>2. end[last] \in Int /\ end[last] <= n
    BY <1>2, <2>1
  <2> HIDE DEF count, seen, b
  <2> QED BY <1>1, <1>7, <1>21, <1>22, <2>2
<1>24. ASSUME NEW t \in 1 .. n - b PROVE Level(seen, t) = levels[b + t]
  <2> DEFINE s == b + t
  <2>1. s \in 1 .. n /\ t \in Int /\ b < s /\ s - b = t
    BY <1>1, <1>7
  <2> HIDE DEF s
  <2>2. PICK q \in 1 .. r : end[q - 1] < s /\ s <= end[q] /\ levels[s] = q % 2
    BY <1>4, <2>1
  <2>3. q \in 0 .. r /\ q - 1 \in 0 .. r /\ q \in Nat
    BY <1>1
  <2>4. end[q] \in Int /\ end[q - 1] \in Int
    BY <1>2, <2>3
  <2>5. q >= first
    <3> SUFFICES ASSUME q < first PROVE FALSE
      BY <1>1, <2>3
    <3>1. CASE q = first - 1
      BY <1>7, <2>1, <2>2, <2>4, <3>1
    <3>2. CASE q # first - 1
      <4>1. q = 1 /\ first = 3
        BY <1>5, <2>3, <3>2
      <4>2. 2 \in 1 .. r /\ 2 - 1 = 1 /\ first - 1 = 2
        BY <1>1, <4>1
      <4>3. end[1] < end[2] /\ b = end[2]
        BY <1>3, <4>2
      <4> QED BY <1>7, <2>1, <2>2, <2>4, <4>1, <4>3
    <3> QED BY <3>1, <3>2
  <2>6. CASE q <= last
    <3> DEFINE k == q - first + 1
    <3>1. /\ k \in 1 .. count /\ first + k - 2 = q - 1 /\ first + (k + 1) - 2 = q
          /\ k \in 1 .. count + 1 /\ k + 1 \in 1 .. count + 1 /\ first + k - 1 = q
      BY <1>1, <1>6, <2>3, <2>5, <2>6
    <3> HIDE DEF k
    <3>2. g[k] = end[q - 1] - b /\ g[k + 1] = end[q] - b
      BY <1>15, <3>1
    <3> HIDE DEF b
    <3>3. g[k] < t /\ t <= g[k + 1]
      BY <1>7, <2>1, <2>2, <2>4, <3>2
    <3> HIDE DEF seen, count
    <3>4. t \in 1 .. g[count + 1] /\ seen[t] = q % 2
      BY <1>22, <2>1, <3>1, <3>3
    <3>5. t <= Len(seen)
      BY <1>22, <3>4
    <3> QED BY <2>2, <3>4, <3>5 DEF Level, s
  <2>7. CASE q > last
    <3>1. q = r /\ q % 2 = 0 /\ q - 1 = last
      BY <1>1, <1>6, <2>3, <2>7
    <3>2. end[last] < s /\ end[last] \in Int
      BY <2>2, <2>4, <3>1
    <3> HIDE DEF seen, b
    <3>3. ~(t <= Len(seen))
      BY <1>7, <1>23, <2>1, <3>2
    <3> QED BY <2>2, <3>1, <3>3 DEF Level, SPACE, s
  <2> QED BY <1>6, <2>3, <2>6, <2>7
<1> HIDE DEF seen, b
<1>25. Len(rx.ticks) = last
  BY <1>8
<1> QED BY <1>12, <1>23, <1>24, <1>25, Zenon DEF last, seen, b

----------------------------------------------------------------------------
(* The types of what is decoded.                                           *)

Typed(d) == d.address \in Word(16) /\ d.command \in Word(16) /\ d.raw \in Seq(Bit)

LEMMA WidenWord ==
  ASSUME NEW w \in Seq(Bit), NEW n \in Nat PROVE Widen(w, n) \in Word(n)
BY DEF Widen, Word, Bit

LEMMA WordSeq ==
  ASSUME NEW n \in Nat, NEW w \in Word(n) PROVE w \in Seq(Bit) /\ Len(w) = n
BY WordLen

LEMMA SubWord ==
  ASSUME NEW n \in Nat, NEW w \in Word(n) PROVE \A a, b \in 1 .. n : SubSeq(w, a, b) \in Seq(Bit)
BY WordSeq

LEMMA SubWordIs ==
  ASSUME NEW n \in Nat, NEW w \in Word(n), NEW a \in Nat, NEW m \in Nat, 1 <= a, a + m - 1 <= n
  PROVE  /\ SubSeq(w, a, a + m - 1) \in Word(m)
         /\ \A i \in 1 .. m : SubSeq(w, a, a + m - 1)[i] = w[a + i - 1]
<1>1. w \in Seq(Bit) /\ Len(w) = n
  BY WordSeq
<1> DEFINE v == SubSeq(w, a, a + m - 1)
<1>2. v = [i \in 1 .. m |-> w[a + i - 1]]
  BY <1>1
<1>3. \A i \in 1 .. m : w[a + i - 1] \in Bit
  BY DEF Word
<1> HIDE DEF v
<1>4. v \in Word(m) /\ \A i \in 1 .. m : v[i] = w[a + i - 1]
  BY <1>2, <1>3 DEF Word
<1> QED BY <1>4 DEF v

LEMMA ByteWord ==
  ASSUME NEW n \in Nat, NEW w \in Word(n), NEW k \in Nat, 8 * k + 8 <= n
  PROVE  /\ Byte(w, k) \in Word(8) /\ Byte(w, k) \in Seq(Bit)
         /\ \A i \in 1 .. 8 : Byte(w, k)[i] = w[8 * k + i]
<1>1. 8 * k + 1 \in Nat /\ 1 <= 8 * k + 1 /\ (8 * k + 1) + 8 - 1 = 8 * k + 8
  OBVIOUS
<1>2. /\ SubSeq(w, 8 * k + 1, 8 * k + 8) \in Word(8)
      /\ \A i \in 1 .. 8 : SubSeq(w, 8 * k + 1, 8 * k + 8)[i] = w[(8 * k + 1) + i - 1]
  BY <1>1, SubWordIs
<1>3. \A i \in 1 .. 8 : (8 * k + 1) + i - 1 = 8 * k + i
  OBVIOUS
<1>4. Byte(w, k) \in Word(8) /\ \A i \in 1 .. 8 : Byte(w, k)[i] = w[8 * k + i]
  BY <1>2, <1>3 DEF Byte
<1> QED BY <1>4, WordSeq

LEMMA ZerosWord ==
  ASSUME NEW n \in Nat PROVE Zeros(n) \in Word(n) /\ Zeros(n) \in Seq(Bit)
BY WordSeq DEF Zeros, Word, Bit

LEMMA BlankTyped == Typed(Blank)
<1>1. Blank.address = Zeros(16) /\ Blank.command = Zeros(16) /\ Blank.raw = Zeros(32)
  BY DEF Blank
<1> QED BY <1>1, ZerosWord DEF Typed

LEMMA CodeFields ==
  ASSUME NEW p, NEW a, NEW c, NEW raw, NEW n, NEW rep
  PROVE  LET d == Code(p, a, c, raw, n, rep)
         IN  /\ d.protocol = p /\ d.address = Widen(a, 16) /\ d.command = Widen(c, 16)
             /\ d.raw = raw /\ d.numberOfBits = n /\ d.isRepeat = rep
BY DEF Code, Blank

LEMMA CodeTyped ==
  ASSUME NEW p, NEW a \in Seq(Bit), NEW c \in Seq(Bit), NEW raw \in Seq(Bit), NEW n, NEW rep
  PROVE  Typed(Code(p, a, c, raw, n, rep))
BY WidenWord, CodeFields DEF Typed

LEMMA LastAgainTyped ==
  ASSUME NEW p, NEW last, Typed(last) PROVE Typed(LastAgain(p, last))
<1>1. last.address \in Seq(Bit) /\ last.command \in Seq(Bit) /\ Zeros(32) \in Seq(Bit)
  BY WordSeq, ZerosWord DEF Typed
<1> QED BY <1>1, CodeTyped DEF LastAgain

LEMMA DataWord ==
  ASSUME NEW rx, NEW c, NEW n \in Nat, NEW offset
  PROVE  decodePulseDistanceWidthData(rx, c, n, offset) \in Word(n)
<1> DEFINE isOne(i) == IF c.oneMark = c.zeroMark
                       THEN matchSpace(rx.ticks[offset + 2 * i - 1], c.oneSpace)
                       ELSE matchMark(rx.ticks[offset + 2 * i - 2], c.oneMark)
           bits == [i \in 1 .. n |-> IF isOne(i) THEN 1 ELSE 0]
<1>1. decodePulseDistanceWidthData(rx, c, n, offset) = IF c.msbFirst THEN Reverse(bits) ELSE bits
  BY Zenon DEF decodePulseDistanceWidthData
<1> HIDE DEF isOne
<1>2. bits \in Word(n)
  BY DEF Word, Bit
<1> HIDE DEF bits
<1> QED BY <1>1, <1>2, ReverseWord

(* Every time unit falls into an entry.                                    *)
LEMMA SomePlace ==
  ASSUME NEW n \in Nat, NEW step, NEW f, Sums(f, n, step), NEW t \in Int, 0 < t, t <= f[n + 1]
  PROVE  \E k \in 1 .. n : f[k] < t /\ t <= f[k + 1]
<1> DEFINE S == {k \in Nat : k + 1 \in 1 .. n + 1 /\ t <= f[k + 1]}
<1>1. f[1] = 0 /\ \A k \in 1 .. n + 1 : f[k] \in Int
  BY DEF Sums
<1>2. n \in S /\ S \subseteq Nat
  OBVIOUS
<1>3. PICK k \in S : \A j \in S : k <= j
  BY <1>2, Least, Zenon
<1>4. k \in Nat /\ k + 1 \in 1 .. n + 1 /\ t <= f[k + 1]
  BY <1>3
<1>5. k # 0
  BY <1>1, <1>4
<1>6. k - 1 \notin S
  BY <1>3, <1>4
<1>7. k - 1 \in Nat /\ (k - 1) + 1 = k /\ k \in 1 .. n + 1 /\ k \in 1 .. n
  BY <1>4, <1>5
<1>8. f[k] < t
  BY <1>1, <1>6, <1>7
<1> QED BY <1>4, <1>7, <1>8

LEMMA LevelsType ==
  ASSUME NEW rx, Len(rx.ticks) \in Nat, NEW first \in Nat, first <= Len(rx.ticks) + 1, NEW unit
  PROVE  BiphaseLevels(rx, first, unit) \in Seq(Bit)
<1> DEFINE n == Len(rx.ticks) - first + 1
           f == UnitsUpTo(rx, first, unit)
           step == Intervals(rx, first, unit)
           levels == BiphaseLevels(rx, first, unit)
<1>1. n \in Nat /\ Sums(f, n, step)
  BY UnitsSum
<1>2. LevelsOf(rx, first, unit, f, n)
  <2>1. UnitSums(rx, first, unit, f, n)
    BY <1>1 DEF UnitSums
  <2> HIDE DEF n, f
  <2> QED BY <2>1, LevelAt, Zenon
<1>3. \E e : levels = [t \in 1 .. Last(f) |-> e[t]]
  <2> DEFINE entry(t) == CHOOSE k \in 1 .. (Len(f) - 1) : f[k] < t /\ t <= f[k + 1]
             e == [t \in 1 .. Last(f) |-> (first + entry(t) - 1) % 2]
  <2>1. levels = e
    BY Zenon DEF BiphaseLevels, LevelsFrom
  <2> HIDE DEF entry, f, levels
  <2>2. e = [t \in 1 .. Last(f) |-> e[t]]
    OBVIOUS
  <2> HIDE DEF e
  <2> QED BY <2>1, <2>2
<1> HIDE DEF f, step, levels, n
<1>4. /\ Len(levels) = f[n + 1] /\ f[n + 1] \in Nat
      /\ \A k \in 1 .. n, t \in Int :
           f[k] < t /\ t <= f[k + 1] => levels[t] = (first + k - 1) % 2
  BY <1>2 DEF LevelsOf, levels
<1>5. Last(f) = f[n + 1]
  BY <1>1 DEF Last, Sums
<1>6. ASSUME NEW t \in 1 .. f[n + 1] PROVE levels[t] \in Bit
  <2>1. t \in Int /\ 0 < t /\ t <= f[n + 1]
    BY <1>4
  <2>2. PICK k \in 1 .. n : f[k] < t /\ t <= f[k + 1]
    BY <1>1, <2>1, SomePlace, Zenon
  <2>3. levels[t] = (first + k - 1) % 2
    BY <1>4, <2>1, <2>2
  <2> QED BY <1>1, <2>3 DEF Bit
<1> QED BY <1>3, <1>4, <1>5, <1>6 DEF levels

----------------------------------------------------------------------------
(* Whatever is received, the decoder that takes it leaves words.           *)

LEMMA FirstToTakeTakes ==
  ASSUME NEW rx
  PROVE  \E i \in 1 .. 16 : FirstToTake(rx) = DecodeOrder[i] /\ Takes(DecodeOrder[i], rx)
<1> DEFINE S == {i \in 1 .. 16 : Takes(DecodeOrder[i], rx)}
<1>1. Takes(DecodeOrder[16], rx)
  BY TakesIs, Order
<1>2. 16 \in S /\ S \subseteq Nat
  BY <1>1
<1>3. PICK i \in S : \A j \in S : i <= j
  BY <1>2, Least, Zenon
<1>4. i \in 1 .. 16 /\ Takes(DecodeOrder[i], rx)
  BY <1>3
<1>5. \A j \in 1 .. i - 1 : ~Takes(DecodeOrder[j], rx)
  <2> SUFFICES ASSUME NEW j \in 1 .. i - 1, Takes(DecodeOrder[j], rx) PROVE FALSE
    OBVIOUS
  <2>1. j \in S /\ ~(i <= j)
    BY <1>4
  <2> QED BY <1>3, <2>1
<1> QED BY <1>4, <1>5, FirstTakes, Zenon

LEMMA Bytes ==
  ASSUME NEW n \in Nat, NEW w \in Word(n)
  PROVE  /\ n >= 8 => Byte(w, 0) \in Seq(Bit)
         /\ n >= 16 => Byte(w, 1) \in Seq(Bit)
         /\ n >= 24 => Byte(w, 2) \in Seq(Bit)
         /\ n >= 32 => Byte(w, 3) \in Seq(Bit)
         /\ n >= 40 => Byte(w, 4) \in Seq(Bit)
<1>1. ASSUME NEW k \in Nat, 8 * k + 8 <= n PROVE Byte(w, k) \in Seq(Bit)
  BY <1>1, ByteWord
<1>2. n >= 8 => Byte(w, 0) \in Seq(Bit)
  BY <1>1
<1>3. n >= 16 => Byte(w, 1) \in Seq(Bit)
  BY <1>1
<1>4. n >= 24 => Byte(w, 2) \in Seq(Bit)
  BY <1>1
<1>5. n >= 32 => Byte(w, 3) \in Seq(Bit)
  BY <1>1
<1>6. n >= 40 => Byte(w, 4) \in Seq(Bit)
  BY <1>1
<1> QED BY <1>2, <1>3, <1>4, <1>5, <1>6

LEMMA NecTyped ==
  ASSUME NEW rx, NEW last, Typed(last) PROVE Typed(decodeNec(rx, last))
<1> DEFINE w == decodePulseDistanceWidthData(rx, NECProtocolConstants, 32, 3)
           short == checkForRepeat(rx, 70100)
           protocol == NecProtocol(w)
           address == IF protocol = "APPLE" THEN Byte(w, 3)
                      ELSE IF IsChecked(w, 0) THEN Byte(w, 0) ELSE SubSeq(w, 1, 16)
           command == IF protocol = "ONKYO" THEN SubSeq(w, 17, 32) ELSE Byte(w, 2)
<1>1. w \in Word(32)
  BY DataWord
<1>2. decodeNec(rx, last)
        = IF rawlen(rx) = 4 THEN LastAgain(last.protocol, last)
          ELSE Code(IF short THEN "NEC2" ELSE protocol, address, command, w, 32, short)
  BY SMT DEF decodeNec
<1> HIDE DEF w
<1>3. /\ Byte(w, 0) \in Seq(Bit) /\ Byte(w, 2) \in Seq(Bit) /\ Byte(w, 3) \in Seq(Bit)
      /\ SubSeq(w, 1, 16) \in Seq(Bit) /\ SubSeq(w, 17, 32) \in Seq(Bit) /\ w \in Seq(Bit)
  <2>1. Byte(w, 0) \in Seq(Bit) /\ Byte(w, 2) \in Seq(Bit) /\ Byte(w, 3) \in Seq(Bit)
    BY <1>1, Bytes
  <2>2. SubSeq(w, 1, 16) \in Seq(Bit) /\ SubSeq(w, 17, 32) \in Seq(Bit) /\ w \in Seq(Bit)
    <3>1. 32 \in Nat /\ {1, 16, 17, 32} \subseteq 1 .. 32
      OBVIOUS
    <3> QED BY <1>1, <3>1, SubWord, WordSeq, Zenon
  <2> QED BY <2>1, <2>2
<1>4. address \in Seq(Bit) /\ command \in Seq(Bit)
  BY <1>3
<1> HIDE DEF address, command, protocol, short
<1>5. Typed(Code(IF short THEN "NEC2" ELSE protocol, address, command, w, 32, short))
  BY <1>3, <1>4, CodeTyped
<1> QED BY <1>2, <1>5, LastAgainTyped

LEMMA KaseikyoTyped == ASSUME NEW rx PROVE Typed(decodeKaseikyo(rx))
<1> DEFINE w == decodePulseDistanceWidthData(rx, KaseikyoProtocolConstants, 48, 3)
           protocol == KaseikyoProtocol(SubSeq(w, 1, 16))
           address == SubSeq(w, 21, 32)
           command == Byte(w, 4)
           raw == SubSeq(w, 17, 48)
           repeat == checkForRepeat(rx, 92500)
<1>1. w \in Word(48)
  BY DataWord
<1>2. decodeKaseikyo(rx) = Code(protocol, address, command, raw, 48, repeat)
  BY SMT DEF decodeKaseikyo
<1> HIDE DEF w
<1>3. address \in Seq(Bit) /\ raw \in Seq(Bit)
  <2>1. 48 \in Nat /\ {17, 21, 32, 48} \subseteq 1 .. 48
    OBVIOUS
  <2> QED BY <1>1, <2>1, SubWord, Zenon
<1>4. command \in Seq(Bit)
  BY <1>1, Bytes
<1> HIDE DEF protocol, address, command, raw, repeat
<1> QED BY <1>2, <1>3, <1>4, CodeTyped

LEMMA DenonTyped ==
  ASSUME NEW rx, NEW last, Typed(last) PROVE Typed(decodeDenon(rx, last))
<1> DEFINE w == decodePulseDistanceWidthData(rx, DenonProtocolConstants, 15, 1)
           frameBits == <<w[14], w[15]>>
           follows == checkForRepeat(rx, 56250)
           sharp == frameBits = <<0, 1>> \/ (follows /\ frameBits = <<1, 0>>)
           command == IF follows /\ w[14] = 1 THEN last.command ELSE SubSeq(w, 6, 13)
<1>1. w \in Word(15)
  BY DataWord
<1>2. decodeDenon(rx, last)
        = Code(IF sharp THEN "SHARP" ELSE "DENON", SubSeq(w, 1, 5), command, w, 15, FALSE)
  BY SMT DEF decodeDenon
<1> HIDE DEF w
<1>3. /\ SubSeq(w, 1, 5) \in Seq(Bit) /\ SubSeq(w, 6, 13) \in Seq(Bit)
      /\ last.command \in Seq(Bit) /\ w \in Seq(Bit)
  <2>1. w \in Seq(Bit) /\ last.command \in Seq(Bit)
    BY <1>1, WordSeq DEF Typed
  <2>2. \A a, b \in 1 .. 15 : SubSeq(w, a, b) \in Seq(Bit)
    BY <1>1, SubWord
  <2> QED BY <2>1, <2>2
<1>4. command \in Seq(Bit)
  BY <1>3
<1> HIDE DEF sharp, command
<1> QED BY <1>2, <1>3, <1>4, CodeTyped

LEMMA SonyTyped == ASSUME NEW rx, IsSony(rx) PROVE Typed(decodeSony(rx))
<1> DEFINE n == (rawlen(rx) - 1) \div 2
           w == decodePulseDistanceWidthData(rx, SonyProtocolConstants, n, 3)
           address == SubSeq(w, 8, n)
           command == SubSeq(w, 1, 7)
           repeat == checkForRepeat(rx, 24000)
<1>1. n \in {12, 15, 20}
  <2>1. PICK k \in SonyBits : rawlen(rx) = 2 * k + 2
    BY DEF IsSony
  <2> QED BY <2>1 DEF SonyBits
<1>2. decodeSony(rx)
        = Code("SONY", address, command, w, n, repeat)
  BY SMT DEF decodeSony
<1> HIDE DEF n
<1>3. w \in Word(n) /\ n \in Nat /\ 8 <= n
  BY <1>1, DataWord
<1> HIDE DEF w
<1>4. address \in Seq(Bit) /\ command \in Seq(Bit) /\ w \in Seq(Bit)
  <2>1. w \in Seq(Bit) /\ \A a, b \in 1 .. n : SubSeq(w, a, b) \in Seq(Bit)
    BY <1>3, SubWord, WordSeq
  <2>2. 1 \in 1 .. n /\ 7 \in 1 .. n /\ 8 \in 1 .. n /\ n \in 1 .. n
    BY <1>1
  <2> QED BY <2>1, <2>2
<1> HIDE DEF address, command, repeat
<1> QED BY <1>2, <1>4, CodeTyped

LEMMA LevelBit ==
  ASSUME NEW levels \in Seq(Bit), NEW i \in Nat, 1 <= i PROVE Level(levels, i) \in Bit
BY DEF Level, SPACE, Bit

LEMMA RC5Typed ==
  ASSUME NEW rx, Len(rx.ticks) \in Nat PROVE Typed(decodeRC5(rx))
<1> DEFINE levels == BiphaseLevels(rx, 1, RC5_UNIT)
           n == RC5BitCount(levels)
           w == [k \in 1 .. n |-> 1 - Level(levels, 2 * (n + 1 - k))]
           d == Widen(w, 16)
           extended == IF d[13] = 0 THEN 1 ELSE 0
           address == SubSeq(d, 7, 11)
           low == SubSeq(d, 1, 6)
           command == low \o <<extended>>
           repeat == checkForRepeat(rx, 125571)
<1>1. levels \in Seq(Bit)
  <2>1. 1 \in Nat /\ 1 <= Len(rx.ticks) + 1
    OBVIOUS
  <2> QED BY <2>1, LevelsType
<1>2. decodeRC5(rx)
        = Code("RC5", address, command, w, n, repeat)
  BY SMT DEF decodeRC5
<1> HIDE DEF levels
<1>3. n \in Nat
  BY <1>1 DEF RC5BitCount
<1> HIDE DEF n
<1>4. w \in Seq(Bit)
  <2>1. ASSUME NEW k \in 1 .. n PROVE 1 - Level(levels, 2 * (n + 1 - k)) \in Bit
    <3>1. 2 * (n + 1 - k) \in Nat /\ 1 <= 2 * (n + 1 - k)
      BY <1>3
    <3>2. Level(levels, 2 * (n + 1 - k)) \in Bit
      BY <1>1, <3>1, LevelBit
    <3> QED BY <3>2 DEF Bit
  <2>2. w \in Word(n)
    BY <2>1 DEF Word
  <2> QED BY <1>3, <2>2, WordSeq
<1> HIDE DEF w
<1>5. d \in Word(16)
  BY <1>4, WidenWord
<1> HIDE DEF d
<1>6. address \in Seq(Bit) /\ low \in Seq(Bit)
  <2>1. \A a, b \in 1 .. 16 : SubSeq(d, a, b) \in Seq(Bit)
    BY <1>5, SubWord
  <2> QED BY <2>1
<1>7. command \in Seq(Bit)
  <2>1. <<extended>> \in Seq(Bit)
    BY DEF Bit
  <2> HIDE DEF extended, low
  <2> QED BY <1>6, <2>1, Joined
<1> HIDE DEF address, command, repeat
<1> QED BY <1>2, <1>4, <1>6, <1>7, CodeTyped

LEMMA RC6Typed ==
  ASSUME NEW rx, Len(rx.ticks) \in Nat, IsRC6(rx) PROVE Typed(decodeRC6(rx))
<1> DEFINE levels == BiphaseLevels(rx, 3, RC6_UNIT)
           n == RC6BitCount(levels)
           w == [k \in 1 .. n |-> Level(levels, RC6Start(n - k))]
           d == Widen(w, 16)
           address == IF n < 36 THEN Byte(d, 1) ELSE SubSeq(d, 9, 15)
           command == Byte(d, 0)
           repeat == checkForRepeat(rx, 133750)
<1>1. levels \in Seq(Bit)
  <2>1. 3 \in Nat /\ 3 <= Len(rx.ticks) + 1
    BY DEF IsRC6, rawlen
  <2> QED BY <2>1, LevelsType
<1>2. decodeRC6(rx) = Code("RC6", address, command, w, n, repeat)
  BY SMT DEF decodeRC6
<1> HIDE DEF levels
<1>3. n \in Nat
  <2> DEFINE S == {k \in 0 .. Len(levels) : RC6Start(k) <= Len(levels)}
  <2>1. IsFiniteSet(0 .. Len(levels))
    BY <1>1, FS_Interval
  <2>2. IsFiniteSet(S)
    BY <2>1, FS_Subset
  <2>3. n = Cardinality(S)
    BY Zenon DEF RC6BitCount
  <2> HIDE DEF S, n
  <2> QED BY <2>2, <2>3, FS_CardinalityType
<1> HIDE DEF n
<1>4. w \in Seq(Bit)
  <2>1. ASSUME NEW k \in 1 .. n PROVE Level(levels, RC6Start(n - k)) \in Bit
    <3>1. RC6Start(n - k) \in Nat /\ 1 <= RC6Start(n - k)
      BY <1>3 DEF RC6Start
    <3> QED BY <1>1, <3>1, LevelBit
  <2>2. w \in Word(n)
    BY <2>1 DEF Word
  <2> QED BY <1>3, <2>2, WordSeq
<1> HIDE DEF w
<1>5. d \in Word(16)
  BY <1>4, WidenWord
<1> HIDE DEF d
<1>6. address \in Seq(Bit) /\ command \in Seq(Bit)
  <2>1. SubSeq(d, 9, 15) \in Seq(Bit)
    <3>1. \A a, b \in 1 .. 16 : SubSeq(d, a, b) \in Seq(Bit)
      BY <1>5, SubWord
    <3> QED BY <3>1
  <2>2. Byte(d, 0) \in Seq(Bit) /\ Byte(d, 1) \in Seq(Bit)
    BY <1>5, Bytes
  <2> QED BY <2>1, <2>2
<1> HIDE DEF address, command, repeat
<1> QED BY <1>2, <1>4, <1>6, CodeTyped

LEMMA LGTyped ==
  ASSUME NEW rx, NEW last, Typed(last) PROVE Typed(decodeLG(rx, last))
<1> DEFINE w == decodePulseDistanceWidthData(rx, LGProtocolConstants, 28, 3)
           protocol == IF LGConstants(rx) = LGProtocolConstants THEN "LG" ELSE "LG2"
           address == SubSeq(w, 21, 28)
           command == SubSeq(w, 5, 20)
           code == Code(protocol, address, command, w, 28, FALSE)
<1>1. w \in Word(28)
  BY DataWord
<1>2. decodeLG(rx, last)
        = IF rawlen(rx) = 4 THEN LastAgain(last.protocol, last)
          ELSE code
  BY SMT DEF decodeLG
<1> HIDE DEF w, protocol
<1>3. address \in Seq(Bit) /\ command \in Seq(Bit) /\ w \in Seq(Bit)
  <2>1. w \in Seq(Bit) /\ \A a, b \in 1 .. 28 : SubSeq(w, a, b) \in Seq(Bit)
    BY <1>1, SubWord, WordSeq
  <2> QED BY <2>1
<1> HIDE DEF address, command
<1>4. Typed(code)
  BY <1>3, CodeTyped
<1> HIDE DEF code
<1> QED BY <1>2, <1>4, LastAgainTyped

LEMMA JVCTyped ==
  ASSUME NEW rx, NEW last, Typed(last) PROVE Typed(decodeJVC(rx, last))
<1> DEFINE w == decodePulseDistanceWidthData(rx, JVCProtocolConstants, 16, 3)
           repeats == rx.pause < 23788 /\ matchMark(rx.ticks[1], 526) /\ StopMark(rx, 526)
           code == Code("JVC", Byte(w, 0), Byte(w, 1), w, 16, FALSE)
<1>1. w \in Word(16)
  BY DataWord
<1>2. decodeJVC(rx, last)
        = CASE rawlen(rx) # 34 -> code
            [] rawlen(rx) = 34 /\ repeats -> LastAgain("JVC", last)
            [] rawlen(rx) = 34 /\ ~repeats -> Blank
  BY SMT DEF decodeJVC
<1> HIDE DEF w
<1>3. Byte(w, 0) \in Seq(Bit) /\ Byte(w, 1) \in Seq(Bit) /\ w \in Seq(Bit)
  BY <1>1, Bytes, WordSeq
<1>4. Typed(code) /\ Typed(LastAgain("JVC", last)) /\ Typed(Blank)
  BY <1>3, CodeTyped, LastAgainTyped, BlankTyped
<1> HIDE DEF code, repeats
<1>5. decodeJVC(rx, last) \in {code, LastAgain("JVC", last), Blank}
  BY <1>2
<1> QED BY <1>4, <1>5

LEMMA SamsungTyped ==
  ASSUME NEW rx, NEW last, Typed(last), IsSamsung(rx) PROVE Typed(decodeSamsung(rx, last))
<1> DEFINE n == (rawlen(rx) - 4) \div 2
           w == decodePulseDistanceWidthData(rx, SamsungProtocolConstants, n, 3)
           command == IF n = 48 THEN Byte(w, 2) \o Byte(w, 4)
                      ELSE IF IsChecked(w, 2) THEN Byte(w, 2) ELSE SubSeq(w, 17, 32)
           protocol == IF n = 48 THEN "SAMSUNG48" ELSE "SAMSUNG"
           address == SubSeq(w, 1, 16)
           repeat == checkForRepeat(rx, 68750)
           raw == SamsungRaw(n, w)
           code == Code(protocol, address, command, raw, n, repeat)
<1>1. rawlen(rx) \in {6, 68, 100}
  BY DEF IsSamsung
<1>2. decodeSamsung(rx, last) = IF rawlen(rx) = 6 THEN LastAgain("SAMSUNG_LG", last) ELSE code
  BY SMT DEF decodeSamsung
<1>3. rawlen(rx) = 6 \/ n \in {32, 48}
  BY <1>1
<1> HIDE DEF n
<1>4. CASE rawlen(rx) = 6
  BY <1>2, <1>4, LastAgainTyped
<1>5. CASE rawlen(rx) # 6
  <2>1. n \in Nat /\ n >= 32 /\ (n = 48 => n >= 40)
    BY <1>3, <1>5
  <2>2. w \in Word(n)
    BY <2>1, DataWord
  <2> HIDE DEF w
  <2>3. Byte(w, 2) \in Seq(Bit) /\ address \in Seq(Bit) /\ SubSeq(w, 17, 32) \in Seq(Bit)
    <3>1. Byte(w, 2) \in Seq(Bit)
      BY <2>1, <2>2, Bytes
    <3>2. \A a, b \in 1 .. n : SubSeq(w, a, b) \in Seq(Bit)
      BY <2>1, <2>2, SubWord
    <3>3. 1 \in 1 .. n /\ 16 \in 1 .. n /\ 17 \in 1 .. n /\ 32 \in 1 .. n
      BY <2>1
    <3> QED BY <3>1, <3>2, <3>3
  <2>4. n = 48 => Byte(w, 4) \in Seq(Bit)
    BY <2>1, <2>2, Bytes
  <2>5. n = 48 => Byte(w, 2) \o Byte(w, 4) \in Seq(Bit)
    BY <2>3, <2>4, Joined
  <2>6. command \in Seq(Bit)
    BY <2>3, <2>5
  <2>7. raw \in Seq(Bit)
    <3>1. w \in Seq(Bit)
      BY <2>1, <2>2, WordSeq
    <3>2. \A i, j \in 1 .. n : SubSeq(w, i, j) \in Seq(Bit)
      BY <2>1, <2>2, SubWord
    <3>3. n = 48 => 33 \in 1 .. n /\ 48 \in 1 .. n
      OBVIOUS
    <3> QED BY <3>1, <3>2, <3>3 DEF SamsungRaw
  <2> HIDE DEF address, command, protocol, repeat, raw
  <2>8. Typed(code)
    BY <2>3, <2>6, <2>7, CodeTyped, SMT
  <2> HIDE DEF code
  <2> QED BY <1>2, <1>5, <2>8
<1> QED BY <1>4, <1>5

LEMMA RareTyped ==
  ASSUME NEW rx
  PROVE  /\ Typed(decodeFAST(rx)) /\ Typed(decodeWhynter(rx))
         /\ Typed(decodeLegoPowerFunctions(rx)) /\ Typed(decodeBoseWave(rx))
         /\ Typed(decodeMagiQuest(rx))
<1>1. <<>> \in Seq(Bit)
  OBVIOUS
<1>2. Typed(decodeFAST(rx))
  <2> DEFINE w == decodePulseDistanceWidthData(rx, FASTProtocolConstants, 16, 3)
             command == Byte(w, 0)
             repeat == checkForRepeat(rx, 31070)
  <2>1. w \in Word(16)
    BY DataWord
  <2>2. decodeFAST(rx) = Code("FAST", <<>>, command, w, 16, repeat)
    BY SMT DEF decodeFAST
  <2> HIDE DEF w
  <2>3. command \in Seq(Bit) /\ w \in Seq(Bit)
    BY <2>1, Bytes, WordSeq
  <2> HIDE DEF command, repeat
  <2> QED BY <1>1, <2>2, <2>3, CodeTyped
<1>3. Typed(decodeWhynter(rx))
  <2> DEFINE w == decodePulseDistanceWidthData(rx, WhynterProtocolConstants, 32, 3)
  <2>1. w \in Seq(Bit)
    BY DataWord, WordSeq
  <2>2. decodeWhynter(rx) = Code("WHYNTER", <<>>, <<>>, w, 32, FALSE)
    BY SMT DEF decodeWhynter
  <2> HIDE DEF w
  <2> QED BY <1>1, <2>1, <2>2, CodeTyped
<1>4. Typed(decodeLegoPowerFunctions(rx))
  <2> DEFINE w == decodePulseDistanceWidthData(rx, LegoProtocolConstants, 16, 3)
  <2>1. w \in Word(16)
    BY DataWord
  <2>2. decodeLegoPowerFunctions(rx)
          = Code("LEGO_PF", SubSeq(w, 13, 16), SubSeq(w, 5, 12), w, 16, FALSE)
    BY SMT DEF decodeLegoPowerFunctions
  <2> HIDE DEF w
  <2>3. SubSeq(w, 13, 16) \in Seq(Bit) /\ SubSeq(w, 5, 12) \in Seq(Bit) /\ w \in Seq(Bit)
    <3>1. w \in Seq(Bit) /\ \A a, b \in 1 .. 16 : SubSeq(w, a, b) \in Seq(Bit)
      BY <2>1, SubWord, WordSeq
    <3> QED BY <3>1, SMTT(30)
  <2> QED BY <2>2, <2>3, CodeTyped
<1>5. Typed(decodeBoseWave(rx))
  <2> DEFINE w == decodePulseDistanceWidthData(rx, BoseWaveProtocolConstants, 16, 3)
             command == Byte(w, 0)
             repeat == checkForRepeat(rx, 62000)
  <2>1. w \in Word(16)
    BY DataWord
  <2>2. decodeBoseWave(rx)
          = Code("BOSEWAVE", <<>>, command, w, 16, repeat)
    BY SMT DEF decodeBoseWave
  <2> HIDE DEF w
  <2>3. command \in Seq(Bit) /\ w \in Seq(Bit)
    BY <2>1, Bytes, WordSeq
  <2> HIDE DEF command, repeat
  <2> QED BY <1>1, <2>2, <2>3, CodeTyped
<1>6. Typed(decodeMagiQuest(rx))
  <2> DEFINE id == decodePulseDistanceWidthData(rx, MagiQuestProtocolConstants, 31, 17)
             rest == decodePulseDistanceWidthData(rx, MagiQuestProtocolConstants, 17, 79)
  <2>1. id \in Word(31) /\ rest \in Word(17)
    BY DataWord
  <2>2. decodeMagiQuest(rx)
          = Code("MAGIQUEST", SubSeq(id, 1, 16), SubSeq(rest, 9, 17), id, 56, FALSE)
    BY SMT DEF decodeMagiQuest
  <2> HIDE DEF id, rest
  <2>3. SubSeq(id, 1, 16) \in Seq(Bit) /\ SubSeq(rest, 9, 17) \in Seq(Bit) /\ id \in Seq(Bit)
    <3>1. 31 \in Nat /\ {1, 16} \subseteq 1 .. 31 /\ 17 \in Nat /\ {9, 17} \subseteq 1 .. 17
      OBVIOUS
    <3> QED BY <2>1, <3>1, SubWord, WordSeq, Zenon
  <2> QED BY <2>2, <2>3, CodeTyped
<1> QED BY <1>2, <1>3, <1>4, <1>5, <1>6

LEMMA DistanceWidthTyped ==
  ASSUME NEW rx, Len(rx.ticks) \in Nat, IsDistanceWidth(rx) PROVE Typed(decodeDistanceWidth(rx))
<1> DEFINE c == DistanceWidthTimingInfo(rx)
           byMark == c.oneMark # c.zeroMark
           n == rawlen(rx) \div 2 - (IF byMark THEN 1 ELSE 2)
           w == decodePulseDistanceWidthData(rx, c, n, 3)
           protocol == IF byMark THEN "PULSE_WIDTH" ELSE "PULSE_DISTANCE"
           repeat == checkForRepeat(rx, 100000)
           code == Code(protocol, <<>>, <<>>, w, n, repeat)
<1>1. decodeDistanceWidth(rx) = [code EXCEPT !.timing = c]
  BY SMT DEF decodeDistanceWidth
<1> HIDE DEF c
<1>2. n \in Nat
  <2>1. rawlen(rx) \in Nat /\ rawlen(rx) >= 20
    BY SMT DEF IsDistanceWidth, FrameLength, rawlen
  <2> HIDE DEF byMark
  <2> QED BY <2>1
<1> HIDE DEF n
<1>3. w \in Seq(Bit)
  BY <1>2, DataWord, WordSeq
<1> HIDE DEF w, protocol, repeat
<1>4. Typed(code)
  <2>1. <<>> \in Seq(Bit)
    OBVIOUS
  <2> QED BY <1>3, <2>1, CodeTyped
<1>5. /\ [code EXCEPT !.timing = c].address = code.address
      /\ [code EXCEPT !.timing = c].command = code.command
      /\ [code EXCEPT !.timing = c].raw = code.raw
  BY DEF Code, Blank
<1> HIDE DEF code
<1> QED BY <1>1, <1>4, <1>5 DEF Typed

LEMMA DecodedTyped ==
  ASSUME NEW rx, Len(rx.ticks) \in Nat, NEW last, Typed(last)
  PROVE  Typed(Mid_IrRemoteDecode(rx, last))
<1> DEFINE decoder == FirstToTake(rx)
<1>1. PICK i \in 1 .. 16 : decoder = DecodeOrder[i] /\ Takes(DecodeOrder[i], rx)
  BY FirstToTakeTakes
<1>2. Mid_IrRemoteDecode(rx, last)
        = CASE decoder = "Nec" -> decodeNec(rx, last)
            [] decoder = "Kaseikyo" -> decodeKaseikyo(rx)
            [] decoder = "Denon" -> decodeDenon(rx, last)
            [] decoder = "Sony" -> decodeSony(rx)
            [] decoder = "RC5" -> decodeRC5(rx)
            [] decoder = "RC6" -> decodeRC6(rx)
            [] decoder = "LG" -> decodeLG(rx, last)
            [] decoder = "JVC" -> decodeJVC(rx, last)
            [] decoder = "Samsung" -> decodeSamsung(rx, last)
            [] decoder = "FAST" -> decodeFAST(rx)
            [] decoder = "Whynter" -> decodeWhynter(rx)
            [] decoder = "Lego" -> decodeLegoPowerFunctions(rx)
            [] decoder = "BoseWave" -> decodeBoseWave(rx)
            [] decoder = "MagiQuest" -> decodeMagiQuest(rx)
            [] decoder = "DistanceWidth" -> decodeDistanceWidth(rx)
            [] decoder = "Hash" -> Blank
  BY Zenon DEF Mid_IrRemoteDecode
<1> HIDE DEF decoder
<1>3. Takes(decoder, rx)
  BY <1>1
<1>4. decoder \in {"Nec", "Kaseikyo", "Denon", "Sony", "RC5", "RC6", "LG", "JVC", "Samsung",
                   "FAST", "Whynter", "Lego", "BoseWave", "MagiQuest", "DistanceWidth", "Hash"}
  BY <1>1, Order, SMTT(30)
<1>5. CASE decoder = "Nec"
  BY <1>2, <1>5, NecTyped
<1>6. CASE decoder = "Kaseikyo"
  BY <1>2, <1>6, KaseikyoTyped
<1>7. CASE decoder = "Denon"
  BY <1>2, <1>7, DenonTyped
<1>8. CASE decoder = "Sony"
  <2>1. IsSony(rx)
    BY <1>3, <1>8, TakesIs
  <2> QED BY <1>2, <1>8, <2>1, SonyTyped
<1>9. CASE decoder = "RC5"
  BY <1>2, <1>9, RC5Typed
<1>10. CASE decoder = "RC6"
  <2>1. IsRC6(rx)
    BY <1>3, <1>10, TakesIs
  <2> QED BY <1>2, <1>10, <2>1, RC6Typed
<1>11. CASE decoder = "LG"
  BY <1>2, <1>11, LGTyped
<1>12. CASE decoder = "JVC"
  BY <1>2, <1>12, JVCTyped
<1>13. CASE decoder = "Samsung"
  <2>1. IsSamsung(rx)
    BY <1>3, <1>13, TakesIs
  <2> QED BY <1>2, <1>13, <2>1, SamsungTyped
<1>14. CASE decoder \in {"FAST", "Whynter", "Lego", "BoseWave", "MagiQuest"}
  BY <1>2, <1>14, RareTyped
<1>15. CASE decoder = "DistanceWidth"
  <2>1. IsDistanceWidth(rx)
    BY <1>3, <1>15, TakesIs
  <2> QED BY <1>2, <1>15, <2>1, DistanceWidthTyped
<1>16. CASE decoder = "Hash"
  BY <1>2, <1>16, BlankTyped
<1> QED BY <1>4, <1>5, <1>6, <1>7, <1>8, <1>9, <1>10, <1>11, <1>12, <1>13, <1>14, <1>15, <1>16

----------------------------------------------------------------------------
(* Two emissions of a code of RC5 or RC6.                                  *)

(* A frame says which levels it was made of.                               *)
LEMMA SameDurations ==
  ASSUME NEW n \in Nat, n >= 1, NEW A \in [1 .. n -> Bit], A[1] = 1,
         NEW B \in [1 .. n -> Bit], B[1] = 1, NEW unit \in {RC5_UNIT, RC6_UNIT},
         Durations(A, unit) = Durations(B, unit)
  PROVE  A = B
<1> DEFINE f == Durations(A, unit)
<1>1. unit \in Nat /\ unit > 0
  BY DEF RC5_UNIT, RC6_UNIT
<1>2. PICK r, e : RunsOf(A, n, r, e) /\ CodedRuns(f, r, e, unit)
  BY <1>1, DurationsAreRuns, Zenon
<1>3. PICK s, g : RunsOf(B, n, s, g) /\ CodedRuns(f, s, g, unit)
  BY <1>1, DurationsAreRuns, Zenon
<1> HIDE DEF f
<1> DEFINE last == Len(f)
<1>4. /\ r \in 1 .. n /\ e \in [0 .. r -> 0 .. n] /\ e[0] = 0
      /\ \A t \in 1 .. n : \E k \in 1 .. r : e[k - 1] < t /\ t <= e[k]
      /\ \A t \in 1 .. n, k \in 1 .. r : e[k - 1] < t /\ t <= e[k] => A[t] = k % 2
  BY <1>2, Zenon DEF RunsOf
<1>5. /\ s \in 1 .. n /\ g \in [0 .. s -> 0 .. n] /\ g[0] = 0
      /\ \A t \in 1 .. n : \E k \in 1 .. s : g[k - 1] < t /\ t <= g[k]
      /\ \A t \in 1 .. n, k \in 1 .. s : g[k - 1] < t /\ t <= g[k] => B[t] = k % 2
  BY <1>3, Zenon DEF RunsOf
<1>6. /\ last = LastMark(r) /\ last = LastMark(s)
      /\ \A k \in 1 .. last : f[k] = unit * (e[k] - e[k - 1]) /\ f[k] = unit * (g[k] - g[k - 1])
  BY <1>2, <1>3, Zenon DEF CodedRuns
<1>7. /\ last \in Nat /\ last <= r /\ last <= s
      /\ \A k \in 1 .. r : k <= last \/ k % 2 = 0
      /\ \A k \in 1 .. s : k <= last \/ k % 2 = 0
  <2>1. r \in 1 .. n /\ s \in 1 .. n /\ last = LastMark(r) /\ last = LastMark(s)
    BY <1>4, <1>5, <1>6, Zenon
  <2> HIDE DEF last
  <2> QED BY <2>1 DEF LastMark
<1> HIDE DEF last
<1>8. n \in Nat /\ r \in Nat /\ s \in Nat
  <2>1. r \in 1 .. n /\ s \in 1 .. n
    BY <1>4, <1>5, Zenon
  <2> QED BY <2>1
<1>9. \A k \in 0 .. last : e[k] \in Int /\ g[k] \in Int
  <2>1. e \in [0 .. r -> 0 .. n] /\ g \in [0 .. s -> 0 .. n]
    BY <1>4, <1>5, Zenon
  <2>2. \A k \in 0 .. last : k \in 0 .. r /\ k \in 0 .. s
    BY <1>7, <1>8
  <2> QED BY <1>8, <2>1, <2>2
<1>10. \A k \in 0 .. last : e[k] = g[k]
  <2> DEFINE T == {k \in Nat : k <= last => e[k] = g[k]}
  <2>1. 0 \in T
    BY <1>4, <1>5
  <2>2. ASSUME NEW k \in Nat, k \in T PROVE k + 1 \in T
    <3> SUFFICES ASSUME k + 1 <= last PROVE e[k + 1] = g[k + 1]
      OBVIOUS
    <3>1. k + 1 \in 1 .. last /\ (k + 1) - 1 = k /\ k \in 0 .. last /\ k + 1 \in 0 .. last
      BY <1>7
    <3>2. e[k] = g[k]
      BY <2>2, <3>1
    <3>3. unit * (e[k + 1] - e[k]) = unit * (g[k + 1] - g[k])
      BY <1>6, <3>1
    <3> DEFINE x == e[k + 1]
               y == g[k + 1]
               z == g[k]
    <3>4. x \in Int /\ y \in Int /\ z \in Int /\ unit * (x - z) = unit * (y - z)
      BY <1>9, <3>1, <3>2, <3>3
    <3> HIDE DEF x, y, z
    <3>5. x = y
      BY <3>4 DEF RC5_UNIT, RC6_UNIT
    <3> QED BY <3>5 DEF x, y
  <2> HIDE DEF T
  <2>3. \A k \in Nat : k \in T
    BY <2>1, <2>2, Climb
  <2> QED BY <2>3 DEF T
<1>11. ASSUME NEW t \in 1 .. n PROVE A[t] = B[t]
  <2>1. CASE \E k \in 1 .. last : e[k - 1] < t /\ t <= e[k]
    <3>1. PICK k \in 1 .. last : e[k - 1] < t /\ t <= e[k]
      BY <2>1
    <3>2. k \in 0 .. last /\ k - 1 \in 0 .. last /\ k \in 1 .. r /\ k \in 1 .. s
      BY <1>7, <1>8
    <3>3. g[k - 1] < t /\ t <= g[k]
      BY <1>10, <3>1, <3>2
    <3>4. A[t] = k % 2 /\ B[t] = k % 2
      BY <1>4, <1>5, <3>1, <3>2, <3>3, Zenon
    <3> QED BY <3>4
  <2>2. CASE ~ \E k \in 1 .. last : e[k - 1] < t /\ t <= e[k]
    <3>1. PICK k \in 1 .. r : e[k - 1] < t /\ t <= e[k]
      BY <1>4
    <3>2. PICK j \in 1 .. s : g[j - 1] < t /\ t <= g[j]
      BY <1>5
    <3>3. k % 2 = 0
      <4>1. k <= last => k \in 1 .. last
        BY <1>7
      <4> QED BY <1>7, <2>2, <3>1, <4>1
    <3>4. j % 2 = 0
      <4>1. j <= last => j \in 1 .. last /\ j \in 0 .. last /\ j - 1 \in 0 .. last
        BY <1>7
      <4>2. j <= last => e[j - 1] < t /\ t <= e[j]
        BY <1>10, <3>2, <4>1
      <4> QED BY <1>7, <2>2, <4>1, <4>2
    <3>5. A[t] = k % 2 /\ B[t] = j % 2
      BY <1>4, <1>5, <3>1, <3>2, Zenon
    <3> QED BY <3>3, <3>4, <3>5
  <2> QED BY <2>1, <2>2
<1> QED BY <1>11

LEMMA JoinedWords ==
  ASSUME NEW m \in Nat, NEW s \in Word(m), NEW k \in Nat, NEW t \in Word(k)
  PROVE  /\ s \o t \in Word(m + k)
         /\ \A j \in 1 .. m : (s \o t)[j] = s[j]
         /\ \A j \in 1 .. k : (s \o t)[m + j] = t[j]
<1>1. s \in Seq(Bit) /\ t \in Seq(Bit) /\ Len(s) = m /\ Len(t) = k
  BY WordSeq
<1> DEFINE v == s \o t
<1>2. /\ v \in Seq(Bit) /\ Len(v) = m + k
      /\ \A j \in 1 .. m : v[j] = s[j]
      /\ \A j \in 1 .. k : v[m + j] = t[j]
  <2>1. /\ v \in Seq(Bit) /\ Len(v) = Len(s) + Len(t)
        /\ \A j \in 1 .. Len(s) : v[j] = s[j]
        /\ \A j \in 1 .. Len(t) : v[Len(s) + j] = t[j]
    <3>1. s \in Seq(Bit) /\ t \in Seq(Bit)
      BY <1>1
    <3> QED BY <3>1, Joined
  <2> HIDE DEF v
  <2> QED BY <1>1, <2>1
<1> HIDE DEF v
<1>3. v \in Word(m + k)
  BY <1>2 DEF Word
<1> QED BY <1>2, <1>3 DEF v

LEMMA ReversedIs ==
  ASSUME NEW n \in Nat, NEW w \in Word(n)
  PROVE  Reverse(w) \in Word(n) /\ \A i \in 1 .. n : Reverse(w)[i] = w[n - i + 1]
<1>1. Len(w) = n
  BY WordLen
<1>2. Reverse(w) = [i \in 1 .. n |-> w[n - i + 1]]
  BY <1>1 DEF Reverse
<1>3. \A i \in 1 .. n : Reverse(w)[i] = w[n - i + 1]
  BY <1>2
<1> QED BY <1>3, ReverseWord

LEMMA BiphaseIs ==
  ASSUME NEW n \in Nat, NEW w \in Word(n), NEW one \in Bit
  PROVE  /\ Biphase(w, one) \in Word(2 * n)
         /\ \A i \in 1 .. n : /\ Biphase(w, one)[2 * i - 1] = IF w[i] = 1 THEN one ELSE 1 - one
                              /\ Biphase(w, one)[2 * i] = IF w[i] = 1 THEN 1 - one ELSE one
<1> DEFINE v == Biphase(w, one)
           level(i) == IF (w[(i + 1) \div 2] = 1) = (i % 2 = 1) THEN one ELSE 1 - one
<1>1. v = [i \in 1 .. 2 * n |-> level(i)]
  BY WordLen DEF Biphase
<1>2. \A i : level(i) \in Bit
  BY DEF Bit
<1> HIDE DEF v
<1>3. v \in Word(2 * n)
  <2> HIDE DEF level
  <2> QED BY <1>1, <1>2 DEF Word
<1>4. ASSUME NEW i \in 1 .. n
      PROVE  /\ v[2 * i - 1] = IF w[i] = 1 THEN one ELSE 1 - one
             /\ v[2 * i] = IF w[i] = 1 THEN 1 - one ELSE one
  <2>1. /\ 2 * i - 1 \in 1 .. 2 * n /\ (2 * i - 1) % 2 = 1 /\ ((2 * i - 1) + 1) \div 2 = i
        /\ 2 * i \in 1 .. 2 * n /\ (2 * i) % 2 # 1 /\ (2 * i + 1) \div 2 = i
    OBVIOUS
  <2>2. v[2 * i - 1] = level(2 * i - 1) /\ v[2 * i] = level(2 * i)
    BY <1>1, <2>1
  <2>3. level(2 * i - 1) = IF w[i] = 1 THEN one ELSE 1 - one
    BY <2>1
  <2>4. level(2 * i) = IF w[i] = 1 THEN 1 - one ELSE one
    BY <2>1
  <2> QED BY <2>2, <2>3, <2>4
<1> QED BY <1>3, <1>4 DEF v

(* The levels of a frame of RC5, and of one of RC6.                        *)
RC5Levels(word) == <<MARK>> \o Biphase(Reverse(word), SPACE)

LEMMA RC5LevelsAre ==
  ASSUME NEW w \in Word(13)
  PROVE  /\ sendBiphaseData(RC5_UNIT, w) = Durations(RC5Levels(w), RC5_UNIT)
         /\ RC5Levels(w) \in Word(27) /\ RC5Levels(w)[1] = 1
         /\ \A i \in 1 .. 13 : /\ RC5Levels(w)[2 * i] = 1 - w[14 - i]
                               /\ RC5Levels(w)[2 * i + 1] = w[14 - i]
<1> DEFINE sent == Reverse(w)
           mark == <<MARK>>
           data == Biphase(sent, SPACE)
           v == mark \o data
<1>1. sent \in Word(13) /\ \A i \in 1 .. 13 : sent[i] = w[14 - i] /\ w[14 - i] \in {0, 1}
  <2>1. sent \in Word(13) /\ \A i \in 1 .. 13 : sent[i] = w[13 - i + 1]
    BY ReversedIs
  <2>2. \A i \in 1 .. 13 : 13 - i + 1 = 14 - i /\ 14 - i \in 1 .. 13
    OBVIOUS
  <2> HIDE DEF sent
  <2> QED BY <2>1, <2>2 DEF Word, Bit
<1>2. mark \in Word(1) /\ mark[1] = 1
  BY DEF Word, Bit, MARK
<1> HIDE DEF sent, mark
<1>3. /\ data \in Word(26)
      /\ \A i \in 1 .. 13 : /\ data[2 * i - 1] = IF sent[i] = 1 THEN 0 ELSE 1
                            /\ data[2 * i] = IF sent[i] = 1 THEN 1 ELSE 0
  <2>1. SPACE \in Bit /\ SPACE = 0
    BY DEF Bit, SPACE
  <2>2. /\ data \in Word(2 * 13)
        /\ \A i \in 1 .. 13 : /\ data[2 * i - 1] = IF sent[i] = 1 THEN SPACE ELSE 1 - SPACE
                              /\ data[2 * i] = IF sent[i] = 1 THEN 1 - SPACE ELSE SPACE
    BY <1>1, <2>1, BiphaseIs
  <2> HIDE DEF data
  <2> QED BY <2>1, <2>2
<1> HIDE DEF data
<1>4. /\ v \in Word(27) /\ v[1] = mark[1]
      /\ \A j \in 1 .. 26 : v[1 + j] = data[j]
  <2>1. 1 \in Nat /\ 26 \in Nat
    OBVIOUS
  <2>2. /\ v \in Word(1 + 26)
        /\ \A j \in 1 .. 1 : v[j] = mark[j]
        /\ \A j \in 1 .. 26 : v[1 + j] = data[j]
    BY <2>1, <1>2, <1>3, JoinedWords, Zenon
  <2> HIDE DEF v
  <2> QED BY <2>2
<1> HIDE DEF v
<1>5. ASSUME NEW i \in 1 .. 13 PROVE v[2 * i] = 1 - w[14 - i] /\ v[2 * i + 1] = w[14 - i]
  <2>1. /\ 2 * i - 1 \in 1 .. 26 /\ 2 * i \in 1 .. 26
        /\ 1 + (2 * i - 1) = 2 * i /\ 1 + 2 * i = 2 * i + 1
    OBVIOUS
  <2>2. v[2 * i] = data[2 * i - 1] /\ v[2 * i + 1] = data[2 * i]
    BY <1>4, <2>1
  <2> QED BY <1>1, <1>3, <2>2
<1>6. RC5Levels(w) = v
  BY Zenon DEF RC5Levels, v, mark, data, sent
<1>7. sendBiphaseData(RC5_UNIT, w) = Durations(RC5Levels(w), RC5_UNIT)
  BY Zenon DEF sendBiphaseData, RC5Levels
<1> QED BY <1>2, <1>4, <1>5, <1>6, <1>7

RC6Levels(word) ==
  LET sent == Reverse(word)
      toggle == IF sent[4] = 1 THEN <<MARK, MARK, SPACE, SPACE>> ELSE <<SPACE, SPACE, MARK, MARK>>
  IN  [i \in 1 .. 6 |-> MARK] \o <<SPACE, SPACE, MARK, SPACE>> \o Biphase(SubSeq(sent, 1, 3), MARK)
        \o toggle \o Biphase(SubSeq(sent, 5, Len(sent)), MARK)

LEMMA RC6LevelsAre ==
  ASSUME NEW w \in Word(20)
  PROVE  LET v == RC6Levels(w)
         IN  /\ RC6Frame(w) = Durations(v, RC6_UNIT) /\ v \in Word(52)
             /\ \A j \in 1 .. 6 : v[j] = 1
             /\ v[7] = 0 /\ v[8] = 0 /\ v[9] = 1 /\ v[10] = 0
             /\ \A i \in 1 .. 3 : v[9 + 2 * i] = w[21 - i] /\ v[10 + 2 * i] = 1 - w[21 - i]
             /\ v[17] = w[17] /\ v[18] = w[17] /\ v[19] = 1 - w[17] /\ v[20] = 1 - w[17]
             /\ \A i \in 5 .. 20 : v[11 + 2 * i] = w[21 - i] /\ v[12 + 2 * i] = 1 - w[21 - i]
<1> DEFINE sent == Reverse(w)
           toggle == IF sent[4] = 1 THEN <<MARK, MARK, SPACE, SPACE>>
                     ELSE <<SPACE, SPACE, MARK, MARK>>
           header == [i \in 1 .. 6 |-> MARK]
           start == <<SPACE, SPACE, MARK, SPACE>>
           mode == SubSeq(sent, 1, 3)
           rest == SubSeq(sent, 5, 20)
           first == Biphase(mode, MARK)
           data == Biphase(rest, MARK)
           v1 == header \o start
           v2 == v1 \o first
           v3 == v2 \o toggle
           v == v3 \o data
<1>1. sent \in Word(20) /\ \A i \in 1 .. 20 : sent[i] = w[21 - i] /\ w[21 - i] \in {0, 1}
  <2>1. sent \in Word(20) /\ \A i \in 1 .. 20 : sent[i] = w[20 - i + 1]
    BY ReversedIs
  <2>2. \A i \in 1 .. 20 : 20 - i + 1 = 21 - i /\ 21 - i \in 1 .. 20
    OBVIOUS
  <2> HIDE DEF sent
  <2> QED BY <2>1, <2>2 DEF Word, Bit
<1>2. RC6Levels(w) = v /\ RC6Frame(w) = Durations(RC6Levels(w), RC6_UNIT)
  <2>1. Len(sent) = 20
    BY <1>1, WordSeq
  <2>2. RC6Levels(w) = v
    BY <2>1 DEF RC6Levels
  <2>3. RC6Frame(w) = Durations(RC6Levels(w), RC6_UNIT)
    BY Zenon DEF RC6Frame, RC6Levels
  <2> QED BY <2>2, <2>3
<1> HIDE DEF sent
<1>3. header \in Word(6) /\ \A j \in 1 .. 6 : header[j] = 1
  BY DEF Word, Bit, MARK
<1>4. start \in Word(4) /\ start[1] = 0 /\ start[2] = 0 /\ start[3] = 1 /\ start[4] = 0
  BY DEF Word, Bit, MARK, SPACE
<1>5. /\ toggle \in Word(4) /\ toggle[1] = w[17] /\ toggle[2] = w[17]
      /\ toggle[3] = 1 - w[17] /\ toggle[4] = 1 - w[17]
  <2>1. sent[4] = w[17] /\ w[17] \in {0, 1}
    BY <1>1
  <2> QED BY <2>1 DEF Word, Bit, MARK, SPACE
<1>6. mode \in Word(3) /\ \A i \in 1 .. 3 : mode[i] = w[21 - i]
  <2>1. SubSeq(sent, 1, 1 + 3 - 1) \in Word(3)
        /\ \A i \in 1 .. 3 : SubSeq(sent, 1, 1 + 3 - 1)[i] = sent[1 + i - 1]
    BY <1>1, SubWordIs
  <2>2. 1 + 3 - 1 = 3 /\ \A i \in 1 .. 3 : 1 + i - 1 = i /\ i \in 1 .. 20
    OBVIOUS
  <2> QED BY <1>1, <2>1, <2>2
<1>7. rest \in Word(16) /\ \A i \in 1 .. 16 : rest[i] = w[17 - i]
  <2>1. SubSeq(sent, 5, 5 + 16 - 1) \in Word(16)
        /\ \A i \in 1 .. 16 : SubSeq(sent, 5, 5 + 16 - 1)[i] = sent[5 + i - 1]
    BY <1>1, SubWordIs
  <2>2. /\ 5 + 16 - 1 = 20
        /\ \A i \in 1 .. 16 : 5 + i - 1 = i + 4 /\ i + 4 \in 1 .. 20 /\ 21 - (i + 4) = 17 - i
    OBVIOUS
  <2> QED BY <1>1, <2>1, <2>2
<1>8. MARK \in Bit /\ MARK = 1
  BY DEF Bit, MARK
<1> HIDE DEF header, start, toggle, mode, rest
<1>9. /\ first \in Word(6)
      /\ \A i \in 1 .. 3 : first[2 * i - 1] = w[21 - i] /\ first[2 * i] = 1 - w[21 - i]
  <2>1. /\ first \in Word(2 * 3)
        /\ \A i \in 1 .. 3 : /\ first[2 * i - 1] = IF mode[i] = 1 THEN MARK ELSE 1 - MARK
                             /\ first[2 * i] = IF mode[i] = 1 THEN 1 - MARK ELSE MARK
    BY <1>6, <1>8, BiphaseIs
  <2> HIDE DEF first
  <2>2. \A i \in 1 .. 3 : w[21 - i] \in {0, 1} /\ mode[i] = w[21 - i]
    BY <1>1, <1>6
  <2>3. 2 * 3 = 6
    OBVIOUS
  <2> QED BY <1>8, <2>1, <2>2, <2>3
<1>10. /\ data \in Word(32)
       /\ \A i \in 1 .. 16 : data[2 * i - 1] = w[17 - i] /\ data[2 * i] = 1 - w[17 - i]
  <2>1. /\ data \in Word(2 * 16)
        /\ \A i \in 1 .. 16 : /\ data[2 * i - 1] = IF rest[i] = 1 THEN MARK ELSE 1 - MARK
                              /\ data[2 * i] = IF rest[i] = 1 THEN 1 - MARK ELSE MARK
    BY <1>7, <1>8, BiphaseIs
  <2> HIDE DEF data
  <2>2. ASSUME NEW i \in 1 .. 16 PROVE w[17 - i] \in {0, 1} /\ rest[i] = w[17 - i]
    <3>1. i + 4 \in 1 .. 20 /\ 21 - (i + 4) = 17 - i
      OBVIOUS
    <3> QED BY <1>1, <1>7, <3>1
  <2>3. 2 * 16 = 32
    OBVIOUS
  <2> QED BY <1>8, <2>1, <2>2, <2>3
<1> HIDE DEF first, data
<1>11. /\ v1 \in Word(10) /\ \A j \in 1 .. 6 : v1[j] = header[j]
       /\ \A j \in 1 .. 4 : v1[6 + j] = start[j]
  <2>1. 6 \in Nat /\ 4 \in Nat
    OBVIOUS
  <2>2. /\ v1 \in Word(6 + 4) /\ \A j \in 1 .. 6 : v1[j] = header[j]
        /\ \A j \in 1 .. 4 : v1[6 + j] = start[j]
    BY <2>1, <1>3, <1>4, JoinedWords, ZenonT(30)
  <2> HIDE DEF v1
  <2> QED BY <2>2
<1> HIDE DEF v1
<1>12. /\ v2 \in Word(16) /\ \A j \in 1 .. 10 : v2[j] = v1[j]
       /\ \A j \in 1 .. 6 : v2[10 + j] = first[j]
  <2>1. 10 \in Nat /\ 6 \in Nat
    OBVIOUS
  <2>2. /\ v2 \in Word(10 + 6) /\ \A j \in 1 .. 10 : v2[j] = v1[j]
        /\ \A j \in 1 .. 6 : v2[10 + j] = first[j]
    BY <2>1, <1>9, <1>11, JoinedWords, Zenon
  <2> HIDE DEF v2
  <2> QED BY <2>2
<1> HIDE DEF v2
<1>13. /\ v3 \in Word(20) /\ \A j \in 1 .. 16 : v3[j] = v2[j]
       /\ \A j \in 1 .. 4 : v3[16 + j] = toggle[j]
  <2>1. 16 \in Nat /\ 4 \in Nat /\ toggle \in Word(4) /\ v2 \in Word(16)
    BY <1>5, <1>12
  <2>2. /\ v3 \in Word(16 + 4) /\ \A j \in 1 .. 16 : v3[j] = v2[j]
        /\ \A j \in 1 .. 4 : v3[16 + j] = toggle[j]
    BY <2>1, JoinedWords, Zenon
  <2> HIDE DEF v3
  <2> QED BY <2>2
<1> HIDE DEF v3
<1>14. /\ v \in Word(52) /\ \A j \in 1 .. 20 : v[j] = v3[j]
       /\ \A j \in 1 .. 32 : v[20 + j] = data[j]
  <2>1. 20 \in Nat /\ 32 \in Nat
    OBVIOUS
  <2>2. /\ v \in Word(20 + 32) /\ \A j \in 1 .. 20 : v[j] = v3[j]
        /\ \A j \in 1 .. 32 : v[20 + j] = data[j]
    BY <2>1, <1>10, <1>13, JoinedWords, ZenonT(30)
  <2> HIDE DEF v
  <2> QED BY <2>2
<1> HIDE DEF v
<1>15. \A j \in 1 .. 16 : v[j] = v2[j]
  BY <1>13, <1>14
<1>16. \A j \in 1 .. 10 : v[j] = v1[j]
  BY <1>12, <1>15
<1>17. \A j \in 1 .. 6 : v[j] = 1
  BY <1>3, <1>11, <1>16
<1>18. v[7] = 0 /\ v[8] = 0 /\ v[9] = 1 /\ v[10] = 0
  <2>1. v1[6 + 1] = start[1] /\ v1[6 + 2] = start[2] /\ v1[6 + 3] = start[3] /\ v1[6 + 4] = start[4]
    BY <1>11
  <2> QED BY <1>4, <1>16, <2>1
<1>19. ASSUME NEW i \in 1 .. 3 PROVE v[9 + 2 * i] = w[21 - i] /\ v[10 + 2 * i] = 1 - w[21 - i]
  <2>1. /\ 2 * i - 1 \in 1 .. 6 /\ 2 * i \in 1 .. 6 /\ 10 + (2 * i - 1) = 9 + 2 * i
        /\ 9 + 2 * i \in 1 .. 16 /\ 10 + 2 * i \in 1 .. 16
    OBVIOUS
  <2> QED BY <1>9, <1>12, <1>15, <2>1
<1>20. v[17] = w[17] /\ v[18] = w[17] /\ v[19] = 1 - w[17] /\ v[20] = 1 - w[17]
  <2>1. /\ v3[16 + 1] = toggle[1] /\ v3[16 + 2] = toggle[2]
        /\ v3[16 + 3] = toggle[3] /\ v3[16 + 4] = toggle[4]
    BY <1>13
  <2> QED BY <1>5, <1>14, <2>1
<1>21. ASSUME NEW i \in 5 .. 20 PROVE v[11 + 2 * i] = w[21 - i] /\ v[12 + 2 * i] = 1 - w[21 - i]
  <2>1. /\ i - 4 \in 1 .. 16 /\ 17 - (i - 4) = 21 - i
        /\ 2 * (i - 4) - 1 \in 1 .. 32 /\ 20 + (2 * (i - 4) - 1) = 11 + 2 * i
        /\ 2 * (i - 4) \in 1 .. 32 /\ 20 + 2 * (i - 4) = 12 + 2 * i
    OBVIOUS
  <2>2. v[11 + 2 * i] = data[2 * (i - 4) - 1] /\ v[12 + 2 * i] = data[2 * (i - 4)]
    BY <1>14, <2>1
  <2>3. data[2 * (i - 4) - 1] = w[17 - (i - 4)] /\ data[2 * (i - 4)] = 1 - w[17 - (i - 4)]
    BY <1>10, <2>1
  <2> QED BY <2>1, <2>2, <2>3
<1> QED BY <1>2, <1>14, <1>17, <1>18, <1>19, <1>20, <1>21

LEMMA RC5WordIs ==
  ASSUME NEW a \in Word(16), NEW c \in Word(16), NEW s \in Bit
  PROVE  RC5Word(a, c, s) \in Word(13) /\ RC5Word(a, c, s)[12] = s
<1> DEFINE low == SubSeq(c, 1, 6)
           high == SubSeq(a, 1, 5)
           field == IF c[7] = 1 \/ c[8] = 1 THEN 0 ELSE 1
           top == <<s, field>>
           data == low \o high
           v == data \o top
<1>1. low \in Word(6) /\ high \in Word(5)
  <2>1. SubSeq(c, 1, 1 + 6 - 1) \in Word(6) /\ SubSeq(a, 1, 1 + 5 - 1) \in Word(5)
    BY SubWordIs
  <2>2. 1 + 6 - 1 = 6 /\ 1 + 5 - 1 = 5
    OBVIOUS
  <2> QED BY <2>1, <2>2
<1>2. top \in Word(2) /\ top[1] = s
  BY DEF Word, Bit
<1> HIDE DEF low, high, top
<1>3. data \in Word(11)
  <2>1. 6 \in Nat /\ 5 \in Nat
    OBVIOUS
  <2>2. data \in Word(6 + 5)
    BY <1>1, <2>1, JoinedWords, Zenon
  <2> HIDE DEF data
  <2> QED BY <2>2
<1> HIDE DEF data
<1>4. v \in Word(13) /\ v[12] = s
  <2>1. 11 \in Nat /\ 2 \in Nat /\ top \in Word(2)
    BY <1>2
  <2>2. v \in Word(11 + 2) /\ \A j \in 1 .. 2 : v[11 + j] = top[j]
    BY <1>3, <2>1, JoinedWords, Zenon
  <2> HIDE DEF v
  <2>3. 1 \in 1 .. 2 /\ 11 + 1 = 12
    OBVIOUS
  <2> QED BY <1>2, <2>2, <2>3
<1>5. RC5Word(a, c, s) = v
  BY Zenon DEF RC5Word, v, data, top, field, high, low
<1> QED BY <1>4, <1>5

LEMMA RC6WordIs ==
  ASSUME NEW a \in Word(16), NEW c \in Word(16), NEW s \in Bit
  PROVE  RC6Word(a, c, s) \in Word(20) /\ RC6Word(a, c, s)[17] = s
<1> DEFINE low == Byte(c, 0)
           high == Byte(a, 0)
           top == <<s, 0, 0, 0>>
           data == low \o high
           v == data \o top
<1>1. low \in Word(8) /\ high \in Word(8)
  BY ByteWord
<1>2. top \in Word(4) /\ top[1] = s
  BY DEF Word, Bit
<1> HIDE DEF low, high, top
<1>3. data \in Word(16)
  <2>1. 8 \in Nat
    OBVIOUS
  <2>2. data \in Word(8 + 8)
    BY <1>1, <2>1, JoinedWords, Zenon
  <2> HIDE DEF data
  <2> QED BY <2>2
<1> HIDE DEF data
<1>4. v \in Word(20) /\ v[17] = s
  <2>1. 16 \in Nat /\ 4 \in Nat /\ top \in Word(4)
    BY <1>2
  <2>2. v \in Word(16 + 4) /\ \A j \in 1 .. 4 : v[16 + j] = top[j]
    BY <1>3, <2>1, JoinedWords, Zenon
  <2> HIDE DEF v
  <2>3. 1 \in 1 .. 4 /\ 16 + 1 = 17
    OBVIOUS
  <2> QED BY <1>2, <2>2, <2>3
<1>5. RC6Word(a, c, s) = v
  BY Zenon DEF RC6Word, v, data, top, high, low
<1> QED BY <1>4, <1>5

(* The toggle bit is level 4 of RC5, inverted, and level 17 of RC6.        *)
LEMMA TogglesDiffer ==
  ASSUME NEW d, Typed(d), UsesToggle(d), NEW s \in Bit
  PROVE  Mid_IrSendCommon(d, 1 - s)[1] # Mid_IrSendCommon(d, s)[1]
<1> DEFINE a == d.address
           c == d.command
<1>1. a \in Word(16) /\ c \in Word(16)
  BY Zenon DEF Typed
<1>2. d.protocol \in {"RC5", "RC6"}
  BY Zenon DEF UsesToggle
<1>3. s \in Bit /\ 1 - s \in Bit /\ s # 1 - s
  BY DEF Bit
<1>4. CASE d.protocol = "RC5"
  <2>1. ASSUME NEW t \in Bit
        PROVE  Mid_IrSendCommon(d, t)[1] = sendBiphaseData(RC5_UNIT, RC5Word(a, c, t))
    BY <1>4, SMT DEF Mid_IrSendCommon, Twice
  <2> DEFINE w == RC5Word(a, c, s)
             x == RC5Word(a, c, 1 - s)
             A == RC5Levels(w)
             B == RC5Levels(x)
  <2> HIDE DEF a, c
  <2>2. w \in Word(13) /\ w[12] = s /\ x \in Word(13) /\ x[12] = 1 - s
    BY <1>1, <1>3, RC5WordIs
  <2> HIDE DEF w, x
  <2>3. /\ sendBiphaseData(RC5_UNIT, w) = Durations(A, RC5_UNIT)
        /\ sendBiphaseData(RC5_UNIT, x) = Durations(B, RC5_UNIT)
        /\ A \in Word(27) /\ A[1] = 1 /\ B \in Word(27) /\ B[1] = 1
    BY <2>2, RC5LevelsAre
  <2>4. A[2 * 2] = 1 - w[14 - 2] /\ B[2 * 2] = 1 - x[14 - 2]
    <3>1. 2 \in 1 .. 13
      OBVIOUS
    <3> QED BY <2>2, <3>1, RC5LevelsAre
  <2> HIDE DEF A, B
  <2>5. A # B
    BY <1>3, <2>2, <2>4 DEF Bit
  <2>6. Durations(A, RC5_UNIT) # Durations(B, RC5_UNIT)
    <3>1. 27 \in Nat /\ 27 >= 1 /\ RC5_UNIT \in {RC5_UNIT, RC6_UNIT}
      OBVIOUS
    <3> QED BY <2>3, <2>5, <3>1, SameDurations, Zenon DEF Word
  <2>7. /\ Mid_IrSendCommon(d, s)[1] = Durations(A, RC5_UNIT)
        /\ Mid_IrSendCommon(d, 1 - s)[1] = Durations(B, RC5_UNIT)
    BY <1>3, <2>1, <2>3 DEF w, x
  <2> QED BY <2>6, <2>7, Zenon
<1>5. CASE d.protocol = "RC6"
  <2>1. ASSUME NEW t \in Bit
        PROVE  Mid_IrSendCommon(d, t)[1] = RC6Frame(RC6Word(a, c, t))
    BY <1>5, SMT DEF Mid_IrSendCommon, Twice
  <2> DEFINE w == RC6Word(a, c, s)
             x == RC6Word(a, c, 1 - s)
             A == RC6Levels(w)
             B == RC6Levels(x)
  <2> HIDE DEF a, c
  <2>2. w \in Word(20) /\ w[17] = s /\ x \in Word(20) /\ x[17] = 1 - s
    BY <1>1, <1>3, RC6WordIs
  <2> HIDE DEF w, x
  <2>3. /\ RC6Frame(w) = Durations(A, RC6_UNIT) /\ A \in Word(52)
        /\ (\A j \in 1 .. 6 : A[j] = 1) /\ A[17] = w[17]
    BY <2>2, RC6LevelsAre, Zenon
  <2>4. /\ RC6Frame(x) = Durations(B, RC6_UNIT) /\ B \in Word(52)
        /\ (\A j \in 1 .. 6 : B[j] = 1) /\ B[17] = x[17]
    BY <2>2, RC6LevelsAre, Zenon
  <2> HIDE DEF A, B
  <2>5. A # B /\ A[1] = 1 /\ B[1] = 1
    BY <1>3, <2>2, <2>3, <2>4
  <2>6. Durations(A, RC6_UNIT) # Durations(B, RC6_UNIT)
    <3>1. 52 \in Nat /\ 52 >= 1 /\ RC6_UNIT \in {RC5_UNIT, RC6_UNIT}
      OBVIOUS
    <3>2. A \in Word(52) /\ B \in Word(52)
      BY <2>3, <2>4
    <3> QED BY <2>5, <3>1, <3>2, SameDurations, Zenon DEF Word
  <2>7. /\ Mid_IrSendCommon(d, s)[1] = Durations(A, RC6_UNIT)
        /\ Mid_IrSendCommon(d, 1 - s)[1] = Durations(B, RC6_UNIT)
    BY <1>3, <2>1, <2>3, <2>4 DEF w, x
  <2> QED BY <2>6, <2>7, Zenon
<1> QED BY <1>2, <1>4, <1>5

----------------------------------------------------------------------------
(* The other protocols: Sony has no stop mark, Denon no header, and FAST   *)
(* and Whynter have to get past RC5 and RC6.                               *)

LEMMA SonyRead ==
  ASSUME NEW n \in {12, 15, 20}, NEW w \in Word(n),
         NEW rx, Sampled(sendPulseDistanceWidth(SonyProtocolConstants, w), rx.ticks)
  PROVE  /\ FirstToTake(rx) = "Sony" /\ rawlen(rx) = 2 * n + 2
         /\ decodePulseDistanceWidthData(rx, SonyProtocolConstants, n, 3) = w
<1> DEFINE t == rx.ticks[1]
           space == rx.ticks[2]
           end == rx.ticks[Len(rx.ticks)]
<1>1. /\ Len(rx.ticks) \in Nat /\ rawlen(rx) = 2 * n + 2
      /\ MarkTicks(2400, t) /\ SpaceTicks(600, space)
      /\ MarkTicks(600, end) \/ MarkTicks(1200, end)
      /\ decodePulseDistanceWidthData(rx, SonyProtocolConstants, n, 3) = w
  <2> DEFINE c == SonyProtocolConstants
             bit == Sent(c, w)[n]
  <2>1. /\ c \in Timings /\ ByMark(c) /\ Separable(c) /\ n \in Nat /\ n > 0
        /\ c.headerMark = 2400 /\ c.headerSpace = 600 /\ c.oneMark = 1200 /\ c.zeroMark = 600
    BY SonyTiming
  <2> HIDE DEF c
  <2>2. Sampled(sendPulseDistanceWidth(c, w), rx.ticks)
    BY DEF c
  <2>3. /\ Len(rx.ticks) \in Nat
        /\ rawlen(rx) = IF ByMark(c) THEN 2 * n + 2 ELSE 2 * n + 4
        /\ MarkTicks(c.headerMark, t) /\ SpaceTicks(c.headerSpace, space)
        /\ ByMark(c) => MarkTicks(MarkOf(c, bit), end)
        /\ decodePulseDistanceWidthData(rx, c, n, 3) = w
    BY <2>1, <2>2, FramedTicks
  <2>4. MarkOf(c, bit) = 1200 \/ MarkOf(c, bit) = 600
    BY <2>1 DEF MarkOf
  <2> HIDE DEF bit, t, space, end
  <2>5. MarkTicks(600, end) \/ MarkTicks(1200, end)
    BY <2>1, <2>3, <2>4
  <2>6. MarkTicks(2400, t) /\ SpaceTicks(600, space) /\ rawlen(rx) = 2 * n + 2
    BY <2>1, <2>3
  <2> QED BY <2>3, <2>5, <2>6 DEF c
<1>2. /\ t \in Int /\ matchMark(t, 2400) /\ matchSpace(space, 600) /\ ~matchMark(end, 260)
  <2> HIDE DEF t, space, end
  <2> QED
    BY <1>1 DEF MarkTicks, SpaceTicks, matchMark, matchSpace, matchTicks, TICKS_LOW, TICKS_HIGH,
                MARK_EXCESS_MICROS
<1>3. IsSony(rx)
  <2>1. /\ SonyProtocolConstants.headerMark = 2400
        /\ SonyProtocolConstants.headerSpace = 600
    BY SonyTiming
  <2>2. checkHeader(rx, SonyProtocolConstants)
    BY <1>1, <1>2, <2>1 DEF checkHeader
  <2>3. \E m \in SonyBits : rawlen(rx) = 2 * m + 2
    BY <1>1 DEF SonyBits
  <2> QED BY <2>2, <2>3 DEF IsSony
<1>4. /\ ~IsNec(rx) /\ ~IsKaseikyo(rx) /\ ~IsDenon(rx)
  <2>1. rawlen(rx) \in {26, 32, 42}
    BY <1>1
  <2> QED BY <1>2, <2>1, Refusals
<1> QED BY <1>1, <1>3, <1>4, InTurn

LEMMA DataTicks ==
  ASSUME NEW c \in Timings, ~ByMark(c), Separable(c), NEW n \in Nat, n > 0, NEW w \in Word(n),
         NEW rx, Sampled(sendPulseDistanceWidthData(c, w), rx.ticks)
  PROVE  /\ Len(rx.ticks) \in Nat /\ rawlen(rx) = 2 * n + 2
         /\ MarkTicks(c.zeroMark, rx.ticks[Len(rx.ticks)])
         /\ decodePulseDistanceWidthData(rx, c, n, 1) = w
<1> DEFINE f == sendPulseDistanceWidthData(c, w)
           sent == Sent(c, w)
           ticks == rx.ticks
<1>1. /\ f \in Seq(Nat) /\ Len(f) = 2 * n + 1
      /\ \A i \in 1 .. n : f[2 * i - 1] = MarkOf(c, sent[i]) /\ f[2 * i] = SpaceOf(c, sent[i])
      /\ f[2 * n + 1] = c.zeroMark
  BY DataEntries
<1> HIDE DEF f
<1>2. IsCoded(f, 1, c, n, sent)
  <2>1. ASSUME NEW i \in 1 .. n
        PROVE  /\ 1 + 2 * i - 2 = 2 * i - 1 /\ 1 + 2 * i - 1 = 2 * i
               /\ 2 * i - 1 \in 1 .. Len(f) /\ 2 * i \in 1 .. Len(f)
    BY <1>1
  <2> HIDE DEF sent
  <2> QED BY <1>1, <2>1 DEF IsCoded
<1>3. decodePulseDistanceWidthData(rx, c, n, 1) = w
  <2>1. 1 \in Nat /\ 1 % 2 = 1 /\ f \in Seq(Nat) /\ Sampled(f, rx.ticks)
    BY <1>1 DEF f
  <2> QED BY <1>2, <2>1, ReadsTheWord DEF sent
<1>4. /\ Len(ticks) = Len(f)
      /\ \A i \in 1 .. Len(f) : i % 2 = 1 => MarkTicks(f[i], ticks[i])
  BY DEF Sampled, f, ticks
<1> HIDE DEF ticks, sent
<1>5. Len(f) \in 1 .. Len(f) /\ Len(f) % 2 = 1 /\ Len(f) = 2 * n + 1 /\ Len(f) \in Nat
  BY <1>1
<1>6. MarkTicks(c.zeroMark, ticks[Len(ticks)])
  BY <1>1, <1>4, <1>5, Zenon
<1>7. Len(ticks) = 2 * n + 1
  BY <1>4, <1>5, Zenon
<1>8. rawlen(rx) = 2 * n + 2
  BY <1>7 DEF rawlen, ticks
<1> QED BY <1>3, <1>6, <1>7, <1>8 DEF ticks

LEMMA DenonRead ==
  ASSUME NEW w \in Word(15),
         NEW rx, Sampled(sendPulseDistanceWidthData(DenonProtocolConstants, w), rx.ticks)
  PROVE  /\ FirstToTake(rx) = "Denon"
         /\ decodePulseDistanceWidthData(rx, DenonProtocolConstants, 15, 1) = w
<1> DEFINE end == rx.ticks[Len(rx.ticks)]
<1>1. /\ Len(rx.ticks) \in Nat /\ rawlen(rx) = 32 /\ MarkTicks(260, end)
      /\ decodePulseDistanceWidthData(rx, DenonProtocolConstants, 15, 1) = w
  <2> DEFINE c == DenonProtocolConstants
  <2>1. /\ c \in Timings /\ ~ByMark(c) /\ Separable(c) /\ 15 \in Nat /\ 15 > 0
        /\ c.zeroMark = 260
    BY DenonTiming
  <2> HIDE DEF c
  <2>2. Sampled(sendPulseDistanceWidthData(c, w), rx.ticks)
    BY DEF c
  <2>3. /\ Len(rx.ticks) \in Nat /\ rawlen(rx) = 2 * 15 + 2 /\ MarkTicks(260, end)
        /\ decodePulseDistanceWidthData(rx, c, 15, 1) = w
    BY <2>1, <2>2, DataTicks
  <2> QED BY <2>3 DEF c
<1>2. matchMark(end, 260)
  <2> HIDE DEF end
  <2> QED BY <1>1 DEF MarkTicks, matchMark, matchTicks, TICKS_LOW, TICKS_HIGH, MARK_EXCESS_MICROS
<1>3. IsDenon(rx)
  BY <1>1, <1>2 DEF IsDenon, StopMark
<1>4. ~IsNec(rx) /\ ~IsKaseikyo(rx)
  BY <1>1, Refusals, SMTT(30)
<1> QED BY <1>1, <1>3, <1>4, InTurn

(* The levels that one entry stands for.                                   *)
LEMMA EntryLevels ==
  ASSUME NEW rx, NEW first, NEW unit, NEW f, NEW n, UnitSums(rx, first, unit, f, n),
         NEW k \in 1 .. n, NEW m, TimingIntervals(rx, first + k - 1, unit) = m
  PROVE  /\ f[1] = 0 /\ m \in Nat /\ f[k] \in Int /\ f[k + 1] = f[k] + m
         /\ \A t \in Int : f[k] < t /\ t <= f[k + 1]
              => /\ t <= Len(BiphaseLevels(rx, first, unit))
                 /\ Level(BiphaseLevels(rx, first, unit), t) = (first + k - 1) % 2
<1> DEFINE step == Intervals(rx, first, unit)
           seen == BiphaseLevels(rx, first, unit)
<1>1. n \in Nat /\ f \in Seq(Int) /\ Len(f) = n + 1 /\ f[1] = 0
      /\ \A j \in 1 .. n : f[j + 1] = f[j] + step[j]
  <2>1. Len(rx.ticks) \in Nat /\ first \in Nat /\ first <= Len(rx.ticks) + 1
        /\ n = Len(rx.ticks) - first + 1
    BY Zenon DEF UnitSums
  <2>2. Sums(f, n, step)
    BY Zenon DEF UnitSums
  <2> HIDE DEF step
  <2> QED BY <2>1, <2>2 DEF Sums
<1>2. step[k] = m
  <2>1. n = Len(rx.ticks) - first + 1
    BY Zenon DEF UnitSums
  <2>2. k \in 1 .. (Len(rx.ticks) - first + 1)
    BY <2>1, Zenon
  <2> QED BY <2>2, Zenon DEF Intervals
<1>3. m \in Nat
  <2>1. m \in 0 .. 3
    BY IntervalsType, Zenon
  <2> QED BY <2>1
<1> HIDE DEF step
<1>4. f[k] \in Int /\ f[k + 1] = f[k] + m
  BY <1>1, <1>2
<1>5. LevelsOf(rx, first, unit, f, n)
  BY LevelAt, Zenon
<1>6. Len(seen) = f[n + 1]
      /\ \A t \in Int : f[k] < t /\ t <= f[k + 1]
           => t \in 1 .. f[n + 1] /\ seen[t] = (first + k - 1) % 2
  BY <1>5, Zenon DEF LevelsOf
<1>7. f[n + 1] \in Nat
  BY <1>5, Zenon DEF LevelsOf
<1> HIDE DEF seen
<1>8. ASSUME NEW t \in Int, f[k] < t, t <= f[k + 1]
      PROVE  t <= Len(seen) /\ Level(seen, t) = (first + k - 1) % 2
  <2>1. t \in 1 .. f[n + 1] /\ seen[t] = (first + k - 1) % 2
    BY <1>6, <1>8, Zenon
  <2>2. t <= Len(seen)
    BY <1>6, <1>7, <2>1
  <2> QED BY <2>1, <2>2, Zenon DEF Level
<1> QED BY <1>1, <1>3, <1>4, <1>8, Zenon DEF seen

LEMMA SumsExist ==
  ASSUME NEW rx, Len(rx.ticks) \in Nat, NEW first \in Nat, first <= Len(rx.ticks) + 1, NEW unit
  PROVE  UnitSums(rx, first, unit, UnitsUpTo(rx, first, unit), Len(rx.ticks) - first + 1)
BY UnitsSum, Zenon DEF UnitSums

(* RC5 has two different levels in every bit: it refuses a frame that      *)
(* starts with a mark of three time units.                                 *)
LEMMA LongMarkNotRC5 ==
  ASSUME NEW rx, Len(rx.ticks) \in Nat, Len(rx.ticks) >= 1,
         rx.ticks[1] \in Int, rx.ticks[1] >= 46, rx.ticks[1] <= 68
  PROVE  ~IsRC5(rx)
<1> DEFINE t == rx.ticks[1]
           us(n) == n * RC5_UNIT + (IF 1 % 2 = 1 THEN 20 ELSE -20)
           seen == BiphaseLevels(rx, 1, RC5_UNIT)
           f == UnitsUpTo(rx, 1, RC5_UNIT)
           n == Len(rx.ticks) - 1 + 1
<1>1. TimingIntervals(rx, 1, RC5_UNIT) = 3
  <2>1. us(1) = 909 /\ us(2) = 1798 /\ us(3) = 2687
    BY DEF RC5_UNIT
  <2>2. t \in Int /\ t >= 46 /\ t <= 68
    OBVIOUS
  <2> HIDE DEF us, t
  <2>3. matchTicks(t, us(3)) /\ ~matchTicks(t, us(1)) /\ ~matchTicks(t, us(2))
    <3>1. TICKS_LOW(us(3)) = 40 /\ TICKS_HIGH(us(3)) = 68
      BY <2>1 DEF TICKS_LOW, TICKS_HIGH
    <3>2. TICKS_HIGH(us(1)) = 23 /\ TICKS_HIGH(us(2)) = 45
      BY <2>1 DEF TICKS_HIGH
    <3> QED BY <2>2, <3>1, <3>2 DEF matchTicks
  <2>4. matchTicks(t, us(3)) /\ \A m \in 1 .. 3 : m < 3 => ~matchTicks(t, us(m))
    BY <2>3
  <2>5. 3 \in 1 .. 3
    OBVIOUS
  <2> QED BY <2>4, <2>5, IntervalFits, Zenon DEF t, us
<1>2. Level(seen, 2) = 1 /\ Level(seen, 3) = 1 /\ 3 <= Len(seen)
  <2>1. UnitSums(rx, 1, RC5_UNIT, f, n)
    BY SumsExist
  <2>2. 1 \in 1 .. n /\ 1 + 1 - 1 = 1 /\ 1 % 2 = 1
    OBVIOUS
  <2> HIDE DEF f, n
  <2>3. /\ f[1] = 0 /\ f[1 + 1] = f[1] + 3
        /\ \A s \in Int : f[1] < s /\ s <= f[1 + 1]
             => s <= Len(seen) /\ Level(seen, s) = (1 + 1 - 1) % 2
    BY <1>1, <2>1, <2>2, EntryLevels
  <2> HIDE DEF seen
  <2>4. f[1] < 2 /\ 2 <= f[1 + 1] /\ f[1] < 3 /\ 3 <= f[1 + 1] /\ 2 \in Int /\ 3 \in Int
    BY <2>3
  <2> QED BY <2>2, <2>3, <2>4
<1>3. seen \in Seq(Bit)
  <2>1. 1 \in Nat /\ 1 <= Len(rx.ticks) + 1
    OBVIOUS
  <2> QED BY <2>1, LevelsType
<1>4. IsRC5(rx) => \A k \in 1 .. RC5BitCount(seen) : Level(seen, 2 * k) # Level(seen, 2 * k + 1)
  BY Zenon DEF IsRC5
<1> HIDE DEF seen
<1>5. 1 \in 1 .. RC5BitCount(seen) /\ 2 * 1 = 2 /\ 2 * 1 + 1 = 3
  BY <1>2, <1>3 DEF RC5BitCount
<1> QED BY <1>2, <1>4, <1>5

LEMMA WhynterRead ==
  ASSUME NEW w \in Word(32),
         NEW rx, Sampled(sendPulseDistanceWidth(WhynterProtocolConstants, w), rx.ticks)
  PROVE  /\ FirstToTake(rx) = "Whynter" /\ rawlen(rx) = 68
         /\ decodePulseDistanceWidthData(rx, WhynterProtocolConstants, 32, 3) = w
<1> DEFINE t == rx.ticks[1]
           space == rx.ticks[2]
           end == rx.ticks[Len(rx.ticks)]
<1>1. /\ Len(rx.ticks) \in Nat /\ rawlen(rx) = 68
      /\ MarkTicks(2850, t) /\ SpaceTicks(2850, space)
      /\ decodePulseDistanceWidthData(rx, WhynterProtocolConstants, 32, 3) = w
  <2> DEFINE c == WhynterProtocolConstants
  <2>1. /\ c \in Timings /\ ~ByMark(c) /\ Separable(c) /\ 32 \in Nat /\ 32 > 0
        /\ c.headerMark = 2850 /\ c.headerSpace = 2850 /\ c.zeroMark = 750
    BY WhynterTiming
  <2> HIDE DEF c
  <2>2. Sampled(sendPulseDistanceWidth(c, w), rx.ticks)
    BY DEF c
  <2>3. /\ Len(rx.ticks) \in Nat /\ rawlen(rx) = 2 * 32 + 4
        /\ MarkTicks(2850, t) /\ SpaceTicks(2850, space)
        /\ decodePulseDistanceWidthData(rx, c, 32, 3) = w
    BY <2>1, <2>2, FramedRead
  <2> QED BY <2>3 DEF c
<1>2. /\ t \in Int /\ matchMark(t, 2850) /\ matchSpace(space, 2850)
      /\ ~matchMark(t, 8960) /\ ~matchMark(t, 4480) /\ ~matchSpace(space, 888)
      /\ t >= 46 /\ t <= 68
  <2> HIDE DEF t, space, end
  <2> QED
    BY <1>1 DEF MarkTicks, SpaceTicks, matchMark, matchSpace, matchTicks, TICKS_LOW, TICKS_HIGH,
                MARK_EXCESS_MICROS
<1>3. IsWhynter(rx)
  <2>1. /\ WhynterProtocolConstants.headerMark = 2850
        /\ WhynterProtocolConstants.headerSpace = 2850
    BY WhynterTiming
  <2>2. HasHeaderAndBits(rx, WhynterProtocolConstants, 32)
    BY <1>1, <1>2, <2>1 DEF HasHeaderAndBits, checkHeader, FrameLength
  <2> QED BY <2>2 DEF IsWhynter
<1>4. /\ ~IsNec(rx) /\ ~IsKaseikyo(rx) /\ ~IsDenon(rx) /\ ~IsSony(rx)
      /\ ~IsLG(rx) /\ ~IsJVC(rx) /\ ~IsSamsung(rx) /\ ~IsFAST(rx)
  <2>1. ~IsNec(rx) /\ ~IsKaseikyo(rx)
    BY <1>1, <1>2, Refusals, SMTT(30)
  <2>2. ~IsDenon(rx) /\ ~IsSony(rx)
    BY <1>1, <1>2, Refusals, SMTT(30)
  <2>3. ~IsLG(rx) /\ ~IsJVC(rx)
    BY <1>1, <1>2, Refusals, SMTT(30)
  <2>4. ~IsSamsung(rx) /\ ~IsFAST(rx)
    BY <1>1, <1>2, Refusals, SMTT(30)
  <2> QED BY <2>1, <2>2, <2>3, <2>4, Zenon
<1>5. ~IsRC5(rx) /\ ~IsRC6(rx)
  <2>1. Len(rx.ticks) >= 1
    BY <1>1 DEF rawlen
  <2>2. ~IsRC5(rx)
    BY <1>1, <1>2, <2>1, LongMarkNotRC5
  <2>3. ~IsRC6(rx)
    BY <1>2, NotRC6
  <2> QED BY <2>2, <2>3
<1> QED BY <1>1, <1>3, <1>4, <1>5, InTurn

EntryAt(rx, first, unit, f, k) ==
  /\ f[k] \in Int /\ f[k + 1] = f[k] + TimingIntervals(rx, first + k - 1, unit)
  /\ \A t \in Int : f[k] < t /\ t <= f[k + 1]
       => /\ t <= Len(BiphaseLevels(rx, first, unit))
          /\ Level(BiphaseLevels(rx, first, unit), t) = (first + k - 1) % 2

LEMMA EveryEntry ==
  ASSUME NEW rx, NEW first, NEW unit, NEW f, NEW n, UnitSums(rx, first, unit, f, n)
  PROVE  \A k \in 1 .. n : EntryAt(rx, first, unit, f, k)
<1> SUFFICES ASSUME NEW k \in 1 .. n PROVE EntryAt(rx, first, unit, f, k)
  OBVIOUS
<1> DEFINE m == TimingIntervals(rx, first + k - 1, unit)
<1>1. m = TimingIntervals(rx, first + k - 1, unit)
  OBVIOUS
<1> HIDE DEF m
<1>2. /\ f[k] \in Int /\ f[k + 1] = f[k] + m
      /\ \A t \in Int : f[k] < t /\ t <= f[k + 1]
           => /\ t <= Len(BiphaseLevels(rx, first, unit))
              /\ Level(BiphaseLevels(rx, first, unit), t) = (first + k - 1) % 2
  BY <1>1, EntryLevels
<1> QED BY <1>1, <1>2, Zenon DEF EntryAt

(* The number of bits that RC6 finds.                                      *)
LEMMA RC6Counts ==
  ASSUME NEW levels, Len(levels) \in Nat
  PROVE  /\ RC6BitCount(levels) \in Nat
         /\ \A j \in 0 .. 3 : 2 * j + 3 <= Len(levels) => j < RC6BitCount(levels)
         /\ Len(levels) <= 44 => RC6BitCount(levels) <= 20
         /\ Len(levels) >= 43 => 20 <= RC6BitCount(levels)
<1> DEFINE found == {k \in 0 .. Len(levels) : RC6Start(k) <= Len(levels)}
           count == Cardinality(found)
<1>1. RC6BitCount(levels) = count
  BY Zenon DEF RC6BitCount
<1>2. IsFiniteSet(found) /\ count \in Nat
  <2>1. IsFiniteSet(0 .. Len(levels)) /\ found \subseteq 0 .. Len(levels)
    BY FS_Interval
  <2> HIDE DEF found
  <2> QED BY <2>1, FS_Subset, FS_CardinalityType, Zenon
<1>3. ASSUME NEW j \in 0 .. 3, 2 * j + 3 <= Len(levels) PROVE j < count
  <2>1. 0 .. j \subseteq found
    BY <1>3 DEF RC6Start
  <2>2. IsFiniteSet(0 .. j) /\ Cardinality(0 .. j) = j + 1
    <3>1. 0 \in Int /\ j \in Int /\ 0 <= j
      OBVIOUS
    <3>2. IsFiniteSet(0 .. j) /\ Cardinality(0 .. j) = IF 0 > j THEN 0 ELSE j - 0 + 1
      BY <3>1, FS_Interval, Zenon
    <3> QED BY <3>1, <3>2
  <2> HIDE DEF found
  <2>3. Cardinality(0 .. j) <= count
    BY <1>2, <2>1, FS_Subset, Zenon
  <2> HIDE DEF count
  <2> QED BY <1>2, <2>2, <2>3
<1>4. ASSUME Len(levels) <= 44 PROVE count <= 20
  <2>1. found \subseteq 0 .. 19
    <3>1. \A k \in 0 .. Len(levels) : RC6Start(k) <= Len(levels) => k \in 0 .. 19
      BY <1>4 DEF RC6Start
    <3> QED BY <3>1, Zenon
  <2>2. IsFiniteSet(0 .. 19) /\ Cardinality(0 .. 19) = 20
    <3>1. 0 \in Int /\ 19 \in Int
      OBVIOUS
    <3>2. IsFiniteSet(0 .. 19) /\ Cardinality(0 .. 19) = IF 0 > 19 THEN 0 ELSE 19 - 0 + 1
      BY <3>1, FS_Interval
    <3> QED BY <3>2
  <2> HIDE DEF found
  <2>3. count <= Cardinality(0 .. 19)
    BY <2>1, <2>2, FS_Subset
  <2> QED BY <2>2, <2>3
<1>5. ASSUME Len(levels) >= 43 PROVE 20 <= count
  <2>1. 0 .. 19 \subseteq found
    <3>1. \A k \in 0 .. 19 : k \in 0 .. Len(levels) /\ RC6Start(k) <= Len(levels)
      BY <1>5 DEF RC6Start
    <3> QED BY <3>1, Zenon
  <2>2. IsFiniteSet(0 .. 19) /\ Cardinality(0 .. 19) = 20
    <3>1. 0 \in Int /\ 19 \in Int
      OBVIOUS
    <3>2. IsFiniteSet(0 .. 19) /\ Cardinality(0 .. 19) = IF 0 > 19 THEN 0 ELSE 19 - 0 + 1
      BY <3>1, FS_Interval
    <3> QED BY <3>2
  <2> HIDE DEF found
  <2>3. Cardinality(0 .. 19) <= count
    BY <1>2, <2>1, FS_Subset, Zenon
  <2> QED BY <2>2, <2>3
<1> HIDE DEF count
<1> QED BY <1>1, <1>2, <1>3, <1>4, <1>5

(* Bits of one mark unit and one or three space units are not those of     *)
(* RC6: two levels that must differ are equal, or the two halves of the    *)
(* toggle bit that must be equal differ.                                   *)
LEMMA PulsesNotRC6 ==
  ASSUME NEW rx, Len(rx.ticks) = 35,
         \A i \in 1 .. 16 : /\ TimingIntervals(rx, 2 * i + 1, RC6_UNIT) = 1
                            /\ TimingIntervals(rx, 2 * i + 2, RC6_UNIT) \in {1, 3}
  PROVE  ~IsRC6(rx)
<1> DEFINE seen == BiphaseLevels(rx, 3, RC6_UNIT)
           f == UnitsUpTo(rx, 3, RC6_UNIT)
           n == Len(rx.ticks) - 3 + 1
           L(t) == Level(seen, t)
           units(i) == TimingIntervals(rx, 2 * i + 2, RC6_UNIT)
<1>1. 3 \in Nat /\ 3 <= Len(rx.ticks) + 1 /\ Len(rx.ticks) \in Nat /\ n = 33
  OBVIOUS
<1>2. Len(seen) \in Nat
  <2>1. seen \in Seq(Bit)
    BY <1>1, LevelsType
  <2> HIDE DEF seen
  <2> QED BY <2>1
<1>3. UnitSums(rx, 3, RC6_UNIT, f, n)
  BY <1>1, SumsExist, Zenon
<1>4. ASSUME NEW i \in 1 .. 16
      PROVE  units(i) \in {1, 3} /\ TimingIntervals(rx, 2 * i + 1, RC6_UNIT) = 1
  OBVIOUS
<1> HIDE DEF n, f, seen, units
<1>5. f[1] = 0
  BY <1>3, Zenon DEF UnitSums, Sums
<1>6. ASSUME NEW i \in 1 .. 16
      PROVE  /\ f[2 * i - 1] \in Int /\ f[2 * i] = f[2 * i - 1] + 1
             /\ f[2 * i] \in Int /\ f[2 * i + 1] = f[2 * i] + units(i)
             /\ \A t \in Int : f[2 * i - 1] < t /\ t <= f[2 * i] => L(t) = 1 /\ t <= Len(seen)
             /\ \A t \in Int : f[2 * i] < t /\ t <= f[2 * i + 1] => L(t) = 0 /\ t <= Len(seen)
  <2>1. /\ 2 * i - 1 \in 1 .. n /\ 3 + (2 * i - 1) - 1 = 2 * i + 1 /\ (2 * i - 1) + 1 = 2 * i
        /\ 2 * i \in 1 .. n /\ 3 + 2 * i - 1 = 2 * i + 2
        /\ (2 * i + 1) % 2 = 1 /\ (2 * i + 2) % 2 = 0
    BY <1>1
  <2>2. /\ TimingIntervals(rx, 3 + (2 * i - 1) - 1, RC6_UNIT) = 1
        /\ TimingIntervals(rx, 3 + 2 * i - 1, RC6_UNIT) = units(i)
    BY <1>4, <2>1 DEF units
  <2>3. ASSUME NEW k \in 1 .. n, NEW m, TimingIntervals(rx, 3 + k - 1, RC6_UNIT) = m
        PROVE  /\ f[k] \in Int /\ f[k + 1] = f[k] + m
               /\ \A t \in Int : f[k] < t /\ t <= f[k + 1]
                    => t <= Len(seen) /\ L(t) = (3 + k - 1) % 2
    <3>1. EntryAt(rx, 3, RC6_UNIT, f, k)
      BY <1>3, EveryEntry, Zenon
    <3> QED BY <2>3, <3>1, Zenon DEF EntryAt, seen
  <2> HIDE DEF L
  <2>4. /\ f[2 * i - 1] \in Int /\ f[2 * i] = f[2 * i - 1] + 1
        /\ \A t \in Int : f[2 * i - 1] < t /\ t <= f[2 * i] => t <= Len(seen) /\ L(t) = 1
    <3> DEFINE k == 2 * i - 1
    <3>1. k \in 1 .. n /\ 3 + k - 1 = 2 * i + 1 /\ k + 1 = 2 * i
      BY <2>1
    <3>2. TimingIntervals(rx, 3 + k - 1, RC6_UNIT) = 1
      BY <2>2
    <3> HIDE DEF k
    <3>3. /\ f[k] \in Int /\ f[k + 1] = f[k] + 1
          /\ \A t \in Int : f[k] < t /\ t <= f[k + 1]
               => t <= Len(seen) /\ L(t) = (3 + k - 1) % 2
      BY <2>3, <3>1, <3>2, Zenon
    <3>4. /\ f[k] \in Int /\ f[2 * i] = f[k] + 1
          /\ \A t \in Int : f[k] < t /\ t <= f[2 * i] => t <= Len(seen) /\ L(t) = 1
      BY <2>1, <3>1, <3>3, Zenon
    <3> QED BY <3>4, Zenon DEF k
  <2>5. /\ f[2 * i] \in Int /\ f[2 * i + 1] = f[2 * i] + units(i)
        /\ \A t \in Int : f[2 * i] < t /\ t <= f[2 * i + 1] => t <= Len(seen) /\ L(t) = 0
    BY <2>1, <2>2, <2>3
  <2> QED BY <2>4, <2>5, Zenon
<1> HIDE DEF L
<1> SUFFICES ASSUME IsRC6(rx) PROVE FALSE
  OBVIOUS
<1>7. /\ \A k \in 0 .. (RC6BitCount(seen) - 1) : L(RC6Start(k)) # L(RC6End(k))
      /\ RC6BitCount(seen) > 3 => L(9) = L(10) /\ L(11) = L(12)
  BY Zenon DEF IsRC6, seen, L
<1>8. /\ \A j \in 0 .. 3 : 2 * j + 3 <= Len(seen) => L(RC6Start(j)) # L(RC6End(j))
      /\ 9 <= Len(seen) => L(9) = L(10) /\ L(11) = L(12)
  <2>1. /\ RC6BitCount(seen) \in Nat
        /\ \A j \in 0 .. 3 : 2 * j + 3 <= Len(seen) => j < RC6BitCount(seen)
    BY <1>2, RC6Counts
  <2> QED BY <1>7, <2>1, SMTT(30)
<1>9. /\ 3 <= Len(seen) => L(3) # L(4)
      /\ 5 <= Len(seen) => L(5) # L(6)
      /\ 7 <= Len(seen) => L(7) # L(8)
      /\ 9 <= Len(seen) => L(9) = L(10) /\ L(11) = L(12)
  BY <1>8 DEF RC6Start, RC6End
<1>10. units(1) = 1 /\ f[3] = 2
  <2>1. /\ f[1] \in Int /\ f[2] = f[1] + 1 /\ f[3] = f[2] + units(1)
        /\ \A t \in Int : f[2] < t /\ t <= f[3] => L(t) = 0 /\ t <= Len(seen)
    <3>1. 1 \in 1 .. 16 /\ 2 * 1 - 1 = 1 /\ 2 * 1 = 2 /\ 2 * 1 + 1 = 3
      OBVIOUS
    <3> QED BY <1>6, <3>1
  <2>2. units(1) \in {1, 3}
    BY <1>4
  <2> QED BY <1>2, <1>5, <1>9, <2>1, <2>2
<1>11. units(2) = 1 /\ f[5] = 4
  <2>1. /\ f[4] = f[3] + 1 /\ f[5] = f[4] + units(2)
        /\ \A t \in Int : f[4] < t /\ t <= f[5] => L(t) = 0 /\ t <= Len(seen)
    <3>1. 2 \in 1 .. 16 /\ 2 * 2 - 1 = 3 /\ 2 * 2 = 4 /\ 2 * 2 + 1 = 5
      OBVIOUS
    <3> QED BY <1>6, <3>1
  <2>2. units(2) \in {1, 3}
    BY <1>4
  <2> QED BY <1>2, <1>9, <1>10, <2>1, <2>2
<1>12. units(3) = 1 /\ f[7] = 6
  <2>1. /\ f[6] = f[5] + 1 /\ f[7] = f[6] + units(3)
        /\ \A t \in Int : f[6] < t /\ t <= f[7] => L(t) = 0 /\ t <= Len(seen)
    <3>1. 3 \in 1 .. 16 /\ 2 * 3 - 1 = 5 /\ 2 * 3 = 6 /\ 2 * 3 + 1 = 7
      OBVIOUS
    <3> QED BY <1>6, <3>1
  <2>2. units(3) \in {1, 3}
    BY <1>4
  <2> QED BY <1>2, <1>9, <1>11, <2>1, <2>2
<1>13. /\ f[8] = 7 /\ f[9] = 7 + units(4) /\ f[10] = f[9] + 1 /\ f[11] = f[10] + units(5)
       /\ \A t \in Int : f[9] < t /\ t <= f[10] => L(t) = 1 /\ t <= Len(seen)
       /\ \A t \in Int : f[10] < t /\ t <= f[11] => L(t) = 0 /\ t <= Len(seen)
  <2>1. 4 \in 1 .. 16 /\ 2 * 4 - 1 = 7 /\ 2 * 4 = 8 /\ 2 * 4 + 1 = 9
    OBVIOUS
  <2>2. 5 \in 1 .. 16 /\ 2 * 5 - 1 = 9 /\ 2 * 5 = 10 /\ 2 * 5 + 1 = 11
    OBVIOUS
  <2>3. /\ f[8] = f[7] + 1 /\ f[9] = f[8] + units(4)
    BY <1>6, <2>1
  <2>4. /\ f[10] = f[9] + 1 /\ f[11] = f[10] + units(5)
        /\ \A t \in Int : f[9] < t /\ t <= f[10] => L(t) = 1 /\ t <= Len(seen)
        /\ \A t \in Int : f[10] < t /\ t <= f[11] => L(t) = 0 /\ t <= Len(seen)
    BY <1>6, <2>2
  <2> QED BY <1>12, <2>3, <2>4
<1>14. units(4) \in {1, 3} /\ units(5) \in {1, 3}
  BY <1>4
<1>15. /\ f[9] = 7 + units(4) /\ f[10] = f[9] + 1 /\ f[11] = f[10] + units(5)
  BY <1>13
<1>16. CASE units(4) = 1
  <2>1. f[9] < 9 /\ 9 <= f[10] /\ f[10] < 10 /\ 10 <= f[11]
    BY <1>14, <1>15, <1>16
  <2>2. L(9) = 1 /\ 9 <= Len(seen)
    BY <1>13, <2>1
  <2>3. L(10) = 0
    BY <1>13, <2>1
  <2> QED BY <1>9, <2>2, <2>3
<1>17. CASE units(4) = 3
  <2>1. f[9] < 11 /\ 11 <= f[10] /\ f[10] < 12 /\ 12 <= f[11]
    BY <1>14, <1>15, <1>17
  <2>2. L(11) = 1 /\ 11 <= Len(seen)
    BY <1>13, <2>1
  <2>3. L(12) = 0
    BY <1>13, <2>1
  <2> QED BY <1>2, <1>9, <2>2, <2>3
<1> QED BY <1>14, <1>16, <1>17

LEMMA FASTRead ==
  ASSUME NEW w \in Word(16),
         NEW rx, Sampled(sendPulseDistanceWidth(FASTProtocolConstants, w), rx.ticks)
  PROVE  /\ FirstToTake(rx) = "FAST" /\ rawlen(rx) = 36
         /\ decodePulseDistanceWidthData(rx, FASTProtocolConstants, 16, 3) = w
<1> DEFINE t == rx.ticks[1]
           space == rx.ticks[2]
           third == rx.ticks[3]
           end == rx.ticks[Len(rx.ticks)]
           c == FASTProtocolConstants
           frame == sendPulseDistanceWidth(c, w)
<1>1. /\ c \in Timings /\ ~ByMark(c) /\ Separable(c) /\ 16 \in Nat /\ 16 > 0
      /\ c.headerMark = 2104 /\ c.headerSpace = 1052 /\ c.zeroMark = 526 /\ c.oneMark = 526
  BY FASTTiming
<1>2. c.oneSpace = 1578 /\ c.zeroSpace = 526
  BY DEF FASTProtocolConstants, Timing
<1> HIDE DEF c
<1>3. Sampled(frame, rx.ticks)
  BY DEF c
<1>4. /\ Len(rx.ticks) \in Nat /\ rawlen(rx) = 36
      /\ MarkTicks(2104, t) /\ SpaceTicks(1052, space)
      /\ MarkTicks(526, third) /\ MarkTicks(526, end)
      /\ decodePulseDistanceWidthData(rx, c, 16, 3) = w
  <2>1. /\ Len(rx.ticks) \in Nat /\ rawlen(rx) = 2 * 16 + 4
        /\ MarkTicks(2104, t) /\ SpaceTicks(1052, space)
        /\ MarkTicks(526, third) /\ MarkTicks(526, end)
        /\ decodePulseDistanceWidthData(rx, c, 16, 3) = w
    BY <1>1, <1>3, FramedRead
  <2> QED BY <2>1
<1>5. /\ t \in Int /\ matchMark(t, 2104) /\ matchSpace(space, 1052)
      /\ ~matchMark(t, 8416) /\ ~matchMark(t, 8960)
      /\ third < 13 /\ third \in Int
  <2> HIDE DEF t, space, end, third
  <2> QED
    BY <1>4 DEF MarkTicks, SpaceTicks, matchMark, matchSpace, matchTicks, TICKS_LOW, TICKS_HIGH,
                MARK_EXCESS_MICROS
<1>6. IsFAST(rx)
  <2>1. HasHeaderAndBits(rx, c, 16)
    BY <1>1, <1>4, <1>5 DEF HasHeaderAndBits, checkHeader, FrameLength
  <2> QED BY <2>1 DEF IsFAST, c
<1>7. /\ ~IsNec(rx) /\ ~IsKaseikyo(rx) /\ ~IsDenon(rx) /\ ~IsSony(rx)
      /\ ~IsLG(rx) /\ ~IsJVC(rx) /\ ~IsSamsung(rx)
  <2>1. ~IsNec(rx) /\ ~IsKaseikyo(rx)
    BY <1>4, <1>5, Refusals, SMTT(30)
  <2>2. ~IsDenon(rx) /\ ~IsSony(rx)
    BY <1>4, <1>5, Refusals, SMTT(30)
  <2>3. ~IsLG(rx) /\ ~IsJVC(rx)
    BY <1>4, <1>5, Refusals, SMTT(30)
  <2>4. ~IsSamsung(rx)
    BY <1>4, Refusals, SMTT(30)
  <2> QED BY <2>1, <2>2, <2>3, <2>4, Zenon
<1>8. Len(rx.ticks) = 35
  <2> DEFINE l == Len(rx.ticks)
  <2>1. l \in Nat /\ rawlen(rx) = 2 * 16 + 4
    BY <1>1, <1>3, FramedRead
  <2>2. rawlen(rx) = l + 1
    BY DEF rawlen
  <2> HIDE DEF l
  <2>3. l = 35
    BY <2>1, <2>2
  <2> QED BY <2>3 DEF l
<1>9. ~IsRC5(rx)
  <2>1. 3 \in 1 .. Len(rx.ticks) /\ 3 % 2 = 1
    BY <1>8
  <2> QED BY <1>4, <1>5, <2>1, NotRC5
<1>10. ASSUME NEW i \in 1 .. 16
       PROVE  /\ TimingIntervals(rx, 2 * i + 1, RC6_UNIT) = 1
              /\ TimingIntervals(rx, 2 * i + 2, RC6_UNIT) \in {1, 3}
  <2> DEFINE m == rx.ticks[2 * i + 1]
             s == rx.ticks[2 * i + 2]
             sent == Sent(c, w)
             us(n) == n * RC6_UNIT + (IF (2 * i + 1) % 2 = 1 THEN 20 ELSE -20)
             vs(n) == n * RC6_UNIT + (IF (2 * i + 2) % 2 = 1 THEN 20 ELSE -20)
  <2>1. /\ frame \in Seq(Nat) /\ IsCoded(frame, 3, c, 16, sent)
    BY <1>1, FramedEntries
  <2>2. /\ 3 + 2 * i - 2 = 2 * i + 1 /\ 3 + 2 * i - 1 = 2 * i + 2
        /\ (2 * i + 1) % 2 = 1 /\ (2 * i + 2) % 2 # 1
    OBVIOUS
  <2> HIDE DEF frame, sent
  <2>3. /\ 2 * i + 1 \in 1 .. Len(frame) /\ frame[2 * i + 1] = MarkOf(c, sent[i])
        /\ 2 * i + 2 \in 1 .. Len(frame) /\ frame[2 * i + 2] = SpaceOf(c, sent[i])
    <3>1. /\ 3 + 2 * i - 2 \in 1 .. Len(frame)
          /\ frame[3 + 2 * i - 2] = MarkOf(c, sent[i])
          /\ 3 + 2 * i - 1 \in 1 .. Len(frame)
          /\ frame[3 + 2 * i - 1] = SpaceOf(c, sent[i])
      <4>1. ~ByMark(c)
        BY <1>1
      <4>2. IsCoded(frame, 3, c, 16, sent)
        BY <2>1
      <4> QED BY <4>1, <4>2, Zenon DEF IsCoded
    <3> QED BY <2>2, <3>1, Zenon
  <2>4. MarkOf(c, sent[i]) = 526 /\ SpaceOf(c, sent[i]) \in {526, 1578}
    BY <1>1, <1>2 DEF MarkOf, SpaceOf
  <2>5. MarkTicks(526, m) /\ (SpaceTicks(526, s) \/ SpaceTicks(1578, s))
    <3>1. MarkTicks(frame[2 * i + 1], m) /\ SpaceTicks(frame[2 * i + 2], s)
      BY <1>3, <2>2, <2>3, Zenon DEF Sampled
    <3> HIDE DEF m, s
    <3> QED BY <2>3, <2>4, <3>1
  <2>6. us(1) = 464 /\ vs(1) = 424 /\ vs(2) = 868 /\ vs(3) = 1312
    BY <2>2 DEF RC6_UNIT
  <2> HIDE DEF m, s, us, vs
  <2>7. /\ matchTicks(m, us(1))
        /\ \/ matchTicks(s, vs(1))
           \/ matchTicks(s, vs(3)) /\ ~matchTicks(s, vs(1)) /\ ~matchTicks(s, vs(2))
    BY <2>5, <2>6 DEF MarkTicks, SpaceTicks, matchTicks, TICKS_LOW, TICKS_HIGH
  <2>8. TimingIntervals(rx, 2 * i + 1, RC6_UNIT) = 1
    <3>1. 1 \in 1 .. 3 /\ \A n \in 1 .. 3 : n < 1 => ~matchTicks(m, us(n))
      OBVIOUS
    <3> QED BY <2>7, <3>1, IntervalFits, Zenon DEF m, us
  <2>9. TimingIntervals(rx, 2 * i + 2, RC6_UNIT) \in {1, 3}
    <3>1. CASE matchTicks(s, vs(1))
      <4>1. 1 \in 1 .. 3 /\ \A n \in 1 .. 3 : n < 1 => ~matchTicks(s, vs(n))
        OBVIOUS
      <4> QED BY <3>1, <4>1, IntervalFits, Zenon DEF s, vs
    <3>2. CASE matchTicks(s, vs(3)) /\ ~matchTicks(s, vs(1)) /\ ~matchTicks(s, vs(2))
      <4>1. 3 \in 1 .. 3 /\ \A n \in 1 .. 3 : n < 3 => ~matchTicks(s, vs(n))
        BY <3>2
      <4> QED BY <3>2, <4>1, IntervalFits, Zenon DEF s, vs
    <3> QED BY <2>7, <3>1, <3>2, Zenon
  <2> QED BY <2>8, <2>9
<1>11. ~IsRC6(rx)
  BY <1>8, <1>10, PulsesNotRC6
<1> QED BY <1>4, <1>6, <1>7, <1>9, <1>11, InTurn DEF c

(* The frames of MagiQuest, whatever their checksum.                       *)
MagiQuestCoded(id, magnitude, checksum) ==
  LET c == MagiQuestProtocolConstants
  IN  UptoLastMark(sendPulseDistanceWidthData(c, Zeros(8))
        \o sendPulseDistanceWidthData(c, id)
        \o sendPulseDistanceWidthData(c, magnitude)
        \o sendPulseDistanceWidthData(c, checksum))

(* The parts of a sequence that is four joined ones.                       *)
FourParts(all, s, t, u, v) ==
  /\ all \in Seq(Nat) /\ Len(all) = Len(s) + Len(t) + Len(u) + Len(v)
  /\ \A k \in 1 .. Len(s) : all[k] = s[k]
  /\ \A k \in 1 .. Len(t) : all[Len(s) + k] = t[k]
  /\ \A k \in 1 .. Len(u) : all[Len(s) + Len(t) + k] = u[k]
  /\ \A k \in 1 .. Len(v) : all[Len(s) + Len(t) + Len(u) + k] = v[k]

LEMMA JoinedFour ==
  ASSUME NEW s \in Seq(Nat), NEW t \in Seq(Nat), NEW u \in Seq(Nat), NEW v \in Seq(Nat)
  PROVE  FourParts(s \o t \o u \o v, s, t, u, v)
<1> DEFINE st == s \o t
           stu == st \o u
           all == stu \o v
<1>1. /\ st \in Seq(Nat) /\ Len(st) = Len(s) + Len(t) /\ Len(s) \in Nat /\ Len(t) \in Nat
      /\ \A k \in 1 .. Len(s) : st[k] = s[k]
      /\ \A k \in 1 .. Len(t) : st[Len(s) + k] = t[k]
  BY Joined
<1> HIDE DEF st
<1>2. /\ stu \in Seq(Nat) /\ Len(stu) = Len(st) + Len(u) /\ Len(st) \in Nat /\ Len(u) \in Nat
      /\ \A k \in 1 .. Len(st) : stu[k] = st[k]
      /\ \A k \in 1 .. Len(u) : stu[Len(st) + k] = u[k]
  <2>1. st \in Seq(Nat)
    BY <1>1, Zenon
  <2> QED BY <2>1, Joined
<1> HIDE DEF stu
<1>3. /\ all \in Seq(Nat) /\ Len(all) = Len(stu) + Len(v) /\ Len(stu) \in Nat /\ Len(v) \in Nat
      /\ \A k \in 1 .. Len(stu) : all[k] = stu[k]
      /\ \A k \in 1 .. Len(v) : all[Len(stu) + k] = v[k]
  <2>1. stu \in Seq(Nat)
    BY <1>2, Zenon
  <2> QED BY <2>1, Joined
<1> HIDE DEF all
<1>4. \A k \in 1 .. Len(s) : all[k] = s[k]
  <2> SUFFICES ASSUME NEW k \in 1 .. Len(s) PROVE all[k] = s[k]
    OBVIOUS
  <2>1. k \in 1 .. Len(st) /\ k \in 1 .. Len(stu)
    BY <1>1, <1>2, <1>3
  <2> QED BY <1>1, <1>2, <1>3, <2>1
<1>5. \A k \in 1 .. Len(t) : all[Len(s) + k] = t[k]
  <2> SUFFICES ASSUME NEW k \in 1 .. Len(t) PROVE all[Len(s) + k] = t[k]
    OBVIOUS
  <2> DEFINE j == Len(s) + k
             l == Len(st)
             m == Len(stu)
             a == Len(s)
             b == Len(t)
             d == Len(u)
  <2>1. /\ a \in Nat /\ b \in Nat /\ d \in Nat /\ l = a + b /\ m = l + d
        /\ k \in 1 .. b /\ j = a + k /\ st[j] = t[k]
    BY <1>1, <1>2, Zenon
  <2> HIDE DEF j, l, m, a, b, d
  <2>2. j \in 1 .. l /\ j \in 1 .. m
    BY <2>1
  <2>3. all[j] = t[k]
    BY <1>2, <1>3, <2>1, <2>2, Zenon DEF l, m
  <2> QED BY <2>3 DEF j, a
<1>6. \A k \in 1 .. Len(u) : all[Len(s) + Len(t) + k] = u[k]
  <2> SUFFICES ASSUME NEW k \in 1 .. Len(u) PROVE all[Len(s) + Len(t) + k] = u[k]
    OBVIOUS
  <2>1. Len(st) + k \in 1 .. Len(stu) /\ Len(st) + k = Len(s) + Len(t) + k
    BY <1>1, <1>2, <1>3
  <2> QED BY <1>2, <1>3, <2>1
<1>7. \A k \in 1 .. Len(v) : all[Len(s) + Len(t) + Len(u) + k] = v[k]
  BY <1>1, <1>2, <1>3
<1>8. Len(all) = Len(s) + Len(t) + Len(u) + Len(v)
  BY <1>1, <1>2, <1>3
<1>9. FourParts(all, s, t, u, v)
  BY <1>3, <1>4, <1>5, <1>6, <1>7, <1>8, Zenon DEF FourParts
<1> QED BY <1>9, Zenon DEF all, stu, st

LEMMA WithoutLast ==
  ASSUME NEW s \in Seq(Nat), NEW n \in Nat, Len(s) = 2 * n + 2
  PROVE  LET f == UptoLastMark(s)
         IN  f \in Seq(Nat) /\ Len(f) = 2 * n + 1 /\ \A k \in 1 .. 2 * n + 1 : f[k] = s[k]
<1> DEFINE f == UptoLastMark(s)
<1>1. s # <<>> /\ Len(s) % 2 = 0
  OBVIOUS
<1>2. f = SubSeq(s, 1, 2 * n + 1)
  BY <1>1 DEF UptoLastMark, Front
<1> HIDE DEF f
<1>3. f \in Seq(Nat) /\ Len(f) = 2 * n + 1 /\ \A k \in 1 .. 2 * n + 1 : f[k] = s[k]
  BY <1>2
<1> QED BY <1>3, Zenon DEF f

LEMMA LongRefused ==
  ASSUME NEW rx, rawlen(rx) = 112
  PROVE  /\ ~IsNec(rx) /\ ~IsKaseikyo(rx) /\ ~IsDenon(rx) /\ ~IsSony(rx) /\ ~IsLG(rx) /\ ~IsJVC(rx)
         /\ ~IsSamsung(rx) /\ ~IsFAST(rx) /\ ~IsWhynter(rx) /\ ~IsLego(rx) /\ ~IsBoseWave(rx)
<1>1. ~IsNec(rx) /\ ~IsKaseikyo(rx) /\ ~IsDenon(rx)
  BY DEF IsNec, IsKaseikyo, IsDenon, IsShortRepeat, HasHeaderAndBits, FrameLength
<1>2. ~IsSony(rx)
  BY DEF IsSony, SonyBits
<1>3. ~IsLG(rx) /\ ~IsJVC(rx) /\ ~IsSamsung(rx)
  BY DEF IsLG, IsJVC, IsSamsung, IsShortRepeat, HasHeaderAndBits, FrameLength
<1>4. ~IsFAST(rx) /\ ~IsWhynter(rx) /\ ~IsLego(rx) /\ ~IsBoseWave(rx)
  BY DEF IsFAST, IsWhynter, IsLego, IsBoseWave, HasHeaderAndBits, FrameLength
<1> QED BY <1>1, <1>2, <1>3, <1>4

(* The marks of its 111 entries are those of the 8 + 31 + 9 + 8 bits.      *)
LEMMA MagiQuestEntries ==
  ASSUME NEW id \in Word(31), NEW magnitude \in Word(9), NEW checksum \in Word(8)
  PROVE  LET f == MagiQuestCoded(id, magnitude, checksum)
             c == MagiQuestProtocolConstants
             rest == checksum \o magnitude
         IN  /\ f \in Seq(Nat) /\ Len(f) = 111
             /\ IsCoded(f, 1, c, 8, Sent(c, Zeros(8))) /\ Zeros(8) \in Word(8)
             /\ IsCoded(f, 17, c, 31, Sent(c, id))
             /\ IsCoded(f, 79, c, 17, Sent(c, rest)) /\ rest \in Word(17)
<1> DEFINE c == MagiQuestProtocolConstants
           zeros == Zeros(8)
           D(w) == sendPulseDistanceWidthData(c, w)
           S(w) == Sent(c, w)
           d1 == D(zeros)
           d2 == D(id)
           d3 == D(magnitude)
           d4 == D(checksum)
           all == d1 \o d2 \o d3 \o d4
           f == MagiQuestCoded(id, magnitude, checksum)
<1>1. c \in Timings /\ ByMark(c) /\ c.msbFirst
  BY MagiQuestTiming DEF MagiQuestProtocolConstants, Timing
<1>2. zeros \in Word(8)
  <2>1. 8 \in Nat
    OBVIOUS
  <2> QED BY <2>1, ZerosWord, Zenon
<1> HIDE DEF c, zeros
<1>3. ASSUME NEW n \in Nat, NEW w \in Word(n)
      PROVE  /\ D(w) \in Seq(Nat) /\ Len(D(w)) = 2 * n
             /\ \A i \in 1 .. n : D(w)[2 * i - 1] = MarkOf(c, S(w)[i])
  BY <1>1, DataEntries
<1>4. /\ d1 \in Seq(Nat) /\ Len(d1) = 16 /\ d2 \in Seq(Nat) /\ Len(d2) = 62
      /\ d3 \in Seq(Nat) /\ Len(d3) = 18 /\ d4 \in Seq(Nat) /\ Len(d4) = 16
  <2>1. 8 \in Nat /\ 31 \in Nat /\ 9 \in Nat
    OBVIOUS
  <2> HIDE DEF D
  <2>2. d1 \in Seq(Nat) /\ Len(d1) = 2 * 8
    BY <1>2, <1>3, <2>1
  <2>3. d2 \in Seq(Nat) /\ Len(d2) = 2 * 31
    BY <1>3, <2>1
  <2>4. d3 \in Seq(Nat) /\ Len(d3) = 2 * 9
    BY <1>3, <2>1
  <2>5. d4 \in Seq(Nat) /\ Len(d4) = 2 * 8
    BY <1>3, <2>1
  <2> QED BY <2>2, <2>3, <2>4, <2>5
<1>5. /\ \A i \in 1 .. 8 : d1[2 * i - 1] = MarkOf(c, S(zeros)[i])
      /\ \A i \in 1 .. 31 : d2[2 * i - 1] = MarkOf(c, S(id)[i])
      /\ \A i \in 1 .. 9 : d3[2 * i - 1] = MarkOf(c, S(magnitude)[i])
      /\ \A i \in 1 .. 8 : d4[2 * i - 1] = MarkOf(c, S(checksum)[i])
  <2> HIDE DEF D, S
  <2>1. 8 \in Nat /\ 31 \in Nat /\ 9 \in Nat
    OBVIOUS
  <2> QED BY <1>2, <1>3, <2>1
<1>6. f = UptoLastMark(all)
  BY Zenon DEF MagiQuestCoded, c, zeros
<1> HIDE DEF d1, d2, d3, d4, f
<1>7. FourParts(all, d1, d2, d3, d4)
  <2>1. d1 \in Seq(Nat) /\ d2 \in Seq(Nat) /\ d3 \in Seq(Nat) /\ d4 \in Seq(Nat)
    BY <1>4
  <2> QED BY <2>1, JoinedFour, Zenon
<1> HIDE DEF all
<1>8. /\ Len(all) = 2 * 55 + 2
      /\ \A k \in 1 .. 16 : all[k] = d1[k]
      /\ \A k \in 1 .. 62 : all[16 + k] = d2[k]
      /\ \A k \in 1 .. 18 : all[78 + k] = d3[k]
      /\ \A k \in 1 .. 16 : all[96 + k] = d4[k]
  <2> DEFINE l1 == Len(d1)
             l2 == Len(d2)
             l3 == Len(d3)
             l4 == Len(d4)
  <2>1. l1 = 16 /\ l2 = 62 /\ l3 = 18 /\ l4 = 16
    BY <1>4, Zenon
  <2>2. /\ Len(all) = l1 + l2 + l3 + l4 /\ \A k \in 1 .. l1 : all[k] = d1[k]
        /\ \A k \in 1 .. l2 : all[l1 + k] = d2[k]
        /\ \A k \in 1 .. l3 : all[l1 + l2 + k] = d3[k]
        /\ \A k \in 1 .. l4 : all[l1 + l2 + l3 + k] = d4[k]
    BY <1>7, Zenon DEF FourParts
  <2> HIDE DEF l1, l2, l3, l4
  <2> QED BY <2>1, <2>2
<1>9. f \in Seq(Nat) /\ Len(f) = 2 * 55 + 1 /\ \A k \in 1 .. 2 * 55 + 1 : f[k] = all[k]
  <2>1. 55 \in Nat /\ all \in Seq(Nat)
    BY <1>7 DEF FourParts
  <2> QED BY <1>6, <1>8, <2>1, WithoutLast
<1>10. f \in Seq(Nat) /\ Len(f) = 111 /\ \A k \in 1 .. 111 : f[k] = all[k]
  <2> DEFINE l == Len(f)
  <2>1. l = 2 * 55 + 1 /\ \A k \in 1 .. 2 * 55 + 1 : f[k] = all[k]
    BY <1>9, Zenon
  <2> HIDE DEF l
  <2>2. l = 111 /\ \A k \in 1 .. 111 : f[k] = all[k]
    BY <2>1
  <2> QED BY <1>9, <2>2, Zenon DEF l
<1>11. IsCoded(f, 1, c, 8, S(zeros))
  <2> SUFFICES ASSUME NEW i \in 1 .. 8
               PROVE  /\ 1 + 2 * i - 2 \in 1 .. Len(f)
                      /\ f[1 + 2 * i - 2] = MarkOf(c, S(zeros)[i])
    BY <1>1, Zenon DEF IsCoded
  <2> DEFINE j == 2 * i - 1
  <2>1. j \in 1 .. 16 /\ j \in 1 .. 111 /\ 1 + 2 * i - 2 = j /\ d1[j] = MarkOf(c, S(zeros)[i])
    BY <1>5
  <2> HIDE DEF j
  <2>2. f[j] = d1[j] /\ j \in 1 .. Len(f)
    BY <1>8, <1>10, <2>1, Zenon
  <2> QED BY <2>1, <2>2, Zenon
<1>12. IsCoded(f, 17, c, 31, S(id))
  <2> SUFFICES ASSUME NEW i \in 1 .. 31
               PROVE  /\ 17 + 2 * i - 2 \in 1 .. Len(f)
                      /\ f[17 + 2 * i - 2] = MarkOf(c, S(id)[i])
    BY <1>1, Zenon DEF IsCoded
  <2> DEFINE j == 2 * i - 1
             m == 16 + j
  <2>1. j \in 1 .. 62 /\ m \in 1 .. 111 /\ 17 + 2 * i - 2 = m /\ d2[j] = MarkOf(c, S(id)[i])
    BY <1>5
  <2> HIDE DEF j
  <2>2. all[m] = d2[j]
    BY <1>8, <2>1
  <2> HIDE DEF m
  <2>3. f[m] = all[m] /\ m \in 1 .. Len(f)
    BY <1>10, <2>1, Zenon
  <2> QED BY <2>1, <2>2, <2>3, Zenon
<1> DEFINE rest == checksum \o magnitude
<1>13. /\ rest \in Word(17)
       /\ \A i \in 1 .. 9 : S(rest)[i] = S(magnitude)[i]
       /\ \A i \in 1 .. 8 : S(rest)[9 + i] = S(checksum)[i]
  <2>1. 8 \in Nat /\ 9 \in Nat /\ 17 \in Nat
    OBVIOUS
  <2>2. /\ rest \in Word(8 + 9)
        /\ \A j \in 1 .. 8 : rest[j] = checksum[j]
        /\ \A j \in 1 .. 9 : rest[8 + j] = magnitude[j]
    BY <2>1, JoinedWords
  <2> HIDE DEF rest
  <2>3. rest \in Word(17)
    BY <2>2
  <2>4. /\ \A i \in 1 .. 17 : Reverse(rest)[i] = rest[17 - i + 1]
        /\ \A i \in 1 .. 9 : Reverse(magnitude)[i] = magnitude[9 - i + 1]
        /\ \A i \in 1 .. 8 : Reverse(checksum)[i] = checksum[8 - i + 1]
    BY <2>1, <2>3, ReversedIs, Zenon
  <2>5. /\ S(rest) = Reverse(rest) /\ S(magnitude) = Reverse(magnitude)
        /\ S(checksum) = Reverse(checksum)
    BY <1>1, Zenon DEF Sent
  <2>6. ASSUME NEW i \in 1 .. 9 PROVE S(rest)[i] = S(magnitude)[i]
    <3>1. i \in 1 .. 17 /\ 9 - i + 1 \in 1 .. 9 /\ 17 - i + 1 = 8 + (9 - i + 1)
      OBVIOUS
    <3>2. Reverse(rest)[i] = rest[8 + (9 - i + 1)]
      BY <2>4, <3>1
    <3> QED BY <2>2, <2>4, <2>5, <3>1, <3>2, Zenon
  <2>7. ASSUME NEW i \in 1 .. 8 PROVE S(rest)[9 + i] = S(checksum)[i]
    <3>1. 9 + i \in 1 .. 17 /\ 8 - i + 1 \in 1 .. 8 /\ 17 - (9 + i) + 1 = 8 - i + 1
      OBVIOUS
    <3>2. Reverse(rest)[9 + i] = rest[8 - i + 1]
      BY <2>4, <3>1
    <3> QED BY <2>2, <2>4, <2>5, <3>1, <3>2, Zenon
  <2> QED BY <2>3, <2>6, <2>7
<1> HIDE DEF rest
<1>14. IsCoded(f, 79, c, 17, S(rest))
  <2> SUFFICES ASSUME NEW i \in 1 .. 17
               PROVE  /\ 79 + 2 * i - 2 \in 1 .. Len(f)
                      /\ f[79 + 2 * i - 2] = MarkOf(c, S(rest)[i])
    BY <1>1, Zenon DEF IsCoded
  <2> DEFINE j == 2 * i - 1
             m == 78 + j
  <2>1. m \in 1 .. 111 /\ 79 + 2 * i - 2 = m
    OBVIOUS
  <2>2. all[m] = MarkOf(c, S(rest)[i])
    <3>1. CASE i <= 9
      <4>1. i \in 1 .. 9 /\ j \in 1 .. 18
        BY <3>1
      <4>2. d3[j] = MarkOf(c, S(magnitude)[i]) /\ S(rest)[i] = S(magnitude)[i]
        BY <1>5, <1>13, <4>1, Zenon
      <4> HIDE DEF j
      <4>3. all[m] = d3[j]
        BY <1>8, <4>1
      <4> HIDE DEF m
      <4> QED BY <4>2, <4>3, Zenon
    <3>2. CASE ~(i <= 9)
      <4> DEFINE q == i - 9
                 l == 2 * q - 1
      <4>1. q \in 1 .. 8 /\ l \in 1 .. 16 /\ i = 9 + q /\ m = 96 + l
        BY <3>2
      <4>2. d4[l] = MarkOf(c, S(checksum)[q]) /\ S(rest)[9 + q] = S(checksum)[q]
        BY <1>5, <1>13, <4>1, Zenon
      <4> HIDE DEF m, l
      <4>3. all[m] = d4[l]
        BY <1>8, <4>1
      <4> HIDE DEF q
      <4> QED BY <4>1, <4>2, <4>3, Zenon
    <3> QED BY <3>1, <3>2
  <2> HIDE DEF m
  <2>3. f[m] = all[m] /\ m \in 1 .. Len(f)
    BY <1>10, <2>1, Zenon
  <2> QED BY <2>1, <2>2, <2>3, Zenon
<1> QED BY <1>2, <1>10, <1>11, <1>12, <1>13, <1>14, Zenon DEF f, c, zeros, rest

LEMMA MagiQuestRead ==
  ASSUME NEW id \in Word(31), NEW magnitude \in Word(9), NEW checksum \in Word(8),
         NEW rx, Sampled(MagiQuestCoded(id, magnitude, checksum), rx.ticks)
  PROVE  LET c == MagiQuestProtocolConstants
         IN  /\ FirstToTake(rx) = "MagiQuest"
             /\ decodePulseDistanceWidthData(rx, c, 31, 17) = id
             /\ decodePulseDistanceWidthData(rx, c, 17, 79) = checksum \o magnitude
<1> DEFINE c == MagiQuestProtocolConstants
           zeros == Zeros(8)
           rest == checksum \o magnitude
           f == MagiQuestCoded(id, magnitude, checksum)
           sent == Sent(c, zeros)
           t == rx.ticks[1]
<1>1. c \in Timings /\ ByMark(c) /\ Separable(c) /\ c.oneMark = 574 /\ c.zeroMark = 287
  BY MagiQuestTiming
<1>2. /\ f \in Seq(Nat) /\ Len(f) = 111 /\ IsCoded(f, 1, c, 8, sent) /\ zeros \in Word(8)
      /\ IsCoded(f, 17, c, 31, Sent(c, id)) /\ IsCoded(f, 79, c, 17, Sent(c, rest))
      /\ rest \in Word(17) /\ Sampled(f, rx.ticks)
  BY MagiQuestEntries, Zenon
<1>3. \A i \in 1 .. 8 : zeros[i] = 0
  BY DEF Zeros
<1> HIDE DEF c, zeros, rest, f
<1>4. rawlen(rx) = 112 /\ Len(rx.ticks) = 111
  <2> DEFINE l == Len(rx.ticks)
  <2>1. l = 111
    BY <1>2, Zenon DEF Sampled
  <2>2. rawlen(rx) = l + 1
    BY DEF rawlen
  <2> HIDE DEF l
  <2>3. rawlen(rx) = 112
    BY <2>1, <2>2
  <2> QED BY <2>1, <2>3 DEF l
<1>5. /\ decodePulseDistanceWidthData(rx, c, 8, 1) = zeros
      /\ decodePulseDistanceWidthData(rx, c, 31, 17) = id
      /\ decodePulseDistanceWidthData(rx, c, 17, 79) = rest
  <2>1. /\ 8 \in Nat /\ 31 \in Nat /\ 17 \in Nat /\ 1 \in Nat /\ 79 \in Nat
        /\ 1 % 2 = 1 /\ 17 % 2 = 1 /\ 79 % 2 = 1
    OBVIOUS
  <2> QED BY <1>1, <1>2, <2>1, ReadsTheWord DEF sent
<1>6. IsMagiQuest(rx)
  BY <1>4, <1>5, Zenon DEF IsMagiQuest, c, zeros
<1>7. MarkTicks(287, t)
  <2>1. f[1] = MarkOf(c, sent[1])
    <3>1. 1 \in 1 .. 8 /\ 1 + 2 * 1 - 2 = 1
      OBVIOUS
    <3> QED BY <1>2, <3>1 DEF IsCoded
  <2>2. sent[1] = 0
    <3>1. sent = Reverse(zeros) \/ sent = zeros
      BY DEF sent, Sent
    <3>2. \A i \in 1 .. 8 : Reverse(zeros)[i] = zeros[8 - i + 1]
      <4>1. 8 \in Nat
        OBVIOUS
      <4> QED BY <1>2, <4>1, ReversedIs, ZenonT(30)
    <3>3. Reverse(zeros)[1] = 0
      <4>1. 1 \in 1 .. 8 /\ 8 - 1 + 1 = 8 /\ 8 \in 1 .. 8
        OBVIOUS
      <4> QED BY <1>3, <3>2, <4>1
    <3>4. zeros[1] = 0
      BY <1>3
    <3> QED BY <3>1, <3>3, <3>4
  <2>3. MarkOf(c, sent[1]) = 287
    BY <1>1, <2>2 DEF MarkOf
  <2>4. MarkTicks(f[1], t)
    <3>1. 1 \in 1 .. Len(f) /\ 1 % 2 = 1
      BY <1>2
    <3> QED BY <1>2, <3>1, Zenon DEF Sampled, t
  <2> QED BY <2>1, <2>3, <2>4
<1>8. t \in Int /\ t < 12 /\ ~matchMark(t, 2664)
  BY <1>7 DEF MarkTicks, matchMark, matchTicks, TICKS_LOW, TICKS_HIGH, MARK_EXCESS_MICROS
<1>9. ~IsRC5(rx) /\ ~IsRC6(rx)
  <2>1. 1 \in 1 .. Len(rx.ticks) /\ Len(rx.ticks) \in Nat
    BY <1>4
  <2>2. ~IsRC5(rx)
    BY <1>8, <2>1, NotRC5 DEF t
  <2>3. ~IsRC6(rx)
    BY <1>8, NotRC6 DEF t
  <2> QED BY <2>2, <2>3
<1>10. /\ ~IsNec(rx) /\ ~IsKaseikyo(rx) /\ ~IsDenon(rx) /\ ~IsSony(rx) /\ ~IsLG(rx) /\ ~IsJVC(rx)
       /\ ~IsSamsung(rx) /\ ~IsFAST(rx) /\ ~IsWhynter(rx) /\ ~IsLego(rx) /\ ~IsBoseWave(rx)
  BY <1>4, LongRefused, Zenon
<1>11. FirstToTake(rx) = "MagiQuest"
  BY <1>6, <1>9, <1>10, InTurn, Zenon
<1> QED BY <1>5, <1>11, Zenon DEF c, rest

(* RC5 and RC6 are read level by level: no level lasts for more than three *)
(* time units after the header.                                            *)
LEMMA HeaderRefusals ==
  ASSUME NEW rx
  PROVE  /\ ~matchMark(rx.ticks[1], 8960) => ~IsNec(rx)
         /\ rawlen(rx) \notin {26, 32, 42} \/ ~matchSpace(rx.ticks[2], 600) => ~IsSony(rx)
<1>1. ~matchMark(rx.ticks[1], 8960) => ~IsNec(rx)
  BY NECTiming DEF IsNec, IsShortRepeat, HasHeaderAndBits, checkHeader
<1>2. rawlen(rx) \notin {26, 32, 42} \/ ~matchSpace(rx.ticks[2], 600) => ~IsSony(rx)
  BY SonyTiming DEF IsSony, SonyBits, checkHeader
<1> QED BY <1>1, <1>2

(* A run covers its levels.                                                *)
RunAt(levels, n, end, k) ==
  /\ end[k - 1] \in 0 .. n /\ end[k] \in 0 .. n /\ end[k - 1] < end[k]
  /\ \A t \in 1 .. n : end[k - 1] < t /\ t <= end[k] => levels[t] = k % 2

LEMMA EveryRun ==
  ASSUME NEW levels, NEW n, NEW r, NEW end, RunsOf(levels, n, r, end)
  PROVE  \A k \in 1 .. r : RunAt(levels, n, end, k)
<1> SUFFICES ASSUME NEW k \in 1 .. r PROVE RunAt(levels, n, end, k)
  OBVIOUS
<1>1. /\ n \in Nat /\ r \in 1 .. n /\ end \in [0 .. r -> 0 .. n]
      /\ end[k - 1] < end[k]
      /\ \A t \in 1 .. n : end[k - 1] < t /\ t <= end[k] => levels[t] = k % 2
  BY Zenon DEF RunsOf
<1>2. k - 1 \in 0 .. r /\ k \in 0 .. r
  BY <1>1
<1>3. end[k - 1] \in 0 .. n /\ end[k] \in 0 .. n
  BY <1>1, <1>2
<1> QED BY <1>1, <1>3, Zenon DEF RunAt

LEMMA RC5Read ==
  ASSUME NEW w \in Word(13), NEW rx, Sampled(sendBiphaseData(RC5_UNIT, w), rx.ticks)
  PROVE  LET seen == BiphaseLevels(rx, 1, RC5_UNIT)
         IN  /\ FirstToTake(rx) = "RC5" /\ RC5BitCount(seen) = 13
             /\ \A k \in 1 .. 13 : 1 - Level(seen, 2 * (14 - k)) = w[k]
<1> DEFINE A == RC5Levels(w)
           f == sendBiphaseData(RC5_UNIT, w)
           seen == BiphaseLevels(rx, 1, RC5_UNIT)
<1>1. /\ f = Durations(A, RC5_UNIT) /\ A \in [1 .. 27 -> Bit] /\ A[1] = 1
      /\ \A i \in 1 .. 13 : A[2 * i] # A[2 * i + 1]
      /\ \A k \in 1 .. 13 : 1 - A[2 * (14 - k)] = w[k]
  <2>1. /\ f = Durations(A, RC5_UNIT) /\ A \in Word(27) /\ A[1] = 1
        /\ \A i \in 1 .. 13 : A[2 * i] = 1 - w[14 - i] /\ A[2 * i + 1] = w[14 - i]
    BY RC5LevelsAre
  <2> HIDE DEF A, f
  <2>2. ASSUME NEW i \in 1 .. 13 PROVE A[2 * i] # A[2 * i + 1]
    <3>1. w[14 - i] \in Bit
      <4>1. 14 - i \in 1 .. 13
        OBVIOUS
      <4> QED BY <4>1 DEF Word
    <3> QED BY <2>1, <3>1 DEF Bit
  <2>3. ASSUME NEW k \in 1 .. 13 PROVE 1 - A[2 * (14 - k)] = w[k]
    <3>1. 14 - k \in 1 .. 13 /\ 14 - (14 - k) = k
      OBVIOUS
    <3>2. w[k] \in {0, 1}
      BY DEF Word, Bit
    <3>3. A[2 * (14 - k)] = 1 - w[k]
      BY <2>1, <3>1
    <3> QED BY <3>2, <3>3
  <2> QED BY <2>1, <2>2, <2>3, Zenon DEF Word
<1> HIDE DEF A, f
<1>2. PICK r, end : RunsOf(A, 27, r, end) /\ CodedRuns(f, r, end, RC5_UNIT)
  <2>1. 27 \in Nat /\ 27 >= 1 /\ RC5_UNIT \in Nat
    BY DEF RC5_UNIT
  <2> QED BY <1>1, <2>1, DurationsAreRuns, Zenon
<1> DEFINE last == LastMark(r)
<1>3. r \in 1 .. 27 /\ end[0] = 0 /\ end[r] = 27 /\ r \in Nat
  <2>1. r \in 1 .. 27 /\ end[0] = 0 /\ end[r] = 27
    BY <1>2, Zenon DEF RunsOf
  <2> QED BY <2>1
<1>4. ASSUME NEW k \in 1 .. r
      PROVE  /\ end[k - 1] \in 0 .. 27 /\ end[k] \in 0 .. 27 /\ end[k - 1] < end[k]
             /\ \A t \in 1 .. 27 : end[k - 1] < t /\ t <= end[k] => A[t] = k % 2
  <2>1. \A j \in 1 .. r : RunAt(A, 27, end, j)
    BY <1>2, EveryRun, Zenon
  <2> QED BY <2>1 DEF RunAt
<1>5. ASSUME NEW k \in 1 .. r PROVE end[k] - end[k - 1] <= 2
  <2> DEFINE a == end[k - 1]
             b == end[k]
  <2>1. a \in 0 .. 27 /\ b \in 0 .. 27 /\ \A t \in 1 .. 27 : a < t /\ t <= b => A[t] = k % 2
    BY <1>4
  <2> HIDE DEF a, b
  <2> SUFFICES ASSUME b - a > 2 PROVE FALSE
    BY <2>1 DEF a, b
  <2> DEFINE i == (a + 2) \div 2
  <2>2. i \in 1 .. 13 /\ a < 2 * i /\ 2 * i + 1 <= b /\ 2 * i \in 1 .. 27 /\ 2 * i + 1 \in 1 .. 27
    BY <2>1
  <2> HIDE DEF i
  <2>3. A[2 * i] = k % 2 /\ A[2 * i + 1] = k % 2
    <3>1. a < 2 * i + 1 /\ 2 * i <= b
      BY <2>1, <2>2
    <3> QED BY <2>1, <2>2, <3>1
  <2> QED BY <1>1, <2>2, <2>3, Zenon
<1>6. /\ BiphaseInTime(rx, 1, RC5_UNIT) /\ Len(rx.ticks) = last
      /\ Len(seen) = end[last]
      /\ \A t \in 1 .. 27 : Level(seen, t) = A[t]
  <2>1. ShortRuns(r, end, 1)
    <3> SUFFICES ASSUME NEW k \in 1 .. r PROVE end[k] - end[k - 1] <= 3
      BY Zenon DEF ShortRuns
    <3>1. end[k] - end[k - 1] <= 2 /\ end[k] \in 0 .. 27 /\ end[k - 1] \in 0 .. 27
      BY <1>4, <1>5
    <3> QED BY <3>1
  <2>2. 1 \in {1, 3} /\ 1 <= r /\ 1 - 1 = 0 /\ RC5_UNIT \in {RC5_UNIT, RC6_UNIT}
    BY <1>3
  <2>3. /\ BiphaseInTime(rx, 1, RC5_UNIT) /\ Len(rx.ticks) = LastMark(r)
        /\ Len(seen) = end[LastMark(r)] - end[1 - 1] /\ Len(seen) \in 0 .. 27 - end[1 - 1]
        /\ \A t \in 1 .. 27 - end[1 - 1] : Level(seen, t) = A[end[1 - 1] + t]
    <3>1. Sampled(f, rx.ticks)
      BY DEF f
    <3> QED BY <1>2, <2>1, <2>2, <3>1, LevelsRead
  <2> HIDE DEF seen
  <2>4. end[1 - 1] = 0
    BY <1>3, <2>2
  <2>5. last \in 1 .. r
    BY <1>3 DEF LastMark
  <2>6. end[last] \in 0 .. 27
    BY <1>4, <2>5
  <2>7. Len(seen) = end[last]
    <3> DEFINE l == Len(seen)
               e == end[last]
               z == end[1 - 1]
    <3>1. l = e - z /\ z = 0 /\ e \in 0 .. 27
      BY <2>3, <2>4, <2>6, Zenon
    <3> HIDE DEF l, e, z
    <3>2. l = e
      BY <3>1
    <3> QED BY <3>2 DEF l, e
  <2>8. \A t \in 1 .. 27 : Level(seen, t) = A[t]
    <3> DEFINE z == end[1 - 1]
    <3>1. z = 0 /\ \A t \in 1 .. 27 - z : Level(seen, t) = A[z + t]
      BY <2>3, <2>4, Zenon
    <3> HIDE DEF z
    <3> QED BY <3>1
  <2> QED BY <2>3, <2>7, <2>8
<1>7. Len(seen) \in {26, 27} /\ last \in 1 .. 27 /\ last \in Nat
  <2> HIDE DEF seen
  <2>1. CASE r % 2 = 1
    <3>1. last = r
      BY <1>3, <2>1 DEF LastMark
    <3> QED BY <1>3, <1>6, <3>1
  <2>2. CASE r % 2 = 0
    <3>1. last = r - 1 /\ r \in 1 .. r /\ last \in 1 .. 27
      BY <1>3, <2>2 DEF LastMark
    <3>2. end[r - 1] \in 0 .. 27 /\ end[r - 1] < 27
      BY <1>3, <1>4, <3>1
    <3>3. \A t \in 1 .. 27 : end[r - 1] < t /\ t <= 27 => A[t] = r % 2
      BY <1>3, <1>4, <3>1
    <3>4. ~(end[r - 1] < 26)
      <4>1. A[26] # A[27]
        <5>1. 13 \in 1 .. 13 /\ 2 * 13 = 26 /\ 26 + 1 = 27
          OBVIOUS
        <5> QED BY <1>1, <5>1
      <4>2. 26 \in 1 .. 27 /\ 27 \in 1 .. 27
        OBVIOUS
      <4> QED BY <3>2, <3>3, <4>1, <4>2, SMTT(30)
    <3> QED BY <1>6, <3>1, <3>2, <3>4, SMTT(30)
  <2> QED BY <1>3, <2>1, <2>2
<1>8. RC5BitCount(seen) = 13 /\ \A k \in 1 .. 13 : 1 - Level(seen, 2 * (14 - k)) = w[k]
  <2>1. RC5BitCount(seen) = 13
    <3> DEFINE l == Len(seen)
    <3>1. l = 26 \/ l = 27
      BY <1>7, Zenon
    <3>2. RC5BitCount(seen) = l \div 2
      BY Zenon DEF RC5BitCount
    <3> HIDE DEF l
    <3> QED BY <3>1, <3>2
  <2> HIDE DEF seen
  <2>2. ASSUME NEW k \in 1 .. 13 PROVE 1 - Level(seen, 2 * (14 - k)) = w[k]
    <3>1. 2 * (14 - k) \in 1 .. 27
      OBVIOUS
    <3> QED BY <1>1, <1>6, <3>1
  <2> QED BY <2>1, <2>2
<1>9. IsRC5(rx)
  <2>1. RC5BitCount(seen) = 13
    BY <1>8
  <2>2. \A k \in 1 .. 13 : Level(seen, 2 * k) # Level(seen, 2 * k + 1)
    <3> HIDE DEF seen
    <3> SUFFICES ASSUME NEW k \in 1 .. 13 PROVE Level(seen, 2 * k) # Level(seen, 2 * k + 1)
      OBVIOUS
    <3>1. 2 * k \in 1 .. 27 /\ 2 * k + 1 \in 1 .. 27
      OBVIOUS
    <3> QED BY <1>1, <1>6, <3>1, SMTT(30)
  <2> QED BY <1>6, <2>1, <2>2, Zenon DEF IsRC5
<1> HIDE DEF last, seen
<1>10. rawlen(rx) \in 2 .. 28
  BY <1>6, <1>7 DEF rawlen
<1>11. /\ rx.ticks[1] \in Int /\ rx.ticks[1] <= 37
       /\ rawlen(rx) > 2 => rx.ticks[2] \in Int /\ rx.ticks[2] >= 16
  <2>1. \A k \in 1 .. Len(f) : f[k] = RC5_UNIT * (end[k] - end[k - 1]) /\ Len(f) = last
    BY <1>2, Zenon DEF CodedRuns, last
  <2>2. /\ Len(rx.ticks) = Len(f)
        /\ \A i \in 1 .. Len(f) : /\ i % 2 = 1 => MarkTicks(f[i], rx.ticks[i])
                                  /\ i % 2 # 1 => SpaceTicks(f[i], rx.ticks[i])
    BY Zenon DEF Sampled, f
  <2>3. Len(f) = last
    BY <1>6, <2>2
  <2>4. last <= r
    BY <1>3 DEF LastMark, last
  <2>5. MarkTicks(f[1], rx.ticks[1]) /\ f[1] \in {889, 1778}
    <3>1. 1 \in 1 .. Len(f) /\ 1 \in 1 .. r /\ 1 % 2 = 1
      BY <1>3, <1>7, <2>3
    <3>2. f[1] = RC5_UNIT * (end[1] - end[1 - 1])
      BY <2>1, <3>1
    <3>3. end[1] - end[1 - 1] \in {1, 2}
      <4>1. end[1] \in 0 .. 27 /\ end[1 - 1] \in 0 .. 27 /\ end[1 - 1] < end[1]
        BY <1>4, <3>1
      <4>2. end[1] - end[1 - 1] <= 2
        BY <1>5, <3>1
      <4> QED BY <4>1, <4>2
    <3>4. f[1] \in {889, 1778}
      BY <3>2, <3>3 DEF RC5_UNIT
    <3> QED BY <2>2, <3>1, <3>4
  <2>6. ASSUME rawlen(rx) > 2 PROVE SpaceTicks(f[2], rx.ticks[2]) /\ f[2] \in {889, 1778}
    <3>1. 2 \in 1 .. Len(f) /\ 2 \in 1 .. r /\ 2 % 2 # 1
      <4>1. last >= 2
        BY <1>6, <1>7, <2>6 DEF rawlen
      <4> QED BY <1>3, <1>7, <2>3, <2>4, <4>1
    <3>2. f[2] = RC5_UNIT * (end[2] - end[2 - 1])
      BY <2>1, <3>1
    <3>3. end[2] - end[2 - 1] \in {1, 2}
      <4>1. end[2] \in 0 .. 27 /\ end[2 - 1] \in 0 .. 27 /\ end[2 - 1] < end[2]
        BY <1>4, <3>1
      <4>2. end[2] - end[2 - 1] <= 2
        BY <1>5, <3>1
      <4> QED BY <4>1, <4>2
    <3>4. f[2] \in {889, 1778}
      BY <3>2, <3>3 DEF RC5_UNIT
    <3> QED BY <2>2, <3>1, <3>4
  <2> DEFINE a == rx.ticks[1]
             b == rx.ticks[2]
  <2> HIDE DEF a, b
  <2>7. a \in Int /\ a <= 37
    BY <2>5 DEF MarkTicks, a
  <2>8. rawlen(rx) > 2 => b \in Int /\ b >= 16
    BY <2>6 DEF SpaceTicks, b
  <2> QED BY <2>7, <2>8 DEF a, b
<1>12. ~IsNec(rx) /\ ~IsKaseikyo(rx) /\ ~IsDenon(rx)
  <2>1. ~matchMark(rx.ticks[1], 8960)
    BY <1>11 DEF matchMark, matchTicks, TICKS_LOW, TICKS_HIGH, MARK_EXCESS_MICROS
  <2>2. ~IsNec(rx)
    BY <2>1, HeaderRefusals
  <2>3. rawlen(rx) # 100 /\ rawlen(rx) # 32
    BY <1>10
  <2>4. ~IsKaseikyo(rx) /\ ~IsDenon(rx)
    BY <2>3, Refusals
  <2> QED BY <2>2, <2>4
<1>13. ~IsSony(rx)
  <2>1. rawlen(rx) \notin {26, 32, 42} \/ ~matchSpace(rx.ticks[2], 600)
    BY <1>11 DEF matchSpace, matchTicks, TICKS_LOW, TICKS_HIGH, MARK_EXCESS_MICROS
  <2> QED BY <2>1, HeaderRefusals
<1>14. FirstToTake(rx) = "RC5"
  BY <1>9, <1>12, <1>13, InTurn, Zenon
<1> QED BY <1>8, <1>14 DEF seen

LEMMA RC6Read ==
  ASSUME NEW w \in Word(20), NEW rx, Sampled(RC6Frame(w), rx.ticks)
  PROVE  LET seen == BiphaseLevels(rx, 3, RC6_UNIT)
         IN  /\ FirstToTake(rx) = "RC6" /\ RC6BitCount(seen) = 20
             /\ \A k \in 1 .. 20 : Level(seen, RC6Start(20 - k)) = w[k]
<1> DEFINE A == RC6Levels(w)
           f == RC6Frame(w)
           seen == BiphaseLevels(rx, 3, RC6_UNIT)
<1>1. /\ f = Durations(A, RC6_UNIT) /\ A \in [1 .. 52 -> Bit]
      /\ A[1] = 1 /\ A[2] = 1 /\ A[3] = 1 /\ A[4] = 1 /\ A[5] = 1 /\ A[6] = 1
      /\ A[7] = 0 /\ A[8] = 0 /\ A[9] = 1 /\ A[10] = 0
      /\ \A i \in 1 .. 3 : A[9 + 2 * i] # A[10 + 2 * i]
      /\ A[17] = A[18] /\ A[18] # A[19] /\ A[19] = A[20]
      /\ \A i \in 5 .. 20 : A[11 + 2 * i] # A[12 + 2 * i]
      /\ \A k \in 1 .. 20 : A[8 + RC6Start(20 - k)] = w[k]
  <2>1. /\ f = Durations(A, RC6_UNIT) /\ A \in Word(52)
        /\ \A j \in 1 .. 6 : A[j] = 1
        /\ A[7] = 0 /\ A[8] = 0 /\ A[9] = 1 /\ A[10] = 0
        /\ \A i \in 1 .. 3 : A[9 + 2 * i] = w[21 - i] /\ A[10 + 2 * i] = 1 - w[21 - i]
        /\ A[17] = w[17] /\ A[18] = w[17] /\ A[19] = 1 - w[17] /\ A[20] = 1 - w[17]
        /\ \A i \in 5 .. 20 : A[11 + 2 * i] = w[21 - i] /\ A[12 + 2 * i] = 1 - w[21 - i]
    BY RC6LevelsAre, Zenon
  <2> HIDE DEF A, f
  <2>2. \A j \in 1 .. 20 : w[j] # 1 - w[j]
    BY DEF Word, Bit
  <2>3. A[1] = 1 /\ A[2] = 1 /\ A[3] = 1 /\ A[4] = 1 /\ A[5] = 1 /\ A[6] = 1
    BY <2>1
  <2>4. ASSUME NEW i \in 1 .. 3 PROVE A[9 + 2 * i] # A[10 + 2 * i]
    <3>1. 21 - i \in 1 .. 20
      OBVIOUS
    <3> QED BY <2>1, <2>2, <3>1
  <2>5. ASSUME NEW i \in 5 .. 20 PROVE A[11 + 2 * i] # A[12 + 2 * i]
    <3>1. 21 - i \in 1 .. 20
      OBVIOUS
    <3> QED BY <2>1, <2>2, <3>1
  <2>6. A[17] = A[18] /\ A[18] # A[19] /\ A[19] = A[20]
    <3>1. 17 \in 1 .. 20
      OBVIOUS
    <3> QED BY <2>1, <2>2, <3>1
  <2>7. ASSUME NEW k \in 1 .. 20 PROVE A[8 + RC6Start(20 - k)] = w[k]
    <3>1. CASE k \in 18 .. 20
      <4>1. 21 - k \in 1 .. 3 /\ 8 + RC6Start(20 - k) = 9 + 2 * (21 - k) /\ 21 - (21 - k) = k
        BY <3>1 DEF RC6Start
      <4> QED BY <2>1, <4>1
    <3>2. CASE k = 17
      <4>1. 8 + RC6Start(20 - k) = 17
        BY <3>2 DEF RC6Start
      <4> QED BY <2>1, <3>2, <4>1
    <3>3. CASE k \in 1 .. 16
      <4>1. 21 - k \in 5 .. 20 /\ 8 + RC6Start(20 - k) = 11 + 2 * (21 - k) /\ 21 - (21 - k) = k
        BY <3>3 DEF RC6Start
      <4> QED BY <2>1, <4>1
    <3> QED BY <3>1, <3>2, <3>3
  <2> QED BY <2>1, <2>3, <2>4, <2>5, <2>6, <2>7 DEF Word
<1> HIDE DEF A, f
<1>2. PICK r, end : RunsOf(A, 52, r, end) /\ CodedRuns(f, r, end, RC6_UNIT)
  <2>1. 52 \in Nat /\ 52 >= 1 /\ RC6_UNIT \in Nat
    BY DEF RC6_UNIT
  <2> QED BY <1>1, <2>1, DurationsAreRuns, Zenon
<1> DEFINE last == LastMark(r)
<1>3. /\ r \in 1 .. 52 /\ end[0] = 0 /\ end[r] = 52 /\ r \in Nat
      /\ \A t \in 1 .. 52 : \E k \in 1 .. r : end[k - 1] < t /\ t <= end[k]
  <2>1. /\ r \in 1 .. 52 /\ end[0] = 0 /\ end[r] = 52
        /\ \A t \in 1 .. 52 : \E k \in 1 .. r : end[k - 1] < t /\ t <= end[k]
    BY <1>2, Zenon DEF RunsOf
  <2> QED BY <2>1
<1>4. ASSUME NEW k \in 1 .. r
      PROVE  /\ end[k - 1] \in 0 .. 52 /\ end[k] \in 0 .. 52 /\ end[k - 1] < end[k]
             /\ \A t \in 1 .. 52 : end[k - 1] < t /\ t <= end[k] => A[t] = k % 2
  <2>1. \A j \in 1 .. r : RunAt(A, 52, end, j)
    BY <1>2, EveryRun, Zenon
  <2> QED BY <2>1 DEF RunAt
(* The header: six marks, two spaces and the mark of the start bit. *)
<1> DEFINE Same(k, v, a, b) ==
             /\ k \in 1 .. r /\ v = k % 2 /\ a \in 0 .. 52 /\ end[k - 1] = a
             /\ b \in 0 .. 51 /\ a < b /\ A[b + 1] # v
             /\ \A t \in a + 1 .. b : A[t] = v
<1>5. ASSUME NEW k, NEW v, NEW a, NEW b, Same(k, v, a, b)
      PROVE  end[k] = b /\ k + 1 \in 1 .. r
  <2>1. /\ k \in 1 .. r /\ v = k % 2 /\ a \in 0 .. 52 /\ end[k - 1] = a
        /\ b \in 0 .. 51 /\ a < b /\ A[b + 1] # v
        /\ \A t \in a + 1 .. b : A[t] = v
    BY <1>5, Zenon DEF Same
  <2> HIDE DEF Same
  <2>2. end[k] <= b
    <3>1. b + 1 \in 1 .. 52 /\ end[k - 1] < b + 1
      BY <2>1
    <3>2. ~(b + 1 <= end[k])
      BY <1>4, <2>1, <3>1
    <3>3. end[k] \in 0 .. 52
      BY <1>4, <2>1
    <3> QED BY <2>1, <3>2, <3>3
  <2>3. k # r
    BY <1>3, <2>1, <2>2
  <2>4. k + 1 \in 1 .. r /\ (k + 1) - 1 = k /\ (k + 1) % 2 # k % 2
    BY <1>3, <2>1, <2>3
  <2>5. ~(end[k] < b)
    <3> SUFFICES ASSUME end[k] < b PROVE FALSE
      OBVIOUS
    <3> DEFINE t == end[k] + 1
    <3>1. t \in a + 1 .. b /\ t \in 1 .. 52 /\ end[k] < t
      BY <1>4, <2>1, SMTT(30)
    <3>2. t <= end[k + 1]
      <4>1. end[k] \in 0 .. 52 /\ end[k + 1] \in 0 .. 52 /\ end[k] < end[k + 1]
        BY <1>4, <2>4
      <4> QED BY <4>1
    <3> HIDE DEF t
    <3>3. A[t] = (k + 1) % 2
      BY <1>4, <2>4, <3>1, <3>2
    <3>4. A[t] = k % 2
      BY <2>1, <3>1
    <3> QED BY <2>4, <3>3, <3>4
  <2>6. end[k] \in 0 .. 52
    BY <1>4, <2>1
  <2> QED BY <2>1, <2>2, <2>4, <2>5, <2>6
<1> HIDE DEF Same
<1>6. end[1] = 6 /\ end[2] = 8 /\ end[3] = 9 /\ r >= 4
  <2>1. end[1] = 6 /\ 2 \in 1 .. r
    <3>1. 1 \in 1 .. r /\ end[1 - 1] = 0 /\ 1 = 1 % 2 /\ 1 + 1 = 2
      BY <1>3
    <3>2. \A t \in 0 + 1 .. 6 : A[t] = 1
      <4>1. \A t \in 0 + 1 .. 6 : t = 1 \/ t = 2 \/ t = 3 \/ t = 4 \/ t = 5 \/ t = 6
        OBVIOUS
      <4> QED BY <1>1, <4>1
    <3>3. A[6 + 1] # 1
      BY <1>1
    <3>4. 0 \in 0 .. 52 /\ 6 \in 0 .. 51 /\ 0 < 6
      OBVIOUS
    <3>5. Same(1, 1, 0, 6)
      BY <3>1, <3>2, <3>3, <3>4 DEF Same
    <3> QED BY <1>5, <3>1, <3>5
  <2>2. end[2] = 8 /\ 3 \in 1 .. r
    <3>1. 2 \in 1 .. r /\ end[2 - 1] = 6 /\ 0 = 2 % 2 /\ 2 + 1 = 3
      BY <2>1
    <3>2. \A t \in 6 + 1 .. 8 : A[t] = 0
      <4>1. \A t \in 6 + 1 .. 8 : t = 7 \/ t = 8
        OBVIOUS
      <4> QED BY <1>1, <4>1
    <3>3. A[8 + 1] # 0
      BY <1>1
    <3>4. 6 \in 0 .. 52 /\ 8 \in 0 .. 51 /\ 6 < 8
      OBVIOUS
    <3>5. Same(2, 0, 6, 8)
      BY <3>1, <3>2, <3>3, <3>4 DEF Same
    <3> QED BY <1>5, <3>1, <3>5
  <2>3. end[3] = 9 /\ 4 \in 1 .. r
    <3>1. 3 \in 1 .. r /\ end[3 - 1] = 8 /\ 1 = 3 % 2 /\ 3 + 1 = 4
      BY <2>2
    <3>2. \A t \in 8 + 1 .. 9 : A[t] = 1
      <4>1. \A t \in 8 + 1 .. 9 : t = 9
        OBVIOUS
      <4> QED BY <1>1, <4>1
    <3>3. A[9 + 1] # 1
      BY <1>1
    <3>4. 8 \in 0 .. 52 /\ 9 \in 0 .. 51 /\ 8 < 9
      OBVIOUS
    <3>5. Same(3, 1, 8, 9)
      BY <3>1, <3>2, <3>3, <3>4 DEF Same
    <3> QED BY <1>5, <3>1, <3>5
  <2> QED BY <2>1, <2>2, <2>3, <1>3
<1>7. ASSUME NEW k \in 3 .. r PROVE end[k] - end[k - 1] <= 3
  <2> DEFINE a == end[k - 1]
             b == end[k]
  <2>1. a \in 0 .. 52 /\ b \in 0 .. 52 /\ \A t \in 1 .. 52 : a < t /\ t <= b => A[t] = k % 2
    <3>1. k \in 1 .. r
      BY <1>3
    <3>2. RunAt(A, 52, end, k)
      BY <1>2, <3>1, EveryRun, Zenon
    <3> QED BY <3>2 DEF RunAt
  <2> HIDE DEF a, b
  <2> SUFFICES ASSUME b - a > 3 PROVE FALSE
    BY <2>1 DEF a, b
  <2>2. a >= 8
    <3>1. \A j \in 3 .. r : end[j - 1] >= 8
      <4> DEFINE T == {m \in Nat : m + 3 <= r => end[m + 2] >= 8}
      <4>1. 0 \in T
        <5>1. end[0 + 2] >= 8
          BY <1>6
        <5> QED BY <5>1
      <4>2. ASSUME NEW m \in Nat, m \in T PROVE m + 1 \in T
        <5> SUFFICES ASSUME (m + 1) + 3 <= r PROVE end[(m + 1) + 2] >= 8
          OBVIOUS
        <5>1. m + 3 \in 1 .. r /\ (m + 3) - 1 = m + 2 /\ (m + 1) + 2 = m + 3 /\ m + 3 <= r
          BY <1>3
        <5>2. end[m + 2] >= 8
          BY <4>2, <5>1
        <5>3. /\ end[(m + 3) - 1] \in 0 .. 52 /\ end[m + 3] \in 0 .. 52
              /\ end[(m + 3) - 1] < end[m + 3]
          BY <1>4, <5>1
        <5> QED BY <5>1, <5>2, <5>3
      <4> HIDE DEF T
      <4>3. \A m \in Nat : m \in T
        BY <4>1, <4>2, Climb
      <4> SUFFICES ASSUME NEW j \in 3 .. r PROVE end[j - 1] >= 8
        OBVIOUS
      <4>4. j - 3 \in T /\ (j - 3) + 3 <= r /\ (j - 3) + 2 = j - 1
        BY <1>3, <4>3
      <4> QED BY <4>4 DEF T
    <3> QED BY <3>1 DEF a
  <2>3. CASE a <= 14
    <3>1. CASE a = 8
      <4>1. 9 \in 1 .. 52 /\ 10 \in 1 .. 52 /\ a < 9 /\ 9 <= b /\ a < 10 /\ 10 <= b
        BY <2>1, <3>1
      <4> QED BY <1>1, <2>1, <4>1
    <3>2. CASE a # 8
      <4> DEFINE u == (a - 7) \div 2
      <4>1. /\ u \in 1 .. 3 /\ a < 9 + 2 * u /\ 10 + 2 * u <= b
            /\ 9 + 2 * u \in 1 .. 52 /\ 10 + 2 * u \in 1 .. 52
            /\ a < 10 + 2 * u /\ 9 + 2 * u <= b
        BY <2>1, <2>2, <2>3, <3>2
      <4> HIDE DEF u
      <4> QED BY <1>1, <2>1, <4>1
    <3> QED BY <3>1, <3>2
  <2>4. CASE a > 14 /\ a <= 17
    <3>1. 18 \in 1 .. 52 /\ 19 \in 1 .. 52 /\ a < 18 /\ 18 <= b /\ a < 19 /\ 19 <= b
      BY <2>1, <2>4
    <3> QED BY <1>1, <2>1, <3>1
  <2>5. CASE a > 17
    <3> DEFINE u == IF a <= 20 THEN 5 ELSE (a - 9) \div 2
    <3>1. /\ u \in 5 .. 20 /\ a < 11 + 2 * u /\ 12 + 2 * u <= b
          /\ 11 + 2 * u \in 1 .. 52 /\ 12 + 2 * u \in 1 .. 52
          /\ a < 12 + 2 * u /\ 11 + 2 * u <= b
      BY <2>1, <2>5
    <3> HIDE DEF u
    <3> QED BY <1>1, <2>1, <3>1
  <2> QED BY <2>1, <2>3, <2>4, <2>5
<1>8. /\ BiphaseInTime(rx, 3, RC6_UNIT) /\ Len(rx.ticks) = last
      /\ Len(seen) \in Nat /\ Len(seen) <= 44
      /\ \A t \in 1 .. 44 : Level(seen, t) = A[8 + t]
  <2>1. ShortRuns(r, end, 3)
    BY <1>7, Zenon DEF ShortRuns
  <2>2. 3 \in {1, 3} /\ 3 <= r /\ RC6_UNIT \in {RC5_UNIT, RC6_UNIT}
    BY <1>3, <1>6
  <2>3. /\ BiphaseInTime(rx, 3, RC6_UNIT) /\ Len(rx.ticks) = LastMark(r)
        /\ Len(seen) \in 0 .. 52 - end[3 - 1]
        /\ \A t \in 1 .. 52 - end[3 - 1] : Level(seen, t) = A[end[3 - 1] + t]
    <3>1. Sampled(f, rx.ticks)
      BY DEF f
    <3> QED BY <1>2, <2>1, <2>2, <3>1, LevelsRead
  <2> DEFINE z == end[3 - 1]
             l == Len(seen)
  <2>4. z = 8 /\ l \in 0 .. 52 - z /\ \A t \in 1 .. 52 - z : Level(seen, t) = A[z + t]
    <3>1. 3 - 1 = 2
      OBVIOUS
    <3> QED BY <1>6, <2>3, <3>1, Zenon
  <2> HIDE DEF z, l, seen
  <2>5. l \in Nat /\ l <= 44 /\ \A t \in 1 .. 44 : Level(seen, t) = A[8 + t]
    BY <2>4
  <2> QED BY <2>3, <2>5 DEF l
<1> DEFINE L(t) == Level(seen, t)
<1>9. /\ RC6BitCount(seen) \in Nat /\ RC6BitCount(seen) <= 20
      /\ \A t \in 1 .. 44 : L(t) = A[8 + t]
  BY <1>8, RC6Counts
<1> HIDE DEF seen
<1>10. last \in 3 .. 52 /\ last <= r /\ last % 2 = 1 /\ rawlen(rx) \in 4 .. 53
  <2>1. last \in 3 .. 52 /\ last <= r /\ last % 2 = 1
    BY <1>3, <1>6 DEF LastMark
  <2> HIDE DEF last
  <2> QED BY <1>8, <2>1 DEF rawlen
<1>11. ASSUME NEW k \in 0 .. (RC6BitCount(seen) - 1) PROVE L(RC6Start(k)) # L(RC6End(k))
  <2> HIDE DEF L
  <2>1. k \in 0 .. 19
    BY <1>9
  <2>2. CASE k \in 0 .. 2
    <3>1. /\ RC6Start(k) = 2 * k + 3 /\ RC6End(k) = 2 * k + 4
          /\ 2 * k + 3 \in 1 .. 44 /\ 2 * k + 4 \in 1 .. 44
          /\ 8 + (2 * k + 3) = 9 + 2 * (k + 1) /\ 8 + (2 * k + 4) = 10 + 2 * (k + 1)
          /\ k + 1 \in 1 .. 3
      BY <2>2 DEF RC6Start, RC6End
    <3> QED BY <1>1, <1>9, <3>1
  <2>3. CASE k = 3
    <3>1. RC6Start(k) = 9 /\ RC6End(k) = 12 /\ 9 \in 1 .. 44 /\ 12 \in 1 .. 44
          /\ 8 + 9 = 17 /\ 8 + 12 = 20
      BY <2>3 DEF RC6Start, RC6End
    <3> QED BY <1>1, <1>9, <3>1
  <2>4. CASE k \in 4 .. 19
    <3>1. /\ RC6Start(k) = 2 * k + 5 /\ RC6End(k) = 2 * k + 6
          /\ 2 * k + 5 \in 1 .. 44 /\ 2 * k + 6 \in 1 .. 44
          /\ 8 + (2 * k + 5) = 11 + 2 * (k + 1) /\ 8 + (2 * k + 6) = 12 + 2 * (k + 1)
          /\ k + 1 \in 5 .. 20
      BY <2>4 DEF RC6Start, RC6End
    <3> QED BY <1>1, <1>9, <3>1
  <2> QED BY <2>1, <2>2, <2>3, <2>4
<1>12. L(2) = SPACE /\ L(9) = L(10) /\ L(11) = L(12)
  <2> HIDE DEF L
  <2>1. /\ 2 \in 1 .. 44 /\ 9 \in 1 .. 44 /\ 10 \in 1 .. 44 /\ 11 \in 1 .. 44 /\ 12 \in 1 .. 44
        /\ 8 + 2 = 10 /\ 8 + 9 = 17 /\ 8 + 10 = 18 /\ 8 + 11 = 19 /\ 8 + 12 = 20
    OBVIOUS
  <2> QED BY <1>1, <1>9, <2>1 DEF SPACE
(* The ticks of the header, of the start bit and of the last mark. *)
<1> DEFINE t1 == rx.ticks[1]
           t2 == rx.ticks[2]
           t3 == rx.ticks[3]
           t4 == rx.ticks[last]
<1>13. /\ MarkTicks(2664, t1) /\ SpaceTicks(888, t2) /\ MarkTicks(444, t3)
       /\ MarkTicks(444, t4) \/ MarkTicks(888, t4) \/ MarkTicks(1332, t4)
  <2>1. \A k \in 1 .. Len(f) : f[k] = RC6_UNIT * (end[k] - end[k - 1])
    BY <1>2, Zenon DEF CodedRuns
  <2>2. /\ Len(f) = last
        /\ \A i \in 1 .. Len(f) : /\ i % 2 = 1 => MarkTicks(f[i], rx.ticks[i])
                                  /\ i % 2 # 1 => SpaceTicks(f[i], rx.ticks[i])
    BY <1>2, Zenon DEF Sampled, f, CodedRuns
  <2> HIDE DEF last, t1, t2, t3, t4
  <2>3. /\ \A k \in 1 .. last : f[k] = RC6_UNIT * (end[k] - end[k - 1])
        /\ \A i \in 1 .. last : /\ i % 2 = 1 => MarkTicks(f[i], rx.ticks[i])
                                /\ i % 2 # 1 => SpaceTicks(f[i], rx.ticks[i])
    BY <2>1, <2>2, Zenon
  <2>4. MarkTicks(2664, t1)
    <3>1. 1 \in 1 .. last /\ 1 % 2 = 1 /\ 1 - 1 = 0
      BY <1>10
    <3>2. f[1] = 2664
      BY <1>3, <1>6, <2>3, <3>1 DEF RC6_UNIT
    <3> QED BY <2>3, <3>1, <3>2 DEF t1
  <2>5. SpaceTicks(888, t2)
    <3>1. 2 \in 1 .. last /\ 2 % 2 # 1 /\ 2 - 1 = 1
      BY <1>10
    <3>2. f[2] = 888
      BY <1>6, <2>3, <3>1 DEF RC6_UNIT
    <3> QED BY <2>3, <3>1, <3>2 DEF t2
  <2>6. MarkTicks(444, t3)
    <3>1. 3 \in 1 .. last /\ 3 % 2 = 1 /\ 3 - 1 = 2
      BY <1>10
    <3>2. f[3] = 444
      BY <1>6, <2>3, <3>1 DEF RC6_UNIT
    <3> QED BY <2>3, <3>1, <3>2 DEF t3
  <2>7. MarkTicks(444, t4) \/ MarkTicks(888, t4) \/ MarkTicks(1332, t4)
    <3>1. last \in 1 .. last /\ last % 2 = 1 /\ last \in 1 .. r /\ last \in 3 .. r
      BY <1>3, <1>10
    <3>2. end[last] - end[last - 1] \in {1, 2, 3}
      <4>1. end[last - 1] \in 0 .. 52 /\ end[last] \in 0 .. 52 /\ end[last - 1] < end[last]
        BY <1>4, <3>1
      <4>2. end[last] - end[last - 1] <= 3
        BY <1>7, <3>1
      <4> QED BY <4>1, <4>2
    <3>3. f[last] \in {444, 888, 1332}
      <4>1. f[last] = RC6_UNIT * (end[last] - end[last - 1])
        BY <2>3, <3>1
      <4> QED BY <3>2, <4>1 DEF RC6_UNIT
    <3>4. MarkTicks(f[last], t4)
      BY <2>3, <3>1, Zenon DEF t4
    <3> QED BY <3>3, <3>4
  <2> QED BY <2>4, <2>5, <2>6, <2>7
<1> HIDE DEF t1, t2, t3, t4
<1>14. /\ matchMark(t1, 2664) /\ matchSpace(t2, 888) /\ ~matchMark(t1, 8960) /\ ~matchSpace(t2, 600)
       /\ t3 \in Int /\ t3 < 12 /\ ~matchMark(t4, 260)
  BY <1>13 DEF MarkTicks, SpaceTicks, matchMark, matchSpace, matchTicks, TICKS_LOW, TICKS_HIGH,
               MARK_EXCESS_MICROS
<1>15. IsRC6(rx)
  <2>1. 6 * RC6_UNIT = 2664 /\ 2 * RC6_UNIT = 888 /\ rawlen(rx) > 3
    BY <1>10 DEF RC6_UNIT
  <2>2. matchMark(rx.ticks[1], 6 * RC6_UNIT) /\ matchSpace(rx.ticks[2], 2 * RC6_UNIT)
    BY <1>14, <2>1 DEF t1, t2
  <2>3. rawlen(rx) > 3 /\ BiphaseInTime(rx, 3, RC6_UNIT)
    BY <1>8, <2>1
  <2> QED BY <1>11, <1>12, <2>2, <2>3, Zenon DEF IsRC6, seen
<1>16. ~IsRC5(rx)
  <2>1. 3 \in 1 .. Len(rx.ticks) /\ Len(rx.ticks) \in Nat
    <3> DEFINE l == Len(rx.ticks)
    <3>1. l = last
      BY <1>8, Zenon
    <3> HIDE DEF l, last
    <3>2. 3 \in 1 .. l /\ l \in Nat
      BY <1>10, <3>1
    <3> QED BY <3>2 DEF l
  <2> QED BY <1>14, <2>1, NotRC5 DEF t3
<1>17. ~IsNec(rx) /\ ~IsKaseikyo(rx) /\ ~IsDenon(rx) /\ ~IsSony(rx)
  <2>1. ~IsNec(rx)
    BY <1>14, HeaderRefusals DEF t1
  <2>2. ~IsSony(rx)
    BY <1>14, HeaderRefusals DEF t2
  <2>3. ~IsKaseikyo(rx)
    <3>1. rawlen(rx) # 100
      BY <1>10
    <3> QED BY <3>1, Refusals
  <2>4. ~IsDenon(rx)
    <3>1. ~matchMark(rx.ticks[Len(rx.ticks)], 260)
      <4>1. rx.ticks[Len(rx.ticks)] = t4
        BY <1>8, Zenon DEF t4
      <4> QED BY <1>14, <4>1
    <3> QED BY <3>1, Refusals
  <2> QED BY <2>1, <2>2, <2>3, <2>4
<1>18. FirstToTake(rx) = "RC6"
  BY <1>15, <1>16, <1>17, InTurn, Zenon
<1>19. RC6BitCount(seen) = 20
  <2>1. Len(seen) >= 43
    <3> SUFFICES ASSUME Len(seen) < 43 PROVE FALSE
      BY <1>8 DEF seen
    <3>1. L(43) = SPACE /\ L(44) = SPACE
      BY <1>8 DEF L, Level
    <3>2. L(43) = A[8 + 43] /\ L(44) = A[8 + 44]
      <4> HIDE DEF L
      <4>1. 43 \in 1 .. 44 /\ 44 \in 1 .. 44
        OBVIOUS
      <4> QED BY <1>9, <4>1
    <3>3. A[8 + 43] # A[8 + 44]
      <4>1. 20 \in 5 .. 20 /\ 11 + 2 * 20 = 8 + 43 /\ 12 + 2 * 20 = 8 + 44
        OBVIOUS
      <4> QED BY <1>1, <4>1
    <3> QED BY <3>1, <3>2, <3>3
  <2>2. Len(seen) \in Nat
    BY <1>8
  <2>3. 20 <= RC6BitCount(seen)
    BY <2>1, <2>2, RC6Counts
  <2> QED BY <1>9, <2>3
<1>20. ASSUME NEW k \in 1 .. 20 PROVE L(RC6Start(20 - k)) = w[k]
  <2> HIDE DEF L
  <2>1. RC6Start(20 - k) \in 1 .. 44
    BY DEF RC6Start
  <2> QED BY <1>1, <1>9, <2>1
<1> QED BY <1>18, <1>19, <1>20 DEF seen, L

----------------------------------------------------------------------------
(* The invariant, whichever keys there are.                                *)

(* Every emission since the last frame stands for the code that is stored, *)
(* and the toggle bit of the last one is the one remembered.               *)
Emitted ==
  \/ emissions = <<>>
  \/ \E e : /\ emissions = <<e>> /\ learned # <<>>
            /\ UsesToggle(learned[1]) => e = Mid_IrSendCommon(learned[1], sLastSendToggleValue)
  \/ \E e, f : /\ emissions = <<e, f>> /\ learned # <<>>
               /\ UsesToggle(learned[1]) =>
                    /\ e = Mid_IrSendCommon(learned[1], 1 - sLastSendToggleValue)
                    /\ f = Mid_IrSendCommon(learned[1], sLastSendToggleValue)

RelayInv ==
  /\ key \in Keys /\ Typed(decodedIRData) /\ sLastSendToggleValue \in Bit
  /\ learned \in {<<>>, <<decodedIRData>>} /\ Emitted

LEMMA SampledFrame ==
  ASSUME NEW k \in Keys, NEW frame \in k.forms \union {k.held}, NEW pauses,
         NEW phase \in Phases, NEW excess \in Excesses, NEW pause \in pauses
  PROVE  LET rx == Received(frame, pause, phase, excess)
         IN  /\ frame \in Seq(Nat) /\ rx.pause = pause /\ Sampled(frame, rx.ticks)
             /\ Len(rx.ticks) \in Nat
<1>1. frame \in Seq(Nat)
  BY RelayAssumption, Zenon
<1>2. phase \in 0 .. 49 /\ excess \in 10 .. 50
  BY RelayAssumption DEF MICROS_PER_TICK
<1> DEFINE rx == Received(frame, pause, phase, excess)
<1>3. rx.pause = pause /\ Sampled(frame, rx.ticks)
  BY <1>1, <1>2, TicksOf, Zenon
<1> HIDE DEF rx
<1>4. Len(rx.ticks) \in Nat
  BY <1>1, <1>3 DEF Sampled
<1> QED BY <1>1, <1>3, <1>4, Zenon DEF rx

LEMMA LearnTyped ==
  ASSUME RelayInv, NEW k \in Keys, NEW how, NEW frame \in k.forms \union {k.held}, NEW pauses,
         Learn(k, how, frame, pauses)
  PROVE  RelayInv'
<1>1. PICK pause \in pauses, phase \in Phases, excess \in Excesses :
        decodedIRData' = Mid_IrRemoteDecode(Received(frame, pause, phase, excess), decodedIRData)
  BY Zenon DEF Learn
<1>2. Typed(decodedIRData')
  <2> DEFINE rx == Received(frame, pause, phase, excess)
  <2>1. Len(rx.ticks) \in Nat
    BY SampledFrame, Zenon
  <2> HIDE DEF rx
  <2>2. Typed(decodedIRData) /\ decodedIRData' = Mid_IrRemoteDecode(rx, decodedIRData)
    BY <1>1, Zenon DEF RelayInv, rx
  <2> QED BY <2>1, <2>2, DecodedTyped, Zenon
<1>3. /\ key' = k /\ sLastSendToggleValue' = sLastSendToggleValue /\ emissions' = <<>>
      /\ learned' \in {<<>>, <<decodedIRData'>>}
  BY Zenon DEF Learn
<1>4. Emitted'
  BY <1>3, Zenon DEF Emitted
<1>5. sLastSendToggleValue \in Bit
  BY Zenon DEF RelayInv
<1>6. Typed(decodedIRData)'
  BY <1>2, Zenon DEF Typed
<1> QED BY <1>3, <1>4, <1>5, <1>6, Zenon DEF RelayInv, Bit

LEMMA Appended == \A x, y : Append(<<x>>, y) = <<x, y>>
<1> SUFFICES ASSUME NEW x, NEW y PROVE Append(<<x>>, y) = <<x, y>>
  OBVIOUS
<1> DEFINE S == {x, y}
           s == <<x>>
           t == Append(s, y)
<1>1. s \in Seq(S) /\ Len(s) = 1 /\ s[1] = x /\ y \in S
  OBVIOUS
<1> HIDE DEF s, S
<1>2. t \in Seq(S) /\ Len(t) = Len(s) + 1
  BY <1>1
<1>3. t[1] = x
  BY <1>1
<1>4. t[Len(s) + 1] = y
  BY <1>1, AppendProperties, Zenon
<1> HIDE DEF t
<1>5. t = <<x, y>>
  BY <1>1, <1>2, <1>3, <1>4
<1> QED BY <1>5, Zenon DEF t, s

LEMMA EmitTyped ==
  ASSUME RelayInv, Emit PROVE RelayInv'
<1>1. /\ key' = key /\ decodedIRData' = decodedIRData /\ learned' = learned
      /\ learned # <<>> /\ Len(emissions) < 2
  BY Zenon DEF Emit
<1> DEFINE d == learned[1]
           toggle == NextToggle(d)
           e == Mid_IrSendCommon(d, toggle)
<1>2. /\ emissions' = Append(emissions, e)
      /\ sLastSendToggleValue' = IF UsesToggle(d) THEN toggle ELSE sLastSendToggleValue
  BY Zenon DEF Emit
<1>3. sLastSendToggleValue \in Bit /\ UsesToggle(d) => toggle = 1 - sLastSendToggleValue
  BY Zenon DEF RelayInv, UsesToggle, NextToggle
<1>4. sLastSendToggleValue \in Bit /\ (toggle = 1 - sLastSendToggleValue => toggle \in Bit)
      /\ (toggle = 1 - sLastSendToggleValue => 1 - toggle = sLastSendToggleValue)
  <2> HIDE DEF toggle
  <2>1. sLastSendToggleValue \in {0, 1}
    BY Zenon DEF RelayInv, Bit
  <2> QED BY <2>1 DEF Bit
<1> HIDE DEF toggle
<1>5. sLastSendToggleValue' \in Bit
  BY <1>2, <1>3, <1>4, Zenon
<1>6. Emitted'
  <2>1. CASE emissions = <<>>
    <3> HIDE DEF e
    <3>1. emissions' = <<e>>
      BY <1>2, <2>1
    <3>2. UsesToggle(d) => e = Mid_IrSendCommon(d, sLastSendToggleValue')
      BY <1>2, Zenon DEF e
    <3> QED BY <1>1, <3>1, <3>2, Zenon DEF Emitted
  <2>2. CASE \E b : emissions = <<b>> /\ (UsesToggle(d) =>
                                            b = Mid_IrSendCommon(d, sLastSendToggleValue))
    <3>1. PICK b : emissions = <<b>> /\ (UsesToggle(d) =>
                                           b = Mid_IrSendCommon(d, sLastSendToggleValue))
      BY <2>2
    <3>2. emissions' = <<b, e>>
      <4> HIDE DEF e
      <4>1. emissions = <<b>> /\ emissions' = Append(emissions, e)
        BY <1>2, <3>1, Zenon
      <4> QED BY <4>1, Appended, Zenon
    <3>3. UsesToggle(d) => /\ e = Mid_IrSendCommon(d, sLastSendToggleValue')
                           /\ b = Mid_IrSendCommon(d, 1 - sLastSendToggleValue')
      BY <1>2, <1>3, <1>4, <3>1, Zenon
    <3> QED BY <1>1, <3>2, <3>3, Zenon DEF Emitted
  <2>3. CASE \E b, c : emissions = <<b, c>>
    BY <1>1, <2>3
  <2> QED BY <2>1, <2>2, <2>3, Zenon DEF RelayInv, Emitted
<1> QED BY <1>1, <1>5, <1>6, Zenon DEF RelayInv, Typed

LEMMA RelayStep == RelayInv /\ [Next]_vars => RelayInv'
<1> SUFFICES ASSUME RelayInv, [Next]_vars PROVE RelayInv'
  OBVIOUS
<1>1. key \in Keys
  BY Zenon DEF RelayInv
<1>2. CASE Press
  <2>1. PICK k \in Keys : \E frame \in k.forms : Learn(k, "press", frame, Pauses)
    BY <1>2, Zenon DEF Press
  <2>2. PICK frame \in k.forms : Learn(k, "press", frame, Pauses)
    BY <2>1, Zenon
  <2>3. frame \in k.forms \union {k.held}
    OBVIOUS
  <2> QED BY <2>2, <2>3, LearnTyped, Zenon
<1>3. CASE Hold
  <2>1. Learn(key, "hold", key.held, RepeatPauses) /\ key.held \in key.forms \union {key.held}
    BY <1>3, Zenon DEF Hold
  <2> QED BY <1>1, <2>1, LearnTyped, Zenon
<1>4. CASE HoldUnheard
  <2>1. PICK k \in Keys : Learn(k, "unheard", k.held, RepeatPauses)
    BY <1>4, Zenon DEF HoldUnheard
  <2>2. k.held \in k.forms \union {k.held}
    OBVIOUS
  <2> QED BY <2>1, <2>2, LearnTyped, Zenon
<1>5. CASE Emit
  BY <1>5, EmitTyped
<1>6. CASE UNCHANGED vars
  BY <1>6, Zenon DEF vars, RelayInv, Emitted, Typed
<1> QED BY <1>2, <1>3, <1>4, <1>5, <1>6, Zenon DEF Next

LEMMA RelayInit == Init => RelayInv
<1> SUFFICES ASSUME Init PROVE RelayInv
  OBVIOUS
<1>1. /\ key \in Keys /\ decodedIRData = Blank /\ sLastSendToggleValue = 1 /\ learned = <<>>
      /\ emissions = <<>>
  BY Zenon DEF Init
<1>2. Typed(decodedIRData)
  BY <1>1, BlankTyped, Zenon
<1> QED BY <1>1, <1>2, Zenon DEF RelayInv, Emitted, Bit

----------------------------------------------------------------------------
(* What the frames of each protocol are decoded to.                        *)

(* f is a frame of the protocol p: some word of that protocol, as the      *)
(* protocol puts a word on the air.                                        *)
NecFrame(p, f) ==
  \E w \in Word(32) : p = NecProtocol(w) /\ f = sendPulseDistanceWidth(NECProtocolConstants, w)

KaseikyoFrame(p, f) ==
  \E w \in Word(48) : /\ p = KaseikyoProtocol(SubSeq(w, 1, 16))
                      /\ f = sendPulseDistanceWidth(KaseikyoProtocolConstants, w)

DenonFrame(p, f) ==
  \E w \in Word(15) : /\ w[14] = 0 /\ p = IF w[15] = 1 THEN "SHARP" ELSE "DENON"
                      /\ f = sendPulseDistanceWidthData(DenonProtocolConstants, w)

SonyFrame(p, f) ==
  \E n \in {12, 15, 20} : \E w \in Word(n) :
    p = "SONY" /\ f = sendPulseDistanceWidth(SonyProtocolConstants, w)

BiphaseFrame(p, f) ==
  \/ \E w \in Word(13) : p = "RC5" /\ f = sendBiphaseData(RC5_UNIT, w)
  \/ \E w \in Word(20) : p = "RC6" /\ f = RC6Frame(w)

LGFrame(p, f) ==
  \E w \in Word(28) : p = "LG" /\ f = sendPulseDistanceWidth(LGProtocolConstants, w)

JVCFrame(p, f) ==
  \E w \in Word(16) : p = "JVC" /\ f = sendPulseDistanceWidth(JVCProtocolConstants, w)

SamsungFrame(p, f) ==
  \E n \in {32, 48} : \E w \in Word(n) :
    /\ p = IF n = 48 THEN "SAMSUNG48" ELSE "SAMSUNG"
    /\ f = sendPulseDistanceWidth(SamsungProtocolConstants, w)

RareFrame(p, f) ==
  \/ \E w \in Word(16) : p = "FAST" /\ f = sendPulseDistanceWidth(FASTProtocolConstants, w)
  \/ \E w \in Word(32) :
       p = "WHYNTER" /\ f = sendPulseDistanceWidth(WhynterProtocolConstants, w)
  \/ \E w \in Word(16) : p = "LEGO_PF" /\ f = sendPulseDistanceWidth(LegoProtocolConstants, w)
  \/ \E w \in Word(16) : /\ IsChecked(w, 0) /\ p = "BOSEWAVE"
                         /\ f = sendPulseDistanceWidth(BoseWaveProtocolConstants, w)
  \/ \E id \in Word(31), magnitude \in Word(9), checksum \in Word(8) :
       p = "MAGIQUEST" /\ f = MagiQuestCoded(id, magnitude, checksum)

IsFrameOf(p, f) ==
  \/ NecFrame(p, f)
  \/ KaseikyoFrame(p, f)
  \/ DenonFrame(p, f)
  \/ SonyFrame(p, f)
  \/ BiphaseFrame(p, f)
  \/ LGFrame(p, f)
  \/ JVCFrame(p, f)
  \/ SamsungFrame(p, f)
  \/ RareFrame(p, f)

(* What FrameReadByItsDecoder asks of the code d of a frame of p.          *)
ReadAs(p, d) ==
  \/ d.protocol = p
  \/ d.protocol = "NEC2" /\ d.isRepeat /\ p \in {"NEC", "ONKYO", "APPLE"}

(* The decoder that takes the frame is the one that runs.                  *)
LEMMA Dispatched ==
  ASSUME NEW rx, NEW last
  PROVE  LET decoder == FirstToTake(rx)
             d == Mid_IrRemoteDecode(rx, last)
         IN  /\ decoder = "Nec" => d = decodeNec(rx, last)
             /\ decoder = "Kaseikyo" => d = decodeKaseikyo(rx)
             /\ decoder = "Denon" => d = decodeDenon(rx, last)
             /\ decoder = "Sony" => d = decodeSony(rx)
             /\ decoder = "RC5" => d = decodeRC5(rx)
             /\ decoder = "RC6" => d = decodeRC6(rx)
             /\ decoder = "LG" => d = decodeLG(rx, last)
             /\ decoder = "JVC" => d = decodeJVC(rx, last)
             /\ decoder = "Samsung" => d = decodeSamsung(rx, last)
             /\ decoder = "FAST" => d = decodeFAST(rx)
             /\ decoder = "Whynter" => d = decodeWhynter(rx)
             /\ decoder = "Lego" => d = decodeLegoPowerFunctions(rx)
             /\ decoder = "BoseWave" => d = decodeBoseWave(rx)
             /\ decoder = "MagiQuest" => d = decodeMagiQuest(rx)
<1> DEFINE decoder == FirstToTake(rx)
<1>1. Mid_IrRemoteDecode(rx, last)
        = CASE decoder = "Nec" -> decodeNec(rx, last)
            [] decoder = "Kaseikyo" -> decodeKaseikyo(rx)
            [] decoder = "Denon" -> decodeDenon(rx, last)
            [] decoder = "Sony" -> decodeSony(rx)
            [] decoder = "RC5" -> decodeRC5(rx)
            [] decoder = "RC6" -> decodeRC6(rx)
            [] decoder = "LG" -> decodeLG(rx, last)
            [] decoder = "JVC" -> decodeJVC(rx, last)
            [] decoder = "Samsung" -> decodeSamsung(rx, last)
            [] decoder = "FAST" -> decodeFAST(rx)
            [] decoder = "Whynter" -> decodeWhynter(rx)
            [] decoder = "Lego" -> decodeLegoPowerFunctions(rx)
            [] decoder = "BoseWave" -> decodeBoseWave(rx)
            [] decoder = "MagiQuest" -> decodeMagiQuest(rx)
            [] decoder = "DistanceWidth" -> decodeDistanceWidth(rx)
            [] decoder = "Hash" -> Blank
  BY Zenon DEF Mid_IrRemoteDecode
<1> HIDE DEF decoder
<1> QED BY <1>1 DEF decoder

LEMMA FirstFields ==
  ASSUME NEW p, NEW a, NEW c, NEW raw, NEW n
  PROVE  Code(p, a, c, raw, n, FALSE).protocol = p
BY DEF Code, Blank

LEMMA NecKeyRead ==
  ASSUME NEW p, NEW f, NecFrame(p, f), NEW rx, Sampled(f, rx.ticks), NEW last
  PROVE  ReadAs(p, Mid_IrRemoteDecode(rx, last))
<1>1. PICK w \in Word(32) : /\ p = NecProtocol(w)
                            /\ f = sendPulseDistanceWidth(NECProtocolConstants, w)
  BY Zenon DEF NecFrame
<1> DEFINE u == decodePulseDistanceWidthData(rx, NECProtocolConstants, 32, 3)
           short == checkForRepeat(rx, 70100)
           protocol == NecProtocol(u)
           address == IF protocol = "APPLE" THEN Byte(u, 3)
                      ELSE IF IsChecked(u, 0) THEN Byte(u, 0) ELSE SubSeq(u, 1, 16)
           command == IF protocol = "ONKYO" THEN SubSeq(u, 17, 32) ELSE Byte(u, 2)
           code == Code(IF short THEN "NEC2" ELSE protocol, address, command, u, 32, short)
<1>2. FirstToTake(rx) = "Nec" /\ rawlen(rx) = 68 /\ u = w
  BY <1>1, NECRead
<1>3. decodeNec(rx, last) = IF rawlen(rx) = 4 THEN LastAgain(last.protocol, last) ELSE code
  BY SMT DEF decodeNec
<1>4. protocol = p
  BY <1>1, <1>2, Zenon
<1>5. code.protocol = (IF short THEN "NEC2" ELSE protocol) /\ code.isRepeat = short
  <2> HIDE DEF u, short, protocol, address, command
  <2> QED BY CodeFields, SMT
<1>6. protocol \in {"NEC", "ONKYO", "APPLE"}
  BY Zenon DEF NecProtocol
<1> HIDE DEF code, u, short, protocol, address, command
<1>7. decodeNec(rx, last) = code
  BY <1>2, <1>3
<1>8. Mid_IrRemoteDecode(rx, last) = code
  BY <1>2, <1>7, Dispatched, Zenon
<1> QED BY <1>4, <1>5, <1>6, <1>8, Zenon DEF ReadAs

LEMMA KaseikyoKeyRead ==
  ASSUME NEW p, NEW f, KaseikyoFrame(p, f), NEW rx, Sampled(f, rx.ticks), NEW last
  PROVE  ReadAs(p, Mid_IrRemoteDecode(rx, last))
<1>1. PICK w \in Word(48) : /\ p = KaseikyoProtocol(SubSeq(w, 1, 16))
                            /\ f = sendPulseDistanceWidth(KaseikyoProtocolConstants, w)
  BY Zenon DEF KaseikyoFrame
<1> DEFINE u == decodePulseDistanceWidthData(rx, KaseikyoProtocolConstants, 48, 3)
           address == SubSeq(u, 21, 32)
           command == Byte(u, 4)
           raw == SubSeq(u, 17, 48)
           repeat == checkForRepeat(rx, 92500)
           code == Code(KaseikyoProtocol(SubSeq(u, 1, 16)), address, command, raw, 48, repeat)
<1>2. FirstToTake(rx) = "Kaseikyo" /\ u = w
  BY <1>1, KaseikyoRead
<1>3. decodeKaseikyo(rx) = code
  BY SMT DEF decodeKaseikyo
<1>4. KaseikyoProtocol(SubSeq(u, 1, 16)) = p
  <2> HIDE DEF u
  <2> QED BY <1>1, <1>2, SMT
<1>5. code.protocol = KaseikyoProtocol(SubSeq(u, 1, 16))
  <2> HIDE DEF u, address, command, raw, repeat
  <2> QED BY CodeFields, SMT
<1> HIDE DEF code
<1>6. Mid_IrRemoteDecode(rx, last) = code
  BY <1>2, <1>3, Dispatched, Zenon
<1> HIDE DEF u
<1> QED BY <1>4, <1>5, <1>6, SMT DEF ReadAs

LEMMA DenonKeyRead ==
  ASSUME NEW p, NEW f, DenonFrame(p, f), NEW rx, Sampled(f, rx.ticks), NEW last
  PROVE  ReadAs(p, Mid_IrRemoteDecode(rx, last))
<1>1. PICK w \in Word(15) : /\ w[14] = 0 /\ p = IF w[15] = 1 THEN "SHARP" ELSE "DENON"
                            /\ f = sendPulseDistanceWidthData(DenonProtocolConstants, w)
  BY Zenon DEF DenonFrame
<1> DEFINE u == decodePulseDistanceWidthData(rx, DenonProtocolConstants, 15, 1)
           frameBits == <<u[14], u[15]>>
           follows == checkForRepeat(rx, 56250)
           sharp == frameBits = <<0, 1>> \/ (follows /\ frameBits = <<1, 0>>)
           address == SubSeq(u, 1, 5)
           command == IF follows /\ u[14] = 1 THEN last.command ELSE SubSeq(u, 6, 13)
           code == Code(IF sharp THEN "SHARP" ELSE "DENON", address, command, u, 15, FALSE)
<1>2. FirstToTake(rx) = "Denon" /\ u = w
  BY <1>1, DenonRead
<1>3. decodeDenon(rx, last) = code
  BY SMT DEF decodeDenon
<1>4. sharp <=> w[15] = 1
  <2> HIDE DEF u, follows
  <2> QED BY <1>1, <1>2, SMT
<1>5. code.protocol = IF sharp THEN "SHARP" ELSE "DENON"
  <2> HIDE DEF u, sharp, address, command
  <2> QED BY FirstFields, Zenon
<1> HIDE DEF code, sharp
<1>6. Mid_IrRemoteDecode(rx, last) = code
  BY <1>2, <1>3, Dispatched, Zenon
<1> HIDE DEF u
<1> QED BY <1>1, <1>4, <1>5, <1>6, SMT DEF ReadAs

LEMMA SonyKeyRead ==
  ASSUME NEW p, NEW f, SonyFrame(p, f), NEW rx, Sampled(f, rx.ticks), NEW last
  PROVE  ReadAs(p, Mid_IrRemoteDecode(rx, last))
<1>1. PICK n \in {12, 15, 20} : \E w \in Word(n) :
        p = "SONY" /\ f = sendPulseDistanceWidth(SonyProtocolConstants, w)
  BY Zenon DEF SonyFrame
<1>2. p = "SONY" /\ FirstToTake(rx) = "Sony"
  BY <1>1, SonyRead
<1>3. decodeSony(rx).protocol = "SONY"
  BY CodeFields, SMT DEF decodeSony
<1>4. Mid_IrRemoteDecode(rx, last) = decodeSony(rx)
  BY <1>2, Dispatched, Zenon
<1> QED BY <1>2, <1>3, <1>4, Zenon DEF ReadAs

LEMMA BiphaseKeyRead ==
  ASSUME NEW p, NEW f, BiphaseFrame(p, f), NEW rx, Sampled(f, rx.ticks), NEW last
  PROVE  ReadAs(p, Mid_IrRemoteDecode(rx, last))
<1>1. CASE \E w \in Word(13) : p = "RC5" /\ f = sendBiphaseData(RC5_UNIT, w)
  <2>1. FirstToTake(rx) = "RC5"
    BY <1>1, RC5Read, Zenon
  <2>2. Mid_IrRemoteDecode(rx, last) = decodeRC5(rx)
    BY <2>1, Dispatched, Zenon
  <2>3. decodeRC5(rx).protocol = "RC5"
    BY CodeFields, SMT DEF decodeRC5
  <2> QED BY <1>1, <2>2, <2>3, Zenon DEF ReadAs
<1>2. CASE \E w \in Word(20) : p = "RC6" /\ f = RC6Frame(w)
  <2>1. FirstToTake(rx) = "RC6"
    BY <1>2, RC6Read, Zenon
  <2>2. Mid_IrRemoteDecode(rx, last) = decodeRC6(rx)
    BY <2>1, Dispatched, Zenon
  <2>3. decodeRC6(rx).protocol = "RC6"
    BY CodeFields, SMT DEF decodeRC6
  <2> QED BY <1>2, <2>2, <2>3, Zenon DEF ReadAs
<1> QED BY <1>1, <1>2, Zenon DEF BiphaseFrame

LEMMA LGKeyRead ==
  ASSUME NEW p, NEW f, LGFrame(p, f), NEW rx, Sampled(f, rx.ticks), NEW last
  PROVE  ReadAs(p, Mid_IrRemoteDecode(rx, last))
<1>1. PICK w \in Word(28) : p = "LG" /\ f = sendPulseDistanceWidth(LGProtocolConstants, w)
  BY Zenon DEF LGFrame
<1>2. /\ FirstToTake(rx) = "LG" /\ rawlen(rx) = 60
      /\ LGConstants(rx) = LGProtocolConstants
  BY <1>1, LGRead, Zenon
<1> DEFINE u == decodePulseDistanceWidthData(rx, LGProtocolConstants, 28, 3)
           protocol == IF LGConstants(rx) = LGProtocolConstants THEN "LG" ELSE "LG2"
           address == SubSeq(u, 21, 28)
           command == SubSeq(u, 5, 20)
           code == Code(protocol, address, command, u, 28, FALSE)
<1>3. decodeLG(rx, last) = IF rawlen(rx) = 4 THEN LastAgain(last.protocol, last) ELSE code
  BY SMT DEF decodeLG
<1>4. protocol = "LG"
  BY <1>2, Zenon
<1>5. code.protocol = protocol
  <2> HIDE DEF u, protocol, address, command
  <2> QED BY FirstFields, Zenon
<1> HIDE DEF code, protocol
<1>6. decodeLG(rx, last) = code
  BY <1>2, <1>3, SMT
<1>7. Mid_IrRemoteDecode(rx, last) = code
  BY <1>2, <1>6, Dispatched, Zenon
<1> QED BY <1>1, <1>4, <1>5, <1>7, Zenon DEF ReadAs

LEMMA JVCKeyRead ==
  ASSUME NEW p, NEW f, JVCFrame(p, f), NEW rx, Sampled(f, rx.ticks), NEW last
  PROVE  ReadAs(p, Mid_IrRemoteDecode(rx, last))
<1>1. PICK w \in Word(16) : p = "JVC" /\ f = sendPulseDistanceWidth(JVCProtocolConstants, w)
  BY Zenon DEF JVCFrame
<1>2. FirstToTake(rx) = "JVC" /\ rawlen(rx) = 36
  BY <1>1, JVCRead, Zenon
<1> DEFINE u == decodePulseDistanceWidthData(rx, JVCProtocolConstants, 16, 3)
           repeats == rx.pause < 23788 /\ matchMark(rx.ticks[1], 526) /\ StopMark(rx, 526)
           code == Code("JVC", Byte(u, 0), Byte(u, 1), u, 16, FALSE)
<1>3. decodeJVC(rx, last) = CASE rawlen(rx) # 34 -> code
                              [] rawlen(rx) = 34 /\ repeats -> LastAgain("JVC", last)
                              [] rawlen(rx) = 34 /\ ~repeats -> Blank
  BY SMT DEF decodeJVC
<1>4. code.protocol = "JVC"
  <2> HIDE DEF u
  <2> QED BY FirstFields, Zenon
<1> HIDE DEF code, repeats
<1>5. decodeJVC(rx, last) = code
  BY <1>2, <1>3, SMT
<1>6. Mid_IrRemoteDecode(rx, last) = code
  BY <1>2, <1>5, Dispatched, Zenon
<1> QED BY <1>1, <1>4, <1>6, Zenon DEF ReadAs

LEMMA SamsungKeyRead ==
  ASSUME NEW p, NEW f, SamsungFrame(p, f), NEW rx, Sampled(f, rx.ticks), NEW last
  PROVE  ReadAs(p, Mid_IrRemoteDecode(rx, last))
<1>1. PICK n \in {32, 48} : \E w \in Word(n) :
        /\ p = IF n = 48 THEN "SAMSUNG48" ELSE "SAMSUNG"
        /\ f = sendPulseDistanceWidth(SamsungProtocolConstants, w)
  BY Zenon DEF SamsungFrame
<1>2. FirstToTake(rx) = "Samsung" /\ rawlen(rx) = 2 * n + 4
  BY <1>1, SamsungRead
<1> DEFINE m == (rawlen(rx) - 4) \div 2
           u == decodePulseDistanceWidthData(rx, SamsungProtocolConstants, m, 3)
           command == IF m = 48 THEN Byte(u, 2) \o Byte(u, 4)
                      ELSE IF IsChecked(u, 2) THEN Byte(u, 2) ELSE SubSeq(u, 17, 32)
           protocol == IF m = 48 THEN "SAMSUNG48" ELSE "SAMSUNG"
           address == SubSeq(u, 1, 16)
           repeat == checkForRepeat(rx, 68750)
           raw == SamsungRaw(m, u)
           code == Code(protocol, address, command, raw, m, repeat)
<1>3. decodeSamsung(rx, last) = IF rawlen(rx) = 6 THEN LastAgain("SAMSUNG_LG", last) ELSE code
  BY SMT DEF decodeSamsung
<1>4. m = n /\ rawlen(rx) # 6
  BY <1>1, <1>2
<1>5. code.protocol = protocol
  <2> HIDE DEF m, u, protocol, address, command, repeat, raw
  <2> QED BY CodeFields, SMT
<1> HIDE DEF code, m
<1>6. protocol = p
  BY <1>1, <1>4
<1> HIDE DEF protocol
<1>7. decodeSamsung(rx, last) = code
  BY <1>3, <1>4, SMT
<1>8. Mid_IrRemoteDecode(rx, last) = code
  BY <1>2, <1>7, Dispatched, Zenon
<1> QED BY <1>5, <1>6, <1>8, Zenon DEF ReadAs

LEMMA RareKeyRead ==
  ASSUME NEW p, NEW f, RareFrame(p, f), NEW rx, Sampled(f, rx.ticks), NEW last
  PROVE  ReadAs(p, Mid_IrRemoteDecode(rx, last))
<1>1. CASE \E w \in Word(16) :
             p = "FAST" /\ f = sendPulseDistanceWidth(FASTProtocolConstants, w)
  <2>1. FirstToTake(rx) = "FAST"
    BY <1>1, FASTRead, Zenon
  <2>2. Mid_IrRemoteDecode(rx, last) = decodeFAST(rx)
    BY <2>1, Dispatched, Zenon
  <2>3. decodeFAST(rx).protocol = "FAST"
    BY CodeFields, SMT DEF decodeFAST
  <2> QED BY <1>1, <2>2, <2>3, Zenon DEF ReadAs
<1>2. CASE \E w \in Word(32) :
             p = "WHYNTER" /\ f = sendPulseDistanceWidth(WhynterProtocolConstants, w)
  <2>1. FirstToTake(rx) = "Whynter"
    BY <1>2, WhynterRead, Zenon
  <2>2. Mid_IrRemoteDecode(rx, last) = decodeWhynter(rx)
    BY <2>1, Dispatched, Zenon
  <2>3. decodeWhynter(rx).protocol = "WHYNTER"
    BY FirstFields, Zenon DEF decodeWhynter
  <2> QED BY <1>2, <2>2, <2>3, Zenon DEF ReadAs
<1>3. CASE \E w \in Word(16) :
             p = "LEGO_PF" /\ f = sendPulseDistanceWidth(LegoProtocolConstants, w)
  <2>1. FirstToTake(rx) = "Lego"
    BY <1>3, LegoRead, Zenon
  <2>2. Mid_IrRemoteDecode(rx, last) = decodeLegoPowerFunctions(rx)
    BY <2>1, Dispatched, Zenon
  <2>3. decodeLegoPowerFunctions(rx).protocol = "LEGO_PF"
    BY FirstFields, Zenon DEF decodeLegoPowerFunctions
  <2> QED BY <1>3, <2>2, <2>3, Zenon DEF ReadAs
<1>4. CASE \E w \in Word(16) : /\ IsChecked(w, 0) /\ p = "BOSEWAVE"
                               /\ f = sendPulseDistanceWidth(BoseWaveProtocolConstants, w)
  <2>1. FirstToTake(rx) = "BoseWave"
    BY <1>4, BoseWaveRead, Zenon
  <2>2. Mid_IrRemoteDecode(rx, last) = decodeBoseWave(rx)
    BY <2>1, Dispatched, Zenon
  <2>3. decodeBoseWave(rx).protocol = "BOSEWAVE"
    BY CodeFields, SMT DEF decodeBoseWave
  <2> QED BY <1>4, <2>2, <2>3, Zenon DEF ReadAs
<1>5. CASE \E id \in Word(31), magnitude \in Word(9), checksum \in Word(8) :
             p = "MAGIQUEST" /\ f = MagiQuestCoded(id, magnitude, checksum)
  <2>1. FirstToTake(rx) = "MagiQuest"
    BY <1>5, MagiQuestRead, Zenon
  <2>2. Mid_IrRemoteDecode(rx, last) = decodeMagiQuest(rx)
    BY <2>1, Dispatched, Zenon
  <2>3. decodeMagiQuest(rx).protocol = "MAGIQUEST"
    BY FirstFields, ZenonT(30) DEF decodeMagiQuest
  <2> QED BY <1>5, <2>2, <2>3, Zenon DEF ReadAs
<1> QED BY <1>1, <1>2, <1>3, <1>4, <1>5, Zenon DEF RareFrame

LEMMA KeyRead ==
  ASSUME NEW p, NEW f, IsFrameOf(p, f), NEW rx, Sampled(f, rx.ticks), NEW last
  PROVE  ReadAs(p, Mid_IrRemoteDecode(rx, last))
<1>1. CASE NecFrame(p, f)
  BY <1>1, NecKeyRead, Zenon
<1>2. CASE KaseikyoFrame(p, f)
  BY <1>2, KaseikyoKeyRead, Zenon
<1>3. CASE DenonFrame(p, f)
  BY <1>3, DenonKeyRead, Zenon
<1>4. CASE SonyFrame(p, f)
  BY <1>4, SonyKeyRead, Zenon
<1>5. CASE BiphaseFrame(p, f)
  BY <1>5, BiphaseKeyRead, Zenon
<1>6. CASE LGFrame(p, f)
  BY <1>6, LGKeyRead, Zenon
<1>7. CASE JVCFrame(p, f)
  BY <1>7, JVCKeyRead, Zenon
<1>8. CASE SamsungFrame(p, f)
  BY <1>8, SamsungKeyRead, Zenon
<1>9. CASE RareFrame(p, f)
  BY <1>9, RareKeyRead, Zenon
<1> QED BY <1>1, <1>2, <1>3, <1>4, <1>5, <1>6, <1>7, <1>8, <1>9, Zenon DEF IsFrameOf

(* The key is one of a protocol that the device knows by name.             *)
Known(k) == \A f \in k.forms : IsFrameOf(k.protocol, f)

KeyIsRead == Known(key) => FrameReadByItsDecoder

LEMMA PressRead ==
  ASSUME NEW k \in Keys, Known(k), NEW frame \in k.forms, NEW how,
         Learn(k, how, frame, Pauses)
  PROVE  ReadAs(k.protocol, decodedIRData')
<1>1. PICK pause \in Pauses, phase \in Phases, excess \in Excesses :
        decodedIRData' = Mid_IrRemoteDecode(Received(frame, pause, phase, excess), decodedIRData)
  BY Zenon DEF Learn
<1> DEFINE rx == Received(frame, pause, phase, excess)
<1>2. frame \in k.forms \union {k.held}
  OBVIOUS
<1>3. Sampled(frame, rx.ticks)
  BY <1>2, SampledFrame, Zenon
<1>4. IsFrameOf(k.protocol, frame)
  BY Zenon DEF Known
<1> HIDE DEF rx
<1>5. ReadAs(k.protocol, Mid_IrRemoteDecode(rx, decodedIRData))
  BY <1>3, <1>4, KeyRead, Zenon
<1> QED BY <1>1, <1>5, Zenon DEF rx

LEMMA KeyStep == KeyIsRead /\ [Next]_vars => KeyIsRead'
<1> SUFFICES ASSUME KeyIsRead, [Next]_vars, Known(key)', (heard = "press")'
             PROVE  ReadAs(key.protocol, decodedIRData)'
  BY Zenon DEF KeyIsRead, FrameReadByItsDecoder, ReadAs
<1>1. CASE Press
  <2>1. PICK k \in Keys : \E frame \in k.forms : Learn(k, "press", frame, Pauses)
    BY <1>1, Zenon DEF Press
  <2>2. PICK frame \in k.forms : Learn(k, "press", frame, Pauses)
    BY <2>1, Zenon
  <2>3. key' = k /\ Known(k)
    BY <2>2, Zenon DEF Learn, Known
  <2>4. ReadAs(k.protocol, decodedIRData')
    BY <2>2, <2>3, PressRead, Zenon
  <2> QED BY <2>3, <2>4, Zenon DEF ReadAs
<1>2. CASE Hold \/ HoldUnheard
  <2>1. heard' = "hold" \/ heard' = "unheard"
    BY <1>2, Zenon DEF Hold, HoldUnheard, Learn
  <2> QED BY <2>1
<1>3. CASE Emit \/ UNCHANGED vars
  <2>1. key' = key /\ heard' = heard /\ decodedIRData' = decodedIRData
    BY <1>3, Zenon DEF Emit, vars
  <2>2. Known(key) /\ heard = "press"
    BY <2>1, Zenon DEF Known
  <2> QED BY <2>1, <2>2, Zenon DEF KeyIsRead, FrameReadByItsDecoder, ReadAs
<1> QED BY <1>1, <1>2, <1>3, Zenon DEF Next

----------------------------------------------------------------------------
(* The theorems.                                                           *)

(* The invariant: what is decoded is well formed, what is learned is what  *)
(* was decoded last, and what was emitted of it stands for it.             *)
THEOREM RelayHolds == Spec => []RelayInv
BY RelayInit, RelayStep, PTL DEF Spec

(* The types are right, and two emissions of a code of RC5 or RC6 carry    *)
(* different toggle bits, for every key, pause, phase and excess.          *)
THEOREM TogglesAlternate == Spec => []NextPressToggles
<1>1. RelayInv => NextPressToggles
  <2> SUFFICES ASSUME RelayInv PROVE NextPressToggles
    OBVIOUS
  <2>1. Typed(decodedIRData) /\ sLastSendToggleValue \in Bit /\ Emitted
        /\ learned \in {<<>>, <<decodedIRData>>}
    BY Zenon DEF RelayInv
  <2>2. Len(emissions) <= 2
    <3>1. \/ emissions = <<>>
          \/ \E e : emissions = <<e>>
          \/ \E e, f : emissions = <<e, f>>
      BY <2>1, Zenon DEF Emitted
    <3>2. CASE emissions = <<>>
      BY <3>2
    <3>3. CASE \E e : emissions = <<e>>
      BY <3>3
    <3>4. CASE \E e, f : emissions = <<e, f>>
      BY <3>4
    <3> QED BY <3>1, <3>2, <3>3, <3>4, Zenon
  <2>3. TypeOK
    <3>1. /\ decodedIRData.address \in Word(16) /\ decodedIRData.command \in Word(16)
          /\ decodedIRData.raw \in Seq(Bit)
      BY <2>1, Zenon DEF Typed
    <3>2. IsWord(decodedIRData.address, 16) /\ IsWord(decodedIRData.command, 16)
      <4>1. \A w \in Word(16) : IsWord(w, 16)
        BY DEF Word, IsWord
      <4> QED BY <3>1, <4>1, Zenon
    <3>3. IsWord(decodedIRData.raw, Len(decodedIRData.raw))
      BY <3>1 DEF IsWord
    <3> QED BY <2>1, <2>2, <3>2, <3>3, Zenon DEF TypeOK
  <2>4. ASSUME Len(emissions) = 2, UsesToggle(learned[1])
        PROVE  emissions[1][1] # emissions[2][1]
    <3> DEFINE d == learned[1]
               s == sLastSendToggleValue
    <3>1. /\ ~(emissions = <<>>)
          /\ ~\E e : emissions = <<e>>
      BY <2>4
    <3>2. PICK e, f : /\ emissions = <<e, f>> /\ learned # <<>>
                      /\ e = Mid_IrSendCommon(d, 1 - s) /\ f = Mid_IrSendCommon(d, s)
      BY <2>1, <2>4, <3>1, Zenon DEF Emitted
    <3>3. emissions[1] = e /\ emissions[2] = f
      <4>1. emissions = <<e, f>>
        BY <3>2
      <4> QED BY <4>1
    <3>4. learned = <<decodedIRData>>
      BY <2>1, <3>2
    <3>5. Typed(d) /\ UsesToggle(d) /\ s \in Bit
      <4>1. d = decodedIRData
        BY <3>4
      <4> QED BY <2>1, <2>4, <4>1, Zenon
    <3> HIDE DEF d, s
    <3> QED BY <3>2, <3>3, <3>5, TogglesDiffer, Zenon
  <2> QED BY <2>3, <2>4, Zenon DEF NextPressToggles
<1> QED BY <1>1, RelayHolds, PTL

(* A key of a protocol that the device knows by name is read as that       *)
(* protocol, whatever the word it carries, wherever the samples fall,      *)
(* however much the receiver lengthens the marks, and after whichever      *)
(* frames: no decoder that is tried earlier takes any of its frames.       *)
THEOREM FramesAreRead == Spec => [](Known(key) => FrameReadByItsDecoder)
<1>1. Init => KeyIsRead
  BY Zenon DEF Init, KeyIsRead, FrameReadByItsDecoder
<1>2. Spec => []KeyIsRead
  BY <1>1, KeyStep, PTL DEF Spec
<1> QED BY <1>2, PTL DEF KeyIsRead
=============================================================================
