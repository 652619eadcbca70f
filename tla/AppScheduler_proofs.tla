------------------------ MODULE AppScheduler_proofs ------------------------
(***************************************************************************)
(* Proofs about AppScheduler, for every queue size and every nesting of    *)
(* interrupts.  The argument: an entry a put has claimed lies in the       *)
(* occupied part of the ring, a put claims the entry just behind that      *)
(* part, and the entry of the running handler stays in it.  No entry is    *)
(* claimed twice, so what is about to be written to it is well defined:    *)
(* read from start to end, with that in place of what is not written yet,  *)
(* the ring is the queue that EventQueue promises.                         *)
(***************************************************************************)
EXTENDS AppScheduler, SequenceTheorems, TLAPS

Occupied(i) ==
  IF start <= end THEN start <= i /\ i < end ELSE start <= i \/ i < end

Claimed(i) == \E p \in 1 .. Len(puts) : puts[p].at = i

RingOK ==
  /\ start \in Indices /\ end \in Indices
  /\ slots \in [Indices -> Events \union {Empty}]
  /\ puts \in Seq([at : Indices, event : Events]) /\ Len(puts) <= Nesting

ClaimsInside == \A p \in 1 .. Len(puts) : Occupied(puts[p].at)

StoredWhenPut == \A i \in Indices : Occupied(i) /\ ~Claimed(i) => slots[i] \in Events

HandlerEntry ==
  handling # <<>> => /\ Occupied(start) /\ ~Claimed(start)
                     /\ handling = <<slots[start]>>

IInv == RingOK /\ ClaimsInside /\ StoredWhenPut /\ HandlerEntry

-----------------------------------------------------------------------------
LEMMA NextIndex == \A i \in Indices : next_index(i) \in Indices
BY SchedulerAssumption DEF next_index, Indices

LEMMA PutType ==
  ASSUME RingOK, NEW p \in 1 .. Len(puts)
  PROVE  puts[p].at \in Indices /\ puts[p].event \in Events
<1> DEFINE R == [at : Indices, event : Events]
<1>1. puts \in Seq(R)
  BY DEF RingOK
<1> HIDE DEF R
<1>2. puts[p] \in R
  BY <1>1, ElementOfSeq
<1> QED BY <1>2 DEF R

LEMMA InitIInv == Init => IInv
BY SchedulerAssumption DEF Init, IInv, RingOK, ClaimsInside, StoredWhenPut, HandlerEntry,
   Occupied, Claimed, Indices

(* Claiming adds exactly the entry at end to the occupied part.            *)
LEMMA ClaimOccupies ==
  ASSUME RingOK, ~app_sched_queue_full, end' = next_index(end), start' = start
  PROVE  /\ end' \in Indices /\ ~Occupied(end)
         /\ \A i \in Indices : Occupied(i)' <=> Occupied(i) \/ i = end
BY SchedulerAssumption DEF RingOK, app_sched_queue_full, next_index, Occupied, Indices

LEMMA ClaimIInv == ASSUME IInv, NEW e \in Events, Claim(e) PROVE IInv'
<1> USE DEF IInv
<1>1. /\ end' \in Indices /\ ~Occupied(end)
      /\ \A i \in Indices : Occupied(i)' <=> Occupied(i) \/ i = end
  BY ClaimOccupies DEF Claim
<1>2. DEFINE rec == [at |-> end, event |-> e]
<1>3. rec \in [at : Indices, event : Events]
  BY DEF RingOK
<1>4. puts' = Append(puts, rec) /\ UNCHANGED <<start, slots, handling>>
  BY DEF Claim
<1>5. Len(puts) < Nesting /\ Nesting \in Nat
  BY SchedulerAssumption DEF Claim
<1> HIDE DEF rec
<1>6. puts' \in Seq([at : Indices, event : Events]) /\ Len(puts') = Len(puts) + 1
  BY <1>3, <1>4 DEF RingOK
<1>7. RingOK'
  BY <1>1, <1>4, <1>5, <1>6 DEF RingOK
<1>8. /\ \A p \in 1 .. Len(puts) : puts'[p] = puts[p]
      /\ puts'[Len(puts) + 1] = rec /\ rec.at = end
  BY <1>3, <1>4 DEF RingOK, rec
<1>9. \A i \in Indices : Claimed(i)' <=> Claimed(i) \/ i = end
  BY <1>6, <1>8 DEF RingOK, Claimed
<1>10. ClaimsInside'
  <2> SUFFICES ASSUME NEW p \in 1 .. Len(puts') PROVE Occupied(puts[p].at)'
    BY DEF ClaimsInside
  <2>1. CASE p \in 1 .. Len(puts)
    <3>1. PICK i \in Indices : i = puts[p].at
      BY <2>1, PutType
    <3>2. Occupied(i)
      BY <2>1, <3>1 DEF ClaimsInside
    <3>3. i = puts'[p].at
      BY <1>8, <2>1, <3>1
    <3>4. Occupied(i)'
      BY <1>1, <3>2
    <3> QED BY <3>3, <3>4 DEF Occupied
  <2>2. CASE p = Len(puts) + 1
    BY <1>1, <1>8, <2>2 DEF Occupied, RingOK
  <2> QED BY <1>6, <2>1, <2>2 DEF RingOK
<1>11. StoredWhenPut'
  BY <1>1, <1>4, <1>9 DEF StoredWhenPut
<1>12. HandlerEntry'
  BY <1>1, <1>4, <1>9 DEF HandlerEntry, RingOK
<1> QED BY <1>7, <1>10, <1>11, <1>12

(* The innermost put is taken off the stack.                               *)
LEMMA FilledPuts ==
  ASSUME RingOK, Fill
  PROVE  /\ Len(puts) \in Nat \ {0} /\ Len(puts) <= Nesting /\ Len(puts) \in 1 .. Len(puts)
         /\ puts[Len(puts)].at \in Indices /\ puts[Len(puts)].event \in Events
         /\ puts' \in Seq([at : Indices, event : Events]) /\ Len(puts') = Len(puts) - 1
         /\ \A p \in 1 .. Len(puts) - 1 : puts'[p] = puts[p]
<1> DEFINE n == Len(puts)
<1> DEFINE R == [at : Indices, event : Events]
<1>1. puts \in Seq(R) /\ puts # <<>>
  BY DEF Fill, RingOK
<1>2. n \in Nat \ {0} /\ n <= Nesting
  <2> HIDE DEF R
  <2> QED BY <1>1, EmptySeq DEF RingOK
<1>3. puts[n].at \in Indices /\ puts[n].event \in Events
  BY <1>2, PutType
<1>4. /\ puts' \in Seq(R)
      /\ Len(puts') = n - 1 /\ \A p \in 1 .. n - 1 : puts'[p] = puts[p]
  <2> HIDE DEF R
  <2>0. puts' = SubSeq(puts, 1, n - 1)
    BY DEF Fill
  <2>1. \A i \in 1 .. n - 1 : puts[i] \in R
    BY <1>1, <1>2, ElementOfSeq
  <2>2. /\ SubSeq(puts, 1, n - 1) \in Seq(R)
        /\ Len(SubSeq(puts, 1, n - 1)) = IF 1 <= n - 1 THEN (n - 1) - 1 + 1 ELSE 0
        /\ \A i \in 1 .. (n - 1) - 1 + 1 : SubSeq(puts, 1, n - 1)[i] = puts[1 + i - 1]
    BY <1>2, <2>1, SubSeqProperties
  <2>3. (IF 1 <= n - 1 THEN (n - 1) - 1 + 1 ELSE 0) = n - 1
    <3> HIDE DEF n
    <3>1. n \in Nat /\ n >= 1
      BY <1>2
    <3> QED BY <3>1
  <2>4. \A i \in 1 .. n - 1 : i \in 1 .. (n - 1) - 1 + 1 /\ 1 + i - 1 = i
    BY <1>2
  <2>5. \A i \in 1 .. n - 1 : SubSeq(puts, 1, n - 1)[i] = puts[i]
    BY <2>2, <2>4, Zenon
  <2> QED BY <2>0, <2>2, <2>3, <2>5
<1>5. n \in 1 .. n
  BY <1>2
<1> QED BY <1>2, <1>3, <1>4, <1>5

LEMMA FillIInv == ASSUME IInv, Fill PROVE IInv'
<1> USE DEF IInv
<1> DEFINE n == Len(puts)
<1> DEFINE R == [at : Indices, event : Events]
<1>1. n \in Nat \ {0} /\ n <= Nesting
  BY FilledPuts
<1>21. puts[n].at \in Indices /\ puts[n].event \in Events
  BY FilledPuts
<1>2. /\ puts' = SubSeq(puts, 1, n - 1)
      /\ slots' = [slots EXCEPT ![puts[n].at] = puts[n].event]
      /\ UNCHANGED <<start, end, handling>>
  BY DEF Fill
<1>3. PICK j \in Indices : j = puts[n].at
  BY <1>21
<1>4. /\ puts' \in Seq(R)
      /\ Len(puts') = n - 1 /\ \A p \in 1 .. n - 1 : puts'[p] = puts[p]
  BY FilledPuts
<1>5. /\ slots' \in [Indices -> Events \union {Empty}] /\ slots'[j] \in Events
      /\ \A i \in Indices \ {j} : slots'[i] = slots[i]
  BY <1>21, <1>2, <1>3 DEF RingOK
<1>6. \A i \in Indices : Claimed(i) => Claimed(i)' \/ i = j
  BY <1>1, <1>3, <1>4 DEF Claimed
<1>7. \A i \in Indices : (Claimed(i)' => Claimed(i)) /\ (Occupied(i)' <=> Occupied(i))
  BY <1>1, <1>2, <1>4 DEF Claimed, Occupied
<1>8. RingOK'
  BY <1>1, <1>2, <1>4, <1>5, SchedulerAssumption DEF RingOK
<1>9. ClaimsInside'
  BY <1>1, <1>2, <1>4 DEF ClaimsInside, Occupied
<1>10. StoredWhenPut'
  BY <1>5, <1>6, <1>7 DEF StoredWhenPut
<1>11. HandlerEntry'
  <2> SUFFICES ASSUME handling # <<>> PROVE HandlerEntry'
    BY <1>2 DEF HandlerEntry
  <2>1. Occupied(start) /\ ~Claimed(start) /\ handling = <<slots[start]>> /\ start \in Indices
    BY DEF HandlerEntry, RingOK
  <2>2. Claimed(j)
    BY <1>1, <1>3 DEF Claimed
  <2>3. slots'[start] = slots[start]
    BY <1>5, <2>1, <2>2
  <2>4. Occupied(start)' /\ ~Claimed(start)'
    BY <1>2, <1>7, <2>1 DEF Occupied, Claimed
  <2> QED BY <1>2, <2>1, <2>3, <2>4 DEF HandlerEntry
<1> QED BY <1>8, <1>9, <1>10, <1>11

LEMMA BeginHandlerIInv == ASSUME IInv, BeginHandler PROVE IInv'
<1> USE DEF IInv
<1>1. puts = <<>> /\ UNCHANGED <<start, end, slots, puts>> /\ handling' = <<slots[start]>>
  BY DEF BeginHandler, MainRuns
<1>2. start # end /\ Occupied(start) /\ ~Claimed(start)
  BY <1>1 DEF BeginHandler, app_sched_queue_empty, RingOK, Occupied, Claimed, Indices
<1> QED BY <1>1, <1>2 DEF RingOK, ClaimsInside, StoredWhenPut, HandlerEntry, Occupied, Claimed

LEMMA EndHandlerIInv == ASSUME IInv, EndHandler PROVE IInv'
<1> USE DEF IInv
<1>1. /\ puts = <<>> /\ UNCHANGED <<end, slots, puts>>
      /\ handling' = <<>> /\ start' = next_index(start) /\ Occupied(start)
  BY DEF EndHandler, MainRuns, HandlerEntry
<1>2. start' \in Indices /\ \A i \in Indices : Occupied(i)' => Occupied(i)
  BY <1>1, SchedulerAssumption DEF RingOK, Occupied, next_index, Indices
<1> QED BY <1>1, <1>2 DEF RingOK, ClaimsInside, StoredWhenPut, HandlerEntry, Claimed

LEMMA Invariance == Spec => []IInv
<1>1. IInv /\ [Next]_vars => IInv'
  <2> SUFFICES ASSUME IInv, [Next]_vars PROVE IInv'
    OBVIOUS
  <2>1. CASE UNCHANGED vars
    BY <2>1 DEF vars, IInv, RingOK, ClaimsInside, StoredWhenPut, HandlerEntry, Occupied, Claimed
  <2> QED BY <2>1, ClaimIInv, FillIInv, BeginHandlerIInv, EndHandlerIInv DEF Next
<1> QED BY <1>1, InitIInv, PTL DEF Spec

(* Whatever the size of the queue and however deep interrupts nest, the    *)
(* indices stay in the buffers and what is called was put.                 *)
THEOREM TypeCorrect == Spec => []TypeOK
<1>1. IInv => TypeOK
  <2> SUFFICES ASSUME IInv PROVE TypeOK
    OBVIOUS
  <2>1. handling # <<>> => slots[start] \in Events
    BY DEF IInv, HandlerEntry, StoredWhenPut, RingOK
  <2>2. handling \in {<<>>} \union {<<e>> : e \in Events}
    BY <2>1, Zenon DEF IInv, HandlerEntry
  <2> QED BY <2>2, Zenon DEF IInv, RingOK, TypeOK
<1> QED BY <1>1, Invariance, PTL

(* The entry of the running handler is not written until it has returned.  *)
THEOREM HandlerDataSafety == Spec => []HandlerDataStable
<1>1. IInv => HandlerDataStable
  BY DEF IInv, HandlerEntry, HandlerDataStable
<1> QED BY <1>1, Invariance, PTL

-----------------------------------------------------------------------------
(* Sequences given entry by entry. *)

LEMMA AsSeq ==
  ASSUME NEW S, NEW n \in Nat, NEW f \in [1 .. n -> S]
  PROVE  f \in Seq(S) /\ Len(f) = n
<1>1. f \in Seq(S)
  BY SeqDef
<1>2. Len(f) \in Nat /\ DOMAIN f = 1 .. Len(f)
  BY <1>1, LenProperties
<1>3. 1 .. Len(f) = 1 .. n
  BY <1>2
<1> DEFINE m == Len(f)
<1> HIDE DEF m
<1>4. m \in Nat /\ 1 .. m = 1 .. n
  BY <1>2, <1>3 DEF m
<1>5. m = n
  BY <1>4
<1> QED BY <1>1, <1>5 DEF m

LEMMA AsAppend ==
  ASSUME NEW S, NEW n \in Nat, NEW f \in [1 .. n -> S], NEW g \in [1 .. n + 1 -> S],
         \A k \in 1 .. n : g[k] = f[k]
  PROVE  g = Append(f, g[n + 1])
<1> DEFINE a == Append(f, g[n + 1])
<1>1. f \in Seq(S) /\ Len(f) = n /\ g[n + 1] \in S
  BY AsSeq
<1>2. /\ a \in Seq(S) /\ Len(a) = n + 1 /\ a[n + 1] = g[n + 1]
      /\ \A k \in 1 .. n : a[k] = f[k]
  BY <1>1, AppendProperties
<1>3. a \in [1 .. n + 1 -> S]
  BY <1>2, LenProperties
<1> HIDE DEF a
<1>4. \A k \in 1 .. n + 1 : a[k] = g[k]
  BY <1>2
<1>5. g = a
  BY <1>3, <1>4
<1> QED BY <1>5 DEF a

LEMMA AsTail ==
  ASSUME NEW S, NEW n \in Nat \ {0}, NEW f \in [1 .. n -> S], NEW g \in [1 .. n - 1 -> S],
         \A k \in 1 .. n - 1 : g[k] = f[k + 1]
  PROVE  g = Tail(f)
<1> DEFINE t == Tail(f)
<1>1. f \in Seq(S) /\ Len(f) = n /\ f # <<>>
  <2>1. Len(<<>>) = 0
    OBVIOUS
  <2> QED BY <2>1, AsSeq
<1>2. /\ t \in Seq(S) /\ Len(t) = n - 1
      /\ \A k \in 1 .. n - 1 : t[k] = f[k + 1]
  BY <1>1, HeadTailProperties
<1>3. t \in [1 .. n - 1 -> S]
  BY <1>2, LenProperties
<1> HIDE DEF t
<1>4. g = t
  BY <1>2, <1>3
<1> QED BY <1>4 DEF t

(* The arithmetic of the ring. *)
LEMMA Modulo ==
  ASSUME NEW m \in Nat \ {0}, NEW x \in -m .. 2 * m - 1
  PROVE  /\ x \in 0 .. m - 1 => x % m = x
         /\ x < 0 => x % m = x + m
         /\ x >= m => x % m = x - m
OBVIOUS

LEMMA RingCount ==
  ASSUME NEW s \in Indices, NEW e \in Indices
  PROVE  (e - s) % (QueueSize + 1) = IF s <= e THEN e - s ELSE e - s + QueueSize + 1
<1> DEFINE m == QueueSize + 1
           x == e - s
<1>1. /\ m \in Nat \ {0} /\ x \in -m .. 2 * m - 1
      /\ s <= e => x \in 0 .. m - 1
      /\ ~(s <= e) => x < 0
      /\ x + m = e - s + QueueSize + 1
  BY SchedulerAssumption DEF Indices
<1> HIDE DEF m, x
<1>2. x % m = IF s <= e THEN x ELSE x + m
  BY <1>1, Modulo
<1> QED BY <1>1, <1>2 DEF m, x

LEMMA RingPosition ==
  ASSUME NEW s \in Indices, NEW k \in 1 .. QueueSize + 1
  PROVE  (s + k - 1) % (QueueSize + 1) =
           IF s + k - 1 <= QueueSize THEN s + k - 1 ELSE s + k - 1 - (QueueSize + 1)
<1> DEFINE m == QueueSize + 1
           x == s + k - 1
<1>1. /\ m \in Nat \ {0} /\ x \in -m .. 2 * m - 1
      /\ x <= QueueSize => x \in 0 .. m - 1
      /\ ~(x <= QueueSize) => x >= m
      /\ x - m = s + k - 1 - (QueueSize + 1)
  BY SchedulerAssumption DEF Indices
<1> HIDE DEF m, x
<1>2. x % m = IF x <= QueueSize THEN x ELSE x - m
  BY <1>1, Modulo
<1> QED BY <1>1, <1>2 DEF m, x

-----------------------------------------------------------------------------
(* What the ring holds. *)

ClaimedOnce ==
  \A p, q \in 1 .. Len(puts) : puts[p].at = puts[q].at => p = q

Held == [k \in 1 .. Count |-> EventAt(Position(k))]

LEMMA ClaimedOnceInvariant == ASSUME IInv, ClaimedOnce, [Next]_vars PROVE ClaimedOnce'
<1>1. ASSUME NEW e \in Events, Claim(e) PROVE ClaimedOnce'
  <2>1. puts' = Append(puts, [at |-> end, event |-> e]) /\ ~Occupied(end)
    BY <1>1, ClaimOccupies DEF Claim, IInv
  <2>2. /\ Len(puts') = Len(puts) + 1 /\ Len(puts) \in Nat
        /\ puts'[Len(puts) + 1] = [at |-> end, event |-> e]
        /\ \A p \in 1 .. Len(puts) : puts'[p] = puts[p]
    BY <2>1, AppendProperties DEF IInv, RingOK
  <2>3. \A p \in 1 .. Len(puts) : puts[p].at # end
    BY <2>1 DEF IInv, ClaimsInside
  <2> QED BY <2>2, <2>3 DEF ClaimedOnce
<1>2. CASE Fill
  <2>1. puts' = SubSeq(puts, 1, Len(puts) - 1) /\ Len(puts) \in Nat
    BY <1>2 DEF Fill, IInv, RingOK
  <2>2. Len(puts') <= Len(puts) /\ \A p \in 1 .. Len(puts') : puts'[p] = puts[p]
    BY <2>1 DEF IInv, RingOK
  <2> QED BY <2>1, <2>2 DEF ClaimedOnce
<1>3. CASE BeginHandler \/ EndHandler \/ UNCHANGED vars
  BY <1>3 DEF BeginHandler, EndHandler, vars, ClaimedOnce
<1> QED BY <1>1, <1>2, <1>3 DEF Next

(* What an entry holds, or is about to: the operators of AppScheduler with *)
(* the state as a parameter.                                               *)
Content(s, t, i) ==
  IF \E p \in 1 .. Len(s) : s[p].at = i
  THEN s[CHOOSE p \in 1 .. Len(s) : s[p].at = i].event
  ELSE t[i]

Nth(first, k) == (first + k - 1) % (QueueSize + 1)

LEMMA HeldIs ==
  /\ Held = [k \in 1 .. Count |-> Content(puts, slots, Nth(start, k))]
  /\ Held' = [k \in 1 .. Count' |-> Content(puts', slots', Nth(start', k))]
BY DEF Held, EventAt, Position, Content, Nth

LEMMA ContentClaimed ==
  ASSUME NEW s, NEW t, NEW i, NEW p \in 1 .. Len(s), s[p].at = i,
         \A q \in 1 .. Len(s) : s[q].at = i => q = p
  PROVE  Content(s, t, i) = s[p].event
<1>1. (CHOOSE q \in 1 .. Len(s) : s[q].at = i) = p
  OBVIOUS
<1> QED BY <1>1, Zenon DEF Content

LEMMA ContentFree ==
  ASSUME NEW s, NEW t, NEW i, \A p \in 1 .. Len(s) : s[p].at # i PROVE Content(s, t, i) = t[i]
BY Zenon DEF Content

LEMMA Positions ==
  ASSUME RingOK
  PROVE  /\ Count \in 0 .. QueueSize
         /\ Count = IF start <= end THEN end - start ELSE end - start + QueueSize + 1
         /\ \A k \in 1 .. Count : Nth(start, k) \in Indices /\ Occupied(Nth(start, k))
<1>1. Count = IF start <= end THEN end - start ELSE end - start + QueueSize + 1
  BY RingCount DEF Count, RingOK
<1>2. Count \in 0 .. QueueSize
  BY <1>1, SchedulerAssumption DEF RingOK, Indices
<1>3. ASSUME NEW k \in 1 .. Count PROVE Nth(start, k) \in Indices /\ Occupied(Nth(start, k))
  <2>1. k \in 1 .. QueueSize + 1
    BY <1>2, SchedulerAssumption
  <2>2. Nth(start, k) = IF start + k - 1 <= QueueSize THEN start + k - 1
                        ELSE start + k - 1 - (QueueSize + 1)
    BY <2>1, RingPosition DEF Nth, RingOK
  <2> QED BY <1>1, <2>2, SchedulerAssumption DEF RingOK, Indices, Occupied
<1> QED BY <1>1, <1>2, <1>3

LEMMA EndPosition ==
  ASSUME RingOK, ~app_sched_queue_full PROVE Count < QueueSize /\ Nth(start, Count + 1) = end
<1>1. /\ Count = IF start <= end THEN end - start ELSE end - start + QueueSize + 1
      /\ Count < QueueSize
  BY Positions, SchedulerAssumption DEF RingOK, Indices, app_sched_queue_full, next_index
<1>2. Nth(start, Count + 1) =
        IF start + (Count + 1) - 1 <= QueueSize THEN start + (Count + 1) - 1
        ELSE start + (Count + 1) - 1 - (QueueSize + 1)
  <2>1. Count + 1 \in 1 .. QueueSize + 1
    BY <1>1, Positions, SchedulerAssumption
  <2> QED BY <2>1, RingPosition DEF Nth, RingOK
<1> QED BY <1>1, <1>2, SchedulerAssumption DEF RingOK, Indices

HeldTyped == Held \in [1 .. Count -> Events] /\ Count \in 0 .. QueueSize

LEMMA HeldType == IInv => HeldTyped
<1> SUFFICES ASSUME IInv PROVE HeldTyped
  OBVIOUS
<1>1. Count \in 0 .. QueueSize
  BY Positions DEF IInv
<1>2. ASSUME NEW k \in 1 .. Count PROVE Content(puts, slots, Nth(start, k)) \in Events
  <2> DEFINE i == Nth(start, k)
  <2>1. i \in Indices /\ Occupied(i)
    BY Positions DEF IInv
  <2> HIDE DEF i
  <2>2. CASE Claimed(i)
    <3> DEFINE p == CHOOSE p \in 1 .. Len(puts) : puts[p].at = i
    <3>1. p \in 1 .. Len(puts)
      BY <2>2, Zenon DEF Claimed
    <3> HIDE DEF p
    <3>2. puts[p].event \in Events
      BY <3>1, PutType DEF IInv
    <3>3. Content(puts, slots, i) = puts[p].event
      BY <2>2, Zenon DEF Content, Claimed, p
    <3> QED BY <3>2, <3>3 DEF i
  <2>3. CASE ~Claimed(i)
    <3>1. Content(puts, slots, i) = slots[i]
      BY <2>3, Zenon DEF Content, Claimed
    <3> QED BY <2>1, <2>3, <3>1 DEF i, IInv, StoredWhenPut
  <2> QED BY <2>2, <2>3
<1> QED BY <1>1, <1>2, HeldIs DEF HeldTyped

-----------------------------------------------------------------------------
(* Every step of the ring is one of the queue's, or leaves it as it is.    *)

LEMMA ClaimAccepts ==
  ASSUME IInv, ClaimedOnce, IInv', NEW e \in Events, Claim(e)
  PROVE  Held' = Append(Held, e) /\ Len(Held) < QueueSize
<1>1. HeldTyped /\ HeldTyped'
  BY HeldType, PTL
<1>2. /\ puts' = Append(puts, [at |-> end, event |-> e]) /\ ~Occupied(end) /\ end \in Indices
      /\ UNCHANGED <<start, slots>> /\ end' = next_index(end) /\ ~app_sched_queue_full
  BY ClaimOccupies DEF Claim, IInv, RingOK
<1>3. Count < QueueSize /\ Nth(start, Count + 1) = end
  BY <1>2, EndPosition DEF IInv
<1>4. Count' = Count + 1
  <2>1. Count = IF start <= end THEN end - start ELSE end - start + QueueSize + 1
    BY Positions DEF IInv
  <2>2. start' \in Indices /\ end' \in Indices
    BY DEF IInv, RingOK
  <2>3. Count' = IF start' <= end' THEN end' - start' ELSE end' - start' + QueueSize + 1
    BY <2>2, RingCount DEF Count
  <2> QED BY <1>2, <2>1, <2>3, SchedulerAssumption
          DEF IInv, RingOK, Indices, next_index, app_sched_queue_full
<1>5. /\ Len(puts') = Len(puts) + 1 /\ Len(puts) \in Nat
      /\ puts'[Len(puts) + 1].at = end /\ puts'[Len(puts) + 1].event = e
      /\ \A p \in 1 .. Len(puts) : puts'[p] = puts[p] /\ puts[p].at # end
  <2>1. \A p \in 1 .. Len(puts) : puts[p].at # end
    BY <1>2 DEF IInv, ClaimsInside
  <2> QED BY <1>2, <2>1, AppendProperties DEF IInv, RingOK
<1>6. Content(puts', slots', end) = e
  <2>1. /\ Len(puts) + 1 \in 1 .. Len(puts')
        /\ \A q \in 1 .. Len(puts') : puts'[q].at = end => q = Len(puts) + 1
    BY <1>5
  <2>2. Content(puts', slots', end) = puts'[Len(puts) + 1].event
    BY <1>5, <2>1, ContentClaimed
  <2> QED BY <1>5, <2>2
<1>7. ASSUME NEW i \in Indices, i # end PROVE Content(puts', slots', i) = Content(puts, slots, i)
  <2>1. CASE \E p \in 1 .. Len(puts) : puts[p].at = i
    <3>1. PICK p \in 1 .. Len(puts) : puts[p].at = i
      BY <2>1
    <3>2. \A q \in 1 .. Len(puts) : puts[q].at = i => q = p
      BY <3>1 DEF ClaimedOnce
    <3>3. Content(puts, slots, i) = puts[p].event
      BY <3>1, <3>2, ContentClaimed
    <3>4. /\ p \in 1 .. Len(puts') /\ puts'[p] = puts[p]
          /\ \A q \in 1 .. Len(puts') : puts'[q].at = i => q = p
      BY <1>5, <1>7, <3>2
    <3>5. Content(puts', slots', i) = puts'[p].event
      BY <3>1, <3>4, ContentClaimed
    <3> QED BY <3>3, <3>4, <3>5
  <2>2. CASE \A p \in 1 .. Len(puts) : puts[p].at # i
    <3>1. \A p \in 1 .. Len(puts') : puts'[p].at # i
      BY <1>5, <1>7, <2>2
    <3>2. Content(puts', slots', i) = slots'[i]
      BY <3>1, ContentFree
    <3>3. Content(puts, slots, i) = slots[i]
      BY <2>2, ContentFree
    <3> QED BY <1>2, <3>2, <3>3
  <2> QED BY <2>1, <2>2
<1>8. ASSUME NEW k \in 1 .. Count PROVE Held'[k] = Held[k]
  <2>1. Nth(start, k) \in Indices /\ Nth(start, k) # end
    BY <1>2, Positions DEF IInv
  <2>2. k \in 1 .. Count'
    BY <1>1, <1>4 DEF HeldTyped
  <2>3. Content(puts', slots', Nth(start', k)) = Content(puts, slots, Nth(start, k))
    BY <1>2, <1>7, <2>1
  <2>4. /\ Held[k] = Content(puts, slots, Nth(start, k))
        /\ Held'[k] = Content(puts', slots', Nth(start', k))
    BY <2>2, HeldIs
  <2> QED BY <2>3, <2>4
<1>9. Held'[Count + 1] = e
  <2>1. Count + 1 \in 1 .. Count'
    BY <1>1, <1>4 DEF HeldTyped
  <2> QED BY <1>2, <1>3, <1>6, <2>1, HeldIs
<1>10. /\ Count \in Nat /\ Held \in [1 .. Count -> Events]
       /\ Held' \in [1 .. Count + 1 -> Events]
  BY <1>1, <1>4 DEF HeldTyped
<1>11. Held' = Append(Held, Held'[Count + 1])
  BY <1>8, <1>10, AsAppend
<1>12. Len(Held) = Count
  BY <1>10, AsSeq
<1> QED BY <1>3, <1>9, <1>11, <1>12

LEMMA FillStutters == ASSUME IInv, ClaimedOnce, Fill PROVE Held' = Held
<1> DEFINE n == Len(puts)
<1>1. n \in Nat \ {0} /\ Len(puts') = n - 1 /\ \A p \in 1 .. n - 1 : puts'[p] = puts[p]
  BY FilledPuts DEF IInv
<1>2. puts[n].at \in Indices /\ n \in 1 .. n
  BY FilledPuts DEF IInv
<1>3. /\ slots' = [slots EXCEPT ![puts[n].at] = puts[n].event] /\ DOMAIN slots = Indices
      /\ UNCHANGED <<start, end>>
  BY DEF Fill, IInv, RingOK
<1>4. Count' = Count
  BY <1>3 DEF Count
<1>5. ASSUME NEW i \in Indices PROVE Content(puts', slots', i) = Content(puts, slots, i)
  <2>1. CASE i = puts[n].at
    <3>1. \A q \in 1 .. n : puts[q].at = i => q = n
      BY <1>2, <2>1 DEF ClaimedOnce
    <3>2. Content(puts, slots, i) = puts[n].event
      <4>1. PICK p \in 1 .. Len(puts) : p = n
        BY <1>2
      <4>2. puts[p].at = i /\ \A q \in 1 .. Len(puts) : puts[q].at = i => q = p
        BY <2>1, <3>1, <4>1
      <4> HIDE DEF n
      <4>3. Content(puts, slots, i) = puts[p].event
        BY <4>2, ContentClaimed
      <4> QED BY <4>1, <4>3
    <3>3. \A q \in 1 .. Len(puts') : puts'[q].at # i
      BY <1>1, <3>1
    <3>4. Content(puts', slots', i) = slots'[i]
      BY <3>3, ContentFree
    <3> QED BY <1>2, <1>3, <2>1, <3>2, <3>4
  <2>2. CASE i # puts[n].at /\ \E p \in 1 .. n : puts[p].at = i
    <3>1. PICK p \in 1 .. n : puts[p].at = i
      BY <2>2
    <3>2. \A q \in 1 .. n : puts[q].at = i => q = p
      BY <3>1 DEF ClaimedOnce
    <3>3. Content(puts, slots, i) = puts[p].event
      BY <3>1, <3>2, ContentClaimed
    <3>4. p \in 1 .. n - 1
      BY <1>1, <2>2, <3>1
    <3>5. /\ p \in 1 .. Len(puts') /\ puts'[p] = puts[p]
          /\ \A q \in 1 .. Len(puts') : puts'[q].at = i => q = p
      BY <1>1, <3>2, <3>4
    <3>6. Content(puts', slots', i) = puts'[p].event
      BY <3>1, <3>5, ContentClaimed
    <3> QED BY <3>3, <3>5, <3>6
  <2>3. CASE \A p \in 1 .. n : puts[p].at # i
    <3>1. \A p \in 1 .. Len(puts') : puts'[p].at # i
      BY <1>1, <2>3
    <3>2. slots'[i] = slots[i]
      BY <1>1, <1>3, <2>3
    <3>3. Content(puts', slots', i) = slots'[i]
      BY <3>1, ContentFree
    <3>4. Content(puts, slots, i) = slots[i]
      BY <2>3, ContentFree
    <3> QED BY <3>2, <3>3, <3>4
  <2> QED BY <2>1, <2>2, <2>3
<1>6. \A k \in 1 .. Count : Nth(start, k) \in Indices
  BY Positions DEF IInv
<1>7. ASSUME NEW k \in 1 .. Count
      PROVE  Content(puts', slots', Nth(start', k)) = Content(puts, slots, Nth(start, k))
  BY <1>3, <1>5, <1>6
<1> QED BY <1>4, <1>7, HeldIs, Zenon

LEMMA BeginStarts ==
  ASSUME IInv, BeginHandler
  PROVE  handling = <<>> /\ Held # <<>> /\ handling' = <<Head(Held)>> /\ Held' = Held
<1>1. /\ handling = <<>> /\ handling' = <<slots[start]>> /\ puts = <<>> /\ start # end
      /\ UNCHANGED <<start, end, slots, puts>>
  BY DEF BeginHandler, MainRuns, app_sched_queue_empty
<1>2. Count \in Nat \ {0} /\ Count' = Count
  <2>1. Count = IF start <= end THEN end - start ELSE end - start + QueueSize + 1
    BY Positions DEF IInv
  <2>2. Count \in Nat \ {0}
    BY <1>1, <2>1, SchedulerAssumption DEF IInv, RingOK, Indices
  <2> QED BY <1>1, <2>2 DEF Count
<1>3. Held' = Held
  BY <1>1, <1>2, HeldIs
<1>4. Held[1] = slots[start]
  <2>1. 1 \in 1 .. Count
    BY <1>2
  <2>2. Nth(start, 1) = start
    <3>1. 1 \in 1 .. QueueSize + 1
      BY SchedulerAssumption
    <3>2. Nth(start, 1) = IF start + 1 - 1 <= QueueSize THEN start + 1 - 1
                          ELSE start + 1 - 1 - (QueueSize + 1)
      BY <3>1, RingPosition DEF Nth, IInv, RingOK
    <3> QED BY <3>2 DEF IInv, RingOK, Indices
  <2>3. \A p \in 1 .. Len(puts) : puts[p].at # start
    BY <1>1
  <2>4. Content(puts, slots, start) = slots[start]
    BY <2>3, ContentFree
  <2> QED BY <2>1, <2>2, <2>4, HeldIs
<1>5. Held \in Seq(Events) /\ Len(Held) = Count
  BY <1>2, HeldType, AsSeq DEF HeldTyped
<1>6. Held # <<>> /\ Head(Held) = Held[1]
  BY <1>2, <1>5
<1> QED BY <1>1, <1>3, <1>4, <1>6

LEMMA EndIsDone ==
  ASSUME IInv, IInv', EndHandler
  PROVE  handling # <<>> /\ handling' = <<>> /\ Held' = Tail(Held)
<1>1. HeldTyped /\ HeldTyped'
  BY HeldType, PTL
<1>2. /\ handling # <<>> /\ handling' = <<>> /\ puts = <<>> /\ UNCHANGED <<end, slots, puts>>
      /\ start' = next_index(start) /\ Occupied(start)
  BY DEF EndHandler, MainRuns, IInv, HandlerEntry
<1>3. /\ start \in Indices /\ start' \in Indices /\ end \in Indices
  BY DEF IInv, RingOK, EndHandler
<1>4. Count = IF start <= end THEN end - start ELSE end - start + QueueSize + 1
  BY Positions DEF IInv
<1>5. Count' = IF start' <= end' THEN end' - start' ELSE end' - start' + QueueSize + 1
  <2>1. end' \in Indices
    BY <1>2, <1>3
  <2> QED BY <1>3, <2>1, RingCount DEF Count
<1>6. Count \in Nat \ {0} /\ Count' = Count - 1 /\ Count <= QueueSize
  BY <1>2, <1>3, <1>4, <1>5, SchedulerAssumption DEF Indices, Occupied, next_index
<1>7. ASSUME NEW k \in 1 .. Count - 1 PROVE Nth(start', k) = Nth(start, k + 1)
  <2>1. k \in 1 .. QueueSize + 1 /\ k + 1 \in 1 .. QueueSize + 1
    BY <1>6, SchedulerAssumption
  <2>2. Nth(start', k) = IF start' + k - 1 <= QueueSize THEN start' + k - 1
                         ELSE start' + k - 1 - (QueueSize + 1)
    BY <1>3, <2>1, RingPosition DEF Nth
  <2>3. Nth(start, k + 1) = IF start + (k + 1) - 1 <= QueueSize THEN start + (k + 1) - 1
                            ELSE start + (k + 1) - 1 - (QueueSize + 1)
    BY <1>3, <2>1, RingPosition DEF Nth
  <2> QED BY <1>2, <1>3, <1>6, <2>2, <2>3, SchedulerAssumption DEF Indices, next_index
<1>8. ASSUME NEW k \in 1 .. Count - 1 PROVE Held'[k] = Held[k + 1]
  <2>1. k \in 1 .. Count' /\ k + 1 \in 1 .. Count
    BY <1>6
  <2>2. /\ Held[k + 1] = Content(puts, slots, Nth(start, k + 1))
        /\ Held'[k] = Content(puts', slots', Nth(start', k))
    BY <2>1, HeldIs
  <2> QED BY <1>2, <1>7, <2>2
<1>9. Held \in [1 .. Count -> Events] /\ Held' \in [1 .. Count - 1 -> Events]
  BY <1>1, <1>6 DEF HeldTyped
<1>10. Held' = Tail(Held)
  BY <1>6, <1>8, <1>9, AsTail
<1> QED BY <1>2, <1>10

(* app_scheduler implements the bounded queue of its users, for every size *)
(* of the queue and every nesting: an event takes its place in the order   *)
(* in which the entries are claimed, although a nested put fills its entry *)
(* before the put it interrupted, and is handled as it was put.            *)
THEOREM SchedulerRefinement == Spec => QueuePromise
<1> DEFINE Inv == IInv /\ ClaimedOnce
<1>1. Init => Queue!AbsInit
  <2> SUFFICES ASSUME Init PROVE Queue!AbsInit
    OBVIOUS
  <2>1. Count = 0
    <3>1. 0 \in Indices
      BY SchedulerAssumption DEF Indices
    <3>2. (0 - 0) % (QueueSize + 1) = IF 0 <= 0 THEN 0 - 0 ELSE 0 - 0 + QueueSize + 1
      BY <3>1, RingCount
    <3> QED BY <3>2 DEF Init, Count
  <2>2. Held = <<>>
    BY <2>1, HeldIs
  <2> QED BY <2>2 DEF Init, Held, Queue!AbsInit
<1>2. Inv /\ Inv' /\ [Next]_vars => [Queue!AbsNext]_(Queue!absVars)
  <2> SUFFICES ASSUME IInv, ClaimedOnce, IInv', [Next]_vars
               PROVE  [Queue!AbsNext]_(Queue!absVars)
    OBVIOUS
  <2>1. ASSUME NEW e \in Events, Claim(e) PROVE Queue!Accept
    <3>1. e \in Events \ LongEvents /\ UNCHANGED handling
      BY <2>1 DEF Claim
    <3>2. Held' = Append(Held, e) /\ Len(Held) < QueueSize
      BY <2>1, ClaimAccepts
    <3> QED BY <3>1, <3>2, Zenon DEF Queue!Accept, Held
  <2>2. CASE Fill
    <3>1. Held' = Held /\ UNCHANGED handling
      BY <2>2, FillStutters DEF Fill
    <3> QED BY <3>1, Zenon DEF Held, Queue!absVars
  <2>3. CASE BeginHandler
    <3>1. handling = <<>> /\ Held # <<>> /\ handling' = <<Head(Held)>> /\ Held' = Held
      BY <2>3, BeginStarts
    <3> QED BY <3>1, Zenon DEF Held, Queue!AbsNext, Queue!StartHandler
  <2>4. CASE EndHandler
    <3>1. handling # <<>> /\ handling' = <<>> /\ Held' = Tail(Held)
      BY <2>4, EndIsDone
    <3> QED BY <3>1, Zenon DEF Held, Queue!AbsNext, Queue!HandlerDone
  <2>5. CASE UNCHANGED vars
    <3>1. Held' = Held /\ UNCHANGED handling
      BY <2>5 DEF vars, Held, Count, EventAt, Position
    <3> QED BY <3>1, Zenon DEF Held, Queue!absVars
  <2> QED BY <2>1, <2>2, <2>3, <2>4, <2>5, Zenon DEF Next, Queue!AbsNext
<1>3. Init => ClaimedOnce
  BY DEF Init, ClaimedOnce
<1>4. Inv /\ [Next]_vars => ClaimedOnce'
  BY ClaimedOnceInvariant
<1> QED BY <1>1, <1>2, <1>3, <1>4, Invariance, PTL DEF Spec, QueuePromise, Queue!AbsSpec
=============================================================================
