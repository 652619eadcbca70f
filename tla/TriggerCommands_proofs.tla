----------------------- MODULE TriggerCommands_proofs -----------------------
(***************************************************************************)
(* Proofs about TriggerCommands, for any number of slots, of entries in    *)
(* the queue, of texts and of writes.  The argument: as long as a command  *)
(* in the queue is not marked as overtaken, its type is that of the global *)
(* variable, so that it is decoded and carried out as what it was sent as; *)
(* while one is in hand the table does not change, so that what was found  *)
(* about it still holds when the trigger is copied; and a sensitivity is   *)
(* known by the write that sent it, which no trigger has had before.       *)
(***************************************************************************)
EXTENDS TriggerCommands, FiniteSetTheorems, SequenceTheorems, WellFoundedInduction, TLAPS

-----------------------------------------------------------------------------
(* Types: commands and the triggers that are built from them. *)

Command == [text : {<<t>> : t \in Texts}, type : Types, overtaken : BOOLEAN]
Modes == {"NONE", "ONE", "WINDOW", "MOTION", "TIMEOUT"}
TimeKinds == {"unset", "clock", "timeout"}
InTable ==
  [mode : Modes, id : TrigIDs \union {0}, time1 : TimeKinds, sen : 0 .. 5,
   text : {<<>>} \union {<<c>> : c \in Command}, from : 0 .. MaxWrites]
Built ==
  [mode : Modes, id : TrigIDs \union {0}, time1 : TimeKinds, sen : 0 .. 5,
   text : {<<>>} \union {<<t>> : t \in Texts}, from : 0 .. MaxWrites]

SettingsType ==
  g_ubTriggerType \in Types \union {"NONE"} /\ g_ubMotionSensTemp \in Digits \union {0, 255}
TableType == g_atIRDataTrigger \in [Slot -> InTable]
QueueType == queue \in Seq(Command \union {Other}) /\ Len(queue) <= SCHED_QUEUE_SIZE
HandlerType == pc \in {"idle", "decoded", "clear", "copy"} /\ tIRDataTrigger \in Built
HistoryType ==
  /\ writes \in 0 .. MaxWrites /\ sensWrite \in 0 .. MaxWrites
  /\ wanted \subseteq TrigIDs /\ odd \subseteq {"refused", "overtaken", "overrun"}
TypeInv == SettingsType /\ TableType /\ QueueType /\ HandlerType /\ HistoryType

-----------------------------------------------------------------------------
(* The invariant. *)

Unique ==
  \A i, j \in Slot :
    ~Free(i) /\ ~Free(j) /\ g_atIRDataTrigger[i].id = g_atIRDataTrigger[j].id => i = j

(* What waits is of the type that is set, or marked.                       *)
InTime ==
  \A k \in 1 .. Len(queue) :
    queue[k] # Other =>
      /\ queue[k].overtaken \/ queue[k].type = g_ubTriggerType
      /\ odd = {} => ~queue[k].overtaken

(* The command in hand, and the trigger it has become so far.              *)
AsDecoded(command) ==
  /\ tIRDataTrigger.text = command.text /\ tIRDataTrigger.id = command.text[1].id
  /\ \/ command.overtaken
     \/ /\ Parses(command.text[1], command.type)
        /\ tIRDataTrigger.time1 = Time1(command.text[1], command.type)
  /\ pc = "decoded" => tIRDataTrigger.sen = 0
AsBuilt(command) ==
  /\ command.text[1].verb = "c"
  /\ command.overtaken \/ tIRDataTrigger.mode = Mode(command.text[1], command.type)
  /\ ~Duplicate(tIRDataTrigger.id) /\ ~Full
InHand ==
  /\ pc # "idle" => queue # <<>> /\ Head(queue) # Other /\ AsDecoded(Head(queue))
  /\ pc \in {"clear", "copy"} => AsBuilt(Head(queue))

AsSent(t) ==
  /\ t.text # <<>>
  /\ \/ t.text[1].overtaken
     \/ /\ t.mode = Mode(t.text[1].text[1], t.text[1].type)
        /\ t.time1 = Time1(t.text[1].text[1], t.text[1].type)
AllAsSent == \A i \in Slot : ~Free(i) => AsSent(g_atIRDataTrigger[i])

(* The sensitivity is that of the last write, until a trigger takes it.    *)
Holds(write) ==
  \E i \in Slot : /\ ~Free(i) /\ g_atIRDataTrigger[i].sen # 0
                  /\ g_atIRDataTrigger[i].from = write
Pending == pc \in {"clear", "copy"} /\ tIRDataTrigger.sen # 0
FromWrites ==
  /\ sensWrite <= writes /\ tIRDataTrigger.from <= sensWrite
  /\ \A i \in Slot : g_atIRDataTrigger[i].from <= sensWrite
SensInv ==
  /\ SensitivityUsedOnce /\ FromWrites
  /\ g_ubMotionSensTemp # 255 /\ pc # "clear" =>
       ~Holds(sensWrite) /\ (Pending => tIRDataTrigger.from # sensWrite)
  /\ Pending => ~Holds(tIRDataTrigger.from)

(* The commands that wait lead from the IDs in the table to those that are *)
(* wanted: there are the IDs after each of them.                           *)
AllIDs == TrigIDs \union {0}
IDs == {g_atIRDataTrigger[i].id : i \in {j \in Slot : ~Free(j)}}
Effect(event, ids) ==
  IF event = Other THEN ids ELSE Wanted(ids, event.text[1], event.type)
Leads(after) ==
  /\ after[1] = IDs /\ after[Len(queue) + 1] = wanted
  /\ \A k \in 1 .. Len(queue) : after[k + 1] = Effect(queue[k], after[k])
LeadsToWanted ==
  odd = {} => \E after \in [1 .. Len(queue) + 1 -> SUBSET AllIDs] : Leads(after)

TableInv == Unique /\ AllAsSent
CommandInv == TypeInv /\ InTime /\ InHand /\ TableInv /\ SensInv /\ LeadsToWanted

-----------------------------------------------------------------------------
(* Lemmas about the operators of the model. *)

(* A queue holds commands and other events; these are not taken for those. *)
LEMMA OtherIsNoCommand == ASSUME NEW c \in Command PROVE c # Other
<1>1. c.type \in Types /\ Other.type = "none"
  BY DEF Command, Other
<1> QED BY <1>1 DEF Types

LEMMA CommandParts ==
  ASSUME NEW c \in Command
  PROVE  /\ c.text[1] \in Texts /\ c.text = <<c.text[1]>> /\ c.type \in Types
         /\ c.overtaken \in BOOLEAN
<1>1. c.text \in {<<t>> : t \in Texts} /\ c.type \in Types /\ c.overtaken \in BOOLEAN
  BY DEF Command
<1>2. PICK t \in Texts : c.text = <<t>>
  BY <1>1
<1> QED BY <1>1, <1>2

LEMMA TextParts ==
  ASSUME NEW t \in Texts
  PROVE  /\ t.verb \in {"c", "d"} /\ t.id \in TrigIDs /\ t.parts \in 2 .. 6
         /\ t.time1 \in {"digits", "hex"} /\ t.good \in BOOLEAN
BY CommandAssumption DEF Text

LEMMA CommandIsCommand ==
  ASSUME NEW t \in Texts, NEW type \in Types, NEW o \in BOOLEAN
  PROVE  /\ [text |-> <<t>>, type |-> type, overtaken |-> o] \in Command
BY DEF Command

(* A queue without its first event. *)
LEMMA QueueTail ==
  ASSUME QueueType, queue # <<>>, queue' = Tail(queue)
  PROVE  /\ Len(queue') = Len(queue) - 1 /\ Len(queue) \in Nat \ {0} /\ QueueType'
         /\ 1 \in 1 .. Len(queue) /\ queue[1] = Head(queue)
         /\ Head(queue) \in Command \union {Other}
         /\ \A k \in 1 .. Len(queue) - 1 : queue'[k] = queue[k + 1]
<1> DEFINE E == Command \union {Other}
<1>1. queue \in Seq(E) /\ Len(queue) <= SCHED_QUEUE_SIZE
  BY DEF QueueType
<1> HIDE DEF E
<1>2. /\ Len(queue') = Len(queue) - 1 /\ Len(queue) \in Nat \ {0} /\ queue' \in Seq(E)
      /\ 1 \in 1 .. Len(queue) /\ queue[1] = Head(queue) /\ Head(queue) \in E
      /\ \A k \in 1 .. Len(queue) - 1 : queue'[k] = queue[k + 1]
  BY <1>1
<1>3. Len(queue') <= SCHED_QUEUE_SIZE
  BY <1>1, <1>2, CommandAssumption
<1> QED BY <1>2, <1>3 DEF E, QueueType

LEMMA QueueHead ==
  ASSUME QueueType, queue # <<>>
  PROVE  /\ Len(queue) \in Nat \ {0} /\ 1 \in 1 .. Len(queue) /\ queue[1] = Head(queue)
         /\ Head(queue) \in Command \union {Other}
<1> DEFINE E == Command \union {Other}
<1>1. queue \in Seq(E)
  BY DEF QueueType
<1> HIDE DEF E
<1>2. /\ Len(queue) \in Nat \ {0} /\ 1 \in 1 .. Len(queue) /\ queue[1] = Head(queue)
      /\ Head(queue) \in E
  BY <1>1
<1> QED BY <1>2 DEF E

(* And with one more at its end. *)
LEMMA QueueAppend ==
  ASSUME NEW q \in Seq(Command \union {Other}), NEW e \in Command \union {Other}
  PROVE  /\ Append(q, e) \in Seq(Command \union {Other}) /\ Len(q) \in Nat
         /\ Len(Append(q, e)) = Len(q) + 1 /\ Append(q, e)[Len(q) + 1] = e
         /\ \A k \in 1 .. Len(q) : Append(q, e)[k] = q[k]
         /\ q # <<>> => Head(Append(q, e)) = Head(q)
         /\ Append(q, e) # <<>>
<1> DEFINE E == Command \union {Other}
<1> HIDE DEF E
<1>1. ASSUME NEW s \in Seq(E), NEW x \in E
      PROVE  /\ Append(s, x) \in Seq(E) /\ Len(s) \in Nat
             /\ Len(Append(s, x)) = Len(s) + 1 /\ Append(s, x)[Len(s) + 1] = x
             /\ \A k \in 1 .. Len(s) : Append(s, x)[k] = s[k]
             /\ s # <<>> => Head(Append(s, x)) = Head(s)
             /\ Append(s, x) # <<>>
  BY <1>1, AppendProperties
<1> QED BY <1>1 DEF E

LEMMA ModeAndTime ==
  ASSUME NEW t, NEW type PROVE Mode(t, type) \in Modes /\ Time1(t, type) \in TimeKinds
<1>1. Time1(t, type) \in TimeKinds
  BY DEF Time1, TimeKinds
<1>2. Mode(t, type) \in Modes
  <2>1. CASE t.parts = 6
    BY <2>1 DEF Mode, Modes
  <2>2. CASE t.parts = 5
    BY <2>2 DEF Mode, Modes
  <2>3. CASE t.parts = 3
    BY <2>3 DEF Mode, Modes
  <2>4. CASE t.parts # 6 /\ t.parts # 5 /\ t.parts # 3
    BY <2>4 DEF Mode, Modes
  <2> QED BY <2>1, <2>2, <2>3, <2>4
<1> QED BY <1>1, <1>2

(* The levels meet: every sensitivity that can be sent is in one of them.  *)
LEMMA LevelOfSensitivity ==
  ASSUME NEW digit \in 0 .. 15 PROVE ConvertSensitivityToLevel(digit) \in 0 .. 5
<1> DEFINE sens == 30 - 2 * digit
           tops == <<6, 12, 18, 24, 30>>
           At(level) == sens <= tops[level] /\ (level > 1 => sens > tops[level - 1])
<1>1. tops[1] = 6 /\ tops[2] = 12 /\ tops[3] = 18 /\ tops[4] = 24 /\ tops[5] = 30
  OBVIOUS
<1>2. sens \in 0 .. 30
  OBVIOUS
<1> HIDE DEF sens, tops
<1>3. \E level \in 1 .. 5 : At(level)
  <2>1. At(1) \/ At(2) \/ At(3) \/ At(4) \/ At(5)
    BY <1>1, <1>2
  <2> HIDE DEF At
  <2> QED BY <2>1
<1>4. (CHOOSE level \in 1 .. 5 : At(level)) \in 1 .. 5
  <2> HIDE DEF At
  <2> QED BY <1>3
<1>5. ConvertSensitivityToLevel(digit) =
        IF sens < 4 THEN 0 ELSE CHOOSE level \in 1 .. 5 : At(level)
  BY Zenon DEF ConvertSensitivityToLevel, At, sens, tops
<1> HIDE DEF At
<1> QED BY <1>4, <1>5

(* A set of slots has a first. *)
LEMMA FirstSlot ==
  ASSUME NEW S, S \subseteq Slot, S # {} PROVE \E i \in S : \A j \in S : i <= j
<1>1. S \subseteq Nat
  BY CommandAssumption DEF Slot
<1> DEFINE R == OpToRel(<, Nat)
<1> HIDE DEF R
<1>2. IsWellFoundedOn(R, Nat)
  BY NatLessThanWellFounded DEF R
<1>3. \A x, y \in Nat : ~(<<y, x>> \in R) => x <= y
  <2> SUFFICES ASSUME NEW x \in Nat, NEW y \in Nat, y < x PROVE <<y, x>> \in R
    OBVIOUS
  <2> QED BY Zenon DEF OpToRel, R
<1>4. \E x \in S : \A y \in S : ~(<<y, x>> \in R)
  BY <1>1, <1>2, WFMin, Zenon
<1> QED BY <1>1, <1>3, <1>4

LEMMA FirstFreeIsFree == ASSUME ~Full PROVE FirstFree \in Slot /\ Free(FirstFree)
<1> DEFINE S == {i \in Slot : Free(i)}
<1>1. S \subseteq Slot /\ S # {}
  BY DEF Full
<1>2. PICK i \in S : \A j \in S : i <= j
  BY <1>1, FirstSlot
<1>3. i \in Slot /\ Free(i) /\ \A j \in Slot : j < i => ~Free(j)
  BY <1>2, CommandAssumption DEF Slot
<1> QED BY <1>3, Zenon DEF FirstFree

(* Removing touches one mode at most, that of a trigger with the ID. *)
LEMMA RemoveEffect ==
  ASSUME TableType, NEW id
  PROVE  \/ Remove(id) = g_atIRDataTrigger /\ ~Duplicate(id)
         \/ \E k \in Slot :
              /\ ~Free(k) /\ g_atIRDataTrigger[k].id = id
              /\ Remove(id) = [g_atIRDataTrigger EXCEPT ![k].mode = "NONE"]
<1> DEFINE holding == {i \in Slot : ~Free(i) /\ g_atIRDataTrigger[i].id = id}
           first == CHOOSE i \in holding : \A j \in holding : i <= j
<1>1. CASE holding = {}
  <2>1. Remove(id) = g_atIRDataTrigger
    BY <1>1, Zenon DEF Remove
  <2>2. ~Duplicate(id)
    BY <1>1, Zenon DEF Duplicate
  <2> QED BY <2>1, <2>2
<1>2. CASE holding # {}
  <2>1. holding \subseteq Slot
    OBVIOUS
  <2>2. \E i \in holding : \A j \in holding : i <= j
    <3> HIDE DEF holding
    <3> QED BY <1>2, <2>1, FirstSlot
  <2>3. first \in holding
    <3> HIDE DEF holding
    <3> QED BY <2>2
  <2>4. Remove(id) = [g_atIRDataTrigger EXCEPT ![first].mode = "NONE"]
    BY <1>2, Zenon DEF Remove
  <2> HIDE DEF first
  <2> QED BY <2>3, <2>4
<1> QED BY <1>1, <1>2

-----------------------------------------------------------------------------
(* What the steps do, in terms of single events and fields. *)

LEMMA NoneIsTyped ==
  /\ None \in InTable /\ None \in Built /\ None.mode = "NONE" /\ None.sen = 0 /\ None.from = 0
BY CommandAssumption DEF None, InTable, Built, Modes, TimeKinds

LEMMA MarkedCommand ==
  ASSUME NEW c \in Command
  PROVE  /\ [c EXCEPT !.overtaken = TRUE] \in Command
         /\ [c EXCEPT !.overtaken = TRUE].overtaken = TRUE
         /\ [c EXCEPT !.overtaken = TRUE].type = c.type
         /\ [c EXCEPT !.overtaken = TRUE].text = c.text
BY DEF Command

(* A command that is written marks those of the other type that wait.      *)
SameButMarked(new, old, type) ==
  /\ new = Other <=> old = Other
  /\ old # Other => /\ new \in Command /\ new.text = old.text /\ new.type = old.type
                    /\ new.overtaken <=> old.overtaken \/ old.type # type

LEMMA WriteEffect ==
  ASSUME TypeInv, NEW text \in Texts, NEW type \in Types, WriteText(text, type)
  PROVE  /\ Len(queue) \in Nat /\ QueueType'
         /\ \A k \in 1 .. Len(queue) : SameButMarked(queue'[k], queue[k], type)
         /\ HasRoom => /\ Len(queue') = Len(queue) + 1
                       /\ queue'[Len(queue) + 1] =
                            [text |-> <<text>>, type |-> type, overtaken |-> FALSE]
         /\ ~HasRoom => Len(queue') = Len(queue) /\ "refused" \in odd'
         /\ queue # <<>> => queue' # <<>>
         /\ odd \subseteq odd'
         /\ (\E k \in 1 .. Len(queue) : queue'[k].overtaken) => "overtaken" \in odd'
<1> DEFINE E == Command \union {Other}
           mark(e) == IF e.type = type \/ e = Other THEN e ELSE [e EXCEPT !.overtaken = TRUE]
           marked == [k \in DOMAIN queue |-> mark(queue[k])]
           new == [text |-> <<text>>, type |-> type, overtaken |-> FALSE]
<1>1. queue' = IF HasRoom THEN Append(marked, new) ELSE marked
  BY Zenon DEF WriteText
<1>2. /\ odd' = odd \union (IF HasRoom THEN {} ELSE {"refused"})
                \union (IF \E i \in DOMAIN queue : queue'[i].overtaken THEN {"overtaken"} ELSE {})
  BY Zenon DEF WriteText
<1>3. \A e \in E : mark(e) \in E /\ SameButMarked(mark(e), e, type)
  <2> SUFFICES ASSUME NEW e \in E PROVE mark(e) \in E /\ SameButMarked(mark(e), e, type)
    OBVIOUS
  <2>1. CASE e = Other
    BY <2>1 DEF SameButMarked
  <2>2. CASE e \in Command
    <3>1. e # Other
      BY <2>2, OtherIsNoCommand
    <3>2. CASE e.type = type
      <4>1. mark(e) = e
        BY <3>2
      <4> HIDE DEF mark
      <4> QED BY <2>2, <3>1, <3>2, <4>1 DEF SameButMarked
    <3>3. CASE e.type # type
      <4>1. mark(e) = [e EXCEPT !.overtaken = TRUE]
        BY <3>1, <3>3
      <4>2. mark(e) \in Command /\ mark(e).overtaken = TRUE /\ mark(e).type = e.type
            /\ mark(e).text = e.text
        BY <2>2, <4>1, MarkedCommand
      <4>3. mark(e) # Other
        BY <4>2, OtherIsNoCommand
      <4> HIDE DEF mark
      <4> QED BY <2>2, <3>1, <3>3, <4>2, <4>3 DEF SameButMarked
    <3> QED BY <3>2, <3>3
  <2> QED BY <2>1, <2>2
<1>4. new \in E
  BY CommandIsCommand
<1>5. queue \in Seq(E) /\ Len(queue) <= SCHED_QUEUE_SIZE
  BY DEF TypeInv, QueueType
<1> HIDE DEF E, mark, new
<1>6. /\ DOMAIN queue = 1 .. Len(queue) /\ Len(queue) \in Nat
      /\ \A k \in 1 .. Len(queue) : queue[k] \in E
  BY <1>5
<1>7. \A k \in 1 .. Len(queue) : marked[k] = mark(queue[k]) /\ marked[k] \in E
  BY <1>3, <1>6
<1>8. /\ marked \in Seq(E) /\ Len(marked) = Len(queue)
      /\ queue # <<>> => marked # <<>>
  <2>1. marked \in [1 .. Len(queue) -> E]
    BY <1>3, <1>6
  <2>2. marked \in Seq(E)
    <3> HIDE DEF marked
    <3>1. marked \in UNION {[1 .. n -> E] : n \in Nat}
      BY <1>6, <2>1
    <3> QED BY <3>1, SeqDef, Zenon
  <2>3. DOMAIN marked = 1 .. Len(queue)
    BY <1>6
  <2> HIDE DEF marked
  <2>4. Len(marked) = Len(queue)
    BY <1>6, <2>2, <2>3, LenProperties
  <2>5. queue # <<>> => marked # <<>>
    BY <1>5, <2>2, <2>4
  <2> QED BY <2>2, <2>4, <2>5
<1>9. \A k \in 1 .. Len(queue) : SameButMarked(marked[k], queue[k], type)
  BY <1>3, <1>6, <1>7
<1> HIDE DEF marked
<1>10. CASE HasRoom
  <2>1. queue' = Append(marked, new)
    BY <1>1, <1>10
  <2>2. /\ queue' \in Seq(E) /\ Len(queue') = Len(queue) + 1 /\ queue'[Len(queue) + 1] = new
        /\ \A k \in 1 .. Len(queue) : queue'[k] = marked[k]
        /\ queue' # <<>>
    BY <1>4, <1>6, <1>8, <2>1, AppendProperties
  <2>3. Len(queue') <= SCHED_QUEUE_SIZE
    BY <1>6, <1>10, <2>2, CommandAssumption DEF HasRoom
  <2>4. \A k \in 1 .. Len(queue) : SameButMarked(queue'[k], queue[k], type)
    BY <1>9, <2>2
  <2> QED BY <1>2, <1>6, <1>10, <2>2, <2>3, <2>4 DEF E, QueueType, new
<1>11. CASE ~HasRoom
  <2>1. queue' = marked
    BY <1>1, <1>11
  <2> QED BY <1>2, <1>5, <1>6, <1>8, <1>9, <1>11, <2>1 DEF E, QueueType
<1> QED BY <1>10, <1>11

LEMMA DecodedFrom ==
  ASSUME NEW c \in Command, NEW k \in TimeKinds
  PROVE  LET d == [None EXCEPT !.id = c.text[1].id, !.text = c.text, !.time1 = k]
         IN /\ d \in Built /\ d.id = c.text[1].id /\ d.time1 = k
            /\ d.text = c.text /\ d.sen = 0 /\ d.from = 0
<1> DEFINE t == c.text[1]
           a == [None EXCEPT !.id = t.id]
           b == [a EXCEPT !.text = c.text]
           d == [None EXCEPT !.id = t.id, !.text = c.text, !.time1 = k]
<1>1. t \in Texts /\ c.text \in {<<u>> : u \in Texts} /\ t.id \in TrigIDs
  <2>1. t \in Texts
    BY CommandParts
  <2> HIDE DEF t
  <2> QED BY <2>1, TextParts DEF Command
<1> HIDE DEF t
<1>2. a \in Built /\ a.id = t.id /\ a.sen = 0 /\ a.from = 0
  BY <1>1, NoneIsTyped DEF Built
<1> HIDE DEF a
<1>3. b \in Built /\ b.id = t.id /\ b.text = c.text /\ b.sen = 0 /\ b.from = 0
  BY <1>1, <1>2 DEF Built
<1>4. d = [b EXCEPT !.time1 = k]
  BY Zenon DEF a
<1> HIDE DEF b, d
<1>5. d \in Built /\ d.id = t.id /\ d.time1 = k /\ d.text = c.text /\ d.sen = 0 /\ d.from = 0
  BY <1>3, <1>4 DEF Built
<1> QED BY <1>5 DEF d, t

LEMMA DecodeEffect ==
  ASSUME TypeInv, Decode
  PROVE  LET c == Head(queue)
             t == c.text[1]
         IN /\ pc = "idle" /\ queue # <<>> /\ c \in Command /\ t \in Texts
            /\ UNCHANGED <<g_ubTriggerType, g_ubMotionSensTemp, g_atIRDataTrigger>>
            /\ UNCHANGED <<writes, sensWrite, wanted>>
            /\ \/ /\ pc' = "decoded" /\ UNCHANGED <<queue, odd>>
                  /\ tIRDataTrigger' \in Built /\ tIRDataTrigger'.text = c.text
                  /\ tIRDataTrigger'.id = t.id
                  /\ tIRDataTrigger'.time1 = Time1(t, g_ubTriggerType)
                  /\ tIRDataTrigger'.sen = 0 /\ tIRDataTrigger'.from = 0
                  /\ Parses(t, g_ubTriggerType)
               \/ /\ Return
                  /\ \/ ~Parses(t, g_ubTriggerType) /\ UNCHANGED odd
                     \/ odd' = odd \union {"overrun"}
<1> DEFINE c == Head(queue)
           t == c.text[1]
<1>1. /\ pc = "idle" /\ queue # <<>> /\ c # Other
      /\ UNCHANGED <<g_ubTriggerType, g_ubMotionSensTemp, g_atIRDataTrigger>>
      /\ UNCHANGED <<writes, sensWrite, wanted>>
  BY Zenon DEF Decode, settings
<1>2. \/ /\ Parses(t, g_ubTriggerType) /\ pc' = "decoded"
         /\ tIRDataTrigger' = [None EXCEPT !.id = t.id, !.text = c.text,
                                           !.time1 = Time1(t, g_ubTriggerType)]
         /\ UNCHANGED <<queue, odd>>
      \/ /\ Return
         /\ odd' = odd \union (IF Parses(t, g_ubTriggerType) THEN {"overrun"} ELSE {})
  BY Zenon DEF Decode
<1>3. c \in Command /\ t \in Texts
  <2>1. c \in Command \union {Other}
    BY <1>1, QueueHead DEF TypeInv
  <2>2. c \in Command
    BY <1>1, <2>1
  <2> HIDE DEF c
  <2> QED BY <2>2, CommandParts
<1>4. Time1(t, g_ubTriggerType) \in TimeKinds
  BY ModeAndTime
<1>5. ASSUME Parses(t, g_ubTriggerType), pc' = "decoded", UNCHANGED <<queue, odd>>,
             tIRDataTrigger' = [None EXCEPT !.id = t.id, !.text = c.text,
                                            !.time1 = Time1(t, g_ubTriggerType)]
      PROVE  /\ tIRDataTrigger' \in Built /\ tIRDataTrigger'.text = c.text
             /\ tIRDataTrigger'.id = t.id
             /\ tIRDataTrigger'.time1 = Time1(t, g_ubTriggerType)
             /\ tIRDataTrigger'.sen = 0 /\ tIRDataTrigger'.from = 0
  <2> DEFINE k == Time1(t, g_ubTriggerType)
  <2>1. tIRDataTrigger' = [None EXCEPT !.id = c.text[1].id, !.text = c.text, !.time1 = k]
    BY <1>5, Zenon
  <2>2. k \in TimeKinds
    BY <1>4
  <2> HIDE DEF c, k
  <2> QED BY <1>3, <2>1, <2>2, DecodedFrom, Zenon DEF k, t
<1>6. ASSUME Return,
             odd' = odd \union (IF Parses(t, g_ubTriggerType) THEN {"overrun"} ELSE {})
      PROVE  \/ ~Parses(t, g_ubTriggerType) /\ UNCHANGED odd
             \/ odd' = odd \union {"overrun"}
  BY <1>6
<1> HIDE DEF c, t
<1> QED BY <1>1, <1>2, <1>3, <1>5, <1>6, Zenon DEF c, t

(* The command in hand. *)
LEMMA InHandIsCommand ==
  ASSUME TypeInv, InHand, pc # "idle"
  PROVE  LET c == Head(queue)
             t == c.text[1]
         IN /\ queue # <<>> /\ c \in Command /\ t \in Texts /\ AsDecoded(c)
            /\ c.text = <<t>> /\ c.text # <<>>
            /\ tIRDataTrigger.text[1] = t /\ tIRDataTrigger \in Built
<1> DEFINE c == Head(queue)
           t == c.text[1]
<1>1. queue # <<>> /\ c # Other /\ AsDecoded(c) /\ tIRDataTrigger \in Built
  BY Zenon DEF InHand, TypeInv, HandlerType
<1>2. c \in Command \union {Other}
  BY <1>1, QueueHead DEF TypeInv
<1>3. c \in Command
  BY <1>1, <1>2
<1>4. tIRDataTrigger.text = c.text
  BY <1>1, Zenon DEF AsDecoded
<1> HIDE DEF c
<1>5. t \in Texts /\ c.text = <<t>>
  BY <1>3, CommandParts
<1>6. c.text # <<>>
  <2> HIDE DEF t
  <2> QED BY <1>5
<1> HIDE DEF t
<1> QED BY <1>1, <1>3, <1>4, <1>5, <1>6, Zenon DEF c, t

LEMMA CreateEffect ==
  ASSUME TypeInv, InHand, Create
  PROVE  LET c == Head(queue)
             t == c.text[1]
         IN /\ pc = "decoded" /\ t.verb = "c"
            /\ UNCHANGED <<g_ubTriggerType, g_ubMotionSensTemp, g_atIRDataTrigger>>
            /\ UNCHANGED <<writes, sensWrite, wanted, odd>>
            /\ \/ Return /\ (Duplicate(tIRDataTrigger.id) \/ Full)
               \/ /\ ~Duplicate(tIRDataTrigger.id) /\ ~Full /\ UNCHANGED queue
                  /\ tIRDataTrigger' \in Built /\ tIRDataTrigger'.text = c.text
                  /\ tIRDataTrigger'.id = tIRDataTrigger.id
                  /\ tIRDataTrigger'.time1 = tIRDataTrigger.time1
                  /\ tIRDataTrigger'.mode = Mode(t, g_ubTriggerType)
                  /\ \/ /\ g_ubMotionSensTemp = 255 /\ pc' = "copy"
                        /\ tIRDataTrigger'.sen = tIRDataTrigger.sen
                        /\ tIRDataTrigger'.from = tIRDataTrigger.from
                     \/ /\ g_ubMotionSensTemp # 255 /\ pc' = "clear"
                        /\ tIRDataTrigger'.from = sensWrite
<1> DEFINE c == Head(queue)
           t == c.text[1]
           m == ModeNow(tIRDataTrigger.text[1])
           s == ConvertSensitivityToLevel(g_ubMotionSensTemp)
           built == [tIRDataTrigger EXCEPT !.mode = m]
           full == [built EXCEPT !.sen = s, !.from = sensWrite]
<1>1. /\ pc = "decoded" /\ tIRDataTrigger.text[1].verb = "c"
      /\ UNCHANGED <<g_ubTriggerType, g_ubMotionSensTemp, g_atIRDataTrigger>>
      /\ UNCHANGED <<writes, sensWrite, wanted, odd>>
  BY Zenon DEF Create, settings, history
<1>2. IF Duplicate(built.id) \/ Full THEN Return
      ELSE /\ pc' = IF g_ubMotionSensTemp # 255 THEN "clear" ELSE "copy"
           /\ tIRDataTrigger' = IF g_ubMotionSensTemp = 255 THEN built ELSE full
           /\ UNCHANGED queue
  BY Zenon DEF Create
<1>3. /\ tIRDataTrigger \in Built /\ tIRDataTrigger.text = c.text
      /\ tIRDataTrigger.text[1] = t
  <2>1. pc # "idle"
    BY <1>1
  <2> QED BY <2>1, InHandIsCommand, Zenon DEF AsDecoded
<1>4. m \in Modes /\ m = Mode(t, g_ubTriggerType)
  BY <1>3, ModeAndTime DEF ModeNow
<1>5. sensWrite \in 0 .. MaxWrites
  BY DEF TypeInv, HistoryType
<1>6. g_ubMotionSensTemp = 255 \/ s \in 0 .. 5
  <2>1. g_ubMotionSensTemp \in Digits \union {0, 255}
    BY DEF TypeInv, SettingsType
  <2>2. g_ubMotionSensTemp = 255 \/ g_ubMotionSensTemp \in 0 .. 15
    BY <2>1, CommandAssumption
  <2> QED BY <2>2, LevelOfSensitivity
<1> HIDE DEF c, t, m, s
<1>7. /\ built \in Built /\ built.mode = m /\ built.id = tIRDataTrigger.id
      /\ built.time1 = tIRDataTrigger.time1 /\ built.text = tIRDataTrigger.text
      /\ built.sen = tIRDataTrigger.sen /\ built.from = tIRDataTrigger.from
  BY <1>3, <1>4 DEF Built
<1> HIDE DEF built
<1>8. s \in 0 .. 5 =>
        /\ full \in Built /\ full.mode = m /\ full.id = tIRDataTrigger.id
        /\ full.time1 = tIRDataTrigger.time1 /\ full.text = tIRDataTrigger.text
        /\ full.from = sensWrite
  <2> SUFFICES ASSUME s \in 0 .. 5
               PROVE  /\ full \in Built /\ full.mode = m /\ full.id = tIRDataTrigger.id
                      /\ full.time1 = tIRDataTrigger.time1 /\ full.text = tIRDataTrigger.text
                      /\ full.from = sensWrite
    OBVIOUS
  <2> DEFINE half == [built EXCEPT !.sen = s]
  <2>1. /\ half \in Built /\ half.mode = m /\ half.id = tIRDataTrigger.id
        /\ half.time1 = tIRDataTrigger.time1 /\ half.text = tIRDataTrigger.text
    BY <1>7 DEF Built
  <2>2. full = [half EXCEPT !.from = sensWrite]
    BY Zenon
  <2> HIDE DEF half, full
  <2> QED BY <1>5, <2>1, <2>2 DEF Built
<1> HIDE DEF full
<1>9. CASE Duplicate(built.id) \/ Full
  BY <1>1, <1>2, <1>3, <1>7, <1>9, Zenon DEF c, t
<1>10. CASE ~(Duplicate(built.id) \/ Full)
  <2>1. CASE g_ubMotionSensTemp = 255
    BY <1>1, <1>2, <1>3, <1>4, <1>7, <1>10, <2>1, Zenon DEF c, t
  <2>2. CASE g_ubMotionSensTemp # 255
    BY <1>1, <1>2, <1>3, <1>4, <1>6, <1>7, <1>8, <1>10, <2>2, Zenon DEF c, t
  <2> QED BY <2>1, <2>2
<1> QED BY <1>9, <1>10

(* The trigger that is copied, and the table with it. *)
LEMMA CopyEffect ==
  ASSUME TypeInv, InHand, CopyTrigger
  PROVE  LET c == Head(queue)
             k == FirstFree
             t == g_atIRDataTrigger'[k]
         IN /\ pc = "copy" /\ Return /\ AsBuilt(c)
            /\ UNCHANGED <<g_ubTriggerType, g_ubMotionSensTemp>>
            /\ UNCHANGED <<writes, sensWrite, wanted, odd>>
            /\ k \in Slot /\ Free(k) /\ TableType'
            /\ t.text = <<c>> /\ t.mode = tIRDataTrigger.mode /\ t.id = tIRDataTrigger.id
            /\ t.time1 = tIRDataTrigger.time1 /\ t.sen = tIRDataTrigger.sen
            /\ t.from = tIRDataTrigger.from
            /\ \A i \in Slot : i # k => g_atIRDataTrigger'[i] = g_atIRDataTrigger[i]
<1> DEFINE c == Head(queue)
           k == FirstFree
           t == [tIRDataTrigger EXCEPT !.text = <<c>>]
<1>1. /\ pc = "copy" /\ Return /\ UNCHANGED <<g_ubTriggerType, g_ubMotionSensTemp>>
      /\ UNCHANGED <<writes, sensWrite, wanted, odd>>
      /\ g_atIRDataTrigger' = [g_atIRDataTrigger EXCEPT ![k] = t]
  BY Zenon DEF CopyTrigger, settings, history
<1>2. c \in Command /\ tIRDataTrigger \in Built
  <2>1. pc # "idle"
    BY <1>1
  <2> QED BY <2>1, InHandIsCommand, Zenon
<1>3. AsBuilt(c) /\ ~Full
  BY <1>1 DEF InHand, AsBuilt
<1>4. k \in Slot /\ Free(k)
  BY <1>3, FirstFreeIsFree
<1> HIDE DEF c, k
<1>5. /\ t \in InTable /\ t.text = <<c>> /\ t.mode = tIRDataTrigger.mode
      /\ t.id = tIRDataTrigger.id /\ t.time1 = tIRDataTrigger.time1
      /\ t.sen = tIRDataTrigger.sen /\ t.from = tIRDataTrigger.from
  BY <1>2 DEF Built, InTable
<1> HIDE DEF t
<1>6. /\ TableType' /\ g_atIRDataTrigger'[k] = t
      /\ \A i \in Slot : i # k => g_atIRDataTrigger'[i] = g_atIRDataTrigger[i]
  BY <1>1, <1>4, <1>5 DEF TypeInv, TableType
<1> QED BY <1>1, <1>3, <1>4, <1>5, <1>6, Zenon DEF c, k

LEMMA DeleteEffect ==
  ASSUME TypeInv, InHand, Delete
  PROVE  LET c == Head(queue)
         IN /\ pc = "decoded" /\ c.text[1].verb = "d" /\ Return
            /\ UNCHANGED <<g_ubTriggerType, g_ubMotionSensTemp>>
            /\ UNCHANGED <<writes, sensWrite, wanted, odd>>
            /\ TableType'
            /\ \/ UNCHANGED g_atIRDataTrigger /\ ~Duplicate(tIRDataTrigger.id)
               \/ \E k \in Slot :
                    /\ ~Free(k) /\ g_atIRDataTrigger[k].id = tIRDataTrigger.id
                    /\ Free(k)' /\ g_atIRDataTrigger'[k].from = g_atIRDataTrigger[k].from
                    /\ \A i \in Slot : i # k => g_atIRDataTrigger'[i] = g_atIRDataTrigger[i]
<1> DEFINE id == tIRDataTrigger.id
<1>1. /\ pc = "decoded" /\ tIRDataTrigger.text[1].verb = "d" /\ Return
      /\ UNCHANGED <<g_ubTriggerType, g_ubMotionSensTemp>>
      /\ UNCHANGED <<writes, sensWrite, wanted, odd>>
      /\ g_atIRDataTrigger' = Remove(id)
  BY Zenon DEF Delete, settings, history
<1>2. tIRDataTrigger.text[1] = Head(queue).text[1]
  <2>1. pc # "idle"
    BY <1>1
  <2> QED BY <2>1, InHandIsCommand, Zenon
<1>3. g_atIRDataTrigger \in [Slot -> InTable]
  BY DEF TypeInv, TableType
<1> HIDE DEF id
<1>4. ASSUME NEW k \in Slot, g_atIRDataTrigger' = [g_atIRDataTrigger EXCEPT ![k].mode = "NONE"]
      PROVE  /\ TableType' /\ Free(k)'
             /\ g_atIRDataTrigger'[k].from = g_atIRDataTrigger[k].from
             /\ \A i \in Slot : i # k => g_atIRDataTrigger'[i] = g_atIRDataTrigger[i]
  <2> DEFINE r == [g_atIRDataTrigger[k] EXCEPT !.mode = "NONE"]
  <2>1. g_atIRDataTrigger[k] \in InTable
    BY <1>3
  <2>2. r \in InTable /\ r.mode = "NONE" /\ r.from = g_atIRDataTrigger[k].from
    BY <2>1 DEF InTable, Modes
  <2>3. g_atIRDataTrigger' = [g_atIRDataTrigger EXCEPT ![k] = r]
    BY <1>4, Zenon
  <2> HIDE DEF r
  <2>4. /\ TableType' /\ g_atIRDataTrigger'[k] = r
        /\ \A i \in Slot : i # k => g_atIRDataTrigger'[i] = g_atIRDataTrigger[i]
    BY <1>3, <2>2, <2>3 DEF TableType
  <2> QED BY <2>2, <2>4, Zenon DEF Free
<1>5. \/ UNCHANGED g_atIRDataTrigger /\ ~Duplicate(id)
      \/ \E k \in Slot :
           /\ ~Free(k) /\ g_atIRDataTrigger[k].id = id
           /\ g_atIRDataTrigger' = [g_atIRDataTrigger EXCEPT ![k].mode = "NONE"]
  BY <1>1, RemoveEffect DEF TypeInv
<1>6. CASE UNCHANGED g_atIRDataTrigger /\ ~Duplicate(id)
  BY <1>1, <1>2, <1>3, <1>6, Zenon DEF TableType, id
<1>7. ASSUME NEW k \in Slot, ~Free(k), g_atIRDataTrigger[k].id = id,
             g_atIRDataTrigger' = [g_atIRDataTrigger EXCEPT ![k].mode = "NONE"]
      PROVE  /\ TableType'
             /\ \E j \in Slot :
                    /\ ~Free(j) /\ g_atIRDataTrigger[j].id = id
                    /\ Free(j)' /\ g_atIRDataTrigger'[j].from = g_atIRDataTrigger[j].from
                    /\ \A i \in Slot : i # j => g_atIRDataTrigger'[i] = g_atIRDataTrigger[i]
  BY <1>4, <1>7, Zenon
<1> QED BY <1>1, <1>2, <1>5, <1>6, <1>7, Zenon DEF id

-----------------------------------------------------------------------------
(* Types are kept. *)

LEMMA WantedIsIDs ==
  ASSUME NEW ids \in SUBSET TrigIDs, NEW t \in Texts, NEW type
  PROVE  Wanted(ids, t, type) \in SUBSET TrigIDs
BY TextParts DEF Wanted

LEMMA InitTypes == Init => TypeInv
<1> SUFFICES ASSUME Init PROVE TypeInv
  OBVIOUS
<1>1. SettingsType
  BY DEF Init, SettingsType
<1>2. TableType /\ HandlerType
  <2>1. None \in InTable /\ None \in Built
    BY NoneIsTyped
  <2> QED BY <2>1 DEF Init, TableType, HandlerType
<1>3. QueueType
  <2> DEFINE E == Command \union {Other}
  <2>1. queue = <<>>
    BY DEF Init
  <2> HIDE DEF E
  <2>2. queue \in Seq(E) /\ Len(queue) = 0
    BY <2>1
  <2> QED BY <2>2, CommandAssumption DEF QueueType, E
<1>4. HistoryType
  BY CommandAssumption DEF Init, HistoryType
<1> QED BY <1>1, <1>2, <1>3, <1>4 DEF TypeInv

LEMMA ReturnTypes ==
  ASSUME TypeInv, queue # <<>>, Return PROVE QueueType' /\ HandlerType'
<1>1. QueueType'
  BY QueueTail DEF TypeInv, Return
<1>2. HandlerType'
  BY NoneIsTyped DEF HandlerType, Return
<1> QED BY <1>1, <1>2

LEMMA InterruptTypes == ASSUME TypeInv, Interrupt PROVE TypeInv'
<1> USE DEF TypeInv
<1>1. ASSUME NEW text \in Texts, NEW type \in Types, WriteText(text, type) PROVE TypeInv'
  <2>1. QueueType'
    BY <1>1, WriteEffect
  <2>2. /\ writes < MaxWrites /\ writes' = writes + 1 /\ g_ubTriggerType' = type
        /\ wanted' = Wanted(wanted, text, type)
        /\ UNCHANGED g_ubMotionSensTemp /\ UNCHANGED g_atIRDataTrigger
        /\ UNCHANGED pc /\ UNCHANGED tIRDataTrigger /\ UNCHANGED sensWrite
    BY <1>1, Zenon DEF WriteText, Count, handler
  <2>3. odd' \subseteq {"refused", "overtaken", "overrun"}
    <3>1. odd' \subseteq odd \union {"refused", "overtaken"}
      BY <1>1 DEF WriteText
    <3> QED BY <3>1 DEF HistoryType
  <2>4. HistoryType'
    <3>1. wanted' \in SUBSET TrigIDs
      BY <2>2, WantedIsIDs DEF HistoryType
    <3> QED BY <2>2, <2>3, <3>1, CommandAssumption DEF HistoryType
  <2>5. SettingsType' /\ TableType' /\ HandlerType'
    BY <2>2, Zenon DEF SettingsType, TableType, HandlerType
  <2> QED BY <2>1, <2>4, <2>5
<1>2. ASSUME NEW digit \in Digits, WriteSensitivity(digit) PROVE TypeInv'
  <2>1. /\ writes < MaxWrites /\ writes' = writes + 1 /\ sensWrite' = writes'
        /\ g_ubMotionSensTemp' = digit /\ UNCHANGED g_ubTriggerType
        /\ UNCHANGED g_atIRDataTrigger /\ UNCHANGED pc /\ UNCHANGED tIRDataTrigger
        /\ UNCHANGED queue /\ UNCHANGED wanted /\ UNCHANGED odd
    BY <1>2, Zenon DEF WriteSensitivity, Count, handler
  <2>2. HistoryType'
    BY <2>1, CommandAssumption DEF HistoryType
  <2>3. SettingsType'
    BY <2>1 DEF SettingsType
  <2> QED BY <2>1, <2>2, <2>3, Zenon DEF TableType, HandlerType, QueueType
<1>3. CASE OtherPut
  <2>1. /\ HasRoom /\ queue' = Append(queue, Other)
        /\ UNCHANGED <<settings, g_atIRDataTrigger, handler, history>>
    BY <1>3 DEF OtherPut
  <2>2. QueueType'
    <3>1. queue \in Seq(Command \union {Other})
      BY DEF QueueType
    <3>2. /\ queue' \in Seq(Command \union {Other}) /\ Len(queue') = Len(queue) + 1
          /\ Len(queue) \in Nat
      BY <2>1, <3>1, QueueAppend
    <3> QED BY <2>1, <3>2, CommandAssumption DEF QueueType, HasRoom
  <2> QED BY <2>1, <2>2, Zenon DEF SettingsType, TableType, HandlerType, HistoryType, settings,
             handler, history
<1> QED BY <1>1, <1>2, <1>3, Zenon DEF Interrupt

LEMMA MainLoopTypes == ASSUME TypeInv, InHand, MainLoop PROVE TypeInv'
<1> USE DEF TypeInv
<1>1. CASE OtherHandled
  <2>1. queue # <<>> /\ Return /\ UNCHANGED <<settings, g_atIRDataTrigger, history>>
    BY <1>1 DEF OtherHandled
  <2>2. QueueType' /\ HandlerType'
    BY <2>1, ReturnTypes
  <2> QED BY <2>1, <2>2, Zenon DEF SettingsType, TableType, HistoryType, settings, history
<1>2. CASE Decode
  <2> DEFINE t == Head(queue).text[1]
  <2>1. /\ queue # <<>>
        /\ UNCHANGED g_ubTriggerType /\ UNCHANGED g_ubMotionSensTemp
        /\ UNCHANGED g_atIRDataTrigger
        /\ UNCHANGED writes /\ UNCHANGED sensWrite /\ UNCHANGED wanted
        /\ \/ /\ pc' = "decoded" /\ UNCHANGED queue /\ UNCHANGED odd
              /\ tIRDataTrigger' \in Built
           \/ Return /\ (UNCHANGED odd \/ odd' = odd \union {"overrun"})
    BY <1>2, DecodeEffect
  <2>2. QueueType' /\ HandlerType'
    <3>1. CASE Return
      BY <2>1, <3>1, ReturnTypes
    <3>2. CASE pc' = "decoded" /\ UNCHANGED queue /\ tIRDataTrigger' \in Built
      BY <3>2 DEF QueueType, HandlerType
    <3> QED BY <2>1, <3>1, <3>2, Zenon
  <2>3. odd' \subseteq {"refused", "overtaken", "overrun"}
    BY <2>1 DEF HistoryType
  <2> QED BY <2>1, <2>2, <2>3, Zenon DEF SettingsType, TableType, HistoryType
<1>3. CASE Create
  <2>1. /\ pc # "idle"
        /\ UNCHANGED g_ubTriggerType /\ UNCHANGED g_ubMotionSensTemp
        /\ UNCHANGED g_atIRDataTrigger
        /\ UNCHANGED writes /\ UNCHANGED sensWrite /\ UNCHANGED wanted /\ UNCHANGED odd
        /\ \/ Return
           \/ pc' \in {"copy", "clear"} /\ UNCHANGED queue /\ tIRDataTrigger' \in Built
    BY <1>3, CreateEffect
  <2>2. QueueType' /\ HandlerType'
    <3>1. queue # <<>>
      BY <2>1 DEF InHand
    <3>2. CASE Return
      BY <3>1, <3>2, ReturnTypes
    <3>3. CASE pc' \in {"copy", "clear"} /\ UNCHANGED queue /\ tIRDataTrigger' \in Built
      BY <3>3 DEF QueueType, HandlerType
    <3> QED BY <2>1, <3>2, <3>3, Zenon
  <2> QED BY <2>1, <2>2, Zenon DEF SettingsType, TableType, HistoryType
<1>4. CASE ClearSensitivity
  <2>1. SettingsType' /\ pc' = "copy"
        /\ UNCHANGED <<g_atIRDataTrigger, queue, tIRDataTrigger, history>>
    BY <1>4 DEF ClearSensitivity, SettingsType
  <2> QED BY <2>1 DEF TableType, QueueType, HandlerType, HistoryType, history
<1>5. CASE CopyTrigger
  <2>1. /\ pc = "copy" /\ Return /\ TableType'
        /\ UNCHANGED g_ubTriggerType /\ UNCHANGED g_ubMotionSensTemp
        /\ UNCHANGED writes /\ UNCHANGED sensWrite /\ UNCHANGED wanted /\ UNCHANGED odd
    BY <1>5, CopyEffect
  <2>2. queue # <<>>
    BY <2>1 DEF InHand
  <2>3. QueueType' /\ HandlerType'
    BY <2>1, <2>2, ReturnTypes
  <2> QED BY <2>1, <2>3, Zenon DEF SettingsType, HistoryType
<1>6. CASE Delete
  <2>1. /\ pc = "decoded" /\ Return /\ TableType'
        /\ UNCHANGED g_ubTriggerType /\ UNCHANGED g_ubMotionSensTemp
        /\ UNCHANGED writes /\ UNCHANGED sensWrite /\ UNCHANGED wanted /\ UNCHANGED odd
    BY <1>6, DeleteEffect
  <2>2. queue # <<>>
    BY <2>1 DEF InHand
  <2>3. QueueType' /\ HandlerType'
    BY <2>1, <2>2, ReturnTypes
  <2> QED BY <2>1, <2>3, Zenon DEF SettingsType, HistoryType
<1> QED BY <1>1, <1>2, <1>3, <1>4, <1>5, <1>6, Zenon DEF MainLoop

-----------------------------------------------------------------------------
(* The commands that wait, and the one in hand. *)

LEMMA ReturnInTime ==
  ASSUME TypeInv, InTime, queue # <<>>, Return, UNCHANGED g_ubTriggerType, odd \subseteq odd'
  PROVE  InTime' /\ InHand'
<1>1. /\ Len(queue') = Len(queue) - 1 /\ Len(queue) \in Nat \ {0}
      /\ \A k \in 1 .. Len(queue) - 1 : queue'[k] = queue[k + 1]
  BY QueueTail DEF TypeInv, Return
<1>2. \A k \in 1 .. Len(queue') : k + 1 \in 1 .. Len(queue) /\ queue'[k] = queue[k + 1]
  BY <1>1
<1>3. odd' = {} => odd = {}
  OBVIOUS
<1>4. ASSUME NEW k \in 1 .. Len(queue'), queue'[k] # Other
      PROVE  /\ queue'[k].overtaken \/ queue'[k].type = g_ubTriggerType'
             /\ odd' = {} => ~queue'[k].overtaken
  <2>1. k + 1 \in 1 .. Len(queue) /\ queue'[k] = queue[k + 1]
    BY <1>2
  <2> DEFINE e == queue[k + 1]
  <2>2. e # Other => (e.overtaken \/ e.type = g_ubTriggerType) /\ (odd = {} => ~e.overtaken)
    BY <2>1, Zenon DEF InTime
  <2> HIDE DEF e
  <2>3. queue'[k] = e
    BY <2>1 DEF e
  <2> QED BY <1>3, <1>4, <2>2, <2>3, Zenon
<1>5. InTime'
  BY <1>4, Zenon DEF InTime
<1>6. InHand'
  BY DEF Return, InHand
<1> QED BY <1>5, <1>6

LEMMA WriteInTime ==
  ASSUME TypeInv, InTime, InHand, NEW text \in Texts, NEW type \in Types, WriteText(text, type)
  PROVE  InTime' /\ InHand'
<1>1. /\ Len(queue) \in Nat /\ QueueType'
      /\ \A k \in 1 .. Len(queue) : SameButMarked(queue'[k], queue[k], type)
      /\ HasRoom => /\ Len(queue') = Len(queue) + 1
                    /\ queue'[Len(queue) + 1] =
                         [text |-> <<text>>, type |-> type, overtaken |-> FALSE]
      /\ ~HasRoom => Len(queue') = Len(queue)
      /\ queue # <<>> => queue' # <<>>
      /\ odd \subseteq odd'
      /\ (\E k \in 1 .. Len(queue) : queue'[k].overtaken) => "overtaken" \in odd'
  BY WriteEffect
<1>2. /\ g_ubTriggerType' = type /\ UNCHANGED pc /\ UNCHANGED tIRDataTrigger
      /\ UNCHANGED g_atIRDataTrigger
  BY Zenon DEF WriteText, handler
<1>3. ASSUME NEW k \in 1 .. Len(queue), queue'[k] # Other
      PROVE  /\ queue'[k].overtaken \/ queue'[k].type = g_ubTriggerType'
             /\ odd' = {} => ~queue'[k].overtaken
  BY <1>1, <1>2, <1>3, Zenon DEF SameButMarked, InTime
<1>4. HasRoom => /\ queue'[Len(queue) + 1].type = type
                 /\ queue'[Len(queue) + 1].overtaken = FALSE
  BY <1>1
<1>5. \A k \in 1 .. Len(queue') : k \in 1 .. Len(queue) \/ (HasRoom /\ k = Len(queue) + 1)
  BY <1>1
<1>6. InTime'
  BY <1>2, <1>3, <1>4, <1>5, Zenon DEF InTime
<1>7. ASSUME pc' # "idle"
      PROVE  /\ (queue # <<>> /\ Head(queue) # Other /\ AsDecoded(Head(queue)))'
             /\ AsBuilt(Head(queue)) => AsBuilt(Head(queue))'
  <2>1. queue # <<>> /\ Head(queue) # Other /\ AsDecoded(Head(queue))
    BY <1>2, <1>7, Zenon DEF InHand
  <2>2. /\ queue' # <<>> /\ queue'[1] = Head(queue') /\ queue[1] = Head(queue)
        /\ 1 \in 1 .. Len(queue)
    <3>1. queue[1] = Head(queue) /\ 1 \in 1 .. Len(queue)
      BY <2>1, QueueHead DEF TypeInv
    <3>2. queue' # <<>>
      BY <1>1, <2>1
    <3>3. Head(queue') = queue'[1]
      OBVIOUS
    <3> QED BY <3>1, <3>2, <3>3
  <2> DEFINE c == Head(queue)
  <2>3. SameButMarked(c', c, type)
    BY <1>1, <2>2
  <2>4. c # Other /\ AsDecoded(c)
    BY <2>1
  <2> HIDE DEF c
  <2>5. /\ c' # Other /\ c'.text = c.text /\ c'.type = c.type
        /\ c.overtaken => c'.overtaken
    BY <2>3, <2>4, Zenon DEF SameButMarked
  <2>6. AsDecoded(c)'
    BY <1>2, <2>4, <2>5, Zenon DEF AsDecoded
  <2>7. AsBuilt(c) => AsBuilt(c)'
    BY <1>2, <2>5, Zenon DEF AsBuilt, Duplicate, Full, Free
  <2> QED BY <2>2, <2>5, <2>6, <2>7 DEF c
<1>8. InHand'
  <2>1. pc' \in {"clear", "copy"} => pc' # "idle" /\ AsBuilt(Head(queue))
    BY <1>2 DEF InHand
  <2>2. pc' # "idle" => (queue # <<>> /\ Head(queue) # Other /\ AsDecoded(Head(queue)))'
    BY <1>7
  <2>3. pc' \in {"clear", "copy"} => AsBuilt(Head(queue))'
    BY <1>7, <2>1
  <2> QED BY <2>2, <2>3, Zenon DEF InHand
<1> QED BY <1>6, <1>8

LEMMA InterruptInTime ==
  ASSUME TypeInv, InTime, InHand, Interrupt PROVE InTime' /\ InHand'
<1>1. ASSUME NEW text \in Texts, NEW type \in Types, WriteText(text, type)
      PROVE  InTime' /\ InHand'
  BY <1>1, WriteInTime
<1>2. ASSUME NEW digit \in Digits, WriteSensitivity(digit) PROVE InTime' /\ InHand'
  <2>1. UNCHANGED <<g_ubTriggerType, g_atIRDataTrigger, queue, handler, odd>>
    BY <1>2, Zenon DEF WriteSensitivity
  <2> QED BY <2>1, Zenon DEF InTime, InHand, AsDecoded, AsBuilt, Duplicate, Full, Free, handler
<1>3. CASE OtherPut
  <2>1. queue' = Append(queue, Other) /\ UNCHANGED <<settings, g_atIRDataTrigger, handler, odd>>
    BY <1>3, Zenon DEF OtherPut, history
  <2>2. queue \in Seq(Command \union {Other})
    BY DEF TypeInv, QueueType
  <2>3. /\ Len(queue') = Len(queue) + 1 /\ queue'[Len(queue) + 1] = Other
        /\ Len(queue) \in Nat
        /\ \A k \in 1 .. Len(queue) : queue'[k] = queue[k]
        /\ queue # <<>> => Head(queue') = Head(queue)
        /\ queue' # <<>>
    BY <2>1, <2>2, QueueAppend
  <2>4. \A k \in 1 .. Len(queue') :
          queue'[k] = Other \/ (k \in 1 .. Len(queue) /\ queue'[k] = queue[k])
    BY <2>3
  <2>5. InTime'
    BY <2>1, <2>4, Zenon DEF InTime, settings
  <2>6. InHand'
    BY <2>1, <2>3, Zenon DEF InHand, AsDecoded, AsBuilt, Duplicate, Full, Free, handler
  <2> QED BY <2>5, <2>6
<1> QED BY <1>1, <1>2, <1>3, Zenon DEF Interrupt

LEMMA DecodeInTime == ASSUME TypeInv, InTime, InHand, Decode PROVE InTime' /\ InHand'
<1> DEFINE c == Head(queue)
           t == c.text[1]
<1>1. /\ pc = "idle" /\ queue # <<>> /\ c \in Command
      /\ UNCHANGED g_ubTriggerType
      /\ \/ /\ pc' = "decoded" /\ UNCHANGED queue /\ UNCHANGED odd
            /\ tIRDataTrigger'.text = c.text /\ tIRDataTrigger'.id = t.id
            /\ tIRDataTrigger'.time1 = Time1(t, g_ubTriggerType)
            /\ tIRDataTrigger'.sen = 0 /\ Parses(t, g_ubTriggerType)
         \/ Return /\ odd \subseteq odd'
  BY DecodeEffect
<1>2. CASE Return /\ odd \subseteq odd'
  BY <1>1, <1>2, ReturnInTime
<1>3. CASE /\ pc' = "decoded" /\ UNCHANGED queue /\ UNCHANGED odd
           /\ tIRDataTrigger'.text = c.text /\ tIRDataTrigger'.id = t.id
           /\ tIRDataTrigger'.time1 = Time1(t, g_ubTriggerType)
           /\ tIRDataTrigger'.sen = 0 /\ Parses(t, g_ubTriggerType)
  <2>1. c # Other /\ (c.overtaken \/ c.type = g_ubTriggerType)
    <3>1. 1 \in 1 .. Len(queue) /\ queue[1] = c
      BY <1>1, QueueHead DEF TypeInv
    <3>2. c # Other
      BY <1>1, OtherIsNoCommand
    <3> HIDE DEF c
    <3> QED BY <3>1, <3>2, Zenon DEF InTime
  <2>2. c' = c /\ t' = t
    BY <1>3
  <2>3. queue' # <<>>
    BY <1>1, <1>3
  <2>4. AsDecoded(c)'
    <3> HIDE DEF c
    <3> QED BY <1>3, <2>1, <2>2, Zenon DEF AsDecoded, t
  <2>5. InHand'
    <3>1. pc' \notin {"clear", "copy"}
      BY <1>3
    <3>2. c' # Other
      BY <2>1, <2>2
    <3> QED BY <2>3, <2>4, <3>1, <3>2, Zenon DEF InHand
  <2>6. InTime'
    BY <1>1, <1>3, Zenon DEF InTime
  <2> QED BY <2>5, <2>6
<1> QED BY <1>1, <1>2, <1>3, Zenon

LEMMA CreateInTime == ASSUME TypeInv, InTime, InHand, Create PROVE InTime' /\ InHand'
<1> DEFINE c == Head(queue)
           t == c.text[1]
<1>1. /\ pc = "decoded" /\ t.verb = "c"
      /\ UNCHANGED g_ubTriggerType /\ UNCHANGED g_atIRDataTrigger /\ UNCHANGED odd
      /\ \/ Return
         \/ /\ ~Duplicate(tIRDataTrigger.id) /\ ~Full /\ UNCHANGED queue
            /\ tIRDataTrigger'.text = c.text /\ tIRDataTrigger'.id = tIRDataTrigger.id
            /\ tIRDataTrigger'.time1 = tIRDataTrigger.time1
            /\ tIRDataTrigger'.mode = Mode(t, g_ubTriggerType)
            /\ pc' \in {"copy", "clear"}
  BY CreateEffect
<1>2. queue # <<>> /\ c # Other /\ AsDecoded(c)
  BY <1>1 DEF InHand
<1>3. CASE Return
  BY <1>1, <1>2, <1>3, ReturnInTime
<1>4. CASE /\ ~Duplicate(tIRDataTrigger.id) /\ ~Full /\ UNCHANGED queue
           /\ tIRDataTrigger'.text = c.text /\ tIRDataTrigger'.id = tIRDataTrigger.id
           /\ tIRDataTrigger'.time1 = tIRDataTrigger.time1
           /\ tIRDataTrigger'.mode = Mode(t, g_ubTriggerType)
           /\ pc' \in {"copy", "clear"}
  <2>1. c.overtaken \/ c.type = g_ubTriggerType
    <3>1. 1 \in 1 .. Len(queue) /\ queue[1] = c
      BY <1>2, QueueHead DEF TypeInv
    <3> HIDE DEF c
    <3> QED BY <1>2, <3>1, Zenon DEF InTime
  <2>2. c' = c /\ t' = t /\ queue' # <<>> /\ c' # Other /\ pc' # "decoded"
    BY <1>2, <1>4
  <2>3. AsDecoded(c)'
    <3> HIDE DEF c
    <3> QED BY <1>2, <1>4, <2>2, Zenon DEF AsDecoded
  <2>4. AsBuilt(c)'
    <3> HIDE DEF c
    <3> QED BY <1>1, <1>4, <2>1, <2>2, Zenon DEF AsBuilt, t, Duplicate, Full, Free
  <2>5. InHand'
    BY <2>2, <2>3, <2>4, Zenon DEF InHand
  <2>6. InTime'
    BY <1>1, <1>4, Zenon DEF InTime
  <2> QED BY <2>5, <2>6
<1> QED BY <1>1, <1>3, <1>4, Zenon

LEMMA MainLoopInTime == ASSUME TypeInv, InTime, InHand, MainLoop PROVE InTime' /\ InHand'
<1>1. CASE OtherHandled
  <2>1. queue # <<>> /\ Return /\ UNCHANGED g_ubTriggerType /\ UNCHANGED odd
    BY <1>1, Zenon DEF OtherHandled, settings, history
  <2> QED BY <2>1, ReturnInTime
<1>2. CASE Decode
  BY <1>2, DecodeInTime
<1>3. CASE Create
  BY <1>3, CreateInTime
<1>4. CASE ClearSensitivity
  <2>1. /\ pc = "clear" /\ pc' = "copy"
        /\ UNCHANGED <<g_ubTriggerType, g_atIRDataTrigger, queue, tIRDataTrigger, odd>>
    BY <1>4, Zenon DEF ClearSensitivity, history
  <2>2. InTime'
    BY <2>1, Zenon DEF InTime
  <2>3. pc \in {"clear", "copy"} /\ pc # "idle" /\ pc' # "decoded"
    BY <2>1
  <2>4. InHand'
    BY <2>1, <2>3, Zenon DEF InHand, AsDecoded, AsBuilt, Duplicate, Full, Free
  <2> QED BY <2>2, <2>4
<1>5. CASE CopyTrigger
  <2>1. pc = "copy" /\ Return /\ UNCHANGED g_ubTriggerType /\ UNCHANGED odd
    BY <1>5, CopyEffect
  <2>2. queue # <<>>
    BY <2>1 DEF InHand
  <2> QED BY <2>1, <2>2, ReturnInTime
<1>6. CASE Delete
  <2>1. pc = "decoded" /\ Return /\ UNCHANGED g_ubTriggerType /\ UNCHANGED odd
    BY <1>6, DeleteEffect
  <2>2. queue # <<>>
    BY <2>1 DEF InHand
  <2> QED BY <2>1, <2>2, ReturnInTime
<1> QED BY <1>1, <1>2, <1>3, <1>4, <1>5, <1>6, Zenon DEF MainLoop

-----------------------------------------------------------------------------
(* The table: IDs, what was asked for, and sensitivities. *)

(* Only the copy of a trigger and the removal of one change it. *)
LEMMA OthersKeepTable ==
  ASSUME TypeInv, Interrupt \/ OtherHandled \/ Decode \/ Create \/ ClearSensitivity
  PROVE  UNCHANGED g_atIRDataTrigger
BY Zenon DEF Interrupt, WriteText, WriteSensitivity, OtherPut, OtherHandled, Decode, Create,
   ClearSensitivity

LEMMA CopyKeepsTable == ASSUME TypeInv, InHand, TableInv, CopyTrigger PROVE TableInv'
<1> DEFINE c == Head(queue)
           k == FirstFree
           t == g_atIRDataTrigger'[k]
<1>1. /\ k \in Slot /\ Free(k) /\ AsBuilt(c) /\ pc = "copy"
      /\ t.text = <<c>> /\ t.mode = tIRDataTrigger.mode /\ t.id = tIRDataTrigger.id
      /\ t.time1 = tIRDataTrigger.time1
      /\ \A i \in Slot : i # k => g_atIRDataTrigger'[i] = g_atIRDataTrigger[i]
  BY CopyEffect
<1>2. AsDecoded(c)
  BY <1>1 DEF InHand
<1>3. ~Duplicate(tIRDataTrigger.id)
  BY <1>1, Zenon DEF AsBuilt
<1> HIDE DEF c, k
<1>4. ASSUME NEW i \in Slot, NEW j \in Slot, ~Free(i)', ~Free(j)',
             g_atIRDataTrigger'[i].id = g_atIRDataTrigger'[j].id, i # j
      PROVE  FALSE
  <2>1. \A n \in Slot : ~Free(n)' /\ n # k =>
          ~Free(n) /\ g_atIRDataTrigger'[n] = g_atIRDataTrigger[n]
    BY <1>1, Zenon DEF Free
  <2>2. CASE i # k /\ j # k
    BY <1>4, <2>1, <2>2, Zenon DEF TableInv, Unique
  <2>3. CASE i = k
    BY <1>1, <1>3, <1>4, <2>1, <2>3, Zenon DEF Duplicate
  <2>4. CASE j = k
    BY <1>1, <1>3, <1>4, <2>1, <2>4, Zenon DEF Duplicate
  <2> QED BY <2>2, <2>3, <2>4
<1>5. AsSent(t)
  <2>1. t.text # <<>> /\ t.text[1] = c
    <3> HIDE DEF t
    <3> QED BY <1>1
  <2> HIDE DEF t
  <2> QED BY <1>1, <1>2, <2>1, Zenon DEF AsSent, AsBuilt, AsDecoded
<1>6. ASSUME NEW i \in Slot, ~Free(i)' PROVE AsSent(g_atIRDataTrigger[i])'
  <2>1. CASE i = k
    BY <1>5, <2>1, Zenon DEF AsSent
  <2>2. CASE i # k
    <3>1. g_atIRDataTrigger'[i] = g_atIRDataTrigger[i] /\ ~Free(i)
      BY <1>1, <1>6, <2>2, Zenon DEF Free
    <3> QED BY <3>1, Zenon DEF TableInv, AllAsSent, AsSent
  <2> QED BY <2>1, <2>2
<1>7. Unique'
  BY <1>4, Zenon DEF Unique
<1>8. AllAsSent'
  BY <1>6, Zenon DEF AllAsSent
<1> QED BY <1>7, <1>8 DEF TableInv

LEMMA DeleteKeepsTable == ASSUME TypeInv, InHand, TableInv, Delete PROVE TableInv'
<1>1. \/ UNCHANGED g_atIRDataTrigger
      \/ \E k \in Slot : /\ Free(k)'
                         /\ \A i \in Slot : i # k => g_atIRDataTrigger'[i] = g_atIRDataTrigger[i]
  BY DeleteEffect, Zenon
<1>2. \A i \in Slot : ~Free(i)' => ~Free(i) /\ g_atIRDataTrigger'[i] = g_atIRDataTrigger[i]
  BY <1>1, Zenon DEF Free
<1>3. Unique'
  BY <1>2, Zenon DEF TableInv, Unique
<1>4. AllAsSent'
  BY <1>2, Zenon DEF TableInv, AllAsSent, AsSent
<1> QED BY <1>3, <1>4 DEF TableInv

LEMMA NextTableInv == ASSUME TypeInv, InHand, TableInv, Next PROVE TableInv'
<1>1. CASE Interrupt \/ OtherHandled \/ Decode \/ Create \/ ClearSensitivity
  <2>1. UNCHANGED g_atIRDataTrigger
    BY <1>1, OthersKeepTable, Zenon
  <2> QED BY <2>1, Zenon DEF TableInv, Unique, AllAsSent, AsSent, Free
<1> QED BY <1>1, CopyKeepsTable, DeleteKeepsTable, Zenon DEF Next, MainLoop

LEMMA NumbersAreNaturals ==
  ASSUME TypeInv
  PROVE  /\ writes \in Nat /\ sensWrite \in Nat /\ tIRDataTrigger.from \in Nat
         /\ \A i \in Slot : g_atIRDataTrigger[i].from \in Nat
<1>1. writes \in Nat /\ sensWrite \in Nat
  BY CommandAssumption DEF TypeInv, HistoryType
<1>2. tIRDataTrigger.from \in Nat
  BY CommandAssumption DEF TypeInv, HandlerType, Built
<1>3. \A i \in Slot : g_atIRDataTrigger[i].from \in Nat
  BY CommandAssumption DEF TypeInv, TableType, InTable
<1> QED BY <1>1, <1>2, <1>3

LEMMA InterruptKeepsSens == ASSUME TypeInv, SensInv, Interrupt PROVE SensInv'
<1>1. /\ writes \in Nat /\ sensWrite \in Nat /\ tIRDataTrigger.from \in Nat
      /\ \A i \in Slot : g_atIRDataTrigger[i].from \in Nat
  BY NumbersAreNaturals
<1>2. /\ sensWrite <= writes /\ tIRDataTrigger.from <= sensWrite
      /\ \A i \in Slot : g_atIRDataTrigger[i].from <= sensWrite
  BY DEF SensInv, FromWrites
<1>3. ASSUME NEW text \in Texts, NEW type \in Types, WriteText(text, type) PROVE SensInv'
  <2>1. /\ writes' = writes + 1
        /\ UNCHANGED <<g_ubMotionSensTemp, g_atIRDataTrigger, pc, tIRDataTrigger, sensWrite>>
    BY <1>3, Zenon DEF WriteText, Count, handler
  <2>2. FromWrites'
    BY <1>1, <1>2, <2>1 DEF FromWrites
  <2> QED BY <2>1, <2>2, Zenon DEF SensInv, SensitivityUsedOnce, Holds, Pending, Free
<1>4. ASSUME NEW digit \in Digits, WriteSensitivity(digit) PROVE SensInv'
  <2>1. /\ writes' = writes + 1 /\ sensWrite' = writes'
        /\ UNCHANGED <<g_atIRDataTrigger, pc, tIRDataTrigger>>
    BY <1>4, Zenon DEF WriteSensitivity, Count, handler
  <2>2. FromWrites'
    BY <1>1, <1>2, <2>1 DEF FromWrites
  <2>3. tIRDataTrigger.from # sensWrite' /\ \A i \in Slot : g_atIRDataTrigger[i].from # sensWrite'
    BY <1>1, <1>2, <2>1
  <2>4. ~Holds(sensWrite)'
    BY <2>1, <2>3, Zenon DEF Holds
  <2> QED BY <2>1, <2>2, <2>3, <2>4, Zenon DEF SensInv, SensitivityUsedOnce, Holds, Pending, Free
<1>5. CASE OtherPut
  <2>1. UNCHANGED <<g_ubMotionSensTemp, g_atIRDataTrigger, pc, tIRDataTrigger, writes, sensWrite>>
    BY <1>5, Zenon DEF OtherPut, settings, handler, history
  <2> QED BY <2>1, Zenon DEF SensInv, FromWrites, SensitivityUsedOnce, Holds, Pending, Free
<1> QED BY <1>3, <1>4, <1>5, Zenon DEF Interrupt

(* A handler that returns holds no trigger any more. *)
LEMMA ReturnKeepsSens ==
  ASSUME TypeInv, SensInv, Return, pc # "clear",
         UNCHANGED <<g_ubMotionSensTemp, writes, sensWrite>>,
         \A i \in Slot : /\ g_atIRDataTrigger'[i].from = g_atIRDataTrigger[i].from
                         /\ ~Free(i)' => ~Free(i) /\ g_atIRDataTrigger'[i] = g_atIRDataTrigger[i]
  PROVE  SensInv'
<1>1. pc' \notin {"clear", "copy"} /\ tIRDataTrigger'.from = 0 /\ 0 <= sensWrite
  BY NumbersAreNaturals, NoneIsTyped DEF Return
<1>2. FromWrites'
  BY <1>1, Zenon DEF SensInv, FromWrites
<1>3. SensitivityUsedOnce'
  BY Zenon DEF SensInv, SensitivityUsedOnce
<1>4. g_ubMotionSensTemp # 255 => ~Holds(sensWrite)'
  BY Zenon DEF SensInv, Holds
<1> QED BY <1>1, <1>2, <1>3, <1>4, Zenon DEF SensInv, Pending

LEMMA CopyKeepsSens == ASSUME TypeInv, InHand, SensInv, CopyTrigger PROVE SensInv'
<1> DEFINE k == FirstFree
           t == g_atIRDataTrigger'[k]
<1>1. /\ k \in Slot /\ Free(k) /\ pc = "copy" /\ Return
      /\ t.sen = tIRDataTrigger.sen /\ t.from = tIRDataTrigger.from
      /\ \A i \in Slot : i # k => g_atIRDataTrigger'[i] = g_atIRDataTrigger[i]
      /\ UNCHANGED g_ubMotionSensTemp /\ UNCHANGED writes /\ UNCHANGED sensWrite
  BY CopyEffect
<1> HIDE DEF k
<1>2. pc' \notin {"clear", "copy"} /\ tIRDataTrigger'.from = 0 /\ 0 <= sensWrite
  BY <1>1, NumbersAreNaturals, NoneIsTyped DEF Return
<1>3. FromWrites'
  BY <1>1, <1>2, Zenon DEF SensInv, FromWrites
<1>4. pc # "clear" /\ (Pending <=> tIRDataTrigger.sen # 0)
  BY <1>1 DEF Pending
<1>5. \A i \in Slot : ~Free(i)' /\ g_atIRDataTrigger'[i].sen # 0 =>
        \/ i = k /\ Pending /\ g_atIRDataTrigger'[i].from = tIRDataTrigger.from
        \/ i # k /\ ~Free(i) /\ g_atIRDataTrigger'[i] = g_atIRDataTrigger[i]
  BY <1>1, <1>4, Zenon DEF Free
<1>6. SensitivityUsedOnce'
  <2> SUFFICES ASSUME NEW i \in Slot, NEW j \in Slot, ~Free(i)', ~Free(j)', i # j,
                      g_atIRDataTrigger'[i].sen # 0, g_atIRDataTrigger'[j].sen # 0,
                      g_atIRDataTrigger'[i].from = g_atIRDataTrigger'[j].from
               PROVE  FALSE
    BY Zenon DEF SensitivityUsedOnce
  <2>1. Pending => ~Holds(tIRDataTrigger.from)
    BY DEF SensInv
  <2>2. CASE i = k
    BY <1>5, <2>1, <2>2, Zenon DEF Holds
  <2>3. CASE j = k
    BY <1>5, <2>1, <2>3, Zenon DEF Holds
  <2>4. CASE i # k /\ j # k
    BY <1>5, <2>4, Zenon DEF SensInv, SensitivityUsedOnce
  <2> QED BY <2>2, <2>3, <2>4
<1>7. g_ubMotionSensTemp # 255 => ~Holds(sensWrite)'
  BY <1>1, <1>4, <1>5, Zenon DEF SensInv, Holds
<1> QED BY <1>1, <1>2, <1>3, <1>6, <1>7, Zenon DEF SensInv, Pending

LEMMA MainLoopKeepsSens == ASSUME TypeInv, InHand, SensInv, MainLoop PROVE SensInv'
<1>1. CASE OtherHandled
  <2>1. /\ pc # "clear" /\ Return
        /\ UNCHANGED <<g_ubMotionSensTemp, writes, sensWrite, g_atIRDataTrigger>>
    BY <1>1 DEF OtherHandled, settings, history
  <2> QED BY <2>1, ReturnKeepsSens, Zenon DEF Free
<1>2. CASE Decode
  <2>1. /\ pc # "clear" /\ UNCHANGED <<g_ubMotionSensTemp, g_atIRDataTrigger, writes, sensWrite>>
        /\ Return \/ (pc' = "decoded" /\ tIRDataTrigger'.from = 0)
    BY <1>2, DecodeEffect
  <2>2. CASE Return
    BY <2>1, <2>2, ReturnKeepsSens, Zenon DEF Free
  <2>3. CASE pc' = "decoded" /\ tIRDataTrigger'.from = 0
    <3>1. 0 <= sensWrite /\ pc' \notin {"clear", "copy"}
      BY <2>3, NumbersAreNaturals
    <3> QED BY <2>1, <2>3, <3>1, Zenon DEF SensInv, FromWrites, SensitivityUsedOnce, Holds,
               Pending, Free
  <2> QED BY <2>1, <2>2, <2>3
<1>3. CASE Create
  <2>1. /\ pc = "decoded" /\ UNCHANGED <<g_ubMotionSensTemp, g_atIRDataTrigger, writes, sensWrite>>
        /\ \/ Return
           \/ /\ g_ubMotionSensTemp = 255 /\ pc' = "copy"
              /\ tIRDataTrigger'.sen = tIRDataTrigger.sen
              /\ tIRDataTrigger'.from = tIRDataTrigger.from
           \/ /\ g_ubMotionSensTemp # 255 /\ pc' = "clear" /\ tIRDataTrigger'.from = sensWrite
    BY <1>3, CreateEffect
  <2>2. pc # "clear" /\ tIRDataTrigger.sen = 0 /\ sensWrite <= sensWrite
    <3>1. sensWrite <= sensWrite
      BY NumbersAreNaturals
    <3>2. pc # "clear" /\ pc # "idle"
      BY <2>1
    <3> QED BY <2>1, <3>1, <3>2, Zenon DEF InHand, AsDecoded
  <2>3. CASE Return
    BY <2>1, <2>2, <2>3, ReturnKeepsSens, Zenon DEF Free
  <2>4. CASE /\ g_ubMotionSensTemp = 255 /\ pc' = "copy"
             /\ tIRDataTrigger'.sen = tIRDataTrigger.sen
             /\ tIRDataTrigger'.from = tIRDataTrigger.from
    BY <2>1, <2>2, <2>4, Zenon DEF SensInv, FromWrites, SensitivityUsedOnce, Holds, Pending, Free
  <2>5. CASE g_ubMotionSensTemp # 255 /\ pc' = "clear" /\ tIRDataTrigger'.from = sensWrite
    BY <2>1, <2>2, <2>5, Zenon DEF SensInv, FromWrites, SensitivityUsedOnce, Holds, Pending, Free
  <2> QED BY <2>1, <2>3, <2>4, <2>5
<1>4. CASE ClearSensitivity
  <2>1. /\ pc = "clear" /\ g_ubMotionSensTemp' = 255
        /\ UNCHANGED <<g_atIRDataTrigger, tIRDataTrigger, writes, sensWrite>>
    BY <1>4, Zenon DEF ClearSensitivity, history
  <2>2. Pending' => Pending
    BY <2>1 DEF Pending
  <2> QED BY <2>1, <2>2, Zenon DEF SensInv, FromWrites, SensitivityUsedOnce, Holds, Free
<1>5. CASE CopyTrigger
  BY <1>5, CopyKeepsSens
<1>6. CASE Delete
  <2>1. /\ pc # "clear" /\ Return /\ UNCHANGED <<g_ubMotionSensTemp, writes, sensWrite>>
        /\ \/ UNCHANGED g_atIRDataTrigger
           \/ \E k \in Slot :
                /\ Free(k)' /\ g_atIRDataTrigger'[k].from = g_atIRDataTrigger[k].from
                /\ \A i \in Slot : i # k => g_atIRDataTrigger'[i] = g_atIRDataTrigger[i]
    BY <1>6, DeleteEffect
  <2>2. \A i \in Slot : /\ g_atIRDataTrigger'[i].from = g_atIRDataTrigger[i].from
                        /\ ~Free(i)' => ~Free(i) /\ g_atIRDataTrigger'[i] = g_atIRDataTrigger[i]
    BY <2>1, Zenon DEF Free
  <2> QED BY <2>1, <2>2, ReturnKeepsSens, Zenon
<1> QED BY <1>1, <1>2, <1>3, <1>4, <1>5, <1>6, Zenon DEF MainLoop

-----------------------------------------------------------------------------
(* The IDs in the table, and how many they are. *)

LEMMA IDsInTable ==
  ASSUME TypeInv
  PROVE  /\ IDs \subseteq AllIDs
         /\ \A id : id \in IDs <=> Duplicate(id)
<1>1. \A i \in Slot : g_atIRDataTrigger[i].id \in AllIDs
  BY DEF TypeInv, TableType, InTable, AllIDs
<1> QED BY <1>1, Zenon DEF IDs, Duplicate

LEMMA CountIDs ==
  ASSUME TypeInv, Unique PROVE Cardinality(IDs) = MAX_IR_CODE <=> Full
<1> DEFINE J == {j \in Slot : ~Free(j)}
           f == [j \in J |-> g_atIRDataTrigger[j].id]
<1>1. IsFiniteSet(Slot) /\ Cardinality(Slot) = MAX_IR_CODE /\ MAX_IR_CODE \in Nat
  <2>1. MAX_IR_CODE \in Nat \ {0}
    BY CommandAssumption
  <2> QED BY <2>1, FS_Interval DEF Slot
<1>2. /\ J \subseteq Slot /\ IsFiniteSet(J) /\ Cardinality(J) \in Nat
      /\ Cardinality(J) <= MAX_IR_CODE
      /\ Cardinality(J) = MAX_IR_CODE <=> J = Slot
  <2>1. J \subseteq Slot
    OBVIOUS
  <2> HIDE DEF J
  <2>2. IsFiniteSet(J) /\ Cardinality(J) <= Cardinality(Slot)
        /\ (Cardinality(J) = Cardinality(Slot) => J = Slot)
    BY <1>1, <2>1, FS_Subset
  <2> QED BY <1>1, <2>1, <2>2, FS_CardinalityType
<1>3. J = Slot <=> Full
  BY DEF Full
<1>4. f \in Injection(J, IDs) /\ f \in Surjection(J, IDs)
  <2>1. f \in [J -> IDs]
    BY DEF IDs
  <2>2. \A a, b \in J : f[a] = f[b] => a = b
    BY DEF Unique
  <2>3. \A id \in IDs : \E j \in J : f[j] = id
    BY DEF IDs
  <2> HIDE DEF f, J
  <2>4. f \in Injection(J, IDs)
    BY <2>1, <2>2 DEF Injection, IsInjective
  <2> QED BY <2>1, <2>3, <2>4 DEF Surjection
<1> HIDE DEF J, f
<1>5. Cardinality(IDs) = Cardinality(J)
  BY <1>2, <1>4, FS_Surjection
<1> QED BY <1>2, <1>3, <1>5

-----------------------------------------------------------------------------
(* The commands that wait lead from the IDs in the table to those wanted. *)

LEMMA EffectIsIDs ==
  ASSUME NEW e \in Command \union {Other}, NEW ids \in SUBSET AllIDs
  PROVE  Effect(e, ids) \in SUBSET AllIDs
<1>1. CASE e = Other
  BY <1>1 DEF Effect
<1>2. CASE e \in Command
  <2>1. e.text[1] \in Texts
    BY <1>2, CommandParts
  <2> DEFINE t == e.text[1]
  <2>2. t.id \in AllIDs
    BY <2>1, TextParts DEF AllIDs
  <2> HIDE DEF t
  <2>3. Wanted(ids, t, e.type) \in SUBSET AllIDs
    BY <2>2 DEF Wanted
  <2> QED BY <2>3 DEF Effect, t
<1> QED BY <1>1, <1>2

(* The first event has been handled as it should. *)
LEMMA HandledLeads ==
  ASSUME TypeInv, LeadsToWanted, queue # <<>>, queue' = Tail(queue), UNCHANGED wanted,
         odd' = {} => odd = {} /\ IDs' = Effect(Head(queue), IDs)
  PROVE  LeadsToWanted'
<1> SUFFICES ASSUME odd' = {}
             PROVE  \E after \in [1 .. Len(queue') + 1 -> SUBSET AllIDs] : Leads(after)'
  BY Zenon DEF LeadsToWanted
<1> DEFINE n == Len(queue)
<1>1. /\ Len(queue') = n - 1 /\ n \in Nat \ {0} /\ 1 \in 1 .. n /\ queue[1] = Head(queue)
      /\ \A k \in 1 .. n - 1 : queue'[k] = queue[k + 1]
  BY QueueTail DEF TypeInv
<1>2. PICK after \in [1 .. n + 1 -> SUBSET AllIDs] : Leads(after)
  BY DEF LeadsToWanted
<1>3. /\ after[1] = IDs /\ after[n + 1] = wanted
      /\ \A k \in 1 .. n : after[k + 1] = Effect(queue[k], after[k])
  BY <1>2 DEF Leads
<1>4. IDs' = Effect(queue[1], IDs)
  BY <1>1
<1> DEFINE rest == [k \in 1 .. n |-> after[k + 1]]
<1> HIDE DEF n
<1>5. rest \in [1 .. Len(queue') + 1 -> SUBSET AllIDs]
  BY <1>1
<1>6. rest[1] = IDs'
  BY <1>1, <1>3, <1>4
<1>7. rest[Len(queue') + 1] = wanted'
  BY <1>1, <1>3
<1>8. ASSUME NEW k \in 1 .. Len(queue') PROVE rest[k + 1] = Effect(queue'[k], rest[k])
  <2>1. k \in 1 .. n - 1 /\ k \in 1 .. n /\ k + 1 \in 1 .. n
    BY <1>1
  <2>2. rest[k] = after[k + 1] /\ rest[k + 1] = after[(k + 1) + 1]
    BY <2>1
  <2> HIDE DEF rest
  <2> QED BY <1>1, <1>3, <2>1, <2>2
<1> HIDE DEF rest
<1>9. PICK r \in [1 .. Len(queue') + 1 -> SUBSET AllIDs] : r = rest
  BY <1>5
<1>10. /\ r[1] = IDs' /\ r[Len(queue') + 1] = wanted'
       /\ \A k \in 1 .. Len(queue') : r[k + 1] = Effect(queue'[k], r[k])
  BY <1>6, <1>7, <1>8, <1>9
<1>11. Leads(r)'
  BY <1>10 DEF Leads
<1> QED BY <1>11

(* An event has been added, and done on what is wanted. *)
LEMMA AddedLeads ==
  ASSUME TypeInv, LeadsToWanted, odd' = {} => odd = {}, UNCHANGED g_atIRDataTrigger,
         NEW e \in Command \union {Other}, Len(queue') = Len(queue) + 1,
         Effect(queue'[Len(queue) + 1], wanted) = Effect(e, wanted),
         wanted' = Effect(e, wanted),
         \A k \in 1 .. Len(queue) : \A ids : Effect(queue'[k], ids) = Effect(queue[k], ids)
  PROVE  LeadsToWanted'
<1> SUFFICES ASSUME odd' = {}
             PROVE  \E after \in [1 .. Len(queue') + 1 -> SUBSET AllIDs] : Leads(after)'
  BY Zenon DEF LeadsToWanted
<1> DEFINE n == Len(queue)
<1>1. n \in Nat
  BY DEF TypeInv, QueueType
<1>2. PICK after \in [1 .. n + 1 -> SUBSET AllIDs] : Leads(after)
  BY DEF LeadsToWanted
<1>3. /\ after[1] = IDs /\ after[n + 1] = wanted
      /\ \A k \in 1 .. n : after[k + 1] = Effect(queue[k], after[k])
  BY <1>2 DEF Leads
<1>4. IDs' = IDs
  BY Zenon DEF IDs, Free
<1>5. wanted' \in SUBSET AllIDs
  BY EffectIsIDs DEF TypeInv, HistoryType, AllIDs
<1> DEFINE more == [k \in 1 .. n + 2 |-> IF k = n + 2 THEN wanted' ELSE after[k]]
<1>6. Len(queue') = n + 1 /\ wanted' = Effect(queue'[n + 1], wanted)
  OBVIOUS
<1> HIDE DEF n
<1>7. more \in [1 .. Len(queue') + 1 -> SUBSET AllIDs]
  BY <1>1, <1>2, <1>5, <1>6
<1>8. \A k \in 1 .. n + 1 : more[k] = after[k]
  BY <1>1
<1>9. more[n + 2] = wanted' /\ Len(queue') + 1 = n + 2
  BY <1>1, <1>6
<1> HIDE DEF more
<1>10. more[1] = IDs'
  BY <1>1, <1>3, <1>4, <1>8
<1>11. ASSUME NEW k \in 1 .. Len(queue') PROVE more[k + 1] = Effect(queue'[k], more[k])
  <2>1. CASE k = n + 1
    <3>1. more[k] = wanted /\ k + 1 = n + 2
      BY <1>1, <1>3, <1>8, <2>1
    <3> QED BY <1>6, <1>9, <2>1, <3>1
  <2>2. CASE k # n + 1
    <3>1. k \in 1 .. n /\ k \in 1 .. n + 1 /\ k + 1 \in 1 .. n + 1
      BY <1>1, <1>6, <2>2
    <3>2. Effect(queue'[k], more[k]) = Effect(queue[k], more[k])
      <4>1. k \in 1 .. Len(queue)
        BY <3>1 DEF n
      <4> QED BY <4>1, Zenon
    <3> QED BY <1>3, <1>8, <3>1, <3>2
  <2> QED BY <2>1, <2>2
<1>12. PICK m \in [1 .. Len(queue') + 1 -> SUBSET AllIDs] : m = more
  BY <1>7
<1>13. /\ m[1] = IDs' /\ m[Len(queue') + 1] = wanted'
       /\ \A k \in 1 .. Len(queue') : m[k + 1] = Effect(queue'[k], m[k])
  BY <1>9, <1>10, <1>11, <1>12
<1>14. Leads(m)'
  BY <1>13 DEF Leads
<1> QED BY <1>14

LEMMA SameLeads ==
  ASSUME LeadsToWanted, UNCHANGED <<g_atIRDataTrigger, queue, wanted, odd>>
  PROVE  LeadsToWanted'
<1> SUFFICES ASSUME odd' = {}
             PROVE  \E after \in [1 .. Len(queue') + 1 -> SUBSET AllIDs] : Leads(after)'
  BY Zenon DEF LeadsToWanted
<1>1. PICK after \in [1 .. Len(queue) + 1 -> SUBSET AllIDs] : Leads(after)
  BY DEF LeadsToWanted
<1>2. IDs' = IDs
  BY Zenon DEF IDs, Free
<1>3. Leads(after)'
  BY <1>1, <1>2 DEF Leads
<1> QED BY <1>3

LEMMA InitLeads == Init => LeadsToWanted
<1> SUFFICES ASSUME Init PROVE LeadsToWanted
  OBVIOUS
<1>1. queue = <<>> /\ wanted = {} /\ Len(queue) = 0
  BY DEF Init
<1>2. IDs = {}
  <2>1. \A i \in Slot : Free(i)
    BY NoneIsTyped DEF Init, Free
  <2> QED BY <2>1, Zenon DEF IDs
<1> DEFINE none == [k \in 1 .. 1 |-> {}]
<1>3. none \in [1 .. Len(queue) + 1 -> SUBSET AllIDs] /\ none[1] = {} /\ 1 .. Len(queue) = {}
  BY <1>1
<1> HIDE DEF none
<1>4. Leads(none)
  BY <1>1, <1>2, <1>3 DEF Leads
<1> QED BY <1>3, <1>4 DEF LeadsToWanted

LEMMA InterruptLeads ==
  ASSUME TypeInv, InTime, LeadsToWanted, Interrupt PROVE LeadsToWanted'
<1>1. ASSUME NEW text \in Texts, NEW type \in Types, WriteText(text, type) PROVE LeadsToWanted'
  <2> DEFINE e == [text |-> <<text>>, type |-> type, overtaken |-> FALSE]
  <2>1. /\ \A k \in 1 .. Len(queue) : SameButMarked(queue'[k], queue[k], type)
        /\ HasRoom => Len(queue') = Len(queue) + 1 /\ queue'[Len(queue) + 1] = e
        /\ ~HasRoom => "refused" \in odd'
        /\ odd \subseteq odd'
    BY <1>1, WriteEffect
  <2>2. UNCHANGED g_atIRDataTrigger /\ wanted' = Wanted(wanted, text, type)
    BY <1>1, Zenon DEF WriteText
  <2>3. e \in Command /\ Effect(e, wanted) = Wanted(wanted, text, type)
    <3>1. e \in Command /\ e.text[1] = text /\ e.type = type
      BY CommandIsCommand
    <3>2. e # Other
      BY <3>1, OtherIsNoCommand
    <3> HIDE DEF e
    <3> QED BY <3>1, <3>2 DEF Effect
  <2> HIDE DEF e
  <2>4. \A k \in 1 .. Len(queue) : \A ids : Effect(queue'[k], ids) = Effect(queue[k], ids)
    BY <2>1, Zenon DEF SameButMarked, Effect
  <2>5. CASE HasRoom
    <3>1. Effect(queue'[Len(queue) + 1], wanted) = Effect(e, wanted)
      BY <2>1, <2>5, Zenon
    <3>2. odd' = {} => odd = {}
      BY <2>1
    <3>3. Len(queue') = Len(queue) + 1 /\ wanted' = Effect(e, wanted)
      BY <2>1, <2>2, <2>3, <2>5
    <3>4. e \in Command \union {Other}
      BY <2>3
    <3> QED BY <2>2, <2>4, <3>1, <3>2, <3>3, <3>4, AddedLeads
  <2>6. CASE ~HasRoom
    <3>1. odd' # {}
      BY <2>1, <2>6
    <3> QED BY <3>1, Zenon DEF LeadsToWanted
  <2> QED BY <2>5, <2>6
<1>2. ASSUME NEW digit \in Digits, WriteSensitivity(digit) PROVE LeadsToWanted'
  <2>1. UNCHANGED <<g_atIRDataTrigger, queue, wanted, odd>>
    BY <1>2, Zenon DEF WriteSensitivity
  <2> QED BY <2>1, SameLeads
<1>3. CASE OtherPut
  <2>1. queue' = Append(queue, Other) /\ UNCHANGED <<g_atIRDataTrigger, wanted, odd>>
    BY <1>3, Zenon DEF OtherPut, history
  <2>2. queue \in Seq(Command \union {Other})
    BY DEF TypeInv, QueueType
  <2>3. /\ Len(queue') = Len(queue) + 1 /\ queue'[Len(queue) + 1] = Other
        /\ \A k \in 1 .. Len(queue) : queue'[k] = queue[k]
    BY <2>1, <2>2, QueueAppend
  <2>4. wanted' = Effect(Other, wanted)
    BY <2>1 DEF Effect
  <2>5. \A k \in 1 .. Len(queue) : \A ids : Effect(queue'[k], ids) = Effect(queue[k], ids)
    BY <2>3, Zenon
  <2>6. Other \in Command \union {Other} /\ (odd' = {} => odd = {})
    BY <2>1
  <2> HIDE DEF Effect
  <2> QED BY <2>1, <2>3, <2>4, <2>5, <2>6, AddedLeads
<1> QED BY <1>1, <1>2, <1>3, Zenon DEF Interrupt

(* With nothing odd, the command in hand is carried out as what it was     *)
(* sent as.                                                                *)
LEMMA InHandInTime ==
  ASSUME TypeInv, InTime, queue # <<>>, Head(queue) # Other, odd = {}
  PROVE  Head(queue).type = g_ubTriggerType /\ ~Head(queue).overtaken
<1>1. 1 \in 1 .. Len(queue) /\ queue[1] = Head(queue)
  BY QueueHead DEF TypeInv
<1>2. queue[1] # Other
  BY <1>1
<1>3. queue[1].type = g_ubTriggerType /\ ~queue[1].overtaken
  BY <1>1, <1>2, Zenon DEF InTime
<1> QED BY <1>1, <1>3

LEMMA DecodeLeads ==
  ASSUME TypeInv, InTime, InHand, LeadsToWanted, Decode PROVE LeadsToWanted'
<1> DEFINE c == Head(queue)
           t == c.text[1]
<1>1. /\ queue # <<>> /\ c \in Command /\ UNCHANGED g_atIRDataTrigger /\ UNCHANGED wanted
      /\ \/ UNCHANGED queue /\ UNCHANGED odd
         \/ /\ Return
            /\ \/ ~Parses(t, g_ubTriggerType) /\ UNCHANGED odd
               \/ odd' = odd \union {"overrun"}
  BY DecodeEffect
<1>2. CASE UNCHANGED queue /\ UNCHANGED odd
  BY <1>1, <1>2, SameLeads
<1>3. CASE Return /\ ~Parses(t, g_ubTriggerType) /\ UNCHANGED odd
  <2>1. c # Other
    BY <1>1, OtherIsNoCommand
  <2>2. odd = {} => Effect(c, IDs) = IDs
    <3> SUFFICES ASSUME odd = {} PROVE Effect(c, IDs) = IDs
      OBVIOUS
    <3>1. c.type = g_ubTriggerType
      BY <1>1, <2>1, InHandInTime
    <3> HIDE DEF c
    <3> QED BY <1>3, <2>1, <3>1 DEF Effect, Wanted, t
  <2>3. IDs' = IDs
    BY <1>1, Zenon DEF IDs, Free
  <2>4. queue' = Tail(queue)
    BY <1>3 DEF Return
  <2> QED BY <1>1, <1>3, <2>2, <2>3, <2>4, HandledLeads
<1>4. CASE odd' = odd \union {"overrun"}
  <2>1. odd' # {}
    BY <1>4
  <2> QED BY <2>1, Zenon DEF LeadsToWanted
<1> QED BY <1>1, <1>2, <1>3, <1>4, Zenon

LEMMA CreateLeads ==
  ASSUME TypeInv, Unique, InTime, InHand, LeadsToWanted, Create PROVE LeadsToWanted'
<1> DEFINE c == Head(queue)
           t == c.text[1]
<1>1. /\ pc = "decoded" /\ t.verb = "c"
      /\ UNCHANGED g_atIRDataTrigger /\ UNCHANGED wanted /\ UNCHANGED odd
      /\ UNCHANGED queue \/ (Return /\ (Duplicate(tIRDataTrigger.id) \/ Full))
  BY CreateEffect
<1>2. queue # <<>> /\ c # Other /\ AsDecoded(c)
  BY <1>1 DEF InHand
<1>3. CASE UNCHANGED queue
  BY <1>1, <1>3, SameLeads
<1>4. CASE Return /\ (Duplicate(tIRDataTrigger.id) \/ Full)
  <2>1. odd = {} => Effect(c, IDs) = IDs
    <3> SUFFICES ASSUME odd = {} PROVE Effect(c, IDs) = IDs
      OBVIOUS
    <3>1. ~c.overtaken
      BY <1>2, InHandInTime
    <3>2. tIRDataTrigger.id = t.id /\ Parses(t, c.type)
      BY <1>2, <3>1 DEF AsDecoded
    <3>3. t.id \in IDs \/ Cardinality(IDs) = MAX_IR_CODE
      BY <1>4, <3>2, IDsInTable, CountIDs
    <3>4. t.verb # "d"
      BY <1>1
    <3>5. IDs \union {t.id} = IDs \/ Cardinality(IDs) = MAX_IR_CODE
      BY <3>3
    <3> HIDE DEF c, t
    <3>6. Wanted(IDs, t, c.type) = IDs
      BY <3>2, <3>4, <3>5, Zenon DEF Wanted
    <3> QED BY <1>2, <3>6 DEF Effect, t
  <2>2. IDs' = IDs
    BY <1>1, Zenon DEF IDs, Free
  <2>3. queue' = Tail(queue)
    BY <1>4 DEF Return
  <2> QED BY <1>1, <1>2, <2>1, <2>2, <2>3, HandledLeads
<1> QED BY <1>1, <1>3, <1>4

LEMMA CopyLeads ==
  ASSUME TypeInv, Unique, InTime, InHand, LeadsToWanted, CopyTrigger PROVE LeadsToWanted'
<1> DEFINE c == Head(queue)
           t == c.text[1]
<1>1. PICK k \in Slot :
      /\ pc = "copy" /\ Return /\ AsBuilt(c) /\ UNCHANGED wanted /\ UNCHANGED odd
      /\ Free(k)
      /\ g_atIRDataTrigger'[k].mode = tIRDataTrigger.mode
      /\ g_atIRDataTrigger'[k].id = tIRDataTrigger.id
      /\ \A i \in Slot : i # k => g_atIRDataTrigger'[i] = g_atIRDataTrigger[i]
  BY CopyEffect, Zenon
<1>2. queue # <<>> /\ c # Other /\ AsDecoded(c)
  BY <1>1 DEF InHand
<1>3. queue' = Tail(queue)
  BY <1>1 DEF Return
<1>4. IDs' = IF tIRDataTrigger.mode = "NONE" THEN IDs ELSE IDs \union {tIRDataTrigger.id}
  <2>1. \A id : id \in IDs' <=> \E i \in Slot : ~Free(i)' /\ g_atIRDataTrigger'[i].id = id
    BY Zenon DEF IDs
  <2>2. \A id : id \in IDs <=> \E i \in Slot : ~Free(i) /\ g_atIRDataTrigger[i].id = id
    BY Zenon DEF IDs
  <2>3. \A i \in Slot : i # k =>
          /\ Free(i)' <=> Free(i)
          /\ g_atIRDataTrigger'[i].id = g_atIRDataTrigger[i].id
    BY <1>1, Zenon DEF Free
  <2>4. Free(k)' <=> tIRDataTrigger.mode = "NONE"
    BY <1>1, Zenon DEF Free
  <2>5. CASE tIRDataTrigger.mode = "NONE"
    <3>1. \A id : id \in IDs' <=> id \in IDs
      BY <1>1, <2>1, <2>2, <2>3, <2>4, <2>5, Zenon
    <3> QED BY <2>5, <3>1
  <2>6. CASE tIRDataTrigger.mode # "NONE"
    <3>1. \A id : id \in IDs' <=> id \in IDs \/ id = tIRDataTrigger.id
      BY <1>1, <2>1, <2>2, <2>3, <2>4, <2>6, Zenon
    <3> QED BY <2>6, <3>1
  <2> QED BY <2>5, <2>6
<1>5. odd = {} => Effect(c, IDs) = IDs'
  <2> SUFFICES ASSUME odd = {} PROVE Effect(c, IDs) = IDs'
    OBVIOUS
  <2>1. ~c.overtaken
    BY <1>2, InHandInTime
  <2>2. tIRDataTrigger.id = t.id /\ Parses(t, c.type)
    BY <1>2, <2>1 DEF AsDecoded
  <2>3. t.verb = "c" /\ tIRDataTrigger.mode = Mode(t, c.type) /\ ~Full
    BY <1>1, <2>1 DEF AsBuilt
  <2>4. Cardinality(IDs) # MAX_IR_CODE /\ t.verb # "d"
    BY <2>3, CountIDs
  <2> HIDE DEF c, t
  <2>5. Wanted(IDs, t, c.type) = IDs'
    BY <1>4, <2>2, <2>3, <2>4, Zenon DEF Wanted
  <2> QED BY <1>2, <2>5 DEF Effect, t
<1> QED BY <1>1, <1>2, <1>3, <1>5, HandledLeads

LEMMA DeleteLeads ==
  ASSUME TypeInv, Unique, InTime, InHand, LeadsToWanted, Delete PROVE LeadsToWanted'
<1> DEFINE c == Head(queue)
           t == c.text[1]
<1>1. /\ pc = "decoded" /\ t.verb = "d" /\ Return /\ UNCHANGED wanted /\ UNCHANGED odd
      /\ \/ UNCHANGED g_atIRDataTrigger /\ ~Duplicate(tIRDataTrigger.id)
         \/ \E k \in Slot :
              /\ ~Free(k) /\ g_atIRDataTrigger[k].id = tIRDataTrigger.id /\ Free(k)'
              /\ \A i \in Slot : i # k => g_atIRDataTrigger'[i] = g_atIRDataTrigger[i]
  BY DeleteEffect
<1>2. queue # <<>> /\ c # Other /\ AsDecoded(c)
  BY <1>1 DEF InHand
<1>3. queue' = Tail(queue)
  BY <1>1 DEF Return
<1>4. IDs' = IDs \ {tIRDataTrigger.id}
  <2>1. \A id : id \in IDs' <=> \E i \in Slot : ~Free(i)' /\ g_atIRDataTrigger'[i].id = id
    BY Zenon DEF IDs
  <2>2. \A id : id \in IDs <=> \E i \in Slot : ~Free(i) /\ g_atIRDataTrigger[i].id = id
    BY Zenon DEF IDs
  <2>3. CASE UNCHANGED g_atIRDataTrigger /\ ~Duplicate(tIRDataTrigger.id)
    <3>1. IDs' = IDs /\ tIRDataTrigger.id \notin IDs
      BY <2>3, IDsInTable, Zenon DEF IDs, Free
    <3> QED BY <3>1
  <2>4. ASSUME NEW k \in Slot, ~Free(k), g_atIRDataTrigger[k].id = tIRDataTrigger.id, Free(k)',
               \A i \in Slot : i # k => g_atIRDataTrigger'[i] = g_atIRDataTrigger[i]
        PROVE  IDs' = IDs \ {tIRDataTrigger.id}
    <3>1. \A i \in Slot : ~Free(i)' <=> ~Free(i) /\ i # k
      BY <2>4, Zenon DEF Free
    <3>2. \A i \in Slot : ~Free(i) /\ i # k => g_atIRDataTrigger[i].id # tIRDataTrigger.id
      BY <2>4, Zenon DEF Unique
    <3>3. \A id : id \in IDs' <=> id \in IDs /\ id # tIRDataTrigger.id
      BY <2>1, <2>2, <2>4, <3>1, <3>2, Zenon
    <3> QED BY <3>3
  <2> QED BY <1>1, <2>3, <2>4, Zenon
<1>5. odd = {} => Effect(c, IDs) = IDs'
  <2> SUFFICES ASSUME odd = {} PROVE Effect(c, IDs) = IDs'
    OBVIOUS
  <2>1. ~c.overtaken
    BY <1>2, InHandInTime
  <2>2. tIRDataTrigger.id = t.id /\ Parses(t, c.type)
    BY <1>2, <2>1 DEF AsDecoded
  <2> HIDE DEF c, t
  <2>3. Wanted(IDs, t, c.type) = IDs'
    BY <1>1, <1>4, <2>2, Zenon DEF Wanted
  <2> QED BY <1>2, <2>3 DEF Effect, t
<1> QED BY <1>1, <1>2, <1>3, <1>5, HandledLeads

LEMMA NextLeads ==
  ASSUME TypeInv, Unique, InTime, InHand, LeadsToWanted, Next PROVE LeadsToWanted'
<1>1. CASE OtherHandled
  <2>1. /\ queue # <<>> /\ Head(queue) = Other /\ queue' = Tail(queue)
        /\ UNCHANGED <<g_atIRDataTrigger, wanted, odd>>
    BY <1>1, Zenon DEF OtherHandled, Return, history
  <2>2. IDs' = IDs /\ Effect(Head(queue), IDs) = IDs
    <3>1. IDs' = IDs
      BY <2>1, Zenon DEF IDs, Free
    <3> QED BY <2>1, <3>1, Zenon DEF Effect
  <2> QED BY <2>1, <2>2, HandledLeads
<1>2. CASE ClearSensitivity
  <2>1. UNCHANGED <<g_atIRDataTrigger, queue, wanted, odd>>
    BY <1>2, Zenon DEF ClearSensitivity, history
  <2> QED BY <2>1, SameLeads
<1> QED BY <1>1, <1>2, InterruptLeads, DecodeLeads, CreateLeads, CopyLeads, DeleteLeads, Zenon
       DEF Next, MainLoop

-----------------------------------------------------------------------------
(* The theorems. *)

(* At every moment the commands that wait lead, one after the other, from  *)
(* the IDs the table holds to those the app expects it to hold, and no     *)
(* command's text is overwritten before it is handled in time.             *)
THEOREM CommandInductive == Spec => []CommandInv
<1>1. Init => CommandInv
  <2> SUFFICES ASSUME Init PROVE CommandInv
    OBVIOUS
  <2>1. TypeInv /\ LeadsToWanted
    BY InitTypes, InitLeads
  <2>2. \A i \in Slot : g_atIRDataTrigger[i] = None /\ Free(i)
    BY NoneIsTyped DEF Init, Free
  <2>3. queue = <<>> /\ pc = "idle" /\ tIRDataTrigger = None /\ writes = 0 /\ sensWrite = 0
    BY DEF Init
  <2>4. InTime
    BY <2>3 DEF InTime
  <2>5. InHand
    BY <2>3 DEF InHand
  <2>6. TableInv
    BY <2>2, Zenon DEF TableInv, Unique, AllAsSent
  <2>7. SensInv
    <3>1. FromWrites
      BY <2>2, <2>3, NoneIsTyped DEF FromWrites
    <3>2. pc \notin {"clear", "copy"}
      BY <2>3
    <3> QED BY <2>2, <3>1, <3>2, Zenon DEF SensInv, SensitivityUsedOnce, Holds, Pending
  <2> QED BY <2>1, <2>4, <2>5, <2>6, <2>7 DEF CommandInv
<1>2. CommandInv /\ [Next]_vars => CommandInv'
  <2> SUFFICES ASSUME CommandInv, [Next]_vars PROVE CommandInv'
    OBVIOUS
  <2> USE DEF CommandInv
  <2>1. CASE Next
    <3>1. TypeInv'
      BY <2>1, InterruptTypes, MainLoopTypes, Zenon DEF Next
    <3>2. InTime' /\ InHand'
      BY <2>1, InterruptInTime, MainLoopInTime, Zenon DEF Next
    <3>3. TableInv'
      BY <2>1, NextTableInv
    <3>4. SensInv'
      BY <2>1, InterruptKeepsSens, MainLoopKeepsSens, Zenon DEF Next
    <3>5. LeadsToWanted'
      BY <2>1, NextLeads DEF TableInv
    <3> QED BY <3>1, <3>2, <3>3, <3>4, <3>5
  <2>2. CASE UNCHANGED vars
    <3>1. UNCHANGED <<g_ubTriggerType, g_ubMotionSensTemp, g_atIRDataTrigger, queue, pc,
                      tIRDataTrigger, writes, sensWrite, wanted, odd>>
      BY <2>2 DEF vars, settings, handler, history
    <3>2. LeadsToWanted'
      BY <3>1, SameLeads
    <3>3. TypeInv'
      BY <3>1, Zenon DEF TypeInv, SettingsType, TableType, QueueType, HandlerType, HistoryType
    <3>4. InTime' /\ InHand' /\ TableInv'
      BY <3>1, Zenon DEF InTime, InHand, AsDecoded, AsBuilt, TableInv, Unique, AllAsSent, AsSent,
         Duplicate, Full, Free
    <3>5. SensInv'
      BY <3>1, Zenon DEF SensInv, FromWrites, SensitivityUsedOnce, Holds, Pending, Free
    <3> QED BY <3>2, <3>3, <3>4, <3>5
  <2> QED BY <2>1, <2>2
<1> QED BY <1>1, <1>2, PTL DEF Spec

LEMMA TypesAreOK == ASSUME TypeInv PROVE TypeOK
<1> DEFINE Held == UNION {[1 .. n -> Texts] : n \in 0 .. 1}
<1>1. <<>> \in Held /\ \A t \in Texts : <<t>> \in Held
  <2>1. <<>> \in [1 .. 0 -> Texts] /\ 0 \in 0 .. 1 /\ 1 \in 0 .. 1
    OBVIOUS
  <2>2. \A t \in Texts : <<t>> \in [1 .. 1 -> Texts]
    OBVIOUS
  <2> QED BY <2>1, <2>2
<1>2. tIRDataTrigger \in Trigger
  <2>1. tIRDataTrigger \in Built
    BY DEF TypeInv, HandlerType
  <2>2. tIRDataTrigger.text \in Held
    BY <1>1, <2>1 DEF Built
  <2> HIDE DEF Held
  <2>3. tIRDataTrigger \in [mode : Modes, id : TrigIDs \union {0}, time1 : TimeKinds,
                            sen : 0 .. 5, text : Held, from : 0 .. MaxWrites]
    BY <2>1, <2>2 DEF Built
  <2> QED BY <2>3 DEF Trigger, Modes, TimeKinds, Held
<1>3. ASSUME NEW i \in Slot PROVE [g_atIRDataTrigger[i] EXCEPT !.text = <<>>] \in Trigger
  <2> DEFINE t == g_atIRDataTrigger[i]
  <2>1. t \in InTable
    BY DEF TypeInv, TableType
  <2> HIDE DEF t, Held
  <2>2. [t EXCEPT !.text = <<>>] \in [mode : Modes, id : TrigIDs \union {0}, time1 : TimeKinds,
                                      sen : 0 .. 5, text : Held, from : 0 .. MaxWrites]
    BY <1>1, <2>1 DEF InTable
  <2> QED BY <2>2 DEF Trigger, Modes, TimeKinds, Held, t
<1> QED BY <1>2, <1>3, Zenon DEF TypeInv, SettingsType, QueueType, HandlerType, HistoryType, TypeOK

(* The table never holds two triggers with the same ID, whatever is        *)
(* created, deleted and written in between.                                *)
THEOREM UniqueIDs == Spec => []IDsAreUnique
<1>1. CommandInv => IDsAreUnique
  BY TypesAreOK, Zenon DEF CommandInv, TableInv, Unique, IDsAreUnique
<1> QED BY <1>1, CommandInductive, PTL

(* A trigger is what its command asked for on its own characteristic,      *)
(* unless one of the other type came before it was done; and no two        *)
(* triggers have the sensitivity of one write.                             *)
THEOREM TriggersAsSent == Spec => []TriggerIsAsSent
<1>1. ASSUME CommandInv PROVE TriggerIsAsSent
  <2>1. SensitivityUsedOnce /\ \A i \in Slot : ~Free(i) => AsSent(g_atIRDataTrigger[i])
    BY <1>1, Zenon DEF CommandInv, SensInv, TableInv, AllAsSent
  <2> QED BY <2>1, Zenon DEF TriggerIsAsSent, AsSent
<1> QED BY <1>1, CommandInductive, PTL

(* When the queue is empty, and no command was refused, overtaken or       *)
(* unreadable, the table holds the IDs the commands ask for, in the order  *)
(* in which they were sent.                                                *)
THEOREM InOrder == Spec => []CommandsInOrder
<1>1. ASSUME CommandInv PROVE CommandsInOrder
  <2> SUFFICES ASSUME queue = <<>>, odd = {} PROVE IDs = wanted
    BY Zenon DEF CommandsInOrder, IDs
  <2>1. PICK after \in [1 .. Len(queue) + 1 -> SUBSET AllIDs] : Leads(after)
    BY <1>1 DEF CommandInv, LeadsToWanted
  <2>2. Len(queue) + 1 = 1
    OBVIOUS
  <2> QED BY <2>1, <2>2 DEF Leads
<1> QED BY <1>1, CommandInductive, PTL
=============================================================================
