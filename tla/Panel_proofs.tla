---------------------------- MODULE Panel_proofs ----------------------------
(***************************************************************************)
(* Proofs about what the user holds: BleLink, for any number of events     *)
(* waiting and any number of requests; KeyControl, for any counts; and     *)
(* LedControl, for any number of patterns.                                 *)
(*                                                                         *)
(* The link.  What the program believes of the link is what the SoftDevice *)
(* knows, less what the events that wait will tell it.  Only a program     *)
(* that has handled the end of the last link advertises, so the beginning  *)
(* of a link is the first of the events that wait and its end the last,    *)
(* and the last news of its parameters is right.                           *)
(*                                                                         *)
(* The keys.  A flag is set by a scan of this pass of the main loop, and   *)
(* was key 1 alone seen in the pass, then by key 1 held for three seconds. *)
(* Having erased, the counter is past three seconds until it wraps around. *)
(* A hold is at most three scans ahead of the counter: two to debounce,    *)
(* and one when the end of a click has left another key in the buffer.     *)
(*                                                                         *)
(* The LEDs.  What has flashed is what the handler has counted, and one    *)
(* more while a flash is over or was the replaced pattern's, as long as    *)
(* nothing cut across the main loop's setting.  Whatever did, a byte that  *)
(* the main loop writes back says that a pattern is being played, or it    *)
(* was read after the tick that ended the pattern: no other tick comes     *)
(* before the byte is stored, and nothing is lit.                          *)
(***************************************************************************)
EXTENDS Panel, SequenceTheorems, TLAPS

-----------------------------------------------------------------------------
(* What the waiting events tell. *)

Waiting(kind) == \E i \in 1 .. Len(events) : events[i].kind = kind
ComeFirst == \A i \in 1 .. Len(events) : events[i].kind = "CONNECTED" => i = 1
GoneLast == \A i \in 1 .. Len(events) : events[i].kind = "DISCONNECTED" => i = Len(events)

OfParameters(event) == event.kind \in {"CONNECTED", "CONN_PARAM_UPDATE"}
News == \E i \in 1 .. Len(events) : OfParameters(events[i])
LastNewsIs(ok) ==
  \A i \in 1 .. Len(events) :
    OfParameters(events[i]) /\ (\A j \in i + 1 .. Len(events) : ~OfParameters(events[j]))
      => events[i].ok = ok

BelievesAsTold ==
  /\ advertising => link = "none" /\ events = <<>> /\ ~connected
  /\ ~advertising => (link = "none" <=> Waiting("DISCONNECTED"))
  /\ ~advertising => (connected <=> ~Waiting("CONNECTED"))
  /\ (claimed <=> connected) /\ (timer => claimed)
  /\ ComeFirst /\ GoneLast /\ LastNewsIs(acceptable)
  /\ claimed /\ ~News => params_ok = acceptable

LinkInv == (~failed => BelievesAsTold) /\ (failed => refused \/ link # "up")

-----------------------------------------------------------------------------
(* Types. *)

Record == [kind : Kinds, ok : BOOLEAN]
EventsType == events \in Seq(Record)
CountType == update_count \in 0 .. MAX_CONN_PARAMS_UPDATE_COUNT
FlagsType ==
  /\ link \in {"none", "up", "closing"} /\ acceptable \in BOOLEAN /\ asked \in BOOLEAN
  /\ advertising \in BOOLEAN /\ connected \in BOOLEAN
  /\ failed \in BOOLEAN /\ refused \in BOOLEAN
  /\ claimed \in BOOLEAN /\ params_ok \in BOOLEAN /\ timer \in BOOLEAN
Types == EventsType /\ CountType /\ FlagsType

LEMMA TypesAreOK == ASSUME Types PROVE TypeOK
<1>1. \A i \in DOMAIN events : events[i].kind \in Kinds
  <2> SUFFICES ASSUME NEW i \in DOMAIN events PROVE events[i].kind \in Kinds
    OBVIOUS
  <2>1. i \in 1 .. Len(events)
    BY LenProperties DEF Types, EventsType
  <2>2. events[i] \in Record
    <3> HIDE DEF Record
    <3> QED BY <2>1, ElementOfSeq DEF Types, EventsType
  <2> QED BY <2>2 DEF Record
<1> QED BY <1>1, Zenon DEF Types, CountType, FlagsType, TypeOK

LEMMA EventIsRecord ==
  ASSUME NEW kind \in Kinds, NEW ok \in BOOLEAN
  PROVE  /\ Event(kind, ok) \in Record /\ Event(kind, ok).kind = kind /\ Event(kind, ok).ok = ok
BY DEF Event, Record

LEMMA HeadIsRecord ==
  ASSUME EventsType, events # <<>>
  PROVE  /\ Head(events).kind \in Kinds /\ Head(events).ok \in BOOLEAN
         /\ events[1] = Head(events) /\ 1 \in 1 .. Len(events) /\ Tail(events) \in Seq(Record)
<1>1. /\ events[1] = Head(events) /\ 1 \in 1 .. Len(events) /\ Tail(events) \in Seq(Record)
      /\ Head(events) \in Record
  BY DEF EventsType
<1> QED BY <1>1 DEF Record

-----------------------------------------------------------------------------
(* An event more, and an event less. *)

LEMMA Posted ==
  ASSUME EventsType, NEW kind \in Kinds, NEW ok \in BOOLEAN, Post(kind, ok)
  PROVE  /\ EventsType' /\ Waiting(kind)'
         /\ \A k \in Kinds \ {kind} : Waiting(k)' <=> Waiting(k)
         /\ ComeFirst /\ (kind # "CONNECTED" \/ events = <<>>) => ComeFirst'
         /\ ~Waiting("DISCONNECTED") => GoneLast'
         /\ kind \in {"CONNECTED", "CONN_PARAM_UPDATE"} =>
              News' /\ \A v : v = ok => LastNewsIs(v)'
         /\ kind \notin {"CONNECTED", "CONN_PARAM_UPDATE"} =>
              (News' <=> News) /\ \A v : LastNewsIs(v) => LastNewsIs(v)'
<1> DEFINE e == Event(kind, ok)
<1>1. e \in Record /\ e.kind = kind /\ e.ok = ok /\ events' = Append(events, e)
  BY EventIsRecord DEF Post
<1> HIDE DEF e
<1>2. /\ events' \in Seq(Record) /\ Len(events') = Len(events) + 1 /\ Len(events) \in Nat
      /\ events'[Len(events')] = e
      /\ \A i \in 1 .. Len(events) : events'[i] = events[i]
  <2> HIDE DEF Record
  <2> QED BY <1>1, AppendProperties DEF EventsType
<1> DEFINE n == Len(events)
<1>3. /\ n \in Nat /\ Len(events') = n + 1 /\ events'[n + 1] = e
      /\ \A i \in 1 .. n : events'[i] = events[i]
      /\ events = <<>> => n = 0
  BY <1>2
<1>4. Waiting(kind)' /\ \A k \in Kinds \ {kind} : Waiting(k)' <=> Waiting(k)
  BY <1>1, <1>3 DEF Waiting
<1>5. ComeFirst /\ (kind # "CONNECTED" \/ events = <<>>) => ComeFirst'
  BY <1>1, <1>3 DEF ComeFirst
<1>6. ~Waiting("DISCONNECTED") => GoneLast'
  BY <1>1, <1>3 DEF Waiting, GoneLast
<1>7. kind \in {"CONNECTED", "CONN_PARAM_UPDATE"} =>
        News' /\ \A v : v = ok => LastNewsIs(v)'
  BY <1>1, <1>3 DEF News, LastNewsIs, OfParameters
<1>8. kind \notin {"CONNECTED", "CONN_PARAM_UPDATE"} =>
        (News' <=> News) /\ \A v : LastNewsIs(v) => LastNewsIs(v)'
  BY <1>1, <1>3 DEF News, LastNewsIs, OfParameters
<1> QED BY <1>2, <1>4, <1>5, <1>6, <1>7, <1>8 DEF EventsType

LEMMA Taken ==
  ASSUME EventsType, events # <<>>, events' = Tail(events)
  PROVE  /\ EventsType'
         /\ \A k : Waiting(k) <=> Waiting(k)' \/ Head(events).kind = k
         /\ ComeFirst => ComeFirst' /\ ~Waiting("CONNECTED")'
         /\ GoneLast => GoneLast' /\ (Head(events).kind = "DISCONNECTED" => events' = <<>>)
         /\ News <=> News' \/ OfParameters(Head(events))
         /\ \A v : LastNewsIs(v) =>
              LastNewsIs(v)' /\ (OfParameters(Head(events)) /\ ~News' => Head(events).ok = v)
<1> DEFINE n == Len(events)
<1>1. /\ events' \in Seq(Record) /\ n \in Nat \ {0} /\ Len(events') = n - 1
      /\ Head(events) = events[1] /\ \A i \in 1 .. n - 1 : events'[i] = events[i + 1]
      /\ n = 1 => events' = <<>>
  <2> HIDE DEF Record
  <2> QED BY DEF EventsType
<1>2. /\ \A i \in 1 .. Len(events) :
           i = 1 \/ (i - 1 \in 1 .. Len(events') /\ events'[i - 1] = events[i])
      /\ \A i \in 1 .. Len(events') :
           i + 1 \in 1 .. Len(events) /\ i + 1 # 1 /\ events'[i] = events[i + 1]
      /\ 1 \in 1 .. Len(events)
  BY <1>1
<1>3. ASSUME NEW k PROVE Waiting(k) <=> Waiting(k)' \/ Head(events).kind = k
  <2>1. ASSUME NEW i \in 1 .. Len(events), events[i].kind = k, i # 1 PROVE Waiting(k)'
    BY <1>2, <2>1, Zenon DEF Waiting
  <2>2. Waiting(k) => Waiting(k)' \/ Head(events).kind = k
    <3> SUFFICES ASSUME NEW i \in 1 .. Len(events), events[i].kind = k
                 PROVE  Waiting(k)' \/ Head(events).kind = k
      BY Zenon DEF Waiting
    <3> QED BY <1>1, <2>1
  <2>3. ASSUME NEW i \in 1 .. Len(events'), events'[i].kind = k PROVE Waiting(k)
    <3>1. i + 1 \in 1 .. Len(events) /\ events[i + 1].kind = k
      BY <1>2, <2>3
    <3> QED BY <3>1, Zenon DEF Waiting
  <2>4. Waiting(k)' => Waiting(k)
    BY <2>3, Zenon DEF Waiting
  <2>5. Head(events).kind = k => Waiting(k)
    BY <1>1, <1>2, Zenon DEF Waiting
  <2> QED BY <2>2, <2>4, <2>5
<1>4. ComeFirst => ComeFirst' /\ ~Waiting("CONNECTED")'
  <2>1. ASSUME ComeFirst, NEW i \in 1 .. Len(events') PROVE events'[i].kind # "CONNECTED"
    BY <1>2, <2>1, Zenon DEF ComeFirst
  <2>2. ComeFirst => ComeFirst'
    BY <2>1, Zenon DEF ComeFirst
  <2>3. ComeFirst => ~Waiting("CONNECTED")'
    BY <2>1, Zenon DEF Waiting
  <2> QED BY <2>2, <2>3
<1>5. GoneLast => GoneLast' /\ (Head(events).kind = "DISCONNECTED" => events' = <<>>)
  <2>1. ASSUME GoneLast, NEW i \in 1 .. Len(events'), events'[i].kind = "DISCONNECTED"
        PROVE  i = Len(events')
    <3>1. i + 1 \in 1 .. Len(events) /\ events[i + 1].kind = "DISCONNECTED"
      BY <1>2, <2>1
    <3>2. i + 1 = n
      BY <2>1, <3>1 DEF GoneLast
    <3>3. Len(events') = n - 1 /\ n \in Nat
      BY <1>1
    <3> HIDE DEF n
    <3>4. i \in 1 .. n - 1
      BY <3>3
    <3> QED BY <3>2, <3>3, <3>4
  <2>2. GoneLast => GoneLast'
    BY <2>1, Zenon DEF GoneLast
  <2>3. GoneLast /\ Head(events).kind = "DISCONNECTED" => n = 1
    BY <1>1, <1>2 DEF GoneLast
  <2> QED BY <1>1, <2>2, <2>3
<1>6. News <=> News' \/ OfParameters(Head(events))
  BY <1>1, <1>2, Zenon DEF News
<1>7. ASSUME NEW v, LastNewsIs(v) PROVE LastNewsIs(v)'
  <2> SUFFICES ASSUME NEW i \in 1 .. n - 1, OfParameters(events'[i]),
                      \A j \in i + 1 .. n - 1 : ~OfParameters(events'[j])
               PROVE  events'[i].ok = v
    BY <1>1 DEF LastNewsIs
  <2>1. \A j \in i + 2 .. n : ~OfParameters(events[j])
    <3> SUFFICES ASSUME NEW j \in i + 2 .. n PROVE ~OfParameters(events[j])
      OBVIOUS
    <3>1. j - 1 \in i + 1 .. n - 1 /\ j \in 1 .. Len(events) /\ j # 1
      BY <1>1
    <3> QED BY <1>2, <3>1
  <2> QED BY <1>1, <1>7, <2>1 DEF LastNewsIs
<1>8. ASSUME NEW v, LastNewsIs(v), OfParameters(Head(events)), ~News' PROVE Head(events).ok = v
  <2>1. \A j \in 2 .. n : ~OfParameters(events[j])
    BY <1>1, <1>2, <1>8 DEF News
  <2> QED BY <1>1, <1>8, <2>1 DEF LastNewsIs
<1> QED BY <1>1, <1>3, <1>4, <1>5, <1>6, <1>7, <1>8 DEF EventsType

-----------------------------------------------------------------------------
(* Types are kept. *)

LEMMA InitTypes == Init => Types
<1> SUFFICES ASSUME Init PROVE Types
  OBVIOUS
<1>1. EventsType
  <2> HIDE DEF Record
  <2> QED BY DEF Init, EventsType
<1>2. CountType
  BY LinkAssumption DEF Init, CountType
<1>3. FlagsType
  BY Zenon DEF Init, FlagsType
<1> QED BY <1>1, <1>2, <1>3 DEF Types

LEMMA HandlerEffect ==
  ASSUME Types, ble_evt_handler
  PROVE  /\ Head(events).kind \in Kinds /\ Head(events).ok \in BOOLEAN
         /\ events # <<>> /\ events' = Tail(events) /\ ~failed
         /\ Handle(Head(events).kind, Head(events).ok) /\ UNCHANGED acceptable
BY HeadIsRecord DEF ble_evt_handler, Types

LEMMA NextEventsType == ASSUME Types, [Next]_vars PROVE EventsType'
<1>1. CASE PeerConnects
  BY <1>1, Posted DEF PeerConnects, Types, Kinds
<1>2. CASE LinkEnds
  BY <1>2, Posted DEF LinkEnds, Types, Kinds
<1>3. CASE PeerAnswers \/ PeerChanges
  BY <1>3, Posted DEF PeerAnswers, PeerChanges, NewParameters, Types, Kinds
<1>4. CASE PeerRequests
  BY <1>4, Posted DEF PeerRequests, Types, Kinds
<1>5. CASE ble_evt_handler
  BY <1>5, HandlerEffect, Taken DEF Types
<1>6. CASE Reset
  <2> HIDE DEF Record
  <2> QED BY <1>6 DEF Reset, EventsType
<1>7. CASE update_timeout_handler \/ UNCHANGED vars
  BY <1>7, Zenon DEF update_timeout_handler, vars, Types, EventsType
<1> QED BY <1>1, <1>2, <1>3, <1>4, <1>5, <1>6, <1>7, Zenon DEF Next

LEMMA NextCountType == ASSUME Types, [Next]_vars PROVE CountType'
<1>1. update_count \in 0 .. MAX_CONN_PARAMS_UPDATE_COUNT
  BY DEF Types, CountType
<1>2. \/ update_count' \in {update_count, 0}
      \/ TriesLeft /\ update_count' = update_count + 1
  <2>1. CASE \/ PeerConnects \/ LinkEnds \/ PeerAnswers \/ PeerChanges \/ PeerRequests
             \/ UNCHANGED vars
    BY <2>1 DEF PeerConnects, LinkEnds, PeerAnswers, PeerChanges, NewParameters, PeerRequests,
       vars, instance
  <2>2. CASE update_timeout_handler
    BY <2>2 DEF update_timeout_handler, CountAfter
  <2>3. CASE ble_evt_handler
    BY <2>3, HandlerEffect DEF Handle, on_connect, on_disconnect, on_conn_params_update,
       conn_params_negotiation, instance, Kinds
  <2>4. CASE Reset
    BY <2>4 DEF Reset
  <2> QED BY <2>1, <2>2, <2>3, <2>4, Zenon DEF Next
<1> QED BY <1>1, <1>2, LinkAssumption DEF CountType, TriesLeft

LEMMA NextFlagsType == ASSUME Types, [Next]_vars PROVE FlagsType'
<1>0. FlagsType
  BY DEF Types
<1>1. CASE PeerConnects
  BY <1>0, <1>1, Zenon DEF PeerConnects, FlagsType, instance, errors
<1>2. CASE LinkEnds
  BY <1>0, <1>2, Zenon DEF LinkEnds, FlagsType, instance, errors
<1>3. CASE PeerAnswers \/ PeerChanges
  BY <1>0, <1>3, Zenon DEF PeerAnswers, PeerChanges, NewParameters, FlagsType, instance, errors
<1>4. CASE PeerRequests
  BY <1>0, <1>4, Zenon DEF PeerRequests, FlagsType, instance, stack, errors
<1>5. CASE ble_evt_handler
  <2> DEFINE kind == Head(events).kind
  <2>1. /\ kind \in Kinds /\ Head(events).ok \in BOOLEAN /\ ~failed
        /\ Handle(kind, Head(events).ok) /\ UNCHANGED acceptable
    BY <1>5, HandlerEffect
  <2> HIDE DEF kind
  <2>2. CASE kind = "CONNECTED"
    <3>1. on_connect(Head(events).ok) /\ connected' = TRUE /\ Keep /\ UNCHANGED advertising
      BY <2>1, <2>2 DEF Handle
    <3> QED BY <1>0, <2>1, <3>1, Zenon DEF FlagsType, on_connect, conn_params_negotiation, Keep,
                NoError, Error, instance, errors
  <2>3. CASE kind = "DISCONNECTED"
    <3>1. on_disconnect /\ connected' = FALSE /\ advertising_start /\ Keep
      BY <2>1, <2>3 DEF Handle
    <3> QED BY <1>0, <2>1, <3>1, Zenon DEF FlagsType, on_disconnect, advertising_start, Keep,
                NoError, Error, errors
  <2>4. CASE kind = "CONN_PARAM_UPDATE"
    <3>1. /\ on_conn_params_update(Head(events).ok) /\ UNCHANGED <<connected, advertising>>
          /\ Keep /\ NoError
      BY <2>1, <2>4 DEF Handle
    <3> QED BY <1>0, <2>1, <3>1, Zenon DEF FlagsType, on_conn_params_update,
                conn_params_negotiation, Keep, NoError, instance, errors
  <2>5. CASE kind = "REQUEST"
    <3>1. sd_reply /\ UNCHANGED <<instance, connected, advertising>>
      BY <2>1, <2>5 DEF Handle
    <3> QED BY <1>0, <2>1, <3>1, Zenon DEF FlagsType, sd_reply, Keep, NoError, Error,
                Refused, instance, errors
  <2>6. CASE kind = "TIMEOUT"
    <3>1. sd_ble_gap_disconnect /\ UNCHANGED <<instance, connected, advertising>>
      BY <2>1, <2>6 DEF Handle
    <3> QED BY <1>0, <2>1, <3>1, Zenon DEF FlagsType, sd_ble_gap_disconnect, NoError, Error,
                instance, errors
  <2> QED BY <2>1, <2>2, <2>3, <2>4, <2>5, <2>6 DEF Kinds
<1>6. CASE Reset
  BY <1>6, Zenon DEF Reset, FlagsType
<1>7. CASE update_timeout_handler
  <2>1. /\ failed' \in {failed, TRUE} /\ refused' \in {refused, TRUE}
        /\ link' \in {link, "closing"} /\ timer' = FALSE /\ asked' \in BOOLEAN
    BY <1>0, <1>7 DEF update_timeout_handler, Keep, NoError, Error, Refused, errors,
       send_update_request, sd_ble_gap_disconnect, FlagsType
  <2>2. UNCHANGED <<acceptable, advertising, events, connected, claimed, params_ok>>
    BY <1>7, Zenon DEF update_timeout_handler
  <2> QED BY <1>0, <2>1, <2>2, Zenon DEF FlagsType
<1>8. CASE UNCHANGED vars
  BY <1>0, <1>8, Zenon DEF vars, stack, instance, errors, FlagsType
<1> QED BY <1>1, <1>2, <1>3, <1>4, <1>5, <1>6, <1>7, <1>8, Zenon DEF Next

LEMMA NextTypes == ASSUME Types, [Next]_vars PROVE Types'
BY NextEventsType, NextCountType, NextFlagsType, Zenon DEF Types

-----------------------------------------------------------------------------
(* What is believed of the link, step by step. *)

LEMMA NothingWaits ==
  ASSUME EventsType, events = <<>>
  PROVE  (\A k : ~Waiting(k)) /\ ~News /\ ComeFirst /\ GoneLast
BY DEF Waiting, News, ComeFirst, GoneLast

LEMMA InitLinkInv == Init => LinkInv
<1> SUFFICES ASSUME Init PROVE LinkInv
  OBVIOUS
<1>1. EventsType /\ events = <<>>
  BY InitTypes DEF Init, Types
<1>2. (\A v : LastNewsIs(v)) /\ ~News /\ ComeFirst /\ GoneLast
  BY <1>1, NothingWaits DEF LastNewsIs
<1> QED BY <1>1, <1>2, Zenon DEF Init, LinkInv, BelievesAsTold

LEMMA ConnectBelieved == ASSUME Types, LinkInv, PeerConnects PROVE LinkInv'
<1>1. /\ ~failed' /\ link' = "up" /\ ~advertising' /\ link' # "none"
      /\ events = <<>> /\ ~connected /\ ~claimed /\ ~timer
      /\ UNCHANGED <<connected, claimed, timer>>
  BY Zenon DEF PeerConnects, LinkInv, BelievesAsTold, instance, errors, Types, FlagsType
<1>2. Post("CONNECTED", acceptable') /\ acceptable' \in BOOLEAN /\ EventsType
  BY DEF PeerConnects, Types
<1>3. (\A k : ~Waiting(k)) /\ ComeFirst
  BY <1>1, <1>2, NothingWaits
<1>4. /\ Waiting("CONNECTED")' /\ (Waiting("DISCONNECTED")' <=> Waiting("DISCONNECTED"))
      /\ ComeFirst' /\ GoneLast' /\ News' /\ LastNewsIs(acceptable)'
  BY <1>1, <1>2, <1>3, Posted DEF Kinds
<1> QED BY <1>1, <1>3, <1>4, Zenon DEF LinkInv, BelievesAsTold

LEMMA EndBelieved == ASSUME Types, LinkInv, LinkEnds PROVE LinkInv'
<1>1. /\ link # "none" /\ link' = "none" /\ link' # "up" /\ UNCHANGED <<failed, refused>>
      /\ UNCHANGED <<acceptable, advertising, connected, claimed, params_ok, timer>>
      /\ Post("DISCONNECTED", TRUE) /\ EventsType
  BY DEF LinkEnds, instance, errors, Types
<1>2. CASE failed
  BY <1>1, <1>2, Zenon DEF LinkInv
<1>3. CASE ~failed
  <2>1. BelievesAsTold /\ ~advertising /\ ~Waiting("DISCONNECTED")
    BY <1>1, <1>3, Zenon DEF LinkInv, BelievesAsTold
  <2>2. ComeFirst /\ LastNewsIs(acceptable)
    BY <2>1, Zenon DEF BelievesAsTold
  <2>3. /\ Waiting("DISCONNECTED")' /\ (Waiting("CONNECTED")' <=> Waiting("CONNECTED"))
        /\ ComeFirst' /\ GoneLast' /\ (News' <=> News)
        /\ \A v : LastNewsIs(v) => LastNewsIs(v)'
    BY <1>1, <2>1, <2>2, Posted DEF Kinds
  <2>4. LastNewsIs(acceptable)'
    BY <1>1, <2>2, <2>3
  <2> QED BY <1>1, <1>3, <2>1, <2>3, <2>4, Zenon DEF LinkInv, BelievesAsTold
<1> QED BY <1>2, <1>3

LEMMA NewParametersBelieved ==
  ASSUME Types, LinkInv, link = "up", NewParameters
  PROVE  LinkInv'
<1>1. /\ link # "none"
      /\ UNCHANGED <<link, advertising, connected, claimed, params_ok, timer, failed, refused>>
      /\ Post("CONN_PARAM_UPDATE", acceptable') /\ acceptable' \in BOOLEAN /\ EventsType
  BY DEF NewParameters, instance, errors, Types
<1>2. CASE failed
  BY <1>1, <1>2, Zenon DEF LinkInv
<1>3. CASE ~failed
  <2>1. BelievesAsTold /\ ~advertising /\ ~Waiting("DISCONNECTED") /\ ComeFirst
    BY <1>1, <1>3, Zenon DEF LinkInv, BelievesAsTold
  <2>2. /\ (Waiting("DISCONNECTED")' <=> Waiting("DISCONNECTED"))
        /\ (Waiting("CONNECTED")' <=> Waiting("CONNECTED"))
        /\ ComeFirst' /\ GoneLast' /\ News' /\ LastNewsIs(acceptable)'
    BY <1>1, <2>1, Posted DEF Kinds
  <2> QED BY <1>1, <1>3, <2>1, <2>2, Zenon DEF LinkInv, BelievesAsTold
<1> QED BY <1>2, <1>3

LEMMA RequestBelieved == ASSUME Types, LinkInv, PeerRequests PROVE LinkInv'
<1>1. /\ link = "up" /\ link # "none" /\ UNCHANGED <<failed, refused>>
      /\ UNCHANGED <<link, acceptable, advertising, connected, claimed, params_ok, timer>>
      /\ EventsType
  BY DEF PeerRequests, stack, instance, errors, Types
<1>2. PICK kind \in {"REQUEST", "TIMEOUT"} : Post(kind, TRUE)
  BY Zenon DEF PeerRequests
<1>3. CASE failed
  BY <1>1, <1>3, Zenon DEF LinkInv
<1>4. CASE ~failed
  <2>1. BelievesAsTold /\ ~advertising /\ ~Waiting("DISCONNECTED") /\ ComeFirst
    BY <1>1, <1>4, Zenon DEF LinkInv, BelievesAsTold
  <2>2. /\ (Waiting("DISCONNECTED")' <=> Waiting("DISCONNECTED"))
        /\ (Waiting("CONNECTED")' <=> Waiting("CONNECTED"))
        /\ ComeFirst' /\ GoneLast' /\ (News' <=> News)
        /\ \A v : LastNewsIs(v) => LastNewsIs(v)'
    BY <1>1, <1>2, <2>1, Posted DEF Kinds
  <2>3. LastNewsIs(acceptable)'
    BY <1>1, <2>1, <2>2 DEF BelievesAsTold
  <2> QED BY <1>1, <1>4, <2>1, <2>2, <2>3, Zenon DEF LinkInv, BelievesAsTold
<1> QED BY <1>3, <1>4

LEMMA TimerBelieved == ASSUME Types, LinkInv, update_timeout_handler PROVE LinkInv'
<1>1. /\ ~failed /\ BelievesAsTold /\ timer' = FALSE
      /\ UNCHANGED <<acceptable, advertising, events, connected, claimed, params_ok>>
  BY Zenon DEF update_timeout_handler, LinkInv
<1>2. /\ link' = "none" <=> link = "none"
      /\ failed' => refused' \/ link' # "up"
  BY <1>1 DEF update_timeout_handler, Keep, NoError, Error, Refused, errors,
     send_update_request, sd_ble_gap_disconnect
<1>3. /\ \A k : Waiting(k)' <=> Waiting(k)
      /\ (ComeFirst' <=> ComeFirst) /\ (GoneLast' <=> GoneLast) /\ (News' <=> News)
      /\ (LastNewsIs(acceptable)' <=> LastNewsIs(acceptable))
  BY <1>1, Zenon DEF Waiting, ComeFirst, GoneLast, News, LastNewsIs
<1> QED BY <1>1, <1>2, <1>3, Zenon DEF LinkInv, BelievesAsTold

(* The handler, one kind of event after the other.  The beginning of a     *)
(* link finds the instance free, the end finds no link.                    *)
LEMMA ConnectedHandled ==
  ASSUME Types, LinkInv, ble_evt_handler, Head(events).kind = "CONNECTED"
  PROVE  LinkInv'
<1> DEFINE ok == Head(events).ok
<1>1. /\ events # <<>> /\ events' = Tail(events) /\ EventsType /\ ~failed
      /\ on_connect(ok) /\ connected' = TRUE /\ Keep
      /\ UNCHANGED advertising /\ UNCHANGED acceptable /\ ok \in BOOLEAN
  BY HandlerEffect DEF Handle, Types
<1>2. Waiting("CONNECTED") /\ (Waiting("DISCONNECTED")' <=> Waiting("DISCONNECTED"))
  BY <1>1, Taken
<1>3. BelievesAsTold /\ ~advertising /\ ~claimed /\ ComeFirst /\ GoneLast
  BY <1>1, <1>2, Zenon DEF LinkInv, BelievesAsTold
<1>4. /\ ~Waiting("CONNECTED")' /\ ComeFirst' /\ GoneLast'
  BY <1>1, <1>3, Taken
<1>5. LastNewsIs(acceptable)' /\ (~News' => ok = acceptable)
  <2>1. LastNewsIs(acceptable) /\ OfParameters(Head(events))
    BY <1>3 DEF BelievesAsTold, OfParameters
  <2> QED BY <1>1, <2>1, Taken
<1> HIDE DEF ok
<1>6. ~failed' /\ claimed' = TRUE /\ params_ok' = ok /\ link' = link
  BY <1>1, <1>3, Zenon DEF on_connect, conn_params_negotiation, NoError, errors, Keep
<1> QED BY <1>1, <1>2, <1>3, <1>4, <1>5, <1>6, Zenon DEF LinkInv, BelievesAsTold

LEMMA DisconnectedHandled ==
  ASSUME Types, LinkInv, ble_evt_handler, Head(events).kind = "DISCONNECTED"
  PROVE  LinkInv'
<1>1. /\ events # <<>> /\ events' = Tail(events) /\ EventsType /\ ~failed
      /\ on_disconnect /\ connected' = FALSE /\ advertising_start /\ Keep
      /\ UNCHANGED acceptable
  BY HandlerEffect DEF Handle, Types
<1>2. Waiting("DISCONNECTED")
  BY <1>1, Taken
<1>3. BelievesAsTold /\ ~advertising /\ link = "none" /\ GoneLast
  BY <1>1, <1>2, Zenon DEF LinkInv, BelievesAsTold
<1>4. events' = <<>> /\ EventsType'
  BY <1>1, <1>3, Taken
<1>5. ComeFirst' /\ GoneLast' /\ LastNewsIs(acceptable)'
  BY <1>4 DEF ComeFirst, GoneLast, LastNewsIs
<1>6. /\ ~failed' /\ advertising' = TRUE /\ link' = "none"
      /\ ~claimed' /\ ~timer'
  BY <1>1, <1>3, Zenon DEF advertising_start, NoError, errors, Keep, on_disconnect,
     BelievesAsTold
<1> QED BY <1>1, <1>4, <1>5, <1>6, Zenon DEF LinkInv, BelievesAsTold

LEMMA ParametersHandled ==
  ASSUME Types, LinkInv, ble_evt_handler, Head(events).kind = "CONN_PARAM_UPDATE"
  PROVE  LinkInv'
<1> DEFINE ok == Head(events).ok
<1>1. /\ events # <<>> /\ events' = Tail(events) /\ EventsType /\ ~failed
      /\ on_conn_params_update(ok) /\ Keep /\ NoError
      /\ UNCHANGED connected /\ UNCHANGED advertising /\ UNCHANGED acceptable
  BY HandlerEffect DEF Handle, Types
<1>2. BelievesAsTold /\ ~advertising /\ ComeFirst /\ GoneLast
  BY <1>1, Zenon DEF LinkInv, BelievesAsTold
<1>3. /\ (Waiting("CONNECTED")' <=> Waiting("CONNECTED"))
      /\ (Waiting("DISCONNECTED")' <=> Waiting("DISCONNECTED"))
      /\ ComeFirst' /\ GoneLast'
  BY <1>1, <1>2, Taken
<1>4. LastNewsIs(acceptable)' /\ (~News' => ok = acceptable)
  <2>1. LastNewsIs(acceptable) /\ OfParameters(Head(events))
    BY <1>2 DEF BelievesAsTold, OfParameters
  <2> QED BY <1>1, <2>1, Taken
<1> HIDE DEF ok
<1>5. /\ ~failed' /\ claimed' = claimed /\ (claimed => params_ok' = ok) /\ link' = link
      /\ (timer' => claimed \/ timer)
  BY <1>1, Zenon DEF on_conn_params_update, conn_params_negotiation, NoError, errors, Keep,
     instance
<1> QED BY <1>1, <1>2, <1>3, <1>4, <1>5, Zenon DEF LinkInv, BelievesAsTold

LEMMA OthersHandled ==
  ASSUME Types, LinkInv, ble_evt_handler, Head(events).kind \in {"REQUEST", "TIMEOUT"}
  PROVE  LinkInv'
<1>1. /\ events # <<>> /\ events' = Tail(events) /\ EventsType /\ ~failed
      /\ UNCHANGED <<connected, advertising, acceptable, claimed, params_ok, timer>>
      /\ sd_reply \/ sd_ble_gap_disconnect
  BY HandlerEffect DEF Handle, Types, instance
<1>2. BelievesAsTold /\ ~advertising /\ ComeFirst /\ GoneLast
  BY <1>1, Zenon DEF LinkInv, BelievesAsTold
<1>3. /\ (Waiting("CONNECTED")' <=> Waiting("CONNECTED"))
      /\ (Waiting("DISCONNECTED")' <=> Waiting("DISCONNECTED"))
      /\ ComeFirst' /\ GoneLast' /\ (News' <=> News)
  BY <1>1, <1>2, Taken DEF OfParameters
<1>4. LastNewsIs(acceptable)'
  BY <1>1, <1>2, Taken DEF BelievesAsTold
<1>5. /\ link' = "none" <=> link = "none"
      /\ failed' => refused' \/ link' # "up"
  BY <1>1 DEF sd_reply, sd_ble_gap_disconnect, Keep, NoError, Error, Refused, errors
<1> QED BY <1>1, <1>2, <1>3, <1>4, <1>5, Zenon DEF LinkInv, BelievesAsTold

LEMMA ResetBelieved == ASSUME Reset PROVE LinkInv'
<1>1. events' = <<>>
  BY DEF Reset
<1>2. ComeFirst' /\ GoneLast' /\ LastNewsIs(acceptable)'
  BY <1>1 DEF ComeFirst, GoneLast, LastNewsIs
<1> QED BY <1>1, <1>2, Zenon DEF Reset, LinkInv, BelievesAsTold

LEMMA NextLinkInv == ASSUME Types, LinkInv, [Next]_vars PROVE LinkInv'
<1>1. CASE PeerConnects
  BY <1>1, ConnectBelieved
<1>2. CASE LinkEnds
  BY <1>2, EndBelieved
<1>3. CASE PeerAnswers \/ PeerChanges
  BY <1>3, NewParametersBelieved, Zenon DEF PeerAnswers, PeerChanges
<1>4. CASE PeerRequests
  BY <1>4, RequestBelieved
<1>5. CASE update_timeout_handler
  BY <1>5, TimerBelieved
<1>6. CASE ble_evt_handler
  BY <1>6, HandlerEffect, ConnectedHandled, DisconnectedHandled, ParametersHandled, OthersHandled
     DEF Kinds
<1>7. CASE Reset
  BY <1>7, ResetBelieved
<1>8. CASE UNCHANGED vars
  BY <1>8, Zenon DEF vars, stack, instance, errors, LinkInv, BelievesAsTold, Waiting, ComeFirst,
     GoneLast, News, LastNewsIs
<1> QED BY <1>1, <1>2, <1>3, <1>4, <1>5, <1>6, <1>7, <1>8, Zenon DEF Next

(* What the program believes of the link, its parameters and advertising   *)
(* is at every moment what the SoftDevice knows, less what the events that *)
(* wait will tell it.                                                      *)
THEOREM LinkInductive == Spec => [](Types /\ LinkInv)
<1>1. Init => Types /\ LinkInv
  BY InitTypes, InitLinkInv
<1>2. Types /\ LinkInv /\ [Next]_vars => (Types /\ LinkInv)'
  BY NextTypes, NextLinkInv
<1> QED BY <1>1, <1>2, PTL DEF Spec

-----------------------------------------------------------------------------
(* Whatever the order of events, answers and timeouts: once its events are *)
(* handled, lib_ble.c and ble_conn_params.c agree with the SoftDevice      *)
(* about the link, about its parameters and about advertising, and no      *)
(* timer of a link that is gone runs into the next one.                    *)
THEOREM Agreement == Spec => []AgreesWithStack
<1>1. ASSUME Types, LinkInv PROVE AgreesWithStack
  <2>1. TypeOK
    BY <1>1, TypesAreOK
  <2>2. ASSUME events = <<>>, ~failed
        PROVE  /\ connected = (link # "none") /\ claimed = connected
               /\ timer => claimed
               /\ claimed => params_ok = acceptable
               /\ advertising = (link = "none")
    <3>1. (\A k : ~Waiting(k)) /\ ~News
      BY <1>1, <2>2, NothingWaits DEF Types
    <3>2. BelievesAsTold
      BY <1>1, <2>2 DEF LinkInv
    <3>3. /\ connected <=> link # "none"
          /\ claimed <=> connected
          /\ advertising <=> link = "none"
      BY <3>1, <3>2, Zenon DEF BelievesAsTold
    <3>4. connected \in BOOLEAN /\ claimed \in BOOLEAN /\ advertising \in BOOLEAN
      BY <1>1, Zenon DEF Types, FlagsType
    <3> QED BY <3>1, <3>2, <3>3, <3>4 DEF BelievesAsTold
  <2> QED BY <2>1, <2>2, Zenon DEF AgreesWithStack
<1> QED BY <1>1, LinkInductive, PTL

(* Over a link that is up, the program is reset only when the SoftDevice   *)
(* refuses a call: every other call that fails comes after the end of its  *)
(* link, or while it is being closed; the one instance of                  *)
(* ble_conn_params.c is free for every link, and none of them is there     *)
(* while the program starts to advertise.                                  *)
THEOREM ResetsAreLateOrRefused == Spec => []ResetOnlyLateOrRefused
<1>1. LinkInv => ResetOnlyLateOrRefused
  BY Zenon DEF LinkInv, ResetOnlyLateOrRefused
<1> QED BY <1>1, LinkInductive, PTL

-----------------------------------------------------------------------------
(* The keys. *)

OnKey ==
  \/ held = UINT16
  \/ /\ g_ubKeyBufferIndex = 2 /\ g_aulKeyBuffer[1] = 1
     /\ g_uwKeyContinousCount >= KEY_3SEC_COUNT
Passing == KEY_1CLICK_FLAG \/ KEY_3SEC_CLICK_FLAG => \E k \in seen : k # 0
Counting ==
  /\ g_ubKeyBufferIndex < 2 => g_uwKeyContinousCount = 0
  /\ g_aulKeyBuffer[1] = 1 => held >= g_uwKeyContinousCount
Flagged ==
  KEY_3SEC_CLICK_FLAG /\ ~mixed =>
    seen = {g_ulKeyInValue} /\ (g_ulKeyInValue = 1 => held >= KEY_3SEC_COUNT /\ OnKey)
Once ==
  erased > 0 /\ ~mixed => OnKey /\ (held = UINT16 \/ (erased = 1 /\ ~KEY_3SEC_CLICK_FLAG))
Coming ==
  \/ g_ubKeyBufferIndex = 0 /\ held <= 1
  \/ g_ubKeyBufferIndex = 1 /\ held <= 2 /\ (held = 0 \/ g_aulKeyBuffer[0] = 1)
  \/ /\ g_ubKeyBufferIndex = 2 /\ g_aulKeyBuffer[1] = 1
     /\ held <= g_uwKeyContinousCount + 3 /\ g_uwKeyContinousCount < KEY_3SEC_COUNT
Clicks ==
  g_ubKeyOffCount = 0 \/ (g_uwKeyContinousCount < KEY_1CLICK_COUNT /\ ~KEY_1CLICK_FLAG)
Awaited ==
  clean /\ ~mixed =>
    erased > 0 \/ (KEY_3SEC_CLICK_FLAG /\ g_ulKeyInValue = 1) \/ (Coming /\ Clicks)
HoldInv == Passing /\ Counting /\ Flagged /\ Once /\ Awaited

LEMMA KeyTypes ==
  ASSUME Switches!KeyAssumption, Switches!TypeOK
  PROVE  /\ KEY_1CLICK_COUNT \in Nat \ {0} /\ KEY_3SEC_COUNT \in Nat \ {0} /\ UINT16 \in Nat \ {0}
         /\ KEY_1CLICK_COUNT < KEY_3SEC_COUNT /\ KEY_3SEC_COUNT + 2 <= UINT16
         /\ g_ulKeyInValue \in Switches!Keys /\ g_ubKeyOffCount \in 0 .. 1
         /\ g_aulKeyBuffer \in [0 .. 2 -> Switches!Keys] /\ g_ubKeyBufferIndex \in 0 .. 2
         /\ g_uwKeyContinousCount \in Nat /\ g_uwKeyContinousCount < UINT16
         /\ g_uwKeyNotSameCount \in Nat /\ g_uwKeyNotSameCount < UINT16
         /\ held \in Nat /\ held <= UINT16 /\ erased \in 0 .. 2 /\ seen \subseteq Switches!Keys
<1>1. /\ KEY_1CLICK_COUNT \in Nat \ {0} /\ KEY_3SEC_COUNT \in Nat \ {0} /\ UINT16 \in Nat \ {0}
      /\ KEY_1CLICK_COUNT < KEY_3SEC_COUNT /\ KEY_3SEC_COUNT + 2 <= UINT16
  BY DEF Switches!KeyAssumption
<1>2. /\ g_ulKeyInValue \in Switches!Keys /\ g_ubKeyOffCount \in 0 .. 1
      /\ g_aulKeyBuffer \in [0 .. 2 -> Switches!Keys] /\ g_ubKeyBufferIndex \in 0 .. 2
      /\ g_uwKeyContinousCount \in 0 .. UINT16 - 1 /\ g_uwKeyNotSameCount \in 0 .. UINT16 - 1
      /\ held \in 0 .. UINT16 /\ erased \in 0 .. 2 /\ seen \subseteq Switches!Keys
  BY Zenon DEF Switches!TypeOK, Switches!KEY_OFF_DEBOUCE, Switches!KEY_ON_DEBOUNCE
<1>3. /\ g_uwKeyContinousCount \in Nat /\ g_uwKeyContinousCount < UINT16
      /\ g_uwKeyNotSameCount \in Nat /\ g_uwKeyNotSameCount < UINT16
      /\ held \in Nat /\ held <= UINT16
  BY <1>1, <1>2
<1> QED BY <1>1, <1>2, <1>3, Zenon

LEMMA KeysInit == ASSUME Switches!KeyAssumption, Switches!Init PROVE Switches!TypeOK /\ HoldInv
<1>1. /\ KEY_1CLICK_COUNT \in Nat \ {0} /\ KEY_3SEC_COUNT \in Nat \ {0} /\ UINT16 \in Nat \ {0}
  BY DEF Switches!KeyAssumption
<1>2. /\ g_ulKeyInValue = 0 /\ g_ubKeyOffCount = 0
      /\ g_aulKeyBuffer = [i \in 0 .. 2 |-> 0] /\ g_ubKeyBufferIndex = 0
      /\ g_uwKeyContinousCount = 0 /\ g_uwKeyNotSameCount = 0
      /\ seen = {} /\ held = 0 /\ erased = 0
      /\ ~KEY_1CLICK_FLAG /\ ~KEY_3SEC_CLICK_FLAG
  BY Zenon DEF Switches!Init
<1>3. Switches!TypeOK
  <2>1. /\ g_ulKeyInValue \in Switches!Keys /\ g_ubKeyOffCount \in 0 .. Switches!KEY_OFF_DEBOUCE
        /\ g_aulKeyBuffer \in [0 .. 2 -> Switches!Keys]
        /\ g_ubKeyBufferIndex \in 0 .. Switches!KEY_ON_DEBOUNCE
        /\ g_uwKeyContinousCount \in 0 .. UINT16 - 1 /\ g_uwKeyNotSameCount \in 0 .. UINT16 - 1
        /\ seen \subseteq Switches!Keys /\ held \in 0 .. UINT16 /\ erased \in 0 .. 2
    BY <1>1, <1>2 DEF Switches!Keys, Switches!KEY_OFF_DEBOUCE, Switches!KEY_ON_DEBOUNCE
  <2>2. Switches!keyFlags \in BOOLEAN \X BOOLEAN \X BOOLEAN \X BOOLEAN
    BY DEF Switches!Init, Switches!keyFlags
  <2>3. mixed \in BOOLEAN /\ clean \in BOOLEAN
    BY DEF Switches!Init
  <2> QED BY <2>1, <2>2, <2>3, Zenon DEF Switches!TypeOK
<1>4. Counting /\ Coming /\ ~(erased > 0)
  BY <1>1, <1>2 DEF Counting, Coming
<1> QED BY <1>2, <1>3, <1>4, Zenon DEF HoldInv, Passing, Flagged, Once, Awaited, Clicks

(* A scan, by what it sees and does. *)
LEMMA ScanTypes ==
  ASSUME Switches!KeyAssumption, Switches!TypeOK, NEW key \in Switches!Keys,
         Switches!Mid_KeyHandler(key)
  PROVE  Switches!TypeOK'
<1> DEFINE keyTypes == /\ g_ulKeyInValue' \in Switches!Keys
                       /\ g_ubKeyOffCount' \in 0 .. Switches!KEY_OFF_DEBOUCE
                       /\ g_aulKeyBuffer' \in [0 .. 2 -> Switches!Keys]
                       /\ g_ubKeyBufferIndex' \in 0 .. Switches!KEY_ON_DEBOUNCE
           countTypes == /\ g_uwKeyContinousCount' \in 0 .. UINT16 - 1
                         /\ g_uwKeyNotSameCount' \in 0 .. UINT16 - 1
           flagTypes == Switches!keyFlags' \in BOOLEAN \X BOOLEAN \X BOOLEAN \X BOOLEAN
           heldTypes == /\ seen' \subseteq Switches!Keys /\ mixed' \in BOOLEAN
                        /\ held' \in 0 .. UINT16
                        /\ clean' \in BOOLEAN /\ erased' \in 0 .. 2
<1>1. keyTypes /\ countTypes /\ flagTypes /\ heldTypes => Switches!TypeOK'
  BY Zenon DEF Switches!TypeOK
<1>2. /\ KEY_1CLICK_FLAG \in BOOLEAN /\ KEY_3SEC_CLICK_FLAG \in BOOLEAN
      /\ KEY_RELEASE_CLICK_FLAG \in BOOLEAN /\ ERROR_KEYSHORT_FLAG \in BOOLEAN
  BY DEF Switches!TypeOK, Switches!keyFlags
<1>3. \A a, b, c, d \in BOOLEAN :
        /\ KEY_1CLICK_FLAG' = a /\ KEY_3SEC_CLICK_FLAG' = b
        /\ KEY_RELEASE_CLICK_FLAG' = c /\ ERROR_KEYSHORT_FLAG' = d
        => flagTypes
  BY DEF Switches!keyFlags
<1>4. heldTypes
  <2>1. Switches!Observe(key)
    BY Zenon DEF Switches!Mid_KeyHandler
  <2>2. /\ seen' = seen \union {key} /\ mixed' = (seen' # {key} \/ (mixed /\ key # 0))
        /\ held' = IF key = 1 THEN Switches!AtMost(held + 1, UINT16) ELSE 0
        /\ clean' = IF key = 1 THEN clean ELSE key = 0
        /\ erased' = IF key = 1 THEN erased ELSE 0
    BY <2>1, Zenon DEF Switches!Observe, Switches!KEY_SWITCH_1
  <2>3. clean \in BOOLEAN
    BY DEF Switches!TypeOK
  <2>4. mixed' \in BOOLEAN /\ clean' \in BOOLEAN
    BY <2>2, <2>3, Zenon
  <2>5. seen' \subseteq Switches!Keys /\ held' \in 0 .. UINT16 /\ erased' \in 0 .. 2
    BY <2>2, KeyTypes DEF Switches!AtMost
  <2> QED BY <2>4, <2>5, Zenon
<1>5. CASE key = 0
  <2>1. Switches!NoKey
    BY <1>5, Zenon DEF Switches!Mid_KeyHandler
  <2>2. g_aulKeyBuffer[0] \in Switches!Keys /\ 0 \in Switches!Keys
    BY KeyTypes DEF Switches!Keys
  <2>3. /\ g_ulKeyInValue' = g_aulKeyBuffer[0] \/ g_ulKeyInValue' = 0
        /\ g_ubKeyBufferIndex' = 0 \/ g_ubKeyBufferIndex' = 1
        /\ g_ubKeyOffCount' = Switches!KEY_OFF_DEBOUCE /\ g_uwKeyContinousCount' = 0
        /\ g_aulKeyBuffer' = g_aulKeyBuffer /\ g_uwKeyNotSameCount' = g_uwKeyNotSameCount
    BY <2>1, Zenon DEF Switches!NoKey
  <2>4. keyTypes /\ countTypes
    BY <2>2, <2>3, KeyTypes DEF Switches!KEY_OFF_DEBOUCE, Switches!KEY_ON_DEBOUNCE
  <2>5. flagTypes
    <3>1. /\ KEY_RELEASE_CLICK_FLAG' \in BOOLEAN /\ KEY_1CLICK_FLAG' = KEY_1CLICK_FLAG
          /\ KEY_3SEC_CLICK_FLAG' = KEY_3SEC_CLICK_FLAG
          /\ ERROR_KEYSHORT_FLAG' = ERROR_KEYSHORT_FLAG
      BY <2>1, Zenon DEF Switches!NoKey
    <3> QED BY <1>2, <1>3, <3>1, Zenon
  <2> QED BY <1>1, <1>4, <2>4, <2>5, Zenon
<1>6. CASE Switches!Debounce(key)
  <2>1. /\ g_ubKeyBufferIndex < 2 /\ g_ulKeyInValue' = key
        /\ \/ /\ g_aulKeyBuffer' = [g_aulKeyBuffer EXCEPT ![g_ubKeyBufferIndex] = key]
              /\ g_ubKeyBufferIndex' = g_ubKeyBufferIndex + 1
           \/ /\ g_aulKeyBuffer' = [i \in 0 .. 2 |-> IF i = 0 THEN key ELSE 0]
              /\ g_ubKeyBufferIndex' = 0
        /\ g_ubKeyOffCount' = g_ubKeyOffCount /\ g_uwKeyContinousCount' = g_uwKeyContinousCount
        /\ g_uwKeyNotSameCount' = g_uwKeyNotSameCount
    BY <1>6, Zenon DEF Switches!Debounce, Switches!KEY_ON_DEBOUNCE
  <2>2. keyTypes /\ countTypes
    BY <2>1, KeyTypes DEF Switches!Keys, Switches!KEY_OFF_DEBOUCE, Switches!KEY_ON_DEBOUNCE
  <2>3. flagTypes
    <3>1. /\ KEY_RELEASE_CLICK_FLAG' = KEY_RELEASE_CLICK_FLAG
          /\ KEY_1CLICK_FLAG' = KEY_1CLICK_FLAG
          /\ KEY_3SEC_CLICK_FLAG' = KEY_3SEC_CLICK_FLAG
          /\ ERROR_KEYSHORT_FLAG' = ERROR_KEYSHORT_FLAG
      BY <1>6, Zenon DEF Switches!Debounce, Switches!keyFlags
    <3> QED BY <1>2, <1>3, <3>1, Zenon
  <2> QED BY <1>1, <1>4, <2>2, <2>3, Zenon
<1>7. CASE Switches!Count(key)
  <2>1. /\ g_ulKeyInValue' = key /\ g_uwKeyContinousCount' = Switches!CountOf(key)
        /\ \/ g_uwKeyNotSameCount' = 0
           \/ g_uwKeyNotSameCount' = (g_uwKeyNotSameCount + 1) % UINT16
        /\ g_ubKeyOffCount' = 0 \/ g_ubKeyOffCount' = g_ubKeyOffCount
        /\ g_ubKeyBufferIndex' = 0 \/ g_ubKeyBufferIndex' = g_ubKeyBufferIndex
        /\ g_aulKeyBuffer' = g_aulKeyBuffer
    BY <1>7, Zenon DEF Switches!Count
  <2>2. /\ Switches!CountOf(key) \in 0 .. UINT16 - 1
        /\ (g_uwKeyNotSameCount + 1) % UINT16 \in 0 .. UINT16 - 1
    BY KeyTypes DEF Switches!CountOf
  <2>3. keyTypes /\ countTypes
    BY <2>1, <2>2, KeyTypes DEF Switches!Keys, Switches!KEY_OFF_DEBOUCE, Switches!KEY_ON_DEBOUNCE
  <2>4. flagTypes
    <3>1. /\ KEY_RELEASE_CLICK_FLAG' = KEY_RELEASE_CLICK_FLAG /\ KEY_1CLICK_FLAG' \in BOOLEAN
          /\ KEY_3SEC_CLICK_FLAG' \in BOOLEAN /\ ERROR_KEYSHORT_FLAG' \in BOOLEAN
      BY <1>7, Zenon DEF Switches!Count
    <3> QED BY <1>2, <1>3, <3>1, Zenon
  <2> QED BY <1>1, <1>4, <2>3, <2>4, Zenon
<1> QED BY <1>5, <1>6, <1>7, Zenon DEF Switches!Mid_KeyHandler

(* What a scan leaves of the history. *)
LEMMA Scanned ==
  ASSUME Switches!KeyAssumption, Switches!TypeOK, NEW key \in Switches!Keys,
         Switches!Mid_KeyHandler(key)
  PROVE  /\ key \in seen' /\ seen \subseteq seen' /\ held' \in Nat
         /\ (key # 0 /\ ~mixed' => ~mixed /\ seen' = {key}) /\ (~mixed' => seen' = {key})
         /\ (key = 1 => /\ held' >= held /\ held' <= held + 1
                        /\ (held' = held + 1 \/ held' = UINT16) /\ (held = UINT16 => held' = UINT16)
                        /\ clean' = clean /\ erased' = erased)
         /\ (key # 1 => held' = 0 /\ erased' = 0 /\ (clean' <=> key = 0))
<1>1. Switches!Observe(key)
  BY Zenon DEF Switches!Mid_KeyHandler
<1>2. /\ seen' = seen \union {key} /\ mixed' = (seen' # {key} \/ (mixed /\ key # 0))
      /\ held' = IF key = 1 THEN Switches!AtMost(held + 1, UINT16) ELSE 0
      /\ clean' = IF key = 1 THEN clean ELSE key = 0
      /\ erased' = IF key = 1 THEN erased ELSE 0
  BY <1>1, Zenon DEF Switches!Observe, Switches!KEY_SWITCH_1
<1>3. key = 1 => /\ held' >= held /\ held' <= held + 1
                 /\ (held' = held + 1 \/ held' = UINT16) /\ (held = UINT16 => held' = UINT16)
  BY <1>2, KeyTypes DEF Switches!AtMost
<1>4. held' \in Nat
  BY <1>2, KeyTypes DEF Switches!AtMost
<1> QED BY <1>2, <1>3, <1>4, Zenon

(* A scan that sees no key: what there was to the hold is over. *)
LEMMA NoKeyKeepsInv ==
  ASSUME Switches!KeyAssumption, Switches!TypeOK, HoldInv, Switches!Mid_KeyHandler(0) PROVE HoldInv'
<1>1. /\ Switches!NoKey /\ 0 \in Switches!Keys
  BY DEF Switches!Mid_KeyHandler, Switches!Keys
<1>2. /\ 0 \in seen' /\ seen \subseteq seen' /\ (~mixed' => seen' = {0})
      /\ held' = 0 /\ erased' = 0
  BY <1>1, Scanned
<1>3. /\ g_ubKeyBufferIndex' = 0 \/ g_ubKeyBufferIndex' = 1
      /\ g_uwKeyContinousCount' = 0
      /\ g_aulKeyBuffer' = g_aulKeyBuffer /\ KEY_1CLICK_FLAG' = KEY_1CLICK_FLAG
      /\ KEY_3SEC_CLICK_FLAG' = KEY_3SEC_CLICK_FLAG
  BY <1>1, Zenon DEF Switches!NoKey
<1>4. Passing'
  BY <1>2, <1>3 DEF HoldInv, Passing
<1>5. ~mixed' => ~KEY_1CLICK_FLAG' /\ ~KEY_3SEC_CLICK_FLAG'
  BY <1>2, <1>4 DEF Passing
<1>6. Counting' /\ Coming' /\ ~(erased' > 0) /\ g_uwKeyContinousCount' < KEY_1CLICK_COUNT
  BY <1>2, <1>3, KeyTypes DEF Counting, Coming
<1> QED BY <1>4, <1>5, <1>6, Zenon DEF HoldInv, Flagged, Once, Awaited, Clicks

LEMMA DebounceKeepsInv ==
  ASSUME Switches!KeyAssumption, Switches!TypeOK, HoldInv, NEW key \in Switches!Keys, key # 0,
         Switches!Mid_KeyHandler(key), Switches!Debounce(key)
  PROVE  HoldInv'
<1>1. /\ key \in seen' /\ seen \subseteq seen' /\ held' \in Nat
      /\ (~mixed' => ~mixed /\ seen' = {key})
      /\ (key = 1 => /\ held' >= held /\ held' <= held + 1
                     /\ (held = UINT16 => held' = UINT16) /\ clean' = clean /\ erased' = erased)
      /\ (key # 1 => held' = 0 /\ erased' = 0 /\ ~clean')
  BY Scanned
<1>2. /\ g_ubKeyBufferIndex < 2 /\ g_ulKeyInValue' = key
      /\ \/ /\ g_ubKeyBufferIndex = 0 \/ g_aulKeyBuffer[g_ubKeyBufferIndex - 1] = key
            /\ g_aulKeyBuffer' = [g_aulKeyBuffer EXCEPT ![g_ubKeyBufferIndex] = key]
            /\ g_ubKeyBufferIndex' = g_ubKeyBufferIndex + 1
         \/ /\ g_ubKeyBufferIndex # 0 /\ g_aulKeyBuffer[g_ubKeyBufferIndex - 1] # key
            /\ g_ubKeyBufferIndex' = 0
      /\ g_ubKeyOffCount' = g_ubKeyOffCount /\ g_uwKeyContinousCount' = g_uwKeyContinousCount
      /\ KEY_1CLICK_FLAG' = KEY_1CLICK_FLAG /\ KEY_3SEC_CLICK_FLAG' = KEY_3SEC_CLICK_FLAG
  BY Zenon DEF Switches!Debounce, Switches!KEY_ON_DEBOUNCE, Switches!keyFlags
<1>3. Passing'
  BY <1>1, <1>2 DEF HoldInv, Passing
<1>4. g_uwKeyContinousCount = 0
  BY <1>2 DEF HoldInv, Counting
<1>5. Counting' /\ g_uwKeyContinousCount' < KEY_1CLICK_COUNT
  BY <1>1, <1>2, <1>4, KeyTypes DEF Counting
<1>6. OnKey /\ key = 1 => OnKey'
  <2>1. OnKey => held = UINT16
    BY <1>2, KeyTypes DEF OnKey
  <2> QED BY <1>1, <2>1, Zenon DEF OnKey
<1>7. Flagged'
  <2> SUFFICES ASSUME KEY_3SEC_CLICK_FLAG, ~mixed'
               PROVE  /\ seen' = {key}
                      /\ key = 1 => held' >= KEY_3SEC_COUNT /\ OnKey'
    BY <1>2, Zenon DEF Flagged
  <2>1. ~mixed /\ seen' = {key}
    BY <1>1
  <2>2. Flagged
    BY DEF HoldInv
  <2>3. seen = {g_ulKeyInValue}
    BY <2>1, <2>2 DEF Flagged
  <2>4. g_ulKeyInValue = key
    BY <1>1, <2>1, <2>3
  <2>5. key = 1 => held >= KEY_3SEC_COUNT /\ OnKey
    BY <2>1, <2>2, <2>4, Zenon DEF Flagged
  <2>6. key = 1 => held' >= KEY_3SEC_COUNT
    <3>1. held \in Nat /\ held' \in Nat /\ KEY_3SEC_COUNT \in Nat
      BY <1>1, KeyTypes
    <3> QED BY <1>1, <2>5, <3>1
  <2> QED BY <1>6, <2>1, <2>5, <2>6, Zenon
<1>8. Once'
  <2> SUFFICES ASSUME erased' > 0, ~mixed'
               PROVE  OnKey' /\ (held' = UINT16 \/ (erased' = 1 /\ ~KEY_3SEC_CLICK_FLAG))
    BY <1>2, Zenon DEF Once
  <2>1. key = 1 /\ erased' = erased /\ ~mixed
    BY <1>1
  <2>2. OnKey /\ (held = UINT16 \/ (erased = 1 /\ ~KEY_3SEC_CLICK_FLAG))
    BY <2>1, Zenon DEF HoldInv, Once
  <2> QED BY <1>1, <1>6, <2>1, <2>2, Zenon
<1>9. Awaited'
  <2> SUFFICES ASSUME clean', ~mixed'
               PROVE  \/ erased' > 0 \/ (KEY_3SEC_CLICK_FLAG /\ key = 1)
                      \/ Coming' /\ Clicks'
    BY <1>2, Zenon DEF Awaited
  <2>1. key = 1 /\ clean /\ ~mixed /\ erased' = erased
    BY <1>1, Zenon
  <2>2. erased > 0 \/ KEY_3SEC_CLICK_FLAG \/ (Coming /\ Clicks)
    BY <2>1, Zenon DEF HoldInv, Awaited
  <2>3. Clicks => Clicks'
    BY <1>2, Zenon DEF Clicks
  <2>4. Coming => Coming'
    <3> SUFFICES ASSUME Coming PROVE Coming'
      OBVIOUS
    <3>1. held' <= held + 1 /\ held' \in Nat /\ held \in Nat
      BY <1>1, <2>1, KeyTypes
    <3>2. g_aulKeyBuffer \in [0 .. 2 -> Switches!Keys] /\ KEY_3SEC_COUNT \in Nat \ {0}
      BY KeyTypes
    <3>3. CASE g_ubKeyBufferIndex = 0 /\ held <= 1
      <4>1. g_ubKeyBufferIndex' = 1 /\ g_aulKeyBuffer'[0] = 1 /\ held' <= 2
        BY <1>2, <2>1, <3>1, <3>2, <3>3
      <4> QED BY <4>1, Zenon DEF Coming
    <3>4. CASE g_ubKeyBufferIndex = 1 /\ held <= 2 /\ (held = 0 \/ g_aulKeyBuffer[0] = 1)
      <4>1. \/ g_ubKeyBufferIndex' = 2 /\ g_aulKeyBuffer'[1] = 1
            \/ g_ubKeyBufferIndex' = 0 /\ g_aulKeyBuffer[0] # 1
        BY <1>2, <2>1, <3>2, <3>4
      <4>2. held' <= g_uwKeyContinousCount' + 3 /\ g_uwKeyContinousCount' < KEY_3SEC_COUNT
        BY <1>2, <1>4, <3>1, <3>2, <3>4
      <4>3. held = 0 => held' <= 1
        BY <3>1
      <4> QED BY <3>4, <4>1, <4>2, <4>3, Zenon DEF Coming
    <3>5. CASE g_ubKeyBufferIndex = 2
      BY <1>2, <3>5
    <3> QED BY <3>3, <3>4, <3>5, Zenon DEF Coming
  <2> QED BY <2>1, <2>2, <2>3, <2>4, Zenon
<1> QED BY <1>3, <1>5, <1>7, <1>8, <1>9, Zenon DEF HoldInv

(* A scan that counts.  A key that is held sets the flag after three       *)
(* seconds, and again only when the counter has wrapped around.            *)
LEMMA CountKeepsInv ==
  ASSUME Switches!KeyAssumption, Switches!TypeOK, HoldInv, NEW key \in Switches!Keys, key # 0,
         Switches!Mid_KeyHandler(key), Switches!Count(key)
  PROVE  HoldInv'
<1> DEFINE same == g_aulKeyBuffer[1] = key
           click == /\ g_uwKeyContinousCount' = KEY_1CLICK_COUNT
                    /\ g_ubKeyOffCount = Switches!KEY_OFF_DEBOUCE /\ ~KEY_1CLICK_FLAG
           reaches == g_uwKeyContinousCount' = KEY_3SEC_COUNT /\ g_ubKeyOffCount = 0
<1>1. /\ key \in seen' /\ seen \subseteq seen' /\ held' \in Nat
      /\ (~mixed' => ~mixed /\ seen' = {key})
      /\ (key = 1 => /\ held' >= held /\ held' <= held + 1
                     /\ (held' = held + 1 \/ held' = UINT16)
                     /\ (held = UINT16 => held' = UINT16) /\ clean' = clean /\ erased' = erased)
      /\ (key # 1 => held' = 0 /\ erased' = 0 /\ ~clean')
  BY Scanned
<1>2. /\ g_ubKeyBufferIndex >= 2 /\ g_ulKeyInValue' = key
      /\ g_uwKeyContinousCount' = Switches!CountOf(key)
      /\ (KEY_1CLICK_FLAG' <=> KEY_1CLICK_FLAG \/ click)
      /\ g_ubKeyOffCount' = (IF click THEN 0 ELSE g_ubKeyOffCount)
      /\ (KEY_3SEC_CLICK_FLAG' <=> KEY_3SEC_CLICK_FLAG \/ reaches)
      /\ g_aulKeyBuffer' = g_aulKeyBuffer
  BY Zenon DEF Switches!Count, Switches!Reaches, Switches!KEY_ON_DEBOUNCE
<1>3. /\ g_ubKeyBufferIndex = 2
      /\ Switches!CountOf(key) = IF same THEN (g_uwKeyContinousCount + 1) % UINT16 ELSE 0
  <2>1. g_ubKeyBufferIndex = 2 /\ g_ubKeyBufferIndex - 1 = 1
    BY <1>2, KeyTypes
  <2> QED BY <2>1, Zenon DEF Switches!CountOf
<1>4. same => /\ g_ubKeyBufferIndex' = 2
              /\ \/ g_uwKeyContinousCount' = g_uwKeyContinousCount + 1
                 \/ g_uwKeyContinousCount' = 0 /\ g_uwKeyContinousCount + 1 = UINT16
  <2> SUFFICES ASSUME same
               PROVE  /\ g_ubKeyBufferIndex' = 2
                      /\ \/ g_uwKeyContinousCount' = g_uwKeyContinousCount + 1
                         \/ g_uwKeyContinousCount' = 0 /\ g_uwKeyContinousCount + 1 = UINT16
    OBVIOUS
  <2>1. 0 # KEY_SHORTERROR_COUNT
    BY DEF Switches!KeyAssumption
  <2>2. g_ubKeyBufferIndex - 1 = 1
    BY <1>3
  <2>3. g_ubKeyBufferIndex' = g_ubKeyBufferIndex
    BY <2>1, <2>2, Zenon DEF Switches!Count
  <2>4. g_uwKeyContinousCount' = (g_uwKeyContinousCount + 1) % UINT16
    BY <1>2, <1>3
  <2> QED BY <1>3, <2>3, <2>4, KeyTypes
<1>5. ~same => g_uwKeyContinousCount' = 0
  BY <1>2, <1>3
<1>6. Passing'
  BY <1>1 DEF Passing
<1>7. Counting'
  <2>1. g_aulKeyBuffer[1] = 1 => held >= g_uwKeyContinousCount
    BY DEF HoldInv, Counting
  <2>2. g_ubKeyBufferIndex' < 2 => g_uwKeyContinousCount' = 0
    BY <1>4, <1>5
  <2>3. g_aulKeyBuffer'[1] = 1 => held' >= g_uwKeyContinousCount'
    <3>1. CASE key = 1 /\ same
      BY <1>1, <1>2, <1>4, <2>1, <3>1, KeyTypes
    <3>2. CASE key # 1 /\ same
      BY <1>2, <3>2
    <3>3. CASE ~same
      BY <1>1, <1>5, <3>3
    <3> QED BY <3>1, <3>2, <3>3
  <2> QED BY <2>2, <2>3 DEF Counting
(* Once past three seconds, the counter is there until it wraps around.   *)
<1>8. key = 1 /\ same /\ g_uwKeyContinousCount' >= KEY_3SEC_COUNT => OnKey'
  BY <1>2, <1>4 DEF OnKey
<1>9. OnKey /\ key = 1 => OnKey' /\ (held' = UINT16 \/ ~reaches)
  <2> SUFFICES ASSUME OnKey, key = 1 PROVE OnKey' /\ (held' = UINT16 \/ ~reaches)
    OBVIOUS
  <2>1. CASE held = UINT16
    BY <1>1, <2>1, Zenon DEF OnKey
  <2>2. CASE same /\ g_uwKeyContinousCount >= KEY_3SEC_COUNT
    <3>1. held >= g_uwKeyContinousCount
      BY <2>2 DEF HoldInv, Counting
    <3>2. \/ held' = UINT16
          \/ /\ g_uwKeyContinousCount' >= KEY_3SEC_COUNT
             /\ g_uwKeyContinousCount' # KEY_3SEC_COUNT
      BY <1>1, <1>4, <2>2, <3>1, KeyTypes
    <3>3. held' = UINT16 => OnKey'
      BY Zenon DEF OnKey
    <3> QED BY <1>8, <2>2, <3>2, <3>3, Zenon
  <2> QED BY <2>1, <2>2, Zenon DEF OnKey
<1>10. Flagged'
  <2> SUFFICES ASSUME KEY_3SEC_CLICK_FLAG', ~mixed'
               PROVE  /\ seen' = {key}
                      /\ key = 1 => held' >= KEY_3SEC_COUNT /\ OnKey'
    BY <1>2, Zenon DEF Flagged
  <2>1. ~mixed /\ seen' = {key}
    BY <1>1
  <2>2. ASSUME KEY_3SEC_CLICK_FLAG, key = 1 PROVE held' >= KEY_3SEC_COUNT /\ OnKey'
    <3>1. Flagged
      BY DEF HoldInv
    <3>2. seen = {g_ulKeyInValue}
      BY <2>1, <2>2, <3>1, Zenon DEF Flagged
    <3>3. g_ulKeyInValue = 1
      BY <1>1, <2>1, <2>2, <3>2
    <3>4. held >= KEY_3SEC_COUNT /\ OnKey
      BY <2>1, <2>2, <3>1, <3>3, Zenon DEF Flagged
    <3>5. held' >= KEY_3SEC_COUNT
      BY <1>1, <2>2, <3>4, KeyTypes
    <3> QED BY <1>9, <2>2, <3>4, <3>5, Zenon
  <2>3. ASSUME reaches, key = 1 PROVE held' >= KEY_3SEC_COUNT /\ OnKey'
    <3>1. g_uwKeyContinousCount' = KEY_3SEC_COUNT /\ KEY_3SEC_COUNT \in Nat \ {0}
      BY <2>3, KeyTypes
    <3>2. same
      BY <1>5, <3>1
    <3>3. held' >= KEY_3SEC_COUNT
      BY <1>2, <1>7, <2>3, <3>1, <3>2 DEF Counting
    <3> QED BY <1>8, <2>3, <3>1, <3>2, <3>3
  <2> QED BY <1>2, <2>1, <2>2, <2>3, Zenon
<1>11. Once'
  <2> SUFFICES ASSUME erased' > 0, ~mixed'
               PROVE  OnKey' /\ (held' = UINT16 \/ (erased' = 1 /\ ~KEY_3SEC_CLICK_FLAG'))
    BY Zenon DEF Once
  <2>1. key = 1 /\ erased' = erased /\ ~mixed
    BY <1>1
  <2>2. OnKey /\ (held = UINT16 \/ (erased = 1 /\ ~KEY_3SEC_CLICK_FLAG))
    BY <2>1, Zenon DEF HoldInv, Once
  <2> QED BY <1>1, <1>2, <1>9, <2>1, <2>2, Zenon
<1>12. Awaited'
  <2> SUFFICES ASSUME clean', ~mixed'
               PROVE  \/ erased' > 0 \/ (KEY_3SEC_CLICK_FLAG' /\ key = 1)
                      \/ Coming' /\ Clicks'
    BY <1>2, Zenon DEF Awaited
  <2>1. key = 1 /\ clean /\ ~mixed /\ erased' = erased
    BY <1>1, Zenon
  <2>2. erased > 0 \/ KEY_3SEC_CLICK_FLAG \/ (Coming /\ Clicks)
    BY <2>1, Zenon DEF HoldInv, Awaited
  <2>3. ASSUME Coming, Clicks PROVE KEY_3SEC_CLICK_FLAG' \/ (Coming' /\ Clicks')
    <3>1. /\ same /\ held <= g_uwKeyContinousCount + 3 /\ g_uwKeyContinousCount < KEY_3SEC_COUNT
      BY <1>3, <2>1, <2>3 DEF Coming
    <3> DEFINE n == g_uwKeyContinousCount'
    <3>2. /\ n = g_uwKeyContinousCount + 1 /\ g_ubKeyBufferIndex' = 2 /\ n <= KEY_3SEC_COUNT
          /\ held' <= n + 3 /\ n \in Nat
      BY <1>1, <1>4, <2>1, <3>1, KeyTypes
    <3>3. n < KEY_3SEC_COUNT => Coming'
      BY <1>2, <2>1, <3>1, <3>2 DEF Coming
    <3>4. g_ubKeyOffCount' = 0 \/ (n < KEY_1CLICK_COUNT /\ ~KEY_1CLICK_FLAG')
      <4>1. CASE g_ubKeyOffCount = 0
        BY <1>2, <4>1, Zenon
      <4>2. CASE g_ubKeyOffCount # 0 /\ g_uwKeyContinousCount < KEY_1CLICK_COUNT /\ ~KEY_1CLICK_FLAG
        <5>1. g_ubKeyOffCount = Switches!KEY_OFF_DEBOUCE
          BY <4>2, KeyTypes DEF Switches!KEY_OFF_DEBOUCE
        <5>2. n < KEY_1CLICK_COUNT \/ n = KEY_1CLICK_COUNT
          BY <3>2, <4>2, KeyTypes
        <5>3. n < KEY_1CLICK_COUNT => n # KEY_1CLICK_COUNT
          BY <3>2, KeyTypes
        <5> QED BY <1>2, <4>2, <5>1, <5>2, <5>3, Zenon
      <4> QED BY <2>3, <4>1, <4>2, Zenon DEF Clicks
    <3>5. n = KEY_3SEC_COUNT => reaches
      <4>1. n = KEY_3SEC_COUNT => ~(g_uwKeyContinousCount < KEY_1CLICK_COUNT)
        BY <3>2, KeyTypes
      <4> QED BY <2>3, <4>1, Zenon DEF Clicks
    <3>6. n < KEY_3SEC_COUNT \/ n = KEY_3SEC_COUNT
      BY <3>2, KeyTypes
    <3> QED BY <1>2, <3>3, <3>4, <3>5, <3>6, Zenon DEF Clicks
  <2> QED BY <1>2, <2>1, <2>2, <2>3, Zenon
<1> QED BY <1>6, <1>7, <1>10, <1>11, <1>12, Zenon DEF HoldInv

(* App_ControlHandle: the flag that erases is cleared, and by then the     *)
(* counter is past three seconds.                                          *)
LEMMA HandleKeepsInv ==
  ASSUME Switches!KeyAssumption, Switches!TypeOK, HoldInv, Switches!App_ControlHandle
  PROVE  Switches!TypeOK' /\ HoldInv' /\ (erased' > erased => held >= KEY_3SEC_COUNT \/ mixed)
<1>1. /\ erased' = (IF Switches!Erases THEN Switches!AtMost(erased + 1, 2) ELSE erased)
      /\ KEY_1CLICK_FLAG' = FALSE /\ KEY_3SEC_CLICK_FLAG' = FALSE
      /\ KEY_RELEASE_CLICK_FLAG' = FALSE /\ seen' = {} /\ g_ulKeyInValue' = g_ulKeyInValue
      /\ UNCHANGED Switches!debouncer /\ ERROR_KEYSHORT_FLAG' = ERROR_KEYSHORT_FLAG
      /\ mixed' = mixed /\ held' = held /\ clean' = clean
  BY Zenon DEF Switches!App_ControlHandle
<1>2. /\ g_ubKeyOffCount' = g_ubKeyOffCount /\ g_aulKeyBuffer' = g_aulKeyBuffer
      /\ g_ubKeyBufferIndex' = g_ubKeyBufferIndex
      /\ g_uwKeyContinousCount' = g_uwKeyContinousCount
      /\ g_uwKeyNotSameCount' = g_uwKeyNotSameCount
  BY <1>1, Zenon DEF Switches!debouncer
<1>3. /\ erased' \in 0 .. 2 /\ erased' >= erased
      /\ Switches!Erases => erased' > 0 /\ (erased = 0 => erased' = 1)
      /\ ~Switches!Erases => erased' = erased
      /\ ~(erased' > erased) => erased' = erased
      /\ erased' > 0 => erased = 0 \/ erased > 0
      /\ ~(erased > 0) => erased = 0
  <2>1. erased \in 0 .. 2
    BY KeyTypes
  <2>2. CASE Switches!Erases
    BY <1>1, <2>1, <2>2 DEF Switches!AtMost
  <2>3. CASE ~Switches!Erases
    BY <1>1, <2>1, <2>3
  <2> QED BY <2>2, <2>3
<1>4. Switches!TypeOK'
  <2>1. ERROR_KEYSHORT_FLAG \in BOOLEAN
    BY DEF Switches!TypeOK, Switches!keyFlags
  <2>2. Switches!keyFlags' \in BOOLEAN \X BOOLEAN \X BOOLEAN \X BOOLEAN
    BY <1>1, <2>1 DEF Switches!keyFlags
  <2>3. seen' \subseteq Switches!Keys
    BY <1>1
  <2> QED BY <1>1, <1>2, <1>3, <2>2, <2>3, Zenon DEF Switches!TypeOK
<1>5. Switches!Erases /\ ~mixed => held >= KEY_3SEC_COUNT /\ OnKey
  BY Zenon DEF Switches!Erases, Switches!KEY_SWITCH_1, HoldInv, Flagged
<1>6. OnKey => OnKey'
  BY <1>1, <1>2, Zenon DEF OnKey
<1>7. Once'
  <2> SUFFICES ASSUME erased' > 0, ~mixed PROVE OnKey /\ (held = UINT16 \/ erased' = 1)
    BY <1>1, <1>6, Zenon DEF Once
  <2>1. CASE erased = 0
    <3>1. Switches!Erases
      BY <1>3, <2>1
    <3> QED BY <1>3, <1>5, <2>1, <3>1, Zenon
  <2>2. CASE erased > 0
    <3>1. OnKey /\ (held = UINT16 \/ (erased = 1 /\ ~KEY_3SEC_CLICK_FLAG))
      BY <2>2, Zenon DEF HoldInv, Once
    <3>2. ~KEY_3SEC_CLICK_FLAG => ~Switches!Erases
      BY Zenon DEF Switches!Erases
    <3> QED BY <1>3, <3>1, <3>2, Zenon
  <2> QED BY <1>3, <2>1, <2>2, Zenon
<1>8. Awaited'
  <2> SUFFICES ASSUME clean, ~mixed PROVE erased' > 0 \/ (Coming' /\ Clicks')
    BY <1>1, Zenon DEF Awaited
  <2>1. CASE erased > 0
    BY <1>3, <2>1, KeyTypes
  <2>2. CASE KEY_3SEC_CLICK_FLAG /\ g_ulKeyInValue = 1
    BY <1>3, <2>2, Zenon DEF Switches!Erases, Switches!KEY_SWITCH_1
  <2>3. CASE Coming /\ Clicks
    BY <1>1, <1>2, <2>3, Zenon DEF Coming, Clicks
  <2> QED BY <2>1, <2>2, <2>3, Zenon DEF HoldInv, Awaited
<1>9. Passing' /\ Flagged'
  BY <1>1, Zenon DEF Passing, Flagged
<1>10. Counting'
  BY <1>1, <1>2, Zenon DEF HoldInv, Counting
<1>11. erased' > erased => held >= KEY_3SEC_COUNT \/ mixed
  <2>1. erased' > erased => Switches!Erases
    BY <1>3, KeyTypes
  <2> QED BY <1>5, <2>1, Zenon
<1> QED BY <1>4, <1>7, <1>8, <1>9, <1>10, <1>11, Zenon DEF HoldInv

(* A hold of key 1 for three seconds erases everything, nothing less does, *)
(* and it does so once, however scans and passes of the main loop follow   *)
(* each other and whatever the counts are.                                 *)
LEMMA KeysErase ==
  Switches!KeyAssumption => (Switches!Spec => Switches!HoldErasesOnce /\ []Switches!TypeOK)
<1> SUFFICES ASSUME Switches!KeyAssumption
             PROVE  Switches!Spec => Switches!HoldErasesOnce /\ []Switches!TypeOK
  OBVIOUS
<1> DEFINE Inv == Switches!TypeOK /\ HoldInv
           erasesLate == erased' > erased => held >= KEY_3SEC_COUNT \/ mixed
<1>1. Switches!Init => Inv
  BY KeysInit
<1>2. ASSUME Inv, Switches!Next PROVE Inv' /\ erasesLate
  <2>1. CASE Switches!App_ControlHandle
    BY <1>2, <2>1, HandleKeepsInv
  <2>2. ASSUME NEW key \in Switches!Keys, Switches!Mid_KeyHandler(key) PROVE Inv' /\ erasesLate
    <3>1. Switches!TypeOK'
      BY <1>2, <2>2, ScanTypes
    <3>2. HoldInv'
      BY <1>2, <2>2, NoKeyKeepsInv, DebounceKeepsInv, CountKeepsInv, Zenon
         DEF Switches!Mid_KeyHandler
    <3>3. ~(erased' > erased)
      <4>1. erased' = erased \/ erased' = 0
        BY <1>2, <2>2, Scanned
      <4> QED BY <1>2, <4>1, KeyTypes
    <3> QED BY <3>1, <3>2, <3>3, Zenon
  <2> QED BY <1>2, <2>1, <2>2, Zenon DEF Switches!Next
<1>3. ASSUME Inv, UNCHANGED Switches!vars PROVE Inv'
  <2>1. /\ UNCHANGED Switches!debouncer /\ UNCHANGED Switches!keyFlags /\ UNCHANGED Switches!history
        /\ g_ulKeyInValue' = g_ulKeyInValue
    BY <1>3, Zenon DEF Switches!vars
  <2>2. Switches!TypeOK'
    BY <1>3, <2>1, Zenon DEF Switches!debouncer, Switches!history, Switches!TypeOK
  <2>3. HoldInv'
    BY <1>3, <2>1, Zenon
       DEF Switches!debouncer, Switches!keyFlags, Switches!history, HoldInv, Passing, Counting,
           Flagged, Once, Awaited, OnKey, Coming, Clicks
  <2> QED BY <2>2, <2>3
<1>4. Inv => Switches!OneErasePerHold /\ Switches!HoldErases
  <2> SUFFICES ASSUME Inv PROVE Switches!OneErasePerHold /\ Switches!HoldErases
    OBVIOUS
  <2>1. Switches!OneErasePerHold
    <3>1. erased > 1 => erased > 0 /\ erased # 1
      BY KeyTypes
    <3> QED BY <3>1, Zenon DEF HoldInv, Once, Switches!OneErasePerHold
  <2>2. Switches!HoldErases
    <3> SUFFICES ASSUME seen = {}, clean, held >= KEY_3SEC_COUNT + 2 + 1, ~mixed
                 PROVE  erased > 0
      BY Zenon DEF Switches!HoldErases, Switches!KEY_ON_DEBOUNCE
    <3>1. ~KEY_3SEC_CLICK_FLAG
      BY DEF HoldInv, Passing
    <3>2. ~Coming
      BY KeyTypes DEF Coming
    <3> QED BY <3>1, <3>2, Zenon DEF HoldInv, Awaited
  <2> QED BY <2>1, <2>2
<1>5. Inv /\ [Switches!Next]_Switches!vars => Inv' /\ [erasesLate]_Switches!vars
  BY <1>2, <1>3, Zenon
<1>6. [][erasesLate]_Switches!vars => Switches!EraseNeedsHold
  BY PTL DEF Switches!EraseNeedsHold
<1> QED BY <1>1, <1>4, <1>5, <1>6, PTL DEF Switches!Spec, Switches!HoldErasesOnce

(* Key 1 held alone for three seconds erases everything, nothing less does, *)
(* and one hold erases once until its 16-bit counter wraps around,         *)
(* whichever other keys are pressed and bounce before and after.           *)
THEOREM HoldsErase == PartSpec => HoldErasesOnce
<1>1. Switches!Spec => Switches!HoldErasesOnce /\ []Switches!TypeOK
  BY PartsAssumption, KeysErase
<1>2. PartSpec => Switches!Spec
  <2>1. PartInit => Switches!Init
    BY Zenon DEF PartInit
  <2>2. [PartNext]_<<part, vars, keys, leds>> => [Switches!Next]_Switches!vars
    <3>1. UNCHANGED keys => UNCHANGED Switches!vars
      BY Zenon DEF keys, Switches!vars, Switches!debouncer, Switches!keyFlags, Switches!history
    <3> QED BY <3>1, Zenon DEF PartNext
  <2> QED BY <2>1, <2>2, PTL DEF PartSpec, Switches!Spec
<1> QED BY <1>1, <1>2, PTL DEF HoldErasesOnce

-----------------------------------------------------------------------------
(* The LEDs: the record that is changed, and what a tick does to it. *)

Colours == {"red", "green", "blue"}
LedFlags == {"CONTROL", "START_ON", "START_OFF"}
LedStates == {"NONE", "ON", "OFF", "DELAY"}
LedCounts == 0 .. 4
ColourSets == SUBSET Colours
FlagSets == SUBSET LedFlags
LedState ==
  [type : 0 .. 4, state : LedStates, time : 0 .. 4, times : 0 .. 4,
   flags : SUBSET LedFlags, lit : SUBSET Colours]

LEMMA LedTable ==
  ASSUME NEW t \in 0 .. 4
  PROVE  LET data == Lamps!g_aubLedData[t]
         IN  /\ data.colour \subseteq Colours /\ data.on \in 0 .. 5 /\ data.off \in 0 .. 5
             /\ data.repeats \in 0 .. 5 /\ data.delay = 0 /\ (t > 0 => data.repeats > 0)
<1>1. t = 0 \/ t = 1 \/ t = 2 \/ t = 3 \/ t = 4
  OBVIOUS
<1> QED BY <1>1, SMT DEF Lamps!g_aubLedData, Colours

LEMMA LedFields ==
  ASSUME NEW s \in LedState
  PROVE  /\ s.type \in 0 .. 4 /\ s.state \in LedStates /\ s.time \in 0 .. 4 /\ s.times \in 0 .. 4
         /\ s.flags \subseteq LedFlags /\ s.lit \subseteq Colours
BY SMT DEF LedState

(* A store into one of its fields. *)
LEMMA LedStores ==
  ASSUME NEW s \in LedState
  PROVE  /\ \A x \in 0 .. 4 : [s EXCEPT !.type = x] \in LedState
         /\ \A x \in LedStates : [s EXCEPT !.state = x] \in LedState
         /\ \A x \in 0 .. 4 : [s EXCEPT !.time = x] \in LedState
         /\ \A x \in 0 .. 4 : [s EXCEPT !.times = x] \in LedState
         /\ \A x \in SUBSET LedFlags : [s EXCEPT !.flags = x] \in LedState
         /\ \A x \in SUBSET Colours : [s EXCEPT !.lit = x] \in LedState
<1>1. \A x \in 0 .. 4 : [s EXCEPT !.type = x] \in LedState
  BY SMT DEF LedState
<1>2. \A x \in LedStates : [s EXCEPT !.state = x] \in LedState
  BY SMT DEF LedState
<1>3. \A x \in 0 .. 4 : [s EXCEPT !.time = x] \in LedState
  BY SMT DEF LedState
<1>4. \A x \in 0 .. 4 : [s EXCEPT !.times = x] \in LedState
  BY SMT DEF LedState
<1>5. \A x \in SUBSET LedFlags : [s EXCEPT !.flags = x] \in LedState
  BY SMT DEF LedState
<1>6. \A x \in SUBSET Colours : [s EXCEPT !.lit = x] \in LedState
  BY SMT DEF LedState
<1> QED BY <1>1, <1>2, <1>3, <1>4, <1>5, <1>6, Zenon

(* The stores of a part of the handler. *)
Stored(s, lit, time, state, flags) ==
  [s EXCEPT !.lit = lit, !.time = time, !.state = state, !.flags = flags]

IsStored(r, s, state, flags) ==
  /\ r \in LedState /\ r.type = s.type /\ r.times = s.times
  /\ r.state = state /\ r.flags = flags

LEMMA PartStores ==
  ASSUME NEW s \in LedState, NEW lit \in ColourSets, NEW time \in LedCounts,
         NEW state \in LedStates, NEW flags \in FlagSets
  PROVE  IsStored(Stored(s, lit, time, state, flags), s, state, flags)
<1> USE DEF ColourSets, FlagSets, LedCounts
<1> DEFINE r1 == [s EXCEPT !.lit = lit]
           r2 == [r1 EXCEPT !.time = time]
           r3 == [r2 EXCEPT !.state = state]
           r4 == [r3 EXCEPT !.flags = flags]
<1>1. r1 \in LedState
  BY LedStores
<1>2. r2 \in LedState
  <2> HIDE DEF r1
  <2> QED BY <1>1, LedStores
<1>3. r3 \in LedState
  <2> HIDE DEF r2
  <2> QED BY <1>2, LedStores
<1>4. r4 \in LedState
  <2> HIDE DEF r3
  <2> QED BY <1>3, LedStores
<1>5. r4 = Stored(s, lit, time, state, flags)
  BY Zenon DEF Stored
<1>6. LET r == Stored(s, lit, time, state, flags)
      IN  r.type = s.type /\ r.times = s.times /\ r.state = state /\ r.flags = flags
  BY SMT DEF LedState, Stored
<1> HIDE DEF r4
<1> QED BY <1>4, <1>5, <1>6, Zenon DEF IsStored

LEMMA OnEffect ==
  ASSUME NEW s \in LedState
  PROVE  LET r == Lamps!OnPart(s)
         IN  /\ r \in LedState /\ r.type = s.type /\ r.times = s.times
             /\ ("CONTROL" \in r.flags <=> "CONTROL" \in s.flags)
             /\ r.state = "ON" => "START_ON" \notin r.flags
             /\ r.state = "ON" => s.state = "ON"
<1>1. CASE s.state # "ON"
  BY <1>1, Zenon DEF Lamps!OnPart
<1>2. CASE s.state = "ON"
  <2> DEFINE data == Lamps!g_aubLedData[s.type]
             over == s.time + 1 >= data.on
             time == IF over THEN 0 ELSE s.time + 1
             state == IF over THEN "OFF" ELSE s.state
             flags == (s.flags \ {"START_ON"}) \union (IF over THEN {"START_OFF"} ELSE {})
             lit == IF "START_ON" \in s.flags THEN s.lit \union data.colour ELSE s.lit
  <2>1. data.colour \subseteq Colours /\ data.on \in 0 .. 5
    BY LedFields, LedTable, SMT
  <2>2. Lamps!OnPart(s) = Stored(s, lit, time, state, flags)
    BY <1>2, Zenon DEF Lamps!OnPart, Stored
  <2> HIDE DEF data
  <2>3. /\ time \in 0 .. 4 /\ state \in LedStates /\ flags \in SUBSET LedFlags
        /\ lit \in SUBSET Colours /\ "START_ON" \notin flags
        /\ ("CONTROL" \in flags <=> "CONTROL" \in s.flags)
    BY <2>1, LedFields, SMT DEF LedFlags, LedStates
  <2> HIDE DEF time, state, flags, lit
  <2> DEFINE r == Stored(s, lit, time, state, flags)
  <2>4. /\ time \in LedCounts /\ state \in LedStates /\ flags \in FlagSets
        /\ lit \in ColourSets
    BY <2>3 DEF ColourSets, FlagSets, LedCounts
  <2>5. IsStored(r, s, state, flags)
    BY <2>4, PartStores, Zenon
  <2> HIDE DEF r
  <2>6. /\ r \in LedState /\ r.type = s.type /\ r.times = s.times
        /\ ("CONTROL" \in r.flags <=> "CONTROL" \in s.flags)
        /\ "START_ON" \notin r.flags
    BY <2>3, <2>5, Zenon DEF IsStored
  <2> QED BY <1>2, <2>2, <2>3, <2>6, Zenon DEF r
<1> QED BY <1>1, <1>2

LEMMA OffEffect ==
  ASSUME NEW s \in LedState
  PROVE  LET r == Lamps!OffPart(s)
         IN  /\ r \in LedState /\ r.type = s.type /\ r.times = s.times
             /\ ("CONTROL" \in r.flags <=> "CONTROL" \in s.flags)
             /\ r.state = "ON" => s.state = "ON" /\ r = s
<1>1. CASE s.state # "OFF"
  BY <1>1, Zenon DEF Lamps!OffPart
<1>2. CASE s.state = "OFF"
  <2> DEFINE data == Lamps!g_aubLedData[s.type]
             over == s.time + 1 >= data.off
             time == IF over THEN 0 ELSE s.time + 1
             state == IF over THEN "DELAY" ELSE s.state
             flags == s.flags \ {"START_OFF"}
             lit == IF "START_OFF" \in s.flags THEN s.lit \ data.colour ELSE s.lit
  <2>1. data.off \in 0 .. 5
    BY LedFields, LedTable, SMT
  <2>2. Lamps!OffPart(s) = Stored(s, lit, time, state, flags)
    BY <1>2, Zenon DEF Lamps!OffPart, Stored
  <2> HIDE DEF data
  <2>3. /\ time \in 0 .. 4 /\ state \in LedStates \ {"ON"} /\ flags \in SUBSET LedFlags
        /\ lit \in SUBSET Colours
        /\ ("CONTROL" \in flags <=> "CONTROL" \in s.flags)
    BY <1>2, <2>1, LedFields, SMT DEF LedFlags, LedStates
  <2> HIDE DEF time, state, flags, lit
  <2> DEFINE r == Stored(s, lit, time, state, flags)
  <2>4. /\ time \in LedCounts /\ state \in LedStates /\ flags \in FlagSets
        /\ lit \in ColourSets
    BY <2>3 DEF LedStates, ColourSets, FlagSets, LedCounts
  <2>5. IsStored(r, s, state, flags)
    BY <2>4, PartStores, Zenon
  <2> HIDE DEF r
  <2>6. /\ r \in LedState /\ r.type = s.type /\ r.times = s.times
        /\ ("CONTROL" \in r.flags <=> "CONTROL" \in s.flags)
        /\ r.state # "ON"
    BY <2>3, <2>5 DEF IsStored
  <2> QED BY <1>2, <2>2, <2>3, <2>6, Zenon DEF r
<1> QED BY <1>1, <1>2

(* A pattern ends with every LED dark and the counts cleared. *)
LEMMA OffStores ==
  ASSUME NEW s \in LedState
  PROVE  LET r == Lamps!SetOff(s)
         IN  r \in LedState /\ r.lit = {} /\ r.time = 0 /\ r.times = 0 /\ r.flags = {}
<1> DEFINE r1 == [s EXCEPT !.type = 0]
           r2 == [r1 EXCEPT !.time = 0]
           r3 == [r2 EXCEPT !.times = 0]
           r4 == [r3 EXCEPT !.flags = {}]
           r5 == [r4 EXCEPT !.lit = {}]
<1>0. 0 \in 0 .. 4 /\ {} \in SUBSET LedFlags /\ {} \in SUBSET Colours
  OBVIOUS
<1>1. r1 \in LedState
  BY <1>0, LedStores, Zenon
<1>2. r2 \in LedState
  <2> HIDE DEF r1
  <2> QED BY <1>0, <1>1, LedStores, Zenon
<1>3. r3 \in LedState
  <2> HIDE DEF r2
  <2> QED BY <1>0, <1>2, LedStores, Zenon
<1>4. r4 \in LedState
  <2> HIDE DEF r3
  <2> QED BY <1>0, <1>3, LedStores, Zenon
<1>5. r5 \in LedState
  <2> HIDE DEF r4
  <2> QED BY <1>0, <1>4, LedStores, Zenon
<1>6. r5 = Lamps!SetOff(s)
  BY Zenon DEF Lamps!SetOff, Lamps!LED_TYPE_OFF
<1>7. LET r == Lamps!SetOff(s) IN r.lit = {} /\ r.time = 0 /\ r.times = 0 /\ r.flags = {}
  BY SMT DEF LedState, Lamps!SetOff
<1> HIDE DEF r5
<1> QED BY <1>5, <1>6, <1>7

LEMMA DelayEffect ==
  ASSUME NEW s \in LedState, "CONTROL" \in s.flags
  PROVE  LET r == Lamps!DelayPart(s)
         IN  /\ r \in LedState
             /\ s.state # "DELAY" => r = s
             /\ s.state = "DELAY" /\ "CONTROL" \in r.flags =>
                  /\ r.type = s.type /\ r.state = "ON" /\ "START_ON" \in r.flags
                  /\ r.times = s.times + 1 /\ r.times + 1 <= Lamps!g_aubLedData[s.type].repeats
             /\ "CONTROL" \notin r.flags =>
                  /\ s.times + 1 >= Lamps!g_aubLedData[s.type].repeats
                  /\ r.lit = {} /\ r.time = 0 /\ r.times = 0
<1> DEFINE data == Lamps!g_aubLedData[s.type]
<1>1. data.repeats \in 0 .. 5 /\ data.delay = 0
  BY LedFields, LedTable, SMT
<1>2. CASE s.state # "DELAY"
  BY <1>2, Zenon DEF Lamps!DelayPart
<1>3. CASE s.state = "DELAY" /\ Lamps!LastTime(s)
  <2>1. Lamps!DelayPart(s) = Lamps!SetOff(s)
    <3>1. ~(s.time + 1 < data.delay)
      BY <1>1, LedFields
    <3> QED BY <1>3, <3>1, Zenon DEF Lamps!DelayPart
  <2>2. s.times + 1 >= data.repeats
    BY <1>3, Zenon DEF Lamps!LastTime
  <2> QED BY <1>3, <2>1, <2>2, OffStores
<1>4. CASE s.state = "DELAY" /\ ~Lamps!LastTime(s)
  <2> DEFINE r1 == [s EXCEPT !.time = 0]
             r2 == [r1 EXCEPT !.times = s.times + 1]
             r3 == [r2 EXCEPT !.state = "ON"]
             r4 == [r3 EXCEPT !.flags = s.flags \union {"START_ON"}]
  <2>1. Lamps!DelayPart(s) =
          [s EXCEPT !.time = 0, !.times = s.times + 1, !.state = "ON",
                    !.flags = s.flags \union {"START_ON"}]
    <3>1. ~(s.time + 1 < data.delay)
      BY <1>1, LedFields
    <3> QED BY <1>4, <3>1, Zenon DEF Lamps!DelayPart
  <2>2. s.times + 1 < data.repeats /\ s.times + 1 \in 0 .. 4
    <3>1. ~(s.times + 1 >= data.repeats)
      BY <1>4, Zenon DEF Lamps!LastTime
    <3> HIDE DEF data
    <3> QED BY <1>1, <3>1, LedFields
  <2>3. r1 \in LedState
    <3>1. 0 \in 0 .. 4
      OBVIOUS
    <3> QED BY <3>1, LedStores, Zenon
  <2>4. r2 \in LedState
    <3> HIDE DEF r1
    <3> QED BY <2>2, <2>3, LedStores
  <2>5. r3 \in LedState
    <3> HIDE DEF r2
    <3> QED BY <2>4, LedStores DEF LedStates
  <2>6. s.flags \union {"START_ON"} \in SUBSET LedFlags
    BY LedFields DEF LedFlags
  <2>7. r4 \in LedState
    <3> HIDE DEF r3
    <3> QED BY <2>5, <2>6, LedStores
  <2>8. r4 = Lamps!DelayPart(s)
    BY <2>1, Zenon
  <2> DEFINE r == Lamps!DelayPart(s)
  <2>9. /\ r.type = s.type /\ r.state = "ON" /\ r.flags = s.flags \union {"START_ON"}
        /\ r.times = s.times + 1
    BY <2>1, SMT DEF LedState
  <2> HIDE DEF r4, data, r
  <2>10. r.times + 1 <= data.repeats
    BY <1>1, <2>2, <2>9
  <2>11. r \in LedState
    BY <2>7, <2>8 DEF r
  <2> QED BY <1>4, <2>9, <2>10, <2>11 DEF r, data
<1> QED BY <1>2, <1>3, <1>4

(* The flashes of a pattern so far, which a tick makes one more by         *)
(* lighting the LED at the beginning of the time that it is on.            *)
Counted(s) == IF s.state = "ON" /\ "START_ON" \in s.flags THEN s.times ELSE s.times + 1

LEMMA TickEffect ==
  ASSUME NEW s \in LedState, "CONTROL" \in s.flags
  PROVE  LET r == Lamps!DelayPart(Lamps!OffPart(Lamps!OnPart(s)))
             repeats == Lamps!g_aubLedData[s.type].repeats
         IN  /\ r \in LedState
             /\ "CONTROL" \in r.flags =>
                  /\ r.type = s.type /\ Counted(r) = s.times + 1
                  /\ s.times + 1 <= repeats => r.times + 1 <= repeats
             /\ "CONTROL" \notin r.flags =>
                  s.times + 1 >= repeats /\ r.lit = {} /\ r.time = 0 /\ r.times = 0
<1> DEFINE a == Lamps!OnPart(s)
           b == Lamps!OffPart(a)
           r == Lamps!DelayPart(b)
           repeats == Lamps!g_aubLedData[s.type].repeats
<1>1. /\ a \in LedState /\ a.type = s.type /\ a.times = s.times /\ "CONTROL" \in a.flags
      /\ a.state = "ON" => "START_ON" \notin a.flags
  BY OnEffect
<1> HIDE DEF a
<1>2. /\ b \in LedState /\ b.type = s.type /\ b.times = s.times /\ "CONTROL" \in b.flags
      /\ b.state = "ON" => "START_ON" \notin b.flags
  BY <1>1, OffEffect
<1> HIDE DEF b
<1>3. /\ r \in LedState
      /\ b.state # "DELAY" => r = b
      /\ b.state = "DELAY" /\ "CONTROL" \in r.flags =>
           /\ r.type = s.type /\ r.state = "ON" /\ "START_ON" \in r.flags
           /\ r.times = s.times + 1 /\ r.times + 1 <= repeats
      /\ "CONTROL" \notin r.flags =>
           s.times + 1 >= repeats /\ r.lit = {} /\ r.time = 0 /\ r.times = 0
  BY <1>2, DelayEffect
<1> HIDE DEF r, repeats
<1>4. "CONTROL" \in r.flags => /\ r.type = s.type /\ Counted(r) = s.times + 1
                               /\ s.times + 1 <= repeats => r.times + 1 <= repeats
  BY <1>2, <1>3, SMT DEF Counted
<1> QED BY <1>3, <1>4 DEF a, b, r, repeats

-----------------------------------------------------------------------------
(* The LEDs: a pattern that nothing cut across has flashed as often as the *)
(* counter says, from its beginning or, replacing another, but once.       *)

LampTypes ==
  /\ led \in LedState
  /\ pc \in {"idle", "state", "test", "clear", "control on", "on on", "off off", "on off"}
  /\ reg \subseteq LedFlags
  /\ sets \in Nat /\ asked_pattern \in 0 .. 4
  /\ again \in BOOLEAN /\ flashes \in 0 .. 6 /\ raced \subseteq {"tick", "event"}

LEMMA LampTypesAreOK == LampTypes <=> Lamps!TypeOK
BY Zenon DEF LampTypes, Lamps!TypeOK, LedState, LedStates, LedFlags, Colours, Lamps!MaxFlashes

Playing == "CONTROL" \in led.flags
Replaced == IF again THEN 1 ELSE 0

Still == led.lit = {} /\ led.time = 0 /\ led.times = 0
Rests == ~Playing => Still
Rewrites ==
  pc \in {"clear", "on on", "off off", "on off"} =>
    /\ "CONTROL" \in reg \/ (Still /\ "tick" \in raced)
    /\ Playing \/ "tick" \in raced

Shows ==
  /\ led.times + 1 <= Lamps!g_aubLedData[asked_pattern].repeats
  /\ flashes + Replaced = Counted(led)

Setting ==
  /\ flashes = 0
  /\ pc \in {"state", "test"} => (again <=> Playing)
  /\ pc \notin {"state", "test"} => reg = led.flags
  /\ pc # "state" => led.state = "ON"
  /\ pc = "control on" => ~Playing
  /\ pc \in {"control on", "on on"} => ~again
  /\ pc \in {"clear", "off off", "on off"} => again
  /\ pc \in {"clear", "on on", "off off", "on off"} => Playing
  /\ pc \in {"control on", "on on", "off off", "on off"} => led.times = 0

Undisturbed ==
  /\ Playing \/ pc # "idle" => led.type = asked_pattern /\ asked_pattern > 0
  /\ pc = "idle" /\ Playing => Shows
  /\ pc # "idle" => Setting

LampInv == Rests /\ Rewrites /\ (raced = {} => Undisturbed)

Shown ==
  pc = "idle" /\ "CONTROL" \in led.flags /\ "CONTROL" \notin led'.flags =>
    \/ flashes' = Lamps!g_aubLedData[asked_pattern].repeats - (IF again THEN 1 ELSE 0)
    \/ raced # {}

LEMMA LampsInit == Lamps!Init => LampTypes /\ LampInv
<1> SUFFICES ASSUME Lamps!Init PROVE LampTypes /\ LampInv
  OBVIOUS
<1>1. /\ led = [type |-> 0, state |-> "NONE", time |-> 0, times |-> 0, flags |-> {}, lit |-> {}]
      /\ pc = "idle" /\ reg = {}
      /\ sets = 0 /\ asked_pattern = 0 /\ again = FALSE /\ flashes = 0 /\ raced = {}
  BY Zenon DEF Lamps!Init, Lamps!LED_TYPE_OFF
<1>2. led \in LedState
  BY <1>1, SMT DEF LedState, LedStates
<1>3. led.lit = {} /\ led.time = 0 /\ led.times = 0 /\ led.flags = {}
  BY <1>1
<1>4. LampTypes
  <2>1. /\ reg \subseteq LedFlags /\ raced \subseteq {"tick", "event"}
        /\ sets \in Nat /\ asked_pattern \in 0 .. 4 /\ flashes \in 0 .. 6
    BY <1>1
  <2> QED BY <1>1, <1>2, <2>1, Zenon DEF LampTypes
<1>5. LampInv
  BY <1>1, <1>3, Zenon DEF LampInv, Still, Rests, Rewrites, Undisturbed, Playing
<1> QED BY <1>4, <1>5

(* Patterns that are set. *)
LEMMA EventStores ==
  ASSUME LampTypes, NEW type \in Lamps!BleTypes, Lamps!Mid_LedControlSet(type)
  PROVE  /\ led' \in LedState /\ led'.type = type /\ led'.state = "ON"
         /\ "CONTROL" \in led'.flags
         /\ Playing => "START_ON" \notin led'.flags /\ led'.times = 0
         /\ ~Playing => "START_ON" \in led'.flags /\ led'.times = led.times
         /\ Still => Still'
<1> DEFINE r1 == [led EXCEPT !.type = type]
           r2 == [r1 EXCEPT !.state = "ON"]
<1>1. led \in LedState /\ type \in 0 .. 4 /\ 0 \in 0 .. 4 /\ "ON" \in LedStates
  <2>1. led \in LedState
    BY Zenon DEF LampTypes
  <2>2. type \in 0 .. 4 /\ 0 \in 0 .. 4
    BY DEF Lamps!BleTypes
  <2>3. "ON" \in LedStates
    BY Zenon DEF LedStates
  <2> QED BY <2>1, <2>2, <2>3
<1>2. r1 \in LedState
  BY <1>1, LedStores, Zenon
<1>3. r2 \in LedState
  <2> HIDE DEF r1
  <2> QED BY <1>1, <1>2, LedStores, Zenon
<1>4. CASE Playing
  <2> DEFINE r3 == [r2 EXCEPT !.time = 0]
             r4 == [r3 EXCEPT !.times = 0]
             r5 == [r4 EXCEPT !.flags = led.flags \ {"START_OFF", "START_ON"}]
  <2>1. led' = [led EXCEPT !.type = type, !.state = "ON", !.time = 0, !.times = 0,
                           !.flags = led.flags \ {"START_OFF", "START_ON"}]
    BY <1>4, Zenon DEF Lamps!Mid_LedControlSet, Playing
  <2>2. r3 \in LedState
    <3> HIDE DEF r2
    <3> QED BY <1>1, <1>3, LedStores, Zenon
  <2>3. r4 \in LedState
    <3> HIDE DEF r3
    <3> QED BY <1>1, <2>2, LedStores, Zenon
  <2>4. r5 \in LedState
    <3>1. led.flags \ {"START_OFF", "START_ON"} \in SUBSET LedFlags
      BY <1>1, LedFields
    <3> HIDE DEF r4
    <3> QED BY <3>1, <2>3, LedStores, Zenon
  <2>5. led' = r5
    BY <2>1, Zenon
  <2>6. /\ led'.type = type /\ led'.state = "ON" /\ led'.times = 0
        /\ led'.time = 0 /\ led'.lit = led.lit
        /\ led'.flags = led.flags \ {"START_OFF", "START_ON"}
    BY <1>1, <2>1, SMT DEF LedState
  <2> HIDE DEF r5
  <2> QED BY <1>4, <2>4, <2>5, <2>6 DEF Playing, Still
<1>5. CASE ~Playing
  <2> DEFINE r3 == [r2 EXCEPT !.flags = led.flags \union {"CONTROL", "START_ON"}]
  <2>1. led' = [led EXCEPT !.type = type, !.state = "ON",
                           !.flags = led.flags \union {"CONTROL", "START_ON"}]
    BY <1>5, Zenon DEF Lamps!Mid_LedControlSet, Playing
  <2>2. r3 \in LedState
    <3>1. led.flags \union {"CONTROL", "START_ON"} \in SUBSET LedFlags
      BY <1>1, LedFields DEF LedFlags
    <3> HIDE DEF r2
    <3> QED BY <3>1, <1>3, LedStores, Zenon
  <2>3. led' = r3
    BY <2>1, Zenon
  <2>4. /\ led'.type = type /\ led'.state = "ON" /\ led'.times = led.times
        /\ led'.time = led.time /\ led'.lit = led.lit
        /\ led'.flags = led.flags \union {"CONTROL", "START_ON"}
    BY <1>1, <2>1, SMT DEF LedState
  <2> HIDE DEF r3
  <2> QED BY <1>5, <2>2, <2>3, <2>4 DEF Still
<1> QED BY <1>4, <1>5

LEMMA EventKeepsInv ==
  ASSUME LampTypes, LampInv, NEW type \in Lamps!BleTypes, Lamps!Mid_LedControlSet(type)
  PROVE  LampTypes' /\ LampInv' /\ Shown
<1>1. /\ led' \in LedState /\ led'.type = type /\ led'.state = "ON"
      /\ "CONTROL" \in led'.flags
      /\ Playing => "START_ON" \notin led'.flags /\ led'.times = 0
      /\ ~Playing => "START_ON" \in led'.flags /\ led'.times = led.times
      /\ Still => Still'
  BY EventStores, Zenon
<1>2. /\ sets' = sets + 1 /\ asked_pattern' = type /\ again' = Playing /\ flashes' = 0
      /\ pc' = pc /\ reg' = reg
      /\ raced' = IF pc = "idle" THEN {} ELSE raced \union {"event"}
  BY Zenon DEF Lamps!Mid_LedControlSet, Lamps!Ask, Playing
<1>3. type \in 1 .. 4
  BY DEF Lamps!BleTypes
<1>4. LampTypes'
  <2>1. sets' \in Nat /\ asked_pattern' \in 0 .. 4 /\ flashes' \in 0 .. 6
    <3>1. sets \in Nat
      BY Zenon DEF LampTypes
    <3>2. sets' = sets + 1 /\ asked_pattern' = type /\ flashes' = 0
      BY <1>2, Zenon
    <3> QED BY <1>3, <3>1, <3>2
  <2>2. again' \in BOOLEAN
    <3>1. again' = ("CONTROL" \in led.flags)
      BY <1>2, Zenon DEF Playing
    <3> QED BY <3>1
  <2>3. raced' \subseteq {"tick", "event"}
    <3>1. raced \subseteq {"tick", "event"}
      BY Zenon DEF LampTypes
    <3>2. raced' = {} \/ raced' = raced \union {"event"}
      BY <1>2, Zenon
    <3> QED BY <3>1, <3>2
  <2> QED BY <1>1, <1>2, <2>1, <2>2, <2>3, Zenon DEF LampTypes
<1>5. Rests' /\ Rewrites'
  <2>1. pc # "idle" /\ "tick" \in raced => "tick" \in raced'
    BY <1>2
  <2> QED BY <1>1, <1>2, <2>1, Zenon DEF LampInv, Rests, Rewrites, Playing
<1>6. raced' = {} => Undisturbed'
  <2> SUFFICES ASSUME raced' = {} PROVE Undisturbed'
    OBVIOUS
  <2>1. pc = "idle" /\ pc' = "idle"
    BY <1>2
  <2>2. Lamps!g_aubLedData[type].repeats \in 1 .. 5
    BY <1>3, LedTable
  <2>3. led'.times = 0
    BY <1>1 DEF LampInv, Still, Rests
  <2>4. Shows'
    <3>1. Playing => Counted(led') = 1 /\ Replaced' = 1
      BY <1>1, <1>2, <2>3 DEF Counted, Replaced
    <3>2. ~Playing => Counted(led') = 0 /\ Replaced' = 0
      BY <1>1, <1>2, <2>3 DEF Counted, Replaced
    <3>3. flashes' + Replaced' = Counted(led')
      BY <1>2, <3>1, <3>2
    <3>4. led'.times + 1 <= Lamps!g_aubLedData[asked_pattern'].repeats
      BY <1>2, <2>2, <2>3
    <3>5. Lamps!g_aubLedData' = Lamps!g_aubLedData
      BY DEF Lamps!g_aubLedData
    <3> QED BY <3>3, <3>4, <3>5, Zenon DEF Shows, Counted
  <2> QED BY <1>1, <1>2, <1>3, <2>1, <2>4 DEF Undisturbed
<1>7. Shown
  BY <1>1, Zenon DEF Shown
<1> QED BY <1>4, <1>5, <1>6, <1>7, Zenon DEF LampInv

(* The tick. *)
LEMMA TickKeepsInv ==
  ASSUME LampTypes, LampInv, Lamps!Mid_LedControlHandle
  PROVE  LampTypes' /\ LampInv' /\ Shown
<1> DEFINE repeats == Lamps!g_aubLedData[led.type].repeats
           flashed == led.state = "ON" /\ "START_ON" \in led.flags
<1>1. /\ Playing
      /\ led' = Lamps!DelayPart(Lamps!OffPart(Lamps!OnPart(led)))
      /\ flashes' = IF flashed /\ flashes < 6 THEN flashes + 1 ELSE flashes
      /\ raced' = IF pc = "idle" THEN raced ELSE raced \union {"tick"}
      /\ pc' = pc /\ reg' = reg /\ sets' = sets /\ asked_pattern' = asked_pattern
      /\ again' = again
  BY Zenon DEF Lamps!Mid_LedControlHandle, Lamps!Cuts, Lamps!MaxFlashes, Playing
<1>2. /\ led' \in LedState
      /\ "CONTROL" \in led'.flags =>
           /\ led'.type = led.type /\ Counted(led') = led.times + 1
           /\ led.times + 1 <= repeats => led'.times + 1 <= repeats
      /\ "CONTROL" \notin led'.flags =>
           led.times + 1 >= repeats /\ led'.lit = {} /\ led'.time = 0 /\ led'.times = 0
  <2>1. led \in LedState /\ "CONTROL" \in led.flags
    BY <1>1, Zenon DEF LampTypes, Playing
  <2> QED BY <1>1, <2>1, TickEffect, Zenon
<1>3. LampTypes'
  <2>1. flashes' \in 0 .. 6
    <3>1. flashes \in 0 .. 6
      BY Zenon DEF LampTypes
    <3> HIDE DEF flashed
    <3> QED BY <1>1, <3>1
  <2>2. raced' \subseteq {"tick", "event"}
    BY <1>1, Zenon DEF LampTypes
  <2> QED BY <1>1, <1>2, <2>1, <2>2, Zenon DEF LampTypes
<1>4. Rests' /\ Rewrites'
  <2>1. pc # "idle" => "tick" \notin raced /\ "tick" \in raced'
    BY <1>1, Zenon DEF Lamps!Mid_LedControlHandle
  <2> QED BY <1>1, <1>2, <2>1, Zenon DEF LampInv, Still, Rests, Rewrites, Playing
<1>5. led.times \in 0 .. 4 /\ repeats \in 0 .. 5
  <2>1. led \in LedState
    BY Zenon DEF LampTypes
  <2> QED BY <2>1, LedFields, LedTable, SMT
<1>6. ASSUME pc = "idle", raced = {}
      PROVE  /\ led.type = asked_pattern /\ asked_pattern > 0 /\ led.times + 1 <= repeats
             /\ flashes' + Replaced = led.times + 1
  <2>1. led.type = asked_pattern /\ asked_pattern > 0 /\ Shows
    BY <1>1, <1>6, Zenon DEF LampInv, Undisturbed
  <2>2. led.times + 1 <= repeats
    BY <2>1, Zenon DEF Shows
  <2>3. Counted(led) = IF flashed THEN led.times ELSE led.times + 1
    BY Zenon DEF Counted
  <2>4. flashes + Replaced = Counted(led) /\ Replaced \in {0, 1} /\ flashes \in 0 .. 6
    BY <2>1, Zenon DEF Shows, Replaced, LampTypes
  <2> HIDE DEF repeats, flashed
  <2>5. flashes' + Replaced = led.times + 1
    BY <1>1, <1>5, <2>2, <2>3, <2>4
  <2> QED BY <2>1, <2>2, <2>5
<1>7. raced' = {} => Undisturbed'
  <2> SUFFICES ASSUME raced' = {} PROVE Undisturbed'
    OBVIOUS
  <2>1. pc = "idle" /\ raced = {}
    BY <1>1
  <2>2. Lamps!g_aubLedData' = Lamps!g_aubLedData
    BY DEF Lamps!g_aubLedData
  <2>3. ASSUME Playing' PROVE Shows'
    <3>1. led'.times + 1 <= repeats /\ Counted(led') = led.times + 1
      BY <1>2, <1>6, <2>1, <2>3 DEF Playing
    <3>2. Replaced' = Replaced
      BY <1>1, Zenon DEF Replaced
    <3>3. flashes' + Replaced' = Counted(led')
      BY <1>6, <2>1, <3>1, <3>2
    <3>4. led'.times + 1 <= Lamps!g_aubLedData[asked_pattern'].repeats
      BY <1>1, <1>6, <2>1, <3>1
    <3> QED BY <2>2, <3>3, <3>4, Zenon DEF Shows, Counted
  <2> QED BY <1>1, <1>2, <1>6, <2>1, <2>3, Zenon DEF Undisturbed, Playing
<1>8. Shown
  <2> SUFFICES ASSUME pc = "idle", raced = {}, "CONTROL" \notin led'.flags
               PROVE  flashes' = Lamps!g_aubLedData[asked_pattern].repeats - Replaced
    BY Zenon DEF Shown, Replaced
  <2>1. led.times + 1 = repeats /\ led.type = asked_pattern
    <3>1. led.times + 1 >= repeats /\ led.times + 1 <= repeats /\ led.type = asked_pattern
      BY <1>2, <1>6
    <3> HIDE DEF repeats
    <3> QED BY <1>5, <3>1
  <2>2. flashes' + Replaced = led.times + 1
    BY <1>6
  <2>3. Replaced \in {0, 1} /\ flashes' \in 0 .. 6
    BY <1>3, Zenon DEF Replaced, LampTypes
  <2>4. Lamps!g_aubLedData[asked_pattern].repeats = led.times + 1
    BY <2>1, Zenon
  <2> HIDE DEF repeats
  <2> QED BY <1>5, <2>2, <2>3, <2>4
<1> QED BY <1>3, <1>4, <1>7, <1>8, Zenon DEF LampInv

(* The main loop, one store at a time. *)
LEMMA MainLoopStores ==
  ASSUME LampTypes
  PROVE  /\ Lamps!SetSendIR =>
              /\ led' \in LedState /\ led'.type = 4 /\ led'.flags = led.flags
              /\ led'.lit = led.lit /\ led'.time = led.time /\ led'.times = led.times
         /\ Lamps!StoreState =>
              /\ led' \in LedState /\ led'.type = led.type /\ led'.flags = led.flags
              /\ led'.state = "ON"
              /\ led'.lit = led.lit /\ led'.time = led.time /\ led'.times = led.times
         /\ Lamps!ClearCounts =>
              /\ led' \in LedState /\ led'.type = led.type /\ led'.flags = led.flags
              /\ led'.state = led.state /\ led'.lit = led.lit
              /\ led'.time = 0 /\ led'.times = 0
         /\ \A stored \in SUBSET LedFlags :
              led' = [led EXCEPT !.flags = stored] =>
                /\ led' \in LedState /\ led'.type = led.type /\ led'.flags = stored
                /\ led'.state = led.state /\ led'.lit = led.lit
                /\ led'.time = led.time /\ led'.times = led.times
<1>1. led \in LedState /\ 0 \in 0 .. 4 /\ 4 \in 0 .. 4 /\ "ON" \in LedStates
  <2>1. led \in LedState
    BY Zenon DEF LampTypes
  <2>2. 0 \in 0 .. 4 /\ 4 \in 0 .. 4
    OBVIOUS
  <2> QED BY <2>1, <2>2, Zenon DEF LedStates
<1>2. ASSUME Lamps!SetSendIR
      PROVE  /\ led' \in LedState /\ led'.type = 4 /\ led'.flags = led.flags
             /\ led'.lit = led.lit /\ led'.time = led.time /\ led'.times = led.times
  <2>1. led' = [led EXCEPT !.type = 4]
    BY <1>2, Zenon DEF Lamps!SetSendIR, Lamps!LED_TYPE_SEND_IR
  <2>2. led' \in LedState
    BY <1>1, <2>1, LedStores, Zenon
  <2> QED BY <1>1, <2>1, <2>2, SMT DEF LedState
<1>3. ASSUME Lamps!StoreState
      PROVE  /\ led' \in LedState /\ led'.type = led.type /\ led'.flags = led.flags
             /\ led'.state = "ON"
             /\ led'.lit = led.lit /\ led'.time = led.time /\ led'.times = led.times
  <2>1. led' = [led EXCEPT !.state = "ON"]
    BY <1>3, Zenon DEF Lamps!StoreState
  <2>2. led' \in LedState
    BY <1>1, <2>1, LedStores, Zenon
  <2> QED BY <1>1, <2>1, <2>2, SMT DEF LedState
<1>4. ASSUME Lamps!ClearCounts
      PROVE  /\ led' \in LedState /\ led'.type = led.type /\ led'.flags = led.flags
             /\ led'.state = led.state /\ led'.lit = led.lit
             /\ led'.time = 0 /\ led'.times = 0
  <2> DEFINE r1 == [led EXCEPT !.time = 0]
             r2 == [r1 EXCEPT !.times = 0]
  <2>1. led' = [led EXCEPT !.time = 0, !.times = 0]
    BY <1>4, Zenon DEF Lamps!ClearCounts
  <2>2. led' = r2
    BY <2>1, Zenon
  <2>3. r1 \in LedState
    BY <1>1, LedStores, Zenon
  <2>4. r2 \in LedState
    <3> HIDE DEF r1
    <3> QED BY <1>1, <2>3, LedStores, Zenon
  <2>5. /\ led'.type = led.type /\ led'.flags = led.flags
        /\ led'.state = led.state /\ led'.lit = led.lit
        /\ led'.time = 0 /\ led'.times = 0
    BY <1>1, <2>1, SMT DEF LedState
  <2> HIDE DEF r2
  <2> QED BY <2>2, <2>4, <2>5
<1>5. ASSUME NEW stored \in SUBSET LedFlags, led' = [led EXCEPT !.flags = stored]
      PROVE  /\ led' \in LedState /\ led'.type = led.type /\ led'.flags = stored
             /\ led'.state = led.state /\ led'.lit = led.lit
             /\ led'.time = led.time /\ led'.times = led.times
  <2>1. led' \in LedState
    BY <1>1, <1>5, LedStores, Zenon
  <2> QED BY <1>1, <1>5, <2>1, SMT DEF LedState
<1> QED BY <1>2, <1>3, <1>4, <1>5, Zenon

(* Until it is done, the pattern is not played by anybody: if something    *)
(* cut across, nothing is promised of it.                                  *)
LEMMA AskKeepsInv ==
  ASSUME LampTypes, LampInv, Lamps!SetSendIR
  PROVE  LampTypes' /\ LampInv' /\ Shown
<1>1. /\ led' \in LedState /\ led'.type = 4 /\ led'.flags = led.flags
      /\ led'.lit = led.lit /\ led'.time = led.time /\ led'.times = led.times
  BY MainLoopStores, Zenon
<1>2. /\ pc = "idle" /\ pc' = "state" /\ reg' = reg
      /\ sets' = sets + 1 /\ asked_pattern' = 4 /\ again' = Playing /\ flashes' = 0
      /\ raced' = {}
  BY Zenon DEF Lamps!SetSendIR, Lamps!Ask, Lamps!LED_TYPE_SEND_IR, Playing
<1>3. sets \in Nat /\ reg \subseteq LedFlags
  BY Zenon DEF LampTypes
<1>4. LampTypes'
  <2>1. sets' \in Nat /\ asked_pattern' \in 0 .. 4 /\ flashes' \in 0 .. 6 /\ asked_pattern' > 0
    <3>1. sets' = sets + 1 /\ asked_pattern' = 4 /\ flashes' = 0 /\ sets \in Nat
      BY <1>2, <1>3, Zenon
    <3> QED BY <3>1
  <2>2. again' \in BOOLEAN
    <3>1. again' = ("CONTROL" \in led.flags)
      BY <1>2, Zenon DEF Playing
    <3> QED BY <3>1
  <2>3. raced' \subseteq {"tick", "event"}
    <3>1. raced' = {}
      BY <1>2, Zenon
    <3> QED BY <3>1
  <2> QED BY <1>1, <1>2, <1>3, <2>1, <2>2, <2>3, Zenon DEF LampTypes
<1>5. Rests' /\ Rewrites'
  BY <1>1, <1>2, Zenon DEF LampInv, Still, Rests, Rewrites, Playing
<1>6. Setting'
  BY <1>1, <1>2, Zenon DEF Setting, Playing
<1>7. Undisturbed'
  <2>1. asked_pattern' > 0
    BY <1>2
  <2> QED BY <1>1, <1>2, <1>6, <2>1, Zenon DEF Undisturbed
<1> QED BY <1>1, <1>4, <1>5, <1>7, Zenon DEF LampInv, Shown

LEMMA StoreKeepsInv ==
  ASSUME LampTypes, LampInv, Lamps!StoreState \/ Lamps!TestControl \/ Lamps!ClearCounts
  PROVE  LampTypes' /\ LampInv' /\ Shown
<1>1. /\ pc \in {"state", "test", "clear"} /\ UNCHANGED Lamps!history
  BY Zenon DEF Lamps!StoreState, Lamps!TestControl, Lamps!ClearCounts
<1>2. /\ sets' = sets /\ asked_pattern' = asked_pattern /\ again' = again
      /\ flashes' = flashes /\ raced' = raced
  BY <1>1, Zenon DEF Lamps!history
<1>3. Shown
  BY <1>1, Zenon DEF Shown
<1>4. CASE Lamps!StoreState
  <2>1. /\ led' \in LedState /\ led'.type = led.type /\ led'.flags = led.flags
        /\ led'.state = "ON"
        /\ led'.lit = led.lit /\ led'.time = led.time /\ led'.times = led.times
    BY <1>4, MainLoopStores, Zenon
  <2>2. pc = "state" /\ pc' = "test" /\ reg' = reg
    BY <1>4, Zenon DEF Lamps!StoreState
  <2>3. LampTypes'
    BY <1>2, <2>1, <2>2, Zenon DEF LampTypes
  <2>4. Rests' /\ Rewrites'
    BY <2>1, <2>2, Zenon DEF LampInv, Still, Rests, Rewrites, Playing
  <2>5. raced' = {} => Undisturbed'
    BY <1>2, <2>1, <2>2, Zenon DEF LampInv, Undisturbed, Setting, Playing
  <2> QED BY <1>3, <2>3, <2>4, <2>5, Zenon DEF LampInv
<1>5. CASE Lamps!TestControl
  <2>1. /\ led' = led /\ reg' = led.flags /\ pc = "test"
        /\ pc' = IF Playing THEN "clear" ELSE "control on"
    BY <1>5, Zenon DEF Lamps!TestControl, Playing
  <2>2. LampTypes'
    <3>1. led.flags \subseteq LedFlags
      BY LedFields, Zenon DEF LampTypes
    <3> QED BY <1>2, <2>1, <3>1, Zenon DEF LampTypes
  <2>3. Rests' /\ Rewrites'
    BY <2>1, Zenon DEF LampInv, Still, Rests, Rewrites, Playing
  <2>4. raced' = {} => Undisturbed'
    BY <1>2, <2>1, Zenon DEF LampInv, Undisturbed, Setting, Still, Rests, Playing
  <2> QED BY <1>3, <2>2, <2>3, <2>4, Zenon DEF LampInv
<1>6. CASE Lamps!ClearCounts
  <2>1. /\ led' \in LedState /\ led'.type = led.type /\ led'.flags = led.flags
        /\ led'.state = led.state /\ led'.lit = led.lit
        /\ led'.time = 0 /\ led'.times = 0
    BY <1>6, MainLoopStores, Zenon
  <2>2. pc = "clear" /\ pc' = "off off" /\ reg' = reg
    BY <1>6, Zenon DEF Lamps!ClearCounts
  <2>3. LampTypes'
    BY <1>2, <2>1, <2>2, Zenon DEF LampTypes
  <2>4. Rests' /\ Rewrites'
    BY <1>2, <2>1, <2>2, Zenon DEF LampInv, Still, Rests, Rewrites, Playing
  <2>5. raced' = {} => Undisturbed'
    BY <1>2, <2>1, <2>2, Zenon DEF LampInv, Undisturbed, Setting, Playing
  <2> QED BY <1>3, <2>3, <2>4, <2>5, Zenon DEF LampInv
<1> QED BY <1>4, <1>5, <1>6

LEMMA FlagKeepsInv ==
  ASSUME LampTypes, LampInv, Lamps!StoreFlags
  PROVE  LampTypes' /\ LampInv' /\ Shown
<1> DEFINE Store(at, next, with, without) ==
             /\ pc = at /\ pc' = next
             /\ \E byte \in {reg, led.flags} :
                  LET stored == (byte \union with) \ without
                  IN  /\ stored \subseteq LedFlags
                      /\ led' \in LedState /\ led'.type = led.type /\ led'.flags = stored
                      /\ led'.state = led.state /\ led'.lit = led.lit
                      /\ led'.time = led.time /\ led'.times = led.times
                      /\ reg' = IF next = "idle" THEN {} ELSE stored
             /\ UNCHANGED Lamps!history
<1>1. ASSUME NEW at, NEW next, NEW with \in SUBSET LedFlags, NEW without,
             Lamps!StoreFlag(at, next, with, without)
      PROVE  Store(at, next, with, without)
  <2>1. reg \subseteq LedFlags /\ led.flags \subseteq LedFlags
    BY LedFields, Zenon DEF LampTypes
  <2>2. PICK byte \in {reg, led.flags} :
          /\ led' = [led EXCEPT !.flags = (byte \union with) \ without]
          /\ reg' = IF next = "idle" THEN {} ELSE (byte \union with) \ without
    BY <1>1, Zenon DEF Lamps!StoreFlag
  <2> DEFINE stored == (byte \union with) \ without
  <2>3. stored \in SUBSET LedFlags
    BY <2>1
  <2>4. led' = [led EXCEPT !.flags = stored]
    BY <2>2
  <2> HIDE DEF stored
  <2>5. /\ led' \in LedState /\ led'.type = led.type /\ led'.flags = stored
        /\ led'.state = led.state /\ led'.lit = led.lit
        /\ led'.time = led.time /\ led'.times = led.times
    BY <2>3, <2>4, MainLoopStores, Zenon
  <2>6. pc = at /\ pc' = next /\ UNCHANGED Lamps!history
    BY <1>1, Zenon DEF Lamps!StoreFlag
  <2> QED BY <2>2, <2>3, <2>5, <2>6, Zenon DEF stored
<1>2. \/ Store("control on", "on on", {"CONTROL"}, {}) \/ Store("on on", "idle", {"START_ON"}, {})
      \/ Store("off off", "on off", {}, {"START_OFF"})
      \/ Store("on off", "idle", {}, {"START_ON"})
  <2>1. {"CONTROL"} \in SUBSET LedFlags /\ {"START_ON"} \in SUBSET LedFlags /\ {} \in SUBSET LedFlags
    BY DEF LedFlags
  <2> HIDE DEF Store
  <2> QED BY <1>1, <2>1, Zenon DEF Lamps!StoreFlags
<1>3. /\ sets' = sets /\ asked_pattern' = asked_pattern /\ again' = again
      /\ flashes' = flashes /\ raced' = raced
  BY <1>2, Zenon DEF Lamps!history
<1>4. Shown
  BY <1>2, Zenon DEF Shown
<1>5. /\ led' \in LedState /\ led'.type = led.type /\ led'.state = led.state
      /\ led'.lit = led.lit /\ led'.time = led.time /\ led'.times = led.times
      /\ reg' \subseteq LedFlags
      /\ pc' \in {"on on", "idle", "on off"}
  BY <1>2, Zenon
<1>6. LampTypes'
  BY <1>3, <1>5, Zenon DEF LampTypes
<1>7. Rests' /\ Rewrites' /\ (raced = {} => Playing')
  <2>1. CASE pc = "control on"
    <3>1. "CONTROL" \in led'.flags /\ "CONTROL" \in reg'
      BY <1>2, <2>1, Zenon
    <3> QED BY <3>1, Zenon DEF Rests, Rewrites, Playing
  <2>2. CASE pc # "control on"
    <3>1. /\ "CONTROL" \in reg \/ (Still /\ "tick" \in raced)
          /\ Playing \/ (Still /\ "tick" \in raced)
      BY <1>2, <2>2, Zenon DEF LampInv, Rests, Rewrites
    <3>2. \/ "CONTROL" \in led'.flags /\ (pc' # "idle" => "CONTROL" \in reg')
          \/ Still /\ "tick" \in raced
      BY <1>2, <2>2, <3>1, Zenon DEF Playing
    <3>3. Still => Still'
      BY <1>5, Zenon DEF Still
    <3>4. pc' \in {"on on", "off off", "on off"} => pc' # "idle"
      BY Zenon
    <3>5. CASE Still /\ "tick" \in raced
      <4>1. Still' /\ "tick" \in raced' /\ raced # {}
        BY <1>3, <3>3, <3>5, Zenon
      <4> QED BY <4>1, Zenon DEF Rests, Rewrites, Playing
    <3>6. CASE "CONTROL" \in led'.flags /\ (pc' # "idle" => "CONTROL" \in reg')
      <4>1. Rests' /\ Playing'
        BY <3>6, Zenon DEF Rests, Playing
      <4>2. Rewrites'
        <5>1. pc' # "clear"
          BY <1>5, Zenon
        <5> QED BY <3>4, <3>6, <4>1, <5>1, Zenon DEF Rewrites
      <4> QED BY <4>1, <4>2
    <3> QED BY <3>2, <3>5, <3>6, Zenon
  <2> QED BY <2>1, <2>2, Zenon
<1>8. ASSUME raced = {} PROVE Undisturbed'
  <2>1. /\ Setting /\ reg = led.flags /\ led.type = asked_pattern /\ asked_pattern > 0
    BY <1>2, <1>8, Zenon DEF LampInv, Undisturbed, Setting
  <2>2. led.times = 0 /\ led.state = "ON" /\ flashes = 0
    BY <1>2, <2>1, Zenon DEF Setting
  <2>3. ASSUME pc' = "idle" PROVE Shows'
    <3>1. Lamps!g_aubLedData[asked_pattern].repeats \in 1 .. 5
      <4>1. asked_pattern \in 0 .. 4
        BY Zenon DEF LampTypes
      <4> QED BY <2>1, <4>1, LedTable
    <3>2. led'.times + 1 <= Lamps!g_aubLedData[asked_pattern'].repeats
      <4>1. led'.times = 0 /\ asked_pattern' = asked_pattern
        BY <1>3, <1>5, <2>2, Zenon
      <4> QED BY <3>1, <4>1
    <3>3. Lamps!g_aubLedData' = Lamps!g_aubLedData
      BY DEF Lamps!g_aubLedData
    <3>4. \/ "START_ON" \in led'.flags /\ ~again
          \/ "START_ON" \notin led'.flags /\ again
      BY <1>2, <2>1, <2>3, Zenon DEF Setting
    <3>5. flashes' + Replaced' = Counted(led')
      <4>1. /\ led'.times = 0 /\ led'.state = "ON" /\ flashes' = 0 /\ again' = again
        BY <1>3, <1>5, <2>2, Zenon
      <4>2. CASE ~again /\ "START_ON" \in led'.flags
        <5>1. Replaced' = 0 /\ Counted(led') = 0
          BY <4>1, <4>2, Zenon DEF Replaced, Counted
        <5> QED BY <4>1, <5>1
      <4>3. CASE again /\ "START_ON" \notin led'.flags
        <5>1. Replaced' = 1 /\ Counted(led') = 0 + 1
          BY <4>1, <4>3, Zenon DEF Replaced, Counted
        <5> QED BY <4>1, <5>1
      <4> QED BY <3>4, <4>2, <4>3
    <3> QED BY <3>2, <3>3, <3>5, Zenon DEF Shows, Counted
  <2>4. ASSUME pc' # "idle" PROVE Setting'
    BY <1>2, <1>3, <1>5, <1>7, <1>8, <2>1, <2>2, <2>4, Zenon DEF Setting
  <2> QED BY <1>3, <1>5, <1>7, <1>8, <2>1, <2>3, <2>4, Zenon DEF Undisturbed
<1> QED BY <1>3, <1>4, <1>6, <1>7, <1>8, Zenon DEF LampInv, Still, Rests

LEMMA LampsPlayOut == Lamps!Spec => Lamps!PatternPlaysOut /\ []Lamps!TypeOK
<1> DEFINE Inv == LampTypes /\ LampInv
<1>1. Lamps!Init => Inv
  BY LampsInit
<1>2. ASSUME Inv, Lamps!Next PROVE Inv' /\ Shown
  BY <1>2, TickKeepsInv, EventKeepsInv, AskKeepsInv, StoreKeepsInv, FlagKeepsInv, Zenon
     DEF Lamps!Next, Lamps!MainLoop
<1>3. ASSUME Inv, UNCHANGED Lamps!vars PROVE Inv'
  <2>1. /\ led' = led /\ pc' = pc /\ reg' = reg /\ sets' = sets /\ again' = again
        /\ asked_pattern' = asked_pattern /\ flashes' = flashes /\ raced' = raced
    BY <1>3, Zenon DEF Lamps!vars, Lamps!history
  <2>2. Lamps!g_aubLedData' = Lamps!g_aubLedData
    BY DEF Lamps!g_aubLedData
  <2> QED BY <1>3, <2>1, <2>2, Zenon
          DEF LampTypes, LampInv, Still, Rests, Rewrites, Undisturbed, Setting, Shows, Playing,
              Replaced, Counted
<1>4. Inv => Lamps!DarkWhenDone /\ Lamps!TypeOK
  BY LampTypesAreOK, Zenon DEF LampInv, Still, Rests, Playing, Lamps!DarkWhenDone
<1>5. Inv /\ [Lamps!Next]_Lamps!vars => Inv' /\ [Shown]_Lamps!vars
  BY <1>2, <1>3, Zenon
<1>6. [][Shown]_Lamps!vars => Lamps!PatternIsShown
  BY PTL DEF Lamps!PatternIsShown, Shown
<1> QED BY <1>1, <1>4, <1>5, <1>6, PTL DEF Lamps!Spec, Lamps!PatternPlaysOut

(* A pattern that ends has been shown with all its flashes, or all but the *)
(* first if it replaced another, unless an interrupt cut across the main   *)
(* loop's setting of it; and no LED is left lit after it, even then.       *)
THEOREM PatternsPlayOut == PartSpec => PatternPlaysOut
<1>1. PartSpec => Lamps!Spec
  <2>1. PartInit => Lamps!Init
    BY Zenon DEF PartInit
  <2>2. [PartNext]_<<part, vars, keys, leds>> => [Lamps!Next]_Lamps!vars
    <3>1. UNCHANGED leds => UNCHANGED Lamps!vars
      BY Zenon DEF leds, Lamps!vars, Lamps!history
    <3> QED BY <3>1, Zenon DEF PartNext
  <2> QED BY <2>1, <2>2, PTL DEF PartSpec, Lamps!Spec
<1> QED BY <1>1, LampsPlayOut, PTL DEF PatternPlaysOut
=============================================================================
