------------------------------ MODULE BleLink ------------------------------
(***************************************************************************)
(* The connection to the phone: ble_evt_handler of lib_ble.c, the          *)
(* negotiation of the connection parameters in ble_conn_params.c, and the  *)
(* SoftDevice beneath them as both use it.                                 *)
(*                                                                         *)
(* The SoftDevice queues its events, and the program handles them in an    *)
(* interrupt: when a handler calls the SoftDevice, the link its event was  *)
(* about may be gone.  The SoftDevice may also refuse a call over a link   *)
(* that is up, because it is busy or out of memory.  Every error ends in   *)
(* APP_ERROR_CHECK or APP_ERROR_HANDLER, and these in a reset.  There is   *)
(* one link, always with the same handle.                                  *)
(***************************************************************************)
EXTENDS Integers, Sequences

CONSTANTS
  MAX_CONN_PARAMS_UPDATE_COUNT,   (* requests before giving up: 3           *)
  MaxEvents                       (* bound: events the peer causes and that *)
                                  (* wait while others do                   *)

ASSUME LinkAssumption == MAX_CONN_PARAMS_UPDATE_COUNT \in Nat /\ MaxEvents \in Nat

VARIABLES
  (* The SoftDevice. *)
  link,          (* "none", "up" or "closing": the program has disconnected *)
  acceptable,    (* the parameters of the link are what the program wants   *)
  asked,         (* a request of the program to change them is not answered *)
  events,
  advertising,
  (* lib_ble.c *)
  connected,     (* BLE_CONNECTED_FLAG and m_conn_handle, set together      *)
  (* ble_conn_params.c: the instance of the link. *)
  claimed,       (* conn_handle is not BLE_CONN_HANDLE_INVALID              *)
  update_count,
  params_ok,
  timer,         (* the timer of the instance runs                          *)
  (* An error: *)
  failed,        (* the reset is due                                        *)
  refused        (* history: it is due because the SoftDevice refused a     *)
                 (* call over a link that was up                            *)

stack    == <<link, acceptable, asked, advertising>>
instance == <<claimed, update_count, params_ok, timer>>
errors   == <<failed, refused>>
vars     == <<stack, events, connected, instance, errors>>

Event(kind, ok) == [kind |-> kind, ok |-> ok]
Kinds == {"CONNECTED", "DISCONNECTED", "CONN_PARAM_UPDATE", "REQUEST", "TIMEOUT"}

(* lib_ble_init and lib_ble_advertising_start.                             *)
Init ==
  /\ link = "none" /\ acceptable = FALSE /\ asked = FALSE /\ advertising = TRUE
  /\ events = <<>> /\ connected = FALSE
  /\ claimed = FALSE /\ update_count = 0 /\ params_ok = FALSE /\ timer = FALSE
  /\ failed = FALSE /\ refused = FALSE

----------------------------------------------------------------------------
(* The SoftDevice and the phone.                                           *)

Post(kind, ok) == events' = Append(events, Event(kind, ok))
Room == Len(events) < MaxEvents

PeerConnects ==
  /\ advertising /\ ~failed
  /\ link' = "up" /\ advertising' = FALSE /\ asked' = FALSE
  /\ acceptable' \in BOOLEAN
  /\ Post("CONNECTED", acceptable')
  /\ UNCHANGED <<connected, instance, errors>>

(* The phone goes, is out of reach, or has been disconnected.              *)
LinkEnds ==
  /\ link # "none"
  /\ link' = "none" /\ asked' = FALSE
  /\ Post("DISCONNECTED", TRUE)
  /\ UNCHANGED <<acceptable, advertising, connected, instance, errors>>

NewParameters ==
  /\ acceptable' \in BOOLEAN
  /\ Post("CONN_PARAM_UPDATE", acceptable')
  /\ UNCHANGED <<link, advertising, connected, instance, errors>>

(* The phone grants the program's request or declines it.                  *)
PeerAnswers == link = "up" /\ asked /\ asked' = FALSE /\ NewParameters

PeerChanges == link = "up" /\ Room /\ NewParameters /\ UNCHANGED asked

(* REQUEST: pairing, another PHY, system attributes; the handlers reply.   *)
(* TIMEOUT: of the GATT client or server; the handlers disconnect.         *)
PeerRequests ==
  /\ link = "up" /\ Room
  /\ \E kind \in {"REQUEST", "TIMEOUT"}: Post(kind, TRUE)
  /\ UNCHANGED <<stack, connected, instance, errors>>

----------------------------------------------------------------------------
(* Calls into the SoftDevice: over a link that is not up they fail.  Over  *)
(* one that is, a reply or a request may be refused: the SoftDevice is     *)
(* busy with the same procedure or another one, or has no memory for it.   *)

Keep == UNCHANGED link /\ UNCHANGED asked
NoError == UNCHANGED errors
Error == failed' = TRUE /\ UNCHANGED refused
Refused == failed' = TRUE /\ refused' = TRUE

sd_reply == Keep /\ (IF link = "up" THEN NoError \/ Refused ELSE Error)

sd_ble_gap_disconnect ==
  /\ UNCHANGED asked
  /\ IF link = "up" THEN link' = "closing" /\ NoError ELSE UNCHANGED link /\ Error

(* ble_conn_params.c: send_update_request.  That another request of the    *)
(* program is not answered yet is no error; every other refusal is one.    *)
send_update_request(isSent) ==
  /\ UNCHANGED link /\ asked' = (asked \/ isSent)
  /\ IF link = "up"
     THEN \/ NoError /\ isSent = ~asked
          \/ Refused /\ ~isSent
     ELSE Error /\ ~isSent

----------------------------------------------------------------------------
(* ble_conn_params.c                                                       *)

(* With parameters that are not acceptable the timer is started; starting  *)
(* a timer that runs changes nothing.                                      *)
conn_params_negotiation(ok, count) ==
  /\ params_ok' = ok
  /\ IF ok THEN update_count' = 0 /\ UNCHANGED timer
           ELSE update_count' = count /\ timer' = TRUE

(* The only instance must be free: otherwise NRF_ERROR_NO_MEM.             *)
on_connect(ok) ==
  IF claimed THEN Error /\ UNCHANGED instance
  ELSE NoError /\ claimed' = TRUE /\ conn_params_negotiation(ok, 0)

on_disconnect_KeepsInstance == UNCHANGED <<claimed, update_count, params_ok, timer>>

on_disconnect_KeepsTimer ==
  /\ claimed' = FALSE
  /\ UNCHANGED <<update_count, params_ok, timer>>

on_disconnect ==
  /\ IF claimed THEN claimed' = FALSE /\ timer' = FALSE ELSE UNCHANGED <<claimed, timer>>
  /\ UNCHANGED <<update_count, params_ok>>

on_conn_params_update(ok) ==
  IF claimed THEN UNCHANGED claimed /\ conn_params_negotiation(ok, update_count)
             ELSE UNCHANGED instance

CountAfter_Never(isSent) == update_count
CountAfter(isSent) == IF isSent THEN update_count + 1 ELSE update_count

TriesLeft == update_count < MAX_CONN_PARAMS_UPDATE_COUNT

(* The timer: one more request, or the end of the negotiation, of which    *)
(* on_conn_params_evt is told, and disconnects.                            *)
update_timeout_handler ==
  /\ timer /\ ~failed /\ timer' = FALSE
  /\ CASE ~claimed -> Keep /\ NoError /\ UNCHANGED update_count
       [] claimed /\ TriesLeft ->
            \E isSent \in BOOLEAN:
              send_update_request(isSent) /\ update_count' = CountAfter(isSent)
       [] claimed /\ ~TriesLeft ->
            sd_ble_gap_disconnect /\ update_count' = 0
  /\ UNCHANGED <<acceptable, advertising, events, connected, claimed, params_ok>>

----------------------------------------------------------------------------
(* lib_ble.c: advertising_start fails while there is a link.               *)

advertising_start ==
  IF link = "none" /\ ~advertising THEN advertising' = TRUE /\ NoError
                                   ELSE UNCHANGED advertising /\ Error

(* One event, first at ble_conn_params.c, then at ble_evt_handler.         *)
Handle(kind, ok) ==
  CASE kind = "CONNECTED" ->
         /\ on_connect(ok) /\ connected' = TRUE
         /\ Keep /\ UNCHANGED advertising
    [] kind = "DISCONNECTED" ->
         /\ on_disconnect /\ connected' = FALSE
         /\ advertising_start /\ Keep
    [] kind = "CONN_PARAM_UPDATE" ->
         /\ on_conn_params_update(ok) /\ UNCHANGED <<connected, advertising>>
         /\ Keep /\ NoError
    [] kind = "REQUEST" ->
         sd_reply /\ UNCHANGED <<instance, connected, advertising>>
    [] kind = "TIMEOUT" ->
         sd_ble_gap_disconnect /\ UNCHANGED <<instance, connected, advertising>>

ble_evt_handler ==
  /\ events # <<>> /\ ~failed
  /\ events' = Tail(events)
  /\ Handle(Head(events).kind, Head(events).ok)
  /\ UNCHANGED acceptable

(* app_error_fault_handler: everything starts again.                       *)
Reset ==
  /\ failed
  /\ link' = "none" /\ acceptable' = FALSE /\ asked' = FALSE /\ advertising' = TRUE
  /\ events' = <<>> /\ connected' = FALSE
  /\ claimed' = FALSE /\ update_count' = 0 /\ params_ok' = FALSE /\ timer' = FALSE
  /\ failed' = FALSE /\ refused' = FALSE

Next ==
  \/ PeerConnects \/ LinkEnds \/ PeerAnswers \/ PeerChanges \/ PeerRequests
  \/ update_timeout_handler \/ ble_evt_handler \/ Reset

(* The interrupts of the program are served and its timer expires; the     *)
(* SoftDevice answers a request, if only with a refusal, and ends a link   *)
(* that is being closed.                                                   *)
Fairness ==
  /\ WF_vars(ble_evt_handler) /\ WF_vars(update_timeout_handler) /\ WF_vars(Reset)
  /\ WF_vars(PeerAnswers) /\ WF_vars(link = "closing" /\ LinkEnds)

Spec == Init /\ [][Next]_vars /\ Fairness

----------------------------------------------------------------------------
(* Properties.                                                             *)

TypeOK ==
  /\ link \in {"none", "up", "closing"} /\ acceptable \in BOOLEAN /\ asked \in BOOLEAN
  /\ \A i \in DOMAIN events: events[i].kind \in Kinds
  /\ advertising \in BOOLEAN /\ connected \in BOOLEAN
  /\ failed \in BOOLEAN /\ refused \in BOOLEAN
  /\ claimed \in BOOLEAN /\ params_ok \in BOOLEAN /\ timer \in BOOLEAN
  /\ update_count \in 0..MAX_CONN_PARAMS_UPDATE_COUNT

(* The types are right, and once its events are handled, the program       *)
(* agrees with the SoftDevice about the link: lib_ble.c and                *)
(* ble_conn_params.c both, and the timer of the last link does not run     *)
(* into the next one.                                                      *)
AgreesWithStack ==
  /\ TypeOK
  /\ events = <<>> /\ ~failed =>
       /\ connected = (link # "none") /\ claimed = connected
       /\ timer => claimed
       /\ claimed => params_ok = acceptable
       /\ advertising = (link = "none")

(* Over a link that is up the program is reset only when the SoftDevice    *)
(* refuses a call: all other errors are those of calls that come after the *)
(* end of the link they are about, or while it is being closed.  It is     *)
(* never reset because the instance of ble_conn_params.c is still that of  *)
(* an earlier link, or because it advertises while there is a link.        *)
ResetOnlyLateOrRefused == failed => refused \/ link # "up"

(* Whatever is lost or refused, a phone can connect again: without a link  *)
(* the program will advertise.                                             *)
BecomesReachable == link = "none" ~> advertising

(* A negotiation ends: a phone that keeps unacceptable parameters is       *)
(* disconnected in the end, however its refusals, its own changes and a    *)
(* busy SoftDevice are interleaved.                                        *)
NegotiationEnds == (link = "up" /\ ~acceptable) ~> (link # "up" \/ acceptable)

LinkGoesOn == BecomesReachable /\ NegotiationEnds
=============================================================================
