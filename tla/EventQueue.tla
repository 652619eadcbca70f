----------------------------- MODULE EventQueue -----------------------------
(***************************************************************************)
(* What app_scheduler promises its users: a bounded first-in first-out     *)
(* queue.  An event is accepted when there is room for it and then handled *)
(* once, in the order of acceptance, with the data it was put with; the    *)
(* event being handled keeps its place until its handler has returned.     *)
(***************************************************************************)
EXTENDS Integers, Sequences

CONSTANTS
  Events,       (* handler and data of an event                            *)
  Capacity      (* m_queue_size                                            *)

VARIABLES
  queue,        (* accepted events, oldest first                           *)
  handling      (* <<e>> while the handler of e runs, else <<>>            *)

absVars == <<queue, handling>>

AbsInit == queue = <<>> /\ handling = <<>>

Accept ==
  /\ Len(queue) < Capacity
  /\ \E e \in Events : queue' = Append(queue, e)
  /\ UNCHANGED handling

StartHandler ==
  /\ handling = <<>> /\ queue # <<>>
  /\ handling' = <<Head(queue)>>
  /\ UNCHANGED queue

HandlerDone ==
  /\ handling # <<>>
  /\ handling' = <<>>
  /\ queue' = Tail(queue)

AbsNext == Accept \/ StartHandler \/ HandlerDone

AbsSpec == AbsInit /\ [][AbsNext]_absVars
=============================================================================
