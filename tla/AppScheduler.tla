---------------------------- MODULE AppScheduler ----------------------------
(***************************************************************************)
(* components/libraries/scheduler/app_scheduler.c, the queue through which *)
(* every interrupt of the application hands work to the main loop.         *)
(*                                                                         *)
(* app_sched_event_put claims an entry inside a critical region and fills  *)
(* it outside; a handler of higher priority may come in between and put an *)
(* event of its own, so the puts in progress form a stack.  The main loop, *)
(* which executes events, has the lowest priority: it takes no step while  *)
(* a put is in progress.                                                   *)
(***************************************************************************)
EXTENDS Integers, Sequences

CONSTANTS
  Events,        (* what a put is called with: a handler and its data      *)
  LongEvents,    (* those whose data exceeds m_queue_event_size            *)
  QueueSize,     (* m_queue_size: 24 in main.c                             *)
  Nesting        (* interrupt priorities that put events                   *)

ASSUME SchedulerAssumption ==
  /\ QueueSize \in 1 .. 254      (* the indices are uint8_t                *)
  /\ Nesting \in Nat \ {0}
  /\ LongEvents \subseteq Events

VARIABLES
  start,        (* m_queue_start_index                                     *)
  end,          (* m_queue_end_index                                       *)
  slots,        (* m_queue_event_headers and m_queue_event_data            *)
  puts,         (* stack of puts that have claimed an entry: [at, event]   *)
  handling      (* the event passed to the running handler: <<e>> or <<>>  *)

vars == <<start, end, slots, puts, handling>>

Indices == 0 .. QueueSize           (* one entry more than the capacity    *)
Empty == "empty"                    (* an entry never filled               *)

Init ==                             (* app_sched_init *)
  /\ start = 0
  /\ end = 0
  /\ slots = [i \in Indices |-> Empty]
  /\ puts = <<>>
  /\ handling = <<>>

next_index_TooFar(index) == IF index <= QueueSize THEN index + 1 ELSE 0
next_index(index) == IF index < QueueSize THEN index + 1 ELSE 0

app_sched_queue_full_Never == FALSE
app_sched_queue_full == next_index(end) = start
app_sched_queue_empty == end = start

(* The critical region: claim an entry, or find the queue full.  A put     *)
(* that fails (data too long, queue full) changes nothing, and no caller   *)
(* in the application looks at its result.                                 *)
Claim(e) ==
  /\ Len(puts) < Nesting
  /\ e \notin LongEvents
  /\ ~app_sched_queue_full
  /\ puts' = Append(puts, [at |-> end, event |-> e])
  /\ end' = next_index(end)
  /\ UNCHANGED <<start, slots, handling>>

(* Outside the critical region: only the innermost put runs.               *)
Fill ==
  /\ puts # <<>>
  /\ LET p == puts[Len(puts)] IN slots' = [slots EXCEPT ![p.at] = p.event]
  /\ puts' = SubSeq(puts, 1, Len(puts) - 1)
  /\ UNCHANGED <<start, end, handling>>

MainRuns == puts = <<>>

(* app_sched_execute: call the handler with a pointer into the entry,      *)
BeginHandler ==
  /\ MainRuns /\ handling = <<>>
  /\ ~app_sched_queue_empty
  /\ handling' = <<slots[start]>>
  /\ UNCHANGED <<start, end, slots, puts>>

EndHandler_ToEnd ==
  /\ MainRuns /\ handling # <<>>
  /\ handling' = <<>>
  /\ start' = end
  /\ UNCHANGED <<end, slots, puts>>

EndHandler_Stays ==
  /\ MainRuns /\ handling # <<>>
  /\ handling' = <<>>
  /\ UNCHANGED <<start, end, slots, puts>>

(* and only when it has returned move on.                                  *)
EndHandler ==
  /\ MainRuns /\ handling # <<>>
  /\ handling' = <<>>
  /\ start' = next_index(start)
  /\ UNCHANGED <<end, slots, puts>>

Next ==
  \/ \E e \in Events : Claim(e)
  \/ Fill
  \/ BeginHandler
  \/ EndHandler

(* Interrupt handlers return.  The main loop is starved for a while by     *)
(* every interrupt, but the interrupts of this program leave it some time. *)
Fairness == WF_vars(Fill) /\ SF_vars(BeginHandler) /\ SF_vars(EndHandler)

Spec == Init /\ [][Next]_vars /\ Fairness

-----------------------------------------------------------------------------
(* The indices stay inside the buffers, nested puts stay nested, and what  *)
(* app_sched_execute calls is always an event some put has stored.         *)
TypeOK ==
  /\ start \in Indices /\ end \in Indices
  /\ slots \in [Indices -> Events \union {Empty}]
  /\ puts \in Seq([at : Indices, event : Events]) /\ Len(puts) <= Nesting
  /\ handling \in {<<>>} \union {<<e>> : e \in Events}

(* A handler is given a pointer into its entry, not a copy: as long as it  *)
(* runs, no put may write that entry, whichever interrupt it comes from.   *)
HandlerDataStable == handling # <<>> => handling = <<slots[start]>>

Count == (end - start) % (QueueSize + 1)
Position(k) == (start + k - 1) % (QueueSize + 1)

(* The events accepted and not yet done, the claimed entries with what is  *)
(* about to be written to them.                                            *)
EventAt(i) ==
  IF \E p \in 1 .. Len(puts) : puts[p].at = i
  THEN puts[CHOOSE p \in 1 .. Len(puts) : puts[p].at = i].event
  ELSE slots[i]

Queue == INSTANCE EventQueue WITH
  Events <- Events \ LongEvents,
  Capacity <- QueueSize,
  queue <- [k \in 1 .. Count |-> EventAt(Position(k))]

(* app_scheduler implements the bounded queue, with an entry filled after  *)
(* it has been claimed and interrupts in between.                          *)
QueuePromise == Queue!AbsSpec

(* No accepted event waits for ever: the entry at the head is left behind. *)
HeadIsHandled == \A i \in Indices : (start = i /\ end # i) ~> (start # i)
=============================================================================
