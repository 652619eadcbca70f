------------------------------ MODULE Fstorage ------------------------------
(***************************************************************************)
(* nrf_fstorage_sd: a queue of flash operations that the SoftDevice        *)
(* executes one at a time and reports by a system event.  A call of the    *)
(* application and the event's handler both end in queue_process; the flag *)
(* queue_running keeps a call out of it while an event is to come, so each *)
(* is one step.  (A call that finds the SoftDevice busy with an operation  *)
(* of somebody else stores PENDING after the answer, and the event that    *)
(* ends that operation could come in between.  Nobody else uses the flash  *)
(* in this firmware; the branch is kept, without that race.)               *)
(***************************************************************************)
EXTENDS Integers, Sequences

CONSTANTS
  QueueSize,     (* NRF_FSTORAGE_SD_QUEUE_SIZE: 4                          *)
  MaxRetries     (* NRF_FSTORAGE_SD_MAX_RETRIES: 8                         *)

ASSUME FstorageAssumption == QueueSize \in Nat \ {0} /\ MaxRetries \in Nat

VARIABLES
  queue,         (* m_fifo; its head is m_p_cur_op unless state is IDLE    *)
  state,         (* m_flags.state                                          *)
  queue_running, (* m_flags.queue_running                                  *)
  retries,       (* m_flags.retries                                        *)
  failed         (* history: an operation has failed since the restart     *)

fsvars == <<queue, state, queue_running, retries, failed>>

fsInit ==
  /\ queue = <<>> /\ state = "IDLE" /\ queue_running = FALSE /\ retries = 0
  /\ failed = FALSE

(* queue_process, with q in the queue.  The SoftDevice accepts the head,   *)
(* is busy with an operation of somebody else, or refuses it; the rest of  *)
(* the queue then stays until the next call.                               *)
queue_process(q, anyFailed) ==
  \/ /\ q = <<>>
     /\ queue' = q /\ state' = "IDLE" /\ queue_running' = FALSE
     /\ failed' = anyFailed
  \/ /\ q # <<>>
     /\ queue' = q /\ state' \in {"EXECUTING", "PENDING"} /\ queue_running' = TRUE
     /\ failed' = anyFailed
  \/ /\ q # <<>>
     /\ queue' = Tail(q) /\ state' = "IDLE" /\ queue_running' = FALSE
     /\ failed' = TRUE

(* write and erase of the API: NRF_ERROR_NO_MEM when the queue is full.    *)
Full == Len(queue) = QueueSize

Request_Unchecked(op) ==
  /\ IF queue_running
     THEN queue' = Append(queue, op) /\ UNCHANGED <<state, queue_running, failed>>
     ELSE queue_process(Append(queue, op), failed)
  /\ UNCHANGED retries

Request(op) ==
  /\ ~Full
  /\ IF queue_running
     THEN queue' = Append(queue, op) /\ UNCHANGED <<state, queue_running, failed>>
     ELSE queue_process(Append(queue, op), failed)
  /\ UNCHANGED retries

is_busy == state # "IDLE"

(* nrf_fstorage_sys_evt_handler: the operation has succeeded, has failed   *)
(* and is tried again up to MaxRetries times, or somebody else's has ended. *)
OnSuccess ==
  /\ state = "EXECUTING"
  /\ retries' = 0
  /\ queue_process(Tail(queue), failed)

OnFailure_Unbounded ==
  /\ state = "EXECUTING"
  /\ retries' = 0 /\ queue_process(queue, failed)

OnFailure ==
  /\ state = "EXECUTING"
  /\ IF retries < MaxRetries
     THEN retries' = retries + 1 /\ queue_process(queue, failed)
     ELSE retries' = 0 /\ queue_process(Tail(queue), TRUE)

OnOther ==
  /\ state = "PENDING"
  /\ queue_process(queue, failed)
  /\ UNCHANGED retries
=============================================================================
