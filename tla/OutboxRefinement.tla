-------------------------- MODULE OutboxRefinement --------------------------
(***************************************************************************)
(* The store and its workers implement the lifecycle promised to clients,  *)
(* and the outbox and its workers a queue of work with bounded retries.    *)
(*                                                                         *)
(* For the client INITIATED and PENDING, which retries and callbacks       *)
(* alternate, are one state; a delivery is the provider_status only the    *)
(* worker's success path writes.  For the queue a row that is PROCESSING   *)
(* is held by the worker that remembers it, or lost if none does.          *)
(***************************************************************************)
EXTENDS OutboxWorker

StatusOf(state) ==
  CASE state = Absent                     -> "NONE"
    [] state \in {"INITIATED", "PENDING"} -> "OPEN"
    [] OTHER                              -> state

Lifecycle == INSTANCE TxLifecycle WITH
  status    <- [r \in Refs |-> StatusOf(settlement_ledger[r].state)],
  delivered <- {r \in Refs : settlement_ledger[r].provider_status = "DELIVERED"}

\* Every step of the store, the workers and the callbacks is a step of the
\* client's view of one transaction, or leaves that view alone.
ImplementsLifecycle == Lifecycle!LifecycleSpec

\* The references a worker remembers, and the rows in an outbox state.
Held(w) == {ev.ref : ev \in batch[w]}
RowsIn(state) == {r \in Refs : outbox_events[r].state = state}

Queue == INSTANCE WorkQueue WITH
  Items       <- Refs,
  MaxAttempts <- MaxRetries,
  waiting     <- RowsIn("PENDING"),
  held        <- [w \in Workers |-> Held(w)],
  attempts    <- [r \in Refs |-> outbox_events[r].attempt_count],
  done        <- RowsIn("SENT"),
  dead        <- RowsIn("FAILED"),
  lost        <- {r \in RowsIn("PROCESSING") : \A w \in Workers : r \notin Held(w)}

\* Claims, outcomes, retries, stopped workers and failed SQL transactions of
\* any number of workers are steps of one queue that never hands a row to two
\* of them, never after its outcome and never once more than max_retries.
ImplementsQueue == Queue!QueueSpec

=============================================================================
