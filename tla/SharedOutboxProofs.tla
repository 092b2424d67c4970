------------------------- MODULE SharedOutboxProofs -------------------------
(***************************************************************************)
(* Theorems about SharedOutbox for any number of current and of legacy     *)
(* workers, any references, inputs, faults and schema.                     *)
(***************************************************************************)
EXTENDS SharedOutbox, AuditProofs, RefinementProofs

USE LegacyWorkersAssumption, RefsAssumption, PayloadsAssumption

\* The two tables whose rows are locked.
LockTables == {"settlement_ledger", "outbox_events"}

-----------------------------------------------------------------------------
(***************************************************************************)
(* Type correctness.                                                       *)
(***************************************************************************)

LEMMA TxUpdateType ==
  ASSUME SqlTypeOK, NEW p \in Workers, NEW ev \in OutboxEvent,
         NEW locks \in SUBSET LockTables, Open(p, ev, locks) \/ Close(p)
  PROVE  tx' \in [Workers -> Tx]
BY DEF SqlTypeOK, Open, Close, NoTx, Tx, LockTables

LEMMA UpdateHeldType ==
  ASSUME TypeOK, NEW p, NEW r \in Refs, NEW state \in OutboxStates,
         NEW attempts \in Nat, NEW due \in BOOLEAN,
         UpdateHeld(p, r, state, attempts, due)
  PROVE  outbox_events' \in [Refs -> OutboxRow]
<1>1. [outbox_events[r] EXCEPT !.state = state, !.attempt_count = attempts,
                               !.due = due] \in OutboxRow
  BY DEF TypeOK, OutboxRow
<1>2. QED
  BY <1>1 DEF UpdateHeld, TypeOK

\* An event of a batch.
LEMMA BatchType ==
  ASSUME TypeOK, NEW p \in Workers, NEW ev \in batch[p]
  PROVE  ev \in OutboxEvent /\ ev.ref \in Refs /\ ev.attempt_count \in Nat
BY DEF TypeOK, OutboxEvent

LEMMA OutcomeType ==
  ASSUME NEW workflow \in {"RETRY_SCHEDULED", "FAILED", "UNKNOWN"}
  PROVE  /\ LedgerStateAfter(workflow) \in LedgerStates
         /\ AuditEvent(workflow, "outbox-worker") \in Event
         /\ AuditEvent("PENDING", "outbox-worker") \in Event
         /\ AuditEvent("SETTLED", "provider-simulator") \in Event
BY DEF LedgerStateAfter, LedgerStates, AuditEvent, Event, WorkflowStates, Sources

LEMMA SqlTypeInit == SqlInit => SqlTypeOK
BY TypeInit DEF SqlInit, SqlTypeOK, Tx, NoTx

\* The steps that leave the tables alone and shrink or keep a batch.
LEMMA SqlTypeQuiet ==
  ASSUME SqlTypeOK, NEW p \in Workers, UNCHANGED tables,
         NEW rest \in SUBSET OutboxEvent, batch' = [batch EXCEPT ![p] = rest],
         tx' \in [Workers -> Tx]
  PROVE  SqlTypeOK'
BY DEF SqlTypeOK, TypeOK, tables

LEMMA RollbackType ==
  ASSUME SqlTypeOK, NEW p \in Workers, NEW ev \in batch[p], Rollback(p, ev)
  PROVE  SqlTypeOK'
<1>1. batch[p] \ {ev} \in SUBSET OutboxEvent /\ batch' = [batch EXCEPT ![p] = batch[p] \ {ev}]
  BY DEF SqlTypeOK, TypeOK, Rollback, Forget
<1>2. tx' \in [Workers -> Tx]
  BY BatchType, TxUpdateType DEF SqlTypeOK, Rollback, LockTables
<1>3. QED
  BY <1>1, <1>2, SqlTypeQuiet DEF Rollback

LEMMA ClaimType ==
  ASSUME TypeOK, NEW p \in Workers, NEW available \in SUBSET Ready, Claim(p, available),
         UNCHANGED <<settlement_ledger, transaction_events>>
  PROVE  TypeOK'
<1> DEFINE claimed == Oldest(available, BatchSize)
<1>1. claimed \subseteq Refs
  BY DEF Oldest, Ready
<1>2. outbox_events' \in [Refs -> OutboxRow]
  BY DEF Claim, TypeOK, OutboxRow, OutboxStates
<1>3. \A r \in claimed :
        [ref |-> r, attempt_count |-> outbox_events[r].attempt_count] \in OutboxEvent
  BY <1>1 DEF TypeOK, OutboxRow, OutboxEvent
<1>4. batch' \in [Workers -> SUBSET OutboxEvent]
  BY <1>3 DEF Claim, TypeOK
<1>5. QED
  BY <1>2, <1>4 DEF TypeOK

-----------------------------------------------------------------------------
(***************************************************************************)
(* What the two commits do, field by field.                                *)
(***************************************************************************)

\* The outbox row of a success: SENT if it was in the state the worker expects.
OutboxCompleted(p, r) ==
  /\ outbox_events[r].state = HeldState(p) =>
       /\ outbox_events'[r].state = "SENT"
       /\ outbox_events'[r].attempt_count = outbox_events[r].attempt_count + 1
       /\ outbox_events'[r].payload = outbox_events[r].payload
  /\ outbox_events[r].state # HeldState(p) => outbox_events'[r] = outbox_events[r]

\* The outbox row of a failure: as it was, or with the new attempt.
OutboxFailed(p, ev, workflow) ==
  IF "outbox_events" \in tx[p].locks /\ outbox_events[ev.ref].state = HeldState(p)
  THEN /\ outbox_events'[ev.ref].state =
            IF workflow = "RETRY_SCHEDULED" THEN "PENDING" ELSE "FAILED"
       /\ outbox_events'[ev.ref].attempt_count = ev.attempt_count + 1
       /\ outbox_events'[ev.ref].payload = outbox_events[ev.ref].payload
  ELSE outbox_events'[ev.ref] = outbox_events[ev.ref]

LEMMA CompleteCommitEffect ==
  ASSUME SqlTypeOK, NEW p \in Workers, NEW ev \in batch[p], CompleteAndCommit(p, ev),
         settlement_ledger[ev.ref].state = "INITIATED"
  PROVE  /\ LedgerCompleted(ev.ref) /\ OthersUnchanged(ev.ref)
         /\ OutboxCompleted(p, ev.ref)
         /\ batch' = [batch EXCEPT ![p] = @ \ {ev}]
         /\ tx' = [tx EXCEPT ![p] = NoTx]
         /\ TypeOK'
<1> DEFINE r   == ev.ref
           row == [settlement_ledger[r] EXCEPT
                     !.state = "SETTLED", !.provider_status = "DELIVERED"]
<1>1. /\ r \in Refs /\ settlement_ledger[r] \in LedgerRow /\ outbox_events[r] \in OutboxRow
      /\ TypeOK
  BY BatchType DEF SqlTypeOK, TypeOK
<1>2. /\ UpdateLedger(r, row, 2)
      /\ transaction_events' = [transaction_events EXCEPT ![r] =
           Append(Append(@, AuditEvent("PENDING", "outbox-worker")),
                  AuditEvent("SETTLED", "provider-simulator"))]
      /\ UpdateHeld(p, r, "SENT", outbox_events[r].attempt_count + 1,
                    outbox_events[r].due)
      /\ batch' = [batch EXCEPT ![p] = @ \ {ev}]
      /\ tx' = [tx EXCEPT ![p] = NoTx]
  BY DEF CompleteAndCommit, Forget, Close
<1>3. row \in LedgerRow
  BY <1>1 DEF LedgerRow, LedgerStates
<1>4. /\ settlement_ledger'[r].state = "SETTLED"
      /\ settlement_ledger'[r].recon_status = settlement_ledger[r].recon_status
      /\ settlement_ledger'[r].provider_status = "DELIVERED"
      /\ settlement_ledger'[r].version = settlement_ledger[r].version + 2
      /\ \A q \in Refs \ {r} : settlement_ledger'[q] = settlement_ledger[q]
  BY <1>1, <1>2 DEF UpdateLedger, TypeOK, LedgerRow
<1>5. /\ transaction_events'[r] =
           Append(Append(transaction_events[r], AuditEvent("PENDING", "outbox-worker")),
                  AuditEvent("SETTLED", "provider-simulator"))
      /\ \A q \in Refs \ {r} : transaction_events'[q] = transaction_events[q]
  BY <1>1, <1>2 DEF TypeOK
<1>6. OutboxCompleted(p, r) /\ \A q \in Refs \ {r} : outbox_events'[q] = outbox_events[q]
  BY <1>1, <1>2 DEF UpdateHeld, OutboxCompleted, TypeOK, OutboxRow
<1>7. TypeOK'
  <2>1. settlement_ledger' \in [Refs -> LedgerRow]
    BY <1>1, <1>2, <1>3, UpdateLedgerType
  <2>2. transaction_events' \in [Refs -> Seq(Event)]
    BY <1>1, <1>2, OutcomeType DEF TypeOK
  <2>3. outbox_events' \in [Refs -> OutboxRow]
    <3>1. outbox_events[r].attempt_count + 1 \in Nat /\ outbox_events[r].due \in BOOLEAN
      BY <1>1 DEF OutboxRow
    <3>2. QED
      BY <1>1, <1>2, <3>1, UpdateHeldType DEF OutboxStates
  <2>4. batch' \in [Workers -> SUBSET OutboxEvent]
    BY <1>1, <1>2 DEF TypeOK
  <2>5. QED
    BY <2>1, <2>2, <2>3, <2>4 DEF TypeOK
<1>8. QED
  BY <1>1, <1>2, <1>4, <1>5, <1>6, <1>7 DEF LedgerCompleted, OthersUnchanged

LEMMA FailCommitEffect ==
  ASSUME SqlTypeOK, NEW p \in Workers, NEW ev \in batch[p], FailAndCommit(p, ev),
         ~Rollback(p, ev)
  PROVE  /\ OthersUnchanged(ev.ref)
         /\ \E workflow \in {"RETRY_SCHEDULED", "FAILED", "UNKNOWN"} :
              LedgerFailed(ev.ref, workflow) /\ OutboxFailed(p, ev, workflow)
         /\ batch' = [batch EXCEPT ![p] = @ \ {ev}]
         /\ tx' = [tx EXCEPT ![p] = NoTx]
         /\ TypeOK'
<1> DEFINE r        == ev.ref
           answer   == ShouldSimulateFailure(outbox_events[r].payload)
           next     == ev.attempt_count + 1
           workflow == FailureWorkflow(next, answer.decline)
           status   == CASE workflow = "FAILED"  -> "DECLINED"
                         [] workflow = "UNKNOWN" -> "TIMEOUT"
                         [] OTHER -> settlement_ledger[r].provider_status
           row      == [settlement_ledger[r] EXCEPT
                          !.state = LedgerStateAfter(workflow),
                          !.provider_status = status]
           state    == IF workflow = "RETRY_SCHEDULED" THEN "PENDING" ELSE "FAILED"
<1>1. /\ r \in Refs /\ next \in Nat
      /\ settlement_ledger[r] \in LedgerRow /\ outbox_events[r] \in OutboxRow
      /\ TypeOK
  <2>1. TypeOK
    BY DEF SqlTypeOK
  <2>2. r \in Refs /\ ev.attempt_count \in Nat
    BY <2>1, BatchType
  <2>3. settlement_ledger[r] \in LedgerRow /\ outbox_events[r] \in OutboxRow
    BY <2>1, <2>2 DEF TypeOK
  <2>4. QED
    BY <2>1, <2>2, <2>3
<1>2. workflow \in {"RETRY_SCHEDULED", "FAILED", "UNKNOWN"}
  BY <1>1, FailureWorkflowType DEF ShouldSimulateFailure
<1>3. /\ settlement_ledger[r].state \in {"INITIATED", "PENDING"}
      /\ UpdateLedger(r, row, 1)
      /\ transaction_events' = [transaction_events EXCEPT
           ![r] = Append(@, AuditEvent(workflow, "outbox-worker"))]
      /\ IF "outbox_events" \in tx[p].locks
         THEN UpdateHeld(p, r, state, next, FALSE)
         ELSE UNCHANGED outbox_events
      /\ batch' = [batch EXCEPT ![p] = @ \ {ev}]
      /\ tx' = [tx EXCEPT ![p] = NoTx]
  BY DEF FailAndCommit, AcceptsFailure, UpdateLocked, Forget, Close
<1>4. status \in {"NONE", "DELIVERED", "DECLINED", "TIMEOUT"}
  BY <1>1, <1>2 DEF LedgerRow
<1> HIDE DEF workflow, status
<1>5. row \in LedgerRow
  BY <1>1, <1>2, <1>4, OutcomeType DEF LedgerRow
<1>6. /\ settlement_ledger'[r].state = LedgerStateAfter(workflow)
      /\ settlement_ledger'[r].provider_status = status
      /\ settlement_ledger'[r].recon_status = settlement_ledger[r].recon_status
      /\ settlement_ledger'[r].version = settlement_ledger[r].version + 1
      /\ \A q \in Refs \ {r} : settlement_ledger'[q] = settlement_ledger[q]
  BY <1>1, <1>3 DEF UpdateLedger, TypeOK, LedgerRow
<1>7. /\ transaction_events'[r] =
           Append(transaction_events[r], AuditEvent(workflow, "outbox-worker"))
      /\ \A q \in Refs \ {r} : transaction_events'[q] = transaction_events[q]
  BY <1>1, <1>3 DEF TypeOK
<1>8. /\ OutboxFailed(p, ev, workflow)
      /\ \A q \in Refs \ {r} : outbox_events'[q] = outbox_events[q]
  <2> HIDE DEF next, state
  <2>1. CASE "outbox_events" \in tx[p].locks
    <3>1. UpdateHeld(p, r, state, next, FALSE)
      BY <1>3, <2>1
    <3>2. /\ outbox_events[r].state = HeldState(p) =>
               /\ outbox_events'[r].state = state
               /\ outbox_events'[r].attempt_count = next
               /\ outbox_events'[r].payload = outbox_events[r].payload
          /\ outbox_events[r].state # HeldState(p) => outbox_events'[r] = outbox_events[r]
          /\ \A q \in Refs \ {r} : outbox_events'[q] = outbox_events[q]
      BY <1>1, <3>1 DEF UpdateHeld, TypeOK, OutboxRow
    <3>3. QED
      BY <2>1, <3>2 DEF OutboxFailed, next, state
  <2>2. CASE "outbox_events" \notin tx[p].locks
    BY <1>3, <2>2 DEF OutboxFailed
  <2>3. QED
    BY <2>1, <2>2
<1>9. TypeOK'
  <2>1. settlement_ledger' \in [Refs -> LedgerRow]
    BY <1>1, <1>3, <1>5, UpdateLedgerType
  <2>2. transaction_events' \in [Refs -> Seq(Event)]
    BY <1>1, <1>2, <1>3, OutcomeType DEF TypeOK
  <2>3. outbox_events' \in [Refs -> OutboxRow]
    <3>1. state \in OutboxStates
      BY DEF OutboxStates
    <3>2. QED
      BY <1>1, <1>3, <3>1, UpdateHeldType DEF TypeOK
  <2>4. batch' \in [Workers -> SUBSET OutboxEvent]
    BY <1>1, <1>3 DEF TypeOK
  <2>5. QED
    BY <2>1, <2>2, <2>3, <2>4 DEF TypeOK
<1>10. LedgerFailed(r, workflow)
  BY <1>3, <1>6, <1>7 DEF LedgerFailed, status
<1>11. QED
  BY <1>2, <1>3, <1>6, <1>7, <1>8, <1>9, <1>10 DEF OthersUnchanged

-----------------------------------------------------------------------------
(***************************************************************************)
(* The cases of a step.                                                    *)
(***************************************************************************)

\* A transaction is opened on an event of the worker's batch.
Opened(p, ev) ==
  /\ UNCHANGED vars
  /\ \/ /\ ~Fails(p, ev) /\ settlement_ledger[ev.ref].state = "INITIATED"
        /\ ~Locked("settlement_ledger", ev.ref)
        /\ Open(p, ev, {"settlement_ledger"})
     \/ /\ Fails(p, ev) /\ outbox_events[ev.ref].state = HeldState(p)
        /\ ~Locked("outbox_events", ev.ref)
        /\ Open(p, ev, {"outbox_events"})
     \/ /\ Fails(p, ev) /\ outbox_events[ev.ref].state # HeldState(p)
        /\ Open(p, ev, {})

\* A transaction, if there is one, is rolled back; the tables stay as they are
\* and events of the batch are forgotten.
SqlDropped(p) ==
  /\ UNCHANGED tables
  /\ \E rest \in SUBSET batch[p] : batch' = [batch EXCEPT ![p] = rest]
  /\ tx' = [tx EXCEPT ![p] = NoTx]

LEMMA RollbackDrops ==
  ASSUME TypeOK, NEW p \in Workers, NEW ev, Rollback(p, ev)
  PROVE  SqlDropped(p)
BY DEF Rollback, Forget, Close, SqlDropped

\* A step of SharedOutbox is one of these.
SqlCase ==
  \/ \E r \in Refs : Create(r) /\ tx' = tx
  \/ \E r \in Refs : /\ TxReconcile(r) \/ MTNCollectionCallback(r)
                     /\ ~Locked("settlement_ledger", r) /\ tx' = tx
  \/ \E r \in Refs : BackoffElapses(r) /\ tx' = tx
  \/ \E p \in Workers : FindReadyEvents(p)
  \/ \E p \in Workers : ClaimUnlocked(p)
  \/ \E p \in Workers : \E ev \in batch[p] : Opened(p, ev)
  \/ \E p \in Workers : \E ev \in batch[p] : CompleteAndCommit(p, ev)
  \/ \E p \in Workers : \E ev \in batch[p] : FailAndCommit(p, ev) /\ ~Rollback(p, ev)
  \/ \E p \in Workers : SqlDropped(p)
  \/ UNCHANGED sqlVars

LEMMA SqlCases ==
  ASSUME SqlTypeOK, [SqlNext]_sqlVars,
         \A p \in Workers : \A ev \in tx[p].event : ev \in batch[p]
  PROVE  SqlCase
<1>t. TypeOK
  BY DEF SqlTypeOK
<1>1. ASSUME NEW r \in Refs, SqlRefStep(r)
      PROVE  \/ Create(r) /\ tx' = tx
             \/ /\ TxReconcile(r) \/ MTNCollectionCallback(r)
                /\ ~Locked("settlement_ledger", r) /\ tx' = tx
             \/ BackoffElapses(r) /\ tx' = tx
  BY <1>1 DEF SqlRefStep
<1>2. ASSUME NEW p \in Workers, NEW ev \in batch[p], LockLedgerRow(p, ev)
      PROVE  Opened(p, ev) \/ SqlDropped(p)
  BY <1>t, <1>2, RollbackDrops DEF LockLedgerRow, Opened
<1>3. ASSUME NEW p \in Workers, NEW ev \in batch[p], LockOutboxRow(p, ev)
      PROVE  Opened(p, ev)
  BY <1>3 DEF LockOutboxRow, Opened
<1>4. ASSUME NEW p \in Workers, AbortTransaction(p)
      PROVE  SqlDropped(p)
  BY <1>t, <1>4, RollbackDrops DEF AbortTransaction
<1>5. ASSUME NEW p \in Workers, StopProcess(p)
      PROVE  SqlDropped(p)
  BY <1>5 DEF StopProcess, StopWorker, Close, SqlDropped
<1>6. ASSUME NEW p \in Workers, NEW ev \in batch[p], FailAndCommit(p, ev)
      PROVE  (FailAndCommit(p, ev) /\ ~Rollback(p, ev)) \/ SqlDropped(p)
  BY <1>t, <1>6, RollbackDrops
<1>7. ASSUME NEW p \in Workers, SqlWorkerStep(p)
      PROVE  \/ FindReadyEvents(p) \/ ClaimUnlocked(p) \/ SqlDropped(p)
             \/ \E ev \in batch[p] : Opened(p, ev)
             \/ \E ev \in batch[p] : CompleteAndCommit(p, ev)
             \/ \E ev \in batch[p] : FailAndCommit(p, ev) /\ ~Rollback(p, ev)
  BY <1>2, <1>3, <1>4, <1>5, <1>6, <1>7 DEF SqlWorkerStep, BeginOutcome, CommitOutcome
<1>8. QED
  BY <1>1, <1>7 DEF SqlNext, SqlCase

-----------------------------------------------------------------------------
(***************************************************************************)
(* The inductive invariant: what an open transaction holds, and that it is *)
(* the only one that does.                                                 *)
(***************************************************************************)

\* A ledger row and its outbox row are inserted together.
RowsPaired ==
  \A r \in Refs : outbox_events[r].state = Absent <=> settlement_ledger[r].state = Absent

\* Nobody remembers an event that was never written.
BatchRowsExist ==
  \A p \in Workers : \A ev \in batch[p] : settlement_ledger[ev.ref].state # Absent

\* What worker p knows of the event whose outcome it writes: a success holds the
\* ledger row, a failure at most the outbox row.
OpenTx(p, ev) ==
  /\ ev \in batch[p] /\ tx[p].event = {ev}
  /\ \/ /\ ~Fails(p, ev) /\ tx[p].locks = {"settlement_ledger"}
        /\ settlement_ledger[ev.ref].state = "INITIATED"
     \/ /\ Fails(p, ev) /\ tx[p].locks = {"outbox_events"}
        /\ outbox_events[ev.ref].state = HeldState(p)
     \/ Fails(p, ev) /\ tx[p].locks = {}

TransactionsHold == \A p \in Workers : \A ev \in tx[p].event : OpenTx(p, ev)

\* A row lock has one holder.
OneHolder ==
  \A p, q \in Workers, table \in LockTables, r \in Refs :
    Holds(p, table, r) /\ Holds(q, table, r) => p = q

SqlInv == SqlTypeOK /\ RowsPaired /\ BatchRowsExist /\ TransactionsHold /\ OneHolder

\* Worker p aside, a step keeps what open transactions know if it keeps the
\* payload of rows that exist and the state of rows that others have locked.
LEMMA TransactionsKept ==
  ASSUME TypeOK, BatchRowsExist, TransactionsHold, NEW Movers \in SUBSET Workers,
         \A q \in Workers \ Movers : tx'[q] = tx[q] /\ batch'[q] = batch[q],
         \A q \in Movers : \A ev \in tx'[q].event : OpenTx(q, ev)',
         \A r \in Refs : settlement_ledger[r].state # Absent =>
           outbox_events'[r].payload = outbox_events[r].payload,
         \A r \in Refs, q \in Workers \ Movers :
           /\ Holds(q, "settlement_ledger", r) =>
                settlement_ledger'[r].state = settlement_ledger[r].state
           /\ Holds(q, "outbox_events", r) =>
                outbox_events'[r].state = outbox_events[r].state
  PROVE  TransactionsHold'
<1> SUFFICES ASSUME NEW q \in Workers \ Movers, NEW ev \in tx'[q].event
             PROVE  OpenTx(q, ev)'
  BY DEF TransactionsHold
<1>1. OpenTx(q, ev) /\ tx'[q] = tx[q] /\ batch'[q] = batch[q] /\ ev \in tx[q].event
  BY DEF TransactionsHold
<1>2. ev.ref \in Refs /\ settlement_ledger[ev.ref].state # Absent
  BY <1>1, BatchType DEF OpenTx, BatchRowsExist
<1>3. Fails(q, ev)' <=> Fails(q, ev)
  BY <1>2 DEF Fails
<1>4. /\ "settlement_ledger" \in tx[q].locks =>
           settlement_ledger'[ev.ref].state = settlement_ledger[ev.ref].state
      /\ "outbox_events" \in tx[q].locks =>
           outbox_events'[ev.ref].state = outbox_events[ev.ref].state
  BY <1>1, <1>2 DEF Holds
<1>5. QED
  BY <1>1, <1>3, <1>4 DEF OpenTx, HeldState

\* A step that gives worker p only locks nobody holds keeps one holder for each.
LEMMA OneHolderKept ==
  ASSUME OneHolder, NEW p \in Workers,
         \A q \in Workers \ {p} : tx'[q] = tx[q],
         \A table \in LockTables, r \in Refs :
           Holds(p, table, r)' => Holds(p, table, r) \/ ~Locked(table, r)
  PROVE  OneHolder'
<1>1. \A q \in Workers \ {p}, table \in LockTables, r \in Refs :
        Holds(q, table, r)' <=> Holds(q, table, r)
  BY DEF Holds
<1>2. ASSUME NEW u \in Workers, NEW v \in Workers, NEW table \in LockTables,
             NEW r \in Refs, Holds(u, table, r)', Holds(v, table, r)'
      PROVE  u = v
  <2>1. CASE u # p /\ v # p
    BY <1>1, <1>2, <2>1 DEF OneHolder
  <2>2. CASE u = p /\ v # p
    BY <1>1, <1>2, <2>2 DEF OneHolder, Locked
  <2>3. CASE u # p /\ v = p
    BY <1>1, <1>2, <2>3 DEF OneHolder, Locked
  <2>4. QED
    BY <2>1, <2>2, <2>3
<1>3. QED
  BY <1>2 DEF OneHolder

-----------------------------------------------------------------------------
\* What a poll remembers of the rows it has found.
Remembered(found) ==
  {[ref |-> r, attempt_count |-> outbox_events[r].attempt_count] : r \in found}

LEMMA RememberedEvents ==
  ASSUME TypeOK, NEW found \in SUBSET Refs
  PROVE  /\ Remembered(found) \in SUBSET OutboxEvent
         /\ \A ev \in Remembered(found) :
              ev.ref \in found /\ ev.attempt_count = outbox_events[ev.ref].attempt_count
BY DEF Remembered, TypeOK, OutboxRow, OutboxEvent

LEMMA FindEffect ==
  ASSUME SqlTypeOK, NEW p \in Workers, FindReadyEvents(p)
  PROVE  \E found \in SUBSET Refs :
           /\ UNCHANGED tables /\ tx' = tx
           /\ p \in LegacyWorkers /\ batch[p] = {}
           /\ \A r \in found : outbox_events[r].state = "PENDING"
           /\ batch' = [batch EXCEPT ![p] = Remembered(found)]
           /\ TypeOK'
<1> DEFINE found == Oldest(Ready, BatchSize)
<1>1. found \in SUBSET Refs /\ \A r \in found : outbox_events[r].state = "PENDING"
  BY DEF Oldest, Ready
<1>2. /\ UNCHANGED tables /\ tx' = tx /\ p \in LegacyWorkers /\ batch[p] = {}
      /\ batch' = [batch EXCEPT ![p] = Remembered(found)]
  BY DEF FindReadyEvents, Remembered
<1> HIDE DEF found
<1>3. TypeOK
  BY DEF SqlTypeOK
<1>4. Remembered(found) \in SUBSET OutboxEvent
  BY <1>1, <1>3, RememberedEvents
<1>5. TypeOK'
  BY <1>2, <1>3, <1>4 DEF TypeOK, tables
<1>6. QED
  BY <1>1, <1>2, <1>5

\* What the claim of rows does.
ClaimedRows(p, claimed) ==
  /\ settlement_ledger' = settlement_ledger
  /\ transaction_events' = transaction_events /\ tx' = tx
  /\ p \in CurrentWorkers /\ batch[p] = {}
  /\ \A r \in claimed :
       /\ ~Locked("outbox_events", r)
       /\ outbox_events[r].state = "PENDING"
       /\ outbox_events'[r].state = "PROCESSING"
       /\ outbox_events'[r].attempt_count = outbox_events[r].attempt_count
       /\ outbox_events'[r].payload = outbox_events[r].payload
  /\ \A r \in Refs \ claimed : outbox_events'[r] = outbox_events[r]
  /\ batch' = [batch EXCEPT ![p] = Remembered(claimed)]
  /\ TypeOK'

LEMMA ClaimUnlockedEffect ==
  ASSUME SqlTypeOK, NEW p \in Workers, ClaimUnlocked(p)
  PROVE  \E claimed \in SUBSET Refs : ClaimedRows(p, claimed)
<1> DEFINE unlocked == {r \in Ready : ~Locked("outbox_events", r)}
<1>1. PICK locked \in SUBSET unlocked : Claim(p, unlocked \ locked)
  BY DEF ClaimUnlocked
<1>2. /\ settlement_ledger' = settlement_ledger /\ transaction_events' = transaction_events
      /\ tx' = tx /\ p \in CurrentWorkers /\ batch[p] = {}
  BY DEF ClaimUnlocked
<1> DEFINE claimed == Oldest(unlocked \ locked, BatchSize)
<1>3. /\ claimed \in SUBSET Refs
      /\ \A r \in claimed : outbox_events[r].state = "PENDING" /\ ~Locked("outbox_events", r)
  BY DEF Oldest, Ready
<1>4. /\ outbox_events' = [r \in Refs |->
           IF r \in claimed
           THEN [outbox_events[r] EXCEPT !.state = "PROCESSING"]
           ELSE outbox_events[r]]
      /\ batch' = [batch EXCEPT ![p] = Remembered(claimed)]
  BY <1>1 DEF Claim, Remembered
<1>5. TypeOK'
  <2>1. unlocked \ locked \in SUBSET Ready /\ TypeOK
    BY DEF SqlTypeOK
  <2>2. QED
    BY <1>1, <1>2, <2>1, ClaimType
<1> HIDE DEF claimed, unlocked
<1>6. \A r \in claimed :
        /\ outbox_events'[r].state = "PROCESSING"
        /\ outbox_events'[r].attempt_count = outbox_events[r].attempt_count
        /\ outbox_events'[r].payload = outbox_events[r].payload
  BY <1>3, <1>4 DEF SqlTypeOK, TypeOK, OutboxRow
<1>7. \A r \in Refs \ claimed : outbox_events'[r] = outbox_events[r]
  BY <1>4
<1>8. QED
  BY <1>2, <1>3, <1>4, <1>5, <1>6, <1>7 DEF ClaimedRows

\* An open transaction finds its row, which nobody else holds, as it left it.
LEMMA OpenTxFacts ==
  ASSUME SqlInv, NEW p \in Workers, NEW ev \in tx[p].event
  PROVE  /\ ev \in batch[p] /\ ev.ref \in Refs /\ tx[p].event = {ev}
         /\ settlement_ledger[ev.ref].state # Absent
         /\ outbox_events[ev.ref].state # Absent
         /\ tx[p].locks \subseteq LockTables
<1>1. OpenTx(p, ev) /\ TypeOK
  BY DEF SqlInv, SqlTypeOK, TransactionsHold
<1>2. ev \in batch[p] /\ tx[p].event = {ev} /\ tx[p].locks \subseteq LockTables
  BY <1>1 DEF OpenTx, LockTables
<1>3. ev.ref \in Refs
  BY <1>1, <1>2, BatchType
<1>4. QED
  BY <1>2, <1>3 DEF SqlInv, BatchRowsExist, RowsPaired

\* What each of the two commits knows when it is made.
LEMMA CommitFacts ==
  ASSUME SqlInv, NEW p \in Workers, NEW ev \in batch[p]
  PROVE  /\ CompleteAndCommit(p, ev) =>
              /\ tx[p].event = {ev} /\ tx[p].locks = {"settlement_ledger"}
              /\ ~Fails(p, ev) /\ settlement_ledger[ev.ref].state = "INITIATED"
         /\ FailAndCommit(p, ev) =>
              /\ tx[p].event = {ev} /\ tx[p].locks \subseteq {"outbox_events"} /\ Fails(p, ev)
              /\ "outbox_events" \in tx[p].locks =>
                   outbox_events[ev.ref].state = HeldState(p)
BY DEF SqlInv, TransactionsHold, OpenTx, CompleteAndCommit, FailAndCommit

LEMMA RowsNext ==
  ASSUME SqlInv, [SqlNext]_sqlVars
  PROVE  TypeOK' /\ RowsPaired' /\ BatchRowsExist'
<1> DEFINE Goal == TypeOK' /\ RowsPaired' /\ BatchRowsExist'
<1>t. TypeOK
  BY DEF SqlInv, SqlTypeOK
<1>r. \A p \in Workers : \A ev \in batch[p] :
        ev.ref \in Refs /\ settlement_ledger[ev.ref].state # Absent
  BY <1>t, BatchType DEF SqlInv, BatchRowsExist
<1>1. ASSUME NEW r \in Refs, Create(r), tx' = tx
      PROVE  Goal
  <2>1. TypeOK'
    BY <1>t, <1>1, TypeNext DEF Next, RefStep
  <2>2. /\ OthersUnchanged(r) /\ batch' = batch
        /\ settlement_ledger'[r].state = "INITIATED" /\ outbox_events'[r].state = "PENDING"
    BY <1>t, <1>1, CreateEffect
  <2>3. RowsPaired'
    BY <2>2 DEF SqlInv, RowsPaired, OthersUnchanged, Absent
  <2>4. BatchRowsExist'
    BY <1>r, <2>2 DEF BatchRowsExist, OthersUnchanged, Absent
  <2>5. QED
    BY <2>1, <2>3, <2>4
<1>2. ASSUME NEW r \in Refs, TxReconcile(r) \/ MTNCollectionCallback(r), tx' = tx
      PROVE  Goal
  <2>1. TypeOK'
    BY <1>t, <1>2, TypeNext DEF Next, RefStep
  <2>2. PICK target \in LedgerStates :
           /\ CanTransition(settlement_ledger[r].state, target)
           /\ OthersUnchanged(r) /\ batch' = batch
           /\ settlement_ledger'[r].state = target /\ outbox_events' = outbox_events
    BY <1>t, <1>2, ReconcileEffect
  <2>3. settlement_ledger[r].state # Absent /\ target # Absent
    BY <2>2 DEF CanTransition, LedgerStates, Absent
  <2>4. RowsPaired'
    BY <2>2, <2>3 DEF SqlInv, RowsPaired, OthersUnchanged
  <2>5. BatchRowsExist'
    BY <1>r, <2>2, <2>3 DEF BatchRowsExist, OthersUnchanged
  <2>6. QED
    BY <2>1, <2>4, <2>5
<1>3. ASSUME NEW r \in Refs, BackoffElapses(r), tx' = tx
      PROVE  Goal
  <2>1. TypeOK'
    BY <1>t, <1>3, TypeNext DEF Next, RefStep
  <2>2. QED
    BY <1>t, <1>3, <2>1, BackoffEffect DEF SqlInv, RowsPaired, BatchRowsExist
<1>4. ASSUME NEW p \in Workers, FindReadyEvents(p)
      PROVE  Goal
  <2>1. PICK found \in SUBSET Refs :
           /\ UNCHANGED tables /\ TypeOK'
           /\ \A r \in found : outbox_events[r].state = "PENDING"
           /\ batch' = [batch EXCEPT ![p] = Remembered(found)]
    BY <1>4, FindEffect DEF SqlInv
  <2>2. \A ev \in Remembered(found) : settlement_ledger[ev.ref].state # Absent
    BY <1>t, <2>1, RememberedEvents DEF SqlInv, RowsPaired, Absent
  <2>3. BatchRowsExist'
    BY <1>t, <1>r, <2>1, <2>2 DEF BatchRowsExist, TypeOK, tables
  <2>4. QED
    BY <2>1, <2>3 DEF SqlInv, RowsPaired, tables
<1>5. ASSUME NEW p \in Workers, ClaimUnlocked(p)
      PROVE  Goal
  <2>0. PICK claimed \in SUBSET Refs : ClaimedRows(p, claimed)
    BY <1>5, ClaimUnlockedEffect DEF SqlInv
  <2>1. /\ settlement_ledger' = settlement_ledger /\ TypeOK'
        /\ \A r \in claimed : /\ outbox_events[r].state = "PENDING"
                              /\ outbox_events'[r].state = "PROCESSING"
        /\ \A r \in Refs \ claimed : outbox_events'[r] = outbox_events[r]
        /\ batch' = [batch EXCEPT ![p] = Remembered(claimed)]
    BY <2>0 DEF ClaimedRows
  <2>2. \A ev \in Remembered(claimed) : settlement_ledger[ev.ref].state # Absent
    BY <1>t, <2>1, RememberedEvents DEF SqlInv, RowsPaired, Absent
  <2>3. BatchRowsExist'
    BY <1>t, <1>r, <2>1, <2>2 DEF BatchRowsExist, TypeOK
  <2>4. RowsPaired'
    BY <2>1 DEF SqlInv, RowsPaired, Absent
  <2>5. QED
    BY <2>1, <2>3, <2>4
<1>6. ASSUME NEW p \in Workers, NEW ev \in batch[p], CompleteAndCommit(p, ev)
      PROVE  Goal
  <2> DEFINE r == ev.ref
  <2>1. settlement_ledger[r].state = "INITIATED" /\ r \in Refs
    BY <1>r, <1>6, CommitFacts
  <2>2. /\ LedgerCompleted(r) /\ OthersUnchanged(r) /\ OutboxCompleted(p, r)
        /\ batch' = [batch EXCEPT ![p] = @ \ {ev}] /\ TypeOK'
    BY <1>6, <2>1, CompleteCommitEffect DEF SqlInv
  <2>3. /\ settlement_ledger'[r].state = "SETTLED"
        /\ outbox_events[r].state # Absent /\ outbox_events'[r].state # Absent
    BY <2>1, <2>2 DEF LedgerCompleted, OutboxCompleted, SqlInv, RowsPaired, Absent
  <2>4. RowsPaired'
    BY <2>2, <2>3 DEF SqlInv, RowsPaired, OthersUnchanged, Absent
  <2>5. \A q \in Workers : batch'[q] \subseteq batch[q]
    BY <1>t, <2>2 DEF TypeOK
  <2>6. BatchRowsExist'
    BY <1>r, <2>2, <2>3, <2>5 DEF BatchRowsExist, OthersUnchanged, Absent
  <2>7. QED
    BY <2>2, <2>4, <2>6
<1>7. ASSUME NEW p \in Workers, NEW ev \in batch[p], FailAndCommit(p, ev), ~Rollback(p, ev)
      PROVE  Goal
  <2> DEFINE r == ev.ref
  <2>1. PICK workflow \in {"RETRY_SCHEDULED", "FAILED", "UNKNOWN"} :
           LedgerFailed(r, workflow) /\ OutboxFailed(p, ev, workflow)
    BY <1>7, FailCommitEffect DEF SqlInv
  <2>2. /\ OthersUnchanged(r) /\ batch' = [batch EXCEPT ![p] = @ \ {ev}] /\ TypeOK'
        /\ r \in Refs
    BY <1>r, <1>7, FailCommitEffect DEF SqlInv
  <2>3. settlement_ledger'[r].state # Absent
    BY <2>1 DEF LedgerFailed, LedgerStateAfter, Absent
  <2>4. outbox_events[r].state # Absent /\ outbox_events'[r].state # Absent
    BY <1>r, <2>1 DEF OutboxFailed, SqlInv, RowsPaired, Absent
  <2>5. RowsPaired'
    BY <2>2, <2>3, <2>4 DEF SqlInv, RowsPaired, OthersUnchanged
  <2>6. \A q \in Workers : batch'[q] \subseteq batch[q]
    BY <1>t, <2>2 DEF TypeOK
  <2>7. BatchRowsExist'
    BY <1>r, <2>2, <2>3, <2>6 DEF BatchRowsExist, OthersUnchanged
  <2>8. QED
    BY <2>2, <2>5, <2>7
<1>8. ASSUME NEW p \in Workers, SqlDropped(p)
      PROVE  Goal
  <2>1. UNCHANGED tables /\ \A q \in Workers : batch'[q] \subseteq batch[q]
    BY <1>t, <1>8 DEF SqlDropped, TypeOK
  <2>2. TypeOK'
    BY <1>t, <1>8 DEF SqlDropped, TypeOK, tables
  <2>3. QED
    BY <1>r, <2>1, <2>2 DEF SqlInv, RowsPaired, BatchRowsExist, tables
<1>9. CASE UNCHANGED vars
  BY <1>t, <1>9 DEF vars, TypeOK, SqlInv, RowsPaired, BatchRowsExist
<1>10. ASSUME NEW p \in Workers, NEW ev \in batch[p], Opened(p, ev)
       PROVE  Goal
  BY <1>9, <1>10 DEF Opened
<1>11. UNCHANGED sqlVars => Goal
  BY <1>9 DEF sqlVars, vars
<1>12. SqlCase
  BY OpenTxFacts, SqlCases DEF SqlInv
<1> HIDE DEF Goal
<1>13. Goal
  BY <1>1, <1>2, <1>3, <1>4, <1>5, <1>6, <1>7, <1>8, <1>10, <1>11, <1>12 DEF SqlCase
<1>14. QED
  BY <1>13 DEF Goal


\* A worker without an open transaction holds nothing.
LEMMA ClosedTx ==
  ASSUME SqlTypeOK, NEW p \in Workers, tx' = [tx EXCEPT ![p] = NoTx]
  PROVE  /\ tx' \in [Workers -> Tx] /\ tx'[p].event = {}
         /\ \A q \in Workers \ {p} : tx'[q] = tx[q]
         /\ \A table \in LockTables, r \in Refs : ~Holds(p, table, r)'
<1>1. /\ tx' \in [Workers -> Tx] /\ tx'[p] = NoTx
      /\ \A q \in Workers \ {p} : tx'[q] = tx[q]
  BY DEF SqlTypeOK, NoTx, Tx
<1>2. QED
  BY <1>1 DEF NoTx, Holds

\* A row whose lock is held by another worker than the one that has it locked
\* already: there is none.
LEMMA NotHeldByOthers ==
  ASSUME SqlInv, NEW p \in Workers, NEW ev \in tx[p].event, NEW table \in tx[p].locks,
         NEW q \in Workers \ {p}
  PROVE  ~Holds(q, table, ev.ref)
<1>1. ev.ref \in Refs /\ table \in LockTables
  BY OpenTxFacts
<1>2. Holds(p, table, ev.ref)
  BY DEF Holds
<1>3. QED
  BY <1>1, <1>2 DEF SqlInv, OneHolder

LEMMA HeldRowsExist ==
  ASSUME SqlInv, NEW q \in Workers, NEW table, NEW r \in Refs, Holds(q, table, r)
  PROVE  settlement_ledger[r].state # Absent
BY OpenTxFacts DEF Holds

LEMMA LocksNext ==
  ASSUME SqlInv, [SqlNext]_sqlVars
  PROVE  tx' \in [Workers -> Tx] /\ TransactionsHold' /\ OneHolder'
<1> DEFINE Goal == tx' \in [Workers -> Tx] /\ TransactionsHold' /\ OneHolder'
<1>t. TypeOK /\ SqlTypeOK /\ tx \in [Workers -> Tx] /\ BatchRowsExist /\ TransactionsHold
      /\ OneHolder
  BY DEF SqlInv, SqlTypeOK
<1>s. tx' = tx => tx' \in [Workers -> Tx] /\ OneHolder'
  BY <1>t DEF OneHolder, Holds
<1>1. ASSUME NEW r \in Refs, Create(r), tx' = tx
      PROVE  Goal
  <2>1. OthersUnchanged(r) /\ batch' = batch /\ settlement_ledger[r].state = Absent
    BY <1>t, <1>1, CreateEffect
  <2>2. \A q \in Workers, table \in LockTables : ~Holds(q, table, r)
    BY <2>1, HeldRowsExist
  <2>3. TransactionsHold'
    BY <1>t, <1>1, <2>1, <2>2, TransactionsKept, {} \in SUBSET Workers
    DEF OthersUnchanged, LockTables
  <2>4. QED
    BY <1>1, <1>s, <2>3
<1>2. ASSUME NEW r \in Refs, TxReconcile(r) \/ MTNCollectionCallback(r), tx' = tx,
             ~Locked("settlement_ledger", r)
      PROVE  Goal
  <2>1. OthersUnchanged(r) /\ batch' = batch /\ outbox_events' = outbox_events
    BY <1>t, <1>2, ReconcileEffect
  <2>2. \A q \in Workers : ~Holds(q, "settlement_ledger", r)
    BY <1>2 DEF Locked
  <2>3. TransactionsHold'
    BY <1>t, <1>2, <2>1, <2>2, TransactionsKept, {} \in SUBSET Workers
    DEF OthersUnchanged
  <2>4. QED
    BY <1>2, <1>s, <2>3
<1>3. ASSUME NEW r \in Refs, BackoffElapses(r), tx' = tx
      PROVE  Goal
  <2>1. settlement_ledger' = settlement_ledger /\ batch' = batch
    BY <1>3 DEF BackoffElapses
  <2>2. \A q \in Refs : /\ outbox_events'[q].state = outbox_events[q].state
                        /\ outbox_events'[q].payload = outbox_events[q].payload
    BY <1>t, <1>3 DEF BackoffElapses, TypeOK, OutboxRow
  <2>3. TransactionsHold'
    BY <1>t, <1>3, <2>1, <2>2, TransactionsKept, {} \in SUBSET Workers
  <2>4. QED
    BY <1>3, <1>s, <2>3
<1>4. ASSUME NEW p \in Workers, FindReadyEvents(p)
      PROVE  Goal
  <2>1. /\ UNCHANGED tables /\ tx' = tx /\ batch[p] = {}
        /\ \A q \in Workers \ {p} : batch'[q] = batch[q]
    BY <1>t, <1>4, FindEffect DEF TypeOK
  <2>2. tx'[p].event = {}
    BY <2>1, OpenTxFacts
  <2>3. TransactionsHold'
    BY <1>t, <2>1, <2>2, TransactionsKept, {p} \in SUBSET Workers DEF tables
  <2>4. QED
    BY <1>s, <2>1, <2>3
<1>5. ASSUME NEW p \in Workers, ClaimUnlocked(p)
      PROVE  Goal
  <2>0. PICK claimed \in SUBSET Refs : ClaimedRows(p, claimed)
    BY <1>t, <1>5, ClaimUnlockedEffect
  <2>1. /\ settlement_ledger' = settlement_ledger /\ tx' = tx /\ batch[p] = {}
        /\ \A r \in claimed :
             /\ ~Locked("outbox_events", r)
             /\ outbox_events'[r].payload = outbox_events[r].payload
        /\ \A r \in Refs \ claimed : outbox_events'[r] = outbox_events[r]
        /\ batch' = [batch EXCEPT ![p] = Remembered(claimed)]
    BY <2>0 DEF ClaimedRows
  <2>2. /\ tx'[p].event = {}
        /\ \A q \in Workers \ {p} : batch'[q] = batch[q]
    BY <1>t, <2>1, OpenTxFacts DEF TypeOK
  <2>3. /\ \A r \in Refs : outbox_events'[r].payload = outbox_events[r].payload
        /\ \A r \in Refs, q \in Workers :
             Holds(q, "outbox_events", r) => outbox_events'[r] = outbox_events[r]
    BY <2>1 DEF Locked
  <2>4. TransactionsHold'
    BY <1>t, <2>1, <2>2, <2>3, TransactionsKept, {p} \in SUBSET Workers
  <2>5. QED
    BY <1>s, <2>1, <2>4
<1>6. ASSUME NEW p \in Workers, NEW ev \in batch[p], Opened(p, ev)
      PROVE  Goal
  <2>1. /\ UNCHANGED vars /\ UNCHANGED tables /\ batch' = batch /\ ev \in OutboxEvent
    BY <1>t, <1>6, BatchType DEF Opened, vars, tables
  <2>2. PICK locks \in SUBSET LockTables :
           /\ Open(p, ev, locks)
           /\ \A table \in locks : ~Locked(table, ev.ref)
           /\ \/ /\ locks = {"settlement_ledger"} /\ ~Fails(p, ev)
                 /\ settlement_ledger[ev.ref].state = "INITIATED"
              \/ /\ locks = {"outbox_events"} /\ Fails(p, ev)
                 /\ outbox_events[ev.ref].state = HeldState(p)
              \/ locks = {} /\ Fails(p, ev)
    BY <1>6 DEF Opened, LockTables
  <2>3. tx' \in [Workers -> Tx]
    BY <1>t, <2>1, <2>2, TxUpdateType
  <2>4. /\ tx'[p] = [event |-> {ev}, locks |-> locks]
        /\ \A q \in Workers \ {p} : tx'[q] = tx[q]
    BY <1>t, <2>2 DEF Open
  <2>5. \A e \in tx'[p].event : OpenTx(p, e)'
    <3>1. Fails(p, ev)' <=> Fails(p, ev)
      BY <2>1 DEF Fails, tables
    <3>2. OpenTx(p, ev)'
      BY <2>1, <2>2, <2>4, <3>1 DEF OpenTx, HeldState, tables
    <3>3. QED
      BY <2>4, <3>2
  <2>6. TransactionsHold'
    BY <1>t, <2>1, <2>4, <2>5, TransactionsKept, {p} \in SUBSET Workers DEF tables
  <2>7. \A table \in LockTables, r \in Refs : Holds(p, table, r)' => ~Locked(table, r)
    BY <2>2, <2>4 DEF Holds
  <2>8. OneHolder'
    BY <1>t, <2>4, <2>7, OneHolderKept
  <2>9. QED
    BY <2>3, <2>6, <2>8
<1>7. ASSUME NEW p \in Workers, NEW ev \in batch[p], CompleteAndCommit(p, ev)
      PROVE  Goal
  <2> DEFINE r == ev.ref
  <2>1. /\ tx[p].event = {ev} /\ tx[p].locks = {"settlement_ledger"}
        /\ settlement_ledger[r].state = "INITIATED"
        /\ outbox_events[r].state = HeldState(p) => ~Locked("outbox_events", r)
    BY <1>7, CommitFacts DEF CompleteAndCommit
  <2>2. /\ OthersUnchanged(r) /\ OutboxCompleted(p, r)
        /\ batch' = [batch EXCEPT ![p] = @ \ {ev}]
        /\ tx' = [tx EXCEPT ![p] = NoTx]
    BY <1>t, <1>7, <2>1, CompleteCommitEffect
  <2>3. /\ \A q \in Workers \ {p} : ~Holds(q, "settlement_ledger", r)
        /\ outbox_events'[r].payload = outbox_events[r].payload
        /\ \A q \in Workers \ {p} :
             Holds(q, "outbox_events", r) => outbox_events'[r] = outbox_events[r]
    BY <2>1, <2>2, NotHeldByOthers DEF OutboxCompleted, Locked
  <2>4. \A q \in Workers \ {p} : batch'[q] = batch[q]
    BY <1>t, <2>2 DEF TypeOK
  <2>5. TransactionsHold'
    <3>1. /\ \A q \in Workers \ {p} : tx'[q] = tx[q] /\ batch'[q] = batch[q]
          /\ \A q \in {p} : \A e \in tx'[q].event : OpenTx(q, e)'
      BY <1>t, <2>2, <2>4, ClosedTx
    <3>2. \A q \in Refs : outbox_events'[q].payload = outbox_events[q].payload
      BY <2>2, <2>3 DEF OthersUnchanged
    <3>3. \A s \in Refs, q \in Workers \ {p} :
            /\ Holds(q, "settlement_ledger", s) =>
                 settlement_ledger'[s].state = settlement_ledger[s].state
            /\ Holds(q, "outbox_events", s) =>
                 outbox_events'[s].state = outbox_events[s].state
      BY <2>2, <2>3 DEF OthersUnchanged
    <3>4. {p} \in SUBSET Workers
      OBVIOUS
    <3>5. QED
      BY <1>t, <3>1, <3>2, <3>3, <3>4, TransactionsKept
  <2>6. QED
    BY <1>t, <2>2, <2>5, ClosedTx, OneHolderKept
<1>8. ASSUME NEW p \in Workers, NEW ev \in batch[p], FailAndCommit(p, ev), ~Rollback(p, ev)
      PROVE  Goal
  <2> DEFINE r == ev.ref
  <2>1. /\ tx[p].event = {ev} /\ ~Locked("settlement_ledger", r)
    BY <1>8, CommitFacts DEF FailAndCommit
  <2>2. /\ OthersUnchanged(r)
        /\ batch' = [batch EXCEPT ![p] = @ \ {ev}]
        /\ tx' = [tx EXCEPT ![p] = NoTx]
        /\ \E workflow : OutboxFailed(p, ev, workflow)
    BY <1>t, <1>8, FailCommitEffect
  <2>3. /\ \A q \in Workers : ~Holds(q, "settlement_ledger", r)
        /\ outbox_events'[r].payload = outbox_events[r].payload
        /\ \A q \in Workers \ {p} :
             Holds(q, "outbox_events", r) => outbox_events'[r] = outbox_events[r]
    BY <2>1, <2>2, NotHeldByOthers DEF OutboxFailed, Locked
  <2>4. \A q \in Workers \ {p} : batch'[q] = batch[q]
    BY <1>t, <2>2 DEF TypeOK
  <2>5. TransactionsHold'
    <3>1. /\ \A q \in Workers \ {p} : tx'[q] = tx[q] /\ batch'[q] = batch[q]
          /\ \A q \in {p} : \A e \in tx'[q].event : OpenTx(q, e)'
      BY <1>t, <2>2, <2>4, ClosedTx
    <3>2. \A q \in Refs : outbox_events'[q].payload = outbox_events[q].payload
      BY <2>2, <2>3 DEF OthersUnchanged
    <3>3. \A s \in Refs, q \in Workers \ {p} :
            /\ Holds(q, "settlement_ledger", s) =>
                 settlement_ledger'[s].state = settlement_ledger[s].state
            /\ Holds(q, "outbox_events", s) =>
                 outbox_events'[s].state = outbox_events[s].state
      BY <2>2, <2>3 DEF OthersUnchanged
    <3>4. {p} \in SUBSET Workers
      OBVIOUS
    <3>5. QED
      BY <1>t, <3>1, <3>2, <3>3, <3>4, TransactionsKept
  <2>6. QED
    BY <1>t, <2>2, <2>5, ClosedTx, OneHolderKept
<1>9. ASSUME NEW p \in Workers, SqlDropped(p)
      PROVE  Goal
  <2>1. /\ UNCHANGED tables /\ tx' = [tx EXCEPT ![p] = NoTx]
        /\ \A q \in Workers \ {p} : batch'[q] = batch[q]
    BY <1>t, <1>9 DEF SqlDropped, TypeOK
  <2>2. TransactionsHold'
    BY <1>t, <2>1, ClosedTx, TransactionsKept, {p} \in SUBSET Workers DEF tables
  <2>3. QED
    BY <1>t, <2>1, <2>2, ClosedTx, OneHolderKept
<1>10. UNCHANGED sqlVars => Goal
  BY <1>t DEF sqlVars, TransactionsHold, OneHolder, Holds, OpenTx, Fails, HeldState
<1>11. SqlCase
  BY OpenTxFacts, SqlCases DEF SqlInv
<1> HIDE DEF Goal
<1>12. Goal
  BY <1>1, <1>2, <1>3, <1>4, <1>5, <1>6, <1>7, <1>8, <1>9, <1>10, <1>11 DEF SqlCase
<1>13. QED
  BY <1>12 DEF Goal

LEMMA SqlInvInit == SqlInit => SqlInv
<1> SUFFICES ASSUME SqlInit
             PROVE  SqlInv
  OBVIOUS
<1>1. /\ SqlTypeOK
      /\ \A p \in Workers : tx[p].event = {} /\ batch[p] = {}
      /\ \A r \in Refs : /\ settlement_ledger[r].state = Absent
                         /\ outbox_events[r].state = Absent
  BY SqlTypeInit DEF SqlInit, Init, StoreInit, NoTx, NoLedgerRow, NoOutboxRow
<1>2. QED
  BY <1>1 DEF SqlInv, RowsPaired, BatchRowsExist, TransactionsHold, OneHolder, Holds

LEMMA SqlInvNext == SqlInv /\ [SqlNext]_sqlVars => SqlInv'
BY RowsNext, LocksNext DEF SqlInv, SqlTypeOK

LEMMA SqlInvAlways == SqlSpec => []SqlInv
BY SqlInvInit, SqlInvNext, PTL DEF SqlSpec

-----------------------------------------------------------------------------
(***************************************************************************)
(* Locks: types, what was read under one, and who waits for whom.          *)
(***************************************************************************)

\* The tables, the batches and the open transactions are well typed whichever
\* program the workers run.
THEOREM SharedTypeCorrect == SqlSpec => []SqlTypeOK
BY SqlInvAlways, PTL DEF SqlInv

\* No worker of either program, operator or callback changes what an open
\* transaction has read under its lock (SELECT ... FOR UPDATE in
\* completeSuccessfulEvent, UPDATE outbox_events in markFailedAttemptGeneric).
THEOREM LockedReadsAreStable == SqlSpec => []LockedReadsHold
<1>1. SqlInv => LockedReadsHold
  BY DEF SqlInv, TransactionsHold, OpenTx, LockedReadsHold
<1>2. QED
  BY <1>1, SqlInvAlways, PTL

\* To commit, a worker would wait for one with the other kind of transaction on
\* the same row, which its payload rules out.
LEMMA NobodyWaitsToCommit ==
  ASSUME SqlInv, NEW p \in Workers, NEW q \in Workers
  PROVE  ~WaitsToCommit(p, q)
<1> SUFFICES ASSUME WaitsToCommit(p, q)
             PROVE  FALSE
  OBVIOUS
<1>1. PICK ev \in tx[p].event :
        \/ "settlement_ledger" \in tx[p].locks /\ Holds(q, "outbox_events", ev.ref)
        \/ "settlement_ledger" \notin tx[p].locks /\ Holds(q, "settlement_ledger", ev.ref)
  BY DEF WaitsToCommit
<1>2. PICK other \in tx[q].event :
        /\ other.ref = ev.ref
        /\ \/ "settlement_ledger" \in tx[p].locks /\ "outbox_events" \in tx[q].locks
           \/ "settlement_ledger" \notin tx[p].locks /\ "settlement_ledger" \in tx[q].locks
  BY <1>1 DEF Holds
<1>3. Fails(p, ev) <=> Fails(q, other)
  BY <1>2 DEF Fails
<1>4. OpenTx(p, ev) /\ OpenTx(q, other)
  BY DEF SqlInv, TransactionsHold
<1>5. QED
  BY <1>2, <1>3, <1>4 DEF OpenTx

\* Whoever is waited for holds a row, so it has begun its outcome; and whoever
\* waits has not.
LEMMA BlockersDoNotWait ==
  ASSUME SqlInv, NEW p \in Workers, NEW q \in Workers, NEW u \in Workers,
         WaitsFor(p, q)
  PROVE  ~WaitsFor(q, u)
<1>1. tx[q].event # {}
  BY DEF WaitsFor, WaitsToBegin, WaitsToCommit, Holds
<1>2. ~WaitsToBegin(q, u)
  BY <1>1 DEF WaitsToBegin, NoTx
<1>3. QED
  BY <1>2, NobodyWaitsToCommit DEF WaitsFor

\* Although the two outcomes lock their rows in opposite orders, no two workers,
\* of one program or of both, ever wait for each other.
THEOREM NoDeadlock == SqlSpec => []NoLockCycle
<1>1. SqlInv => NoLockCycle
  BY BlockersDoNotWait DEF NoLockCycle
<1>2. QED
  BY <1>1, SqlInvAlways, PTL

\* More than that: a worker may wait for the first row of its outcome, as two
\* legacy workers do that have read the same event, but whom it waits for waits
\* for nobody.  No chain of waiting workers is longer than one, and so there is
\* no cycle of any length.
THEOREM NoLockChain ==
  SqlSpec => [](\A p, q, u \in Workers : ~(WaitsFor(p, q) /\ WaitsFor(q, u)))
<1>1. SqlInv => \A p, q, u \in Workers : ~(WaitsFor(p, q) /\ WaitsFor(q, u))
  BY BlockersDoNotWait
<1>2. QED
  BY <1>1, SqlInvAlways, PTL

-----------------------------------------------------------------------------
(***************************************************************************)
(* A locked row is left alone until its holder ends its transaction.       *)
(***************************************************************************)

\* What a step may do to the rows that worker q has locked and keeps locked: of
\* the ledger row nothing, of the outbox row nothing but let its backoff elapse.
KeepsLockedRows ==
  \A q \in Workers, r \in Refs :
    /\ Holds(q, "settlement_ledger", r) /\ Holds(q, "settlement_ledger", r)' =>
         settlement_ledger'[r] = settlement_ledger[r]
    /\ Holds(q, "outbox_events", r) /\ Holds(q, "outbox_events", r)' =>
         /\ outbox_events'[r].state = outbox_events[r].state
         /\ outbox_events'[r].attempt_count = outbox_events[r].attempt_count

\* A step that moves the row s only is one of these if it leaves the tables of s
\* alone that others have locked.
LEMMA LockedRowsOfOthers ==
  ASSUME SqlInv, NEW s \in Refs, OthersUnchanged(s), NEW Movers \in SUBSET Workers,
         \A q \in Movers, table \in LockTables : ~Holds(q, table, s)',
         \A q \in Workers \ Movers :
           /\ Holds(q, "settlement_ledger", s) =>
                settlement_ledger'[s] = settlement_ledger[s]
           /\ Holds(q, "outbox_events", s) =>
                /\ outbox_events'[s].state = outbox_events[s].state
                /\ outbox_events'[s].attempt_count = outbox_events[s].attempt_count
  PROVE  KeepsLockedRows
BY DEF KeepsLockedRows, OthersUnchanged, LockTables

LEMMA LockedRowsStep ==
  ASSUME SqlInv, [SqlNext]_sqlVars
  PROVE  KeepsLockedRows
<1>t. TypeOK /\ SqlTypeOK
  BY DEF SqlInv, SqlTypeOK
<1>1. ASSUME NEW r \in Refs, Create(r)
      PROVE  KeepsLockedRows
  <2>1. OthersUnchanged(r) /\ settlement_ledger[r].state = Absent
    BY <1>t, <1>1, CreateEffect
  <2>2. \A q \in Workers, table \in LockTables : ~Holds(q, table, r)
    BY <2>1, HeldRowsExist
  <2>3. QED
    BY <2>1, <2>2, LockedRowsOfOthers, {} \in SUBSET Workers DEF LockTables
<1>2. ASSUME NEW r \in Refs, TxReconcile(r) \/ MTNCollectionCallback(r),
             ~Locked("settlement_ledger", r)
      PROVE  KeepsLockedRows
  <2>1. OthersUnchanged(r) /\ outbox_events' = outbox_events
    BY <1>t, <1>2, ReconcileEffect
  <2>2. QED
    BY <1>2, <2>1, LockedRowsOfOthers, {} \in SUBSET Workers DEF Locked
<1>3. ASSUME NEW r \in Refs, BackoffElapses(r)
      PROVE  KeepsLockedRows
  BY <1>t, <1>3 DEF BackoffElapses, KeepsLockedRows, TypeOK, OutboxRow
<1>4. ASSUME UNCHANGED tables
      PROVE  KeepsLockedRows
  BY <1>4 DEF KeepsLockedRows, tables
<1>5. ASSUME NEW p \in Workers, ClaimUnlocked(p)
      PROVE  KeepsLockedRows
  <2>1. PICK claimed \in SUBSET Refs : ClaimedRows(p, claimed)
    BY <1>t, <1>5, ClaimUnlockedEffect
  <2>2. QED
    BY <2>1 DEF ClaimedRows, KeepsLockedRows, Locked
<1>6. ASSUME NEW p \in Workers, NEW ev \in batch[p], CompleteAndCommit(p, ev)
      PROVE  KeepsLockedRows
  <2>1. /\ ev.ref \in Refs
        /\ tx[p].event = {ev} /\ tx[p].locks = {"settlement_ledger"}
        /\ settlement_ledger[ev.ref].state = "INITIATED"
        /\ outbox_events[ev.ref].state = HeldState(p) => ~Locked("outbox_events", ev.ref)
    BY <1>t, <1>6, BatchType, CommitFacts DEF CompleteAndCommit
  <2>2. /\ OthersUnchanged(ev.ref) /\ OutboxCompleted(p, ev.ref)
        /\ tx' = [tx EXCEPT ![p] = NoTx]
    BY <1>t, <1>6, <2>1, CompleteCommitEffect
  <2>3. \A q \in Workers \ {p} : ~Holds(q, "settlement_ledger", ev.ref)
    BY <2>1, NotHeldByOthers
  <2>4. \A q \in Workers \ {p} : Holds(q, "outbox_events", ev.ref) =>
          outbox_events'[ev.ref] = outbox_events[ev.ref]
    BY <2>1, <2>2 DEF OutboxCompleted, Locked
  <2>5. \A q \in {p}, table \in LockTables : ~Holds(q, table, ev.ref)'
    BY <1>t, <2>1, <2>2, ClosedTx
  <2>6. QED
    BY <2>1, <2>2, <2>3, <2>4, <2>5, LockedRowsOfOthers, {p} \in SUBSET Workers
<1>7. ASSUME NEW p \in Workers, NEW ev \in batch[p], FailAndCommit(p, ev), ~Rollback(p, ev)
      PROVE  KeepsLockedRows
  <2>1. ev.ref \in Refs /\ tx[p].event = {ev} /\ ~Locked("settlement_ledger", ev.ref)
    BY <1>t, <1>7, BatchType, CommitFacts DEF FailAndCommit
  <2>2. /\ OthersUnchanged(ev.ref)
        /\ tx' = [tx EXCEPT ![p] = NoTx]
        /\ \E workflow : OutboxFailed(p, ev, workflow)
    BY <1>t, <1>7, FailCommitEffect
  <2>3. \A q \in Workers \ {p} : Holds(q, "outbox_events", ev.ref) =>
          outbox_events'[ev.ref] = outbox_events[ev.ref]
    BY <2>1, <2>2, NotHeldByOthers DEF OutboxFailed
  <2>4. \A q \in {p}, table \in LockTables : ~Holds(q, table, ev.ref)'
    BY <1>t, <2>1, <2>2, ClosedTx
  <2>5. QED
    BY <2>1, <2>2, <2>3, <2>4, LockedRowsOfOthers, {p} \in SUBSET Workers DEF Locked
<1>8. SqlCase
  BY OpenTxFacts, SqlCases DEF SqlInv
<1>9. ASSUME \/ \E p \in Workers : FindReadyEvents(p)
             \/ \E p \in Workers : SqlDropped(p)
             \/ \E p \in Workers : \E ev \in batch[p] : Opened(p, ev)
             \/ UNCHANGED sqlVars
      PROVE  KeepsLockedRows
  BY <1>4, <1>9 DEF FindReadyEvents, SqlDropped, Opened, sqlVars, vars, tables
<1>10. QED
  BY <1>1, <1>2, <1>3, <1>5, <1>6, <1>7, <1>8, <1>9 DEF SqlCase

\* While a transaction has a row locked, nobody changes it: not its state, nor
\* the version that completeSuccessfulEvent has read and checks in its UPDATE
\* (main.go:286), which therefore never finds another.
THEOREM LockedRowsAreKept == SqlSpec => [][KeepsLockedRows]_sqlVars
<1>1. SqlInv /\ [SqlNext]_sqlVars => [KeepsLockedRows]_sqlVars
  BY LockedRowsStep
<1>2. QED
  BY <1>1, SqlInvAlways, PTL DEF SqlSpec

-----------------------------------------------------------------------------
(***************************************************************************)
(* The ledger does not depend on who serves the outbox.                    *)
(***************************************************************************)

LEMMA SharedLedgerCases ==
  ASSUME SqlInv, [SqlNext]_sqlVars
  PROVE  \/ UNCHANGED <<settlement_ledger, transaction_events>>
         \/ \E r \in Refs : LedgerStep(r)
<1> DEFINE Goal == \/ UNCHANGED <<settlement_ledger, transaction_events>>
                   \/ \E r \in Refs : LedgerStep(r)
<1>t. TypeOK /\ SqlTypeOK
  BY DEF SqlInv, SqlTypeOK
<1>1. ASSUME \/ \E r \in Refs : Create(r)
             \/ \E r \in Refs : TxReconcile(r) \/ MTNCollectionCallback(r)
             \/ \E r \in Refs : BackoffElapses(r)
      PROVE  Goal
  BY <1>t, <1>1, LedgerCases DEF Next, RefStep
<1>2. ASSUME NEW p \in Workers, NEW ev \in batch[p], CompleteAndCommit(p, ev)
      PROVE  Goal
  <2>1. ev.ref \in Refs /\ LedgerCompleted(ev.ref) /\ OthersUnchanged(ev.ref)
    BY <1>t, <1>2, BatchType, CommitFacts, CompleteCommitEffect
  <2>2. LedgerStep(ev.ref)
    BY <2>1 DEF LedgerStep, OtherLedgersUnchanged, OthersUnchanged
  <2>3. QED
    BY <2>1, <2>2
<1>3. ASSUME NEW p \in Workers, NEW ev \in batch[p], FailAndCommit(p, ev), ~Rollback(p, ev)
      PROVE  Goal
  <2>1. PICK workflow \in {"RETRY_SCHEDULED", "FAILED", "UNKNOWN"} :
          LedgerFailed(ev.ref, workflow)
    BY <1>t, <1>3, FailCommitEffect
  <2>2. ev.ref \in Refs /\ OthersUnchanged(ev.ref)
    BY <1>t, <1>3, BatchType, FailCommitEffect
  <2>3. LedgerStep(ev.ref)
    BY <2>1, <2>2 DEF LedgerStep, OtherLedgersUnchanged, OthersUnchanged
  <2>4. QED
    BY <2>2, <2>3
<1>4. ASSUME \/ UNCHANGED tables
             \/ \E p \in Workers : FindReadyEvents(p) \/ ClaimUnlocked(p)
             \/ UNCHANGED sqlVars
      PROVE  Goal
  BY <1>4 DEF FindReadyEvents, ClaimUnlocked, tables, sqlVars
<1>5. SqlCase
  BY OpenTxFacts, SqlCases DEF SqlInv
<1>6. ASSUME NEW p \in Workers, \/ SqlDropped(p)
                                \/ \E ev \in batch[p] : Opened(p, ev)
      PROVE  Goal
  BY <1>6 DEF SqlDropped, Opened, vars, tables
<1> HIDE DEF Goal
<1>7. Goal
  BY <1>1, <1>2, <1>3, <1>4, <1>5, <1>6 DEF SqlCase
<1>8. QED
  BY <1>7 DEF Goal

\* Nor does a legacy worker, which acts on events it has not claimed, ever touch
\* the row or the audit trail of a transaction that has ended.
THEOREM SharedFinalStatesAreFinal == SqlSpec => FinalIsFinal
<1>1. SqlInv /\ [SqlNext]_sqlVars =>
        [\A r \in Refs : settlement_ledger[r].state \in FinalStates =>
           /\ settlement_ledger'[r] = settlement_ledger[r]
           /\ transaction_events'[r] = transaction_events[r]]_vars
  BY FinalStep, SharedLedgerCases
<1>2. QED
  BY <1>1, SqlInvAlways, PTL DEF SqlSpec, FinalIsFinal

\* The audit trail still accounts for the ledger row when workers of both
\* programs write it.
THEOREM SharedAuditTrail == SqlSpec => []AuditTrail
<1>1. SqlInv /\ AuditTrail /\ [SqlNext]_sqlVars => AuditTrail'
  <2>1. UNCHANGED <<settlement_ledger, transaction_events>> /\ AuditTrail => AuditTrail'
    BY DEF AuditTrail
  <2>2. QED
    BY <2>1, AuditStep, SharedLedgerCases DEF SqlInv, SqlTypeOK
<1>2. SqlInit => AuditTrail
  BY AuditInit DEF SqlInit
<1>3. QED
  BY <1>1, <1>2, SqlInvAlways, PTL DEF SqlSpec

LEMMA DeliveredIsSettledNext ==
  ASSUME SqlInv, DeliveredIsSettled, [SqlNext]_sqlVars
  PROVE  DeliveredIsSettled'
<1>1. ASSUME NEW r \in Refs, LedgerStep(r)
      PROVE  DeliveredIsSettled'
  <2>1. settlement_ledger'[r].provider_status = "DELIVERED" =>
          settlement_ledger'[r].state = "SETTLED"
    <3>1. CASE LedgerCreated(r) \/ LedgerCompleted(r)
      BY <3>1 DEF LedgerCreated, LedgerCompleted
    <3>2. CASE \E target \in LedgerStates : LedgerReconciled(r, target)
      BY <3>2 DEF LedgerReconciled, DeliveredIsSettled, CanTransition
    <3>3. CASE \E workflow \in {"RETRY_SCHEDULED", "FAILED", "UNKNOWN"} :
                 LedgerFailed(r, workflow)
      <4>1. PICK workflow \in {"RETRY_SCHEDULED", "FAILED", "UNKNOWN"} :
              LedgerFailed(r, workflow)
        BY <3>3
      <4>2. settlement_ledger[r].provider_status # "DELIVERED"
        BY <4>1 DEF LedgerFailed, DeliveredIsSettled
      <4>3. settlement_ledger'[r].provider_status # "DELIVERED"
        BY <4>1, <4>2 DEF LedgerFailed
      <4>4. QED
        BY <4>3
    <3>4. QED
      BY <1>1, <3>1, <3>2, <3>3 DEF LedgerStep
  <2>2. QED
    BY <1>1, <2>1 DEF LedgerStep, OtherLedgersUnchanged, DeliveredIsSettled
<1>2. QED
  BY <1>1, SharedLedgerCases DEF DeliveredIsSettled

\* Clients see the promised lifecycle even when legacy workers act on events
\* that they have not claimed.
THEOREM SharedImplementsLifecycle == SqlSpec => ImplementsLifecycle
<1>1. SqlInv /\ DeliveredIsSettled /\ [SqlNext]_sqlVars
        => [Lifecycle!LifecycleNext]_<<StatusView, DeliveredView>>
  BY RefinementStep, SharedLedgerCases DEF StatusView, DeliveredView
<1>2. SqlInit => DeliveredIsSettled /\ Lifecycle!LifecycleInit
  BY RefinementInit DEF SqlInit, Init, StoreInit, NoLedgerRow, DeliveredIsSettled
<1>3. QED
  BY <1>1, <1>2, DeliveredIsSettledNext, SqlInvAlways, PTL
  DEF SqlSpec, ImplementsLifecycle, Lifecycle!LifecycleSpec, StatusView, DeliveredView

-----------------------------------------------------------------------------
(***************************************************************************)
(* What the claims of current workers are worth next to legacy workers.    *)
(***************************************************************************)

\* The events of a current worker are PROCESSING and no other current worker's;
\* a legacy worker may hold them too, but cannot write their outbox row.
CurrentClaims ==
  \A w \in CurrentWorkers : \A ev \in batch[w] :
    /\ outbox_events[ev.ref].state = "PROCESSING"
    /\ outbox_events[ev.ref].attempt_count = ev.attempt_count
    /\ \A v \in CurrentWorkers : \A other \in batch[v] : other.ref = ev.ref => v = w

\* So they always find their outbox row, and lock one row or the other.
CurrentLocks ==
  \A w \in CurrentWorkers : tx[w].event # {} => tx[w].locks # {}

LEMMA OneCurrentOwner ==
  ASSUME TypeOK, CurrentClaims,
         NEW w \in CurrentWorkers, NEW ev \in batch[w],
         NEW v \in CurrentWorkers, NEW other \in batch[v], other.ref = ev.ref
  PROVE  v = w /\ other = ev
<1>1. ev \in OutboxEvent /\ other \in OutboxEvent
  BY DEF TypeOK, CurrentWorkers
<1>2. v = w /\ other.attempt_count = ev.attempt_count
  BY DEF CurrentClaims
<1>3. QED
  BY <1>1, <1>2 DEF OutboxEvent

\* A commit of worker p that forgets ev, and changes the outbox row only if p
\* holds it by the rules of its program, keeps the claims.
LEMMA ClaimsAfterCommit ==
  ASSUME TypeOK, CurrentClaims, NEW p \in Workers, NEW ev \in batch[p],
         \A q \in Refs \ {ev.ref} : outbox_events'[q] = outbox_events[q],
         \/ outbox_events[ev.ref].state = HeldState(p)
         \/ outbox_events'[ev.ref] = outbox_events[ev.ref],
         batch' = [batch EXCEPT ![p] = @ \ {ev}]
  PROVE  CurrentClaims'
<1>1. \A u \in Workers : batch'[u] \subseteq batch[u]
  BY DEF TypeOK
<1>2. ASSUME NEW w \in CurrentWorkers, NEW e \in batch'[w]
      PROVE  outbox_events'[e.ref] = outbox_events[e.ref]
  <2>1. e \in batch[w] /\ e.ref \in Refs /\ w \in Workers
    BY <1>1, BatchType DEF CurrentWorkers
  <2>2. CASE p \in LegacyWorkers
    <3>1. outbox_events[e.ref].state # HeldState(p)
      BY <2>1, <2>2 DEF CurrentClaims, HeldState
    <3>2. QED
      BY <2>1, <3>1
  <2>3. CASE p \notin LegacyWorkers
    <3>1. p \in CurrentWorkers /\ ~(w = p /\ e = ev)
      BY <2>1, <2>3 DEF CurrentWorkers, TypeOK
    <3>2. e.ref # ev.ref
      BY <2>1, <3>1, OneCurrentOwner
    <3>3. QED
      BY <2>1, <3>2
  <2>4. QED
    BY <2>2, <2>3
<1>3. \A w \in CurrentWorkers : w \in Workers
  BY DEF CurrentWorkers
<1>4. QED
  BY <1>1, <1>2, <1>3 DEF CurrentClaims

LEMMA CurrentClaimsNext ==
  ASSUME SqlInv, CurrentClaims, [SqlNext]_sqlVars
  PROVE  CurrentClaims'
<1>t. TypeOK /\ SqlTypeOK
  BY DEF SqlInv, SqlTypeOK
<1>r. \A w \in CurrentWorkers : /\ w \in Workers
                                /\ \A ev \in batch[w] :
                                     /\ ev.ref \in Refs
                                     /\ settlement_ledger[ev.ref].state # Absent
  BY <1>t, BatchType DEF SqlInv, BatchRowsExist, CurrentWorkers
<1>1. ASSUME NEW r \in Refs, Create(r)
      PROVE  CurrentClaims'
  <2>1. OthersUnchanged(r) /\ batch' = batch /\ settlement_ledger[r].state = Absent
    BY <1>t, <1>1, CreateEffect
  <2>2. \A w \in CurrentWorkers : \A ev \in batch[w] :
          outbox_events'[ev.ref] = outbox_events[ev.ref]
    BY <1>r, <2>1 DEF OthersUnchanged
  <2>3. QED
    BY <2>1, <2>2 DEF CurrentClaims
<1>2. ASSUME NEW r \in Refs, TxReconcile(r) \/ MTNCollectionCallback(r)
      PROVE  CurrentClaims'
  BY <1>t, <1>2, ReconcileEffect DEF CurrentClaims
<1>3. ASSUME NEW r \in Refs, BackoffElapses(r)
      PROVE  CurrentClaims'
  BY <1>t, <1>r, <1>3, BackoffEffect DEF CurrentClaims
<1>4. ASSUME NEW p \in Workers, FindReadyEvents(p)
      PROVE  CurrentClaims'
  <2>1. /\ UNCHANGED tables /\ p \in LegacyWorkers
        /\ \A q \in Workers \ {p} : batch'[q] = batch[q]
    BY <1>t, <1>4, FindEffect DEF TypeOK
  <2>2. \A w \in CurrentWorkers : batch'[w] = batch[w]
    BY <2>1 DEF CurrentWorkers
  <2>3. QED
    BY <2>1, <2>2 DEF CurrentClaims, tables
<1>5. ASSUME NEW p \in Workers, ClaimUnlocked(p)
      PROVE  CurrentClaims'
  <2>0. PICK claimed \in SUBSET Refs : ClaimedRows(p, claimed)
    BY <1>t, <1>5, ClaimUnlockedEffect
  <2>1. /\ p \in CurrentWorkers
        /\ \A r \in claimed :
             /\ outbox_events[r].state = "PENDING"
             /\ outbox_events'[r].state = "PROCESSING"
             /\ outbox_events'[r].attempt_count = outbox_events[r].attempt_count
        /\ \A r \in Refs \ claimed : outbox_events'[r] = outbox_events[r]
        /\ batch' = [batch EXCEPT ![p] = Remembered(claimed)]
    BY <2>0 DEF ClaimedRows
  <2>2. /\ batch'[p] = Remembered(claimed)
        /\ \A v \in CurrentWorkers \ {p} : batch'[v] = batch[v]
    BY <1>t, <1>r, <2>1 DEF TypeOK
  <2>3. \A ev \in Remembered(claimed) :
          ev.ref \in claimed /\ ev.attempt_count = outbox_events[ev.ref].attempt_count
    BY <1>t, RememberedEvents
  <2>4. \A v \in CurrentWorkers : \A ev \in batch[v] : ev.ref \in Refs \ claimed
    BY <1>r, <2>1 DEF CurrentClaims
  <2>5. ASSUME NEW v \in CurrentWorkers, NEW e \in batch'[v]
        PROVE  /\ e.ref \in claimed <=> v = p
               /\ outbox_events'[e.ref].state = "PROCESSING"
               /\ outbox_events'[e.ref].attempt_count = e.attempt_count
               /\ v # p => e \in batch[v]
    <3>1. CASE v = p
      <4>1. e \in Remembered(claimed)
        BY <2>2, <2>5, <3>1
      <4>2. e.ref \in claimed /\ e.attempt_count = outbox_events[e.ref].attempt_count
        BY <2>3, <4>1
      <4>3. QED
        BY <2>1, <3>1, <4>2
    <3>2. CASE v # p
      <4>1. e \in batch[v]
        BY <2>2, <2>5, <3>2
      <4>2. /\ e.ref \in Refs \ claimed
            /\ outbox_events[e.ref].state = "PROCESSING"
            /\ outbox_events[e.ref].attempt_count = e.attempt_count
        BY <2>4, <4>1 DEF CurrentClaims
      <4>3. outbox_events'[e.ref] = outbox_events[e.ref]
        BY <2>1, <4>2
      <4>4. QED
        BY <3>2, <4>1, <4>2, <4>3
    <3>3. QED
      BY <3>1, <3>2
  <2>6. ASSUME NEW v \in CurrentWorkers, NEW e \in batch'[v],
               NEW u \in CurrentWorkers, NEW other \in batch'[u], other.ref = e.ref
        PROVE  u = v
    <3>1. CASE e.ref \in claimed
      BY <2>5, <2>6, <3>1
    <3>2. CASE e.ref \notin claimed
      BY <2>5, <2>6, <3>2 DEF CurrentClaims
    <3>3. QED
      BY <3>1, <3>2
  <2>7. QED
    BY <2>5, <2>6 DEF CurrentClaims
<1>6. ASSUME NEW p \in Workers, NEW ev \in batch[p], CompleteAndCommit(p, ev)
      PROVE  CurrentClaims'
  <2>1. /\ OthersUnchanged(ev.ref) /\ OutboxCompleted(p, ev.ref)
        /\ batch' = [batch EXCEPT ![p] = @ \ {ev}]
    BY <1>t, <1>6, CommitFacts, CompleteCommitEffect
  <2>2. QED
    BY <1>t, <2>1, ClaimsAfterCommit DEF CurrentClaims, OthersUnchanged, OutboxCompleted
<1>7. ASSUME NEW p \in Workers, NEW ev \in batch[p], FailAndCommit(p, ev), ~Rollback(p, ev)
      PROVE  CurrentClaims'
  <2>1. /\ OthersUnchanged(ev.ref) /\ \E workflow : OutboxFailed(p, ev, workflow)
        /\ batch' = [batch EXCEPT ![p] = @ \ {ev}]
    BY <1>t, <1>7, FailCommitEffect
  <2>2. QED
    BY <1>t, <2>1, ClaimsAfterCommit DEF CurrentClaims, OthersUnchanged, OutboxFailed
<1>8. ASSUME NEW p \in Workers, SqlDropped(p)
      PROVE  CurrentClaims'
  <2>1. UNCHANGED tables /\ \A q \in Workers : batch'[q] \subseteq batch[q]
    BY <1>t, <1>8 DEF SqlDropped, TypeOK
  <2>2. QED
    BY <1>r, <2>1 DEF CurrentClaims, tables
<1>9. ASSUME NEW p \in Workers, NEW ev \in batch[p], Opened(p, ev)
      PROVE  CurrentClaims'
  BY <1>9 DEF Opened, vars, CurrentClaims
<1>10. UNCHANGED sqlVars => CurrentClaims'
  BY DEF sqlVars, CurrentClaims
<1>11. SqlCase
  BY OpenTxFacts, SqlCases DEF SqlInv
<1>12. QED
  BY <1>1, <1>2, <1>3, <1>4, <1>5, <1>6, <1>7, <1>8, <1>9, <1>10, <1>11 DEF SqlCase


-----------------------------------------------------------------------------
(***************************************************************************)
(* Outcomes of both programs agree with the ledger.                        *)
(***************************************************************************)

\* OutcomesAgree for one reference.
RowAgrees(row, ob, trail) ==
  /\ ob.state = "SENT" => row.provider_status = "DELIVERED"
  /\ ob.state = "FAILED" => row.provider_status \in {"DECLINED", "TIMEOUT"}
  /\ row.provider_status = "DELIVERED" =>
       row.state = "SETTLED" /\ ob.state \in {"SENT", "PROCESSING"}
  /\ row.provider_status \in {"DECLINED", "TIMEOUT"} =>
       row.state \notin {"INITIATED", "PENDING"}
  /\ ob.attempt_count <= Cardinality(Outcomes(trail))

LEMMA AgreesByReference ==
  OutcomesAgree <=>
    \A r \in Refs :
      RowAgrees(settlement_ledger[r], outbox_events[r], transaction_events[r])
BY DEF OutcomesAgree, RowAgrees, Outcomes

LEMMA AgreesByReferenceNext ==
  OutcomesAgree' <=>
    \A r \in Refs :
      RowAgrees(settlement_ledger'[r], outbox_events'[r], transaction_events'[r])
BY DEF OutcomesAgree, RowAgrees, Outcomes

\* The copy of attempt_count that a worker remembers, claimed or not, is of
\* outcomes that are in the audit trail.
CopyCounted(ev, trail) == ev.attempt_count <= Cardinality(Outcomes(trail))

CopiesCounted ==
  \A p \in Workers : \A ev \in batch[p] : CopyCounted(ev, transaction_events[ev.ref])

LEMMA CopiesCountedNext ==
  CopiesCounted' <=>
    \A p \in Workers : \A ev \in batch'[p] : CopyCounted(ev, transaction_events'[ev.ref])
BY DEF CopiesCounted, CopyCounted, Outcomes

\* How many outcomes a step adds to the audit trail of its reference.
LEMMA OutcomesOfStep ==
  ASSUME TypeOK, NEW r \in Refs
  PROVE  /\ Cardinality(Outcomes(transaction_events[r])) \in Nat
         /\ \A target \in LedgerStates : LedgerReconciled(r, target) =>
              Cardinality(Outcomes(transaction_events'[r]))
                = Cardinality(Outcomes(transaction_events[r]))
         /\ LedgerCompleted(r) =>
              Cardinality(Outcomes(transaction_events'[r]))
                = Cardinality(Outcomes(transaction_events[r])) + 1
         /\ \A workflow \in {"RETRY_SCHEDULED", "FAILED", "UNKNOWN"} :
              LedgerFailed(r, workflow) =>
                Cardinality(Outcomes(transaction_events'[r]))
                  = Cardinality(Outcomes(transaction_events[r])) + 1
<1> DEFINE pending == AuditEvent("PENDING", "outbox-worker")
           settled == AuditEvent("SETTLED", "provider-simulator")
<1>t. transaction_events[r] \in Seq(Event)
  BY DEF TypeOK
<1>1. pending \in Event /\ settled \in Event /\ ~IsOutcome(pending) /\ IsOutcome(settled)
  BY DEF AuditEvent, Event, WorkflowStates, LedgerStates, Sources, IsOutcome
<1>2. Cardinality(Outcomes(transaction_events[r])) \in Nat
  BY <1>t, <1>1, OutcomesAppend
<1>3. ASSUME NEW target \in LedgerStates, LedgerReconciled(r, target)
      PROVE  Cardinality(Outcomes(transaction_events'[r]))
               = Cardinality(Outcomes(transaction_events[r]))
  <2>1. /\ AuditEvent(target, "manual-reconcile") \in Event
        /\ ~IsOutcome(AuditEvent(target, "manual-reconcile"))
    BY DEF AuditEvent, Event, WorkflowStates, Sources, IsOutcome
  <2>2. QED
    BY <1>t, <1>3, <2>1, OutcomesAppend DEF LedgerReconciled
<1>4. ASSUME LedgerCompleted(r)
      PROVE  Cardinality(Outcomes(transaction_events'[r]))
               = Cardinality(Outcomes(transaction_events[r])) + 1
  <2>1. transaction_events'[r] = Append(Append(transaction_events[r], pending), settled)
    BY <1>4 DEF LedgerCompleted
  <2> HIDE DEF pending, settled
  <2>2. Append(transaction_events[r], pending) \in Seq(Event)
    BY <1>t, <1>1
  <2>3. QED
    BY <1>t, <1>1, <2>1, <2>2, OutcomesAppend
<1>5. ASSUME NEW workflow \in {"RETRY_SCHEDULED", "FAILED", "UNKNOWN"},
             LedgerFailed(r, workflow)
      PROVE  Cardinality(Outcomes(transaction_events'[r]))
               = Cardinality(Outcomes(transaction_events[r])) + 1
  <2>1. /\ AuditEvent(workflow, "outbox-worker") \in Event
        /\ IsOutcome(AuditEvent(workflow, "outbox-worker"))
    BY DEF AuditEvent, Event, WorkflowStates, LedgerStates, Sources, IsOutcome
  <2>2. QED
    BY <1>t, <1>5, <2>1, OutcomesAppend DEF LedgerFailed
<1>6. QED
  BY <1>2, <1>3, <1>4, <1>5


\* A step that changes one reference only has to be looked at there.
LEMMA AgreesAfter ==
  ASSUME TypeOK, BatchRowsExist, OutcomesAgree, CopiesCounted,
         NEW r \in Refs, OthersUnchanged(r),
         \A p \in Workers : batch'[p] \subseteq batch[p],
         \/ settlement_ledger[r].state = Absent
         \/ /\ Cardinality(Outcomes(transaction_events'[r])) \in Nat
            /\ Cardinality(Outcomes(transaction_events[r]))
                 <= Cardinality(Outcomes(transaction_events'[r])),
         RowAgrees(settlement_ledger'[r], outbox_events'[r], transaction_events'[r])
  PROVE  OutcomesAgree' /\ CopiesCounted'
<1>1. OutcomesAgree'
  BY AgreesByReference, AgreesByReferenceNext DEF OthersUnchanged
<1>2. ASSUME NEW p \in Workers, NEW ev \in batch'[p]
      PROVE  CopyCounted(ev, transaction_events'[ev.ref])
  <2>1. /\ ev \in batch[p] /\ ev.ref \in Refs /\ ev.attempt_count \in Nat
        /\ settlement_ledger[ev.ref].state # Absent
        /\ CopyCounted(ev, transaction_events[ev.ref])
    BY BatchType DEF BatchRowsExist, CopiesCounted
  <2>2. CASE ev.ref = r
    <3>1. Cardinality(Outcomes(transaction_events[r])) \in Nat
      BY OutcomesOfStep
    <3>2. QED
      BY <2>1, <2>2, <3>1 DEF CopyCounted
  <2>3. CASE ev.ref # r
    BY <2>1, <2>3 DEF OthersUnchanged
  <2>4. QED
    BY <2>2, <2>3
<1>3. QED
  BY <1>1, <1>2, CopiesCountedNext

\* A step that leaves the ledger alone keeps the agreement if it keeps the rows
\* of the outbox, or takes them from PENDING to PROCESSING, and if what workers
\* remember anew is what the rows say.
LEMMA AgreesAfterClaim ==
  ASSUME TypeOK, OutcomesAgree, CopiesCounted,
         UNCHANGED <<settlement_ledger, transaction_events>>,
         \A r \in Refs :
           /\ outbox_events'[r].attempt_count = outbox_events[r].attempt_count
           /\ \/ outbox_events'[r].state = outbox_events[r].state
              \/ /\ outbox_events[r].state = "PENDING"
                 /\ outbox_events'[r].state = "PROCESSING",
         \A p \in Workers : \A ev \in batch'[p] :
           \/ ev \in batch[p]
           \/ /\ ev.ref \in Refs
              /\ ev.attempt_count = outbox_events[ev.ref].attempt_count
  PROVE  OutcomesAgree' /\ CopiesCounted'
<1>a. \A r \in Refs :
        RowAgrees(settlement_ledger[r], outbox_events[r], transaction_events[r])
  BY AgreesByReference
<1>1. ASSUME NEW r \in Refs
      PROVE  RowAgrees(settlement_ledger'[r], outbox_events'[r], transaction_events'[r])
  <2>1. /\ RowAgrees(settlement_ledger[r], outbox_events[r], transaction_events[r])
        /\ settlement_ledger'[r] = settlement_ledger[r]
        /\ transaction_events'[r] = transaction_events[r]
        /\ outbox_events'[r].attempt_count = outbox_events[r].attempt_count
        /\ \/ outbox_events'[r].state = outbox_events[r].state
           \/ /\ outbox_events[r].state = "PENDING"
              /\ outbox_events'[r].state = "PROCESSING"
    BY <1>a
  <2>2. QED
    BY <2>1 DEF RowAgrees
<1>2. ASSUME NEW p \in Workers, NEW ev \in batch'[p]
      PROVE  CopyCounted(ev, transaction_events'[ev.ref])
  <2>1. CASE ev \in batch[p]
    BY <2>1 DEF CopiesCounted
  <2>2. CASE ev.ref \in Refs /\ ev.attempt_count = outbox_events[ev.ref].attempt_count
    BY <1>a, <2>2 DEF RowAgrees, CopyCounted
  <2>3. QED
    BY <2>1, <2>2
<1>3. QED
  BY <1>1, <1>2, AgreesByReferenceNext, CopiesCountedNext

LEMMA AgreesNext ==
  ASSUME SqlInv, CurrentClaims, OutcomesAgree, CopiesCounted, [SqlNext]_sqlVars
  PROVE  OutcomesAgree' /\ CopiesCounted'
<1> DEFINE Goal == OutcomesAgree' /\ CopiesCounted'
<1>t. TypeOK /\ SqlTypeOK /\ BatchRowsExist
  BY DEF SqlInv, SqlTypeOK
<1>a. \A r \in Refs :
        /\ RowAgrees(settlement_ledger[r], outbox_events[r], transaction_events[r])
        /\ Cardinality(Outcomes(transaction_events[r])) \in Nat
        /\ outbox_events[r].attempt_count \in Nat
        /\ settlement_ledger[r] \in LedgerRow /\ outbox_events[r] \in OutboxRow
        /\ outbox_events[r].state = Absent <=> settlement_ledger[r].state = Absent
  BY <1>t, AgreesByReference, OutcomesOfStep DEF TypeOK, OutboxRow, SqlInv, RowsPaired
<1>1. ASSUME NEW r \in Refs, Create(r)
      PROVE  Goal
  <2>1. /\ OthersUnchanged(r) /\ batch' = batch /\ settlement_ledger[r].state = Absent
        /\ settlement_ledger'[r].provider_status = "NONE"
        /\ outbox_events'[r].state = "PENDING" /\ outbox_events'[r].attempt_count = 0
        /\ transaction_events'[r] = <<AuditEvent("INITIATED", "api")>>
    BY <1>t, <1>1, CreateEffect
  <2>2. Outcomes(<<AuditEvent("INITIATED", "api")>>) = {}
    BY DEF Outcomes, IsOutcome, AuditEvent
  <2>3. Cardinality(Outcomes(transaction_events'[r])) = 0
    BY <2>1, <2>2, FS_EmptySet
  <2>4. RowAgrees(settlement_ledger'[r], outbox_events'[r], transaction_events'[r])
    BY <2>1, <2>3 DEF RowAgrees
  <2>5. QED
    BY <1>t, <2>1, <2>4, AgreesAfter
<1>2. ASSUME NEW r \in Refs, TxReconcile(r) \/ MTNCollectionCallback(r)
      PROVE  Goal
  <2>1. PICK target \in LedgerStates :
           LedgerReconciled(r, target) /\ OthersUnchanged(r)
             /\ outbox_events' = outbox_events /\ batch' = batch
    BY <1>t, <1>2, ReconcileEffect DEF LedgerReconciled
  <2>2. Cardinality(Outcomes(transaction_events'[r]))
          = Cardinality(Outcomes(transaction_events[r]))
    BY <1>t, <2>1, OutcomesOfStep
  <2>3. /\ CanTransition(settlement_ledger[r].state, target)
        /\ settlement_ledger'[r].state = target
        /\ settlement_ledger'[r].provider_status = settlement_ledger[r].provider_status
    BY <2>1 DEF LedgerReconciled
  <2>4. RowAgrees(settlement_ledger'[r], outbox_events'[r], transaction_events'[r])
    BY <1>a, <2>1, <2>2, <2>3 DEF RowAgrees, CanTransition
  <2>5. QED
    BY <1>t, <1>a, <2>1, <2>2, <2>4, AgreesAfter
<1>3. ASSUME NEW r \in Refs, BackoffElapses(r)
      PROVE  Goal
  BY <1>t, <1>3, BackoffEffect, AgreesAfterClaim
<1>4. ASSUME NEW p \in Workers, FindReadyEvents(p)
      PROVE  Goal
  <2>1. PICK found \in SUBSET Refs :
           UNCHANGED tables /\ batch' = [batch EXCEPT ![p] = Remembered(found)]
    BY <1>t, <1>4, FindEffect
  <2>2. \A q \in Workers : \A ev \in batch'[q] : ev \in batch[q] \/ ev \in Remembered(found)
    BY <1>t, <2>1 DEF TypeOK
  <2>3. QED
    BY <1>t, <2>1, <2>2, RememberedEvents, AgreesAfterClaim DEF tables
<1>5. ASSUME NEW p \in Workers, ClaimUnlocked(p)
      PROVE  Goal
  <2>0. PICK claimed \in SUBSET Refs : ClaimedRows(p, claimed)
    BY <1>t, <1>5, ClaimUnlockedEffect
  <2>1. /\ p \in CurrentWorkers
        /\ \A r \in claimed :
             /\ outbox_events[r].state = "PENDING"
             /\ outbox_events'[r].state = "PROCESSING"
             /\ outbox_events'[r].attempt_count = outbox_events[r].attempt_count
        /\ \A r \in Refs \ claimed : outbox_events'[r] = outbox_events[r]
        /\ batch' = [batch EXCEPT ![p] = Remembered(claimed)]
    BY <2>0 DEF ClaimedRows
  <2>u. UNCHANGED <<settlement_ledger, transaction_events>>
    BY <1>5 DEF ClaimUnlocked
  <2>2. \A q \in Workers : \A ev \in batch'[q] : ev \in batch[q] \/ ev \in Remembered(claimed)
    BY <1>t, <2>1 DEF TypeOK
  <2>3. \A r \in Refs :
          /\ outbox_events'[r].attempt_count = outbox_events[r].attempt_count
          /\ \/ outbox_events'[r].state = outbox_events[r].state
             \/ /\ outbox_events[r].state = "PENDING"
                /\ outbox_events'[r].state = "PROCESSING"
    BY <2>1
  <2>4. QED
    BY <1>t, <2>u, <2>1, <2>2, <2>3, RememberedEvents, AgreesAfterClaim
<1>6. ASSUME NEW p \in Workers, NEW ev \in batch[p], CompleteAndCommit(p, ev)
      PROVE  Goal
  <2> DEFINE r == ev.ref
  <2>1. /\ r \in Refs /\ LedgerCompleted(r) /\ OthersUnchanged(r) /\ OutboxCompleted(p, r)
        /\ batch' = [batch EXCEPT ![p] = @ \ {ev}]
        /\ settlement_ledger[r].state = "INITIATED"
    BY <1>t, <1>6, BatchType, CommitFacts, CompleteCommitEffect
  <2>2. Cardinality(Outcomes(transaction_events'[r]))
          = Cardinality(Outcomes(transaction_events[r])) + 1
    BY <1>t, <2>1, OutcomesOfStep
  <2>3. outbox_events[r].state \in {"PENDING", "PROCESSING"}
    BY <1>a, <2>1 DEF RowAgrees, OutboxRow, OutboxStates, Absent
  <2>4. outbox_events[r].state = HeldState(p) \/ outbox_events[r].state = "PROCESSING"
    BY <2>3 DEF CurrentClaims, CurrentWorkers, HeldState
  <2>5. /\ settlement_ledger'[r].state = "SETTLED"
        /\ settlement_ledger'[r].provider_status = "DELIVERED"
    BY <2>1 DEF LedgerCompleted
  <2>6. /\ outbox_events'[r].state \in {"SENT", "PROCESSING"}
        /\ outbox_events'[r].attempt_count
             \in {outbox_events[r].attempt_count, outbox_events[r].attempt_count + 1}
    BY <2>1, <2>4 DEF OutboxCompleted
  <2>c. /\ Cardinality(Outcomes(transaction_events[r])) \in Nat
        /\ outbox_events[r].attempt_count \in Nat
        /\ outbox_events[r].attempt_count <= Cardinality(Outcomes(transaction_events[r]))
    BY <1>a, <2>1 DEF RowAgrees
  <2>7. outbox_events'[r].attempt_count <= Cardinality(Outcomes(transaction_events'[r]))
    BY <2>2, <2>6, <2>c
  <2>8. RowAgrees(settlement_ledger'[r], outbox_events'[r], transaction_events'[r])
    BY <2>5, <2>6, <2>7 DEF RowAgrees
  <2>9. \A q \in Workers : batch'[q] \subseteq batch[q]
    BY <1>t, <2>1 DEF TypeOK
  <2>10. /\ Cardinality(Outcomes(transaction_events'[r])) \in Nat
         /\ Cardinality(Outcomes(transaction_events[r]))
              <= Cardinality(Outcomes(transaction_events'[r]))
    BY <2>2, <2>c
  <2>11. QED
    BY <1>t, <2>1, <2>8, <2>9, <2>10, AgreesAfter
<1>7. ASSUME NEW p \in Workers, NEW ev \in batch[p], FailAndCommit(p, ev), ~Rollback(p, ev)
      PROVE  Goal
  <2> DEFINE r == ev.ref
  <2>1. PICK workflow \in {"RETRY_SCHEDULED", "FAILED", "UNKNOWN"} :
           LedgerFailed(r, workflow) /\ OutboxFailed(p, ev, workflow)
    BY <1>t, <1>7, FailCommitEffect
  <2>2. /\ r \in Refs /\ OthersUnchanged(r) /\ batch' = [batch EXCEPT ![p] = @ \ {ev}]
        /\ ev.attempt_count \in Nat
    BY <1>t, <1>7, BatchType, FailCommitEffect
  <2>3. Cardinality(Outcomes(transaction_events'[r]))
          = Cardinality(Outcomes(transaction_events[r])) + 1
    BY <1>t, <2>1, <2>2, OutcomesOfStep
  <2>4. /\ settlement_ledger[r].state \in {"INITIATED", "PENDING"}
        /\ settlement_ledger'[r].state = LedgerStateAfter(workflow)
        /\ settlement_ledger'[r].provider_status =
             CASE workflow = "FAILED"  -> "DECLINED"
               [] workflow = "UNKNOWN" -> "TIMEOUT"
               [] OTHER -> settlement_ledger[r].provider_status
    BY <2>1 DEF LedgerFailed
  <2>5. /\ settlement_ledger[r].provider_status = "NONE"
        /\ outbox_events[r].state \in {"PENDING", "PROCESSING"}
    BY <1>a, <2>2, <2>4 DEF RowAgrees, LedgerRow, OutboxRow, OutboxStates, Absent
  <2>6. /\ outbox_events'[r].state \in {"PENDING", "PROCESSING", "FAILED"}
        /\ workflow = "RETRY_SCHEDULED" => outbox_events'[r].state # "FAILED"
        /\ outbox_events'[r].attempt_count
             \in {outbox_events[r].attempt_count, ev.attempt_count + 1}
    BY <2>1, <2>5 DEF OutboxFailed
  <2>7. ev.attempt_count <= Cardinality(Outcomes(transaction_events[r]))
    BY DEF CopiesCounted, CopyCounted
  <2>c. /\ Cardinality(Outcomes(transaction_events[r])) \in Nat
        /\ outbox_events[r].attempt_count \in Nat
        /\ outbox_events[r].attempt_count <= Cardinality(Outcomes(transaction_events[r]))
    BY <1>a, <2>2 DEF RowAgrees
  <2>8. outbox_events'[r].attempt_count <= Cardinality(Outcomes(transaction_events'[r]))
    BY <2>2, <2>3, <2>6, <2>7, <2>c
  <2>9. RowAgrees(settlement_ledger'[r], outbox_events'[r], transaction_events'[r])
    BY <2>1, <2>4, <2>5, <2>6, <2>8 DEF RowAgrees, LedgerStateAfter
  <2>10. \A q \in Workers : batch'[q] \subseteq batch[q]
    BY <1>t, <2>2 DEF TypeOK
  <2>11. /\ Cardinality(Outcomes(transaction_events'[r])) \in Nat
         /\ Cardinality(Outcomes(transaction_events[r]))
              <= Cardinality(Outcomes(transaction_events'[r]))
    BY <2>3, <2>c
  <2>12. QED
    BY <1>t, <2>2, <2>9, <2>10, <2>11, AgreesAfter
<1>8. ASSUME NEW p \in Workers, SqlDropped(p)
      PROVE  Goal
  <2>1. UNCHANGED tables /\ \A q \in Workers : batch'[q] \subseteq batch[q]
    BY <1>t, <1>8 DEF SqlDropped, TypeOK
  <2>2. QED
    BY <1>t, <2>1, AgreesAfterClaim DEF tables
<1>9. ASSUME \/ \E p \in Workers : \E ev \in batch[p] : Opened(p, ev)
             \/ UNCHANGED sqlVars
      PROVE  Goal
  BY <1>t, <1>9, AgreesAfterClaim DEF Opened, vars, sqlVars
<1>10. SqlCase
  BY OpenTxFacts, SqlCases DEF SqlInv
<1> HIDE DEF Goal
<1>11. Goal
  BY <1>1, <1>2, <1>3, <1>4, <1>5, <1>6, <1>7, <1>8, <1>9, <1>10 DEF SqlCase
<1>12. QED
  BY <1>11 DEF Goal

LEMMA AgreesInit == SqlInit => CurrentClaims /\ OutcomesAgree /\ CopiesCounted
<1> SUFFICES ASSUME SqlInit
             PROVE  CurrentClaims /\ OutcomesAgree /\ CopiesCounted
  OBVIOUS
<1>1. /\ \A p \in Workers : batch[p] = {}
      /\ \A r \in Refs : /\ settlement_ledger[r] = NoLedgerRow
                         /\ outbox_events[r] = NoOutboxRow
                         /\ transaction_events[r] = <<>>
  BY DEF SqlInit, Init, StoreInit
<1>2. Outcomes(<<>>) = {} /\ Cardinality({}) = 0
  BY FS_EmptySet DEF Outcomes
<1>3. \A r \in Refs : Cardinality(Outcomes(transaction_events[r])) = 0
  BY <1>1, <1>2
<1>4. OutcomesAgree
  BY <1>1, <1>3, AgreesByReference DEF RowAgrees, NoLedgerRow, NoOutboxRow, Absent
<1>5. CurrentClaims /\ CopiesCounted
  BY <1>1 DEF CurrentClaims, CopiesCounted, CurrentWorkers
<1>6. QED
  BY <1>4, <1>5

LEMMA ClaimsAndCopies == SqlSpec => [](CurrentClaims /\ OutcomesAgree /\ CopiesCounted)
<1>1. SqlInv /\ CurrentClaims /\ OutcomesAgree /\ CopiesCounted /\ [SqlNext]_sqlVars
        => (CurrentClaims /\ OutcomesAgree /\ CopiesCounted)'
  BY CurrentClaimsNext, AgreesNext
<1>2. QED
  BY <1>1, AgreesInit, SqlInvAlways, PTL DEF SqlSpec

\* A row is SENT or FAILED only with the outcome that goes with it, a delivered
\* transaction is not polled again and no attempt is made up, although legacy
\* workers act on events that they have not claimed.
THEOREM SharedOutcomesAgree == SqlSpec => []OutcomesAgree
BY ClaimsAndCopies, PTL

\* What a current worker has claimed stays its own although legacy workers read
\* and resolve rows without a claim: they only ever update a PENDING row.
THEOREM CurrentClaimsHold == SqlSpec => []CurrentClaims
BY ClaimsAndCopies, PTL

-----------------------------------------------------------------------------
(***************************************************************************)
(* Without legacy workers the statements of SharedOutbox implement the     *)
(* one-step transactions of OutboxWorker.                                  *)
(***************************************************************************)

LEMMA CurrentLocksNext ==
  ASSUME SqlInv, CurrentClaims, CurrentLocks, [SqlNext]_sqlVars
  PROVE  CurrentLocks'
<1>t. TypeOK /\ SqlTypeOK /\ \A w \in CurrentWorkers : w \in Workers
  BY DEF SqlInv, SqlTypeOK, CurrentWorkers
<1>1. CASE tx' = tx
  BY <1>1 DEF CurrentLocks
<1>2. ASSUME NEW p \in Workers, tx' = [tx EXCEPT ![p] = NoTx]
      PROVE  CurrentLocks'
  <2>1. tx'[p].event = {} /\ \A w \in Workers \ {p} : tx'[w] = tx[w]
    BY <1>t, <1>2, ClosedTx DEF SqlTypeOK
  <2>2. QED
    BY <1>t, <2>1 DEF CurrentLocks
<1>3. ASSUME NEW p \in Workers, NEW ev \in batch[p], Opened(p, ev)
      PROVE  CurrentLocks'
  <2>1. PICK locks \in {{"settlement_ledger"}, {"outbox_events"}, {}} :
          /\ tx' = [tx EXCEPT ![p] = [event |-> {ev}, locks |-> locks]]
          /\ locks = {} => outbox_events[ev.ref].state # HeldState(p)
    BY <1>3 DEF Opened, Open
  <2>2. p \in CurrentWorkers => locks # {}
    BY <2>1 DEF CurrentClaims, CurrentWorkers, HeldState
  <2>3. tx'[p].locks = locks /\ \A w \in Workers \ {p} : tx'[w] = tx[w]
    BY <2>1 DEF SqlTypeOK, SqlInv
  <2>4. QED
    BY <1>t, <2>2, <2>3 DEF CurrentLocks
<1>4. ASSUME NEW p \in Workers, NEW ev \in batch[p],
             CompleteAndCommit(p, ev) \/ (FailAndCommit(p, ev) /\ ~Rollback(p, ev))
      PROVE  tx' = [tx EXCEPT ![p] = NoTx]
  BY <1>t, <1>4, FailCommitEffect DEF CompleteAndCommit, Close
<1>5. \A p \in Workers : FindReadyEvents(p) \/ ClaimUnlocked(p) => tx' = tx
  BY DEF FindReadyEvents, ClaimUnlocked
<1>6. SqlCase
  BY OpenTxFacts, SqlCases DEF SqlInv
<1>7. \A p \in Workers : SqlDropped(p) => tx' = [tx EXCEPT ![p] = NoTx]
  BY DEF SqlDropped
<1> DEFINE Closed == \E p \in Workers : tx' = [tx EXCEPT ![p] = NoTx]
<1>8. ASSUME \/ \E p \in Workers : FindReadyEvents(p)
             \/ \E p \in Workers : ClaimUnlocked(p)
             \/ UNCHANGED sqlVars
      PROVE  tx' = tx
  BY <1>5, <1>8 DEF sqlVars
<1>9. ASSUME \/ \E p \in Workers : \E ev \in batch[p] : CompleteAndCommit(p, ev)
             \/ \E p \in Workers : \E ev \in batch[p] : FailAndCommit(p, ev) /\ ~Rollback(p, ev)
             \/ \E p \in Workers : SqlDropped(p)
      PROVE  Closed
  BY <1>4, <1>7, <1>9
<1> HIDE DEF Closed
<1>10. \/ tx' = tx \/ Closed
       \/ \E p \in Workers : \E ev \in batch[p] : Opened(p, ev)
  BY <1>6, <1>8, <1>9 DEF SqlCase
<1>11. QED
  BY <1>1, <1>2, <1>3, <1>10 DEF Closed

LEMMA LoneClaim ==
  ASSUME LegacyWorkers = {}, SqlInv, NEW p \in Workers, ClaimUnlocked(p)
  PROVE  ClaimReadyEvents(p)
<1>1. CurrentWorkers = Workers /\ \A q \in Workers : HeldState(q) = "PROCESSING"
  BY DEF CurrentWorkers, HeldState
<1>2. ASSUME NEW r \in Ready, Locked("outbox_events", r)
      PROVE  FALSE
  <2>1. PICK q \in Workers : \E ev \in tx[q].event :
          ev.ref = r /\ "outbox_events" \in tx[q].locks
    BY <1>2 DEF Locked, Holds
  <2>2. outbox_events[r].state = "PROCESSING"
    BY <1>1, <2>1 DEF SqlInv, TransactionsHold, OpenTx
  <2>3. QED
    BY <1>2, <2>2 DEF Ready
<1>3. {r \in Ready : ~Locked("outbox_events", r)} = Ready
  BY <1>2
<1>4. QED
  BY <1>1, <1>3 DEF ClaimUnlocked, ClaimReadyEvents

LEMMA LoneWorkerStep ==
  ASSUME LegacyWorkers = {}, SqlInv, CurrentClaims, CurrentLocks,
         NEW p \in Workers, SqlWorkerStep(p)
  PROVE  WorkerStep(p) \/ UNCHANGED vars
<1>1. CurrentWorkers = Workers /\ HeldState(p) = "PROCESSING"
  BY DEF CurrentWorkers, HeldState
<1>2. \A r, state, attempts, due :
        UpdateHeld(p, r, state, attempts, due) <=> UpdateProcessing(r, state, attempts, due)
  BY <1>1 DEF UpdateHeld, UpdateProcessing
<1>3. CASE ClaimUnlocked(p)
  BY <1>3, LoneClaim DEF WorkerStep
<1>4. ASSUME NEW ev \in batch[p], LockLedgerRow(p, ev)
      PROVE  RejectedEvent(p, ev) \/ UNCHANGED vars
  BY <1>4 DEF LockLedgerRow, Rollback, RejectedEvent, Fails
<1>5. ASSUME NEW ev \in batch[p], LockOutboxRow(p, ev)
      PROVE  UNCHANGED vars
  BY <1>5 DEF LockOutboxRow
<1>6. ASSUME NEW ev \in batch[p], CompleteAndCommit(p, ev)
      PROVE  CompleteSuccessfulEvent(p, ev)
  <2>1. ~Fails(p, ev) /\ settlement_ledger[ev.ref].state = "INITIATED"
    BY <1>6, CommitFacts
  <2>2. QED
    BY <1>2, <1>6, <2>1 DEF CompleteAndCommit, CompleteSuccessfulEvent, Fails
<1>7. ASSUME NEW ev \in batch[p], FailAndCommit(p, ev)
      PROVE  MarkFailedAttempt(p, ev) \/ RejectedEvent(p, ev)
  <2>1. Fails(p, ev) /\ tx[p].event = {ev} /\ tx[p].locks \subseteq {"outbox_events"}
    BY <1>7, CommitFacts
  <2>2. "outbox_events" \in tx[p].locks
    BY <1>1, <2>1 DEF CurrentLocks
  <2>3. CASE ~AcceptsFailure(ev.ref) /\ Rollback(p, ev)
    BY <2>1, <2>3 DEF Rollback, RejectedEvent, AcceptsFailure, Fails
  <2>4. CASE AcceptsFailure(ev.ref)
    BY <1>2, <1>7, <2>1, <2>2, <2>4
    DEF FailAndCommit, MarkFailedAttempt, UpdateLocked, AcceptsFailure, Fails
  <2>5. QED
    BY <1>7, <2>3, <2>4 DEF FailAndCommit
<1>8. CASE AbortTransaction(p)
  BY <1>8 DEF AbortTransaction, Rollback, DatabaseError, WorkerStep
<1>9. CASE StopProcess(p)
  BY <1>9 DEF StopProcess, WorkerStep
<1>10. ~FindReadyEvents(p)
  BY DEF FindReadyEvents
<1>11. QED
  BY <1>3, <1>4, <1>5, <1>6, <1>7, <1>8, <1>9, <1>10
  DEF SqlWorkerStep, BeginOutcome, CommitOutcome, WorkerStep, ProcessEvent

\* Current workers alone: taken statement by statement, with the locks they wait
\* for, their transactions are the atomic steps of OutboxWorker, so everything
\* that holds there holds here.
THEOREM CurrentWorkersAlone ==
  ASSUME LegacyWorkers = {}
  PROVE  SqlSpec => Spec
<1>1. SqlInit => Init /\ CurrentLocks
  BY DEF SqlInit, NoTx, CurrentLocks, CurrentWorkers
<1>2. SqlInv /\ CurrentClaims /\ CurrentLocks /\ [SqlNext]_sqlVars => CurrentLocks'
  BY CurrentLocksNext
<1>3. SqlInv /\ CurrentClaims /\ CurrentLocks /\ [SqlNext]_sqlVars => [Next]_vars
  <2> SUFFICES ASSUME SqlInv, CurrentClaims, CurrentLocks, [SqlNext]_sqlVars
               PROVE  [Next]_vars
    OBVIOUS
  <2>1. ASSUME NEW p \in Workers, SqlWorkerStep(p)
        PROVE  [Next]_vars
    BY <2>1, LoneWorkerStep DEF Next
  <2>2. ASSUME NEW r \in Refs, SqlRefStep(r)
        PROVE  Next
    BY <2>2 DEF SqlRefStep, RefStep, Next
  <2>3. UNCHANGED sqlVars => UNCHANGED vars
    BY DEF sqlVars, vars
  <2>4. QED
    BY <2>1, <2>2, <2>3 DEF SqlNext
<1>4. QED
  BY <1>1, <1>2, <1>3, SqlInvAlways, ClaimsAndCopies, PTL DEF SqlSpec, Spec

\* So the statements of current workers make up one queue of work.
THEOREM CurrentWorkersMakeAQueue ==
  ASSUME LegacyWorkers = {}
  PROVE  SqlSpec => ImplementsQueue
BY CurrentWorkersAlone, OutboxImplementsQueue, PTL

\* Nor do the locks and the statements between them strand anything.
THEOREM StatementsStrandNothing ==
  ASSUME LegacyWorkers = {}, Undisturbed
  PROVE  SqlSpec => []NothingStranded
BY CurrentWorkersAlone, NothingIsStranded, PTL

=============================================================================
