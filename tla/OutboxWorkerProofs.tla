------------------------- MODULE OutboxWorkerProofs -------------------------
(***************************************************************************)
(* Theorems about OutboxWorker for any set of references and workers, any  *)
(* max_retries and batch size, any inputs, faults and schema.              *)
(***************************************************************************)
EXTENDS OutboxWorker, TLAPS

USE RefsAssumption, PayloadsAssumption, MaxRetriesAssumption,
    BatchSizeAssumption, OperatorAssumption, ProviderAssumption

\* What a reconciliation may be asked for, whoever asks.
LEMMA TargetsAreLedgerStates ==
  /\ OperatorTargets \subseteq LedgerStates
  /\ \A s \in MTNStatuses : LookupTarget(s) \in LedgerStates
  /\ \A s \in MTNStatuses : MapMTNCallbackStatus(s) \in LedgerStates
BY DEF ValidTargetStatuses, LedgerStates, MTNStatuses, LookupTarget,
       MapSettlementStatus, MapMTNCallbackStatus

LEMMA FailureWorkflowType ==
  ASSUME NEW attempt \in Nat, NEW decline \in BOOLEAN
  PROVE  /\ FailureWorkflow(attempt, decline) \in {"RETRY_SCHEDULED", "FAILED", "UNKNOWN"}
         /\ FailureWorkflow(attempt, decline) = "RETRY_SCHEDULED" <=> attempt < MaxRetries
BY DEF FailureWorkflow

-----------------------------------------------------------------------------
(***************************************************************************)
(* Type correctness.                                                       *)
(***************************************************************************)

LEMMA TypeInit == Init => TypeOK
BY DEF Init, StoreInit, TypeOK, NoLedgerRow, NoOutboxRow, LedgerRow, OutboxRow,
       Absent, ReconStates, Payload

\* UpdateLedger keeps the type of the ledger when the new row has it.
LEMMA UpdateLedgerType ==
  ASSUME TypeOK, NEW r \in Refs, NEW row \in LedgerRow, NEW n \in Nat,
         UpdateLedger(r, row, n)
  PROVE  settlement_ledger' \in [Refs -> LedgerRow]
<1>1. [row EXCEPT !.version = row.version + n] \in LedgerRow
  BY DEF LedgerRow
<1>2. QED
  BY <1>1 DEF UpdateLedger, TypeOK

\* UpdateProcessing likewise for the outbox.
LEMMA UpdateProcessingType ==
  ASSUME TypeOK, NEW r \in Refs, NEW state \in OutboxStates, NEW attempts \in Nat,
         NEW due \in BOOLEAN, UpdateProcessing(r, state, attempts, due)
  PROVE  outbox_events' \in [Refs -> OutboxRow]
<1>1. [outbox_events[r] EXCEPT !.state = state, !.attempt_count = attempts,
                               !.due = due] \in OutboxRow
  BY DEF TypeOK, OutboxRow
<1>2. QED
  BY <1>1 DEF UpdateProcessing, TypeOK

LEMMA TypeReconcile ==
  ASSUME TypeOK, NEW r \in Refs, NEW target \in LedgerStates,
         ReconcileTransaction(r, target), UNCHANGED batch
  PROVE  TypeOK'
<1>1. settlement_ledger' \in [Refs -> LedgerRow]
  <2>1. [settlement_ledger[r] EXCEPT !.state = target,
                                     !.recon_status = "RECONCILED"] \in LedgerRow
    BY DEF TypeOK, LedgerRow, ReconStates
  <2>2. QED
    BY <2>1, UpdateLedgerType DEF ReconcileTransaction
<1>2. transaction_events' \in [Refs -> Seq(Event)]
  <2>1. AuditEvent(target, "manual-reconcile") \in Event
    BY DEF AuditEvent, Event, WorkflowStates, Sources
  <2>2. QED
    BY <2>1 DEF TypeOK, ReconcileTransaction
<1>3. QED
  BY <1>1, <1>2 DEF TypeOK, ReconcileTransaction

LEMMA TypeNext == TypeOK /\ [Next]_vars => TypeOK'
<1> SUFFICES ASSUME TypeOK, [Next]_vars
             PROVE  TypeOK'
  OBVIOUS
<1>1. ASSUME NEW r \in Refs, Create(r)
      PROVE  TypeOK'
  <2> PICK payload \in Payloads : CreateTx(r, payload)
    BY <1>1 DEF Create
  <2>1. settlement_ledger' \in [Refs -> LedgerRow]
    BY DEF TypeOK, CreateTx, LedgerRow, LedgerStates, ReconStates
  <2>2. transaction_events' \in [Refs -> Seq(Event)]
    <3>1. AuditEvent("INITIATED", "api") \in Event
      BY DEF AuditEvent, Event, WorkflowStates, LedgerStates, Sources
    <3>2. QED
      BY <3>1 DEF TypeOK, CreateTx
  <2>3. outbox_events' \in [Refs -> OutboxRow]
    BY DEF TypeOK, CreateTx, OutboxRow, OutboxStates
  <2>4. QED
    BY <1>1, <2>1, <2>2, <2>3 DEF TypeOK, Create
<1>2. ASSUME NEW r \in Refs, TxReconcile(r)
      PROVE  TypeOK'
  BY <1>2, TypeReconcile, TargetsAreLedgerStates DEF TxReconcile
<1>3. ASSUME NEW r \in Refs, MTNCollectionCallback(r)
      PROVE  TypeOK'
  BY <1>3, TypeReconcile, TargetsAreLedgerStates DEF MTNCollectionCallback
<1>4. ASSUME NEW r \in Refs, BackoffElapses(r)
      PROVE  TypeOK'
  BY <1>4 DEF BackoffElapses, TypeOK, OutboxRow
<1>5. ASSUME NEW w \in Workers, ClaimReadyEvents(w)
      PROVE  TypeOK'
  <2> PICK locked \in SUBSET Ready :
        LET claimed == Oldest(Ready \ locked, BatchSize)
        IN  /\ outbox_events' = [r \in Refs |->
                 IF r \in claimed
                 THEN [outbox_events[r] EXCEPT !.state = "PROCESSING"]
                 ELSE outbox_events[r]]
            /\ batch' = [batch EXCEPT ![w] =
                 {[ref |-> r, attempt_count |-> outbox_events[r].attempt_count] :
                    r \in claimed}]
    BY <1>5 DEF ClaimReadyEvents, Claim
  <2> DEFINE claimed == Oldest(Ready \ locked, BatchSize)
  <2>1. claimed \subseteq Refs
    BY DEF Oldest, Ready
  <2>2. outbox_events' \in [Refs -> OutboxRow]
    BY DEF TypeOK, OutboxRow, OutboxStates
  <2>3. batch' \in [Workers -> SUBSET OutboxEvent]
    <3>1. \A r \in claimed :
            [ref |-> r, attempt_count |-> outbox_events[r].attempt_count] \in OutboxEvent
      BY <2>1 DEF TypeOK, OutboxRow, OutboxEvent
    <3>2. QED
      BY <3>1 DEF TypeOK
  <2>4. QED
    BY <1>5, <2>2, <2>3 DEF TypeOK, ClaimReadyEvents
<1>6. ASSUME NEW w \in Workers, NEW ev \in batch[w], CompleteSuccessfulEvent(w, ev)
      PROVE  TypeOK'
  <2>1. ev \in OutboxEvent /\ ev.ref \in Refs
    BY <1>6 DEF TypeOK, OutboxEvent
  <2>2. settlement_ledger' \in [Refs -> LedgerRow]
    <3>1. settlement_ledger[ev.ref] \in LedgerRow
      BY <2>1 DEF TypeOK
    <3>2. [settlement_ledger[ev.ref] EXCEPT
             !.state = "SETTLED", !.provider_status = "DELIVERED"] \in LedgerRow
      BY <3>1 DEF LedgerRow, LedgerStates
    <3>3. QED
      BY <1>6, <2>1, <3>2, UpdateLedgerType DEF CompleteSuccessfulEvent
  <2>3. transaction_events' \in [Refs -> Seq(Event)]
    <3>1. /\ AuditEvent("PENDING", "outbox-worker") \in Event
          /\ AuditEvent("SETTLED", "provider-simulator") \in Event
      BY DEF AuditEvent, Event, WorkflowStates, LedgerStates, Sources
    <3>2. QED
      BY <1>6, <2>1, <3>1 DEF TypeOK, CompleteSuccessfulEvent
  <2>4. outbox_events' \in [Refs -> OutboxRow]
    <3>1. outbox_events[ev.ref] \in OutboxRow
      BY <2>1 DEF TypeOK
    <3>2. /\ outbox_events[ev.ref].attempt_count + 1 \in Nat
          /\ outbox_events[ev.ref].due \in BOOLEAN
      BY <3>1 DEF OutboxRow
    <3>3. QED
      BY <1>6, <2>1, <3>2, UpdateProcessingType
      DEF CompleteSuccessfulEvent, OutboxStates
  <2>5. batch' \in [Workers -> SUBSET OutboxEvent]
    BY <1>6 DEF TypeOK, CompleteSuccessfulEvent, Forget
  <2>6. QED
    BY <2>2, <2>3, <2>4, <2>5 DEF TypeOK
<1>7. ASSUME NEW w \in Workers, NEW ev \in batch[w], MarkFailedAttempt(w, ev)
      PROVE  TypeOK'
  <2> DEFINE r        == ev.ref
             answer   == ShouldSimulateFailure(outbox_events[r].payload)
             next     == ev.attempt_count + 1
             workflow == FailureWorkflow(next, answer.decline)
  <2>1. ev \in OutboxEvent /\ r \in Refs /\ next \in Nat
    BY <1>7 DEF TypeOK, OutboxEvent
  <2>2. workflow \in {"RETRY_SCHEDULED", "FAILED", "UNKNOWN"}
    BY <2>1, FailureWorkflowType DEF ShouldSimulateFailure
  <2>3. settlement_ledger' \in [Refs -> LedgerRow]
    <3> DEFINE status == CASE workflow = "FAILED"  -> "DECLINED"
                           [] workflow = "UNKNOWN" -> "TIMEOUT"
                           [] OTHER -> settlement_ledger[r].provider_status
               row == [settlement_ledger[r] EXCEPT
                         !.state = LedgerStateAfter(workflow),
                         !.provider_status = status]
    <3>1. status \in {"NONE", "DELIVERED", "DECLINED", "TIMEOUT"}
      BY <2>1, <2>2 DEF TypeOK, LedgerRow
    <3>2. LedgerStateAfter(workflow) \in LedgerStates
      BY <2>2 DEF LedgerStateAfter, LedgerStates
    <3>3. row \in LedgerRow
      <4> HIDE DEF status, workflow
      <4>1. settlement_ledger[r] \in LedgerRow
        BY <2>1 DEF TypeOK
      <4>2. QED
        BY <3>1, <3>2, <4>1 DEF LedgerRow
    <3>4. UpdateLedger(r, row, 1)
      BY <1>7 DEF MarkFailedAttempt
    <3>5. QED
      BY <2>1, <3>3, <3>4, UpdateLedgerType
  <2>4. transaction_events' \in [Refs -> Seq(Event)]
    <3>1. AuditEvent(workflow, "outbox-worker") \in Event
      BY <2>2 DEF AuditEvent, Event, WorkflowStates, LedgerStates, Sources
    <3>2. QED
      BY <1>7, <2>1, <3>1 DEF TypeOK, MarkFailedAttempt
  <2>5. outbox_events' \in [Refs -> OutboxRow]
    BY <1>7, <2>1, UpdateProcessingType DEF MarkFailedAttempt, OutboxStates
  <2>6. batch' \in [Workers -> SUBSET OutboxEvent]
    BY <1>7 DEF TypeOK, MarkFailedAttempt, Forget
  <2>7. QED
    BY <2>3, <2>4, <2>5, <2>6 DEF TypeOK
<1>8. ASSUME NEW w \in Workers, NEW ev \in batch[w], RejectedEvent(w, ev)
      PROVE  TypeOK'
  BY <1>8 DEF RejectedEvent, Forget, TypeOK, tables
<1>9. ASSUME NEW w \in Workers, StopWorker(w) \/ DatabaseError(w)
      PROVE  TypeOK'
  BY <1>9 DEF StopWorker, DatabaseError, Forget, TypeOK, tables
<1>10. CASE UNCHANGED vars
  BY <1>10 DEF vars, TypeOK
<1>11. QED
  BY <1>1, <1>2, <1>3, <1>4, <1>5, <1>6, <1>7, <1>8, <1>9, <1>10
  DEF Next, WorkerStep, RefStep, ProcessEvent

\* Every variable keeps its type, whatever the workers, the API, MTN and the
\* faults do: in particular no state, workflow state or provider status that
\* the program does not name ever reaches a table.
THEOREM TypeCorrect == Spec => []TypeOK
BY TypeInit, TypeNext, PTL DEF Spec

-----------------------------------------------------------------------------
(***************************************************************************)
(* What each operation does to the rows, field by field: the invariants    *)
(* below are proved from these effects alone.                              *)
(***************************************************************************)

\* Everything about the references other than r stays as it is.
OthersUnchanged(r) ==
  \A q \in Refs \ {r} :
    /\ settlement_ledger'[q] = settlement_ledger[q]
    /\ transaction_events'[q] = transaction_events[q]
    /\ outbox_events'[q] = outbox_events[q]

LEMMA CreateEffect ==
  ASSUME TypeOK, NEW r \in Refs, Create(r)
  PROVE  /\ OthersUnchanged(r) /\ batch' = batch
         /\ settlement_ledger[r].state = Absent
         /\ settlement_ledger'[r].state = "INITIATED"
         /\ settlement_ledger'[r].recon_status = "UNRECONCILED"
         /\ settlement_ledger'[r].provider_status = "NONE"
         /\ settlement_ledger'[r].version = 1
         /\ transaction_events'[r] = <<AuditEvent("INITIATED", "api")>>
         /\ outbox_events'[r].state = "PENDING"
         /\ outbox_events'[r].attempt_count = 0
BY DEF Create, CreateTx, TypeOK, OthersUnchanged

\* TxReconcile and MTNCollectionCallback.
LEMMA ReconcileEffect ==
  ASSUME TypeOK, NEW r \in Refs, TxReconcile(r) \/ MTNCollectionCallback(r)
  PROVE  \E target \in LedgerStates :
           /\ CanTransition(settlement_ledger[r].state, target)
           /\ OthersUnchanged(r) /\ batch' = batch
           /\ settlement_ledger'[r].state = target
           /\ settlement_ledger'[r].recon_status = "RECONCILED"
           /\ settlement_ledger'[r].provider_status = settlement_ledger[r].provider_status
           /\ settlement_ledger'[r].version = settlement_ledger[r].version + 1
           /\ transaction_events'[r] =
                Append(transaction_events[r], AuditEvent(target, "manual-reconcile"))
           /\ outbox_events' = outbox_events
<1>1. PICK target \in LedgerStates : ReconcileTransaction(r, target) /\ batch' = batch
  BY TargetsAreLedgerStates DEF TxReconcile, MTNCollectionCallback
<1>2. settlement_ledger[r] \in LedgerRow
  BY DEF TypeOK
<1>3. /\ settlement_ledger'[r].state = target
      /\ settlement_ledger'[r].recon_status = "RECONCILED"
      /\ settlement_ledger'[r].provider_status = settlement_ledger[r].provider_status
      /\ settlement_ledger'[r].version = settlement_ledger[r].version + 1
      /\ \A q \in Refs \ {r} : settlement_ledger'[q] = settlement_ledger[q]
  BY <1>1, <1>2 DEF ReconcileTransaction, UpdateLedger, TypeOK, LedgerRow
<1>4. /\ transaction_events'[r] =
           Append(transaction_events[r], AuditEvent(target, "manual-reconcile"))
      /\ \A q \in Refs \ {r} : transaction_events'[q] = transaction_events[q]
  BY <1>1 DEF ReconcileTransaction, TypeOK
<1>5. QED
  BY <1>1, <1>3, <1>4 DEF ReconcileTransaction, OthersUnchanged

LEMMA ClaimEffect ==
  ASSUME TypeOK, NEW w \in Workers, ClaimReadyEvents(w)
  PROVE  \E claimed \in SUBSET Refs :
           /\ settlement_ledger' = settlement_ledger
           /\ transaction_events' = transaction_events
           /\ \A r \in claimed :
                /\ outbox_events[r].state = "PENDING"
                /\ outbox_events'[r].state = "PROCESSING"
                /\ outbox_events'[r].attempt_count = outbox_events[r].attempt_count
           /\ \A r \in Refs \ claimed : outbox_events'[r] = outbox_events[r]
           /\ batch[w] = {}
           /\ batch' = [batch EXCEPT ![w] =
                {[ref |-> r, attempt_count |-> outbox_events[r].attempt_count] :
                   r \in claimed}]
<1>1. PICK locked \in SUBSET Ready :
        LET claimed == Oldest(Ready \ locked, BatchSize)
        IN  /\ outbox_events' = [r \in Refs |->
                 IF r \in claimed
                 THEN [outbox_events[r] EXCEPT !.state = "PROCESSING"]
                 ELSE outbox_events[r]]
            /\ batch' = [batch EXCEPT ![w] =
                 {[ref |-> r, attempt_count |-> outbox_events[r].attempt_count] :
                    r \in claimed}]
  BY DEF ClaimReadyEvents, Claim
<1> DEFINE claimed == Oldest(Ready \ locked, BatchSize)
<1>2. claimed \in SUBSET Refs /\ \A r \in claimed : outbox_events[r].state = "PENDING"
  BY DEF Oldest, Ready
<1> HIDE DEF claimed
<1>3. \A r \in claimed : /\ outbox_events'[r].state = "PROCESSING"
                         /\ outbox_events'[r].attempt_count = outbox_events[r].attempt_count
  BY <1>1, <1>2 DEF TypeOK, OutboxRow, claimed
<1>4. \A r \in Refs \ claimed : outbox_events'[r] = outbox_events[r]
  BY <1>1 DEF claimed
<1>5. QED
  BY <1>1, <1>2, <1>3, <1>4 DEF ClaimReadyEvents, claimed

LEMMA CompleteEffect ==
  ASSUME TypeOK, NEW w \in Workers, NEW ev \in batch[w],
         CompleteSuccessfulEvent(w, ev), NEW r, r = ev.ref
  PROVE  /\ r \in Refs /\ OthersUnchanged(r)
         /\ settlement_ledger[r].state = "INITIATED"
         /\ settlement_ledger'[r].state = "SETTLED"
         /\ settlement_ledger'[r].recon_status = settlement_ledger[r].recon_status
         /\ settlement_ledger'[r].provider_status = "DELIVERED"
         /\ settlement_ledger'[r].version = settlement_ledger[r].version + 2
         /\ transaction_events'[r] =
              Append(Append(transaction_events[r], AuditEvent("PENDING", "outbox-worker")),
                     AuditEvent("SETTLED", "provider-simulator"))
         /\ outbox_events[r].state = "PROCESSING" =>
              /\ outbox_events'[r].state = "SENT"
              /\ outbox_events'[r].attempt_count = outbox_events[r].attempt_count + 1
         /\ batch' = [batch EXCEPT ![w] = @ \ {ev}]
<1>1. r \in Refs /\ settlement_ledger[r] \in LedgerRow /\ outbox_events[r] \in OutboxRow
  BY DEF TypeOK, OutboxEvent
<1>2. /\ settlement_ledger'[r].state = "SETTLED"
      /\ settlement_ledger'[r].recon_status = settlement_ledger[r].recon_status
      /\ settlement_ledger'[r].provider_status = "DELIVERED"
      /\ settlement_ledger'[r].version = settlement_ledger[r].version + 2
      /\ \A q \in Refs \ {r} : settlement_ledger'[q] = settlement_ledger[q]
  BY <1>1 DEF CompleteSuccessfulEvent, UpdateLedger, TypeOK, LedgerRow
<1>3. /\ transaction_events'[r] =
           Append(Append(transaction_events[r], AuditEvent("PENDING", "outbox-worker")),
                  AuditEvent("SETTLED", "provider-simulator"))
      /\ \A q \in Refs \ {r} : transaction_events'[q] = transaction_events[q]
  BY <1>1 DEF CompleteSuccessfulEvent, TypeOK
<1>4. /\ outbox_events[r].state = "PROCESSING" =>
           /\ outbox_events'[r].state = "SENT"
           /\ outbox_events'[r].attempt_count = outbox_events[r].attempt_count + 1
      /\ \A q \in Refs \ {r} : outbox_events'[q] = outbox_events[q]
  BY <1>1 DEF CompleteSuccessfulEvent, UpdateProcessing, TypeOK, OutboxRow
<1>5. QED
  BY <1>1, <1>2, <1>3, <1>4 DEF CompleteSuccessfulEvent, Forget, OthersUnchanged

LEMMA MarkFailedEffect ==
  ASSUME TypeOK, NEW w \in Workers, NEW ev \in batch[w],
         MarkFailedAttempt(w, ev), NEW r, r = ev.ref
  PROVE  /\ r \in Refs /\ OthersUnchanged(r)
         /\ settlement_ledger[r].state \in {"INITIATED", "PENDING"}
         /\ settlement_ledger'[r].recon_status = settlement_ledger[r].recon_status
         /\ settlement_ledger'[r].version = settlement_ledger[r].version + 1
         /\ batch' = [batch EXCEPT ![w] = @ \ {ev}]
         /\ outbox_events[r].state = "PROCESSING" =>
              outbox_events'[r].attempt_count = ev.attempt_count + 1
         /\ \E workflow \in {"RETRY_SCHEDULED", "FAILED", "UNKNOWN"} :
              /\ workflow = "RETRY_SCHEDULED" <=> ev.attempt_count + 1 < MaxRetries
              /\ settlement_ledger'[r].state = LedgerStateAfter(workflow)
              /\ settlement_ledger'[r].provider_status =
                   CASE workflow = "FAILED"  -> "DECLINED"
                     [] workflow = "UNKNOWN" -> "TIMEOUT"
                     [] OTHER -> settlement_ledger[r].provider_status
              /\ transaction_events'[r] =
                   Append(transaction_events[r], AuditEvent(workflow, "outbox-worker"))
              /\ outbox_events[r].state = "PROCESSING" =>
                   outbox_events'[r].state =
                     IF workflow = "RETRY_SCHEDULED" THEN "PENDING" ELSE "FAILED"
<1> DEFINE answer   == ShouldSimulateFailure(outbox_events[r].payload)
           workflow == FailureWorkflow(ev.attempt_count + 1, answer.decline)
           status   == CASE workflow = "FAILED"  -> "DECLINED"
                         [] workflow = "UNKNOWN" -> "TIMEOUT"
                         [] OTHER -> settlement_ledger[r].provider_status
<1>1. /\ r \in Refs /\ ev.attempt_count + 1 \in Nat
      /\ settlement_ledger[r] \in LedgerRow /\ outbox_events[r] \in OutboxRow
  BY DEF TypeOK, OutboxEvent
<1>2. /\ workflow \in {"RETRY_SCHEDULED", "FAILED", "UNKNOWN"}
      /\ workflow = "RETRY_SCHEDULED" <=> ev.attempt_count + 1 < MaxRetries
  BY <1>1, FailureWorkflowType DEF ShouldSimulateFailure
<1>3. /\ UpdateLedger(r, [settlement_ledger[r] EXCEPT
                            !.state = LedgerStateAfter(workflow),
                            !.provider_status = status], 1)
      /\ settlement_ledger[r].state \in {"INITIATED", "PENDING"}
      /\ transaction_events' = [transaction_events EXCEPT
           ![r] = Append(@, AuditEvent(workflow, "outbox-worker"))]
      /\ UpdateProcessing(
           r, IF workflow = "RETRY_SCHEDULED" THEN "PENDING" ELSE "FAILED",
           ev.attempt_count + 1, FALSE)
      /\ batch' = [batch EXCEPT ![w] = @ \ {ev}]
  BY DEF MarkFailedAttempt, Forget
<1> HIDE DEF workflow, status
<1>4. /\ settlement_ledger'[r].state = LedgerStateAfter(workflow)
      /\ settlement_ledger'[r].provider_status = status
      /\ settlement_ledger'[r].recon_status = settlement_ledger[r].recon_status
      /\ settlement_ledger'[r].version = settlement_ledger[r].version + 1
      /\ \A q \in Refs \ {r} : settlement_ledger'[q] = settlement_ledger[q]
  BY <1>1, <1>3 DEF UpdateLedger, TypeOK, LedgerRow
<1>5. /\ transaction_events'[r] =
           Append(transaction_events[r], AuditEvent(workflow, "outbox-worker"))
      /\ \A q \in Refs \ {r} : transaction_events'[q] = transaction_events[q]
  BY <1>1, <1>3 DEF TypeOK
<1>6. /\ outbox_events[r].state = "PROCESSING" =>
           /\ outbox_events'[r].state =
                IF workflow = "RETRY_SCHEDULED" THEN "PENDING" ELSE "FAILED"
           /\ outbox_events'[r].attempt_count = ev.attempt_count + 1
      /\ \A q \in Refs \ {r} : outbox_events'[q] = outbox_events[q]
  BY <1>1, <1>3 DEF UpdateProcessing, TypeOK, OutboxRow
<1>7. QED
  BY <1>1, <1>2, <1>3, <1>4, <1>5, <1>6 DEF OthersUnchanged, status

\* A rejected event, a stopped worker or a database error only shrinks a batch.
LEMMA DropEffect ==
  ASSUME TypeOK, NEW w \in Workers,
         \/ \E ev \in batch[w] : RejectedEvent(w, ev)
         \/ StopWorker(w)
         \/ DatabaseError(w)
  PROVE  /\ UNCHANGED tables
         /\ \E rest \in SUBSET batch[w] : batch' = [batch EXCEPT ![w] = rest]
BY DEF RejectedEvent, StopWorker, DatabaseError, Forget

LEMMA BackoffEffect ==
  ASSUME TypeOK, NEW r \in Refs, BackoffElapses(r)
  PROVE  /\ settlement_ledger' = settlement_ledger
         /\ transaction_events' = transaction_events
         /\ batch' = batch
         /\ \A q \in Refs :
              /\ outbox_events'[q].state = outbox_events[q].state
              /\ outbox_events'[q].attempt_count = outbox_events[q].attempt_count
BY DEF BackoffElapses, TypeOK, OutboxRow

\* The tables stay as they are, and at most one batch loses events.
Dropped ==
  /\ UNCHANGED tables
  /\ \/ batch' = batch
     \/ \E w \in Workers : \E rest \in SUBSET batch[w] :
          batch' = [batch EXCEPT ![w] = rest]

LEMMA NextCases ==
  ASSUME TypeOK, [Next]_vars
  PROVE  \/ \E r \in Refs : Create(r)
         \/ \E r \in Refs : TxReconcile(r) \/ MTNCollectionCallback(r)
         \/ \E r \in Refs : BackoffElapses(r)
         \/ \E w \in Workers : ClaimReadyEvents(w)
         \/ \E w \in Workers : \E ev \in batch[w] : CompleteSuccessfulEvent(w, ev)
         \/ \E w \in Workers : \E ev \in batch[w] : MarkFailedAttempt(w, ev)
         \/ Dropped
<1>1. ASSUME NEW w \in Workers,
             \/ \E ev \in batch[w] : RejectedEvent(w, ev)
             \/ StopWorker(w)
             \/ DatabaseError(w)
      PROVE  Dropped
  BY <1>1, DropEffect DEF Dropped
<1>2. UNCHANGED vars => Dropped
  BY DEF vars, Dropped, tables
<1>3. QED
  BY <1>1, <1>2 DEF Next, WorkerStep, RefStep, ProcessEvent

\* What a step may do to the ledger and the audit trail of one reference,
\* whoever makes it and whatever it does to the outbox.
OtherLedgersUnchanged(r) ==
  \A q \in Refs \ {r} :
    /\ settlement_ledger'[q] = settlement_ledger[q]
    /\ transaction_events'[q] = transaction_events[q]

LedgerCreated(r) ==
  /\ settlement_ledger[r].state = Absent
  /\ settlement_ledger'[r].state = "INITIATED"
  /\ settlement_ledger'[r].recon_status = "UNRECONCILED"
  /\ settlement_ledger'[r].provider_status = "NONE"
  /\ settlement_ledger'[r].version = 1
  /\ transaction_events'[r] = <<AuditEvent("INITIATED", "api")>>

LedgerReconciled(r, target) ==
  /\ CanTransition(settlement_ledger[r].state, target)
  /\ settlement_ledger'[r].state = target
  /\ settlement_ledger'[r].recon_status = "RECONCILED"
  /\ settlement_ledger'[r].provider_status = settlement_ledger[r].provider_status
  /\ settlement_ledger'[r].version = settlement_ledger[r].version + 1
  /\ transaction_events'[r] =
       Append(transaction_events[r], AuditEvent(target, "manual-reconcile"))

LedgerCompleted(r) ==
  /\ settlement_ledger[r].state = "INITIATED"
  /\ settlement_ledger'[r].state = "SETTLED"
  /\ settlement_ledger'[r].recon_status = settlement_ledger[r].recon_status
  /\ settlement_ledger'[r].provider_status = "DELIVERED"
  /\ settlement_ledger'[r].version = settlement_ledger[r].version + 2
  /\ transaction_events'[r] =
       Append(Append(transaction_events[r], AuditEvent("PENDING", "outbox-worker")),
              AuditEvent("SETTLED", "provider-simulator"))

LedgerFailed(r, workflow) ==
  /\ settlement_ledger[r].state \in {"INITIATED", "PENDING"}
  /\ settlement_ledger'[r].state = LedgerStateAfter(workflow)
  /\ settlement_ledger'[r].recon_status = settlement_ledger[r].recon_status
  /\ settlement_ledger'[r].provider_status =
       CASE workflow = "FAILED"  -> "DECLINED"
         [] workflow = "UNKNOWN" -> "TIMEOUT"
         [] OTHER -> settlement_ledger[r].provider_status
  /\ settlement_ledger'[r].version = settlement_ledger[r].version + 1
  /\ transaction_events'[r] =
       Append(transaction_events[r], AuditEvent(workflow, "outbox-worker"))

LedgerStep(r) ==
  /\ OtherLedgersUnchanged(r)
  /\ \/ LedgerCreated(r)
     \/ \E target \in LedgerStates : LedgerReconciled(r, target)
     \/ LedgerCompleted(r)
     \/ \E workflow \in {"RETRY_SCHEDULED", "FAILED", "UNKNOWN"} : LedgerFailed(r, workflow)

\* Every step of the store and its workers is one of these or leaves the ledger
\* and the audit trail alone.
LEMMA LedgerCases ==
  ASSUME TypeOK, [Next]_vars
  PROVE  \/ UNCHANGED <<settlement_ledger, transaction_events>>
         \/ \E r \in Refs : LedgerStep(r)
<1>1. ASSUME NEW r \in Refs, Create(r)
      PROVE  LedgerStep(r)
  BY <1>1, CreateEffect
  DEF LedgerStep, LedgerCreated, OtherLedgersUnchanged, OthersUnchanged
<1>2. ASSUME NEW r \in Refs, TxReconcile(r) \/ MTNCollectionCallback(r)
      PROVE  LedgerStep(r)
  BY <1>2, ReconcileEffect
  DEF LedgerStep, LedgerReconciled, OtherLedgersUnchanged, OthersUnchanged
<1>3. ASSUME NEW w \in Workers, NEW ev \in batch[w], CompleteSuccessfulEvent(w, ev)
      PROVE  ev.ref \in Refs /\ LedgerStep(ev.ref)
  BY <1>3, CompleteEffect
  DEF LedgerStep, LedgerCompleted, OtherLedgersUnchanged, OthersUnchanged
<1>4. ASSUME NEW w \in Workers, NEW ev \in batch[w], MarkFailedAttempt(w, ev)
      PROVE  ev.ref \in Refs /\ LedgerStep(ev.ref)
  <2> DEFINE r == ev.ref
  <2>1. PICK workflow \in {"RETRY_SCHEDULED", "FAILED", "UNKNOWN"} :
           /\ r \in Refs /\ OthersUnchanged(r)
           /\ settlement_ledger[r].state \in {"INITIATED", "PENDING"}
           /\ settlement_ledger'[r].state = LedgerStateAfter(workflow)
           /\ settlement_ledger'[r].recon_status = settlement_ledger[r].recon_status
           /\ settlement_ledger'[r].provider_status =
                CASE workflow = "FAILED"  -> "DECLINED"
                  [] workflow = "UNKNOWN" -> "TIMEOUT"
                  [] OTHER -> settlement_ledger[r].provider_status
           /\ settlement_ledger'[r].version = settlement_ledger[r].version + 1
           /\ transaction_events'[r] =
                Append(transaction_events[r], AuditEvent(workflow, "outbox-worker"))
    BY <1>4, MarkFailedEffect, SMTT(60)
  <2>2. OtherLedgersUnchanged(r) /\ LedgerFailed(r, workflow)
    BY <2>1 DEF LedgerFailed, OtherLedgersUnchanged, OthersUnchanged
  <2>3. QED
    BY <2>1, <2>2 DEF LedgerStep
<1>5. QED
  BY <1>1, <1>2, <1>3, <1>4, NextCases, BackoffEffect, ClaimEffect DEF Dropped, tables

-----------------------------------------------------------------------------
(***************************************************************************)
(* Exclusive claims.                                                       *)
(***************************************************************************)

\* Two remembered events of the same row are one event of one worker.
LEMMA OneOwner ==
  ASSUME TypeOK, ExclusiveClaim,
         NEW w \in Workers, NEW ev \in batch[w],
         NEW v \in Workers, NEW other \in batch[v], other.ref = ev.ref
  PROVE  v = w /\ other = ev
<1>1. ev \in OutboxEvent /\ other \in OutboxEvent
  BY DEF TypeOK
<1>2. v = w /\ other.attempt_count = ev.attempt_count
  BY DEF ExclusiveClaim
<1>3. QED
  BY <1>1, <1>2 DEF OutboxEvent

\* A worker that writes the outcome of its event and forgets it leaves every
\* other claim as it was.
LEMMA ClaimAfterOutcome ==
  ASSUME TypeOK, TypeOK', ExclusiveClaim, NEW w \in Workers, NEW ev \in batch[w],
         OthersUnchanged(ev.ref), batch' = [batch EXCEPT ![w] = @ \ {ev}]
  PROVE  ExclusiveClaim'
<1> SUFFICES ASSUME NEW v \in Workers, NEW e \in batch'[v]
             PROVE  /\ outbox_events'[e.ref].state = "PROCESSING"
                    /\ outbox_events'[e.ref].attempt_count = e.attempt_count
                    /\ \A u \in Workers : \A other \in batch'[u] :
                         other.ref = e.ref => u = v
  BY DEF ExclusiveClaim
<1>1. e \in batch[v] /\ \A u \in Workers : batch'[u] \subseteq batch[u]
  BY DEF TypeOK
<1>2. e.ref \in Refs \ {ev.ref}
  <2>1. e.ref \in Refs /\ ~(v = w /\ e = ev)
    BY <1>1 DEF TypeOK, OutboxEvent
  <2>2. QED
    BY <1>1, <2>1, OneOwner
<1>3. outbox_events'[e.ref] = outbox_events[e.ref]
  BY <1>2 DEF OthersUnchanged
<1>4. QED
  BY <1>1, <1>3 DEF ExclusiveClaim

LEMMA ExclusiveClaimNext ==
  TypeOK /\ ExclusiveClaim /\ OutboxAgreesWithLedger /\ [Next]_vars => ExclusiveClaim'
<1> SUFFICES ASSUME TypeOK, ExclusiveClaim, OutboxAgreesWithLedger, [Next]_vars
             PROVE  ExclusiveClaim'
  OBVIOUS
<1>t. TypeOK'
  BY TypeNext
<1>r. \A w \in Workers : \A ev \in batch[w] : ev.ref \in Refs
  BY DEF TypeOK, OutboxEvent
<1>1. ASSUME NEW r \in Refs, Create(r)
      PROVE  ExclusiveClaim'
  <2>1. outbox_events[r].state = Absent /\ OthersUnchanged(r) /\ batch' = batch
    BY <1>1, CreateEffect DEF OutboxAgreesWithLedger
  <2>2. \A w \in Workers : \A ev \in batch[w] : ev.ref \in Refs \ {r}
    BY <1>r, <2>1 DEF ExclusiveClaim, Absent
  <2>3. QED
    BY <2>1, <2>2 DEF ExclusiveClaim, OthersUnchanged
<1>2. ASSUME NEW r \in Refs, TxReconcile(r) \/ MTNCollectionCallback(r)
      PROVE  ExclusiveClaim'
  BY <1>2, ReconcileEffect DEF ExclusiveClaim
<1>3. ASSUME NEW r \in Refs, BackoffElapses(r)
      PROVE  ExclusiveClaim'
  BY <1>3, <1>r, BackoffEffect DEF ExclusiveClaim
<1>4. ASSUME NEW w \in Workers, ClaimReadyEvents(w)
      PROVE  ExclusiveClaim'
  <2>1. PICK claimed \in SUBSET Refs :
           /\ \A r \in claimed :
                /\ outbox_events[r].state = "PENDING"
                /\ outbox_events'[r].state = "PROCESSING"
                /\ outbox_events'[r].attempt_count = outbox_events[r].attempt_count
           /\ \A r \in Refs \ claimed : outbox_events'[r] = outbox_events[r]
           /\ batch[w] = {}
           /\ batch' = [batch EXCEPT ![w] =
                {[ref |-> r, attempt_count |-> outbox_events[r].attempt_count] :
                   r \in claimed}]
    BY <1>4, ClaimEffect
  <2>2. \A v \in Workers \ {w} : batch'[v] = batch[v]
    BY <2>1 DEF TypeOK
  <2>3. \A ev \in batch'[w] :
          /\ ev.ref \in claimed
          /\ ev.attempt_count = outbox_events[ev.ref].attempt_count
    BY <2>1 DEF TypeOK
  <2>4. \A v \in Workers : \A ev \in batch[v] : ev.ref \in Refs \ claimed
    BY <1>r, <2>1 DEF ExclusiveClaim
  <2>5. ASSUME NEW v \in Workers, NEW e \in batch'[v]
        PROVE  /\ e.ref \in claimed <=> v = w
               /\ outbox_events'[e.ref].state = "PROCESSING"
               /\ outbox_events'[e.ref].attempt_count = e.attempt_count
    <3>1. CASE v = w
      BY <2>1, <2>3, <2>5, <3>1
    <3>2. CASE v # w
      <4>1. e \in batch[v] /\ e.ref \in Refs \ claimed
        BY <2>2, <2>4, <2>5, <3>2
      <4>2. outbox_events'[e.ref] = outbox_events[e.ref]
        BY <2>1, <4>1
      <4>3. QED
        BY <3>2, <4>1, <4>2 DEF ExclusiveClaim
    <3>3. QED
      BY <3>1, <3>2
  <2>6. ASSUME NEW v \in Workers, NEW e \in batch'[v],
               NEW u \in Workers, NEW other \in batch'[u], other.ref = e.ref
        PROVE  u = v
    <3>1. CASE e.ref \in claimed
      BY <2>5, <2>6, <3>1
    <3>2. CASE e.ref \notin claimed
      <4>1. e \in batch[v] /\ other \in batch[u]
        BY <2>2, <2>5, <2>6, <3>2
      <4>2. QED
        BY <2>6, <4>1 DEF ExclusiveClaim
    <3>3. QED
      BY <3>1, <3>2
  <2>7. QED
    BY <2>5, <2>6 DEF ExclusiveClaim
<1>5. ASSUME NEW w \in Workers, NEW ev \in batch[w], CompleteSuccessfulEvent(w, ev)
      PROVE  ExclusiveClaim'
  BY <1>5, <1>t, CompleteEffect, ClaimAfterOutcome
<1>6. ASSUME NEW w \in Workers, NEW ev \in batch[w], MarkFailedAttempt(w, ev)
      PROVE  ExclusiveClaim'
  BY <1>6, <1>t, MarkFailedEffect, ClaimAfterOutcome
<1>7. CASE Dropped
  <2>1. \A v \in Workers : batch'[v] \subseteq batch[v]
    BY <1>7 DEF Dropped, TypeOK
  <2>2. QED
    BY <1>7, <2>1 DEF ExclusiveClaim, Dropped, tables
<1>8. QED
  BY <1>1, <1>2, <1>3, <1>4, <1>5, <1>6, <1>7, NextCases

-----------------------------------------------------------------------------
(***************************************************************************)
(* The outbox agrees with the ledger.                                      *)
(***************************************************************************)

\* OutboxAgreesWithLedger for one reference.
Agrees(row, ob) ==
  /\ ob.state = Absent <=> row.state = Absent
  /\ ob.state = "SENT" <=> row.provider_status = "DELIVERED"
  /\ ob.state = "FAILED" <=> row.provider_status \in {"DECLINED", "TIMEOUT"}
  /\ row.provider_status = "DELIVERED" => row.state = "SETTLED"
  /\ row.provider_status = "DECLINED" => row.state = "FAILED"
  /\ row.provider_status = "TIMEOUT" => row.state \notin {"INITIATED", "PENDING"}

LEMMA AgreesByRow ==
  OutboxAgreesWithLedger <=> \A r \in Refs : Agrees(settlement_ledger[r], outbox_events[r])
BY DEF OutboxAgreesWithLedger, Agrees

\* A step that changes one reference only has to be looked at there.
LEMMA AgreesAt ==
  ASSUME OutboxAgreesWithLedger, NEW r \in Refs, OthersUnchanged(r),
         Agrees(settlement_ledger'[r], outbox_events'[r])
  PROVE  OutboxAgreesWithLedger'
<1>1. \A q \in Refs : Agrees(settlement_ledger'[q], outbox_events'[q])
  BY AgreesByRow DEF OthersUnchanged
<1>2. QED
  BY <1>1 DEF OutboxAgreesWithLedger, Agrees

LEMMA OutboxAgreesNext ==
  TypeOK /\ ExclusiveClaim /\ OutboxAgreesWithLedger /\ [Next]_vars
    => OutboxAgreesWithLedger'
<1> SUFFICES ASSUME TypeOK, ExclusiveClaim, OutboxAgreesWithLedger, [Next]_vars
             PROVE  OutboxAgreesWithLedger'
  OBVIOUS
<1>a. \A r \in Refs : Agrees(settlement_ledger[r], outbox_events[r])
  BY AgreesByRow
<1>1. ASSUME NEW r \in Refs, Create(r)
      PROVE  OutboxAgreesWithLedger'
  <2>1. Agrees(settlement_ledger'[r], outbox_events'[r])
    BY <1>1, CreateEffect DEF Agrees, Absent
  <2>2. QED
    BY <1>1, <2>1, CreateEffect, AgreesAt
<1>2. ASSUME NEW r \in Refs, TxReconcile(r) \/ MTNCollectionCallback(r)
      PROVE  OutboxAgreesWithLedger'
  <2>1. PICK target \in LedgerStates :
           /\ CanTransition(settlement_ledger[r].state, target)
           /\ OthersUnchanged(r)
           /\ settlement_ledger'[r].state = target
           /\ settlement_ledger'[r].provider_status = settlement_ledger[r].provider_status
           /\ outbox_events' = outbox_events
    BY <1>2, ReconcileEffect
  <2>2. Agrees(settlement_ledger'[r], outbox_events'[r])
    BY <1>a, <2>1 DEF Agrees, Absent, CanTransition, LedgerStates
  <2>3. QED
    BY <2>1, <2>2, AgreesAt
<1>3. ASSUME NEW r \in Refs, BackoffElapses(r)
      PROVE  OutboxAgreesWithLedger'
  <2>1. \A q \in Refs : /\ settlement_ledger'[q] = settlement_ledger[q]
                        /\ outbox_events'[q].state = outbox_events[q].state
    BY <1>3, BackoffEffect
  <2>2. ASSUME NEW q \in Refs
        PROVE  Agrees(settlement_ledger'[q], outbox_events'[q])
    <3>1. /\ Agrees(settlement_ledger[q], outbox_events[q])
          /\ settlement_ledger'[q] = settlement_ledger[q]
          /\ outbox_events'[q].state = outbox_events[q].state
      BY <1>a, <2>1
    <3>2. QED
      BY <3>1 DEF Agrees
  <2>3. QED
    BY <2>2 DEF OutboxAgreesWithLedger, Agrees
<1>4. ASSUME NEW w \in Workers, ClaimReadyEvents(w)
      PROVE  OutboxAgreesWithLedger'
  <2>1. PICK claimed \in SUBSET Refs :
           /\ settlement_ledger' = settlement_ledger
           /\ \A r \in claimed :
                /\ outbox_events[r].state = "PENDING"
                /\ outbox_events'[r].state = "PROCESSING"
           /\ \A r \in Refs \ claimed : outbox_events'[r] = outbox_events[r]
    BY <1>4, ClaimEffect
  <2>2. ASSUME NEW r \in Refs
        PROVE  Agrees(settlement_ledger'[r], outbox_events'[r])
    <3>1. CASE r \in claimed
      BY <1>a, <2>1, <3>1 DEF Agrees, Absent
    <3>2. CASE r \notin claimed
      BY <1>a, <2>1, <3>2
    <3>3. QED
      BY <3>1, <3>2
  <2>3. QED
    BY <2>2 DEF OutboxAgreesWithLedger, Agrees
<1>5. ASSUME NEW w \in Workers, NEW ev \in batch[w], CompleteSuccessfulEvent(w, ev)
      PROVE  OutboxAgreesWithLedger'
  <2>1. outbox_events[ev.ref].state = "PROCESSING"
    BY DEF ExclusiveClaim
  <2>2. Agrees(settlement_ledger'[ev.ref], outbox_events'[ev.ref])
    BY <1>5, <2>1, CompleteEffect DEF Agrees, Absent
  <2>3. QED
    BY <1>5, <2>2, CompleteEffect, AgreesAt
<1>6. ASSUME NEW w \in Workers, NEW ev \in batch[w], MarkFailedAttempt(w, ev)
      PROVE  OutboxAgreesWithLedger'
  <2> DEFINE r == ev.ref
  <2>1. /\ outbox_events[r].state = "PROCESSING" /\ r \in Refs
        /\ settlement_ledger[r].state \in {"INITIATED", "PENDING"}
        /\ settlement_ledger[r] \in LedgerRow
    BY <1>6, MarkFailedEffect DEF ExclusiveClaim, TypeOK
  <2>2. settlement_ledger[r].provider_status = "NONE"
    BY <1>a, <2>1 DEF Agrees, LedgerRow
  <2>3. PICK workflow \in {"RETRY_SCHEDULED", "FAILED", "UNKNOWN"} :
           /\ settlement_ledger'[r].state = LedgerStateAfter(workflow)
           /\ settlement_ledger'[r].provider_status =
                CASE workflow = "FAILED"  -> "DECLINED"
                  [] workflow = "UNKNOWN" -> "TIMEOUT"
                  [] OTHER -> settlement_ledger[r].provider_status
           /\ outbox_events'[r].state =
                IF workflow = "RETRY_SCHEDULED" THEN "PENDING" ELSE "FAILED"
    BY <1>6, <2>1, MarkFailedEffect
  <2>4. Agrees(settlement_ledger'[r], outbox_events'[r])
    BY <2>2, <2>3 DEF Agrees, Absent, LedgerStateAfter
  <2>5. QED
    BY <1>6, <2>1, <2>4, MarkFailedEffect, AgreesAt
<1>7. CASE Dropped
  BY <1>7 DEF OutboxAgreesWithLedger, Dropped, tables
<1>8. QED
  BY <1>1, <1>2, <1>3, <1>4, <1>5, <1>6, <1>7, NextCases

LEMMA ClaimAndAgreementInit == Init => ExclusiveClaim /\ OutboxAgreesWithLedger
BY DEF Init, StoreInit, ExclusiveClaim, OutboxAgreesWithLedger, NoLedgerRow,
       NoOutboxRow, Absent

\* Whatever workers stop, fail or restart, an event is in the hands of one
\* worker at a time (claimReadyEvents, FOR UPDATE SKIP LOCKED).
THEOREM ClaimsAreExclusive == Spec => []ExclusiveClaim
<1>1. TypeOK /\ ExclusiveClaim /\ OutboxAgreesWithLedger /\ [Next]_vars
        => (TypeOK /\ ExclusiveClaim /\ OutboxAgreesWithLedger)'
  BY TypeNext, ExclusiveClaimNext, OutboxAgreesNext
<1>2. QED
  BY <1>1, TypeInit, ClaimAndAgreementInit, PTL DEF Spec

\* The worker, the callbacks and the operators never bring the outbox and the
\* ledger apart (completeSuccessfulEvent and markFailedAttemptGeneric against
\* ReconcileTransaction).
THEOREM OutboxAndLedgerAgree == Spec => []OutboxAgreesWithLedger
<1>1. TypeOK /\ ExclusiveClaim /\ OutboxAgreesWithLedger /\ [Next]_vars
        => (TypeOK /\ ExclusiveClaim /\ OutboxAgreesWithLedger)'
  BY TypeNext, ExclusiveClaimNext, OutboxAgreesNext
<1>2. QED
  BY <1>1, TypeInit, ClaimAndAgreementInit, PTL DEF Spec

-----------------------------------------------------------------------------
(***************************************************************************)
(* Nothing is stranded while nothing stops, fails or calls back too early. *)
(***************************************************************************)

\* Every worker goes through its batch, the failure outcome fits the schema,
\* and nobody but the worker moves a transaction on from INITIATED.
Undisturbed ==
  /\ Faults \cap {"stop", "dberror"} = {}
  /\ FailureColumns \subseteq Columns
  /\ \A s \in CallbackStatuses : MapMTNCallbackStatus(s) # "PENDING"

\* A transaction waits exactly while its event does.
WaitsWithEvent(row, ob) ==
  ob.state \in {"PENDING", "PROCESSING"} <=> row.state = "INITIATED"

IsHeld(r) == \E w \in Workers : \E ev \in batch[w] : ev.ref = r

LEMMA StrandedByRow ==
  NothingStranded <=>
    \A r \in Refs : /\ WaitsWithEvent(settlement_ledger[r], outbox_events[r])
                    /\ outbox_events[r].state = "PROCESSING" => IsHeld(r)
BY DEF NothingStranded, WaitsWithEvent, IsHeld

\* A step that changes one reference only has to be looked at there, if the
\* others stay held.
LEMMA StrandedAt ==
  ASSUME NothingStranded, NEW r \in Refs, OthersUnchanged(r),
         WaitsWithEvent(settlement_ledger'[r], outbox_events'[r]),
         outbox_events'[r].state = "PROCESSING" => IsHeld(r)',
         \A q \in Refs \ {r} : IsHeld(q) => IsHeld(q)'
  PROVE  NothingStranded'
<1>1. ASSUME NEW q \in Refs
      PROVE  /\ WaitsWithEvent(settlement_ledger'[q], outbox_events'[q])
             /\ outbox_events'[q].state = "PROCESSING" => IsHeld(q)'
  <2>1. CASE q = r
    BY <2>1
  <2>2. CASE q # r
    BY <2>2, StrandedByRow DEF OthersUnchanged
  <2>3. QED
    BY <2>1, <2>2
<1>2. QED
  BY <1>1 DEF NothingStranded, WaitsWithEvent, IsHeld

\* Nobody reconciles a transaction that waits for its worker.
LEMMA OnlyWorkersMoveInitiated ==
  ASSUME Undisturbed, NEW r \in Refs, TxReconcile(r) \/ MTNCollectionCallback(r)
  PROVE  settlement_ledger[r].state # "INITIATED"
<1>1. PICK target \in LedgerStates \ {"PENDING"} : ReconcileTransaction(r, target)
  BY TargetsAreLedgerStates
  DEF TxReconcile, MTNCollectionCallback, Undisturbed, ValidTargetStatuses,
      LookupTarget
<1>2. QED
  BY <1>1 DEF ReconcileTransaction, CanTransition

\* No event is refused and none is forgotten without its outcome.
LEMMA NothingIsDropped ==
  ASSUME Undisturbed, TypeOK, ExclusiveClaim, NothingStranded, [Next]_vars
  PROVE  \/ \E r \in Refs : Create(r)
         \/ \E r \in Refs : TxReconcile(r) \/ MTNCollectionCallback(r)
         \/ \E r \in Refs : BackoffElapses(r)
         \/ \E w \in Workers : ClaimReadyEvents(w)
         \/ \E w \in Workers : \E ev \in batch[w] : CompleteSuccessfulEvent(w, ev)
         \/ \E w \in Workers : \E ev \in batch[w] : MarkFailedAttempt(w, ev)
         \/ UNCHANGED vars
<1>1. ASSUME NEW w \in Workers, NEW ev \in batch[w]
      PROVE  ~RejectedEvent(w, ev)
  <2>1. ev.ref \in Refs /\ outbox_events[ev.ref].state = "PROCESSING"
    BY DEF TypeOK, OutboxEvent, ExclusiveClaim
  <2>2. settlement_ledger[ev.ref].state = "INITIATED"
    BY <2>1 DEF NothingStranded
  <2>3. QED
    BY <2>2 DEF RejectedEvent, Undisturbed
<1>2. ASSUME NEW w \in Workers
      PROVE  ~StopWorker(w) /\ ~DatabaseError(w)
  BY DEF Undisturbed, StopWorker, DatabaseError
<1>3. QED
  BY <1>1, <1>2 DEF Next, WorkerStep, RefStep, ProcessEvent

\* The outcome of one event leaves every other event with its worker.
LEMMA HeldAfterOutcome ==
  ASSUME TypeOK, NEW w \in Workers, NEW ev \in batch[w],
         batch' = [batch EXCEPT ![w] = @ \ {ev}]
  PROVE  \A q \in Refs \ {ev.ref} : IsHeld(q) => IsHeld(q)'
<1> SUFFICES ASSUME NEW q \in Refs \ {ev.ref}, NEW v \in Workers,
                    NEW e \in batch[v], e.ref = q
             PROVE  IsHeld(q)'
  BY DEF IsHeld
<1>1. e \in batch'[v]
  BY DEF TypeOK
<1>2. QED
  BY <1>1 DEF IsHeld

LEMMA NothingStrandedNext ==
  ASSUME Undisturbed
  PROVE  TypeOK /\ ExclusiveClaim /\ OutboxAgreesWithLedger /\ NothingStranded
           /\ [Next]_vars => NothingStranded'
<1> SUFFICES ASSUME TypeOK, ExclusiveClaim, OutboxAgreesWithLedger, NothingStranded,
                    [Next]_vars
             PROVE  NothingStranded'
  OBVIOUS
<1>s. \A r \in Refs : /\ WaitsWithEvent(settlement_ledger[r], outbox_events[r])
                      /\ outbox_events[r].state = "PROCESSING" => IsHeld(r)
  BY StrandedByRow
<1>1. ASSUME NEW r \in Refs, Create(r)
      PROVE  NothingStranded'
  <2>1. /\ OthersUnchanged(r) /\ batch' = batch
        /\ settlement_ledger'[r].state = "INITIATED"
        /\ outbox_events'[r].state = "PENDING"
    BY <1>1, CreateEffect
  <2>2. \A q \in Refs : IsHeld(q) => IsHeld(q)'
    BY <2>1 DEF IsHeld
  <2>3. QED
    BY <2>1, <2>2, StrandedAt DEF WaitsWithEvent
<1>2. ASSUME NEW r \in Refs, TxReconcile(r) \/ MTNCollectionCallback(r)
      PROVE  NothingStranded'
  <2>1. PICK target \in LedgerStates :
           /\ CanTransition(settlement_ledger[r].state, target)
           /\ OthersUnchanged(r) /\ batch' = batch
           /\ settlement_ledger'[r].state = target
           /\ outbox_events' = outbox_events
    BY <1>2, ReconcileEffect
  <2>2. settlement_ledger[r].state # "INITIATED" /\ target # "INITIATED"
    BY <1>2, <2>1, OnlyWorkersMoveInitiated DEF CanTransition
  <2>3. WaitsWithEvent(settlement_ledger'[r], outbox_events'[r])
    BY <1>s, <2>1, <2>2 DEF WaitsWithEvent
  <2>4. \A q \in Refs : IsHeld(q) => IsHeld(q)'
    BY <2>1 DEF IsHeld
  <2>5. QED
    BY <1>s, <2>1, <2>3, <2>4, StrandedAt
<1>3. ASSUME NEW r \in Refs, BackoffElapses(r)
      PROVE  NothingStranded'
  <2>1. /\ settlement_ledger' = settlement_ledger /\ batch' = batch
        /\ \A q \in Refs : outbox_events'[q].state = outbox_events[q].state
    BY <1>3, BackoffEffect
  <2>2. QED
    BY <2>1 DEF NothingStranded
<1>4. ASSUME NEW w \in Workers, ClaimReadyEvents(w)
      PROVE  NothingStranded'
  <2>1. PICK claimed \in SUBSET Refs :
           /\ settlement_ledger' = settlement_ledger
           /\ \A r \in claimed :
                /\ outbox_events[r].state = "PENDING"
                /\ outbox_events'[r].state = "PROCESSING"
                /\ outbox_events'[r].attempt_count = outbox_events[r].attempt_count
           /\ \A r \in Refs \ claimed : outbox_events'[r] = outbox_events[r]
           /\ batch[w] = {}
           /\ batch' = [batch EXCEPT ![w] =
                {[ref |-> r, attempt_count |-> outbox_events[r].attempt_count] :
                   r \in claimed}]
    BY <1>4, ClaimEffect
  <2>2. ASSUME NEW r \in claimed
        PROVE  IsHeld(r)'
    <3>1. [ref |-> r, attempt_count |-> outbox_events[r].attempt_count] \in batch'[w]
      BY <2>1 DEF TypeOK
    <3>2. QED
      BY <3>1 DEF IsHeld
  <2>3. ASSUME NEW r \in Refs, IsHeld(r)
        PROVE  IsHeld(r)'
    <3>1. PICK v \in Workers : \E ev \in batch[v] : ev.ref = r
      BY <2>3 DEF IsHeld
    <3>2. v # w /\ batch'[v] = batch[v]
      BY <2>1, <3>1 DEF TypeOK
    <3>3. QED
      BY <3>1, <3>2 DEF IsHeld
  <2>4. ASSUME NEW r \in Refs
        PROVE  /\ WaitsWithEvent(settlement_ledger'[r], outbox_events'[r])
               /\ outbox_events'[r].state = "PROCESSING" => IsHeld(r)'
    <3>1. CASE r \in claimed
      BY <1>s, <2>1, <2>2, <3>1 DEF WaitsWithEvent
    <3>2. CASE r \notin claimed
      BY <1>s, <2>1, <2>3, <3>2
    <3>3. QED
      BY <3>1, <3>2
  <2>5. QED
    BY <2>4 DEF NothingStranded, WaitsWithEvent, IsHeld
<1>5. ASSUME NEW w \in Workers, NEW ev \in batch[w], CompleteSuccessfulEvent(w, ev)
      PROVE  NothingStranded'
  <2>1. /\ ev.ref \in Refs /\ OthersUnchanged(ev.ref)
        /\ settlement_ledger'[ev.ref].state = "SETTLED"
        /\ outbox_events'[ev.ref].state = "SENT"
        /\ batch' = [batch EXCEPT ![w] = @ \ {ev}]
    BY <1>5, CompleteEffect DEF ExclusiveClaim
  <2>2. QED
    BY <2>1, HeldAfterOutcome, StrandedAt DEF WaitsWithEvent
<1>6. ASSUME NEW w \in Workers, NEW ev \in batch[w], MarkFailedAttempt(w, ev)
      PROVE  NothingStranded'
  <2> DEFINE r == ev.ref
  <2>1. /\ r \in Refs /\ OthersUnchanged(r)
        /\ batch' = [batch EXCEPT ![w] = @ \ {ev}]
        /\ outbox_events[r].state = "PROCESSING"
    BY <1>6, MarkFailedEffect DEF ExclusiveClaim
  <2>2. PICK workflow \in {"RETRY_SCHEDULED", "FAILED", "UNKNOWN"} :
           /\ settlement_ledger'[r].state = LedgerStateAfter(workflow)
           /\ outbox_events'[r].state =
                IF workflow = "RETRY_SCHEDULED" THEN "PENDING" ELSE "FAILED"
    BY <1>6, <2>1, MarkFailedEffect
  <2>3. /\ WaitsWithEvent(settlement_ledger'[r], outbox_events'[r])
        /\ outbox_events'[r].state # "PROCESSING"
    BY <2>2 DEF WaitsWithEvent, LedgerStateAfter
  <2>4. QED
    BY <2>1, <2>3, HeldAfterOutcome, StrandedAt
<1>7. CASE UNCHANGED vars
  BY <1>7 DEF vars, NothingStranded
<1>8. QED
  BY <1>1, <1>2, <1>3, <1>4, <1>5, <1>6, <1>7, NothingIsDropped

\* Stopped workers, failed SQL transactions, a schema without the columns of
\* markFailedAttemptGeneric and callbacks that report PENDING are all that can
\* strand a transaction: without them every event that waits or is PROCESSING
\* has a worker to come to it, and its transaction is as the worker needs it.
THEOREM NothingIsStranded ==
  ASSUME Undisturbed
  PROVE  Spec => []NothingStranded
<1>1. Init => NothingStranded
  BY DEF Init, StoreInit, NothingStranded, NoLedgerRow, NoOutboxRow, Absent
<1>2. TypeOK /\ ExclusiveClaim /\ OutboxAgreesWithLedger /\ NothingStranded
        /\ [Next]_vars => NothingStranded'
  BY NothingStrandedNext
<1>3. QED
  BY <1>1, <1>2, TypeCorrect, ClaimsAreExclusive, OutboxAndLedgerAgree, PTL DEF Spec

=============================================================================
