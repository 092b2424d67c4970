---------------------------- MODULE OutboxWorker ----------------------------
(***************************************************************************)
(* cmd/outbox-worker: any number of worker processes claim due rows of     *)
(* outbox_events in batches, dispatch each event to the simulated provider *)
(* and write the outcome to the ledger, the audit trail and the outbox in  *)
(* one SQL transaction per event.  Meanwhile the API creates transactions  *)
(* and reconciles them (POST /reconcile, MTN callbacks).                   *)
(*                                                                         *)
(* What a worker keeps in memory between its claim and its outcome is the  *)
(* batch: it is lost when the process stops, and its attempt_count is a    *)
(* copy that the outcome is computed from.                                 *)
(***************************************************************************)
EXTENDS TxStore, FiniteSets

CONSTANTS
  Workers,           \* the outbox-worker processes
  MaxRetries,        \* outbox_events.max_retries (never written: its default)
  BatchSize,         \* batchSize
  OperatorTargets,   \* target_status values an operator may send
  LookupStatuses,    \* statuses a status lookup may return
  CallbackStatuses,  \* statuses a callback may carry
  Faults,            \* which of "stop" and "dberror" may happen
  Columns            \* columns and types the deployed schema has, see below

ASSUME MaxRetriesAssumption == MaxRetries \in Nat \ {0}
ASSUME BatchSizeAssumption == BatchSize \in Nat \ {0}
ASSUME OperatorAssumption == OperatorTargets \subseteq ValidTargetStatuses
ASSUME ProviderAssumption ==
  LookupStatuses \subseteq MTNStatuses /\ CallbackStatuses \subseteq MTNStatuses

\* What the worker's SQL names beyond the columns every schema file has.
ClaimColumns == {"outbox_events.next_retry_at", "outbox_events.max_retries"}
FailureColumns == {"transaction_events.reason_code", "type ledger_state"}

VARIABLE
  batch    \* [Workers -> SUBSET OutboxEvent]: claimed and not yet processed

vars == <<settlement_ledger, transaction_events, outbox_events, batch>>

\* The claimed row as the worker remembers it.
OutboxEvent == [ref : Refs, attempt_count : Nat]

Init ==
  /\ StoreInit
  /\ batch = [w \in Workers |-> {}]

-----------------------------------------------------------------------------
\* shouldSimulateFailure: the simulated provider's answer.
ShouldSimulateFailure(payload) ==
  LET decline == payload.phone = "888" \/ payload.key = "decline"
  IN  [fail    |-> decline \/ payload.phone = "999" \/ payload.key = "fail",
       decline |-> decline]

\* Mutant: rows left PROCESSING are claimed again.
ReadyReclaims ==
  {r \in Refs : outbox_events[r].state \in {"PENDING", "PROCESSING"} /\ outbox_events[r].due}

\* Mutant: rows are claimed strictly in order of created_at.
ReadyInOrder ==
  {r \in Refs :
     /\ outbox_events[r].state = "PENDING" /\ outbox_events[r].due
     /\ \A q \in Refs : q < r => outbox_events[q].state # "PROCESSING"}

\* state = 'PENDING' AND next_retry_at <= NOW()
Ready == {r \in Refs : outbox_events[r].state = "PENDING" /\ outbox_events[r].due}

\* ORDER BY created_at ... LIMIT n
Oldest(S, n) == {r \in S : Cardinality({q \in S : q < r}) < n}

\* SKIP LOCKED passes over rows that the claim of another worker has locked at
\* that moment; if that claim commits the rows are not ready any more, so it
\* shows only when it ends in a database error.
PassedOver(claimers, w, locked) ==
  locked # {} => "dberror" \in Faults /\ \E v \in claimers \ {w} : batch[v] = {}

\* The claim commits the oldest of the available rows as PROCESSING.
Claim(w, available) ==
  LET claimed == Oldest(available, BatchSize)
  IN  /\ claimed # {}
      /\ outbox_events' = [r \in Refs |->
           IF r \in claimed
           THEN [outbox_events[r] EXCEPT !.state = "PROCESSING"]
           ELSE outbox_events[r]]
      /\ batch' = [batch EXCEPT ![w] =
           {[ref |-> r, attempt_count |-> outbox_events[r].attempt_count] :
              r \in claimed}]

\* claimReadyEvents.
ClaimReadyEvents(w) ==
  /\ ClaimColumns \subseteq Columns
  /\ batch[w] = {}
  /\ \E locked \in SUBSET Ready :
       PassedOver(Workers, w, locked) /\ Claim(w, Ready \ locked)
  /\ UNCHANGED <<settlement_ledger, transaction_events>>

\* Mutant: processBatch returns after its first event.
ForgetAll(w, ev) == batch' = [batch EXCEPT ![w] = {}]

\* processBatch goes on to its next event.
Forget(w, ev) == batch' = [batch EXCEPT ![w] = @ \ {ev}]

\* Mutant: the guard is the one of a worker that does not claim (main.go).
UpdateWaiting(r, state, attempts, due) ==
  outbox_events' = [outbox_events EXCEPT ![r] =
    IF @.state = "PENDING"
    THEN [@ EXCEPT !.state = state, !.attempt_count = attempts, !.due = due]
    ELSE @]

\* UPDATE outbox_events ... WHERE ppay_ref = $1 AND state = 'PROCESSING'
UpdateProcessing(r, state, attempts, due) ==
  outbox_events' = [outbox_events EXCEPT ![r] =
    IF @.state = "PROCESSING"
    THEN [@ EXCEPT !.state = state, !.attempt_count = attempts, !.due = due]
    ELSE @]

\* completeSuccessfulEvent: INITIATED -> PENDING -> SETTLED, two audit events
\* and SENT, in one commit.
CompleteSuccessfulEvent(w, ev) ==
  LET r == ev.ref
  IN  /\ ~ShouldSimulateFailure(outbox_events[r].payload).fail
      /\ settlement_ledger[r].state = "INITIATED"
      /\ UpdateLedger(r, [settlement_ledger[r] EXCEPT
           !.state = "SETTLED", !.provider_status = "DELIVERED"], 2)
      /\ transaction_events' = [transaction_events EXCEPT ![r] =
           Append(Append(@, AuditEvent("PENDING", "outbox-worker")),
                  AuditEvent("SETTLED", "provider-simulator"))]
      /\ UpdateProcessing(r, "SENT", outbox_events[r].attempt_count + 1,
                          outbox_events[r].due)
      /\ Forget(w, ev)

\* Mutant: one attempt more than max_retries.
FailureOneMore(attempt, decline) ==
  CASE attempt <= MaxRetries -> "RETRY_SCHEDULED"
    [] attempt > MaxRetries /\ decline -> "FAILED"
    [] attempt > MaxRetries /\ ~decline -> "UNKNOWN"

\* Mutant: the reason code is written where the workflow state belongs.
FailureReasonCode(attempt, decline) ==
  CASE attempt < MaxRetries -> "PROVIDER_RETRY"
    [] attempt >= MaxRetries /\ decline -> "PROVIDER_DECLINE"
    [] attempt >= MaxRetries /\ ~decline -> "PROVIDER_TIMEOUT"

\* Mutant: a decline is final at once, whatever attempts are left.
FailureDeclinesAtOnce(attempt, decline) ==
  CASE decline -> "FAILED"
    [] ~decline /\ attempt < MaxRetries -> "RETRY_SCHEDULED"
    [] ~decline /\ attempt >= MaxRetries -> "UNKNOWN"

\* The workflow_state markFailedAttemptGeneric writes after the given attempt.
FailureWorkflow(attempt, decline) ==
  CASE attempt < MaxRetries -> "RETRY_SCHEDULED"
    [] attempt >= MaxRetries /\ decline -> "FAILED"
    [] attempt >= MaxRetries /\ ~decline -> "UNKNOWN"

\* markFailedAttemptGeneric: another attempt after the backoff, or the terminal
\* state of the last one, counted from the claimed copy of attempt_count.
MarkFailedAttempt(w, ev) ==
  LET r        == ev.ref
      answer   == ShouldSimulateFailure(outbox_events[r].payload)
      next     == ev.attempt_count + 1
      workflow == FailureWorkflow(next, answer.decline)
  IN  /\ FailureColumns \subseteq Columns
      /\ answer.fail
      /\ settlement_ledger[r].state \in {"INITIATED", "PENDING"}
      /\ UpdateLedger(r, [settlement_ledger[r] EXCEPT
           !.state = LedgerStateAfter(workflow),
           !.provider_status = CASE workflow = "FAILED"  -> "DECLINED"
                                 [] workflow = "UNKNOWN" -> "TIMEOUT"
                                 [] OTHER                -> @], 1)
      /\ transaction_events' = [transaction_events EXCEPT
           ![r] = Append(@, AuditEvent(workflow, "outbox-worker"))]
      /\ UpdateProcessing(
           r, IF workflow = "RETRY_SCHEDULED" THEN "PENDING" ELSE "FAILED",
           next, FALSE)
      /\ Forget(w, ev)

\* Either outcome ends in an error and is rolled back: the ledger row is not in
\* a state it accepts, or the SQL does not fit the schema.  The error is logged
\* and the row stays PROCESSING.
RejectedEvent(w, ev) ==
  LET fail  == ShouldSimulateFailure(outbox_events[ev.ref].payload).fail
      state == settlement_ledger[ev.ref].state
  IN  /\ \/ ~fail /\ state # "INITIATED"
         \/ fail /\ state \notin {"INITIATED", "PENDING"}
         \/ fail /\ ~(FailureColumns \subseteq Columns)
      /\ Forget(w, ev)
      /\ UNCHANGED tables

\* processEvent; the rows of a claim come back in no particular order.
ProcessEvent(w) ==
  \E ev \in batch[w] :
    \/ CompleteSuccessfulEvent(w, ev)
    \/ MarkFailedAttempt(w, ev)
    \/ RejectedEvent(w, ev)

-----------------------------------------------------------------------------
\* Time passes next_retry_at.
BackoffElapses(r) ==
  /\ outbox_events[r].state = "PENDING"
  /\ ~outbox_events[r].due
  /\ outbox_events' = [outbox_events EXCEPT ![r].due = TRUE]
  /\ UNCHANGED <<settlement_ledger, transaction_events, batch>>

\* The process is killed, or SIGTERM cancels the context and every remaining
\* event of the batch fails in Pool.Begin.  A restarted worker has no batch.
StopWorker(w) ==
  /\ "stop" \in Faults
  /\ batch[w] # {}
  /\ batch' = [batch EXCEPT ![w] = {}]
  /\ UNCHANGED tables

\* The connection or the commit of one event's transaction fails: rolled back,
\* logged, and the loop goes on.
DatabaseError(w) ==
  /\ "dberror" \in Faults
  /\ \E ev \in batch[w] : Forget(w, ev)
  /\ UNCHANGED tables

\* AirtimeHandler and DataBundleHandler, for a new idempotency key.
Create(r) ==
  /\ \E payload \in Payloads : CreateTx(r, payload)
  /\ UNCHANGED batch

\* TxReconcileHandler: the target comes from the operator or from MTN.
TxReconcile(r) ==
  /\ \/ \E target \in OperatorTargets : ReconcileTransaction(r, target)
     \/ \E status \in LookupStatuses :
          ReconcileTransaction(r, LookupTarget(status))
  /\ UNCHANGED batch

\* MTNCollectionCallbackHandler: at any time, any number of times, in any
\* order; a refused transition is logged and answered 200 like the others.
MTNCollectionCallback(r) ==
  /\ \E status \in CallbackStatuses :
       ReconcileTransaction(r, MapMTNCallbackStatus(status))
  /\ UNCHANGED batch

WorkerStep(w) ==
  ClaimReadyEvents(w) \/ ProcessEvent(w) \/ StopWorker(w) \/ DatabaseError(w)

RefStep(r) ==
  Create(r) \/ TxReconcile(r) \/ MTNCollectionCallback(r) \/ BackoffElapses(r)

Next ==
  \/ \E w \in Workers : WorkerStep(w)
  \/ \E r \in Refs : RefStep(r)

Spec == Init /\ [][Next]_vars

\* A worker's ticker fires every two seconds and its batch loop always goes on;
\* time passes.  Nothing is assumed of clients, operators, MTN or faults.
Fairness ==
  /\ \A w \in Workers : WF_vars(ClaimReadyEvents(w)) /\ WF_vars(ProcessEvent(w))
  /\ \A r \in Refs : WF_vars(BackoffElapses(r))

FairSpec == Spec /\ Fairness

-----------------------------------------------------------------------------
(***************************************************************************)
(* Properties.                                                             *)
(***************************************************************************)

\* Every variable has its type.
TypeOK ==
  /\ settlement_ledger \in [Refs -> LedgerRow]
  /\ transaction_events \in [Refs -> Seq(Event)]
  /\ outbox_events \in [Refs -> OutboxRow]
  /\ batch \in [Workers -> SUBSET OutboxEvent]

\* FOR UPDATE SKIP LOCKED and the PROCESSING state give an event to one worker
\* at a time: no two workers hold it, and while one does, the row is PROCESSING
\* and its attempt_count is the one the worker remembers.
ExclusiveClaim ==
  \A w \in Workers : \A ev \in batch[w] :
    /\ outbox_events[ev.ref].state = "PROCESSING"
    /\ outbox_events[ev.ref].attempt_count = ev.attempt_count
    /\ \A v \in Workers : \A other \in batch[v] : other.ref = ev.ref => v = w

\* The audit events that record the outcome of a dispatch.
IsOutcome(e) ==
  \/ e.event_source = "provider-simulator"
  \/ e.event_source = "outbox-worker" /\ e.workflow_state # "PENDING"

\* attempt_count, computed from copies held by workers that may stop or lose
\* their transaction, is the number of outcomes in the audit trail: no attempt
\* is lost or counted twice, and none is made beyond max_retries.
AttemptsCounted ==
  \A r \in Refs :
    /\ outbox_events[r].attempt_count =
         Cardinality({i \in DOMAIN transaction_events[r] :
                        IsOutcome(transaction_events[r][i])})
    /\ outbox_events[r].attempt_count <= MaxRetries
    /\ outbox_events[r].state \in {"PENDING", "PROCESSING"} =>
         outbox_events[r].attempt_count < MaxRetries

\* The outbox and the ledger, changed by different parties, tell the same
\* story: both rows exist or neither does, SENT is a delivered and settled
\* transaction, FAILED one whose retries are used up and that is not open, and
\* only these two are ever resolved by the worker; a delivered product is never
\* on a FAILED or REVERSED row.
OutboxAgreesWithLedger ==
  \A r \in Refs :
    LET row == settlement_ledger[r]  ob == outbox_events[r]
    IN  /\ ob.state = Absent <=> row.state = Absent
        /\ ob.state = "SENT" <=> row.provider_status = "DELIVERED"
        /\ ob.state = "FAILED" <=> row.provider_status \in {"DECLINED", "TIMEOUT"}
        /\ row.provider_status = "DELIVERED" => row.state = "SETTLED"
        /\ row.provider_status = "DECLINED" => row.state = "FAILED"
        /\ row.provider_status = "TIMEOUT" => row.state \notin {"INITIATED", "PENDING"}

\* The step that led from one audit event to the next was allowed to the party
\* that made it.
LegalStep(before, e) ==
  LET from == LedgerStateAfter(before.workflow_state)
      to   == LedgerStateAfter(e.workflow_state)
  IN  \/ e.event_source = "manual-reconcile" /\ CanTransition(from, to)
      \/ /\ e.event_source = "outbox-worker"
         /\ e.workflow_state = "PENDING" /\ from = "INITIATED"
      \/ /\ e.event_source = "provider-simulator"
         /\ before = AuditEvent("PENDING", "outbox-worker") /\ to = "SETTLED"
      \/ /\ e.event_source = "outbox-worker"
         /\ e.workflow_state \in {"RETRY_SCHEDULED", "FAILED", "UNKNOWN"}
         /\ from \in {"INITIATED", "PENDING"}

\* The audit trail alone explains the row: it starts with the creation, every
\* event is a legal step from the one before it, the last one gives the state
\* of the row, the version counts them and RECONCILED records that one of them
\* was a reconciliation.
AuditTrail ==
  \A r \in Refs :
    LET trail == transaction_events[r]  row == settlement_ledger[r]
    IN  /\ row.version = Len(trail)
        /\ row.state # Absent =>
             /\ trail # <<>>
             /\ trail[1] = AuditEvent("INITIATED", "api")
             /\ row.state = LedgerStateAfter(trail[Len(trail)].workflow_state)
        /\ \A i \in 1..(Len(trail) - 1) : LegalStep(trail[i], trail[i + 1])
        /\ row.recon_status = "RECONCILED" <=>
             \E i \in DOMAIN trail : trail[i].event_source = "manual-reconcile"

\* SETTLED, FAILED and REVERSED are final whoever acts next: a late or repeated
\* callback, an operator, or a worker that claimed the event before.  Neither
\* the state nor the audit trail of such a transaction changes again.
FinalIsFinal ==
  [][\A r \in Refs : settlement_ledger[r].state \in FinalStates =>
       /\ settlement_ledger'[r] = settlement_ledger[r]
       /\ transaction_events'[r] = transaction_events[r]]_vars

\* While no worker stops, no SQL transaction fails, the schema fits and no
\* callback reports PENDING, nothing is stranded: whatever reconciliations and
\* outcomes overtake each other, a transaction waits for its outcome exactly
\* while its event does, and an event that is PROCESSING is in the batch of a
\* worker that will come to it and will not be refused by the ledger.
NothingStranded ==
  \A r \in Refs :
    /\ outbox_events[r].state \in {"PENDING", "PROCESSING"} <=>
         settlement_ledger[r].state = "INITIATED"
    /\ outbox_events[r].state = "PROCESSING" =>
         \E w \in Workers : \E ev \in batch[w] : ev.ref = r

\* An outbox row that waits or is being processed is resolved: it is sent, or
\* it fails after its last attempt.
EveryEventResolved ==
  \A r \in Refs : outbox_events[r].state \in {"PENDING", "PROCESSING"} ~>
                    outbox_events[r].state \in {"SENT", "FAILED"}

\* Rows left PROCESSING for good do not hold back the others: whatever stops,
\* fails or calls back, every row that waits is claimed, the youngest too.
EveryWaitingRowClaimed ==
  \A r \in Refs :
    outbox_events[r].state = "PENDING" ~> outbox_events[r].state = "PROCESSING"

\* docs/ussd-backend-v0.1.md:601, "Failed transactions eventually move to
\* terminal states (FAILED/UNKNOWN), with appropriate audit entries": a
\* transaction whose provider refuses it does not stay INITIATED or PENDING.
FailedReachTerminal ==
  \A r \in Refs :
    (/\ settlement_ledger[r].state \in {"INITIATED", "PENDING"}
     /\ ShouldSimulateFailure(outbox_events[r].payload).fail)
      ~> settlement_ledger[r].state \notin {"INITIATED", "PENDING"}

\* docs/ussd-backend-v0.1.md:131, "Outbox Worker: Asynchronously settles
\* transactions and updates ledgers": a transaction whose provider delivers
\* does not stay INITIATED or PENDING.
AcceptedSettles ==
  \A r \in Refs :
    (/\ settlement_ledger[r].state \in {"INITIATED", "PENDING"}
     /\ ~ShouldSimulateFailure(outbox_events[r].payload).fail)
      ~> settlement_ledger[r].state \notin {"INITIATED", "PENDING"}

=============================================================================
