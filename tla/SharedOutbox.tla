---------------------------- MODULE SharedOutbox ----------------------------
(***************************************************************************)
(* One outbox served by both programs of the repository: current workers   *)
(* (cmd/outbox-worker) and legacy workers (main.go at the root), which     *)
(* read PENDING rows without claiming them.  Their two copies of           *)
(* completeSuccessfulEvent and markFailedAttemptGeneric differ only in the *)
(* outbox state they expect.                                               *)
(*                                                                         *)
(* Here an SQL transaction is not one step.  Each outcome locks two rows,  *)
(* a success the ledger row first and a failure the outbox row first, and  *)
(* the steps of others come in between.  What is written stays invisible   *)
(* until the commit (READ COMMITTED), so the writes are in the last step.  *)
(***************************************************************************)
EXTENDS OutboxRefinement

CONSTANT LegacyWorkers    \* those of Workers that run main.go

ASSUME LegacyWorkersAssumption == LegacyWorkers \subseteq Workers

VARIABLE
  tx    \* [Workers -> Tx]: the open SQL transaction of a worker

sqlVars == <<settlement_ledger, transaction_events, outbox_events, batch, tx>>

CurrentWorkers == Workers \ LegacyWorkers

\* The event whose outcome is being written and the tables in which its row is
\* locked.
Tx == [event : SUBSET OutboxEvent,
       locks : SUBSET {"settlement_ledger", "outbox_events"}]

NoTx == [event |-> {}, locks |-> {}]

Holds(p, table, r) ==
  table \in tx[p].locks /\ \E ev \in tx[p].event : ev.ref = r

Locked(table, r) == \E p \in Workers : Holds(p, table, r)

Open(p, ev, locks) == tx' = [tx EXCEPT ![p] = [event |-> {ev}, locks |-> locks]]

Close(p) == tx' = [tx EXCEPT ![p] = NoTx]

\* The error is logged and the loop of processBatch goes on.
Rollback(p, ev) == Close(p) /\ Forget(p, ev) /\ UNCHANGED tables

SqlInit == Init /\ tx = [p \in Workers |-> NoTx]

-----------------------------------------------------------------------------
\* processBatch of main.go: a plain SELECT, which waits for no lock and leaves
\* no mark on the rows.
FindReadyEvents(p) ==
  /\ p \in LegacyWorkers
  /\ ClaimColumns \subseteq Columns
  /\ batch[p] = {} /\ Ready # {}
  /\ batch' = [batch EXCEPT ![p] =
       {[ref |-> r, attempt_count |-> outbox_events[r].attempt_count] :
          r \in Oldest(Ready, BatchSize)}]
  /\ UNCHANGED <<tables, tx>>

\* claimReadyEvents of a current worker, which passes over the rows that open
\* transactions have locked.
ClaimUnlocked(p) ==
  /\ p \in CurrentWorkers
  /\ ClaimColumns \subseteq Columns
  /\ batch[p] = {}
  /\ LET unlocked == {r \in Ready : ~Locked("outbox_events", r)}
     IN  \E locked \in SUBSET unlocked :
           PassedOver(CurrentWorkers, p, locked) /\ Claim(p, unlocked \ locked)
  /\ UNCHANGED <<settlement_ledger, transaction_events, tx>>

\* Mutant: a simulated failure that passes after the first attempt.
FailsAtFirst(p, ev) ==
  ev.attempt_count = 0 /\ ShouldSimulateFailure(outbox_events[ev.ref].payload).fail

\* processEvent: which of the two outcomes worker p writes for the event.
Fails(p, ev) == ShouldSimulateFailure(outbox_events[ev.ref].payload).fail

\* The outbox state in the WHERE clauses of worker p's program.
HeldState(p) == IF p \in LegacyWorkers THEN "PENDING" ELSE "PROCESSING"

\* UPDATE outbox_events ... WHERE ppay_ref = $1 AND state = ...; that no row may
\* match is not noticed.
UpdateHeld(p, r, state, attempts, due) ==
  outbox_events' = [outbox_events EXCEPT ![r] =
    IF @.state = HeldState(p)
    THEN [@ EXCEPT !.state = state, !.attempt_count = attempts, !.due = due]
    ELSE @]

\* completeSuccessfulEvent, SELECT ... FOR UPDATE: waits for the ledger row and
\* refuses one that is not INITIATED.
LockLedgerRow(p, ev) ==
  /\ ~Fails(p, ev)
  /\ tx[p] = NoTx
  /\ ~Locked("settlement_ledger", ev.ref)
  /\ \/ /\ settlement_ledger[ev.ref].state = "INITIATED"
        /\ Open(p, ev, {"settlement_ledger"})
        /\ UNCHANGED vars
     \/ /\ settlement_ledger[ev.ref].state # "INITIATED"
        /\ Rollback(p, ev)

\* completeSuccessfulEvent, the rest: waits for the outbox row if that is in the
\* state it expects, and commits.
CompleteAndCommit(p, ev) ==
  LET r == ev.ref
  IN  /\ tx[p].event = {ev}
      /\ "settlement_ledger" \in tx[p].locks
      /\ outbox_events[r].state = HeldState(p) => ~Locked("outbox_events", r)
      /\ UpdateLedger(r, [settlement_ledger[r] EXCEPT
           !.state = "SETTLED", !.provider_status = "DELIVERED"], 2)
      /\ transaction_events' = [transaction_events EXCEPT ![r] =
           Append(Append(@, AuditEvent("PENDING", "outbox-worker")),
                  AuditEvent("SETTLED", "provider-simulator"))]
      /\ UpdateHeld(p, r, "SENT", outbox_events[r].attempt_count + 1,
                    outbox_events[r].due)
      /\ Forget(p, ev)
      /\ Close(p)

\* markFailedAttemptGeneric, UPDATE outbox_events: waits for the row and locks
\* it, or matches no row and goes on without.
LockOutboxRow(p, ev) ==
  /\ Fails(p, ev)
  /\ tx[p] = NoTx
  /\ \/ /\ outbox_events[ev.ref].state = HeldState(p)
        /\ ~Locked("outbox_events", ev.ref)
        /\ Open(p, ev, {"outbox_events"})
     \/ /\ outbox_events[ev.ref].state # HeldState(p)
        /\ Open(p, ev, {})
  /\ UNCHANGED vars

\* What the outbox row becomes was decided by LockOutboxRow.
UpdateLocked(p, r, state, attempts) ==
  IF "outbox_events" \in tx[p].locks
  THEN UpdateHeld(p, r, state, attempts, FALSE)
  ELSE UNCHANGED outbox_events

\* Mutant: the outcome is written over whatever the ledger says.
AcceptsAnything(r) == FailureColumns \subseteq Columns

\* markFailedAttemptGeneric: the states it accepts, on a schema that has what
\* its statements name.
AcceptsFailure(r) ==
  /\ settlement_ledger[r].state \in {"INITIATED", "PENDING"}
  /\ FailureColumns \subseteq Columns

\* markFailedAttemptGeneric, the rest: waits for the ledger row, refuses one
\* that is not open (or the schema), or commits.
FailAndCommit(p, ev) ==
  LET r        == ev.ref
      answer   == ShouldSimulateFailure(outbox_events[r].payload)
      next     == ev.attempt_count + 1
      workflow == FailureWorkflow(next, answer.decline)
  IN  /\ tx[p].event = {ev}
      /\ "settlement_ledger" \notin tx[p].locks
      /\ ~Locked("settlement_ledger", r)
      /\ \/ ~AcceptsFailure(r) /\ Rollback(p, ev)
         \/ /\ AcceptsFailure(r)
            /\ UpdateLedger(r, [settlement_ledger[r] EXCEPT
                 !.state = LedgerStateAfter(workflow),
                 !.provider_status = CASE workflow = "FAILED"  -> "DECLINED"
                                       [] workflow = "UNKNOWN" -> "TIMEOUT"
                                       [] OTHER                -> @], 1)
            /\ transaction_events' = [transaction_events EXCEPT
                 ![r] = Append(@, AuditEvent(workflow, "outbox-worker"))]
            /\ UpdateLocked(
                 p, r, IF workflow = "RETRY_SCHEDULED" THEN "PENDING" ELSE "FAILED",
                 next)
            /\ Forget(p, ev)
            /\ Close(p)

\* A statement or the commit fails for a reason of the connection.
AbortTransaction(p) ==
  /\ "dberror" \in Faults
  /\ \E ev \in batch[p] : tx[p].event \subseteq {ev} /\ Rollback(p, ev)

\* The process ends; the server rolls its open transaction back.
StopProcess(p) == StopWorker(p) /\ Close(p)

BeginOutcome(p) == \E ev \in batch[p] : LockLedgerRow(p, ev) \/ LockOutboxRow(p, ev)

CommitOutcome(p) ==
  \E ev \in batch[p] : CompleteAndCommit(p, ev) \/ FailAndCommit(p, ev)

SqlWorkerStep(p) ==
  \/ FindReadyEvents(p) \/ ClaimUnlocked(p)
  \/ BeginOutcome(p) \/ CommitOutcome(p)
  \/ AbortTransaction(p) \/ StopProcess(p)

\* Mutant: reconciliation and callbacks read the ledger row without FOR UPDATE.
SqlRefStepUnlocked(r) ==
  /\ Create(r) \/ BackoffElapses(r) \/ TxReconcile(r) \/ MTNCollectionCallback(r)
  /\ UNCHANGED tx

\* The transactions of the API lock one row each: the ledger row, or rows that
\* nobody else can see yet.
SqlRefStep(r) ==
  /\ \/ Create(r)
     \/ BackoffElapses(r)
     \/ /\ ~Locked("settlement_ledger", r)
        /\ TxReconcile(r) \/ MTNCollectionCallback(r)
  /\ UNCHANGED tx

SqlNext ==
  \/ \E p \in Workers : SqlWorkerStep(p)
  \/ \E r \in Refs : SqlRefStep(r)

SqlSpec == SqlInit /\ [][SqlNext]_sqlVars

\* Tickers fire for ever, loops go on after an error, and a statement that waits
\* for a row gets it once the row stays free.
SqlFairness ==
  /\ \A p \in Workers :
       /\ WF_sqlVars(FindReadyEvents(p)) /\ WF_sqlVars(ClaimUnlocked(p))
       /\ WF_sqlVars(BeginOutcome(p))    /\ WF_sqlVars(CommitOutcome(p))
  /\ \A r \in Refs : WF_sqlVars(BackoffElapses(r) /\ UNCHANGED tx)

FairSqlSpec == SqlSpec /\ SqlFairness

-----------------------------------------------------------------------------
(***************************************************************************)
(* Properties.                                                             *)
(***************************************************************************)

\* Every variable has its type.
SqlTypeOK == TypeOK /\ tx \in [Workers -> Tx]

\* The state an open transaction read under its lock is still so when it
\* commits, whatever workers of either program, operators and callbacks do
\* meanwhile: completeSuccessfulEvent settles what is INITIATED, and the outbox
\* row that a failure updated is in the state its WHERE clause names.
LockedReadsHold ==
  \A p \in Workers : \A ev \in tx[p].event :
    /\ "settlement_ledger" \in tx[p].locks =>
         settlement_ledger[ev.ref].state = "INITIATED"
    /\ "outbox_events" \in tx[p].locks =>
         outbox_events[ev.ref].state = HeldState(p)

\* Worker p would begin the outcome of an event of its batch, and waits for the
\* row that this outcome locks first.
WaitsToBegin(p, q) ==
  /\ tx[p] = NoTx
  /\ \E ev \in batch[p] :
       \/ ~Fails(p, ev) /\ Holds(q, "settlement_ledger", ev.ref)
       \/ /\ Fails(p, ev)
          /\ outbox_events[ev.ref].state = HeldState(p)
          /\ Holds(q, "outbox_events", ev.ref)

\* Worker p has begun an outcome and waits for the other row.
WaitsToCommit(p, q) ==
  \E ev \in tx[p].event :
    \/ /\ "settlement_ledger" \in tx[p].locks
       /\ outbox_events[ev.ref].state = HeldState(p)
       /\ Holds(q, "outbox_events", ev.ref)
    \/ /\ "settlement_ledger" \notin tx[p].locks
       /\ Holds(q, "settlement_ledger", ev.ref)

\* Worker p's next statement waits for a row that q has locked.
WaitsFor(p, q) == WaitsToBegin(p, q) \/ WaitsToCommit(p, q)

\* A success locks the ledger row first and a failure the outbox row, yet no two
\* workers ever wait for each other: the choice between the two depends on the
\* payload alone, so a transaction is never a success to one worker and a failure
\* to another.
NoLockCycle == \A p, q \in Workers : ~(WaitsFor(p, q) /\ WaitsFor(q, p))

\* What is left of OutboxAgreesWithLedger and AttemptsCounted when legacy
\* workers act on events they have not claimed.  A row is SENT or FAILED only
\* with the outcome that goes with it; a delivered transaction is never left
\* where a poll finds it again (one that was given up may be, and is refused
\* from then on); attempts may be lost but none is made up.
OutcomesAgree ==
  \A r \in Refs :
    LET row == settlement_ledger[r]  ob == outbox_events[r]
    IN  /\ ob.state = "SENT" => row.provider_status = "DELIVERED"
        /\ ob.state = "FAILED" => row.provider_status \in {"DECLINED", "TIMEOUT"}
        /\ row.provider_status = "DELIVERED" =>
             row.state = "SETTLED" /\ ob.state \in {"SENT", "PROCESSING"}
        /\ row.provider_status \in {"DECLINED", "TIMEOUT"} =>
             row.state \notin {"INITIATED", "PENDING"}
        /\ ob.attempt_count <=
             Cardinality({i \in DOMAIN transaction_events[r] :
                            IsOutcome(transaction_events[r][i])})

\* No worker is stuck in a transaction: every outcome that has been begun is
\* committed or rolled back, though others keep taking the rows it waits for.
EveryTransactionEnds ==
  \A p \in Workers : tx[p].event # {} ~> tx[p].event = {}

=============================================================================
