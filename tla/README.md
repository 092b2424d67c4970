# Ppay backend: specification and proofs

TLA+ models of the transaction engine of `ppay-backend` (Go, PostgreSQL), the
TLC configurations that check them on small instances, and TLAPS proofs of
their main properties for all values of the constants.

## The system

| Part | State it keeps | Operations |
| --- | --- | --- |
| Transaction store (`internal/store/transactions.go`) | tables `settlement_ledger`, `transaction_events`, `outbox_events` | CreateAirtimeTx, CreateDataBundleTx, ReconcileTransaction, two readers |
| Outbox worker (`cmd/outbox-worker`) | the claimed batch, in memory | claim, dispatch, complete, fail and retry |
| Legacy outbox worker (`main.go` at the root) | a batch read without claiming | poll, then the same dispatch and outcomes over PENDING rows |
| Transaction handlers (`internal/handlers/airtime_handler.go`) | none | create (and ask MTN for the payment), status, events, reconcile |
| MTN callback (`internal/handlers/mtn_callback_handler.go`) | none | status callback to reconciliation |
| MTN client (`internal/mtnmomo`, and a second one under `internal/rails/telco/mtnmomo`) | the access token and its expiry | token, RequestToPay, status lookup |
| PIN authentication (`internal/handlers/auth.go`, `internal/store/auth.go`) | table `user_pins`: failures and lock | create, verify |
| USSD engine (`internal/ussd`) | a map of sessions | menus, flow steps |
| Airtime top-up slice (`internal/airtime`, `internal/api/handlers`) | in-memory top-ups | create and submit, finalise |
| Rails (`internal/rails`) | registry of rails | register, route by score |

The parts meet in the three tables. A request inserts a ledger row
(INITIATED), its first audit event and an outbox row (PENDING) in one commit.
Workers poll: they claim due outbox rows (`FOR UPDATE SKIP LOCKED`, state
PROCESSING), ask a simulated provider, and write the outcome to all three
tables in one SQL transaction per event. Meanwhile operators and MTN callbacks
move the ledger row along the transition table of `canTransition`; they do not
look at the outbox. Nothing else connects the parties: no lock is held between
a worker's claim and its outcome. The root program serves the same outbox with
the same two outcomes, and claims nothing.

What is hard here: worker processes stop, lose their database connection and
run in parallel; callbacks arrive at any time, late, twice and out of order;
the outcome of an event is computed from a copy made at the claim; and the two
tables that say how a transaction stands are changed by different parties. The
properties that would make each part correct:

- store and workers: one holder per event, every attempt counted, outbox and
  ledger in agreement, an audit trail that explains the row, final states
  final, every event resolved;
- intake: one row and one `ppay_ref` per idempotency key, replays equal to the
  first answer, no payment without its transaction;
- both workers on one outbox: no deadlock over their row locks, what was read
  under a lock still so at the commit, no outcome contradicted or made up;
- MTN client: one token refresh at a time, callers never use an expired token
  and never wait without bound;
- PIN: every failure counted, no lock without its failures, none that outlives a match;
- USSD: a finished flow leaves nothing behind for the next input;
- top-ups: one top-up per idempotency key;
- rails: the chosen rail is eligible and has the best score.

`PROJECT.json` lists the hazards at their lines, with the property that covers
each, or the reason why none does.

## Modules

| Module | What it is |
| --- | --- |
| `Ledger` | pure: ledger states, `canTransition`, the conversions between MTN statuses, reconciliation targets and workflow states |
| `TxStore` | the three tables, creation and reconciliation, one step per SQL transaction |
| `OutboxWorker` | workers, callbacks, operators, faults, and the properties |
| `TxLifecycle` | abstract: what the holder of a `ppay_ref` is promised |
| `WorkQueue` | abstract: what the outbox promises as a queue of work with bounded retries |
| `OutboxRefinement` | the refinement mappings from `OutboxWorker` to `TxLifecycle` and `WorkQueue` |
| `Intake` | concurrent requests, duplicates among them, against the idempotency key; the payment asked of MTN |
| `KeyPromise` | abstract: what an idempotency key promises to its clients |
| `IntakeRefinement` | the refinement mapping from `Intake` to `KeyPromise` |
| `PinAuth` | creation and concurrent verification of PINs, the failure counter and the lock |
| `SharedOutbox` | legacy and current workers on one outbox, with the row locks of their SQL transactions; extends `OutboxRefinement` |
| `MtnClient` | the access token that concurrent requests share, its mutex, expiry and timeouts |
| `UssdSession` | USSD sessions, menus and flows |
| `MCOutboxWorker`, `MCSharedOutbox`, `MCIntake`, `MCPinAuth`, `MCMtnClient`, `MCUssdSession` | constants for TLC |
| `OutboxWorkerProofs`, `AuditProofs`, `RefinementProofs`, `SharedOutboxProofs`, `IntakeProofs`, `PinAuthProofs`, `MtnClientProofs`, `UssdProofs` | theorems |

### State and code

`settlement_ledger`, `transaction_events` and `outbox_events` are functions
from `Refs` to rows; a reference is named by its rank in `created_at`, so the
order of the claim query is the order of the numbers. Rows keep the columns the
properties tell apart. `due` stands for `next_retry_at <= NOW()` and turns true
by `BackoffElapses`; how long the backoff takes does not matter. A payload is
its phone suffix and the marker in its idempotency key, which decide the
simulated provider's answer (a decline wins over a timeout). `batch[w]` is what
worker `w` holds in memory between its claim and each outcome.

| Action | Code |
| --- | --- |
| `Create` | AirtimeHandler, DataBundleHandler with a new key, and the commit of Create...Tx |
| `ClaimReadyEvents` | claimReadyEvents with its commit |
| `CompleteSuccessfulEvent` | completeSuccessfulEvent, all statements to the commit |
| `MarkFailedAttempt` | markFailedAttemptGeneric, retry and last attempt |
| `RejectedEvent` | either of them returning an error: rolled back, logged, row left PROCESSING |
| `BackoffElapses` | time |
| `StopWorker` | kill, or SIGTERM cancelling the context; a new process starts with an empty batch |
| `DatabaseError` | the transaction of one event fails for a reason of the connection |
| `TxReconcile` | TxReconcileHandler, with an operator's target or a looked-up one |
| `MTNCollectionCallback` | MTNCollectionCallbackHandler |

An SQL transaction is one step because each takes the ledger row with
`FOR UPDATE` before it reads it, and the version check of its UPDATE can
therefore not fail; creations touch only rows they insert. The failure path
updates the outbox row first, but only the worker that holds the event changes
a PROCESSING row (`ExclusiveClaim`), so no other step can come in between. A
commit whose acknowledgement is lost is a committed step followed by
`StopWorker` or by going on to the next event.

`SKIP LOCKED` matters in two cases: a row locked by a claim that commits is no
longer ready, and a row locked by a claim that is rolled back was merely passed
over. The second is the `locked` set of `ClaimReadyEvents`; it needs a database
error and a second worker with nothing in hand. That the failed claim itself
changes nothing makes it a stutter.

That an SQL transaction may be taken for one step is not left to this argument:
`SharedOutbox` takes it apart, and `CurrentWorkersAlone` proves that without
legacy workers its behaviours are those of `OutboxWorker`.

`Columns` says which of the columns and types the worker's SQL names exist in
the deployed schema. The schema files of the repository disagree: the claim
needs `next_retry_at` and `max_retries`, the failure path needs
`transaction_events.reason_code` and a type `ledger_state`, which
`docs/schema.sql` does not have.

### The three promises

| Abstract specification | What it sees of the detailed one |
| --- | --- |
| `TxLifecycle` | `status`: the ledger state, with INITIATED and PENDING one state, since retries and callbacks alternate them; `delivered`: a `provider_status` that only the success path writes |
| `WorkQueue` | `waiting`, `done`, `dead`: the outbox rows that are PENDING, SENT, FAILED; `held`: the references in `batch`; `lost`: the rows that are PROCESSING and in nobody's batch; `attempts`: `attempt_count` |
| `KeyPromise` | `owner`: the ledger row of a key; `given`: what the store returned to a handler; `refused`: the requests answered 409; `paid`: the payments MTN accepted, by the request that asked and the reference it named |

`WorkQueue` says what a claim buys: one pair of hands at a time, `MaxRetries`
attempts at most, and no hand-out after an outcome. A worker that stops, or whose
transaction is rolled back, is its `Lose`: the code brings no lost row back, and
the abstract queue does not either. Its `HandOut` takes any of the waiting
rows, because the order of the claim query and the rows it passes over are of no
concern to who holds what. `KeyPromise` says what remains of the sentence about
duplicates in `docs/ussd-backend-v0.1.md` when requests race and fail: not that
every duplicate is given the reference (`intake_race`), but that the first
transaction owns its key for good, that nobody is given another one, and that
nobody is both given and refused. `Take` without giving is a commit whose answer
is lost.

### SharedOutbox

`LegacyWorkers` are those of `Workers` that run `main.go`; the others run
`cmd/outbox-worker`. Their copies of the two outcome functions differ only in
the outbox state their WHERE clauses name (`HeldState`). `tx[p]` is the open SQL
transaction of worker `p`: the event and the tables in which it has locked that
event's row. READ COMMITTED is modelled by making all writes in the last step:
until then others see the rows as they were. Each step takes one lock and what
follows up to the next wait.

| Action | Code |
| --- | --- |
| `FindReadyEvents` | processBatch of main.go: a plain SELECT |
| `ClaimUnlocked` | claimReadyEvents, which passes over rows that open transactions have locked |
| `LockLedgerRow` | completeSuccessfulEvent to its SELECT ... FOR UPDATE and the check of the state |
| `CompleteAndCommit` | the rest of it; waits for the outbox row unless that is in another state |
| `LockOutboxRow` | markFailedAttemptGeneric to its UPDATE of outbox_events, which may match no row |
| `FailAndCommit` | the rest of it; waits for the ledger row |
| `AbortTransaction`, `StopProcess` | database errors; a kill, on which the server rolls back |
| `SqlRefStep` | creation, reconciliation and callbacks; the last two wait for the ledger row |

`BatchSize` stands for the limit of both programs, which is 10.

### Intake

`OutboxWorker` creates a transaction in one step, which is right for what comes
after the commit. `Intake` takes that step apart, where duplicates race: the
key is looked up with a plain SELECT and inserted by a later statement.
`phase[q]` is where the handler of request `q` is; `settlement_ledger` is the
set of committed rows, each standing for the ledger row, its first event and
its outbox row, which one commit makes visible; a new reference is named by the
request that made it, as a payment is by the request whose handler made up its
`X-Reference-Id`. A body is reduced to product, network, terms (the rest of
what is hashed) and `bundle_size_mb`; requests are received already valid.

| Action | Code |
| --- | --- |
| `Receive` | AirtimeHandler, DataBundleHandler up to the call of the store |
| `LookupKey` | the SELECT by key: no row, a replay, or 409 |
| `InsertRows` | the INSERTs and the commit; a key that was taken meanwhile is a unique violation and 500 |
| `DatabaseError` | any statement or the commit fails, or the commit's answer is lost: 500 |
| `RequestToPay` | the MTN call of AirtimeHandler, on replays too: 202, or 502 with or without MTN having accepted |
| `Abandon` | the client is gone or the process ends; a commit or a payment already sent still counts |

A concurrent INSERT of the same key waits for the other transaction to end, so
insert and commit are one step: the row is then either free or taken.

### PinAuth

`pin_hash`, `failed_attempts` and `locked_for` are the columns of `user_pins`
by phone; `locked_for` is what is left of `locked_until`, on one clock for
database and API. `wrong` is a history of the failures recorded since the last
match, which no action reads.

| Action | Code |
| --- | --- |
| `CreatePIN` | CreatePIN with CreatePINUser: 201, or 409 on the unique violation |
| `ReadAndCompare` | VerifyPIN to the end of the comparison: 401, 429, or a match or difference to report |
| `Refuse` | RecordFailedPINVerification and the answer made from the row it returns |
| `Verify` | RecordSuccessfulPINVerification and 200 |
| `Fail` | database, client or process fails; the statement takes effect or not |
| `Tick` | time |

The comparison with Argon2id is long and depends only on what was read, so the
read and the comparison are one step and the report another. The answer follows
its UPDATE within the same step: what lies between is a few instructions, and a
lock lasts fifteen minutes.

### MtnClient

`accessToken`, `tokenExpiry` and `mu` are the fields of `CollectionClient`; a
token is the time of its issue and its lifetime, which is all MTN decides by.
`since[c]` is when the HTTP request of caller `c` was sent, `began[c]` when its
method was called, `token[c]` what it has been issued or handed. `refreshes` is
a history of the tokens received, which no action reads. `clock` counts time in
units in which timeout and margin are small; it is bounded by `MaxTime`.

| Action | Code |
| --- | --- |
| `Call` | GetAccessToken, at start-up or for HealthCheck, RequestToPay, GetRequestToPayStatus |
| `UseCached` | the lock, a fresh token, the unlock |
| `BeginFetch` | the lock, a stale token, and the request for another under the lock |
| `IssueToken` | MTN, at some moment before its answer arrives |
| `ReceiveToken` | the answer: cached, handed out, unlocked |
| `FetchFails` | every error return of GetAccessToken, the deferred unlock with it |
| `CallReturns` | the request made with the token, whatever comes of it |
| `Tick` | time; not past the timeout of a request, nor while a free mutex is waited for |

`Timeout <= Margin` is an assumption of the model because it is a fact of the
code: both are 30 seconds (`collection.go:40`, `client.go:57`).
`RefreshesAreSpaced` is about refreshes and not about the mutex: two of them are
a token's life apart, less the margin, whoever asked.

### UssdSession

`sessions` is the map of `inMemorySessionStore`, at most one state for each id;
`answer` is the prefix of the last answer, CON or END. Of a payload the model
keeps which keys are set. An input is a number, the key of a menu entry; 0 is
the empty input. One request is one step, since a gateway sends the next input
of a session after the last answer. `MapRace`: requests of different sessions
use the Go map without a lock, which the runtime may answer by ending the
process; all sessions are then new.

## Runs

| Run | Constants | Result |
| --- | --- | --- |
| `outbox_safety` | 2 workers, 2 transactions, `MaxRetries` 2, batches of 2, all payload kinds, targets, statuses and faults | passes: 77 thousand states |
| `outbox_live` | 2 workers, 3 transactions, `MaxRetries` 3, batches of 2, operators, lookups and callbacks with outcomes, no PENDING callbacks, no faults | passes: 32 thousand states |
| `stop_strands` | workers may stop | `FailedReachTerminal` violated |
| `callback_strands` | callbacks may arrive | `AcceptedSettles` violated |
| `schema_dump` | columns of `docs/schema.sql` | `FailedReachTerminal` violated |
| `intake_faults` | 3 requests, 2 keys, 4 bodies, all faults | passes: 525 thousand states |
| `intake_race` | 2 requests, 1 key, 1 body | `DuplicatesReuseRef` violated |
| `intake_bundles` | 2 requests, 1 key, bodies that differ in size | `SameRefSamePayload` violated |
| `pin_attempts` | 5 requests, 1 phone, 2 PINs, 2 attempts, locks of 2 ticks | passes: 112 thousand states up to symmetry |
| `shared_outbox` | 1 current and 2 legacy workers, 1 transaction, `MaxRetries` 2, batches of 1, all payload kinds, targets, statuses and faults | passes: 22 thousand states |
| `mtn_client` | 3 callers, 2 of them with a request to make; timeout 2, margin 2, lifetimes 3 and 6, `MaxTime` 9 | passes: 254 thousand states |
| `ussd_reset` | 2 sessions, inputs 0 to 8 | `FinishedFlowIsReset` violated |

`outbox_safety` asks whether the tables stay consistent whatever happens, and
whether rows that stay PROCESSING for good hold the others back (they do not:
`EveryWaitingRowClaimed`). It includes the refinements to `TxLifecycle` and `WorkQueue`.
`outbox_live` asks whether every event is resolved when nothing goes wrong
between claim and outcome; its assumptions are exactly what the three
violations show to be needed. `NothingStranded` is the safety half of that
question: an outbox row is open if and only if its transaction is INITIATED, as
the success path requires, and a PROCESSING row is in some worker's batch. The
bounds: two workers are enough for every race
over one row, since a step involves at most two parties besides the row; two
transactions give a batch with a rest that outlives a failed event, and three
with batches of two give a row that must wait for the next batch, so the limit
of a claim binds in `outbox_live` only (in `outbox_safety` a row waits because a
claim passes over it or because both workers still have a batch); two attempts
give one retry and one last attempt. Deadlock is not checked: once every
transaction is resolved the system is idle, as it should be. Nothing in a model
is counted without bound: attempts end at `MaxRetries`, ledger transitions end
in final states, and callbacks that change nothing are no steps.

`intake_faults` has three requests because the interesting cases need a first
one that creates, one that races it and one that comes later; two keys, so that
a request may also be on its own; four bodies, so that a duplicate may be
identical, differ in a hashed part, in the unhashed size, or in the product.
It includes the refinement to `KeyPromise`.
The handlers' fairness (below) answers every request. Once all are answered
nothing more happens, so deadlock is not checked.

`pin_attempts` has one phone, since rows of different phones never meet, and
five requests: a creation, two failures that lock, one more after the lock ran
out, and a match that races them. Requests differ only in what `Init` chooses
for them, so symmetry is sound for the invariants. It ends when all are done.

`shared_outbox` asks what is left of all this when a second program takes events
nobody claims for it. One transaction is enough, since locks, batches of one and
outcomes are of one event and events meet only in the limit of a poll
(`outbox_safety`); two legacy workers race each other and both race the current
one. Two attempts let a copy of `attempt_count` be one behind. What is left is
`OutcomesAgree`: an attempt may go uncounted, and a transaction that was given
up may be found again and refused, but the tables never contradict each other.
No deadlock can come of the opposite lock orders, for a reason worth knowing:
whether an event succeeds depends on its payload alone (`shouldSimulateFailure`).
With a provider that may answer differently the second time it is lost, as the
mutant `FailsAtFirst` shows. Workers do wait: two legacy
workers that have read the same event meet at the first row that its outcome
locks (`WaitsToBegin`). `NoLockCycle` speaks of cycles of two; the proof shows
that whom a worker waits for never waits itself, so that no chain is longer than
one. Deadlock is not checked, for the reason above.

`mtn_client` has three callers, so that one holds the mutex, one waits behind it
and one waits behind both; a lifetime that is in its margin one tick after its
issue and one that is cached for some time; and a clock that sees three timeouts
and a refresh after each. It ends when all calls have returned.

### What the violations show

- `stop_strands`: the claim commits `PROCESSING` and only `PENDING` rows are
  claimed; a worker that stops before the outcome leaves its rows, and their
  transactions, as they are. No timeout resets them, and an operator cannot
  move an INITIATED row (its only transition is to PENDING, which is not a valid
  target) unless a callback has moved it first.
- `callback_strands`: a PENDING callback moves the row from INITIATED to
  PENDING; the worker's success path accepts INITIATED only, rolls back, and
  leaves the row PROCESSING. The transaction stays PENDING until a further
  callback or an operator ends it.
- `schema_dump`: on `docs/schema.sql` every failed attempt is rolled back.
- `intake_race`: two identical requests both find no row; the later INSERT
  breaks the UNIQUE constraint, and its client is told 500 instead of the
  reference. A retry is then replayed.
- `intake_bundles`: `hashDataBundleRequest` leaves the size out, so a request
  for another size under the same key is answered 202 with the reference of the
  first.
- `ussd_reset`: the reset after a finished flow follows `handleAction`, where no
  action ends a flow; `handleFlowStep`, which ends one at every step, returns
  past it. The session keeps the flow and what was typed, so its next input,
  even an empty one that should show the menu, is taken for the finished flow.

### Fairness

`WF(ClaimReadyEvents(w))` and `WF(ProcessEvent(w))` for every worker: the
ticker of `main` fires every two seconds for ever, and the loop of
`processBatch` goes on after an error. `WF(BackoffElapses(r))`: time passes.
Nothing is assumed of clients, operators, MTN, or of faults, which need never
happen. `StopWorker` and `DatabaseError` may happen for ever; fairness of
`ProcessEvent` is what a restarted worker gives. In `Intake`,
`WF(HandlerStep(q))`: `net/http` runs each handler in a goroutine of its own,
and every statement and the MTN call return in the end; a `Receive` need not
happen. In `SharedOutbox`, `WF` of polling, claiming, beginning and committing
an outcome for every worker: tickers fire for ever, loops go on after an error,
and a statement that waits for a row that stays free gets it. In `MtnClient`,
`WF` of taking a mutex that stays free and of the return of every HTTP request,
which its timeout forces; MTN need never issue a token.

## Proofs

All theorems hold for every set of references (natural numbers), any set of
workers, any positive `MaxRetries` and `BatchSize`, any payloads, any subset of
targets, statuses, faults and columns, in `SharedOutbox` for any of the workers
being legacy ones, in `Intake` for any requests, keys, bodies and faults, in
`PinAuth` for any phones, PINs, requests and positive limits, in `MtnClient`
for any finite set of callers, any timeout no longer than the margin, and any
lifetimes longer than the timeout, and in `UssdSession` for any sessions and inputs. The assumptions are the named ASSUMEs of
`TxStore`, `OutboxWorker`, `SharedOutbox`, `Intake`, `PinAuth` and `MtnClient`,
evaluated by TLC in every passing run of a module that extends them.

| Theorem | Statement |
| --- | --- |
| `TypeCorrect` | `Spec => []TypeOK` |
| `ClaimsAreExclusive` | `Spec => []ExclusiveClaim` |
| `OutboxAndLedgerAgree` | `Spec => []OutboxAgreesWithLedger` |
| `FinalStatesAreFinal` | `Spec => FinalIsFinal` |
| `AttemptsAreCounted` | `Spec => []AttemptsCounted` |
| `AuditTrailExplainsLedger` | `Spec => []AuditTrail` |
| `NothingIsStranded` | `Spec => []NothingStranded` if `Undisturbed` |
| `StoreImplementsLifecycle` | `Spec => ImplementsLifecycle` |
| `OutboxImplementsQueue` | `Spec => ImplementsQueue` |
| `IntakeTypeCorrect` | `Spec => []TypeOK` (of `Intake`) |
| `KeysAreUnique` | `Spec => []OneRowPerKey` |
| `ResultsAreCommitted` | `Spec => []ResultIsCommitted` |
| `PaymentsAreAlwaysBacked` | `Spec => []PaymentsAreBacked` |
| `IntakeKeepsPromise` | `Spec => ImplementsPromise` |
| `PinTypeCorrect` | `Spec => []TypeOK` (of `PinAuth`) |
| `EveryFailureCounts` | `Spec => []FailuresCounted` |
| `LocksHaveFailures` | `Spec => []LockHasItsFailures` |
| `WrongAnswersAreFew` | `Spec => []FewWrongAnswers` |
| `CreatedPinsStay` | `Spec => []PinIsKept` |
| `SharedTypeCorrect` | `SqlSpec => []SqlTypeOK` |
| `LockedReadsAreStable` | `SqlSpec => []LockedReadsHold` |
| `NoDeadlock` | `SqlSpec => []NoLockCycle` |
| `NoLockChain` | `SqlSpec =>` always whoever is waited for does not wait |
| `LockedRowsAreKept` | `SqlSpec => [][KeepsLockedRows]_sqlVars` |
| `CurrentClaimsHold` | `SqlSpec => []CurrentClaims` |
| `SharedFinalStatesAreFinal` | `SqlSpec => FinalIsFinal` |
| `SharedOutcomesAgree` | `SqlSpec => []OutcomesAgree` |
| `SharedAuditTrail` | `SqlSpec => []AuditTrail` |
| `SharedImplementsLifecycle` | `SqlSpec => ImplementsLifecycle` |
| `CurrentWorkersAlone` | `SqlSpec => Spec` if `LegacyWorkers = {}` |
| `CurrentWorkersMakeAQueue` | `SqlSpec => ImplementsQueue` if `LegacyWorkers = {}` |
| `StatementsStrandNothing` | `SqlSpec => []NothingStranded` if `LegacyWorkers = {}` and `Undisturbed` |
| `ClientTypeCorrect` | `Spec => []TypeOK` (of `MtnClient`) |
| `TokensStayValid` | `Spec => []TokensAreValid` |
| `RefreshesStaySpaced` | `Spec => []RefreshesAreSpaced` |
| `WaitStaysBounded` | `Spec => []WaitIsBounded` |
| `SessionsAreWellFormed` | `Spec => []SessionsOK` (of `UssdSession`) |
| `FinishedFlowsStay` | `Spec => []FinishedFlowStays` |
| `FlowsAreNeverLeft` | `Spec =>` no step but a restart takes a session out of a flow, or anything out of its payload |

The argument. `OutboxWorkerProofs` first states the effect of each action as a
lemma (which rows change, from what to what) and that every step is one of
these (`NextCases`), so that later proofs do not open the definitions again. What a
step may do to one ledger row and its audit trail is `LedgerStep`, and
`LedgerCases` says that every step is one of those or leaves them alone; the
proofs about histories and the refinement start from there, and serve for
`SharedOutbox` as well.
`ExclusiveClaim` is inductive given `TypeOK`: a claim takes PENDING rows, which
no batch can hold. Every other invariant needs it, because an outcome writes
the outbox with `WHERE state = 'PROCESSING'` and computes the attempt from the
claimed copy: without it the write could be a no-op, or the copy stale.
`AttemptsCounted` then follows by comparing the cardinality of the set of
outcome events before and after one is appended. `AuditTrail` and
`OutboxAgreesWithLedger` are preserved row by row. `FinalIsFinal` is an action
property: the guards of all actions that touch the ledger exclude the final
states. The refinement uses `OutboxAgreesWithLedger` to show that a step that is
not a delivery keeps the set of delivered references.

For `OutboxImplementsQueue` each action is mapped to one step of the queue
(`CreateIsAdd`, `ClaimIsHandOut`, `CompleteIsResolve`,
`FailureIsPutBackOrGiveUp`, `DropIsLose`), and reconciliations, callbacks and
time to stutters. Its `QueueFacts` are the four invariants that make the mapping
work: a claimed row is held by nobody else and nobody's batch outlives its row
(`ExclusiveClaim`), `attempt_count` leaves room for the attempt being made
(`AttemptsCounted`), and a row never created is in no set (`OutboxAgreesWithLedger`).

`NothingIsStranded` holds under `Undisturbed`: no stops and database errors, a
schema with the columns of the failure path, and no callback status that means
PENDING. These are the causes of the three violation runs of the worker, one
each; the theorem says that there is no fourth. The invariant is inductive
because nobody but a worker can then move a transaction on from INITIATED
(`OnlyWorkersMoveInitiated`: an operator's targets and a looked-up outcome are no
successors of INITIATED) and no event leaves a batch without its outcome
(`NothingIsDropped`). That every event is then resolved needs fairness besides,
and stays with TLC (`EveryEventResolved`).

`IntakeProofs` strengthens the properties by `Progress`: a handler has no result
before the store returns and no answer before it is done, without which a 409
or a 500 could follow a result. `InvAfterHandlerStep` then says once for all
actions what keeps the invariant: the ledger only grows, by a row whose key was
free, other handlers are not concerned, and a new payment is for the handler's
own result. Each action is shown to be such a step.
`IntakeKeepsPromise` needs in addition `PayersAreDone`, that a payment is on
record only for a handler that is done: it makes the payment of a handler its
first. A key has one row (`OneRowPerKey`), so its owner is one transaction, and
a row is never changed, so it stays the owner.

`PinAuthProofs` strengthens the properties by `Recorded` (recorded failures are
finitely many and belong to handlers that are done, so a failure is new when it
is recorded and the cardinality grows by one) and `Matched` (a match is against
the stored PIN). `FewWrongAnswers` follows from the other two: a failure
answered 401 found no lock after its UPDATE, so the counter is below the limit,
and the counter bounds the failures on record.

`SharedOutboxProofs` rests on `SqlInv`: an open transaction is of an event in its
worker's batch, holds one row at most, which row depends on `Fails`, and what it
read there is still so; and a locked row has one holder. To wait for its
second row, a worker would need another with the opposite kind of transaction on
the same event, which its payload rules out (`NobodyWaitsToCommit`); one that
waits for its first row holds none, so nobody waits for it
(`BlockersDoNotWait`). `LockedReadsHold` compares states; that the version which
`completeSuccessfulEvent` read is still there too is `LockedRowsAreKept`, by
which no step changes a ledger row that stays locked. A commit finds what its
transaction read,
so it is a `LedgerStep` of the simpler module (`SharedLedgerCases`).
`OutcomesAgree` needs in addition `CurrentClaims`, what is left of
`ExclusiveClaim`, and `CopiesCounted`, that a remembered `attempt_count` is of
outcomes on record. For `CurrentWorkersAlone`, commits map to the one-step
outcomes and the steps that only lock to stutters, because a current worker
always finds its outbox row (`CurrentLocks`). What is proved of `OutboxWorker`
then holds of current workers statement by statement, `OutboxImplementsQueue` and
`NothingIsStranded` among it. With legacy workers neither does: they hand out
what they have not claimed.

`MtnClientProofs` strengthens the properties by `ClientInv`: one caller asks at a
time, a request has not been under way for longer than the timeout, the client's
expiry is at most one timeout late, and a token received earlier is in its
margin or expires no later than the cached one. `WaitIsBounded` needs
`WaitsInTurn`, which counts one timeout for each caller that has left
GetAccessToken: one that fetched is out of the queue, with its answer or without.

`UssdProofs` proves the opposite of `FinishedFlowIsReset`, and so that its
violation is no accident of an order of inputs: the end of a flow always leaves
the session in that flow, and only the end of the process takes it out. `Load`
and `HandleInput` are lemmas of their own (`LoadType`, `HandleInputType`).

Only model-checked: the liveness properties (`EveryEventResolved`,
`EveryWaitingRowClaimed`, `EveryRequestAnswered`, `EveryTransactionEnds`,
`EveryCallReturns`), which need fairness and ENABLED: out of reach of the prover. The violations are
TLC's counterexamples; nothing has to be proved of them.

## Not modelled

- The airtime top-up slice (`internal/airtime`, `internal/api/handlers`,
  `internal/providers/simulator`), the rail registry and router and the rails
  behind them: no program of the repository constructs them. Their behaviour
  depends on wiring that does not exist (which rails are registered, who calls
  the service). The token cache of the MTN rail is the one of `MtnClient`, copied.
- What MTN answers to a status lookup. The lookup sends `ppay_ref`, MTN knows
  the request by another reference that is not stored; `OutboxWorker` lets it
  return any status for any transaction, so its effect on the tables is covered.
- Whether MTN revokes tokens before they run out. The code does not drop a token
  that is answered 401.
- Stateless helpers: phone masking and normalisation, mappers, backoff times,
  request validation; refused requests change nothing. Their edge cases are for
  table tests.
- Start-up, configuration and routing: nothing changes after start. The two
  readers of the store and the handlers over them change nothing.
- Malformed payloads and unknown topics, which the workers treat as a failed
  attempt, do not occur in rows the API writes.
- The expiry of idempotency keys that `docs/ussd-backend-v0.1.md` mentions has
  no counterpart in the code.
