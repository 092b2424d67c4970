-------------------------- MODULE RefinementProofs --------------------------
(***************************************************************************)
(* The store and the workers implement TxLifecycle, and the outbox and the *)
(* workers WorkQueue, for every value of the constants.                    *)
(***************************************************************************)
EXTENDS OutboxRefinement, AuditProofs

\* The client's view of the tables.
StatusView == [r \in Refs |-> StatusOf(settlement_ledger[r].state)]
DeliveredView == {r \in Refs : settlement_ledger[r].provider_status = "DELIVERED"}

\* A step that changes one reference moves its status and leaves the rest.
LEMMA ViewOfChange ==
  ASSUME NEW r \in Refs, OtherLedgersUnchanged(r)
  PROVE  /\ StatusView' = [StatusView EXCEPT ![r] = StatusOf(settlement_ledger'[r].state)]
         /\ settlement_ledger'[r].provider_status = "DELIVERED"
              => DeliveredView' = DeliveredView \cup {r}
BY DEF StatusView, DeliveredView, OtherLedgersUnchanged

\* The provider_status of a row that keeps whether it says DELIVERED.
LEMMA DeliveredKept ==
  ASSUME NEW r \in Refs, OtherLedgersUnchanged(r),
         settlement_ledger'[r].provider_status = "DELIVERED"
           <=> settlement_ledger[r].provider_status = "DELIVERED"
  PROVE  DeliveredView' = DeliveredView
BY DEF DeliveredView, OtherLedgersUnchanged

LEMMA RefinementInit == Init => Lifecycle!LifecycleInit
<1> SUFFICES ASSUME Init
             PROVE  Lifecycle!LifecycleInit
  OBVIOUS
<1>1. \A r \in Refs : /\ settlement_ledger[r].state = Absent
                      /\ settlement_ledger[r].provider_status = "NONE"
  BY DEF Init, StoreInit, NoLedgerRow
<1>2. \A r \in Refs : StatusOf(settlement_ledger[r].state) = "NONE"
  BY <1>1 DEF StatusOf, Absent
<1>3. {r \in Refs : settlement_ledger[r].provider_status = "DELIVERED"} = {}
  BY <1>1
<1>4. [r \in Refs |-> StatusOf(settlement_ledger[r].state)] = [r \in Refs |-> "NONE"]
  BY <1>2
<1>5. QED
  BY <1>3, <1>4 DEF Lifecycle!LifecycleInit

\* A delivered transaction has been settled.
DeliveredIsSettled ==
  \A r \in Refs : settlement_ledger[r].provider_status = "DELIVERED" =>
                    settlement_ledger[r].state = "SETTLED"

LEMMA RefinementStep ==
  ASSUME DeliveredIsSettled, NEW r \in Refs, LedgerStep(r)
  PROVE  Lifecycle!LifecycleNext \/ UNCHANGED <<StatusView, DeliveredView>>
<1> DEFINE Goal == Lifecycle!LifecycleNext \/ UNCHANGED <<StatusView, DeliveredView>>
<1> USE DEF StatusView, DeliveredView
<1>o. OtherLedgersUnchanged(r)
  BY DEF LedgerStep
<1>s. StatusView' = [StatusView EXCEPT ![r] = StatusOf(settlement_ledger'[r].state)]
  BY <1>o, ViewOfChange
<1>1. ASSUME LedgerCreated(r)
      PROVE  Goal
  <2>1. /\ StatusView[r] = "NONE" /\ StatusView' = [StatusView EXCEPT ![r] = "OPEN"]
    BY <1>1, <1>s DEF LedgerCreated, StatusOf, Absent
  <2>2. DeliveredView' = DeliveredView
    <3>1. /\ settlement_ledger[r].provider_status # "DELIVERED"
          /\ settlement_ledger'[r].provider_status # "DELIVERED"
      BY <1>1 DEF DeliveredIsSettled, LedgerCreated, Absent
    <3>2. QED
      BY <1>o, <3>1, DeliveredKept
  <2>3. Lifecycle!Accept(r)
    BY <2>1, <2>2 DEF Lifecycle!Accept, Lifecycle!Move
  <2>4. QED
    BY <2>3 DEF Lifecycle!LifecycleNext
<1>2. ASSUME NEW target \in LedgerStates, LedgerReconciled(r, target)
      PROVE  Goal
  <2>1. /\ CanTransition(settlement_ledger[r].state, target)
        /\ settlement_ledger'[r].provider_status = settlement_ledger[r].provider_status
    BY <1>2 DEF LedgerReconciled
  <2>2. StatusView' = [StatusView EXCEPT ![r] = StatusOf(target)]
    BY <1>2, <1>s DEF LedgerReconciled
  <2>3. DeliveredView' = DeliveredView
    BY <1>o, <2>1, DeliveredKept
  <2>4. CASE target = "PENDING"
    <3>1. StatusView[r] = StatusOf(target)
      BY <2>1, <2>4 DEF CanTransition, StatusOf, Absent
    <3>2. QED
      BY <2>2, <2>3, <3>1
  <2>5. CASE target = "SETTLED"
    <3>1. Lifecycle!Confirm(r)
      BY <2>1, <2>2, <2>3, <2>5 DEF CanTransition, StatusOf, Absent,
                                    Lifecycle!Confirm, Lifecycle!Move
    <3>2. QED
      BY <3>1 DEF Lifecycle!LifecycleNext
  <2>6. CASE target = "FAILED"
    <3>1. Lifecycle!Decline(r)
      BY <2>1, <2>2, <2>3, <2>6 DEF CanTransition, StatusOf, Absent,
                                    Lifecycle!Decline, Lifecycle!Move
    <3>2. QED
      BY <3>1 DEF Lifecycle!LifecycleNext
  <2>7. CASE target = "UNKNOWN"
    <3>1. Lifecycle!GiveUp(r)
      BY <2>1, <2>2, <2>3, <2>7 DEF CanTransition, StatusOf, Absent,
                                    Lifecycle!GiveUp, Lifecycle!Move
    <3>2. QED
      BY <3>1 DEF Lifecycle!LifecycleNext
  <2>8. CASE target = "REVERSED"
    <3>1. Lifecycle!Reverse(r)
      BY <2>1, <2>2, <2>3, <2>8 DEF CanTransition, StatusOf, Absent,
                                    Lifecycle!Reverse, Lifecycle!Move
    <3>2. QED
      BY <3>1 DEF Lifecycle!LifecycleNext
  <2>9. target \in {"PENDING", "SETTLED", "FAILED", "UNKNOWN", "REVERSED"}
    BY <2>1 DEF CanTransition
  <2> HIDE DEF Goal
  <2>10. QED
    BY <2>4, <2>5, <2>6, <2>7, <2>8, <2>9
<1>3. ASSUME LedgerCompleted(r)
      PROVE  Goal
  <2>1. /\ StatusView[r] = "OPEN" /\ StatusView' = [StatusView EXCEPT ![r] = "SETTLED"]
        /\ DeliveredView' = DeliveredView \cup {r}
    BY <1>3, <1>o, <1>s, ViewOfChange DEF LedgerCompleted, StatusOf, Absent
  <2>2. Lifecycle!Deliver(r)
    BY <2>1 DEF Lifecycle!Deliver, Lifecycle!Move
  <2>3. QED
    BY <2>2 DEF Lifecycle!LifecycleNext
<1>4. ASSUME NEW workflow \in {"RETRY_SCHEDULED", "FAILED", "UNKNOWN"},
             LedgerFailed(r, workflow)
      PROVE  Goal
  <2>1. /\ settlement_ledger[r].state \in {"INITIATED", "PENDING"}
        /\ settlement_ledger'[r].state = LedgerStateAfter(workflow)
        /\ settlement_ledger'[r].provider_status =
             CASE workflow = "FAILED"  -> "DECLINED"
               [] workflow = "UNKNOWN" -> "TIMEOUT"
               [] OTHER -> settlement_ledger[r].provider_status
    BY <1>4 DEF LedgerFailed
  <2>2. /\ StatusView[r] = "OPEN"
        /\ StatusView' = [StatusView EXCEPT ![r] = StatusOf(LedgerStateAfter(workflow))]
    BY <1>s, <2>1 DEF StatusOf, Absent
  <2>3. DeliveredView' = DeliveredView
    <3>1. settlement_ledger[r].provider_status # "DELIVERED"
      BY <2>1 DEF DeliveredIsSettled
    <3>2. settlement_ledger'[r].provider_status # "DELIVERED"
      BY <2>1, <3>1
    <3>3. QED
      BY <1>o, <3>1, <3>2, DeliveredKept
  <2>4. CASE workflow = "RETRY_SCHEDULED"
    <3>1. StatusView' = StatusView
      BY <2>1, <2>2, <2>4 DEF StatusOf, LedgerStateAfter, Absent
    <3>2. QED
      BY <2>3, <3>1
  <2>5. CASE workflow = "FAILED"
    <3>1. Lifecycle!Decline(r)
      BY <2>1, <2>2, <2>3, <2>5 DEF StatusOf, LedgerStateAfter, Absent,
                                    Lifecycle!Decline, Lifecycle!Move
    <3>2. QED
      BY <3>1 DEF Lifecycle!LifecycleNext
  <2>6. CASE workflow = "UNKNOWN"
    <3>1. Lifecycle!GiveUp(r)
      BY <2>1, <2>2, <2>3, <2>6 DEF StatusOf, LedgerStateAfter, Absent,
                                    Lifecycle!GiveUp, Lifecycle!Move
    <3>2. QED
      BY <3>1 DEF Lifecycle!LifecycleNext
  <2>7. QED
    BY <2>4, <2>5, <2>6
<1>5. QED
  BY <1>1, <1>2, <1>3, <1>4 DEF LedgerStep

\* What a client sees of its transaction follows the promised lifecycle,
\* whatever workers, retries, callbacks, operators and faults do behind it.
THEOREM StoreImplementsLifecycle == Spec => ImplementsLifecycle
<1>1. TypeOK /\ OutboxAgreesWithLedger /\ [Next]_vars
        => [Lifecycle!LifecycleNext]_<<StatusView, DeliveredView>>
  BY RefinementStep, LedgerCases
  DEF OutboxAgreesWithLedger, DeliveredIsSettled, StatusView, DeliveredView
<1>2. QED
  BY <1>1, RefinementInit, TypeCorrect, OutboxAndLedgerAgree, PTL
  DEF Spec, ImplementsLifecycle, Lifecycle!LifecycleSpec, StatusView, DeliveredView

-----------------------------------------------------------------------------
(***************************************************************************)
(* The outbox and the workers as a queue of work.                          *)
(***************************************************************************)

HeldView     == [w \in Workers |-> Held(w)]
AttemptsView == [r \in Refs |-> outbox_events[r].attempt_count]
LostView     == {r \in RowsIn("PROCESSING") : \A w \in Workers : r \notin Held(w)}
QueueView ==
  <<RowsIn("PENDING"), HeldView, AttemptsView, RowsIn("SENT"), RowsIn("FAILED"), LostView>>

\* What the proofs below know of a state.
QueueFacts == TypeOK /\ ExclusiveClaim /\ AttemptsCounted /\ OutboxAgreesWithLedger

\* A row in the hands of a worker is PROCESSING.
LEMMA HeldIsProcessing ==
  ASSUME QueueFacts, NEW w \in Workers, NEW r \in Held(w)
  PROVE  r \in RowsIn("PROCESSING")
BY DEF QueueFacts, TypeOK, OutboxEvent, ExclusiveClaim, Held, RowsIn

\* A worker that forgets one event lets go of its row, and nobody else holds it.
LEMMA HeldAfterForget ==
  ASSUME QueueFacts, NEW w \in Workers, NEW ev \in batch[w],
         batch' = [batch EXCEPT ![w] = @ \ {ev}]
  PROVE  /\ ev.ref \in Held(w)
         /\ HeldView' = [HeldView EXCEPT ![w] = Held(w) \ {ev.ref}]
         /\ \A v \in Workers \ {w} : ev.ref \notin Held(v)
<1>1. ev.ref \in Held(w)
  BY DEF Held
<1>2. \A e \in batch[w] : e.ref = ev.ref => e = ev
  BY OneOwner DEF QueueFacts
<1>3. batch'[w] = batch[w] \ {ev} /\ \A v \in Workers \ {w} : batch'[v] = batch[v]
  BY DEF QueueFacts, TypeOK
<1>4. Held(w)' = Held(w) \ {ev.ref}
  BY <1>2, <1>3 DEF Held
<1>5. \A v \in Workers \ {w} : Held(v)' = Held(v)
  BY <1>3 DEF Held
<1>6. \A v \in Workers \ {w} : ev.ref \notin Held(v)
  BY OneOwner DEF QueueFacts, Held
<1>7. QED
  BY <1>1, <1>4, <1>5, <1>6 DEF HeldView

\* The sets of rows after one row has gone from one state to another.
LEMMA RowsAfterMove ==
  ASSUME NEW r \in Refs, OthersUnchanged(r), NEW state
  PROVE  RowsIn(state)' = IF outbox_events'[r].state = state
                          THEN RowsIn(state) \cup {r} ELSE RowsIn(state) \ {r}
BY DEF RowsIn, OthersUnchanged

LEMMA AttemptsAfterMove ==
  ASSUME NEW r \in Refs, OthersUnchanged(r)
  PROVE  AttemptsView' = [AttemptsView EXCEPT ![r] = outbox_events'[r].attempt_count]
BY DEF AttemptsView, OthersUnchanged

\* An outcome leaves the lost rows lost and loses no other.
LEMMA LostAfterOutcome ==
  ASSUME QueueFacts, NEW w \in Workers, NEW ev \in batch[w], ev.ref \in Refs,
         OthersUnchanged(ev.ref), batch' = [batch EXCEPT ![w] = @ \ {ev}],
         outbox_events'[ev.ref].state # "PROCESSING"
  PROVE  LostView' = LostView
<1>1. /\ ev.ref \in Held(w)
      /\ Held(w)' = Held(w) \ {ev.ref}
      /\ \A v \in Workers \ {w} : Held(v)' = Held(v) /\ ev.ref \notin Held(v)
  BY HeldAfterForget DEF HeldView
<1>2. RowsIn("PROCESSING")' = RowsIn("PROCESSING") \ {ev.ref}
  BY RowsAfterMove
<1>3. QED
  BY <1>1, <1>2 DEF LostView

LEMMA QueueStart == Init => Queue!QueueInit
<1> SUFFICES ASSUME Init
             PROVE  Queue!QueueInit
  OBVIOUS
<1>1. \A r \in Refs : /\ outbox_events[r].state = Absent
                      /\ outbox_events[r].attempt_count = 0
  BY DEF Init, StoreInit, NoOutboxRow
<1>2. \A state \in OutboxStates : RowsIn(state) = {}
  BY <1>1 DEF RowsIn, OutboxStates, Absent
<1>3. \A w \in Workers : Held(w) = {}
  BY DEF Init, Held
<1>4. [w \in Workers |-> Held(w)] = [w \in Workers |-> {}]
  BY <1>3
<1>5. [r \in Refs |-> outbox_events[r].attempt_count] = [r \in Refs |-> 0]
  BY <1>1
<1>6. QED
  BY <1>2, <1>4, <1>5 DEF Queue!QueueInit, OutboxStates

\* Each operation as the queue sees it.
LEMMA CreateIsAdd ==
  ASSUME QueueFacts, NEW r \in Refs, Create(r)
  PROVE  Queue!Add(r)
<1>1. /\ OthersUnchanged(r) /\ batch' = batch
      /\ outbox_events[r].state = Absent
      /\ outbox_events'[r].state = "PENDING"
      /\ outbox_events'[r].attempt_count = 0
  BY CreateEffect DEF QueueFacts, OutboxAgreesWithLedger
<1>2. \A state \in OutboxStates : r \notin RowsIn(state)
  BY <1>1 DEF RowsIn, OutboxStates, Absent
<1>3. \A w \in Workers : r \notin Held(w)
  BY <1>2, HeldIsProcessing DEF OutboxStates
<1>4. \A w \in Workers : Held(w)' = Held(w)
  BY <1>1 DEF Held
<1>5. /\ RowsIn("PENDING")' = RowsIn("PENDING") \cup {r}
      /\ RowsIn("PROCESSING")' = RowsIn("PROCESSING")
      /\ RowsIn("SENT")' = RowsIn("SENT")
      /\ RowsIn("FAILED")' = RowsIn("FAILED")
  BY <1>1 DEF RowsIn, OthersUnchanged, Absent
<1>6. AttemptsView' = [AttemptsView EXCEPT ![r] = 0]
  BY <1>1, AttemptsAfterMove
<1>7. LostView' = LostView /\ HeldView' = HeldView /\ r \notin LostView
  BY <1>2, <1>4, <1>5 DEF LostView, HeldView, OutboxStates
<1>8. Queue!Fresh(r)
  BY <1>2, <1>3, <1>7 DEF Queue!Fresh, LostView, OutboxStates
<1>9. QED
  BY <1>5, <1>6, <1>7, <1>8 DEF Queue!Add, HeldView, AttemptsView, LostView

\* A claim that finds nothing ready is no step.
LEMMA ClaimTakesSomething ==
  ASSUME TypeOK, NEW w \in Workers, ClaimReadyEvents(w)
  PROVE  batch'[w] # {}
<1>1. PICK claimed :
        /\ claimed # {}
        /\ batch' = [batch EXCEPT ![w] =
             {[ref |-> r, attempt_count |-> outbox_events[r].attempt_count] :
                r \in claimed}]
  BY DEF ClaimReadyEvents, Claim
<1>2. QED
  BY <1>1 DEF TypeOK

LEMMA ClaimIsHandOut ==
  ASSUME QueueFacts, NEW w \in Workers, ClaimReadyEvents(w)
  PROVE  \E items \in SUBSET RowsIn("PENDING") : Queue!HandOut(w, items)
<1>1. PICK claimed \in SUBSET Refs :
         /\ settlement_ledger' = settlement_ledger
         /\ transaction_events' = transaction_events
         /\ \A r \in claimed :
              /\ outbox_events[r].state = "PENDING"
              /\ outbox_events'[r].state = "PROCESSING"
              /\ outbox_events'[r].attempt_count = outbox_events[r].attempt_count
         /\ \A r \in Refs \ claimed : outbox_events'[r] = outbox_events[r]
         /\ batch[w] = {}
         /\ batch' = [batch EXCEPT ![w] =
              {[ref |-> r, attempt_count |-> outbox_events[r].attempt_count] :
                 r \in claimed}]
  BY ClaimEffect DEF QueueFacts
<1>2. Held(w) = {} /\ Held(w)' = claimed
  <2>1. batch'[w] =
          {[ref |-> r, attempt_count |-> outbox_events[r].attempt_count] : r \in claimed}
    BY <1>1 DEF QueueFacts, TypeOK
  <2>2. ASSUME NEW r \in claimed
        PROVE  r \in Held(w)'
    <3> DEFINE e == [ref |-> r, attempt_count |-> outbox_events[r].attempt_count]
    <3>1. e \in batch'[w] /\ e.ref = r
      BY <2>1
    <3> HIDE DEF e
    <3>2. QED
      BY <3>1 DEF Held
  <2>3. \A ev \in batch'[w] : ev.ref \in claimed
    BY <2>1
  <2>4. QED
    BY <1>1, <2>2, <2>3 DEF Held
<1>3. \A v \in Workers \ {w} : Held(v)' = Held(v)
  BY <1>1 DEF QueueFacts, TypeOK, Held
<1>4. /\ claimed \in SUBSET RowsIn("PENDING")
      /\ RowsIn("PENDING")' = RowsIn("PENDING") \ claimed
      /\ RowsIn("PROCESSING")' = RowsIn("PROCESSING") \cup claimed
      /\ RowsIn("SENT")' = RowsIn("SENT")
      /\ RowsIn("FAILED")' = RowsIn("FAILED")
  BY <1>1 DEF RowsIn
<1>5. AttemptsView' = AttemptsView
  BY <1>1 DEF AttemptsView
<1>6. HeldView' = [HeldView EXCEPT ![w] = claimed] /\ HeldView[w] = {}
  BY <1>2, <1>3 DEF HeldView
<1>7. LostView' = LostView
  <2>1. \A r \in claimed : r \notin RowsIn("PROCESSING")
    BY <1>1 DEF RowsIn
  <2>2. QED
    BY <1>2, <1>3, <1>4, <2>1 DEF LostView
<1>8. claimed # {}
  <2>1. Held(w)' # {}
    BY ClaimTakesSomething DEF QueueFacts, Held
  <2>2. QED
    BY <1>2, <2>1
<1>9. Queue!HandOut(w, claimed)
  BY <1>4, <1>5, <1>6, <1>7, <1>8 DEF Queue!HandOut, HeldView, AttemptsView, LostView
<1>10. QED
  BY <1>4, <1>9

LEMMA CompleteIsResolve ==
  ASSUME QueueFacts, NEW w \in Workers, NEW ev \in batch[w],
         CompleteSuccessfulEvent(w, ev)
  PROVE  ev.ref \in Refs /\ Queue!Resolve(w, ev.ref)
<1> DEFINE r == ev.ref
<1>1. /\ r \in Refs /\ OthersUnchanged(r) /\ outbox_events[r].state = "PROCESSING"
      /\ outbox_events'[r].state = "SENT"
      /\ outbox_events'[r].attempt_count = outbox_events[r].attempt_count + 1
      /\ batch' = [batch EXCEPT ![w] = @ \ {ev}]
  BY CompleteEffect DEF QueueFacts, ExclusiveClaim
<1>2. /\ RowsIn("PENDING")' = RowsIn("PENDING")
      /\ RowsIn("SENT")' = RowsIn("SENT") \cup {r}
      /\ RowsIn("FAILED")' = RowsIn("FAILED")
  BY <1>1, RowsAfterMove DEF RowsIn
<1>3. /\ r \in Held(w) /\ HeldView' = [HeldView EXCEPT ![w] = Held(w) \ {r}]
      /\ LostView' = LostView
  BY <1>1, HeldAfterForget, LostAfterOutcome
<1>4. AttemptsView' = [AttemptsView EXCEPT ![r] = AttemptsView[r] + 1]
  BY <1>1, AttemptsAfterMove DEF AttemptsView
<1>5. AttemptsView[r] < MaxRetries
  BY <1>1 DEF QueueFacts, AttemptsCounted, AttemptsView
<1>6. QED
  BY <1>1, <1>2, <1>3, <1>4, <1>5
  DEF Queue!Resolve, Queue!Attempt, HeldView, AttemptsView, LostView

LEMMA FailureIsPutBackOrGiveUp ==
  ASSUME QueueFacts, NEW w \in Workers, NEW ev \in batch[w], MarkFailedAttempt(w, ev)
  PROVE  ev.ref \in Refs /\ (Queue!PutBack(w, ev.ref) \/ Queue!GiveUp(w, ev.ref))
<1> DEFINE r == ev.ref
<1>1. /\ r \in Refs /\ OthersUnchanged(r) /\ outbox_events[r].state = "PROCESSING"
      /\ outbox_events[r].attempt_count = ev.attempt_count
      /\ outbox_events'[r].attempt_count = outbox_events[r].attempt_count + 1
      /\ batch' = [batch EXCEPT ![w] = @ \ {ev}]
  BY MarkFailedEffect DEF QueueFacts, ExclusiveClaim
<1>2. PICK workflow \in {"RETRY_SCHEDULED", "FAILED", "UNKNOWN"} :
         /\ workflow = "RETRY_SCHEDULED" <=> ev.attempt_count + 1 < MaxRetries
         /\ outbox_events'[r].state =
              IF workflow = "RETRY_SCHEDULED" THEN "PENDING" ELSE "FAILED"
  BY <1>1, MarkFailedEffect DEF QueueFacts
<1>3. /\ r \in Held(w) /\ HeldView' = [HeldView EXCEPT ![w] = Held(w) \ {r}]
      /\ LostView' = LostView
  BY <1>1, <1>2, HeldAfterForget, LostAfterOutcome
<1>4. AttemptsView' = [AttemptsView EXCEPT ![r] = AttemptsView[r] + 1]
  BY <1>1, AttemptsAfterMove DEF AttemptsView
<1>5. AttemptsView[r] < MaxRetries /\ AttemptsView[r] \in Nat
  BY <1>1 DEF QueueFacts, TypeOK, OutboxRow, AttemptsCounted, AttemptsView
<1>6. /\ RowsIn("SENT")' = RowsIn("SENT")
      /\ r \notin RowsIn("PENDING") \cup RowsIn("FAILED")
  BY <1>1, <1>2, RowsAfterMove DEF RowsIn
<1>7. Queue!Attempt(w, r)
  BY <1>3, <1>4 DEF Queue!Attempt, HeldView, AttemptsView
<1>8. CASE workflow = "RETRY_SCHEDULED"
  <2>1. /\ RowsIn("PENDING")' = RowsIn("PENDING") \cup {r}
        /\ RowsIn("FAILED")' = RowsIn("FAILED")
        /\ AttemptsView[r] + 1 < MaxRetries
    BY <1>1, <1>2, <1>8 DEF RowsIn, OthersUnchanged, AttemptsView
  <2>2. Queue!PutBack(w, r)
    BY <1>3, <1>6, <1>7, <2>1 DEF Queue!PutBack, AttemptsView, LostView
  <2>3. QED
    BY <1>1, <2>2
<1>9. CASE workflow # "RETRY_SCHEDULED"
  <2>1. /\ RowsIn("PENDING")' = RowsIn("PENDING")
        /\ RowsIn("FAILED")' = RowsIn("FAILED") \cup {r}
    BY <1>1, <1>2, <1>9 DEF RowsIn, OthersUnchanged
  <2>2. AttemptsView[r] + 1 = MaxRetries
    BY <1>1, <1>2, <1>5, <1>9, MaxRetriesAssumption DEF AttemptsView
  <2>3. Queue!GiveUp(w, r)
    BY <1>3, <1>6, <1>7, <2>1, <2>2 DEF Queue!GiveUp, AttemptsView, LostView
  <2>4. QED
    BY <1>1, <2>3
<1>10. QED
  BY <1>8, <1>9

\* What is not resolved is lost: a refused event, a stopped worker, a failed
\* SQL transaction.
LEMMA DropIsLose ==
  ASSUME QueueFacts, NEW w \in Workers, NEW rest \in SUBSET batch[w],
         UNCHANGED tables, batch' = [batch EXCEPT ![w] = rest]
  PROVE  \E items \in SUBSET Held(w) : Queue!Lose(w, items)
<1> DEFINE items == {ev.ref : ev \in batch[w] \ rest}
<1>1. items \in SUBSET Held(w)
  BY DEF Held
<1>2. batch'[w] = rest /\ \A v \in Workers \ {w} : batch'[v] = batch[v]
  BY DEF QueueFacts, TypeOK
<1>3. Held(w)' = Held(w) \ items
  <2>1. \A e, f \in batch[w] : e.ref = f.ref => e = f
    BY OneOwner DEF QueueFacts
  <2>2. QED
    BY <1>2, <2>1 DEF Held
<1>4. \A v \in Workers \ {w} : Held(v)' = Held(v)
  BY <1>2 DEF Held
<1>5. \A v \in Workers \ {w} : Held(v) \cap items = {}
  BY OneOwner DEF QueueFacts, Held
<1>6. \A state \in OutboxStates : RowsIn(state)' = RowsIn(state)
  BY DEF RowsIn, tables
<1>7. items \subseteq RowsIn("PROCESSING")
  BY <1>1, HeldIsProcessing
<1> HIDE DEF items
<1>8. LostView' = LostView \cup items
  <2>1. ASSUME NEW r \in RowsIn("PROCESSING")
        PROVE  (\A v \in Workers : r \notin Held(v)')
                 <=> (\A v \in Workers : r \notin Held(v)) \/ r \in items
    BY <1>1, <1>3, <1>4, <1>5
  <2>2. QED
    BY <1>6, <1>7, <2>1 DEF LostView, OutboxStates
<1>9. HeldView' = [HeldView EXCEPT ![w] = Held(w) \ items] /\ HeldView[w] = Held(w)
  BY <1>3, <1>4 DEF HeldView
<1>10. AttemptsView' = AttemptsView
  BY DEF AttemptsView, tables
<1>11. Queue!Lose(w, items)
  BY <1>6, <1>8, <1>9, <1>10
  DEF Queue!Lose, HeldView, AttemptsView, LostView, OutboxStates
<1>12. QED
  BY <1>1, <1>11

LEMMA QueueStays ==
  ASSUME batch' = batch,
         \A r \in Refs :
           /\ outbox_events'[r].state = outbox_events[r].state
           /\ outbox_events'[r].attempt_count = outbox_events[r].attempt_count
  PROVE  UNCHANGED QueueView
<1>1. \A state \in OutboxStates : RowsIn(state)' = RowsIn(state)
  BY DEF RowsIn
<1>2. \A w \in Workers : Held(w)' = Held(w)
  BY DEF Held
<1>3. QED
  BY <1>1, <1>2 DEF QueueView, HeldView, AttemptsView, LostView, OutboxStates

LEMMA QueueStep ==
  ASSUME QueueFacts, [Next]_vars
  PROVE  Queue!QueueNext \/ UNCHANGED QueueView
<1>t. TypeOK
  BY DEF QueueFacts
<1>1. ASSUME NEW r \in Refs, Create(r)
      PROVE  Queue!QueueNext
  BY <1>1, CreateIsAdd DEF Queue!QueueNext
<1>2. ASSUME NEW r \in Refs, TxReconcile(r) \/ MTNCollectionCallback(r)
      PROVE  UNCHANGED QueueView
  <2>1. batch' = batch /\ outbox_events' = outbox_events
    BY <1>t, <1>2, ReconcileEffect
  <2>2. QED
    BY <2>1, QueueStays
<1>3. ASSUME NEW r \in Refs, BackoffElapses(r)
      PROVE  UNCHANGED QueueView
  BY <1>t, <1>3, BackoffEffect, QueueStays
<1>4. ASSUME NEW w \in Workers, ClaimReadyEvents(w)
      PROVE  Queue!QueueNext
  BY <1>4, ClaimIsHandOut DEF Queue!QueueNext
<1>5. ASSUME NEW w \in Workers, NEW ev \in batch[w], CompleteSuccessfulEvent(w, ev)
      PROVE  Queue!QueueNext
  BY <1>5, CompleteIsResolve DEF Queue!QueueNext
<1>6. ASSUME NEW w \in Workers, NEW ev \in batch[w], MarkFailedAttempt(w, ev)
      PROVE  Queue!QueueNext
  BY <1>6, FailureIsPutBackOrGiveUp DEF Queue!QueueNext
<1>7. CASE Dropped
  <2>1. ASSUME UNCHANGED tables, batch' = batch
        PROVE  UNCHANGED QueueView
    BY <2>1, QueueStays DEF tables
  <2>2. ASSUME UNCHANGED tables, NEW w \in Workers, NEW rest \in SUBSET batch[w],
               batch' = [batch EXCEPT ![w] = rest]
        PROVE  Queue!QueueNext
    <3>1. HeldView[w] = Held(w)
      BY DEF HeldView
    <3>2. QED
      BY <2>2, <3>1, DropIsLose DEF Queue!QueueNext, HeldView
  <2>3. QED
    BY <1>7, <2>1, <2>2 DEF Dropped
<1>8. QED
  BY <1>t, <1>1, <1>2, <1>3, <1>4, <1>5, <1>6, <1>7, NextCases

\* The outbox and any number of workers, which claim, resolve, retry, stop and
\* fail as they will, are one queue of work: a row is in one pair of hands, is
\* handed out max_retries times at most and never after its outcome.
THEOREM OutboxImplementsQueue == Spec => ImplementsQueue
<1>1. QueueFacts /\ [Next]_vars => [Queue!QueueNext]_QueueView
  BY QueueStep
<1>2. QED
  BY <1>1, QueueStart, TypeCorrect, ClaimsAreExclusive, AttemptsAreCounted,
     OutboxAndLedgerAgree, PTL
  DEF Spec, QueueFacts, ImplementsQueue, Queue!QueueSpec, Queue!queue, QueueView,
      HeldView, AttemptsView, LostView

=============================================================================
