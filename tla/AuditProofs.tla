---------------------------- MODULE AuditProofs -----------------------------
(***************************************************************************)
(* Theorems about the audit trail: it explains the ledger row, it counts   *)
(* the attempts, and it ends with the first final state.                   *)
(***************************************************************************)
EXTENDS OutboxWorkerProofs, FiniteSetTheorems

USE MaxRetriesAssumption

-----------------------------------------------------------------------------
(***************************************************************************)
(* Final states are final.                                                 *)
(***************************************************************************)

LEMMA FinalStep ==
  ASSUME NEW q \in Refs, LedgerStep(q), NEW r \in Refs,
         settlement_ledger[r].state \in FinalStates
  PROVE  /\ settlement_ledger'[r] = settlement_ledger[r]
         /\ transaction_events'[r] = transaction_events[r]
<1>1. q # r
  BY DEF LedgerStep, LedgerCreated, LedgerReconciled, LedgerCompleted, LedgerFailed,
         FinalStates, Absent, CanTransition
<1>2. QED
  BY <1>1 DEF LedgerStep, OtherLedgersUnchanged

\* No callback, operator or worker, however late or repeated, changes the row
\* or the audit trail of a SETTLED, FAILED or REVERSED transaction (canTransition
\* and the state checks of the two outcomes).
THEOREM FinalStatesAreFinal == Spec => FinalIsFinal
<1>1. TypeOK /\ [Next]_vars =>
        [\A r \in Refs : settlement_ledger[r].state \in FinalStates =>
           /\ settlement_ledger'[r] = settlement_ledger[r]
           /\ transaction_events'[r] = transaction_events[r]]_vars
  BY FinalStep, LedgerCases
<1>2. QED
  BY <1>1, TypeCorrect, PTL DEF Spec, FinalIsFinal

-----------------------------------------------------------------------------
(***************************************************************************)
(* attempt_count counts the outcomes of the audit trail.                   *)
(***************************************************************************)

\* The positions of the outcomes in a trail.
Outcomes(trail) == {i \in DOMAIN trail : IsOutcome(trail[i])}

LEMMA OutcomesAppend ==
  ASSUME NEW trail \in Seq(Event), NEW e \in Event
  PROVE  /\ Cardinality(Outcomes(trail)) \in Nat
         /\ IsOutcome(e) => Cardinality(Outcomes(Append(trail, e)))
                              = Cardinality(Outcomes(trail)) + 1
         /\ ~IsOutcome(e) => Cardinality(Outcomes(Append(trail, e)))
                              = Cardinality(Outcomes(trail))
<1>1. IsFiniteSet(Outcomes(trail))
  <2>1. IsFiniteSet(1..Len(trail))
    BY FS_Interval
  <2>2. Outcomes(trail) \subseteq 1..Len(trail)
    BY DEF Outcomes
  <2>3. QED
    BY <2>1, <2>2, FS_Subset
<1>2. /\ Len(trail) + 1 \notin Outcomes(trail)
      /\ DOMAIN Append(trail, e) = DOMAIN trail \cup {Len(trail) + 1}
      /\ \A i \in DOMAIN trail : Append(trail, e)[i] = trail[i]
      /\ Append(trail, e)[Len(trail) + 1] = e
  BY DEF Outcomes
<1>3. CASE IsOutcome(e)
  <2>1. Outcomes(Append(trail, e)) = Outcomes(trail) \cup {Len(trail) + 1}
    BY <1>2, <1>3 DEF Outcomes
  <2>2. QED
    BY <1>1, <1>2, <1>3, <2>1, FS_AddElement, FS_CardinalityType
<1>4. CASE ~IsOutcome(e)
  <2>1. Outcomes(Append(trail, e)) = Outcomes(trail)
    BY <1>2, <1>4 DEF Outcomes
  <2>2. QED
    BY <1>1, <1>4, <2>1, FS_CardinalityType
<1>5. QED
  BY <1>3, <1>4

\* AttemptsCounted for one reference.
Counted(ob, trail) ==
  /\ ob.attempt_count = Cardinality(Outcomes(trail))
  /\ ob.attempt_count <= MaxRetries
  /\ ob.state \in {"PENDING", "PROCESSING"} => ob.attempt_count < MaxRetries

LEMMA CountedByRow ==
  AttemptsCounted <=> \A r \in Refs : Counted(outbox_events[r], transaction_events[r])
BY DEF AttemptsCounted, Counted, Outcomes

LEMMA CountedByRowNext ==
  AttemptsCounted' <=> \A r \in Refs : Counted(outbox_events'[r], transaction_events'[r])
BY DEF AttemptsCounted, Counted, Outcomes

LEMMA CountedAt ==
  ASSUME AttemptsCounted, NEW r \in Refs, OthersUnchanged(r),
         Counted(outbox_events'[r], transaction_events'[r])
  PROVE  AttemptsCounted'
BY CountedByRow, CountedByRowNext DEF OthersUnchanged

LEMMA CountedInit == Init => AttemptsCounted
<1>1. Cardinality({}) = 0
  BY FS_EmptySet
<1>2. ASSUME Init, NEW r \in Refs
      PROVE  Counted(outbox_events[r], transaction_events[r])
  <2>1. /\ outbox_events[r].attempt_count = 0 /\ outbox_events[r].state = "ABSENT"
        /\ transaction_events[r] = <<>>
    BY <1>2 DEF Init, StoreInit, NoOutboxRow, Absent
  <2>2. Outcomes(transaction_events[r]) = {}
    BY <2>1 DEF Outcomes
  <2>3. QED
    <3>1. Cardinality(Outcomes(transaction_events[r])) = 0
      BY <1>1, <2>2
    <3>2. 0 <= MaxRetries
      OBVIOUS
    <3>3. QED
      BY <2>1, <3>1, <3>2 DEF Counted
<1>3. QED
  BY <1>2, CountedByRow

LEMMA CountedNext ==
  TypeOK /\ ExclusiveClaim /\ AttemptsCounted /\ [Next]_vars => AttemptsCounted'
<1> SUFFICES ASSUME TypeOK, ExclusiveClaim, AttemptsCounted, [Next]_vars
             PROVE  AttemptsCounted'
  OBVIOUS
<1>a. \A r \in Refs : Counted(outbox_events[r], transaction_events[r])
  BY CountedByRow
<1>t. \A r \in Refs : transaction_events[r] \in Seq(Event)
  BY DEF TypeOK
<1>1. ASSUME NEW r \in Refs, Create(r)
      PROVE  AttemptsCounted'
  <2>1. Outcomes(<<AuditEvent("INITIATED", "api")>>) = {}
    BY DEF Outcomes, IsOutcome, AuditEvent
  <2>2. Cardinality({}) = 0
    BY FS_EmptySet
  <2>3. Counted(outbox_events'[r], transaction_events'[r])
    <3>1. /\ outbox_events'[r].attempt_count = 0
          /\ transaction_events'[r] = <<AuditEvent("INITIATED", "api")>>
      BY <1>1, CreateEffect
    <3>2. Cardinality(Outcomes(transaction_events'[r])) = 0
      BY <2>1, <2>2, <3>1
    <3>3. QED
      BY <3>1, <3>2 DEF Counted
  <2>4. QED
    BY <1>1, <2>3, CreateEffect, CountedAt
<1>2. ASSUME NEW r \in Refs, TxReconcile(r) \/ MTNCollectionCallback(r)
      PROVE  AttemptsCounted'
  <2>1. PICK target \in LedgerStates :
           /\ OthersUnchanged(r)
           /\ transaction_events'[r] =
                Append(transaction_events[r], AuditEvent(target, "manual-reconcile"))
           /\ outbox_events' = outbox_events
    BY <1>2, ReconcileEffect
  <2>2. /\ AuditEvent(target, "manual-reconcile") \in Event
        /\ ~IsOutcome(AuditEvent(target, "manual-reconcile"))
    BY DEF AuditEvent, Event, WorkflowStates, Sources, IsOutcome
  <2>3. Counted(outbox_events'[r], transaction_events'[r])
    BY <1>a, <1>t, <2>1, <2>2, OutcomesAppend DEF Counted
  <2>4. QED
    BY <2>1, <2>3, CountedAt
<1>3. ASSUME NEW r \in Refs, BackoffElapses(r)
      PROVE  AttemptsCounted'
  BY <1>3, <1>a, BackoffEffect, CountedByRowNext DEF Counted
<1>4. ASSUME NEW w \in Workers, ClaimReadyEvents(w)
      PROVE  AttemptsCounted'
  <2>1. PICK claimed \in SUBSET Refs :
           /\ transaction_events' = transaction_events
           /\ \A r \in claimed :
                /\ outbox_events[r].state = "PENDING"
                /\ outbox_events'[r].attempt_count = outbox_events[r].attempt_count
           /\ \A r \in Refs \ claimed : outbox_events'[r] = outbox_events[r]
    BY <1>4, ClaimEffect
  <2>2. \A r \in Refs : Counted(outbox_events'[r], transaction_events'[r])
    BY <1>a, <2>1 DEF Counted
  <2>3. QED
    BY <2>2, CountedByRowNext
<1>5. ASSUME NEW w \in Workers, NEW ev \in batch[w], CompleteSuccessfulEvent(w, ev)
      PROVE  AttemptsCounted'
  <2> DEFINE r == ev.ref
             pending == AuditEvent("PENDING", "outbox-worker")
             settled == AuditEvent("SETTLED", "provider-simulator")
  <2>1. /\ outbox_events[r].state = "PROCESSING" /\ r \in Refs
        /\ outbox_events[r].attempt_count \in Nat
    BY <1>5, CompleteEffect DEF ExclusiveClaim, TypeOK, OutboxRow
  <2>2. pending \in Event /\ settled \in Event /\ ~IsOutcome(pending) /\ IsOutcome(settled)
    BY DEF AuditEvent, Event, WorkflowStates, LedgerStates, Sources, IsOutcome
  <2>3. /\ transaction_events'[r] = Append(Append(transaction_events[r], pending), settled)
        /\ outbox_events'[r].state = "SENT"
        /\ outbox_events'[r].attempt_count = outbox_events[r].attempt_count + 1
    BY <1>5, <2>1, CompleteEffect
  <2> HIDE DEF pending, settled
  <2>4. Cardinality(Outcomes(transaction_events'[r]))
          = Cardinality(Outcomes(transaction_events[r])) + 1
    <3>1. Append(transaction_events[r], pending) \in Seq(Event)
      BY <1>t, <2>1, <2>2
    <3>2. QED
      BY <1>t, <2>1, <2>2, <2>3, <3>1, OutcomesAppend
  <2>5. Counted(outbox_events'[r], transaction_events'[r])
    BY <1>a, <2>1, <2>3, <2>4 DEF Counted
  <2>6. QED
    BY <1>5, <2>1, <2>5, CompleteEffect, CountedAt
<1>6. ASSUME NEW w \in Workers, NEW ev \in batch[w], MarkFailedAttempt(w, ev)
      PROVE  AttemptsCounted'
  <2> DEFINE r == ev.ref
  <2>1. /\ outbox_events[r].state = "PROCESSING" /\ r \in Refs
        /\ outbox_events[r].attempt_count = ev.attempt_count
        /\ ev.attempt_count \in Nat
    BY <1>6, MarkFailedEffect DEF ExclusiveClaim, TypeOK, OutboxEvent
  <2>2. PICK workflow \in {"RETRY_SCHEDULED", "FAILED", "UNKNOWN"} :
           /\ workflow = "RETRY_SCHEDULED" <=> ev.attempt_count + 1 < MaxRetries
           /\ transaction_events'[r] =
                Append(transaction_events[r], AuditEvent(workflow, "outbox-worker"))
           /\ outbox_events'[r].state =
                IF workflow = "RETRY_SCHEDULED" THEN "PENDING" ELSE "FAILED"
    BY <1>6, <2>1, MarkFailedEffect
  <2>3. outbox_events'[r].attempt_count = ev.attempt_count + 1
    BY <1>6, <2>1, MarkFailedEffect
  <2>4. /\ AuditEvent(workflow, "outbox-worker") \in Event
        /\ IsOutcome(AuditEvent(workflow, "outbox-worker"))
    BY DEF AuditEvent, Event, WorkflowStates, LedgerStates, Sources, IsOutcome
  <2>5. Cardinality(Outcomes(transaction_events'[r]))
          = Cardinality(Outcomes(transaction_events[r])) + 1
    BY <1>t, <2>1, <2>2, <2>4, OutcomesAppend
  <2>6. ev.attempt_count < MaxRetries
    BY <1>a, <2>1 DEF Counted
  <2>7. Counted(outbox_events'[r], transaction_events'[r])
    BY <1>a, <2>1, <2>2, <2>3, <2>5, <2>6 DEF Counted
  <2>8. QED
    BY <1>6, <2>1, <2>7, MarkFailedEffect, CountedAt
<1>7. CASE Dropped
  BY <1>7 DEF AttemptsCounted, Dropped, tables
<1>8. QED
  BY <1>1, <1>2, <1>3, <1>4, <1>5, <1>6, <1>7, NextCases

\* Although the outcome of an attempt is computed from the copy of attempt_count
\* a worker took at its claim, no attempt is lost, counted twice or made beyond
\* max_retries.
THEOREM AttemptsAreCounted == Spec => []AttemptsCounted
BY CountedInit, CountedNext, TypeCorrect, ClaimsAreExclusive, PTL DEF Spec

-----------------------------------------------------------------------------
(***************************************************************************)
(* The audit trail explains the row.                                       *)
(***************************************************************************)

\* AuditTrail for one reference.
Explains(trail, row) ==
  /\ row.version = Len(trail)
  /\ row.state # Absent =>
       /\ trail # <<>>
       /\ trail[1] = AuditEvent("INITIATED", "api")
       /\ row.state = LedgerStateAfter(trail[Len(trail)].workflow_state)
  /\ \A i \in 1..(Len(trail) - 1) : LegalStep(trail[i], trail[i + 1])
  /\ row.recon_status = "RECONCILED" <=>
       \E i \in DOMAIN trail : trail[i].event_source = "manual-reconcile"

LEMMA ExplainsByRow ==
  /\ AuditTrail <=> \A r \in Refs : Explains(transaction_events[r], settlement_ledger[r])
  /\ AuditTrail' <=> \A r \in Refs : Explains(transaction_events'[r], settlement_ledger'[r])
BY DEF AuditTrail, Explains

LEMMA ExplainsAt ==
  ASSUME AuditTrail, NEW r \in Refs, OtherLedgersUnchanged(r),
         Explains(transaction_events'[r], settlement_ledger'[r])
  PROVE  AuditTrail'
BY ExplainsByRow DEF OtherLedgersUnchanged

\* One more event, legal after the last one, explains the row that it leaves.
LEMMA ExplainsAppend ==
  ASSUME NEW trail \in Seq(Event), NEW e \in Event, NEW row, NEW new,
         Explains(trail, row), row.state # Absent,
         \A last \in Event :
           LedgerStateAfter(last.workflow_state) = row.state /\ last = trail[Len(trail)]
             => LegalStep(last, e),
         new.version = row.version + 1,
         new.state = LedgerStateAfter(e.workflow_state),
         IF e.event_source = "manual-reconcile"
         THEN new.recon_status = "RECONCILED"
         ELSE new.recon_status = row.recon_status
  PROVE  Explains(Append(trail, e), new)
<1> DEFINE n == Len(trail)
           longer == Append(trail, e)
<1>1. /\ n \in Nat \ {0} /\ trail[n] \in Event
      /\ trail[1] = AuditEvent("INITIATED", "api")
      /\ LedgerStateAfter(trail[n].workflow_state) = row.state
  BY DEF Explains
<1>2. /\ Len(longer) = n + 1 /\ longer[n + 1] = e /\ longer # <<>>
      /\ \A i \in 1..n : longer[i] = trail[i]
      /\ DOMAIN trail = 1..n /\ DOMAIN longer = 1..(n + 1)
  BY <1>1
<1> HIDE DEF n, longer
<1>3. new.version = Len(longer)
  BY <1>2 DEF Explains, n
<1>4. /\ longer # <<>>
      /\ longer[1] = AuditEvent("INITIATED", "api")
      /\ new.state = LedgerStateAfter(longer[Len(longer)].workflow_state)
  BY <1>1, <1>2
<1>5. ASSUME NEW i \in 1..(Len(longer) - 1)
      PROVE  LegalStep(longer[i], longer[i + 1])
  <2>1. i \in 1..n
    BY <1>1, <1>2
  <2>2. CASE i < n
    <3>1. i \in 1..(n - 1) /\ i + 1 \in 1..n
      BY <1>1, <2>1, <2>2
    <3>2. longer[i] = trail[i] /\ longer[i + 1] = trail[i + 1]
      BY <1>2, <2>1, <3>1
    <3>3. QED
      BY <3>1, <3>2 DEF Explains, n
  <2>3. CASE i = n
    BY <1>1, <1>2, <2>1, <2>3 DEF n
  <2>4. QED
    BY <1>1, <2>1, <2>2, <2>3
<1>6. new.recon_status = "RECONCILED" <=>
        \E i \in DOMAIN longer : longer[i].event_source = "manual-reconcile"
  <2>1. (\E i \in DOMAIN longer : longer[i].event_source = "manual-reconcile")
          <=> \/ \E i \in DOMAIN trail : trail[i].event_source = "manual-reconcile"
              \/ e.event_source = "manual-reconcile"
    <3>1. \A i \in DOMAIN longer : i \in DOMAIN trail \/ i = n + 1
      BY <1>1, <1>2
    <3>2. DOMAIN trail \subseteq DOMAIN longer /\ n + 1 \in DOMAIN longer
      BY <1>1, <1>2
    <3>3. QED
      BY <1>2, <3>1, <3>2
  <2>2. row.recon_status = "RECONCILED" <=>
          \E i \in DOMAIN trail : trail[i].event_source = "manual-reconcile"
    BY DEF Explains
  <2>3. QED
    BY <2>1, <2>2
<1>7. QED
  BY <1>3, <1>4, <1>5, <1>6 DEF Explains, longer

LEMMA AuditInit == Init => AuditTrail
<1>1. ASSUME Init, NEW r \in Refs
      PROVE  Explains(transaction_events[r], settlement_ledger[r])
  <2>1. /\ settlement_ledger[r].version = 0
        /\ settlement_ledger[r].state = Absent
        /\ settlement_ledger[r].recon_status = "UNRECONCILED"
        /\ transaction_events[r] = <<>>
    BY <1>1 DEF Init, StoreInit, NoLedgerRow
  <2>2. QED
    BY <2>1 DEF Explains
<1>2. QED
  BY <1>1, ExplainsByRow

LEMMA AuditStep ==
  ASSUME TypeOK, AuditTrail, NEW r \in Refs, LedgerStep(r)
  PROVE  AuditTrail'
<1> DEFINE row   == settlement_ledger[r]
           trail == transaction_events[r]
           new   == settlement_ledger'[r]
<1>a. Explains(trail, row) /\ trail \in Seq(Event) /\ row \in LedgerRow
  BY ExplainsByRow DEF TypeOK
<1>1. ASSUME LedgerCreated(r)
      PROVE  Explains(transaction_events'[r], new)
  <2> DEFINE created == AuditEvent("INITIATED", "api")
  <2>1. /\ new.version = 1 /\ new.state = "INITIATED"
        /\ new.recon_status = "UNRECONCILED"
        /\ transaction_events'[r] = <<created>>
    BY <1>1 DEF LedgerCreated
  <2>2. created.event_source = "api" /\ created.workflow_state = "INITIATED"
    BY DEF AuditEvent
  <2> HIDE DEF created
  <2>3. /\ Len(<<created>>) = 1 /\ <<created>>[1] = created
        /\ DOMAIN <<created>> = {1} /\ <<created>> # <<>>
    OBVIOUS
  <2>4. QED
    BY <2>1, <2>2, <2>3 DEF Explains, LedgerStateAfter, created
<1>2. ASSUME NEW target \in LedgerStates, LedgerReconciled(r, target)
      PROVE  Explains(transaction_events'[r], new)
  <2> DEFINE e == AuditEvent(target, "manual-reconcile")
  <2>1. /\ CanTransition(row.state, target)
        /\ new.state = target /\ new.recon_status = "RECONCILED"
        /\ new.version = row.version + 1
        /\ transaction_events'[r] = Append(trail, e)
    BY <1>2 DEF LedgerReconciled
  <2>2. /\ e \in Event /\ e.event_source = "manual-reconcile"
        /\ LedgerStateAfter(e.workflow_state) = target
    BY DEF AuditEvent, Event, WorkflowStates, Sources, LedgerStateAfter, LedgerStates
  <2>3. row.state # Absent
    BY <2>1 DEF CanTransition, Absent
  <2>4. \A last \in Event :
          LedgerStateAfter(last.workflow_state) = row.state => LegalStep(last, e)
    BY <2>1, <2>2 DEF LegalStep
  <2> HIDE DEF e, row, trail, new
  <2>5. QED
    BY <1>a, <2>1, <2>2, <2>3, <2>4, ExplainsAppend
<1>3. ASSUME LedgerCompleted(r)
      PROVE  Explains(transaction_events'[r], new)
  <2> DEFINE pending == AuditEvent("PENDING", "outbox-worker")
             settled == AuditEvent("SETTLED", "provider-simulator")
             between == [row EXCEPT !.state = "PENDING", !.version = row.version + 1]
             soFar   == Append(trail, pending)
  <2>1. /\ row.state = "INITIATED" /\ new.state = "SETTLED"
        /\ new.recon_status = row.recon_status
        /\ new.version = row.version + 2
        /\ transaction_events'[r] = Append(soFar, settled)
    BY <1>3 DEF LedgerCompleted
  <2>2. /\ pending \in Event /\ settled \in Event
        /\ pending.event_source = "outbox-worker" /\ pending.workflow_state = "PENDING"
        /\ settled.event_source = "provider-simulator" /\ settled.workflow_state = "SETTLED"
    BY DEF AuditEvent, Event, WorkflowStates, LedgerStates, Sources
  <2>3. /\ between.state = "PENDING" /\ between.version = row.version + 1
        /\ between.recon_status = row.recon_status
        /\ row.version \in Nat
    BY <1>a, <2>1 DEF LedgerRow
  <2>4. Explains(soFar, between)
    <3>1. \A last \in Event :
            LedgerStateAfter(last.workflow_state) = row.state => LegalStep(last, pending)
      BY <2>1, <2>2 DEF LegalStep
    <3>2. LedgerStateAfter(pending.workflow_state) = "PENDING" /\ row.state # Absent
      BY <2>1, <2>2 DEF LedgerStateAfter, Absent
    <3> HIDE DEF row, trail, pending, between
    <3>3. QED
      BY <1>a, <2>2, <2>3, <3>1, <3>2, ExplainsAppend
  <2>5. soFar \in Seq(Event) /\ soFar[Len(soFar)] = pending
    BY <1>a, <2>2
  <2>6. LegalStep(pending, settled) /\ LedgerStateAfter(settled.workflow_state) = "SETTLED"
    BY <2>2 DEF LegalStep, LedgerStateAfter
  <2>7. /\ between.state # Absent /\ new.version = between.version + 1
        /\ settled.event_source # "manual-reconcile"
    BY <2>1, <2>2, <2>3 DEF Absent
  <2>8. \A last \in Event : last = soFar[Len(soFar)] => LegalStep(last, settled)
    BY <2>5, <2>6
  <2> HIDE DEF row, trail, new, pending, settled, between, soFar
  <2>9. QED
    BY <2>1, <2>2, <2>3, <2>4, <2>5, <2>6, <2>7, <2>8, ExplainsAppend
<1>4. ASSUME NEW workflow \in {"RETRY_SCHEDULED", "FAILED", "UNKNOWN"},
             LedgerFailed(r, workflow)
      PROVE  Explains(transaction_events'[r], new)
  <2> DEFINE e == AuditEvent(workflow, "outbox-worker")
  <2>1. /\ row.state \in {"INITIATED", "PENDING"}
        /\ new.state = LedgerStateAfter(workflow)
        /\ new.recon_status = row.recon_status
        /\ new.version = row.version + 1
        /\ transaction_events'[r] = Append(trail, e)
    BY <1>4 DEF LedgerFailed
  <2>2. /\ e \in Event /\ e.event_source = "outbox-worker"
        /\ e.workflow_state = workflow
    BY DEF AuditEvent, Event, WorkflowStates, LedgerStates, Sources
  <2>3. \A last \in Event :
          LedgerStateAfter(last.workflow_state) = row.state => LegalStep(last, e)
    BY <2>1, <2>2 DEF LegalStep
  <2>4. row.state # Absent
    BY <2>1 DEF Absent
  <2> HIDE DEF e, row, trail, new
  <2>5. QED
    BY <1>a, <2>1, <2>2, <2>3, <2>4, ExplainsAppend
<1>5. QED
  BY <1>1, <1>2, <1>3, <1>4, ExplainsAt DEF LedgerStep

LEMMA AuditNext == TypeOK /\ AuditTrail /\ [Next]_vars => AuditTrail'
<1>1. UNCHANGED <<settlement_ledger, transaction_events>> /\ AuditTrail => AuditTrail'
  BY DEF AuditTrail
<1>2. QED
  BY <1>1, AuditStep, LedgerCases

\* The audit trail of a transaction accounts for its ledger row: every state
\* change by the API, a callback, an operator or a worker is recorded, in
\* order, and was allowed to the party that made it.
THEOREM AuditTrailExplainsLedger == Spec => []AuditTrail
BY AuditInit, AuditNext, TypeCorrect, PTL DEF Spec

=============================================================================
