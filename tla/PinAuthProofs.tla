---------------------------- MODULE PinAuthProofs ----------------------------
(***************************************************************************)
(* The failure counter and the lock, for any phones, PINs, requests and    *)
(* limits.                                                                 *)
(***************************************************************************)
EXTENDS PinAuth, FiniteSetTheorems, TLAPS

\* What the rest rests on: failures on record are finitely many, and of
\* handlers that are done; a PIN that matched is the stored one.
Recorded ==
  /\ \A p \in Phones : IsFiniteSet(wrong[p])
  /\ \A p \in Phones : \A q \in wrong[p] : phase[q] = "done"

Matched ==
  \A q \in Requests :
    phase[q] = "matches" \/ answer[q] \in {200, 201}
      => pin_hash[Phone(q)] = {request[q].pin}

PinInv ==
  /\ TypeOK
  /\ Recorded
  /\ Matched
  /\ FailuresCounted
  /\ LockHasItsFailures
  /\ FewWrongAnswers

LEMMA PinInit == Init => PinInv
<1> SUFFICES ASSUME Init
             PROVE  PinInv
  OBVIOUS
<1>1. TypeOK /\ Recorded /\ Matched
  BY LimitsAssumption, FS_EmptySet
  DEF Init, TypeOK, Phases, Answers, Request, Recorded, Matched
<1>2. FailuresCounted /\ LockHasItsFailures
  BY FS_EmptySet DEF Init, FailuresCounted, LockHasItsFailures
<1>3. FewWrongAnswers
  <2> SUFFICES ASSUME NEW p \in Phones
               PROVE  Cardinality({q \in wrong[p] : answer[q] = 401}) < MaxAttempts
    BY DEF FewWrongAnswers
  <2>1. {q \in wrong[p] : answer[q] = 401} = {}
    BY DEF Init
  <2>2. QED
    BY <2>1, FS_EmptySet, LimitsAssumption
<1>4. QED
  BY <1>1, <1>2, <1>3 DEF PinInv

-----------------------------------------------------------------------------
\* The three statements keep the types of the columns.
LEMMA StatementTypes ==
  ASSUME TypeOK, NEW q \in Requests,
         \/ UNCHANGED user_pins
         \/ CreatePINUser(q)
         \/ RecordFailedPINVerification(q)
         \/ RecordSuccessfulPINVerification(q)
  PROVE  /\ pin_hash' \in [Phones -> SUBSET Pins]
         /\ failed_attempts' \in [Phones -> Nat]
         /\ locked_for' \in [Phones -> 0..LockTicks]
         /\ wrong' \in [Phones -> SUBSET Requests]
<1>1. Phone(q) \in Phones /\ request[q].pin \in Pins
  BY DEF TypeOK, Request, Phone
<1>2. QED
  BY <1>1, LimitsAssumption
  DEF TypeOK, user_pins, CreatePINUser, RecordFailedPINVerification,
      RecordSuccessfulPINVerification

LEMMA TypeStep == TypeOK /\ [Next]_vars => TypeOK'
<1> SUFFICES ASSUME TypeOK, [Next]_vars
             PROVE  TypeOK'
  OBVIOUS
<1>1. ASSUME NEW q \in Requests, NEW status \in Answers, Answer(q, status)
      PROVE  phase' \in [Requests -> Phases] /\ answer' \in [Requests -> Answers]
  BY <1>1 DEF TypeOK, Answer, Phases
<1>2. ASSUME NEW q \in Requests, CreatePIN(q)
      PROVE  TypeOK'
  BY <1>1, <1>2, StatementTypes DEF CreatePIN, TypeOK, Answers
<1>3. ASSUME NEW q \in Requests, ReadAndCompare(q)
      PROVE  TypeOK'
  <2>1. phase' \in [Requests -> Phases] /\ answer' \in [Requests -> Answers]
    <3>1. CASE Answer(q, 401) \/ Answer(q, 429)
      BY <1>1, <3>1 DEF Answers
    <3>2. CASE /\ phase' = [phase EXCEPT ![q] = IF VerifyPIN(q) THEN "matches" ELSE "differs"]
               /\ UNCHANGED answer
      BY <3>2 DEF TypeOK, Phases
    <3>3. QED
      BY <1>3, <3>1, <3>2 DEF ReadAndCompare
  <2>2. QED
    BY <1>3, <2>1 DEF ReadAndCompare, user_pins, TypeOK
<1>4. ASSUME NEW q \in Requests, Refuse(q)
      PROVE  TypeOK'
  <2>1. PICK status \in Answers : Answer(q, status)
    BY <1>4 DEF Refuse, Answers
  <2>2. QED
    BY <1>1, <1>4, <2>1, StatementTypes DEF Refuse, TypeOK
<1>5. ASSUME NEW q \in Requests, Verify(q)
      PROVE  TypeOK'
  BY <1>1, <1>5, StatementTypes DEF Verify, TypeOK, Answers
<1>6. ASSUME NEW q \in Requests, Fail(q)
      PROVE  TypeOK'
  <2>1. PICK status \in Answers : Answer(q, status)
    BY <1>6 DEF Fail, Answers
  <2>2. QED
    BY <1>1, <1>6, <2>1, StatementTypes DEF Fail, Statement, TypeOK
<1>7. CASE Tick
  BY <1>7, LimitsAssumption DEF Tick, TypeOK
<1>8. CASE UNCHANGED vars
  BY <1>8 DEF vars, user_pins, TypeOK
<1>9. QED
  BY <1>2, <1>3, <1>4, <1>5, <1>6, <1>7, <1>8 DEF Next

-----------------------------------------------------------------------------
\* The handler of q ends, and its statement has taken effect or not.  It may
\* answer "wrong PIN" only where no failure was recorded or no lock was set.
LEMMA InvAfterAnswer ==
  ASSUME PinInv, TypeOK', NEW q \in Requests, NEW status,
         phase[q] # "done", Answer(q, status), UNCHANGED request,
         \/ UNCHANGED user_pins
         \/ CreatePINUser(q)
         \/ RecordFailedPINVerification(q)
         \/ RecordSuccessfulPINVerification(q),
         status \in {200, 201} => pin_hash'[Phone(q)] = {request[q].pin},
         status = 401 /\ RecordFailedPINVerification(q) => locked_for'[Phone(q)] = 0
  PROVE  PinInv'
<1> DEFINE p == Phone(q)
<1>1. p \in Phones /\ request[q] \in Request
  BY DEF PinInv, TypeOK, Request, Phone
<1>2. /\ phase'[q] = "done" /\ answer'[q] = status
      /\ \A r \in Requests \ {q} : phase'[r] = phase[r] /\ answer'[r] = answer[r]
  BY DEF Answer, PinInv, TypeOK
<1>3. \A x \in Phones : q \notin wrong[x] /\ wrong[x] \subseteq Requests
  BY DEF PinInv, Recorded, TypeOK
<1>4. \A r \in Requests : Phone(r)' = Phone(r)
  BY DEF Phone
<1>5. \A x \in Phones \ {p} : /\ pin_hash'[x] = pin_hash[x]
                            /\ failed_attempts'[x] = failed_attempts[x]
                            /\ locked_for'[x] = locked_for[x]
                            /\ wrong'[x] = wrong[x]
  BY DEF PinInv, TypeOK, user_pins, CreatePINUser, RecordFailedPINVerification,
         RecordSuccessfulPINVerification
<1>6. \A x \in Phones : wrong'[x] \subseteq wrong[x] \cup {q} /\ IsFiniteSet(wrong'[x])
  <2>1. \A x \in Phones : wrong'[x] \subseteq wrong[x] \cup {q}
    BY <1>1 DEF PinInv, TypeOK, user_pins, CreatePINUser, RecordFailedPINVerification,
           RecordSuccessfulPINVerification
  <2>2. \A x \in Phones : IsFiniteSet(wrong[x] \cup {q})
    BY FS_AddElement DEF PinInv, Recorded
  <2>3. QED
    BY <2>1, <2>2, FS_Subset
<1>7. Recorded'
  BY <1>2, <1>3, <1>6 DEF PinInv, Recorded
<1>8. Matched'
  <2> SUFFICES ASSUME NEW r \in Requests,
                      phase'[r] = "matches" \/ answer'[r] \in {200, 201}
               PROVE  pin_hash'[Phone(r)] = {request[r].pin}
    BY <1>4 DEF Matched
  <2>1. CASE r = q
    BY <1>2, <2>1
  <2>2. CASE r # q
    <3>1. pin_hash[Phone(r)] = {request[r].pin} /\ Phone(r) \in Phones
      BY <1>2, <2>2 DEF PinInv, Matched, TypeOK, Request, Phone
    <3>2. CreatePINUser(q) => Phone(r) # p
      BY <3>1 DEF CreatePINUser
    <3>3. ~ CreatePINUser(q) => pin_hash' = pin_hash
      BY DEF user_pins, RecordFailedPINVerification, RecordSuccessfulPINVerification
    <3>4. pin_hash'[Phone(r)] = pin_hash[Phone(r)]
      BY <1>5, <3>1, <3>2, <3>3
    <3>5. QED
      BY <3>1, <3>4
  <2>3. QED
    BY <2>1, <2>2
<1>9. failed_attempts'[p] = Cardinality(wrong'[p])
  <2>1. failed_attempts[p] = Cardinality(wrong[p]) /\ IsFiniteSet(wrong[p])
    BY <1>1 DEF PinInv, FailuresCounted, Recorded
  <2>2. CASE RecordFailedPINVerification(q)
    <3>1. wrong'[p] = wrong[p] \cup {q} /\ failed_attempts'[p] = failed_attempts[p] + 1
      BY <1>1, <2>2 DEF RecordFailedPINVerification, PinInv, TypeOK
    <3>2. QED
      BY <1>1, <1>3, <2>1, <3>1, FS_AddElement, FS_CardinalityType
  <2>3. CASE RecordSuccessfulPINVerification(q)
    BY <1>1, <2>3, FS_EmptySet DEF RecordSuccessfulPINVerification, PinInv, TypeOK
  <2>4. CASE UNCHANGED user_pins \/ CreatePINUser(q)
    BY <2>1, <2>4 DEF user_pins, CreatePINUser
  <2>5. QED
    BY <2>2, <2>3, <2>4
<1>10. FailuresCounted'
  BY <1>5, <1>9 DEF PinInv, FailuresCounted
<1>11. locked_for'[p] > 0 => failed_attempts'[p] >= MaxAttempts
  <2>1. locked_for[p] > 0 => failed_attempts[p] >= MaxAttempts
    BY <1>1 DEF PinInv, LockHasItsFailures
  <2>2. QED
    BY <1>1, <2>1, LimitsAssumption
    DEF PinInv, TypeOK, user_pins, CreatePINUser, RecordFailedPINVerification,
        RecordSuccessfulPINVerification
<1>12. LockHasItsFailures'
  BY <1>5, <1>11 DEF PinInv, LockHasItsFailures
<1>13. FewWrongAnswers'
  <2> SUFFICES ASSUME NEW x \in Phones
               PROVE  Cardinality({r \in wrong'[x] : answer'[r] = 401}) < MaxAttempts
    BY DEF FewWrongAnswers
  <2> DEFINE before == {r \in wrong[x] : answer[r] = 401}
             after == {r \in wrong'[x] : answer'[r] = 401}
  <2>1. Cardinality(before) < MaxAttempts /\ IsFiniteSet(before)
    BY FS_Subset DEF PinInv, FewWrongAnswers, Recorded
  <2>2. CASE q \notin after
    <3>1. after \subseteq before
      BY <1>2, <1>3, <1>6, <2>2
    <3>2. Cardinality(after) <= Cardinality(before)
      BY <2>1, <3>1, FS_Subset
    <3>3. Cardinality(before) \in Nat /\ Cardinality(after) \in Nat
      BY <2>1, <3>1, FS_Subset, FS_CardinalityType
    <3>4. QED
      BY <2>1, <3>2, <3>3, LimitsAssumption
  <2>3. CASE q \in after
    <3>1. x = p /\ RecordFailedPINVerification(q)
      BY <1>1, <1>3, <1>5, <2>3
      DEF user_pins, CreatePINUser, RecordSuccessfulPINVerification, PinInv, TypeOK
    <3>2. locked_for'[p] = 0
      BY <1>2, <2>3, <3>1
    <3>3. failed_attempts'[p] < MaxAttempts
      BY <1>1, <3>1, <3>2, LimitsAssumption
      DEF RecordFailedPINVerification, PinInv, TypeOK
    <3>4. Cardinality(after) <= Cardinality(wrong'[p])
      BY <1>1, <1>6, <3>1, FS_Subset
    <3>5. Cardinality(after) \in Nat
      BY <1>6, FS_Subset, FS_CardinalityType
    <3>6. failed_attempts'[p] \in Nat
      BY <1>1 DEF TypeOK
    <3>7. QED
      BY <1>9, <3>3, <3>4, <3>5, <3>6, LimitsAssumption
  <2>4. QED
    BY <2>2, <2>3
<1>14. QED
  BY <1>7, <1>8, <1>10, <1>12, <1>13 DEF PinInv

LEMMA PinStep == PinInv /\ [Next]_vars => PinInv'
<1> SUFFICES ASSUME PinInv, [Next]_vars
             PROVE  PinInv'
  OBVIOUS
<1>1. TypeOK'
  BY TypeStep DEF PinInv
<1>2. ASSUME NEW q \in Requests, CreatePIN(q)
      PROVE  PinInv'
  <2>1. CASE CreatePINUser(q) /\ Answer(q, 201)
    <3>1. pin_hash'[Phone(q)] = {request[q].pin}
      BY <2>1 DEF CreatePINUser, PinInv, TypeOK, Phone, Request
    <3>2. QED
      BY <1>1, <1>2, <2>1, <3>1, InvAfterAnswer DEF CreatePIN
  <2>2. CASE Answer(q, 409) /\ UNCHANGED user_pins
    BY <1>1, <1>2, <2>2, InvAfterAnswer DEF CreatePIN
  <2>3. QED
    BY <1>2, <2>1, <2>2 DEF CreatePIN
<1>3. ASSUME NEW q \in Requests, ReadAndCompare(q)
      PROVE  PinInv'
  <2>1. phase[q] # "done" /\ UNCHANGED user_pins /\ UNCHANGED request
    BY <1>3 DEF ReadAndCompare
  <2>2. CASE Answer(q, 401)
    <3>1. ~ RecordFailedPINVerification(q)
      BY <2>1 DEF RecordFailedPINVerification, user_pins, PinInv, TypeOK, Phone, Request
    <3>2. QED
      BY <1>1, <2>1, <2>2, <3>1, InvAfterAnswer
  <2>3. CASE Answer(q, 429)
    BY <1>1, <2>1, <2>3, InvAfterAnswer
  <2>4. CASE /\ phase' = [phase EXCEPT ![q] = IF VerifyPIN(q) THEN "matches" ELSE "differs"]
             /\ UNCHANGED answer
    <3>1. \A r \in Requests \ {q} : phase'[r] = phase[r]
      BY <2>4 DEF PinInv, TypeOK
    <3>2. \A p \in Phones : q \notin wrong[p] /\ wrong[p] \subseteq Requests
      BY <2>1 DEF PinInv, Recorded, TypeOK
    <3>3. Recorded'
      BY <2>1, <3>1, <3>2 DEF PinInv, Recorded, user_pins
    <3>4. phase'[q] = "matches" => pin_hash[Phone(q)] = {request[q].pin}
      BY <2>4 DEF VerifyPIN, PinInv, TypeOK
    <3>5. Matched'
      BY <2>1, <2>4, <3>1, <3>4 DEF PinInv, Matched, user_pins, Phone
    <3>6. FailuresCounted' /\ LockHasItsFailures' /\ FewWrongAnswers'
      BY <2>1, <2>4
      DEF PinInv, FailuresCounted, LockHasItsFailures, FewWrongAnswers, user_pins
    <3>7. QED
      BY <1>1, <3>3, <3>5, <3>6 DEF PinInv
  <2>5. QED
    BY <1>3, <2>2, <2>3, <2>4 DEF ReadAndCompare
<1>4. ASSUME NEW q \in Requests, Refuse(q)
      PROVE  PinInv'
  <2> DEFINE status == IF locked_for'[Phone(q)] > 0 THEN 429 ELSE 401
  <2>1. locked_for'[Phone(q)] \in Nat
    BY <1>1, LimitsAssumption DEF PinInv, TypeOK, Request, Phone
  <2>2. status = 401 => locked_for'[Phone(q)] = 0
    BY <2>1
  <2>3. status \notin {200, 201}
    OBVIOUS
  <2>4. phase[q] # "done" /\ Answer(q, status) /\ UNCHANGED request
        /\ RecordFailedPINVerification(q)
    BY <1>4 DEF Refuse
  <2> HIDE DEF status
  <2>5. QED
    BY <1>1, <2>2, <2>3, <2>4, InvAfterAnswer
<1>5. ASSUME NEW q \in Requests, Verify(q)
      PROVE  PinInv'
  <2>1. pin_hash'[Phone(q)] = {request[q].pin}
    BY <1>5 DEF Verify, RecordSuccessfulPINVerification, PinInv, Matched
  <2>2. QED
    BY <1>1, <1>5, <2>1, InvAfterAnswer DEF Verify
<1>6. ASSUME NEW q \in Requests, Fail(q)
      PROVE  PinInv'
  <2>1. PICK status \in {0, 500} : Answer(q, status)
    BY <1>6 DEF Fail
  <2>2. QED
    BY <1>1, <1>6, <2>1, InvAfterAnswer DEF Fail, Statement
<1>7. CASE Tick
  <2>1. \A p \in Phones : locked_for'[p] > 0 => locked_for[p] > 0
    BY <1>7, LimitsAssumption DEF Tick, PinInv, TypeOK
  <2>2. LockHasItsFailures'
    BY <1>7, <2>1 DEF Tick, PinInv, LockHasItsFailures
  <2>3. QED
    BY <1>1, <1>7, <2>2
    DEF Tick, PinInv, Recorded, Matched, FailuresCounted,
        FewWrongAnswers, Phone
<1>8. CASE UNCHANGED vars
  BY <1>1, <1>8
  DEF vars, user_pins, PinInv, Recorded, Matched, FailuresCounted,
      LockHasItsFailures, FewWrongAnswers, Phone
<1>9. QED
  BY <1>2, <1>3, <1>4, <1>5, <1>6, <1>7, <1>8 DEF Next

\* The strengthened invariant holds in every reachable state.
LEMMA PinInvariant == Spec => []PinInv
BY PinInit, PinStep, PTL DEF Spec

-----------------------------------------------------------------------------
\* The columns of user_pins and the handlers keep their types; in particular a
\* lock never lasts longer than pinLockDuration.
THEOREM PinTypeCorrect == Spec => []TypeOK
<1>1. PinInv => TypeOK
  BY DEF PinInv
<1>2. QED
  BY <1>1, PinInvariant, PTL

\* No failure is lost or counted twice, for any number of verifications that
\* read the same row and may fail at any step.
THEOREM EveryFailureCounts == Spec => []FailuresCounted
<1>1. PinInv => FailuresCounted
  BY DEF PinInv
<1>2. QED
  BY <1>1, PinInvariant, PTL

\* A lock always has its MaxAttempts failures, and a match leaves neither.
THEOREM LocksHaveFailures == Spec => []LockHasItsFailures
<1>1. PinInv => LockHasItsFailures
  BY DEF PinInv
<1>2. QED
  BY <1>1, PinInvariant, PTL

\* Between two matches fewer than MaxAttempts failures are answered "wrong PIN".
THEOREM WrongAnswersAreFew == Spec => []FewWrongAnswers
<1>1. PinInv => FewWrongAnswers
  BY DEF PinInv
<1>2. QED
  BY <1>1, PinInvariant, PTL

\* The PIN that was created stays, and only that PIN is verified.
THEOREM CreatedPinsStay == Spec => []PinIsKept
<1>1. PinInv => PinIsKept
  BY DEF PinInv, Matched, PinIsKept
<1>2. QED
  BY <1>1, PinInvariant, PTL

=============================================================================
