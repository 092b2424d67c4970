------------------------------- MODULE PinAuth -------------------------------
(***************************************************************************)
(* PINs: creation, and concurrent verifications against the failure        *)
(* counter and the lock of user_pins.                                      *)
(*                                                                         *)
(* A verification reads the row, compares the PIN with Argon2id, which     *)
(* takes long, and then reports a match or a failure to the database in an *)
(* UPDATE of its own; any number of others may do the same in between.     *)
(***************************************************************************)
EXTENDS Naturals, FiniteSets

CONSTANTS
  Phones,       \* phone numbers, as normalizePINPhone leaves them
  Pins,         \* PINs that ValidatePIN accepts
  Requests,     \* the requests
  MaxAttempts,  \* maxPINAttempts
  LockTicks     \* pinLockDuration

ASSUME LimitsAssumption == MaxAttempts \in Nat \ {0} /\ LockTicks \in Nat \ {0}

VARIABLES
  pin_hash,         \* [Phones -> SUBSET Pins], empty without a row
  failed_attempts,  \* [Phones -> Nat]
  locked_for,       \* [Phones -> 0..LockTicks], what is left of locked_until
  wrong,            \* history: the failures recorded since the last match
  request,          \* [Requests -> Request]
  phase,            \* [Requests -> Phases]
  answer            \* [Requests -> Answers], the HTTP status, 0 for none

user_pins == <<pin_hash, failed_attempts, locked_for, wrong>>
vars == <<user_pins, request, phase, answer>>

Request == [kind : {"create", "verify"}, phone : Phones, pin : Pins]

Phases == {"idle", "matches", "differs", "done"}

Answers == {0, 200, 201, 401, 409, 429, 500}

Phone(q) == request[q].phone

\* auth.VerifyPIN against the hash that was read, which never changes.
VerifyPIN(q) == pin_hash[Phone(q)] = {request[q].pin}

Init ==
  /\ pin_hash = [p \in Phones |-> {}]
  /\ failed_attempts = [p \in Phones |-> 0]
  /\ locked_for = [p \in Phones |-> 0]
  /\ wrong = [p \in Phones |-> {}]
  /\ request \in [Requests -> Request]
  /\ phase = [q \in Requests |-> "idle"]
  /\ answer = [q \in Requests |-> 0]

-----------------------------------------------------------------------------
\* writePINError or writePINJSON, the end of the handler.
Answer(q, status) ==
  /\ phase' = [phase EXCEPT ![q] = "done"]
  /\ answer' = [answer EXCEPT ![q] = status]

\* Mutant: ON CONFLICT DO UPDATE.
UpsertPINUser(q) ==
  /\ pin_hash' = [pin_hash EXCEPT ![Phone(q)] = {request[q].pin}]
  /\ UNCHANGED <<failed_attempts, locked_for, wrong>>

\* The INSERT, which the UNIQUE constraint on the phone lets through once.
CreatePINUser(q) ==
  /\ pin_hash[Phone(q)] = {}
  /\ pin_hash' = [pin_hash EXCEPT ![Phone(q)] = {request[q].pin}]
  /\ UNCHANGED <<failed_attempts, locked_for, wrong>>

\* Mutant: the counter stops at its limit.
RecordFailedUpToLimit(q) ==
  LET p == Phone(q)
      failures == IF failed_attempts[p] < MaxAttempts
                  THEN failed_attempts[p] + 1 ELSE MaxAttempts IN
  /\ failed_attempts' = [failed_attempts EXCEPT ![p] = failures]
  /\ locked_for' = [locked_for EXCEPT ![p] =
                      IF failures >= MaxAttempts THEN LockTicks ELSE @]
  /\ wrong' = [wrong EXCEPT ![p] = @ \cup {q}]
  /\ UNCHANGED pin_hash

\* Mutant: the limit is passed before the lock is set.
RecordFailedOffByOne(q) ==
  LET p == Phone(q)
      failures == failed_attempts[p] + 1 IN
  /\ failed_attempts' = [failed_attempts EXCEPT ![p] = failures]
  /\ locked_for' = [locked_for EXCEPT ![p] =
                      IF failures > MaxAttempts THEN LockTicks ELSE @]
  /\ wrong' = [wrong EXCEPT ![p] = @ \cup {q}]
  /\ UNCHANGED pin_hash

\* Mutant: the lock is added to what is left of it.
RecordFailedExtendsLock(q) ==
  LET p == Phone(q)
      failures == failed_attempts[p] + 1 IN
  /\ failed_attempts' = [failed_attempts EXCEPT ![p] = failures]
  /\ locked_for' = [locked_for EXCEPT ![p] =
                      IF failures >= MaxAttempts THEN @ + LockTicks ELSE @]
  /\ wrong' = [wrong EXCEPT ![p] = @ \cup {q}]
  /\ UNCHANGED pin_hash

\* The UPDATE that counts a failure on the row as it is by then, whoever else
\* has counted, locked or cleared it since this handler read it.
RecordFailedPINVerification(q) ==
  LET p == Phone(q)
      failures == failed_attempts[p] + 1 IN
  /\ failed_attempts' = [failed_attempts EXCEPT ![p] = failures]
  /\ locked_for' = [locked_for EXCEPT ![p] =
                      IF failures >= MaxAttempts THEN LockTicks ELSE @]
  /\ wrong' = [wrong EXCEPT ![p] = @ \cup {q}]
  /\ UNCHANGED pin_hash

\* Mutant: the lock is left to run out.
RecordSuccessfulKeepsLock(q) ==
  /\ failed_attempts' = [failed_attempts EXCEPT ![Phone(q)] = 0]
  /\ wrong' = [wrong EXCEPT ![Phone(q)] = {}]
  /\ UNCHANGED <<pin_hash, locked_for>>

\* The UPDATE that clears the counter and the lock.
RecordSuccessfulPINVerification(q) ==
  /\ failed_attempts' = [failed_attempts EXCEPT ![Phone(q)] = 0]
  /\ locked_for' = [locked_for EXCEPT ![Phone(q)] = 0]
  /\ wrong' = [wrong EXCEPT ![Phone(q)] = {}]
  /\ UNCHANGED pin_hash

-----------------------------------------------------------------------------
\* CreatePIN with a valid request: created, or there was a PIN.
CreatePIN(q) ==
  /\ request[q].kind = "create" /\ phase[q] = "idle"
  /\ \/ CreatePINUser(q) /\ Answer(q, 201)
     \/ pin_hash[Phone(q)] # {} /\ Answer(q, 409) /\ UNCHANGED user_pins
  /\ UNCHANGED request

\* VerifyPIN up to the comparison: an unknown phone, a PIN that is locked, or
\* the outcome that is still to be recorded.
ReadAndCompare(q) ==
  /\ request[q].kind = "verify" /\ phase[q] = "idle"
  /\ \/ pin_hash[Phone(q)] = {} /\ Answer(q, 401)
     \/ pin_hash[Phone(q)] # {} /\ locked_for[Phone(q)] > 0 /\ Answer(q, 429)
     \/ /\ pin_hash[Phone(q)] # {} /\ locked_for[Phone(q)] = 0
        /\ phase' = [phase EXCEPT ![q] = IF VerifyPIN(q) THEN "matches" ELSE "differs"]
        /\ UNCHANGED answer
  /\ UNCHANGED <<user_pins, request>>

\* The PIN differs.  The answer depends on the row the UPDATE returns.
Refuse(q) ==
  /\ phase[q] = "differs"
  /\ RecordFailedPINVerification(q)
  /\ Answer(q, IF locked_for'[Phone(q)] > 0 THEN 429 ELSE 401)
  /\ UNCHANGED request

\* The PIN matches.
Verify(q) ==
  /\ phase[q] = "matches"
  /\ RecordSuccessfulPINVerification(q)
  /\ Answer(q, 200)
  /\ UNCHANGED request

\* What the handler of q has sent to the database, if it is a change.
Statement(q) ==
  \/ request[q].kind = "create" /\ phase[q] = "idle" /\ CreatePINUser(q)
  \/ phase[q] = "differs" /\ RecordFailedPINVerification(q)
  \/ phase[q] = "matches" /\ RecordSuccessfulPINVerification(q)

\* The database, the client or the API process fails: the statement takes
\* effect or it does not, and the answer is 500 or none.
Fail(q) ==
  /\ phase[q] # "done"
  /\ UNCHANGED user_pins \/ Statement(q)
  /\ \E status \in {0, 500} : Answer(q, status)
  /\ UNCHANGED request

\* Time passes.
Tick ==
  /\ \E p \in Phones : locked_for[p] > 0
  /\ locked_for' = [p \in Phones |-> IF locked_for[p] > 0 THEN locked_for[p] - 1 ELSE 0]
  /\ UNCHANGED <<pin_hash, failed_attempts, wrong, request, phase, answer>>

Next ==
  \/ \E q \in Requests :
       CreatePIN(q) \/ ReadAndCompare(q) \/ Refuse(q) \/ Verify(q) \/ Fail(q)
  \/ Tick

Spec == Init /\ [][Next]_vars

-----------------------------------------------------------------------------
(***************************************************************************)
(* Properties.                                                             *)
(***************************************************************************)

\* Every variable has its type.
TypeOK ==
  /\ pin_hash \in [Phones -> SUBSET Pins]
  /\ failed_attempts \in [Phones -> Nat]
  /\ locked_for \in [Phones -> 0..LockTicks]
  /\ wrong \in [Phones -> SUBSET Requests]
  /\ request \in [Requests -> Request]
  /\ phase \in [Requests -> Phases]
  /\ answer \in [Requests -> Answers]

\* failed_attempts is the number of failures recorded since the last match:
\* none is lost or counted twice, however many verifications read the row
\* before the first of them reports, and locks that run out forget none.
FailuresCounted ==
  \A p \in Phones : failed_attempts[p] = Cardinality(wrong[p])

\* A PIN is locked only while MaxAttempts failures or more are on record, so
\* that a verification that matched leaves its phone neither counted nor
\* locked, whatever was recorded between its read and its UPDATE.
LockHasItsFailures ==
  \A p \in Phones : locked_for[p] > 0 => failed_attempts[p] >= MaxAttempts

\* Between two matches fewer than MaxAttempts verifications are answered "wrong
\* PIN"; those that read the row before the lock and report after it are
\* answered "locked", and so is every failure after the lock ran out.
FewWrongAnswers ==
  \A p \in Phones :
    Cardinality({q \in wrong[p] : answer[q] = 401}) < MaxAttempts

\* The PIN a client was told is created stays the PIN of the phone, however
\* many creations race, and a verification is answered 200 for that PIN only.
PinIsKept ==
  \A q \in Requests :
    answer[q] \in {200, 201} => pin_hash[Phone(q)] = {request[q].pin}

=============================================================================
