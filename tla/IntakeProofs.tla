---------------------------- MODULE IntakeProofs ----------------------------
(***************************************************************************)
(* The safety of intake, and that it keeps the promise of the idempotency  *)
(* key, for any requests, keys, bodies and faults.                         *)
(***************************************************************************)
EXTENDS IntakeRefinement, TLAPS

\* What the rest rests on: a handler has no result before it returns from the
\* store and no answer before it is done.
Progress ==
  \A q \in Requests :
    /\ phase[q] \in {"idle", "lookup", "insert"} => ppay_ref[q] = {}
    /\ phase[q] # "answered" => answer[q] = 0

IntakeInv ==
  TypeOK /\ Progress /\ OneRowPerKey /\ ResultIsCommitted /\ PaymentsAreBacked

LEMMA IntakeInit == Init => IntakeInv
BY DEF Init, IntakeInv, TypeOK, Phases, InFlight, Answers, Request, Progress,
       OneRowPerKey, ResultIsCommitted, PaymentsAreBacked, Stored

-----------------------------------------------------------------------------
\* What one step of a handler may do: it goes on from a phase, the ledger
\* grows by rows of its own key, and nobody else is concerned.
OthersStay(q) ==
  /\ request' = request
  /\ \A p \in Requests \ {q} : /\ phase'[p] = phase[p]
                               /\ ppay_ref'[p] = ppay_ref[p]
                               /\ answer'[p] = answer[p]

\* A handler's result and answer after its step.
Outcome(q) ==
  /\ phase'[q] \in {"idle", "lookup", "insert"} => ppay_ref'[q] = {}
  /\ phase'[q] # "answered" => answer'[q] = 0
  /\ phase'[q] = "pay" \/ answer'[q] \in {202, 502} => ppay_ref'[q] # {}
  /\ \A ref \in ppay_ref'[q] :
       \E row \in settlement_ledger' :
         /\ row.idempotency_key = Key(q)
         /\ row.ppay_ref = ref /\ row.request_hash = Hash(q)
  /\ answer'[q] = 409 =>
       /\ ppay_ref'[q] = {}
       /\ \E row \in settlement_ledger' :
            row.idempotency_key = Key(q) /\ row.request_hash # Hash(q)

\* A committed row is never lost, so the other handlers' results stay good.
LEMMA InvAfterHandlerStep ==
  ASSUME IntakeInv, TypeOK', NEW q \in Requests, OthersStay(q), Outcome(q),
         settlement_ledger \subseteq settlement_ledger', OneRowPerKey',
         \A payment \in payments' \ payments :
           /\ payment.reference = q
           /\ payment.external_id \in ppay_ref[q]
  PROVE  IntakeInv'
<1>1. \A p \in Requests : Key(p)' = Key(p) /\ Hash(p)' = Hash(p)
  BY DEF OthersStay, Key, Hash
<1>2. \A p \in Requests : Stored(p) \subseteq Stored(p)'
  BY <1>1 DEF Stored
<1>3. Progress'
  BY DEF IntakeInv, Progress, OthersStay, Outcome
<1>4. ResultIsCommitted'
  <2> SUFFICES ASSUME NEW p \in Requests
               PROVE  /\ phase'[p] = "pay" \/ answer'[p] \in {202, 502}
                           => ppay_ref'[p] # {}
                      /\ \A ref \in ppay_ref'[p] :
                           \E row \in Stored(p)' :
                             row.ppay_ref = ref /\ row.request_hash = Hash(p)'
                      /\ answer'[p] = 409 =>
                           /\ ppay_ref'[p] = {}
                           /\ \E row \in Stored(p)' : row.request_hash # Hash(p)'
    BY DEF ResultIsCommitted
  <2>1. CASE p = q
    BY <1>1, <2>1 DEF Outcome, Stored
  <2>2. CASE p # q
    BY <1>1, <1>2, <2>2 DEF IntakeInv, ResultIsCommitted, OthersStay
  <2>3. QED
    BY <2>1, <2>2
<1>5. PaymentsAreBacked'
  <2> SUFFICES ASSUME NEW payment \in payments'
               PROVE  \E row \in settlement_ledger' :
                        /\ row.ppay_ref = payment.external_id
                        /\ row.request_hash = Hash(payment.reference)'
                        /\ row.idempotency_key = Key(payment.reference)'
    BY DEF PaymentsAreBacked
  <2>1. CASE payment \in payments
    <3>1. payment.reference \in Requests
      BY <2>1 DEF IntakeInv, TypeOK, Payment
    <3>2. QED
      BY <1>1, <2>1, <3>1 DEF IntakeInv, PaymentsAreBacked
  <2>2. CASE payment \notin payments
    BY <1>1, <2>2 DEF IntakeInv, ResultIsCommitted, Stored
  <2>3. QED
    BY <2>1, <2>2
<1>6. QED
  BY <1>3, <1>4, <1>5 DEF IntakeInv

-----------------------------------------------------------------------------
\* The new row of q is well typed.
LEMMA NewRowType ==
  ASSUME TypeOK, NEW q \in Requests
  PROVE  NewRow(q) \in Row
<1>1. request[q] \in Request
  BY DEF TypeOK
<1>2. Key(q) \in Keys /\ Hash(q) \in Hashes
  BY <1>1 DEF Key, Hash, Hashes, Request
<1>3. QED
  BY <1>2 DEF NewRow, Row

\* A row inserted where the key has none leaves the keys unique.
LEMMA InsertKeepsKeys ==
  ASSUME OneRowPerKey, NEW q \in Requests, Stored(q) = {},
         settlement_ledger' = settlement_ledger \cup {NewRow(q)}
  PROVE  OneRowPerKey'
BY DEF OneRowPerKey, Stored, NewRow

LEMMA TypeStep == TypeOK /\ [Next]_vars => TypeOK'
<1> SUFFICES ASSUME TypeOK, [Next]_vars
             PROVE  TypeOK'
  OBVIOUS
<1> USE DEF TypeOK, Phases, InFlight, Answers
<1>1. ASSUME NEW q \in Requests, Receive(q)
      PROVE  TypeOK'
  BY <1>1 DEF Receive, Goto
<1>2. ASSUME NEW q \in Requests, LookupKey(q)
      PROVE  TypeOK'
  <2>1. \A row \in Stored(q) : row.ppay_ref \in Requests
    BY DEF Stored, Row
  <2>2. QED
    BY <1>2, <2>1 DEF LookupKey, Goto, Answer, Return
<1>3. ASSUME NEW q \in Requests, CommitRows(q)
      PROVE  settlement_ledger' \subseteq Row
  BY <1>3, NewRowType DEF CommitRows
<1>4. ASSUME NEW q \in Requests, Accept(q)
      PROVE  payments' \subseteq Payment
  <2>1. \A ref \in ppay_ref[q] : [reference |-> q, external_id |-> ref] \in Payment
    BY DEF Payment
  <2>2. QED
    BY <1>4, <2>1 DEF Accept
<1>5. ASSUME NEW q \in Requests, InsertRows(q)
      PROVE  TypeOK'
  BY <1>3, <1>5 DEF InsertRows, Goto, Answer, Return
<1>6. ASSUME NEW q \in Requests, RequestToPay(q)
      PROVE  TypeOK'
  BY <1>4, <1>6 DEF RequestToPay, Goto, Answer
<1>7. ASSUME NEW q \in Requests, DatabaseError(q)
      PROVE  TypeOK'
  BY <1>3, <1>7 DEF DatabaseError, Goto, Answer
<1>8. ASSUME NEW q \in Requests, Abandon(q)
      PROVE  TypeOK'
  BY <1>3, <1>4, <1>8 DEF Abandon, Goto
<1>9. CASE UNCHANGED vars
  BY <1>9 DEF vars
<1>10. QED
  BY <1>1, <1>2, <1>5, <1>6, <1>7, <1>8, <1>9 DEF Next, HandlerStep

-----------------------------------------------------------------------------
LEMMA IntakeStep == IntakeInv /\ [Next]_vars => IntakeInv'
<1> SUFFICES ASSUME IntakeInv, [Next]_vars
             PROVE  IntakeInv'
  OBVIOUS
<1>1. TypeOK /\ Progress /\ OneRowPerKey /\ ResultIsCommitted
  BY DEF IntakeInv
<1>2. TypeOK'
  BY <1>1, TypeStep
<1>3. ASSUME NEW q \in Requests, CommitRows(q)
      PROVE  /\ OneRowPerKey'
             /\ settlement_ledger \subseteq settlement_ledger'
             /\ NewRow(q) \in settlement_ledger'
  BY <1>1, <1>3, InsertKeepsKeys DEF CommitRows
<1>4. ASSUME UNCHANGED settlement_ledger
      PROVE  OneRowPerKey'
  BY <1>1, <1>4 DEF OneRowPerKey
<1>5. ASSUME NEW q \in Requests, Receive(q)
      PROVE  IntakeInv'
  <2>1. OthersStay(q) /\ Outcome(q)
    BY <1>1, <1>5 DEF Receive, Goto, TypeOK, Progress, OthersStay, Outcome
  <2>2. QED
    BY <1>2, <1>4, <1>5, <2>1, InvAfterHandlerStep DEF Receive
<1>6. ASSUME NEW q \in Requests, LookupKey(q)
      PROVE  IntakeInv'
  <2>1. OthersStay(q)
    BY <1>1, <1>6 DEF LookupKey, Goto, Answer, Return, TypeOK, OthersStay
  <2>2. ppay_ref[q] = {} /\ answer[q] = 0
    BY <1>1, <1>6 DEF LookupKey, Progress
  <2>3. ASSUME Stored(q) = {}, Goto(q, "insert"), UNCHANGED <<ppay_ref, answer>>
        PROVE  Outcome(q)
    BY <1>1, <2>2, <2>3 DEF Goto, TypeOK, Outcome
  <2>4. ASSUME NEW row \in Stored(q), row.request_hash = Hash(q),
               Return(q, row.ppay_ref)
        PROVE  Outcome(q)
    <3>1. row \in settlement_ledger' /\ row.idempotency_key = Key(q)
      BY <1>6 DEF LookupKey, Stored
    <3>2. QED
      BY <1>1, <2>2, <2>4, <3>1 DEF Return, Goto, Answer, TypeOK, Outcome
  <2>5. ASSUME NEW row \in Stored(q), row.request_hash # Hash(q),
               Answer(q, 409), UNCHANGED ppay_ref
        PROVE  Outcome(q)
    <3>1. row \in settlement_ledger' /\ row.idempotency_key = Key(q)
      BY <1>6 DEF LookupKey, Stored
    <3>2. QED
      BY <1>1, <2>2, <2>5, <3>1 DEF Goto, Answer, TypeOK, Outcome
  <2>6. Outcome(q)
    BY <1>6, <2>3, <2>4, <2>5 DEF LookupKey
  <2>7. QED
    BY <1>2, <1>4, <1>6, <2>1, <2>6, InvAfterHandlerStep DEF LookupKey
<1>7. ASSUME NEW q \in Requests, InsertRows(q)
      PROVE  IntakeInv'
  <2>1. OthersStay(q)
    BY <1>1, <1>7 DEF InsertRows, Goto, Answer, Return, TypeOK, OthersStay
  <2>2. ppay_ref[q] = {} /\ answer[q] = 0
    BY <1>1, <1>7 DEF InsertRows, Progress
  <2>3. ASSUME CommitRows(q), Return(q, q)
        PROVE  Outcome(q)
    <3>1. NewRow(q) \in settlement_ledger'
      BY <1>3, <2>3
    <3>2. QED
      BY <1>1, <2>2, <2>3, <3>1
      DEF Return, Goto, Answer, NewRow, TypeOK, Outcome
  <2>4. ASSUME Answer(q, 500), UNCHANGED <<settlement_ledger, ppay_ref>>
        PROVE  Outcome(q)
    BY <1>1, <2>2, <2>4 DEF Goto, Answer, TypeOK, Outcome
  <2>5. Outcome(q) /\ OneRowPerKey' /\ settlement_ledger \subseteq settlement_ledger'
    BY <1>3, <1>4, <1>7, <2>3, <2>4 DEF InsertRows
  <2>6. QED
    BY <1>2, <1>7, <2>1, <2>5, InvAfterHandlerStep DEF InsertRows
<1>8. ASSUME NEW q \in Requests, RequestToPay(q)
      PROVE  IntakeInv'
  <2>1. OthersStay(q)
    BY <1>1, <1>8 DEF RequestToPay, Goto, Answer, TypeOK, OthersStay
  <2>2. Outcome(q)
    BY <1>1, <1>8
    DEF RequestToPay, Goto, Answer, TypeOK, ResultIsCommitted, Stored, Outcome
  <2>3. \A payment \in payments' \ payments :
          payment.reference = q /\ payment.external_id \in ppay_ref[q]
    BY <1>8 DEF RequestToPay, Accept
  <2>4. QED
    BY <1>2, <1>4, <1>8, <2>1, <2>2, <2>3, InvAfterHandlerStep DEF RequestToPay
<1>9. ASSUME NEW q \in Requests, DatabaseError(q)
      PROVE  IntakeInv'
  <2>1. OthersStay(q)
    BY <1>1, <1>9 DEF DatabaseError, Goto, Answer, TypeOK, OthersStay
  <2>2. Outcome(q)
    BY <1>1, <1>9 DEF DatabaseError, Goto, Answer, TypeOK, Progress, Outcome
  <2>3. OneRowPerKey' /\ settlement_ledger \subseteq settlement_ledger'
    BY <1>3, <1>4, <1>9 DEF DatabaseError
  <2>4. QED
    BY <1>2, <1>9, <2>1, <2>2, <2>3, InvAfterHandlerStep DEF DatabaseError
<1>10. ASSUME NEW q \in Requests, Abandon(q)
       PROVE  IntakeInv'
  <2>1. OthersStay(q)
    BY <1>1, <1>10 DEF Abandon, Goto, TypeOK, OthersStay
  <2>2. OneRowPerKey' /\ settlement_ledger \subseteq settlement_ledger'
    BY <1>3, <1>4, <1>10 DEF Abandon
  <2>3. answer'[q] = 0 /\ phase'[q] = "dropped" /\ ppay_ref' = ppay_ref
    BY <1>1, <1>10 DEF Abandon, Goto, InFlight, TypeOK, Progress
  <2>4. Outcome(q)
    BY <1>1, <2>2, <2>3 DEF ResultIsCommitted, Stored, Outcome
  <2>5. \A payment \in payments' \ payments :
          payment.reference = q /\ payment.external_id \in ppay_ref[q]
    BY <1>10 DEF Abandon, Accept
  <2>6. QED
    BY <1>2, <1>10, <2>1, <2>2, <2>4, <2>5, InvAfterHandlerStep DEF Abandon
<1>11. CASE UNCHANGED vars
  BY <1>1, <1>2, <1>11
  DEF vars, IntakeInv, Progress, OneRowPerKey, ResultIsCommitted,
      PaymentsAreBacked, Stored, Key, Hash
<1>12. QED
  BY <1>5, <1>6, <1>7, <1>8, <1>9, <1>10, <1>11 DEF Next, HandlerStep

\* The strengthened invariant holds in every reachable state.
LEMMA IntakeInvariant == Spec => []IntakeInv
BY IntakeInit, IntakeStep, PTL DEF Spec

\* Handlers, ledger, payments and answers keep their types whatever the
\* requests, keys, bodies and faults are.
THEOREM IntakeTypeCorrect == Spec => []TypeOK
<1>1. IntakeInv => TypeOK
  BY DEF IntakeInv
<1>2. QED
  BY <1>1, IntakeInvariant, PTL

\* However many handlers look the same key up before one of them commits,
\* settlement_ledger has one row per idempotency key.
THEOREM KeysAreUnique == Spec => []OneRowPerKey
<1>1. IntakeInv => OneRowPerKey
  BY DEF IntakeInv
<1>2. QED
  BY <1>1, IntakeInvariant, PTL

\* What a handler pays for and answers is the committed transaction of its own
\* key and hash, and a 409 means that another hash holds the key.
THEOREM ResultsAreCommitted == Spec => []ResultIsCommitted
<1>1. IntakeInv => ResultIsCommitted
  BY DEF IntakeInv
<1>2. QED
  BY <1>1, IntakeInvariant, PTL

\* Every payment MTN has accepted is for a transaction that was committed
\* before it was asked, on the same terms.
THEOREM PaymentsAreAlwaysBacked == Spec => []PaymentsAreBacked
<1>1. IntakeInv => PaymentsAreBacked
  BY DEF IntakeInv
<1>2. QED
  BY <1>1, IntakeInvariant, PTL

-----------------------------------------------------------------------------
(***************************************************************************)
(* The promise of the idempotency key.                                     *)
(***************************************************************************)

\* A payment is the last thing its handler does.
PayersAreDone ==
  \A payment \in payments : phase[payment.reference] \in {"answered", "dropped"}

LEMMA PayersAreDoneNext == TypeOK /\ PayersAreDone /\ [Next]_vars => PayersAreDone'
<1> SUFFICES ASSUME TypeOK, PayersAreDone, [Next]_vars
             PROVE  PayersAreDone'
  OBVIOUS
<1>1. ASSUME NEW q \in Requests, NEW next,
             phase[q] \notin {"answered", "dropped"}, Goto(q, next),
             \/ UNCHANGED payments
             \/ Accept(q) /\ next \in {"answered", "dropped"}
      PROVE  PayersAreDone'
  BY <1>1 DEF PayersAreDone, TypeOK, Payment, Goto, Accept
<1>2. ASSUME NEW q \in Requests, Receive(q) \/ LookupKey(q) \/ InsertRows(q)
      PROVE  PayersAreDone'
  BY <1>1, <1>2 DEF Receive, LookupKey, InsertRows, Return, Answer
<1>3. ASSUME NEW q \in Requests, RequestToPay(q) \/ DatabaseError(q) \/ Abandon(q)
      PROVE  PayersAreDone'
  BY <1>1, <1>3 DEF RequestToPay, DatabaseError, Abandon, Answer, InFlight
<1>4. CASE UNCHANGED vars
  BY <1>4 DEF vars, PayersAreDone
<1>5. QED
  BY <1>2, <1>3, <1>4 DEF Next, HandlerStep

\* What the promise sees of the tables and the handlers.
AskedView == [q \in Requests |-> [key |-> Key(q), terms |-> Hash(q)]]
OwnerView ==
  [k \in Keys |-> {[ref |-> row.ppay_ref, terms |-> row.request_hash] :
                     row \in {x \in settlement_ledger : x.idempotency_key = k}}]
RefusedView == {q \in Requests : answer[q] = 409}
PaidView == {[by |-> payment.reference, for |-> payment.external_id] :
               payment \in payments}
PromiseView == <<AskedView, OwnerView, ppay_ref, RefusedView, PaidView>>

LEMMA AskedStays == request' = request => AskedView' = AskedView
BY DEF AskedView, Key, Hash

LEMMA KeyOfRequest ==
  ASSUME TypeOK, NEW q \in Requests
  PROVE  /\ Key(q) \in Keys
         /\ AskedView[q].key = Key(q) /\ AskedView[q].terms = Hash(q)
BY DEF TypeOK, Request, Key, AskedView

\* The owner of a key as its holder sees it is the stored row.
LEMMA OwnerIsStored ==
  ASSUME TypeOK, NEW q \in Requests
  PROVE  OwnerView[Key(q)] =
           {[ref |-> row.ppay_ref, terms |-> row.request_hash] : row \in Stored(q)}
BY KeyOfRequest DEF OwnerView, Stored

LEMMA OwnerAfterCommit ==
  ASSUME TypeOK, NEW q \in Requests, CommitRows(q)
  PROVE  /\ OwnerView[Key(q)] = {}
         /\ OwnerView' = [OwnerView EXCEPT ![Key(q)] = {[ref |-> q, terms |-> Hash(q)]}]
<1>1. /\ Stored(q) = {} /\ Key(q) \in Keys
      /\ settlement_ledger' = settlement_ledger \cup {NewRow(q)}
  BY KeyOfRequest DEF CommitRows
<1>2. OwnerView[Key(q)] = {}
  BY <1>1, OwnerIsStored
<1>3. ASSUME NEW k \in Keys
      PROVE  OwnerView'[k] = IF k = Key(q) THEN {[ref |-> q, terms |-> Hash(q)]}
                                           ELSE OwnerView[k]
  <2>1. {x \in settlement_ledger' : x.idempotency_key = k} =
          IF k = Key(q) THEN {NewRow(q)}
          ELSE {x \in settlement_ledger : x.idempotency_key = k}
    BY <1>1 DEF NewRow, Stored
  <2>2. /\ NewRow(q).ppay_ref = q /\ NewRow(q).request_hash = Hash(q)
    BY DEF NewRow
  <2>3. QED
    BY <2>1, <2>2 DEF OwnerView
<1>4. QED
  BY <1>2, <1>3 DEF OwnerView

LEMMA RefusedAfterAnswer ==
  ASSUME TypeOK, NEW q \in Requests, NEW status, answer[q] = 0,
         answer' = [answer EXCEPT ![q] = status]
  PROVE  RefusedView' = IF status = 409 THEN RefusedView \cup {q} ELSE RefusedView
BY DEF RefusedView, TypeOK

LEMMA PaidAfterAccept ==
  ASSUME NEW q \in Requests, Accept(q)
  PROVE  \E ref \in ppay_ref[q] : PaidView' = PaidView \cup {[by |-> q, for |-> ref]}
<1>1. PICK ref \in ppay_ref[q] :
        payments' = payments \cup {[reference |-> q, external_id |-> ref]}
  BY DEF Accept
<1>2. PaidView' = PaidView \cup {[by |-> q, for |-> ref]}
  <2> DEFINE new == [reference |-> q, external_id |-> ref]
             Seen(payment) == [by |-> payment.reference, for |-> payment.external_id]
  <2>1. PaidView' = {Seen(payment) : payment \in payments \cup {new}}
    BY <1>1 DEF PaidView
  <2>2. Seen(new) = [by |-> q, for |-> ref]
    OBVIOUS
  <2> HIDE DEF new, Seen
  <2>3. {Seen(payment) : payment \in payments \cup {new}} =
          {Seen(payment) : payment \in payments} \cup {Seen(new)}
    OBVIOUS
  <2>4. QED
    BY <2>1, <2>2, <2>3 DEF PaidView, Seen
<1>3. QED
  BY <1>2

LEMMA PromiseStart == Init => Promise!PromiseInit
<1> SUFFICES ASSUME Init
             PROVE  Promise!PromiseInit
  OBVIOUS
<1>1. \A q \in Requests : Key(q) \in Keys /\ Hash(q) \in Hashes
  BY DEF Init, Request, Key, Hash, Hashes
<1>2. [q \in Requests |-> [key |-> Key(q), terms |-> Hash(q)]]
        \in [Requests -> [key : Keys, terms : Hashes]]
  BY <1>1
<1>3. QED
  BY <1>2 DEF Init, Promise!PromiseInit

\* One step of the handler of q, as the promise sees it.
LEMMA PromiseStep ==
  ASSUME IntakeInv, PayersAreDone, NEW q \in Requests,
         Receive(q) \/ HandlerStep(q) \/ DatabaseError(q) \/ Abandon(q)
  PROVE  Promise!PromiseNext \/ UNCHANGED PromiseView
<1> USE DEF PromiseView
<1>t. TypeOK
  BY DEF IntakeInv
<1>a. AskedView' = AskedView
  BY AskedStays
  DEF Receive, HandlerStep, LookupKey, InsertRows, RequestToPay, DatabaseError, Abandon
<1>l. settlement_ledger' = settlement_ledger => OwnerView' = OwnerView
  BY DEF OwnerView
<1>p. payments' = payments => PaidView' = PaidView
  BY DEF PaidView
<1>r. answer' = answer => RefusedView' = RefusedView
  BY DEF RefusedView
<1>o. ASSUME phase[q] \in {"lookup", "insert"}
      PROVE  answer[q] = 0 /\ ppay_ref[q] = {} /\ Promise!Open(q)
  BY <1>o DEF IntakeInv, Progress, Promise!Open
<1>s. ASSUME phase[q] \notin {"answered", "dropped"}
      PROVE  answer[q] = 0 /\ \A p \in PaidView : p.by # q
  BY <1>s DEF IntakeInv, Progress, PayersAreDone, PaidView
<1>n. Promise!Take(q) \/ Promise!Share(q) \/ Promise!Refuse(q) \/ Promise!Pay(q)
        => Promise!PromiseNext
  BY DEF Promise!PromiseNext
<1>c. ASSUME CommitRows(q), PaidView' = PaidView, RefusedView' = RefusedView,
             ppay_ref' = ppay_ref \/ ppay_ref' = [ppay_ref EXCEPT ![q] = {q}]
      PROVE  Promise!Take(q)
  <2>1. Promise!Open(q)
    BY <1>c, <1>o DEF CommitRows
  <2>2. /\ OwnerView[Key(q)] = {}
        /\ OwnerView' = [OwnerView EXCEPT ![Key(q)] = {[ref |-> q, terms |-> Hash(q)]}]
    BY <1>t, <1>c, OwnerAfterCommit
  <2>3. AskedView[q].key = Key(q) /\ AskedView[q].terms = Hash(q)
    BY <1>t, KeyOfRequest
  <2>4. QED
    BY <1>a, <1>c, <2>1, <2>2, <2>3
    DEF Promise!Take, AskedView, OwnerView, RefusedView, PaidView
<1>y. ASSUME Accept(q), OwnerView' = OwnerView, RefusedView' = RefusedView,
             ppay_ref' = ppay_ref
      PROVE  Promise!Pay(q)
  <2>1. \A p \in PaidView : p.by # q
    BY <1>s, <1>y DEF Accept
  <2>2. \E ref \in ppay_ref[q] : PaidView' = PaidView \cup {[by |-> q, for |-> ref]}
    BY <1>y, PaidAfterAccept
  <2>3. QED
    BY <1>a, <1>y, <2>1, <2>2
    DEF Promise!Pay, AskedView, OwnerView, RefusedView, PaidView
<1>1. CASE Receive(q)
  BY <1>1, <1>a, <1>l, <1>p, <1>r DEF Receive
<1>2. CASE LookupKey(q)
  <2>1. /\ phase[q] = "lookup" /\ answer[q] = 0 /\ Promise!Open(q)
        /\ OwnerView' = OwnerView /\ PaidView' = PaidView
    BY <1>2, <1>l, <1>p, <1>o DEF LookupKey
  <2>2. ASSUME NEW row \in Stored(q), row.request_hash = Hash(q),
               Return(q, row.ppay_ref)
        PROVE  Promise!Share(q)
    <3>1. RefusedView' = RefusedView
      BY <1>t, <1>r, <2>1, <2>2, RefusedAfterAnswer DEF Return, Answer
    <3>2. [ref |-> row.ppay_ref, terms |-> row.request_hash] \in OwnerView[AskedView[q].key]
      BY <1>t, <2>2, OwnerIsStored, KeyOfRequest
    <3>3. AskedView[q].terms = row.request_hash
      BY <1>t, <2>2, KeyOfRequest
    <3>4. QED
      BY <1>a, <2>1, <2>2, <3>1, <3>2, <3>3
      DEF Return, Promise!Share, AskedView, OwnerView, RefusedView, PaidView
  <2>3. ASSUME NEW row \in Stored(q), row.request_hash # Hash(q),
               Answer(q, 409), UNCHANGED ppay_ref
        PROVE  Promise!Refuse(q)
    <3>1. RefusedView' = RefusedView \cup {q}
      BY <1>t, <2>1, <2>3, RefusedAfterAnswer DEF Answer
    <3>2. [ref |-> row.ppay_ref, terms |-> row.request_hash] \in OwnerView[AskedView[q].key]
      BY <1>t, <2>3, OwnerIsStored, KeyOfRequest
    <3>3. AskedView[q].terms # row.request_hash
      BY <1>t, <2>3, KeyOfRequest
    <3>4. QED
      BY <1>a, <2>1, <2>3, <3>1, <3>2, <3>3
      DEF Promise!Refuse, AskedView, OwnerView, RefusedView, PaidView
  <2>4. QED
    BY <1>2, <1>a, <1>n, <1>r, <2>1, <2>2, <2>3 DEF LookupKey
<1>3. CASE InsertRows(q)
  <2>1. answer[q] = 0 /\ PaidView' = PaidView
    BY <1>3, <1>o, <1>p DEF InsertRows
  <2>2. RefusedView' = RefusedView
    BY <1>3, <1>t, <1>r, <2>1, RefusedAfterAnswer DEF InsertRows, Return, Answer
  <2>3. QED
    BY <1>3, <1>a, <1>c, <1>l, <1>n, <2>1, <2>2 DEF InsertRows, Return
<1>4. CASE DatabaseError(q)
  <2>1. answer[q] = 0 /\ PaidView' = PaidView /\ ppay_ref' = ppay_ref
    BY <1>4, <1>o, <1>p DEF DatabaseError
  <2>2. RefusedView' = RefusedView
    <3>1. answer' = [answer EXCEPT ![q] = 500]
      BY <1>4 DEF DatabaseError, Answer
    <3>2. QED
      BY <1>t, <2>1, <3>1 DEF RefusedView, TypeOK
  <2>3. QED
    BY <1>4, <1>a, <1>c, <1>l, <1>n, <2>1, <2>2 DEF DatabaseError
<1>5. CASE RequestToPay(q)
  <2>1. answer[q] = 0 /\ OwnerView' = OwnerView /\ ppay_ref' = ppay_ref
    BY <1>5, <1>s, <1>l DEF RequestToPay
  <2>2. RefusedView' = RefusedView
    BY <1>5, <1>t, <2>1, RefusedAfterAnswer DEF RequestToPay, Answer
  <2>3. QED
    BY <1>5, <1>a, <1>n, <1>p, <1>y, <2>1, <2>2 DEF RequestToPay
<1>6. CASE Abandon(q)
  <2>1. ppay_ref' = ppay_ref /\ RefusedView' = RefusedView
    BY <1>6, <1>r DEF Abandon
  <2>2. QED
    BY <1>6, <1>a, <1>c, <1>l, <1>n, <1>p, <1>y, <2>1 DEF Abandon
<1>7. QED
  BY <1>1, <1>2, <1>3, <1>4, <1>5, <1>6 DEF HandlerStep

\* Races, failures and abandoned requests between lookup, insert and payment
\* (CreateAirtimeTx, CreateDataBundleTx and the handlers around them) never
\* break what an idempotency key promises: one owner for good, a request is
\* given that one or refused, and takes money once at most.
THEOREM IntakeKeepsPromise == Spec => ImplementsPromise
<1>1. Init => PayersAreDone
  BY DEF Init, PayersAreDone
<1>2. Spec => []PayersAreDone
  BY <1>1, PayersAreDoneNext, IntakeTypeCorrect, PTL DEF Spec
<1>3. IntakeInv /\ PayersAreDone /\ [Next]_vars => [Promise!PromiseNext]_PromiseView
  <2>1. UNCHANGED vars => UNCHANGED PromiseView
    BY DEF vars, PromiseView, AskedView, OwnerView, RefusedView, PaidView, Key, Hash
  <2>2. QED
    BY <2>1, PromiseStep DEF Next
<1>4. QED
  BY <1>2, <1>3, PromiseStart, IntakeInvariant, PTL
  DEF Spec, ImplementsPromise, Promise!PromiseSpec, PromiseView,
      AskedView, OwnerView, RefusedView, PaidView

=============================================================================
