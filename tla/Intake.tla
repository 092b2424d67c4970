------------------------------- MODULE Intake -------------------------------
(***************************************************************************)
(* POST /tx/airtime and POST /tx/data-bundle: concurrent requests, some of *)
(* them duplicates, against the idempotency key of settlement_ledger, and  *)
(* the payment that the airtime handler asks of MTN after the commit.      *)
(*                                                                         *)
(* The key is looked up with a plain SELECT and inserted by a later        *)
(* statement; only the UNIQUE constraint on the key stands between the     *)
(* two.  What OutboxWorker has as one step, Create, is taken apart here.   *)
(***************************************************************************)
EXTENDS Naturals

CONSTANTS
  Requests,   \* the requests; a row's ppay_ref is the request that made it
  Keys,       \* the values of X-Idempotency-Key
  Bodies,     \* the request bodies that may arrive
  Faults      \* which of "dberror", "mtn" and "abandon" may happen

\* A request body, reduced to what the handlers and the hash tell apart.
Body == [product : {"airtime", "data_bundle"}, network : {"MTN", "ZAIN"},
         terms : {"cheap", "dear"}, bundle_size_mb : Nat]

ASSUME BodiesAssumption == Bodies \subseteq Body

VARIABLES
  request,            \* [Requests -> Request], what was received
  phase,              \* [Requests -> Phases], where its handler is
  settlement_ledger,  \* the committed rows
  payments,           \* what MTN has accepted by RequestToPay
  ppay_ref,           \* [Requests -> SUBSET Requests], the handler's result
  answer              \* [Requests -> Answers], the HTTP status

vars == <<request, phase, settlement_ledger, payments, ppay_ref, answer>>

Request == [idempotency_key : Keys, body : Bodies]

\* The handlers' local states; "dropped" is a request that nobody answers.
InFlight == {"lookup", "insert", "pay"}
Phases == InFlight \cup {"idle", "answered", "dropped"}

Answers == {0, 202, 409, 500, 502}

\* hashAirtimeRequest and hashDataBundleRequest, which leaves the size out.
RequestHash(body) == <<body.product, body.network, body.terms>>

Hashes == {RequestHash(body) : body \in Bodies}

Row == [ppay_ref : Requests, idempotency_key : Keys, request_hash : Hashes]

\* A payment is known to MTN by the X-Reference-Id its handler made up, and
\* carries the ppay_ref as externalId.
Payment == [reference : Requests, external_id : Requests]

Key(q) == request[q].idempotency_key
Hash(q) == RequestHash(request[q].body)

\* The rows a SELECT by the key of q sees.
Stored(q) == {row \in settlement_ledger : row.idempotency_key = Key(q)}

\* h.MTNClient != nil && req.Network == "MTN", in AirtimeHandler only.
Payable(q) == request[q].body.product = "airtime" /\ request[q].body.network = "MTN"

Init ==
  /\ request \in [Requests -> Request]
  /\ phase = [q \in Requests |-> "idle"]
  /\ settlement_ledger = {}
  /\ payments = {}
  /\ ppay_ref = [q \in Requests |-> {}]
  /\ answer = [q \in Requests |-> 0]

-----------------------------------------------------------------------------
Goto(q, next) == phase' = [phase EXCEPT ![q] = next]

\* writeJSONError, or 202.
Answer(q, status) ==
  Goto(q, "answered") /\ answer' = [answer EXCEPT ![q] = status]

\* The store's result, and what the handler does with it.
Return(q, ref) ==
  /\ ppay_ref' = [ppay_ref EXCEPT ![q] = {ref}]
  /\ IF Payable(q) THEN Goto(q, "pay") /\ UNCHANGED answer ELSE Answer(q, 202)

\* A handler starts; what it validates is valid.
Receive(q) ==
  /\ phase[q] = "idle"
  /\ Goto(q, "lookup")
  /\ UNCHANGED <<request, settlement_ledger, payments, ppay_ref, answer>>

\* Mutant: a row with the key is replayed whatever its hash.
LookupAnyHash(q) ==
  /\ phase[q] = "lookup"
  /\ \/ Stored(q) = {} /\ Goto(q, "insert") /\ UNCHANGED <<ppay_ref, answer>>
     \/ \E row \in Stored(q) : Return(q, row.ppay_ref)
  /\ UNCHANGED <<request, settlement_ledger, payments>>

\* The SELECT by idempotency_key: nothing found, a replay, or a conflict.
LookupKey(q) ==
  /\ phase[q] = "lookup"
  /\ \/ Stored(q) = {} /\ Goto(q, "insert") /\ UNCHANGED <<ppay_ref, answer>>
     \/ \E row \in Stored(q) :
          row.request_hash = Hash(q) /\ Return(q, row.ppay_ref)
     \/ \E row \in Stored(q) :
          row.request_hash # Hash(q) /\ Answer(q, 409) /\ UNCHANGED ppay_ref
  /\ UNCHANGED <<request, settlement_ledger, payments>>

\* Mutant: the row is inserted without its hash.
NewRowUnhashed(q) ==
  [ppay_ref |-> q, idempotency_key |-> Key(q), request_hash |-> <<>>]

NewRow(q) ==
  [ppay_ref |-> q, idempotency_key |-> Key(q), request_hash |-> Hash(q)]

\* Mutant: the key has no UNIQUE constraint.
InsertUnguarded(q) ==
  /\ phase[q] = "insert"
  /\ settlement_ledger' = settlement_ledger \cup {NewRow(q)}
  /\ Return(q, q)
  /\ UNCHANGED <<request, payments>>

\* Mutant: ON CONFLICT DO NOTHING, and on with the new reference.
InsertIgnoringConflict(q) ==
  /\ phase[q] = "insert"
  /\ settlement_ledger' =
       IF Stored(q) = {} THEN settlement_ledger \cup {NewRow(q)} ELSE settlement_ledger
  /\ Return(q, q)
  /\ UNCHANGED <<request, payments>>

\* Mutant: the loser of the race waits for the key to become free.
InsertWaiting(q) ==
  /\ phase[q] = "insert"
  /\ Stored(q) = {}
  /\ settlement_ledger' = settlement_ledger \cup {NewRow(q)}
  /\ Return(q, q)
  /\ UNCHANGED <<request, payments>>

\* The commit, which makes the row of settlement_ledger visible together with
\* its first event and its outbox row; the row stands for the three.
CommitRows(q) ==
  /\ phase[q] = "insert"
  /\ Stored(q) = {}
  /\ settlement_ledger' = settlement_ledger \cup {NewRow(q)}

\* The INSERTs and the commit.  An insert waits for a concurrent one with the
\* same key to commit or to roll back; the UNIQUE constraint then refuses it.
InsertRows(q) ==
  /\ phase[q] = "insert"
  /\ \/ CommitRows(q) /\ Return(q, q)
     \/ /\ Stored(q) # {}
        /\ Answer(q, 500)
        /\ UNCHANGED <<settlement_ledger, ppay_ref>>
  /\ UNCHANGED <<request, payments>>

\* The database fails: nothing is committed, or the answer of the commit is
\* lost after it.
DatabaseError(q) ==
  /\ "dberror" \in Faults
  /\ phase[q] \in {"lookup", "insert"}
  /\ UNCHANGED settlement_ledger \/ CommitRows(q)
  /\ Answer(q, 500)
  /\ UNCHANGED <<request, payments, ppay_ref>>

\* MTN takes the payment q asks for, under a reference made up by this call.
Accept(q) ==
  /\ phase[q] = "pay"
  /\ \E ref \in ppay_ref[q] :
       payments' = payments \cup {[reference |-> q, external_id |-> ref]}

\* MTNClient.RequestToPay, on a replay as well: MTN accepts and the client
\* learns of it, or does not, or MTN never accepts.
RequestToPay(q) ==
  /\ phase[q] = "pay"
  /\ \/ Accept(q) /\ Answer(q, 202)
     \/ /\ "mtn" \in Faults
        /\ UNCHANGED payments \/ Accept(q)
        /\ Answer(q, 502)
  /\ UNCHANGED <<request, settlement_ledger, ppay_ref>>

\* The client goes away, which cancels r.Context(), or the API process ends.
\* Nobody is answered; what was under way is rolled back or never reaches MTN,
\* unless the commit or the payment was already sent.
Abandon(q) ==
  /\ "abandon" \in Faults
  /\ phase[q] \in InFlight
  /\ Goto(q, "dropped")
  /\ \/ UNCHANGED <<settlement_ledger, payments>>
     \/ CommitRows(q) /\ UNCHANGED payments
     \/ Accept(q) /\ UNCHANGED settlement_ledger
  /\ UNCHANGED <<request, ppay_ref, answer>>

HandlerStep(q) == LookupKey(q) \/ InsertRows(q) \/ RequestToPay(q)

Next ==
  \E q \in Requests :
    Receive(q) \/ HandlerStep(q) \/ DatabaseError(q) \/ Abandon(q)

Spec == Init /\ [][Next]_vars

\* net/http runs every handler in a goroutine of its own.
FairSpec == Spec /\ \A q \in Requests : WF_vars(HandlerStep(q))

-----------------------------------------------------------------------------
(***************************************************************************)
(* Properties.                                                             *)
(***************************************************************************)

\* Every variable has its type.
TypeOK ==
  /\ request \in [Requests -> Request]
  /\ phase \in [Requests -> Phases]
  /\ settlement_ledger \subseteq Row
  /\ payments \subseteq Payment
  /\ ppay_ref \in [Requests -> SUBSET Requests]
  /\ answer \in [Requests -> Answers]

\* docs/ussd-backend-v0.1.md:340, "settlement_ledger contains exactly one row
\* per idempotency key", however many duplicates are looked up at once.
OneRowPerKey ==
  \A row, other \in settlement_ledger :
    row.idempotency_key = other.idempotency_key => row = other

\* The handler of q works for the committed transaction of its own key, made
\* from a request with the same hash; a 409 is answered only where the key
\* belongs to a transaction with another hash, and then there is no result.
ResultIsCommitted ==
  \A q \in Requests :
    /\ phase[q] = "pay" \/ answer[q] \in {202, 502} => ppay_ref[q] # {}
    /\ \A ref \in ppay_ref[q] :
         \E row \in Stored(q) : row.ppay_ref = ref /\ row.request_hash = Hash(q)
    /\ answer[q] = 409 =>
         /\ ppay_ref[q] = {}
         /\ \E row \in Stored(q) : row.request_hash # Hash(q)

\* MTN is never asked to take money for a transaction that does not exist, or
\* for other terms than the stored ones, though a lost race or the end of a request
\* may come between any two steps of the handler.
PaymentsAreBacked ==
  \A payment \in payments :
    \E row \in settlement_ledger :
      /\ row.ppay_ref = payment.external_id
      /\ row.request_hash = Hash(payment.reference)
      /\ row.idempotency_key = Key(payment.reference)

\* Every request that is received is answered, or nobody waits for it.
EveryRequestAnswered ==
  \A q \in Requests :
    phase[q] \in InFlight ~> phase[q] \in {"answered", "dropped"}

\* docs/ussd-backend-v0.1.md:339, "Duplicate requests with the same
\* X-Idempotency-Key and identical payload reuse the same ppay_ref": of two
\* such requests that are answered, both have the reference.
DuplicatesReuseRef ==
  \A p, q \in Requests :
    request[p] = request[q] /\ answer[p] # 0 /\ answer[q] # 0
      => ppay_ref[p] = ppay_ref[q] /\ ppay_ref[p] # {}

\* internal/handlers/transactions_test.go:75, "idempotency key reused with
\* different payload" is a conflict: requests that are given the same
\* reference have the same payload.
SameRefSamePayload ==
  \A p, q \in Requests :
    ppay_ref[p] \cap ppay_ref[q] # {} => request[p].body = request[q].body

=============================================================================
