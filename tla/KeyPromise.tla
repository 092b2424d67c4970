----------------------------- MODULE KeyPromise -----------------------------
(***************************************************************************)
(* What an idempotency key promises to the clients that use it: the first  *)
(* transaction taken under a key owns it for good, with the terms it was   *)
(* asked for; a request is given that transaction if it asks for the same  *)
(* terms, or is refused if it does not, and never both; and a request      *)
(* takes money once at most, for the transaction that it has been given.   *)
(***************************************************************************)
CONSTANTS Requests, Keys, Terms

VARIABLES
  asked,     \* [Requests -> [key : Keys, terms : Terms]], never changed
  owner,     \* [Keys -> SUBSET Transaction], at most one each
  given,     \* [Requests -> SUBSET Requests], the transaction it has
  refused,   \* the requests told that their key is used for other terms
  paid       \* the payments [by, for]: a request took money for a transaction

Transaction == [ref : Requests, terms : Terms]

PromiseInit ==
  /\ asked \in [Requests -> [key : Keys, terms : Terms]]
  /\ owner = [k \in Keys |-> {}]
  /\ given = [q \in Requests |-> {}]
  /\ refused = {}
  /\ paid = {}

\* q has neither a transaction nor a refusal.
Open(q) == given[q] = {} /\ q \notin refused

\* The transaction of q becomes the owner of its free key; its client may
\* learn of it at once, or never.
Take(q) ==
  /\ Open(q)
  /\ owner[asked[q].key] = {}
  /\ owner' = [owner EXCEPT ![asked[q].key] = {[ref |-> q, terms |-> asked[q].terms]}]
  /\ UNCHANGED given \/ given' = [given EXCEPT ![q] = {q}]
  /\ UNCHANGED <<asked, refused, paid>>

\* A later request for the same terms shares the owner of the key.
Share(q) ==
  /\ Open(q)
  /\ \E tx \in owner[asked[q].key] :
       tx.terms = asked[q].terms /\ given' = [given EXCEPT ![q] = {tx.ref}]
  /\ UNCHANGED <<asked, owner, refused, paid>>

Refuse(q) ==
  /\ Open(q)
  /\ \E tx \in owner[asked[q].key] : tx.terms # asked[q].terms
  /\ refused' = refused \cup {q}
  /\ UNCHANGED <<asked, owner, given, paid>>

Pay(q) ==
  /\ \A p \in paid : p.by # q
  /\ \E ref \in given[q] : paid' = paid \cup {[by |-> q, for |-> ref]}
  /\ UNCHANGED <<asked, owner, given, refused>>

PromiseNext == \E q \in Requests : Take(q) \/ Share(q) \/ Refuse(q) \/ Pay(q)

PromiseSpec ==
  PromiseInit /\ [][PromiseNext]_<<asked, owner, given, refused, paid>>

=============================================================================
