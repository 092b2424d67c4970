-------------------------- MODULE IntakeRefinement --------------------------
(***************************************************************************)
(* The handlers and the store keep the promise of the idempotency key.     *)
(* Where a handler is, and what it answers when something has failed, is   *)
(* invisible there; a commit whose answer is lost takes the key without    *)
(* giving anybody its transaction.                                         *)
(***************************************************************************)
EXTENDS Intake

Promise == INSTANCE KeyPromise WITH
  Terms   <- Hashes,
  asked   <- [q \in Requests |-> [key |-> Key(q), terms |-> Hash(q)]],
  owner   <- [k \in Keys |->
               {[ref |-> row.ppay_ref, terms |-> row.request_hash] :
                  row \in {x \in settlement_ledger : x.idempotency_key = k}}],
  given   <- ppay_ref,
  refused <- {q \in Requests : answer[q] = 409},
  paid    <- {[by |-> payment.reference, for |-> payment.external_id] :
                payment \in payments}

\* Whatever races, fails or is abandoned between the lookup, the insert and
\* the payment of a request (CreateAirtimeTx, CreateDataBundleTx and their
\* handlers), its key is owned by one transaction for good, its client gets
\* that one or a refusal, and its money is asked for once.
ImplementsPromise == Promise!PromiseSpec

=============================================================================
