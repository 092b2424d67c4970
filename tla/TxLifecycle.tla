---------------------------- MODULE TxLifecycle -----------------------------
(***************************************************************************)
(* What the transaction engine promises to the client that holds a         *)
(* ppay_ref: an accepted transaction is open until its outcome is known or *)
(* given up as UNKNOWN; an outcome is final; the product is delivered at   *)
(* most once, and only by the step that settles the open transaction.      *)
(***************************************************************************)
CONSTANT Refs

VARIABLES
  status,     \* [Refs -> Status], what GET /transactions/{ref} amounts to
  delivered   \* the references whose product the provider has delivered

Status == {"NONE", "OPEN", "UNKNOWN", "SETTLED", "FAILED", "REVERSED"}

LifecycleInit ==
  /\ status = [r \in Refs |-> "NONE"]
  /\ delivered = {}

\* The transaction r goes from one of the given states to another one.
Move(r, from, to) ==
  /\ status[r] \in from
  /\ status' = [status EXCEPT ![r] = to]

Accept(r)  == Move(r, {"NONE"}, "OPEN") /\ UNCHANGED delivered
Deliver(r) == Move(r, {"OPEN"}, "SETTLED") /\ delivered' = delivered \cup {r}
Confirm(r) == Move(r, {"OPEN", "UNKNOWN"}, "SETTLED") /\ UNCHANGED delivered
Decline(r) == Move(r, {"OPEN", "UNKNOWN"}, "FAILED") /\ UNCHANGED delivered
GiveUp(r)  == Move(r, {"OPEN"}, "UNKNOWN") /\ UNCHANGED delivered
Reverse(r) == Move(r, {"UNKNOWN"}, "REVERSED") /\ UNCHANGED delivered

LifecycleNext ==
  \E r \in Refs :
    \/ Accept(r) \/ Deliver(r) \/ Confirm(r)
    \/ Decline(r) \/ GiveUp(r) \/ Reverse(r)

LifecycleSpec ==
  LifecycleInit /\ [][LifecycleNext]_<<status, delivered>>

=============================================================================
