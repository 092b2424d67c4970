------------------------------- MODULE Ledger -------------------------------
(***************************************************************************)
(* The pure part of the settlement ledger: the states a row of             *)
(* settlement_ledger goes through, the transition table of the store and   *)
(* the conversions between the vocabularies that meet in it (MTN status    *)
(* strings, reconciliation targets, workflow states of the audit trail).   *)
(***************************************************************************)

\* internal/ledger/states.go: the values of LedgerState.
LedgerStates ==
  {"INITIATED", "PENDING", "SETTLED", "FAILED", "REVERSED", "UNKNOWN"}

\* internal/ledger/states.go: the values of ReconState.
ReconStates == {"UNRECONCILED", "RECONCILED"}

\* Mutant: a settled transaction may still be reversed.
CanTransitionReversesSettled(from, to) ==
  \/ from = "INITIATED" /\ to = "PENDING"
  \/ from = "PENDING"   /\ to \in {"SETTLED", "FAILED", "UNKNOWN"}
  \/ from \in {"UNKNOWN", "SETTLED"} /\ to \in {"SETTLED", "FAILED", "REVERSED"}

\* Mutant: a callback may take an UNKNOWN transaction back to PENDING.
CanTransitionReopens(from, to) ==
  \/ from = "INITIATED" /\ to = "PENDING"
  \/ from = "PENDING"   /\ to \in {"SETTLED", "FAILED", "UNKNOWN"}
  \/ from = "UNKNOWN"   /\ to \in {"PENDING", "SETTLED", "FAILED", "REVERSED"}

\* Mutant: an outcome may come before the worker's PENDING.
CanTransitionEarly(from, to) ==
  \/ from \in {"INITIATED", "PENDING"} /\ to \in {"PENDING", "SETTLED", "FAILED", "UNKNOWN"}
  \/ from = "UNKNOWN"   /\ to \in {"SETTLED", "FAILED", "REVERSED"}

\* store.canTransition: what a reconciliation or a callback may do to a row.
CanTransition(from, to) ==
  \/ from = "INITIATED" /\ to = "PENDING"
  \/ from = "PENDING"   /\ to \in {"SETTLED", "FAILED", "UNKNOWN"}
  \/ from = "UNKNOWN"   /\ to \in {"SETTLED", "FAILED", "REVERSED"}

\* The states for which canTransition has only its default branch.
FinalStates == {"SETTLED", "FAILED", "REVERSED"}

-----------------------------------------------------------------------------
\* MTN reports SUCCESSFUL, FAILED or PENDING; "OTHER" stands for any string
\* the switches do not name.
MTNStatuses == {"SUCCESSFUL", "FAILED", "PENDING", "OTHER"}

\* handlers.mapMTNCallbackStatus: the target state of a collection callback.
MapMTNCallbackStatus(status) ==
  CASE status = "SUCCESSFUL" -> "SETTLED"
    [] status = "FAILED"     -> "FAILED"
    [] OTHER                 -> "PENDING"

\* CollectionClient.MapSettlementStatus.
MapSettlementStatus(status) ==
  CASE status = "SUCCESSFUL" -> "completed"
    [] status = "FAILED"     -> "failed"
    [] OTHER                 -> "pending"

\* TxReconcileHandler with an empty target_status asks MTN for the target.
LookupTarget(status) ==
  CASE MapSettlementStatus(status) = "completed" -> "SETTLED"
    [] MapSettlementStatus(status) = "failed"    -> "FAILED"
    [] OTHER                                     -> "UNKNOWN"

\* TxReconcileHandler.validTargetStatuses.
ValidTargetStatuses == {"SETTLED", "FAILED", "UNKNOWN", "REVERSED"}

-----------------------------------------------------------------------------
\* Every workflow_state the program writes into transaction_events: the
\* ledger states and the worker's own RETRY_SCHEDULED.
WorkflowStates == LedgerStates \cup {"RETRY_SCHEDULED"}

\* The ledger state a workflow state leaves the row in: the worker writes
\* RETRY_SCHEDULED together with a return to INITIATED, every other workflow
\* state together with the ledger state of the same name.
LedgerStateAfter(workflow) ==
  IF workflow = "RETRY_SCHEDULED" THEN "INITIATED" ELSE workflow

=============================================================================
