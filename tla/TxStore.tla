------------------------------ MODULE TxStore -------------------------------
(***************************************************************************)
(* The three tables of the transaction store and the transactions of       *)
(* internal/store that write them.  Every SQL transaction is one step:     *)
(* each locks the ledger row it changes (FOR UPDATE) before it reads it,   *)
(* or inserts rows nobody else can see before its commit.                  *)
(***************************************************************************)
EXTENDS Ledger, Naturals, Sequences

CONSTANTS
  Refs,        \* the ppay_ref values, named by the rank of their created_at
  Payloads     \* the requests that may arrive, see Payload

\* A request, reduced to what decides its fate in the worker: the last digits
\* of the phone number and the marker in the idempotency key.
Payload == [phone : {"888", "999", "plain"}, key : {"decline", "fail", "plain"}]

ASSUME RefsAssumption == Refs \subseteq Nat
ASSUME PayloadsAssumption == Payloads \subseteq Payload

VARIABLES
  settlement_ledger,   \* [Refs -> LedgerRow]
  transaction_events,  \* [Refs -> Seq(Event)], the audit trail of each ref
  outbox_events        \* [Refs -> OutboxRow]

tables == <<settlement_ledger, transaction_events, outbox_events>>

\* A row that has not been inserted is in state Absent.
Absent == "ABSENT"

LedgerRow ==
  [state : LedgerStates \cup {Absent}, recon_status : ReconStates,
   provider_status : {"NONE", "DELIVERED", "DECLINED", "TIMEOUT"},
   version : Nat]

OutboxStates == {"PENDING", "PROCESSING", "SENT", "FAILED"}

\* due abstracts next_retry_at <= NOW().
OutboxRow ==
  [state : OutboxStates \cup {Absent}, attempt_count : Nat, due : BOOLEAN,
   payload : Payload]

Sources == {"api", "manual-reconcile", "outbox-worker", "provider-simulator"}

Event == [workflow_state : WorkflowStates, event_source : Sources]

AuditEvent(workflow, source) ==
  [workflow_state |-> workflow, event_source |-> source]

NoLedgerRow ==
  [state |-> Absent, recon_status |-> "UNRECONCILED",
   provider_status |-> "NONE", version |-> 0]

NoOutboxRow ==
  [state |-> Absent, attempt_count |-> 0, due |-> FALSE,
   payload |-> [phone |-> "plain", key |-> "plain"]]

StoreInit ==
  /\ settlement_ledger = [r \in Refs |-> NoLedgerRow]
  /\ transaction_events = [r \in Refs |-> <<>>]
  /\ outbox_events = [r \in Refs |-> NoOutboxRow]

-----------------------------------------------------------------------------
\* CreateAirtimeTx and CreateDataBundleTx for an idempotency key that has no
\* row yet: ledger row, first audit event and outbox row in one commit.  (A
\* key that has a row is answered from it and changes nothing.)
CreateTx(r, payload) ==
  /\ settlement_ledger[r].state = Absent
  /\ settlement_ledger' = [settlement_ledger EXCEPT ![r] =
       [state |-> "INITIATED", recon_status |-> "UNRECONCILED",
        provider_status |-> "NONE", version |-> 1]]
  /\ transaction_events' = [transaction_events EXCEPT ![r] =
       <<AuditEvent("INITIATED", "api")>>]
  /\ outbox_events' = [outbox_events EXCEPT ![r] =
       [state |-> "PENDING", attempt_count |-> 0, due |-> TRUE,
        payload |-> payload]]

\* UPDATE settlement_ledger SET ..., version = version + 1, once per event.
UpdateLedger(r, row, events) ==
  settlement_ledger' = [settlement_ledger EXCEPT ![r] =
    [row EXCEPT !.version = row.version + events]]

\* Mutant: the audit event of a reconciliation is not written.
ReconcileUnaudited(r, target) ==
  /\ CanTransition(settlement_ledger[r].state, target)
  /\ UpdateLedger(r, [settlement_ledger[r] EXCEPT
                       !.state = target, !.recon_status = "RECONCILED"], 1)
  /\ UNCHANGED <<transaction_events, outbox_events>>

\* ReconcileTransaction; when canTransition refuses, the call returns an error
\* and changes nothing.  The outbox row is not looked at.
ReconcileTransaction(r, target) ==
  /\ CanTransition(settlement_ledger[r].state, target)
  /\ UpdateLedger(r, [settlement_ledger[r] EXCEPT
                       !.state = target, !.recon_status = "RECONCILED"], 1)
  /\ transaction_events' = [transaction_events EXCEPT
       ![r] = Append(@, AuditEvent(target, "manual-reconcile"))]
  /\ UNCHANGED outbox_events

=============================================================================
