--------------------------- MODULE MCOutboxWorker ---------------------------
(* Instances of OutboxWorker for TLC. *)
EXTENDS OutboxRefinement

CONSTANTS w1, w2

TwoWorkers == {w1, w2}
TwoRefs == 1..2
ThreeRefs == 1..3

Plain == [phone |-> "plain", key |-> "plain"]
TimesOut == [phone |-> "999", key |-> "plain"]
\* 999 asks for a timeout and the key for a decline: the decline wins.
Declines == [phone |-> "999", key |-> "decline"]
AllAnswers == {Plain, TimesOut, Declines}

FullSchema == ClaimColumns \cup FailureColumns
\* docs/schema.sql: settlement_ledger.state is text, there is no type
\* ledger_state, and transaction_events has no reason_code.
DumpedSchema == ClaimColumns

AllTargets == ValidTargetStatuses
AllStatuses == MTNStatuses
\* Callbacks that report an outcome.
Outcomes == {"SUCCESSFUL", "FAILED"}
AllFaults == {"stop", "dberror"}
JustStop == {"stop"}
None == {}

=============================================================================
