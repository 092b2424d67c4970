--------------------------- MODULE MCSharedOutbox ---------------------------
(* One current and two legacy workers on one outbox. *)
EXTENDS SharedOutbox

CONSTANTS current, legacy1, legacy2

AllWorkers == {current, legacy1, legacy2}
OnlyLegacy == {legacy1, legacy2}
OneRef == {1}

Plain == [phone |-> "plain", key |-> "plain"]
TimesOut == [phone |-> "999", key |-> "plain"]
Declines == [phone |-> "plain", key |-> "decline"]
AllAnswers == {Plain, TimesOut, Declines}

FullSchema == ClaimColumns \cup FailureColumns
AllTargets == ValidTargetStatuses
AllStatuses == MTNStatuses
AllFaults == {"stop", "dberror"}

=============================================================================
