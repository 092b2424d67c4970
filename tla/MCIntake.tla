------------------------------ MODULE MCIntake ------------------------------
(* Instances of Intake for TLC. *)
EXTENDS IntakeRefinement

CONSTANTS q1, q2, q3, k1, k2

TwoRequests == {q1, q2}
ThreeRequests == {q1, q2, q3}
OneKey == {k1}
TwoKeys == {k1, k2}

MtnAirtime == [product |-> "airtime", network |-> "MTN", terms |-> "cheap",
               bundle_size_mb |-> 0]
DearMtnAirtime == [MtnAirtime EXCEPT !.terms = "dear"]
SmallBundle == [product |-> "data_bundle", network |-> "ZAIN",
                terms |-> "cheap", bundle_size_mb |-> 1]
BigBundle == [SmallBundle EXCEPT !.bundle_size_mb = 2]

AllBodies == {MtnAirtime, DearMtnAirtime, SmallBundle, BigBundle}
OneBody == {MtnAirtime}
Bundles == {SmallBundle, BigBundle}

AllFaults == {"dberror", "mtn", "abandon"}
None == {}

=============================================================================
