------------------------------ MODULE MCPinAuth ------------------------------
(* An instance of PinAuth for TLC. *)
EXTENDS PinAuth, TLC

CONSTANTS q1, q2, q3, q4, q5, phone1, pin1, pin2

OnePhone == {phone1}
TwoPins == {pin1, pin2}
FiveRequests == {q1, q2, q3, q4, q5}

\* Requests differ in nothing but what is chosen for them in Init.
Interchangeable == Permutations(FiveRequests)

=============================================================================
