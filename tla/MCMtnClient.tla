---------------------------- MODULE MCMtnClient -----------------------------
(* Start-up and two requests that share one token. *)
EXTENDS MtnClient

CONSTANTS startup, pay, status

AllCallers == {startup, pay, status}
AllRequesters == {pay, status}
\* One that is refreshed as soon as it is asked for, and one that is not.
ShortAndLong == {3, 6}

=============================================================================
