--------------------------- MODULE MCUssdSession ----------------------------
(* Two sessions; empty inputs, every key of a menu, and a key of none. *)
EXTENDS UssdSession

CONSTANTS s1, s2

TwoSessions == {s1, s2}
AnyInput == 0..8

=============================================================================
