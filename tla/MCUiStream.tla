------------------------------ MODULE MCUiStream ------------------------------
(* Instances of UiStream for TLC. *)
EXTENDS UiStream

CONSTANTS e1, e2, e3, p1, p2, g1, g2, c1

=============================================================================
