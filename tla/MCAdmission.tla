----------------------------- MODULE MCAdmission -----------------------------
(* Three challenges of a principal that moves from one instance to another. *)
EXTENDS Admission, TLC

CONSTANTS c1, c2, c3, A, B, q1, q2

Moves == c1 :> A @@ c2 :> B @@ c3 :> B
=============================================================================
