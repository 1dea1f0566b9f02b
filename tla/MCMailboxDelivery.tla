-------------------------- MODULE MCMailboxDelivery --------------------------
(* Instances of MailboxDelivery for TLC. *)
EXTENDS MailboxDelivery, TLC

CONSTANTS i1, i2, m1, m2, m3, p1, p2, c1, c2, g1

Symmetry ==
  UNION {Permutations(S) :
           S \in {Page, Call, Instance \ Fallible, Fallible,
                  (Message \ SelfAuthored) \ Mortal, Mortal \ SelfAuthored}}

=============================================================================
