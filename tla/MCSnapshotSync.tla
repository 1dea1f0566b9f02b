--------------------------- MODULE MCSnapshotSync ---------------------------
(* Instances of SnapshotSync, and of PublicApi over its rows, for TLC. *)
EXTENDS PublicApi, TLC

CONSTANTS g1, g2, w1, w2

\* Two workers of one gateway.
Together == w1 :> g1 @@ w2 :> g1

Symmetry == Permutations({w1, w2})

\* One node, which signs twice.
Twice == {<<2>>}

\* A node that signs twice, or two that sign once.
TwiceOrTwo == {<<2, 0>>, <<1, 1>>}

\* The second snapshot has lost the coordinates of its operator, and a new peer.
Neighbours ==
  << <<[id |-> 1, geo |-> TRUE], [id |-> 2, geo |-> TRUE]>>,
     <<[id |-> 1, geo |-> FALSE], [id |-> 2, geo |-> TRUE], [id |-> 3, geo |-> TRUE]>> >>

\* One worker at either gateway.
Apart == w1 :> g1 @@ w2 :> g2
=============================================================================
