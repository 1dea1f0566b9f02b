-------------------------- MODULE MCGossipLimiter --------------------------
(* An instance of GossipLimiter for TLC. *)
EXTENDS GossipLimiter, TLC

CONSTANTS a1, a2, a3, b1, c1, A, B, C

Announcers ==
  [t \in Gossip |-> CASE t \in {a1, a2, a3} -> A [] t = b1 -> B [] t = c1 -> C]

Symmetry == Permutations({a1, a2, a3})

=============================================================================
