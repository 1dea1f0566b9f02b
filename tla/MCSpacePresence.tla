--------------------------- MODULE MCSpacePresence ---------------------------
(* Two agents, a node's heartbeat and a world event. *)
EXTENDS SpacePresence

CONSTANTS p1, p2, h, w, q1, q2

R(k, s) == [key |-> k, seq |-> s]
E(k, s) == [kind |-> "event", records |-> <<R(k, s)>>]

\* Two snapshots of different nodes that name the agents in opposite orders.
Snapshots ==
  {[kind |-> "snapshot", records |-> <<R(p1, 1), R(p2, 2), R(h, 1)>>],
   [kind |-> "snapshot", records |-> <<R(p2, 1), R(p1, 2), R(w, 1)>>]}

Inputs == Snapshots \cup {E(p1, 1), E(p1, 2), E(p2, 3), E(h, 2), E(w, 1)}
=============================================================================
