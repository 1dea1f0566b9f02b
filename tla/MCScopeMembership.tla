-------------------------- MODULE MCScopeMembership --------------------------
(* Instances of ScopeMembership for TLC. *)
EXTENDS ScopeMembership, TLC

CONSTANTS g, a, b, grp, r1, r2, q1, q2

F(id, body, kind, author, scope, route) ==
  [id |-> id, body |-> body, kind |-> kind, author |-> author, scope |-> scope,
   route |-> route, members |-> {}, finalizers |-> {}, signers |-> {},
   quorum |-> 0]

Snapshot(id, author, members, finalizers, signers, quorum) ==
  [F(id, 0, "snapshot", author, Global, r1) EXCEPT
     !.members = members, !.finalizers = finalizers, !.signers = signers,
     !.quorum = quorum]

\* The genesis admits a and b, a finalizer removes b, the genesis speaks.
GlobalFrames ==
  {Snapshot("s1", g, {g, a, b}, {g, a}, {g}, 1),
   Snapshot("s2", a, {g, a}, {g, a}, {g, a}, 2),
   F("d1", 0, "data", g, Global, r2)}

\* a is a member from a grant; a and the genesis use a group.
GroupFrames ==
  {F("ga", 0, "grant", a, Global, r1),
   F("ja", 0, "join", a, grp, r1), F("jg", 0, "join", g, grp, r1),
   F("la", 0, "leave", a, grp, r1), F("d2", 0, "data", g, grp, r1)}

\* The genesis admits a and publishes.
SeveredFrames ==
  {Snapshot("s3", g, {g, a}, {g, a}, {g}, 1),
   Snapshot("s4", a, {a}, {a}, {g, a}, 2),
   F("d1", 0, "data", g, Global, r2)}

\* A receipt or the grant expires, or fences are lost.
Worlds ==
  {[frames |-> GlobalFrames, severable |-> {},
    perishable |-> {f \in GlobalFrames : f.kind = "data"}],
   [frames |-> GroupFrames, severable |-> {},
    perishable |-> {f \in GroupFrames : f.kind = "grant"}],
   [frames |-> SeveredFrames, perishable |-> {}, severable |-> Req]}

Symmetry == Permutations(Req)
=============================================================================
