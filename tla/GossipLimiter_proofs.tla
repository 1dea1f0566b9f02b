------------------------ MODULE GossipLimiter_proofs ------------------------
(***************************************************************************)
(* The limits on the work that gossip causes, and that no task is left     *)
(* asleep, for any announcements, peers, workers and capacity.             *)
(***************************************************************************)
EXTENDS GossipLimiter, FiniteSetTheorems, TLAPS

\* The tasks that hold the permit of their peer, or a snapshot permit.
HoldsPeer == {"all", "backOff", "fetch"}
HoldsAll == {"fetch", "tellPeer", "freeAll"}

\* The tasks admitted for a peer.
In(p) == {t \in Gossip : pc[t] \in Admitted /\ Announcer[t] = p}

(***************************************************************************)
(* Entries: the count is exact, an entry is of the peer of the task that   *)
(* made it, and what is no entry counts nothing.                           *)
(***************************************************************************)
EntryInv ==
  /\ IsFiniteSet(At(Admitted))
  /\ \A p \in Peer : /\ entry[p] = Nil <=> In(p) = {}
                     /\ \A t \in In(p) : gate[t] = entry[p]
                     /\ In(p) # {} => pending[entry[p]] = Cardinality(In(p))
                     /\ entry[p] # Nil => Announcer[entry[p]] = p
  /\ \A e \in Gossip : entry[Announcer[e]] # e => pending[e] = 0

(***************************************************************************)
(* Permits: every snapshot permit is free or held, and the permit of an    *)
(* entry is held by one task if it is not free.                            *)
(***************************************************************************)
PermitInv ==
  /\ free[All] + Cardinality(At(HoldsAll)) = Workers
  /\ \A e \in Gossip : free[e] <= 1
  /\ \A t, u \in Gossip : gate[t] = gate[u] /\ pc[t] \in HoldsPeer /\ pc[u] \in HoldsPeer => t = u
  /\ \A t \in Gossip : pc[t] \in Admitted
       => (free[gate[t]] = 0 <=> \E u \in Gossip : gate[u] = gate[t] /\ pc[u] \in HoldsPeer)

(***************************************************************************)
(* A Notify has registered the tasks that sleep on it, each once, and      *)
(* holds a permit only when there are none.                                *)
(***************************************************************************)
SleepsOn(t, n) == \/ pc[t] = "onAll" /\ n = All
                  \/ pc[t] = "onPeer" /\ gate[t] = n
Registered(n) ==
  /\ \A t \in Gossip : SleepsOn(t, n) <=> \E i \in DOMAIN waiters[n] : waiters[n][i] = t
  /\ \A i, j \in DOMAIN waiters[n] : waiters[n][i] = waiters[n][j] => i = j
  /\ n \in stored => waiters[n] = <<>>
NotifyInv == \A n \in Gossip \cup {All} : Registered(n)

(***************************************************************************)
(* A free permit of an entry that a task wants is about to be tried, or    *)
(* its notification is on the way or stored.                               *)
(***************************************************************************)
Wanting == {"passOn", "waitPeer", "onPeer"}
PeerWakers == {"peer", "woken", "retell", "tellPeer"}
PeerWaker(e) == e \in stored \/ \E u \in Gossip : gate[u] = e /\ pc[u] \in PeerWakers
PeerInv(e) == \A t \in Gossip : gate[t] = e /\ pc[t] \in Wanting /\ free[e] > 0 => PeerWaker(e)
PeerWakeInv == \A e \in Gossip : PeerInv(e)

(***************************************************************************)
(* A task that was turned away is not the last: a notification is stored,  *)
(* or a task holds a snapshot permit or comes for one; and unless every    *)
(* such task missed a notification, so many come as permits are free.      *)
(***************************************************************************)
Turned == TurnedAway \cup {"onAll"}
Coming == {"woken", "passOn", "all", "tellAll"}
AllWakers == Coming \cup HoldsAll
AllWakeInv == At(Turned) # {} => All \in stored \/ At(AllWakers) # {}
Kept == IF All \in stored THEN 1 ELSE 0
FreeInv == ~ At(Turned) \subseteq missed => free[All] <= Cardinality(At(Coming)) + Kept

(***************************************************************************)
(* The inductive invariant.                                                *)
(***************************************************************************)
LimiterInv ==
  TypeOK /\ EntryInv /\ PermitInv /\ NotifyInv /\ PeerWakeInv /\ AllWakeInv /\ FreeInv

(***************************************************************************)
(* The constants.                                                          *)
(***************************************************************************)
LEMMA Constants ==
  /\ MaxPending \in Nat /\ MaxPending >= 1 /\ Workers \in Nat /\ Workers >= 1
  /\ Nil \notin Gossip /\ All \notin Gossip
  /\ \A t \in Gossip : Announcer[t] \in Peer
<1>1. MaxPending \in Nat /\ MaxPending >= 1
  BY LimiterAssumption DEF MaxPending
<1>2. QED
  BY <1>1, LimiterAssumption DEF All

(***************************************************************************)
(* An admitted task has the entry of its peer as its gate.                 *)
(***************************************************************************)
LEMMA GateIsEntry ==
  ASSUME TypeOK, EntryInv, NEW t \in Gossip, pc[t] \in Admitted
  PROVE  /\ gate[t] \in Gossip /\ gate[t] = entry[Announcer[t]] /\ gate[t] # All
         /\ Announcer[gate[t]] = Announcer[t] /\ Announcer[t] \in Peer
         /\ pending[gate[t]] = Cardinality(In(Announcer[t])) /\ t \in In(Announcer[t])
<1>1. gate[t] \in Gossip /\ Announcer[t] \in Peer
  BY Constants, Zenon DEF TypeOK
<1>2. t \in In(Announcer[t])
  BY DEF In
<1>3. gate[t] = entry[Announcer[t]]
  BY <1>1, <1>2, Zenon DEF EntryInv
<1>4. QED
  BY <1>1, <1>2, <1>3, Constants, Zenon DEF EntryInv

(***************************************************************************)
(* A part of a finite set is finite.                                       *)
(***************************************************************************)
LEMMA AtIsFinite ==
  ASSUME IsFiniteSet(At(Admitted)), NEW P, P \subseteq Admitted
  PROVE  IsFiniteSet(At(P)) /\ Cardinality(At(P)) \in Nat
<1>1. At(P) \subseteq At(Admitted)
  BY DEF At
<1>2. QED
  BY <1>1, FS_Subset, FS_CardinalityType, Zenon

(***************************************************************************)
(* The tasks of a peer are finitely many.                                  *)
(***************************************************************************)
LEMMA InIsFinite ==
  ASSUME IsFiniteSet(At(Admitted)), NEW p
  PROVE  IsFiniteSet(In(p)) /\ Cardinality(In(p)) \in Nat
<1>1. In(p) \subseteq At(Admitted)
  BY DEF At, In
<1>2. QED
  BY <1>1, FS_Subset, FS_CardinalityType, Zenon

-----------------------------------------------------------------------------
(* Entries.                                                                *)

(***************************************************************************)
(* The task that made an entry is of the entry's peer.                     *)
(***************************************************************************)
LEMMA EntryIsOfPeer ==
  ASSUME TypeOK, EntryInv, NEW p \in Peer, entry[p] # Nil
  PROVE  entry[p] \in Gossip /\ Announcer[entry[p]] = p
<1>1. entry[p] \in Gossip
  BY DEF TypeOK
<1>2. Announcer[entry[p]] = p
  BY DEF EntryInv
<1>3. QED
  BY <1>1, <1>2

(***************************************************************************)
(* A step that admits nobody and lets nobody leave keeps the entries.      *)
(***************************************************************************)
LEMMA EntryFrame ==
  ASSUME EntryInv, entry' = entry, pending' = pending, gate' = gate,
         \A u \in Gossip : pc'[u] \in Admitted <=> pc[u] \in Admitted
  PROVE  EntryInv'
<1>1. At(Admitted)' = At(Admitted)
  BY DEF At
<1>2. \A p : {t \in Gossip : pc'[t] \in Admitted /\ Announcer[t] = p} = In(p)
  BY DEF In
<1>3. ASSUME NEW p \in Peer
      PROVE  LET in == {t \in Gossip : pc'[t] \in Admitted /\ Announcer[t] = p}
             IN  /\ entry'[p] = Nil <=> in = {}
                 /\ \A t \in in : gate'[t] = entry'[p]
                 /\ in # {} => pending'[entry'[p]] = Cardinality(in)
                 /\ entry'[p] # Nil => Announcer[entry'[p]] = p
  BY <1>2, Zenon DEF EntryInv
<1>4. \A e \in Gossip : entry'[Announcer[e]] # e => pending'[e] = 0
  BY Zenon DEF EntryInv
<1>5. QED
  BY <1>1, <1>3, <1>4, Zenon DEF EntryInv, In

(***************************************************************************)
(* try_admit_snapshot keeps the entries.                                   *)
(***************************************************************************)
LEMMA AdmitKeepsEntries ==
  ASSUME TypeOK, EntryInv, NEW t \in Gossip, TryAdmit(t)
  PROVE  EntryInv' /\ pending' \in [Gossip -> 0 .. MaxPending]
<1> DEFINE p == Announcer[t]
           e == IF entry[p] = Nil THEN t ELSE entry[p]
<1>1. /\ p \in Peer /\ e \in Gossip /\ e # Nil /\ Announcer[e] = p
  <2>1. p \in Peer /\ Nil \notin Gossip
    BY Constants, Zenon
  <2>2. entry[p] # Nil => entry[p] \in Gossip /\ Announcer[entry[p]] = p
    BY <2>1, EntryIsOfPeer, Zenon
  <2>3. QED
    BY <2>1, <2>2, Zenon
<1>2. /\ pending[e] < MaxPending /\ pc[t] = "handle"
      /\ pc' = [pc EXCEPT ![t] = "peer"] /\ entry' = [entry EXCEPT ![p] = e]
      /\ pending' = [pending EXCEPT ![e] = @ + 1] /\ gate' = [gate EXCEPT ![t] = e]
  BY DEF TryAdmit, Step
<1> HIDE DEF p, e
<1>3. /\ \A u \in Gossip : pc'[u] = IF u = t THEN "peer" ELSE pc[u]
      /\ \A r \in Peer : entry'[r] = IF r = p THEN e ELSE entry[r]
      /\ \A u \in Gossip : pending'[u] = IF u = e THEN pending[e] + 1 ELSE pending[u]
      /\ \A u \in Gossip : gate'[u] = IF u = t THEN e ELSE gate[u]
  BY <1>1, <1>2, Zenon DEF TypeOK
<1>4. "peer" \in Admitted /\ pc[t] \notin Admitted
  BY <1>2 DEF Admitted, Asleep, Acquiring, Releasing
<1>5. At(Admitted)' = At(Admitted) \cup {t} /\ t \notin In(p)
  BY <1>3, <1>4 DEF At, In
<1>6. IsFiniteSet(At(Admitted)')
  BY <1>5, FS_AddElement, Zenon DEF EntryInv
<1>7. pending[e] = Cardinality(In(p)) /\ Cardinality(In(p)) \in Nat
  <2>1. IsFiniteSet(In(p)) /\ Cardinality(In(p)) \in Nat
    BY InIsFinite, Zenon DEF EntryInv
  <2>2. CASE entry[p] = Nil
    <3>1. In(p) = {} /\ e = t
      BY <1>1, <2>2, Zenon DEF EntryInv, e
    <3>2. Cardinality(In(p)) = 0
      BY <3>1, FS_EmptySet
    <3>3. pending[e] = 0
      BY <1>1, <2>2, Zenon DEF EntryInv
    <3>4. QED
      BY <2>1, <3>2, <3>3
  <2>3. CASE entry[p] # Nil
    BY <1>1, <2>1, <2>3, Zenon DEF EntryInv, e
  <2>4. QED
    BY <2>2, <2>3
<1>8. \A r : {u \in Gossip : pc'[u] \in Admitted /\ Announcer[u] = r}
               = IF r = p THEN In(p) \cup {t} ELSE In(r)
  BY <1>3, <1>4 DEF In, p
<1>9. Cardinality(In(p) \cup {t}) = Cardinality(In(p)) + 1
  BY <1>5, InIsFinite, FS_AddElement, Zenon DEF EntryInv
<1>10. pending'[e] = Cardinality(In(p) \cup {t})
  BY <1>1, <1>3, <1>7, <1>9, Zenon
<1>11. ASSUME NEW r \in Peer
       PROVE  LET in == {u \in Gossip : pc'[u] \in Admitted /\ Announcer[u] = r}
              IN  /\ entry'[r] = Nil <=> in = {}
                  /\ \A u \in in : gate'[u] = entry'[r]
                  /\ in # {} => pending'[entry'[r]] = Cardinality(in)
                  /\ entry'[r] # Nil => Announcer[entry'[r]] = r
  <2>1. CASE r = p
    <3>1. entry'[r] = e /\ e # Nil /\ Announcer[e] = r
      BY <1>1, <1>3, <2>1, Zenon
    <3>2. \A u \in In(p) : gate'[u] = e
      <4>1. \A u \in In(p) : u # t /\ u \in Gossip /\ gate[u] = entry[p] /\ entry[p] # Nil
        BY <1>1, <1>5, Zenon DEF EntryInv, In
      <4>2. QED
        BY <1>3, <4>1, Zenon DEF e
    <3>3. gate'[t] = e
      BY <1>3, Zenon
    <3>4. QED
      BY <1>8, <1>10, <2>1, <3>1, <3>2, <3>3, Zenon
  <2>2. CASE r # p
    <3>1. entry'[r] = entry[r] /\ (entry[r] # Nil => entry[r] # e /\ entry[r] \in Gossip)
      <4>1. entry'[r] = entry[r]
        BY <1>3, <2>2, Zenon
      <4>2. entry[r] # Nil => entry[r] \in Gossip /\ Announcer[entry[r]] = r
        BY EntryIsOfPeer, Zenon
      <4>3. QED
        BY <1>1, <2>2, <4>1, <4>2, Zenon
    <3>2. \A u \in In(r) : gate'[u] = gate[u]
      BY <1>3, <2>2, Zenon DEF In, p
    <3>3. entry[r] # Nil => pending'[entry[r]] = pending[entry[r]]
      BY <1>3, <3>1, Zenon
    <3>4. QED
      BY <1>8, <2>2, <3>1, <3>2, <3>3, Zenon DEF EntryInv
  <2>3. QED
    BY <2>1, <2>2
<1>12. ASSUME NEW u \in Gossip, entry'[Announcer[u]] # u PROVE pending'[u] = 0
  <2>1. u # e
    BY <1>1, <1>3, <1>12, Zenon
  <2>2. entry[Announcer[u]] # u
    <3>1. CASE Announcer[u] = p
      <4>1. entry[p] # Nil => entry[p] = e
        BY Zenon DEF e
      <4>2. u # Nil
        BY Constants, Zenon
      <4> QED
        BY <2>1, <3>1, <4>1, <4>2, Zenon
    <3>2. CASE Announcer[u] # p
      BY <1>3, <1>12, <3>2, Constants, Zenon
    <3>3. QED
      BY <3>1, <3>2
  <2>3. QED
    BY <1>3, <2>1, <2>2, Zenon DEF EntryInv
<1>13. EntryInv'
  BY <1>6, <1>11, <1>12, Zenon DEF EntryInv, In
<1>14. pending[e] + 1 \in 0 .. MaxPending
  BY <1>1, <1>2, <1>7, Constants
<1>15. pending' \in [Gossip -> 0 .. MaxPending]
  BY <1>1, <1>2, <1>14, Zenon DEF TypeOK
<1>16. QED
  BY <1>13, <1>15

(***************************************************************************)
(* Dropping an admission keeps the entries; the last to leave finds itself *)
(* alone.                                                                  *)
(***************************************************************************)
LEMMA LeaveKeepsEntries ==
  ASSUME TypeOK, EntryInv, NEW t \in Gossip, Leave(t)
  PROVE  /\ EntryInv' /\ pending' \in [Gossip -> 0 .. MaxPending]
         /\ pending[gate[t]] = 1 => \A u \in Gossip : gate[u] = gate[t] => u = t
<1> DEFINE p == Announcer[t]
           e == gate[t]
<1>1. /\ pc[t] = "leave" /\ pc' = [pc EXCEPT ![t] = "done"]
      /\ pending' = [pending EXCEPT ![e] = @ - 1] /\ gate' = [gate EXCEPT ![t] = Nil]
      /\ entry' = IF pending[e] = 1 THEN [entry EXCEPT ![p] = Nil] ELSE entry
  BY DEF Leave, Step
<1>2. pc[t] \in Admitted /\ "done" \notin Admitted
  BY <1>1 DEF Admitted, Asleep, Acquiring, Releasing
<1>3. /\ e \in Gossip /\ e = entry[p] /\ Announcer[e] = p /\ p \in Peer
      /\ pending[e] = Cardinality(In(p)) /\ t \in In(p)
  BY <1>2, GateIsEntry
<1> HIDE DEF p, e
<1>4. /\ \A u \in Gossip : pc'[u] = IF u = t THEN "done" ELSE pc[u]
      /\ \A r \in Peer : entry'[r] = IF r = p /\ pending[e] = 1 THEN Nil ELSE entry[r]
      /\ \A u \in Gossip : pending'[u] = IF u = e THEN pending[e] - 1 ELSE pending[u]
      /\ \A u \in Gossip : gate'[u] = IF u = t THEN Nil ELSE gate[u]
  BY <1>1, <1>3, Zenon DEF TypeOK
<1>5. IsFiniteSet(In(p)) /\ Cardinality(In(p)) \in Nat
  BY InIsFinite, Zenon DEF EntryInv
<1>6. /\ IsFiniteSet(In(p) \ {t}) /\ Cardinality(In(p) \ {t}) = Cardinality(In(p)) - 1
  BY <1>3, <1>5, FS_RemoveElement, Zenon
<1>7. Cardinality(In(p)) >= 1 /\ (Cardinality(In(p)) = 1 <=> In(p) \ {t} = {})
  <2>1. Cardinality(In(p) \ {t}) \in Nat
    BY <1>6, FS_CardinalityType
  <2>2. Cardinality(In(p) \ {t}) = 0 <=> In(p) \ {t} = {}
    BY <1>6, FS_EmptySet, Zenon
  <2>3. QED
    BY <1>5, <1>6, <2>1, <2>2
<1>8. At(Admitted)' = At(Admitted) \ {t}
  BY <1>2, <1>4 DEF At
<1>9. IsFiniteSet(At(Admitted)')
  BY <1>8, FS_RemoveElement, FS_Subset, Zenon DEF EntryInv
<1>10. \A r : {u \in Gossip : pc'[u] \in Admitted /\ Announcer[u] = r}
                = IF r = p THEN In(p) \ {t} ELSE In(r)
  BY <1>2, <1>4 DEF In, p
<1>11. ASSUME NEW r \in Peer
       PROVE  LET in == {u \in Gossip : pc'[u] \in Admitted /\ Announcer[u] = r}
              IN  /\ entry'[r] = Nil <=> in = {}
                  /\ \A u \in in : gate'[u] = entry'[r]
                  /\ in # {} => pending'[entry'[r]] = Cardinality(in)
                  /\ entry'[r] # Nil => Announcer[entry'[r]] = r
  <2>1. CASE r = p
    <3>1. entry'[r] = (IF pending[e] = 1 THEN Nil ELSE e) /\ e # Nil
      BY <1>3, <1>4, <2>1, Constants, Zenon
    <3>2. pending[e] = 1 <=> In(p) \ {t} = {}
      BY <1>3, <1>7, Zenon
    <3>3. pending'[e] = Cardinality(In(p) \ {t})
      BY <1>3, <1>4, <1>6, Zenon
    <3>4. \A u \in In(p) \ {t} : gate'[u] = e
      <4>1. \A u \in In(p) : u \in Gossip /\ gate[u] = e
        BY <1>3, Zenon DEF EntryInv, In
      <4>2. QED
        BY <1>4, <4>1, Zenon
    <3>5. QED
      BY <1>3, <1>10, <2>1, <3>1, <3>2, <3>3, <3>4, Zenon
  <2>2. CASE r # p
    <3>1. entry'[r] = entry[r] /\ (entry[r] # Nil => entry[r] # e /\ entry[r] \in Gossip)
      <4>1. entry'[r] = entry[r]
        BY <1>4, <2>2, Zenon
      <4>2. entry[r] # Nil => entry[r] \in Gossip /\ Announcer[entry[r]] = r
        BY EntryIsOfPeer, Zenon
      <4>3. QED
        BY <1>3, <2>2, <4>1, <4>2, Zenon
    <3>2. \A u \in In(r) : gate'[u] = gate[u]
      BY <1>4, <2>2, Zenon DEF In, p
    <3>3. entry[r] # Nil => pending'[entry[r]] = pending[entry[r]]
      BY <1>4, <3>1, Zenon
    <3>4. QED
      BY <1>10, <2>2, <3>1, <3>2, <3>3, Zenon DEF EntryInv
  <2>3. QED
    BY <2>1, <2>2
<1>12. ASSUME NEW u \in Gossip, entry'[Announcer[u]] # u PROVE pending'[u] = 0
  <2>1. CASE u = e
    <3>1. pending[e] = 1
      BY <1>3, <1>4, <1>12, <2>1, Zenon
    <3>2. QED
      BY <1>3, <1>4, <2>1, <3>1
  <2>2. CASE u # e
    <3>1. entry[Announcer[u]] # u
      BY <1>3, <1>4, <1>12, <2>2, Constants, Zenon
    <3>2. QED
      BY <1>4, <2>2, <3>1, Zenon DEF EntryInv
  <2>3. QED
    BY <2>1, <2>2
<1>13. EntryInv'
  BY <1>9, <1>11, <1>12, Zenon DEF EntryInv, In
<1>14. pending[e] - 1 \in 0 .. MaxPending
  <2>1. pending[e] \in 0 .. MaxPending
    BY <1>3, Zenon DEF TypeOK
  <2>2. QED
    BY <1>3, <1>5, <1>7, <2>1, Constants
<1>15. pending' \in [Gossip -> 0 .. MaxPending]
  BY <1>1, <1>3, <1>14, Zenon DEF TypeOK
<1>16. ASSUME pending[e] = 1, NEW u \in Gossip, gate[u] = e PROVE u = t
  <2>1. pc[u] \in Admitted
    BY <1>3, <1>16, Constants, Zenon DEF TypeOK
  <2>2. Announcer[u] = p /\ u \in In(Announcer[u])
    BY <1>3, <1>16, <2>1, GateIsEntry, Zenon
  <2>3. In(p) \ {t} = {}
    BY <1>3, <1>7, <1>16, Zenon
  <2>4. QED
    BY <2>2, <2>3, Zenon
<1>17. QED
  BY <1>13, <1>15, <1>16, Zenon DEF e

-----------------------------------------------------------------------------
(* Permits.                                                                *)

(***************************************************************************)
(* Who holds permits is admitted.                                          *)
(***************************************************************************)
LEMMA HoldersAreAdmitted == HoldsPeer \subseteq Admitted /\ HoldsAll \subseteq Admitted
BY DEF HoldsPeer, HoldsAll, Admitted, Asleep, Acquiring, Releasing

(***************************************************************************)
(* The permits that are free, as numbers.                                  *)
(***************************************************************************)
LEMMA FreeTypes ==
  ASSUME TypeOK, EntryInv
  PROVE  /\ \A n \in Gossip \cup {All} : free[n] \in Nat
         /\ Cardinality(At(HoldsAll)) \in Nat /\ IsFiniteSet(At(HoldsAll))
<1>1. \A n \in Gossip \cup {All} : free[n] \in 0 .. Workers
  BY Zenon DEF TypeOK
<1>2. QED
  BY <1>1, Constants, HoldersAreAdmitted, AtIsFinite DEF EntryInv

(***************************************************************************)
(* A step that takes no permit and gives none back.                        *)
(***************************************************************************)
LEMMA PermitFrame ==
  ASSUME PermitInv, gate' = gate, free' = free,
         \A u \in Gossip : /\ pc'[u] \in Admitted <=> pc[u] \in Admitted
                           /\ pc'[u] \in HoldsPeer <=> pc[u] \in HoldsPeer
                           /\ pc'[u] \in HoldsAll <=> pc[u] \in HoldsAll
  PROVE  PermitInv'
<1>1. At(HoldsAll)' = At(HoldsAll)
  BY DEF At
<1>2. /\ \A t, u \in Gossip : gate'[t] = gate'[u] /\ pc'[t] \in HoldsPeer /\ pc'[u] \in HoldsPeer => t = u
      /\ \A e \in Gossip : free'[e] <= 1
  BY Zenon DEF PermitInv
<1>3. ASSUME NEW t \in Gossip, pc'[t] \in Admitted
      PROVE  free'[gate'[t]] = 0 <=> \E u \in Gossip : gate'[u] = gate'[t] /\ pc'[u] \in HoldsPeer
  BY <1>3, Zenon DEF PermitInv
<1>4. QED
  BY <1>1, <1>2, <1>3, Zenon DEF PermitInv

(***************************************************************************)
(* try_acquire_owned on the peer's semaphore.                              *)
(***************************************************************************)
LEMMA TakePeer ==
  ASSUME TypeOK, EntryInv, PermitInv, NEW t \in Gossip, pc[t] \in {"peer", "woken"}, free[gate[t]] > 0,
         pc' = [pc EXCEPT ![t] = "all"], free' = [free EXCEPT ![gate[t]] = @ - 1], gate' = gate
  PROVE  /\ PermitInv' /\ free' \in [Gossip \cup {All} -> 0 .. Workers]
         /\ free'[gate[t]] = 0 /\ \A n \in Gossip \cup {All} : n # gate[t] => free'[n] = free[n]
<1> DEFINE e == gate[t]
<1>1. /\ pc[t] \in Admitted /\ pc[t] \notin HoldsPeer /\ pc[t] \notin HoldsAll
      /\ "all" \in Admitted /\ "all" \in HoldsPeer /\ "all" \notin HoldsAll
  BY DEF HoldsPeer, HoldsAll, Admitted, Asleep, Acquiring, Releasing
<1>2. e \in Gossip /\ e # All
  BY <1>1, GateIsEntry
<1>3. free[e] = 1 /\ free[e] # 0
  BY <1>2, FreeTypes DEF PermitInv
<1> HIDE DEF e
<1>4. \A u \in Gossip : pc'[u] = IF u = t THEN "all" ELSE pc[u]
  BY Zenon DEF TypeOK
<1>5. \A n \in Gossip \cup {All} : free'[n] = IF n = e THEN 0 ELSE free[n]
  <2>1. free[e] - 1 = 0
    BY <1>3
  <2>2. QED
    BY <1>2, <2>1, Zenon DEF TypeOK, e
<1>6. \A u \in Gossip : gate[u] = e => pc[u] \notin HoldsPeer
  BY <1>1, <1>3, Zenon DEF PermitInv, e
<1>7. At(HoldsAll)' = At(HoldsAll) /\ free'[All] = free[All]
  BY <1>1, <1>2, <1>4, <1>5 DEF At
<1>8. \A c \in Gossip : free'[c] <= 1
  BY <1>5, FreeTypes DEF PermitInv
<1>9. ASSUME NEW u \in Gossip, NEW v \in Gossip, gate[u] = gate[v],
             pc'[u] \in HoldsPeer, pc'[v] \in HoldsPeer
      PROVE  u = v
  <2>1. CASE u = t \/ v = t
    BY <1>4, <1>6, <1>9, <2>1, Zenon DEF e
  <2>2. CASE u # t /\ v # t
    BY <1>4, <1>9, <2>2, Zenon DEF PermitInv
  <2>3. QED
    BY <2>1, <2>2
<1>10. ASSUME NEW u \in Gossip, pc'[u] \in Admitted
       PROVE  free'[gate[u]] = 0 <=> \E v \in Gossip : gate[v] = gate[u] /\ pc'[v] \in HoldsPeer
  <2>1. pc[u] \in Admitted /\ gate[u] \in Gossip
    BY <1>1, <1>4, <1>10, GateIsEntry, Zenon
  <2>2. CASE gate[u] = e
    BY <1>1, <1>4, <1>5, <2>1, <2>2, Zenon DEF e
  <2>3. CASE gate[u] # e
    <3>1. \A v \in Gossip : gate[v] = gate[u] => pc'[v] = pc[v]
      BY <1>4, <2>3, Zenon DEF e
    <3>2. free'[gate[u]] = free[gate[u]]
      BY <1>5, <2>1, <2>3, Zenon
    <3>3. free[gate[u]] = 0 <=> \E v \in Gossip : gate[v] = gate[u] /\ pc[v] \in HoldsPeer
      BY <2>1, Zenon DEF PermitInv
    <3>4. QED
      BY <3>1, <3>2, <3>3, Zenon
  <2>4. QED
    BY <2>2, <2>3
<1>11. PermitInv'
  BY <1>7, <1>8, <1>9, <1>10 DEF PermitInv
<1>12. free' \in [Gossip \cup {All} -> 0 .. Workers]
  <2>1. free[e] - 1 \in 0 .. Workers
    BY <1>3, Constants
  <2>2. QED
    BY <1>2, <2>1, Zenon DEF TypeOK, e
<1>13. QED
  BY <1>2, <1>5, <1>11, <1>12, Zenon DEF e

(***************************************************************************)
(* The peer's permit is dropped.                                           *)
(***************************************************************************)
LEMMA GivePeer ==
  ASSUME TypeOK, EntryInv, PermitInv, NEW t \in Gossip, NEW b,
         (pc[t] = "backOff" /\ b = "retell") \/ (pc[t] = "fetch" /\ b = "tellPeer"),
         pc' = [pc EXCEPT ![t] = b], free' = [free EXCEPT ![gate[t]] = @ + 1], gate' = gate
  PROVE  /\ PermitInv' /\ free' \in [Gossip \cup {All} -> 0 .. Workers]
         /\ \A n \in Gossip \cup {All} : n # gate[t] => free'[n] = free[n]
<1> DEFINE e == gate[t]
<1>1. /\ pc[t] \in Admitted /\ pc[t] \in HoldsPeer /\ b \in Admitted /\ b \notin HoldsPeer
      /\ pc[t] \in HoldsAll <=> b \in HoldsAll
  BY DEF HoldsPeer, HoldsAll, Admitted, Asleep, Acquiring, Releasing
<1>2. e \in Gossip /\ e # All
  BY <1>1, GateIsEntry
<1>3. free[e] = 0
  BY <1>1, Zenon DEF PermitInv
<1> HIDE DEF e
<1>4. \A u \in Gossip : pc'[u] = IF u = t THEN b ELSE pc[u]
  BY Zenon DEF TypeOK
<1>5. \A n \in Gossip \cup {All} : free'[n] = IF n = e THEN 1 ELSE free[n]
  <2>1. free[e] + 1 = 1
    BY <1>3
  <2>2. QED
    BY <1>2, <2>1, Zenon DEF TypeOK, e
<1>6. \A u \in Gossip : gate[u] = e /\ pc[u] \in HoldsPeer => u = t
  BY <1>1, Zenon DEF PermitInv, e
<1>7. At(HoldsAll)' = At(HoldsAll) /\ free'[All] = free[All]
  BY <1>1, <1>2, <1>4, <1>5 DEF At
<1>8. \A c \in Gossip : free'[c] <= 1
  BY <1>5, FreeTypes DEF PermitInv
<1>9. ASSUME NEW u \in Gossip, NEW v \in Gossip, gate[u] = gate[v],
             pc'[u] \in HoldsPeer, pc'[v] \in HoldsPeer
      PROVE  u = v
  <2>1. pc[u] \in HoldsPeer /\ pc[v] \in HoldsPeer
    BY <1>1, <1>4, <1>9, Zenon
  <2> QED
    BY <1>9, <2>1, Zenon DEF PermitInv
<1>10. ASSUME NEW u \in Gossip, pc'[u] \in Admitted
       PROVE  free'[gate[u]] = 0 <=> \E v \in Gossip : gate[v] = gate[u] /\ pc'[v] \in HoldsPeer
  <2>1. pc[u] \in Admitted /\ gate[u] \in Gossip
    BY <1>1, <1>4, <1>10, GateIsEntry, Zenon
  <2>2. CASE gate[u] = e
    <3>1. free'[gate[u]] # 0
      BY <1>5, <2>1, <2>2
    <3>2. \A v \in Gossip : gate[v] = gate[u] => pc'[v] \notin HoldsPeer
      BY <1>1, <1>4, <1>6, <2>2, Zenon
    <3>3. QED
      BY <3>1, <3>2, Zenon
  <2>3. CASE gate[u] # e
    <3>1. \A v \in Gossip : gate[v] = gate[u] => pc'[v] = pc[v]
      BY <1>4, <2>3, Zenon DEF e
    <3>2. free'[gate[u]] = free[gate[u]]
      BY <1>5, <2>1, <2>3, Zenon
    <3>3. free[gate[u]] = 0 <=> \E v \in Gossip : gate[v] = gate[u] /\ pc[v] \in HoldsPeer
      BY <2>1, Zenon DEF PermitInv
    <3>4. QED
      BY <3>1, <3>2, <3>3, Zenon
  <2>4. QED
    BY <2>2, <2>3
<1>11. PermitInv'
  BY <1>7, <1>8, <1>9, <1>10 DEF PermitInv
<1>12. free' \in [Gossip \cup {All} -> 0 .. Workers]
  <2>1. free[e] + 1 \in 0 .. Workers
    BY <1>3, Constants
  <2>2. QED
    BY <1>2, <2>1, Zenon DEF TypeOK, e
<1>13. QED
  BY <1>5, <1>11, <1>12, Zenon DEF e

(***************************************************************************)
(* try_acquire_owned on the semaphore of all.                              *)
(***************************************************************************)
LEMMA TakeAll ==
  ASSUME TypeOK, EntryInv, PermitInv, NEW t \in Gossip, pc[t] = "all", free[All] > 0,
         pc' = [pc EXCEPT ![t] = "fetch"], free' = [free EXCEPT ![All] = @ - 1], gate' = gate
  PROVE  /\ PermitInv' /\ free' \in [Gossip \cup {All} -> 0 .. Workers]
         /\ free'[All] = free[All] - 1 /\ \A e \in Gossip : free'[e] = free[e]
<1>1. /\ pc[t] \in HoldsPeer /\ pc[t] \notin HoldsAll /\ pc[t] \in Admitted
      /\ "fetch" \in HoldsPeer /\ "fetch" \in HoldsAll /\ "fetch" \in Admitted
  BY DEF HoldsPeer, HoldsAll, Admitted, Asleep, Acquiring, Releasing
<1>2. \A u \in Gossip : pc'[u] = IF u = t THEN "fetch" ELSE pc[u]
  BY Zenon DEF TypeOK
<1>3. free'[All] = free[All] - 1 /\ \A e \in Gossip : free'[e] = free[e]
  BY Constants, Zenon DEF TypeOK
<1>4. At(HoldsAll)' = At(HoldsAll) \cup {t} /\ t \notin At(HoldsAll)
  BY <1>1, <1>2 DEF At
<1>5. Cardinality(At(HoldsAll)') = Cardinality(At(HoldsAll)) + 1
  BY <1>4, FreeTypes, FS_AddElement, Zenon
<1>6. free'[All] + Cardinality(At(HoldsAll)') = Workers
  BY <1>3, <1>5, FreeTypes, Constants DEF PermitInv
<1>7. \A u \in Gossip : /\ pc'[u] \in HoldsPeer <=> pc[u] \in HoldsPeer
                        /\ pc'[u] \in Admitted <=> pc[u] \in Admitted
  BY <1>1, <1>2, Zenon
<1>8. ASSUME NEW u \in Gossip, pc'[u] \in Admitted
      PROVE  free'[gate[u]] = 0 <=> \E v \in Gossip : gate[v] = gate[u] /\ pc'[v] \in HoldsPeer
  <2>1. pc[u] \in Admitted /\ gate[u] \in Gossip
    BY <1>7, <1>8, GateIsEntry, Zenon
  <2>2. free'[gate[u]] = free[gate[u]]
    BY <1>3, <2>1, Zenon
  <2>3. free[gate[u]] = 0 <=> \E v \in Gossip : gate[v] = gate[u] /\ pc[v] \in HoldsPeer
    BY <2>1, Zenon DEF PermitInv
  <2>4. QED
    BY <1>7, <2>2, <2>3, Zenon
<1>9. \A u, v \in Gossip : gate[u] = gate[v] /\ pc'[u] \in HoldsPeer /\ pc'[v] \in HoldsPeer => u = v
  BY <1>7, Zenon DEF PermitInv
<1>10. \A e \in Gossip : free'[e] <= 1
  BY <1>3, Zenon DEF PermitInv
<1>11. PermitInv'
  BY <1>6, <1>8, <1>9, <1>10 DEF PermitInv
<1>12. free' \in [Gossip \cup {All} -> 0 .. Workers]
  <2>1. free[All] \in 0 .. Workers
    BY Zenon DEF TypeOK
  <2>2. free[All] - 1 \in 0 .. Workers
    BY <2>1, Constants
  <2>3. QED
    BY <2>2, Zenon DEF TypeOK
<1>13. QED
  BY <1>3, <1>11, <1>12

(***************************************************************************)
(* A snapshot permit is dropped.                                           *)
(***************************************************************************)
LEMMA GiveAll ==
  ASSUME TypeOK, EntryInv, PermitInv, NEW t \in Gossip, pc[t] = "freeAll",
         pc' = [pc EXCEPT ![t] = "tellAll"], free' = [free EXCEPT ![All] = @ + 1], gate' = gate
  PROVE  /\ PermitInv' /\ free' \in [Gossip \cup {All} -> 0 .. Workers]
         /\ free'[All] = free[All] + 1 /\ \A e \in Gossip : free'[e] = free[e]
<1>1. /\ pc[t] \notin HoldsPeer /\ pc[t] \in HoldsAll /\ pc[t] \in Admitted
      /\ "tellAll" \notin HoldsPeer /\ "tellAll" \notin HoldsAll /\ "tellAll" \in Admitted
  BY DEF HoldsPeer, HoldsAll, Admitted, Asleep, Acquiring, Releasing
<1>2. \A u \in Gossip : pc'[u] = IF u = t THEN "tellAll" ELSE pc[u]
  BY Zenon DEF TypeOK
<1>3. free'[All] = free[All] + 1 /\ \A e \in Gossip : free'[e] = free[e]
  BY Constants, Zenon DEF TypeOK
<1>4. At(HoldsAll)' = At(HoldsAll) \ {t} /\ t \in At(HoldsAll)
  BY <1>1, <1>2 DEF At
<1>5. /\ Cardinality(At(HoldsAll)') = Cardinality(At(HoldsAll)) - 1
      /\ Cardinality(At(HoldsAll)') \in Nat
  <2>1. IsFiniteSet(At(HoldsAll) \ {t}) /\ Cardinality(At(HoldsAll) \ {t}) = Cardinality(At(HoldsAll)) - 1
    BY <1>4, FreeTypes, FS_RemoveElement, Zenon
  <2>2. QED
    BY <1>4, <2>1, FS_CardinalityType, Zenon
<1>6. free'[All] + Cardinality(At(HoldsAll)') = Workers /\ free[All] + 1 \in 0 .. Workers
  BY <1>3, <1>5, FreeTypes, Constants DEF PermitInv
<1>7. \A u \in Gossip : /\ pc'[u] \in HoldsPeer <=> pc[u] \in HoldsPeer
                        /\ pc'[u] \in Admitted <=> pc[u] \in Admitted
  BY <1>1, <1>2, Zenon
<1>8. ASSUME NEW u \in Gossip, pc'[u] \in Admitted
      PROVE  free'[gate[u]] = 0 <=> \E v \in Gossip : gate[v] = gate[u] /\ pc'[v] \in HoldsPeer
  <2>1. pc[u] \in Admitted /\ gate[u] \in Gossip
    BY <1>7, <1>8, GateIsEntry, Zenon
  <2>2. free'[gate[u]] = free[gate[u]]
    BY <1>3, <2>1, Zenon
  <2>3. free[gate[u]] = 0 <=> \E v \in Gossip : gate[v] = gate[u] /\ pc[v] \in HoldsPeer
    BY <2>1, Zenon DEF PermitInv
  <2>4. QED
    BY <1>7, <2>2, <2>3, Zenon
<1>9. \A u, v \in Gossip : gate[u] = gate[v] /\ pc'[u] \in HoldsPeer /\ pc'[v] \in HoldsPeer => u = v
  BY <1>7, Zenon DEF PermitInv
<1>10. \A e \in Gossip : free'[e] <= 1
  BY <1>3, Zenon DEF PermitInv
<1>11. PermitInv'
  BY <1>6, <1>8, <1>9, <1>10 DEF PermitInv
<1>12. free' \in [Gossip \cup {All} -> 0 .. Workers]
  BY <1>6, Zenon DEF TypeOK
<1>13. QED
  BY <1>3, <1>11, <1>12

(***************************************************************************)
(* A new entry has a permit, and nobody of an older one holds it.          *)
(***************************************************************************)
LEMMA AdmitKeepsPermits ==
  ASSUME TypeOK, EntryInv, PermitInv, NEW t \in Gossip, TryAdmit(t)
  PROVE  PermitInv' /\ free' \in [Gossip \cup {All} -> 0 .. Workers]
<1> DEFINE p == Announcer[t]
           e == IF entry[p] = Nil THEN t ELSE entry[p]
<1>1. /\ pc[t] = "handle" /\ pc' = [pc EXCEPT ![t] = "peer"] /\ gate' = [gate EXCEPT ![t] = e]
      /\ free' = IF entry[p] = Nil THEN [free EXCEPT ![e] = 1] ELSE free
  BY DEF TryAdmit, Step
<1>2. p \in Peer /\ (entry[p] # Nil => entry[p] \in Gossip)
  BY Constants, EntryIsOfPeer, Zenon
<1>3. e \in Gossip /\ e # All
  BY <1>2, Constants, Zenon
<1>4. /\ pc[t] \notin Admitted /\ pc[t] \notin HoldsPeer /\ pc[t] \notin HoldsAll
      /\ "peer" \in Admitted /\ "peer" \notin HoldsPeer /\ "peer" \notin HoldsAll
  BY <1>1 DEF HoldsPeer, HoldsAll, Admitted, Asleep, Acquiring, Releasing
<1> HIDE DEF e, p
<1>5. /\ \A u \in Gossip : pc'[u] = IF u = t THEN "peer" ELSE pc[u]
      /\ \A u \in Gossip : gate'[u] = IF u = t THEN e ELSE gate[u]
      /\ \A n \in Gossip \cup {All} : free'[n] = IF entry[p] = Nil /\ n = e THEN 1 ELSE free[n]
  BY <1>1, <1>3, Zenon DEF TypeOK
<1>6. \A u \in Gossip : /\ pc'[u] \in HoldsPeer <=> pc[u] \in HoldsPeer
                        /\ pc'[u] \in HoldsPeer => u # t
                        /\ pc'[u] \in HoldsAll <=> pc[u] \in HoldsAll
  BY <1>4, <1>5, Zenon
<1>7. At(HoldsAll)' = At(HoldsAll) /\ free'[All] = free[All]
  BY <1>3, <1>5, <1>6 DEF At
<1>8. \A c \in Gossip : free'[c] <= 1
  BY <1>5, FreeTypes DEF PermitInv
<1>9. ASSUME NEW u \in Gossip, NEW v \in Gossip, gate'[u] = gate'[v],
             pc'[u] \in HoldsPeer, pc'[v] \in HoldsPeer
      PROVE  u = v
  <2>1. pc[u] \in HoldsPeer /\ pc[v] \in HoldsPeer /\ gate[u] = gate[v]
    BY <1>5, <1>6, <1>9, Zenon
  <2> QED
    BY <1>9, <2>1, Zenon DEF PermitInv
<1>10. ASSUME NEW u \in Gossip, u # t, pc[u] \in Admitted
       PROVE  /\ gate[u] \in Gossip /\ free'[gate[u]] = free[gate[u]]
              /\ free[gate[u]] = 0 <=> \E v \in Gossip : gate'[v] = gate[u] /\ pc'[v] \in HoldsPeer
  <2>1. gate[u] \in Gossip /\ Announcer[gate[u]] = Announcer[u] /\ gate[u] = entry[Announcer[u]]
    BY <1>10, GateIsEntry, Zenon
  <2>2. entry[p] = Nil => gate[u] # e
    BY <2>1, Constants, Zenon DEF e, p
  <2>3. free[gate[u]] = 0 <=> \E v \in Gossip : gate[v] = gate[u] /\ pc[v] \in HoldsPeer
    BY <1>10, Zenon DEF PermitInv
  <2>4. \A v \in Gossip : (gate'[v] = gate[u] /\ pc'[v] \in HoldsPeer)
                            <=> (gate[v] = gate[u] /\ pc[v] \in HoldsPeer)
    BY <1>4, <1>5, <1>6, Zenon
  <2>5. free'[gate[u]] = free[gate[u]]
    BY <1>5, <2>1, <2>2, Zenon
  <2>6. QED
    BY <2>1, <2>3, <2>4, <2>5, Zenon
<1>11. ASSUME NEW u \in Gossip, pc'[u] \in Admitted
       PROVE  free'[gate'[u]] = 0 <=> \E v \in Gossip : gate'[v] = gate'[u] /\ pc'[v] \in HoldsPeer
  <2>1. CASE u # t
    <3>1. pc[u] \in Admitted /\ gate'[u] = gate[u]
      BY <1>5, <1>11, <2>1, Zenon
    <3>2. /\ free'[gate[u]] = free[gate[u]]
          /\ free[gate[u]] = 0 <=> \E v \in Gossip : gate'[v] = gate[u] /\ pc'[v] \in HoldsPeer
      BY <1>10, <2>1, <3>1, Zenon
    <3>3. QED
      BY <3>1, <3>2
  <2>2. CASE u = t /\ entry[p] # Nil
    <3>1. PICK v \in In(p) : gate[v] = entry[p]
      BY <1>2, <2>2, Zenon DEF EntryInv
    <3>2. v \in Gossip /\ pc[v] \in Admitted /\ v # t /\ gate[v] = e /\ gate'[u] = e
      BY <1>4, <1>5, <2>2, <3>1, Zenon DEF In, e
    <3>3. /\ free'[gate[v]] = free[gate[v]]
          /\ free[gate[v]] = 0 <=> \E w \in Gossip : gate'[w] = gate[v] /\ pc'[w] \in HoldsPeer
      BY <1>10, <3>2, Zenon
    <3>4. QED
      BY <3>2, <3>3
  <2>3. CASE u = t /\ entry[p] = Nil
    <3>1. gate'[u] = e /\ e = t
      BY <1>5, <2>3, Zenon DEF e
    <3>2. free'[e] # 0
      BY <1>3, <1>5, <2>3
    <3>3. ASSUME NEW v \in Gossip, gate'[v] = e, pc'[v] \in HoldsPeer
          PROVE  FALSE
      <4>1. v # t /\ pc[v] \in HoldsPeer /\ gate[v] = e
        BY <1>5, <1>6, <3>3, Zenon
      <4>2. pc[v] \in Admitted
        BY <4>1, HoldersAreAdmitted, Zenon
      <4>3. gate[v] = entry[Announcer[v]] /\ Announcer[gate[v]] = Announcer[v]
        BY <4>2, GateIsEntry, Zenon
      <4>4. QED
        BY <2>3, <3>1, <4>1, <4>3, Constants, Zenon DEF p
    <3>4. QED
      BY <3>1, <3>2, <3>3, Zenon
  <2>4. QED
    BY <2>1, <2>2, <2>3
<1>12. PermitInv'
  BY <1>7, <1>8, <1>9, <1>11 DEF PermitInv
<1>13. free' \in [Gossip \cup {All} -> 0 .. Workers]
  <2>1. 1 \in 0 .. Workers
    BY Constants
  <2>2. QED
    BY <1>1, <1>3, <2>1, Zenon DEF TypeOK
<1>14. QED
  BY <1>12, <1>13

(***************************************************************************)
(* Who leaves an entry holds nothing, and the permit goes with the last.   *)
(***************************************************************************)
LEMMA LeaveKeepsPermits ==
  ASSUME TypeOK, EntryInv, PermitInv, NEW t \in Gossip, Leave(t)
  PROVE  PermitInv' /\ free' \in [Gossip \cup {All} -> 0 .. Workers]
<1> DEFINE e == gate[t]
           last == pending[e] = 1
<1>1. /\ pc[t] = "leave" /\ pc' = [pc EXCEPT ![t] = "done"] /\ gate' = [gate EXCEPT ![t] = Nil]
      /\ free' = IF last THEN [free EXCEPT ![e] = 0] ELSE free
  BY DEF Leave, Step
<1>2. /\ pc[t] \in Admitted /\ pc[t] \notin HoldsPeer /\ pc[t] \notin HoldsAll
      /\ "done" \notin Admitted /\ "done" \notin HoldsPeer /\ "done" \notin HoldsAll
  BY <1>1 DEF HoldsPeer, HoldsAll, Admitted, Asleep, Acquiring, Releasing
<1>3. e \in Gossip /\ e # All
  BY <1>2, GateIsEntry
<1>4. last => \A u \in Gossip : gate[u] = e => u = t
  BY LeaveKeepsEntries, Zenon
<1> HIDE DEF e, last
<1>5. /\ \A u \in Gossip : pc'[u] = IF u = t THEN "done" ELSE pc[u]
      /\ \A u \in Gossip : gate'[u] = IF u = t THEN Nil ELSE gate[u]
      /\ \A n \in Gossip \cup {All} : free'[n] = IF last /\ n = e THEN 0 ELSE free[n]
  BY <1>1, <1>3, Zenon DEF TypeOK
<1>6. \A u \in Gossip : /\ pc'[u] \in HoldsPeer <=> pc[u] \in HoldsPeer
                        /\ pc'[u] \in HoldsPeer => u # t
                        /\ pc'[u] \in HoldsAll <=> pc[u] \in HoldsAll
  BY <1>2, <1>5, Zenon
<1>7. At(HoldsAll)' = At(HoldsAll) /\ free'[All] = free[All]
  BY <1>3, <1>5, <1>6 DEF At
<1>8. \A c \in Gossip : free'[c] <= 1
  BY <1>5, FreeTypes DEF PermitInv
<1>9. ASSUME NEW u \in Gossip, NEW v \in Gossip, gate'[u] = gate'[v],
             pc'[u] \in HoldsPeer, pc'[v] \in HoldsPeer
      PROVE  u = v
  <2>1. pc[u] \in HoldsPeer /\ pc[v] \in HoldsPeer /\ gate[u] = gate[v]
    BY <1>5, <1>6, <1>9, Zenon
  <2> QED
    BY <1>9, <2>1, Zenon DEF PermitInv
<1>10. ASSUME NEW u \in Gossip, pc'[u] \in Admitted
       PROVE  free'[gate'[u]] = 0 <=> \E v \in Gossip : gate'[v] = gate'[u] /\ pc'[v] \in HoldsPeer
  <2>1. u # t /\ pc[u] \in Admitted /\ gate'[u] = gate[u]
    BY <1>2, <1>5, <1>10, Zenon
  <2>2. gate[u] \in Gossip
    BY <2>1, GateIsEntry, Zenon
  <2>3. free'[gate[u]] = free[gate[u]]
    BY <1>4, <1>5, <2>1, <2>2, Zenon
  <2>4. free[gate[u]] = 0 <=> \E v \in Gossip : gate[v] = gate[u] /\ pc[v] \in HoldsPeer
    BY <2>1, Zenon DEF PermitInv
  <2>5. \A v \in Gossip : (gate'[v] = gate[u] /\ pc'[v] \in HoldsPeer)
                            <=> (gate[v] = gate[u] /\ pc[v] \in HoldsPeer)
    BY <1>2, <1>5, <1>6, Zenon
  <2>6. QED
    BY <2>1, <2>3, <2>4, <2>5, Zenon
<1>11. PermitInv'
  BY <1>7, <1>8, <1>9, <1>10 DEF PermitInv
<1>12. free' \in [Gossip \cup {All} -> 0 .. Workers]
  <2>1. 0 \in 0 .. Workers
    BY Constants
  <2>2. QED
    BY <1>1, <1>3, <2>1, Zenon DEF TypeOK
<1>13. QED
  BY <1>11, <1>12

-----------------------------------------------------------------------------
(* Notifys.                                                                *)

(***************************************************************************)
(* A Notify that nobody joins or leaves.                                   *)
(***************************************************************************)
LEMMA RegisteredFrame ==
  ASSUME NEW n, Registered(n), waiters[n] \in Seq(Gossip), waiters'[n] = waiters[n],
         n \in stored' => n \in stored,
         \A u \in Gossip : SleepsOn(u, n)' <=> SleepsOn(u, n)
  PROVE  Registered(n)'
<1>1. \A u \in Gossip : SleepsOn(u, n)' <=> \E i \in DOMAIN waiters'[n] : waiters'[n][i] = u
  BY Zenon DEF Registered
<1>2. QED
  BY <1>1, Zenon DEF Registered

(***************************************************************************)
(* The task registered first is woken.                                     *)
(***************************************************************************)
LEMMA RegisteredPop ==
  ASSUME NEW n, Registered(n), waiters[n] \in Seq(Gossip), waiters[n] # <<>>,
         waiters'[n] = Tail(waiters[n]), stored' = stored, NEW w, w = Head(waiters[n]),
         \A u \in Gossip : SleepsOn(u, n)' <=> SleepsOn(u, n) /\ u # w
  PROVE  Registered(n)'
<1> DEFINE s == waiters[n]
<1>1. DOMAIN s = 1 .. Len(s) /\ Len(s) \in Nat /\ Len(s) >= 1 /\ w = s[1]
  OBVIOUS
<1>2. DOMAIN Tail(s) = 1 .. Len(s) - 1 /\ \A i \in 1 .. Len(s) - 1 : Tail(s)[i] = s[i + 1]
  OBVIOUS
<1>3. \A i, j \in 1 .. Len(s) : s[i] = s[j] => i = j
  BY <1>1, Zenon DEF Registered
<1>4. ASSUME NEW u \in Gossip
      PROVE  SleepsOn(u, n)' <=> \E i \in DOMAIN waiters'[n] : waiters'[n][i] = u
  <2>1. SleepsOn(u, n) <=> \E i \in 1 .. Len(s) : s[i] = u
    BY <1>1, Zenon DEF Registered
  <2>2. (\E i \in 1 .. Len(s) - 1 : s[i + 1] = u) <=> (\E i \in 1 .. Len(s) : s[i] = u) /\ u # w
    <3> HIDE DEF s
    <3>1. ASSUME NEW i \in 1 .. Len(s) - 1, s[i + 1] = u
          PROVE  (\E j \in 1 .. Len(s) : s[j] = u) /\ u # w
      <4>1. i + 1 \in 1 .. Len(s) /\ i + 1 # 1 /\ 1 \in 1 .. Len(s)
        BY <1>1
      <4>2. QED
        BY <1>1, <1>3, <3>1, <4>1, Zenon
    <3>2. ASSUME NEW i \in 1 .. Len(s), s[i] = u, u # w
          PROVE  \E j \in 1 .. Len(s) - 1 : s[j + 1] = u
      <4>1. i # 1
        BY <1>1, <3>2
      <4>2. i - 1 \in 1 .. Len(s) - 1 /\ (i - 1) + 1 = i
        BY <1>1, <4>1
      <4>3. QED
        BY <3>2, <4>2, Zenon
    <3>3. QED
      BY <3>1, <3>2, Zenon
  <2>3. QED
    BY <1>2, <2>1, <2>2, Zenon
<1>5. \A i, j \in DOMAIN waiters'[n] : waiters'[n][i] = waiters'[n][j] => i = j
  BY <1>1, <1>2, <1>3
<1>6. n \in stored' => waiters'[n] = <<>>
  BY DEF Registered
<1>7. QED
  BY <1>4, <1>5, <1>6, Zenon DEF Registered

(***************************************************************************)
(* A task is registered.                                                   *)
(***************************************************************************)
LEMMA RegisteredPush ==
  ASSUME NEW n, Registered(n), waiters[n] \in Seq(Gossip), NEW t \in Gossip,
         waiters'[n] = Append(waiters[n], t), n \notin stored', ~ SleepsOn(t, n),
         \A u \in Gossip : SleepsOn(u, n)' <=> SleepsOn(u, n) \/ u = t
  PROVE  Registered(n)'
<1> DEFINE s == waiters[n]
<1>1. DOMAIN s = 1 .. Len(s) /\ Len(s) \in Nat
  OBVIOUS
<1>2. /\ DOMAIN Append(s, t) = 1 .. Len(s) + 1
      /\ \A i \in 1 .. Len(s) : Append(s, t)[i] = s[i]
      /\ Append(s, t)[Len(s) + 1] = t
  OBVIOUS
<1>3. \A i, j \in 1 .. Len(s) : s[i] = s[j] => i = j
  BY <1>1, Zenon DEF Registered
<1>4. \A u \in Gossip : SleepsOn(u, n) <=> \E i \in 1 .. Len(s) : s[i] = u
  BY <1>1, Zenon DEF Registered
<1>5. ASSUME NEW u \in Gossip
      PROVE  SleepsOn(u, n)' <=> \E i \in DOMAIN waiters'[n] : waiters'[n][i] = u
  <2>1. (\E i \in 1 .. Len(s) + 1 : Append(s, t)[i] = u) <=> (\E i \in 1 .. Len(s) : s[i] = u) \/ u = t
    <3> HIDE DEF s
    <3>1. \A i \in 1 .. Len(s) + 1 : i \in 1 .. Len(s) \/ i = Len(s) + 1
      BY <1>1
    <3>2. /\ \A i \in 1 .. Len(s) : i \in 1 .. Len(s) + 1
          /\ Len(s) + 1 \in 1 .. Len(s) + 1
      BY <1>1
    <3>3. QED
      BY <1>2, <3>1, <3>2, Zenon
  <2>2. QED
    BY <1>2, <1>4, <2>1, Zenon
<1>6. \A i \in 1 .. Len(s) : s[i] # t
  BY <1>4, Zenon
<1>7. \A i, j \in DOMAIN waiters'[n] : waiters'[n][i] = waiters'[n][j] => i = j
  BY <1>1, <1>2, <1>3, <1>6
<1>8. QED
  BY <1>5, <1>7, Zenon DEF Registered

(***************************************************************************)
(* A step of a task that is awake before and after it.                     *)
(***************************************************************************)
LEMMA NotifyFrame ==
  ASSUME TypeOK, NotifyInv, NEW t \in Gossip, NEW to, pc' = [pc EXCEPT ![t] = to],
         pc[t] \notin Asleep, to \notin Asleep, waiters' = waiters, stored' \subseteq stored,
         \A u \in Gossip : u # t => gate'[u] = gate[u]
  PROVE  NotifyInv'
<1>1. \A u \in Gossip : pc'[u] = IF u = t THEN to ELSE pc[u]
  BY Zenon DEF TypeOK
<1>2. pc[t] # "onAll" /\ pc[t] # "onPeer" /\ to # "onAll" /\ to # "onPeer"
  BY DEF Asleep
<1>3. ASSUME NEW n \in Gossip \cup {All}
      PROVE  Registered(n)'
  <2>1. \A u \in Gossip : SleepsOn(u, n)' <=> SleepsOn(u, n)
    BY <1>1, <1>2, Zenon DEF SleepsOn
  <2>2. waiters[n] \in Seq(Gossip) /\ Registered(n)
    BY Zenon DEF TypeOK, NotifyInv
  <2>3. waiters'[n] = waiters[n] /\ (n \in stored' => n \in stored)
    OBVIOUS
  <2>4. QED
    BY <2>1, <2>2, <2>3, RegisteredFrame, Zenon
<1>4. QED
  BY <1>3, Zenon DEF NotifyInv

\* What comes of a notification: a permit is stored and nobody is asleep, or
\* a task w that was is woken.
Keeps(t, n, to) ==
  /\ stored' = stored \cup {n}
  /\ \A u \in Gossip : ~ SleepsOn(u, n)
  /\ \A u \in Gossip : pc'[u] = IF u = t THEN to ELSE pc[u]
  /\ missed' = IF n = All /\ n \in stored THEN missed \cup At(TurnedAway) ELSE missed
Wakes(t, n, to, w) ==
  /\ w \in Gossip /\ w # t /\ SleepsOn(w, n)
  /\ stored' = stored
  /\ \A u \in Gossip : pc'[u] = IF u = t THEN to ELSE IF u = w THEN Awake(n) ELSE pc[u]
  /\ missed' = missed \ {w}
Tells(t, n, to) == Keeps(t, n, to) \/ \E w \in Gossip : Wakes(t, n, to, w)

(***************************************************************************)
(* A notification keeps every Notify in order.                             *)
(***************************************************************************)
LEMMA NotifyStep ==
  ASSUME TypeOK, NotifyInv, NEW t \in Gossip, NEW n \in Gossip \cup {All}, NEW to,
         to \in Admitted, pc[t] \notin Asleep, to \notin Asleep, NotifyOne(t, n, to), gate' = gate
  PROVE  /\ Tells(t, n, to) /\ NotifyInv'
         /\ pc' \in [Gossip -> Waiting \cup Over \cup Admitted \cup {"handle"}]
         /\ waiters' \in [Gossip \cup {All} -> Seq(Gossip)]
         /\ stored' \subseteq Gossip \cup {All} /\ missed' \subseteq Gossip
<1>1. pc[t] # "onAll" /\ pc[t] # "onPeer" /\ to # "onAll" /\ to # "onPeer"
  BY DEF Asleep
<1>2. waiters[n] \in Seq(Gossip) /\ Registered(n)
  BY Zenon DEF TypeOK, NotifyInv
<1>3. CASE waiters[n] = <<>>
  <2>1. /\ pc' = [pc EXCEPT ![t] = to] /\ stored' = stored \cup {n} /\ waiters' = waiters
        /\ missed' = IF n = All /\ n \in stored THEN missed \cup At(TurnedAway) ELSE missed
    BY <1>3, Zenon DEF NotifyOne, At
  <2>2. \A u \in Gossip : pc'[u] = IF u = t THEN to ELSE pc[u]
    BY <2>1, Zenon DEF TypeOK
  <2>3. DOMAIN waiters[n] = {}
    BY <1>3
  <2>4. \A u \in Gossip : ~ SleepsOn(u, n)
    BY <1>2, <2>3 DEF Registered
  <2>5. Keeps(t, n, to)
    BY <2>1, <2>2, <2>4, Zenon DEF Keeps
  <2>6. ASSUME NEW m \in Gossip \cup {All}
        PROVE  Registered(m)'
    <3>1. \A u \in Gossip : SleepsOn(u, m)' <=> SleepsOn(u, m)
      BY <1>1, <2>2, Zenon DEF SleepsOn
    <3>2. waiters[m] \in Seq(Gossip) /\ Registered(m) /\ waiters'[m] = waiters[m]
      BY <2>1, Zenon DEF TypeOK, NotifyInv
    <3>3. CASE m # n
      <4>1. m \in stored' => m \in stored
        BY <2>1, <3>3, Zenon
      <4>2. QED
        BY <3>1, <3>2, <4>1, RegisteredFrame, Zenon
    <3>4. CASE m = n
      <4>1. \A u \in Gossip : SleepsOn(u, n)' <=> \E i \in DOMAIN waiters'[n] : waiters'[n][i] = u
        BY <2>3, <2>4, <3>1, <3>2, <3>4
      <4>2. \A i, j \in DOMAIN waiters'[n] : waiters'[n][i] = waiters'[n][j] => i = j
        BY <2>3, <3>2, <3>4, Zenon
      <4>3. waiters'[n] = <<>>
        BY <1>3, <3>2, <3>4, Zenon
      <4>4. QED
        BY <3>4, <4>1, <4>2, <4>3, Zenon DEF Registered
    <3>5. QED
      BY <3>3, <3>4, Zenon
  <2>7. /\ pc' \in [Gossip -> Waiting \cup Over \cup Admitted \cup {"handle"}]
        /\ waiters' \in [Gossip \cup {All} -> Seq(Gossip)]
        /\ stored' \subseteq Gossip \cup {All} /\ missed' \subseteq Gossip
    <3>1. At(TurnedAway) \subseteq Gossip
      BY Zenon DEF At
    <3>2. missed' \subseteq Gossip
      BY <2>1, <3>1 DEF TypeOK
    <3>3. stored' \subseteq Gossip \cup {All}
      BY <2>1, Zenon DEF TypeOK
    <3>4. QED
      BY <2>1, <3>2, <3>3, Zenon DEF TypeOK
  <2>8. QED
    BY <2>5, <2>6, <2>7, Zenon DEF Tells, NotifyInv
<1>4. CASE waiters[n] # <<>>
  <2> DEFINE w == Head(waiters[n])
  <2>1. /\ pc' = [pc EXCEPT ![t] = to, ![w] = Awake(n)] /\ stored' = stored
        /\ waiters' = [waiters EXCEPT ![n] = Tail(@)] /\ missed' = missed \ {w}
    BY <1>4, Zenon DEF NotifyOne
  <2>2. w \in Gossip /\ 1 \in DOMAIN waiters[n] /\ waiters[n][1] = w
    BY <1>2, <1>4
  <2>3. SleepsOn(w, n)
    BY <1>2, <2>2, Zenon DEF Registered
  <2>4. w # t
    BY <1>1, <2>3, Zenon DEF SleepsOn
  <2> HIDE DEF w
  <2>5. \A u \in Gossip : pc'[u] = IF u = t THEN to ELSE IF u = w THEN Awake(n) ELSE pc[u]
    BY <2>1, <2>2, <2>4, Zenon DEF TypeOK
  <2>6. Wakes(t, n, to, w)
    BY <2>1, <2>2, <2>3, <2>4, <2>5, Zenon DEF Wakes
  <2>7. Awake(n) # "onAll" /\ Awake(n) # "onPeer" /\ Awake(n) \in Admitted
    BY Zenon DEF Awake, Admitted, Acquiring
  <2>8. ASSUME NEW m \in Gossip \cup {All}
        PROVE  Registered(m)'
    <3>1. waiters[m] \in Seq(Gossip) /\ Registered(m)
      BY Zenon DEF TypeOK, NotifyInv
    <3>2. CASE m # n
      <4>1. ~ SleepsOn(w, m)
        BY <2>3, <3>2, Zenon DEF SleepsOn
      <4>2. \A u \in Gossip : SleepsOn(u, m)' <=> SleepsOn(u, m)
        BY <1>1, <2>5, <2>7, <4>1, Zenon DEF SleepsOn
      <4>3. waiters'[m] = waiters[m]
        BY <2>1, <3>2, Zenon DEF TypeOK
      <4>4. QED
        BY <2>1, <3>1, <4>2, <4>3, RegisteredFrame, Zenon
    <3>3. CASE m = n
      <4>1. \A u \in Gossip : SleepsOn(u, n)' <=> SleepsOn(u, n) /\ u # w
        BY <1>1, <2>5, <2>7, Zenon DEF SleepsOn
      <4>2. waiters'[n] = Tail(waiters[n])
        BY <2>1, Zenon DEF TypeOK
      <4>3. Registered(n)'
        BY <1>2, <1>4, <2>1, <4>1, <4>2, RegisteredPop, Zenon DEF w
      <4>4. QED
        BY <3>3, <4>3, Zenon
    <3>4. QED
      BY <3>2, <3>3, Zenon
  <2>9. waiters' \in [Gossip \cup {All} -> Seq(Gossip)]
    <3>1. Tail(waiters[n]) \in Seq(Gossip)
      BY <1>2, <1>4
    <3>2. QED
      BY <2>1, <3>1, Zenon DEF TypeOK
  <2>10. pc' \in [Gossip -> Waiting \cup Over \cup Admitted \cup {"handle"}]
    BY <2>1, <2>7, Zenon DEF TypeOK
  <2>11. stored' \subseteq Gossip \cup {All} /\ missed' \subseteq Gossip
    BY <2>1, Zenon DEF TypeOK
  <2>12. QED
    BY <2>2, <2>6, <2>8, <2>9, <2>10, <2>11, Zenon DEF Tells, NotifyInv
<1>5. QED
  BY <1>3, <1>4, Zenon

\* What comes of a wait: the stored permit is taken, or the task sleeps.
Takes(t, n) ==
  /\ n \in stored /\ stored' = stored \ {n}
  /\ \A u \in Gossip : pc'[u] = IF u = t THEN Awake(n) ELSE pc[u]
  /\ missed' = missed \ {t}
Sleeps(t, n, asleep) ==
  /\ n \notin stored /\ stored' = stored /\ missed' = missed
  /\ \A u \in Gossip : pc'[u] = IF u = t THEN asleep ELSE pc[u]
\* Where a task that waits for n sleeps.
Place(t, n, asleep) ==
  \/ asleep = "onAll" /\ n = All
  \/ asleep = "onPeer" /\ n = gate[t] /\ n # All

(***************************************************************************)
(* So does a wait.                                                         *)
(***************************************************************************)
LEMMA AwaitStep ==
  ASSUME TypeOK, NotifyInv, NEW t \in Gossip, NEW n \in Gossip \cup {All}, NEW asleep,
         pc[t] \notin Asleep, Await(t, n, asleep), gate' = gate, Place(t, n, asleep)
  PROVE  /\ Takes(t, n) \/ Sleeps(t, n, asleep)
         /\ NotifyInv'
         /\ pc' \in [Gossip -> Waiting \cup Over \cup Admitted \cup {"handle"}]
         /\ waiters' \in [Gossip \cup {All} -> Seq(Gossip)]
         /\ stored' \subseteq Gossip \cup {All} /\ missed' \subseteq Gossip
<1>1. pc[t] # "onAll" /\ pc[t] # "onPeer"
  BY Zenon DEF Asleep
<1>2. CASE n \in stored
  <2>1. /\ pc' = [pc EXCEPT ![t] = Awake(n)] /\ stored' = stored \ {n}
        /\ missed' = missed \ {t} /\ waiters' = waiters
    BY <1>2, Zenon DEF Await
  <2>2. \A u \in Gossip : pc'[u] = IF u = t THEN Awake(n) ELSE pc[u]
    BY <2>1, Zenon DEF TypeOK
  <2>3. Awake(n) \in Admitted /\ Awake(n) \notin Asleep
    BY Zenon DEF Awake, Admitted, Acquiring, Asleep
  <2>4. stored' \subseteq stored
    BY <2>1, Zenon
  <2>5. NotifyInv'
    BY <2>1, <2>3, <2>4, NotifyFrame, Zenon
  <2>6. pc' \in [Gossip -> Waiting \cup Over \cup Admitted \cup {"handle"}]
    BY <2>1, <2>3 DEF TypeOK
  <2>7. /\ waiters' \in [Gossip \cup {All} -> Seq(Gossip)]
        /\ stored' \subseteq Gossip \cup {All} /\ missed' \subseteq Gossip
    BY <2>1, Zenon DEF TypeOK
  <2>8. QED
    BY <1>2, <2>1, <2>2, <2>5, <2>6, <2>7, Zenon DEF Takes
<1>3. CASE n \notin stored
  <2>1. /\ pc' = [pc EXCEPT ![t] = asleep] /\ stored' = stored /\ missed' = missed
        /\ waiters' = [waiters EXCEPT ![n] = Append(@, t)]
    BY <1>3, Zenon DEF Await
  <2>2. \A u \in Gossip : pc'[u] = IF u = t THEN asleep ELSE pc[u]
    BY <2>1, Zenon DEF TypeOK
  <2>3. asleep \in Admitted
    BY Zenon DEF Admitted, Asleep, Place
  <2>4. ASSUME NEW m \in Gossip \cup {All}
        PROVE  Registered(m)'
    <3>1. waiters[m] \in Seq(Gossip) /\ Registered(m)
      BY Zenon DEF TypeOK, NotifyInv
    <3>2. SleepsOn(t, m)' <=> m = n
      BY <2>2, Zenon DEF SleepsOn, Place
    <3>3. ~ SleepsOn(t, m)
      BY <1>1, Zenon DEF SleepsOn
    <3>4. \A u \in Gossip : u # t => (SleepsOn(u, m)' <=> SleepsOn(u, m))
      BY <2>2, Zenon DEF SleepsOn
    <3>5. CASE m # n
      <4>1. waiters'[m] = waiters[m]
        BY <2>1, <3>5, Zenon DEF TypeOK
      <4>2. \A u \in Gossip : SleepsOn(u, m)' <=> SleepsOn(u, m)
        BY <3>2, <3>3, <3>4, <3>5, Zenon
      <4>3. QED
        BY <2>1, <3>1, <4>1, <4>2, RegisteredFrame, Zenon
    <3>6. CASE m = n
      <4>1. waiters'[m] = Append(waiters[m], t)
        BY <2>1, <3>6, Zenon DEF TypeOK
      <4>2. \A u \in Gossip : SleepsOn(u, m)' <=> SleepsOn(u, m) \/ u = t
        BY <3>2, <3>4, <3>6, Zenon
      <4>3. m \notin stored'
        BY <1>3, <2>1, <3>6, Zenon
      <4>4. QED
        BY <3>1, <3>3, <4>1, <4>2, <4>3, RegisteredPush, Zenon
    <3>7. QED
      BY <3>5, <3>6
  <2>5. waiters' \in [Gossip \cup {All} -> Seq(Gossip)]
    <3>1. waiters[n] \in Seq(Gossip)
      BY Zenon DEF TypeOK
    <3>2. Append(waiters[n], t) \in Seq(Gossip)
      BY <3>1
    <3>3. QED
      BY <2>1, <3>2, Zenon DEF TypeOK
  <2>6. pc' \in [Gossip -> Waiting \cup Over \cup Admitted \cup {"handle"}]
    BY <2>1, <2>3, Zenon DEF TypeOK
  <2>7. stored' \subseteq Gossip \cup {All} /\ missed' \subseteq Gossip
    BY <2>1, Zenon DEF TypeOK
  <2>8. QED
    BY <1>3, <2>1, <2>2, <2>4, <2>5, <2>6, <2>7, Zenon DEF Sleeps, NotifyInv
<1>4. QED
  BY <1>2, <1>3, Zenon

-----------------------------------------------------------------------------
(* The permits of the entries.                                             *)

(***************************************************************************)
(* An entry for which nobody starts to want and no waker is lost.          *)
(***************************************************************************)
LEMMA PeerFrame ==
  ASSUME NEW e, PeerInv(e), free'[e] = free[e], e \in stored => e \in stored',
         \A u \in Gossip : gate'[u] = e /\ pc'[u] \in Wanting => gate[u] = e /\ pc[u] \in Wanting,
         \A u \in Gossip : gate[u] = e /\ pc[u] \in PeerWakers => gate'[u] = e /\ pc'[u] \in PeerWakers
  PROVE  PeerInv(e)'
<1>1. PeerWaker(e) => PeerWaker(e)'
  BY Zenon DEF PeerWaker
<1>2. QED
  BY <1>1, Zenon DEF PeerInv

(***************************************************************************)
(* An entry whose permit is taken, or that has a waker.                    *)
(***************************************************************************)
LEMMA PeerDone ==
  ASSUME NEW e, ~ free'[e] > 0 \/ PeerWaker(e)'
  PROVE  PeerInv(e)'
BY Zenon DEF PeerInv

(***************************************************************************)
(* A step of one task keeps the other entries, and its own if that has a   *)
(* waker or a permit that is taken, or the task is neither waker nor wants *)
(* the permit anew.                                                        *)
(***************************************************************************)
LEMMA PeerStep ==
  ASSUME PeerWakeInv, NEW t \in Gossip, NEW e \in Gossip,
         \A u \in Gossip : u # t => pc'[u] = pc[u] /\ gate'[u] = gate[u],
         e \in stored => e \in stored',
         free'[e] = free[e],
         \/ gate[t] # e /\ gate'[t] # e
         \/ pc[t] \notin PeerWakers /\ (pc'[t] \in Wanting => pc[t] \in Wanting /\ gate'[t] = gate[t])
  PROVE  PeerInv(e)'
<1>1. PeerInv(e)
  BY Zenon DEF PeerWakeInv
<1>2. \A u \in Gossip : gate'[u] = e /\ pc'[u] \in Wanting => gate[u] = e /\ pc[u] \in Wanting
  <2>1. gate'[t] = e /\ pc'[t] \in Wanting => gate[t] = e /\ pc[t] \in Wanting
    BY Zenon
  <2>2. QED
    BY <2>1, Zenon
<1>3. \A u \in Gossip : gate[u] = e /\ pc[u] \in PeerWakers => gate'[u] = e /\ pc'[u] \in PeerWakers
  <2>1. ~ (gate[t] = e /\ pc[t] \in PeerWakers)
    BY Zenon
  <2>2. QED
    BY <2>1, Zenon
<1>4. QED
  BY <1>1, <1>2, <1>3, PeerFrame, Zenon

(***************************************************************************)
(* Who notifies the waiters of its entry leaves it a waker.                *)
(***************************************************************************)
LEMMA PeerIsTold ==
  ASSUME PeerWakeInv, NEW t \in Gossip, gate[t] \in Gossip, gate[t] # All, NEW to, to \notin Wanting,
         Tells(t, gate[t], to), gate' = gate, free' = free
  PROVE  PeerWakeInv'
<1> DEFINE n == gate[t]
<1>1. PeerWaker(n)'
  <2>1. CASE Keeps(t, n, to)
    BY <2>1, Zenon DEF Keeps, PeerWaker
  <2>2. ASSUME NEW w \in Gossip, Wakes(t, n, to, w)
        PROVE  PeerWaker(n)'
    <3>1. gate[w] = n /\ pc'[w] = Awake(n)
      BY <2>2, Zenon DEF Wakes, SleepsOn
    <3>2. Awake(n) \in PeerWakers
      BY Zenon DEF Awake, PeerWakers
    <3>3. gate'[w] = n /\ pc'[w] \in PeerWakers
      BY <3>1, <3>2, Zenon
    <3>4. n = gate'[t]
      BY Zenon
    <3>5. QED
      BY <3>3, <3>4, Zenon DEF PeerWaker
  <2>3. QED
    BY <2>1, <2>2, Zenon DEF Tells
<1>2. ASSUME NEW e \in Gossip
      PROVE  PeerInv(e)'
  <2>1. CASE e = n
    <3>1. PeerWaker(e)'
      BY <1>1, <2>1, Zenon DEF PeerWaker
    <3>2. QED
      BY <3>1, PeerDone, Zenon
  <2>2. CASE e # n
    <3>1. e \in stored => e \in stored'
      BY Zenon DEF Tells, Keeps, Wakes
    <3>2. \A u \in Gossip : gate[u] = e => pc'[u] = pc[u]
      <4>1. CASE Keeps(t, n, to)
        BY <2>2, <4>1, Zenon DEF Keeps
      <4>2. ASSUME NEW w \in Gossip, Wakes(t, n, to, w)
            PROVE  \A u \in Gossip : gate[u] = e => pc'[u] = pc[u]
        <5>1. gate[w] = n
          BY <4>2, Zenon DEF Wakes, SleepsOn
        <5>2. QED
          BY <2>2, <4>2, <5>1, Zenon DEF Wakes
      <4>3. QED
        BY <4>1, <4>2, Zenon DEF Tells
    <3>3. PeerInv(e)
      BY Zenon DEF PeerWakeInv
    <3>4. QED
      BY <3>1, <3>2, <3>3, PeerFrame, Zenon
  <2>3. QED
    BY <2>1, <2>2, Zenon
<1>3. QED
  BY <1>2, Zenon DEF PeerWakeInv

(***************************************************************************)
(* A notification of a snapshot permit does not touch the entries'.        *)
(***************************************************************************)
LEMMA PeerUntold ==
  ASSUME PeerWakeInv, NEW t \in Gossip, NEW to, to \notin Wanting \/ pc[t] \in Wanting,
         pc[t] \notin PeerWakers, Tells(t, All, to), gate' = gate, free' = free,
         \A u \in Gossip : pc[u] = "onPeer" => gate[u] # All
  PROVE  PeerWakeInv'
<1>1. Awake(All) \notin Wanting /\ "onAll" \notin PeerWakers
  BY Zenon DEF Awake, Wanting, PeerWakers
<1>2. ASSUME NEW e \in Gossip
      PROVE  PeerInv(e)'
  <2>1. e \in stored => e \in stored'
    BY Zenon DEF Tells, Keeps, Wakes
  <2>2. \A u \in Gossip : /\ pc'[u] \in Wanting => pc[u] \in Wanting
                          /\ pc[u] \in PeerWakers => pc'[u] \in PeerWakers
    <3>1. CASE Keeps(t, All, to)
      BY <3>1, Zenon DEF Keeps
    <3>2. ASSUME NEW w \in Gossip, Wakes(t, All, to, w)
          PROVE  \A u \in Gossip : /\ pc'[u] \in Wanting => pc[u] \in Wanting
                                   /\ pc[u] \in PeerWakers => pc'[u] \in PeerWakers
      <4>1. pc[w] = "onAll"
        BY <3>2, Zenon DEF Wakes, SleepsOn
      <4>2. QED
        BY <1>1, <3>2, <4>1, Zenon DEF Wakes
    <3>3. QED
      BY <3>1, <3>2, Zenon DEF Tells
  <2>3. PeerInv(e)
    BY Zenon DEF PeerWakeInv
  <2>4. QED
    BY <2>1, <2>2, <2>3, PeerFrame, Zenon
<1>3. QED
  BY <1>2, Zenon DEF PeerWakeInv

-----------------------------------------------------------------------------
(* The snapshot permits.                                                   *)

(***************************************************************************)
(* A step that turns nobody away and leaves whoever comes.                 *)
(***************************************************************************)
LEMMA AllFrame ==
  ASSUME AllWakeInv, FreeInv, IsFiniteSet(At(Coming)), IsFiniteSet(At(Coming)'),
         free'[All] = free[All], free[All] \in Nat, All \in stored' <=> All \in stored,
         \A u \in Gossip : /\ pc'[u] \in Turned => pc[u] \in Turned
                           /\ pc'[u] \in Turned /\ u \notin missed' => u \notin missed
                           /\ pc[u] \in Coming => pc'[u] \in Coming
                           /\ pc[u] \in AllWakers => pc'[u] \in AllWakers
  PROVE  AllWakeInv' /\ FreeInv'
<1>1. AllWakeInv'
  <2>1. At(Turned)' # {} => At(Turned) # {}
    BY Zenon DEF At
  <2>2. At(AllWakers) # {} => At(AllWakers)' # {}
    BY Zenon DEF At
  <2>3. QED
    BY <2>1, <2>2, Zenon DEF AllWakeInv
<1>2. Kept' = Kept /\ Kept \in Nat
  BY Zenon DEF Kept
<1>3. At(Coming) \subseteq At(Coming)'
  BY Zenon DEF At
<1>4. /\ Cardinality(At(Coming)) <= Cardinality(At(Coming)')
      /\ Cardinality(At(Coming)) \in Nat /\ Cardinality(At(Coming)') \in Nat
  BY <1>3, FS_Subset, FS_CardinalityType, Zenon
<1>5. ~ (At(Turned)' \subseteq missed') => ~ (At(Turned) \subseteq missed)
  BY Zenon DEF At
<1>6. QED
  BY <1>1, <1>2, <1>4, <1>5, SMTT(30) DEF FreeInv

(***************************************************************************)
(* One of those that come gets a snapshot permit.                          *)
(***************************************************************************)
LEMMA AllTaken ==
  ASSUME AllWakeInv, FreeInv, IsFiniteSet(At(Coming)), NEW t \in Gossip,
         pc[t] = "all", \A u \in Gossip : pc'[u] = IF u = t THEN "fetch" ELSE pc[u],
         free[All] \in Nat, free'[All] = free[All] - 1, stored' = stored, missed' = missed
  PROVE  AllWakeInv' /\ FreeInv'
<1>1. /\ "fetch" \in AllWakers /\ "fetch" \notin Turned /\ "fetch" \notin Coming
      /\ pc[t] \in Coming /\ pc[t] \notin Turned
  BY Zenon DEF AllWakers, HoldsAll, Turned, TurnedAway, Coming
<1>2. AllWakeInv'
  <2>1. t \in At(AllWakers)'
    BY <1>1, Zenon DEF At
  <2>2. QED
    BY <2>1, Zenon DEF AllWakeInv
<1>3. At(Turned)' = At(Turned) /\ At(Coming)' = At(Coming) \ {t} /\ t \in At(Coming)
  BY <1>1, Zenon DEF At
<1>4. /\ Cardinality(At(Coming)') = Cardinality(At(Coming)) - 1
      /\ Cardinality(At(Coming)) \in Nat
  BY <1>3, FS_RemoveElement, FS_CardinalityType, Zenon
<1>5. Kept' = Kept /\ Kept \in Nat
  BY Zenon DEF Kept
<1>6. QED
  BY <1>2, <1>3, <1>4, <1>5, SMTT(30) DEF FreeInv

(***************************************************************************)
(* No permit is free: those that hold them will notify.                    *)
(***************************************************************************)
LEMMA AllBusy ==
  ASSUME PermitInv, NEW t \in Gossip, free[All] = 0, free'[All] = 0, IsFiniteSet(At(Coming)'),
         pc[t] \notin HoldsAll, \A u \in Gossip : u # t => pc'[u] = pc[u]
  PROVE  AllWakeInv' /\ FreeInv'
<1>1. Cardinality(At(HoldsAll)) # 0
  BY Constants, SMTT(30) DEF PermitInv
<1>2. At(HoldsAll) # {}
  BY <1>1, FS_EmptySet, Zenon
<1>3. PICK u \in Gossip : pc[u] \in HoldsAll
  BY <1>2, Zenon DEF At
<1>4. u \in At(AllWakers)'
  BY <1>3, Zenon DEF At, AllWakers
<1>5. Cardinality(At(Coming)') \in Nat /\ Kept' \in Nat
  BY FS_CardinalityType, Zenon DEF Kept
<1>6. QED
  BY <1>4, <1>5, SMTT(30) DEF AllWakeInv, FreeInv

(***************************************************************************)
(* A snapshot permit is dropped by a task that has still to notify.        *)
(***************************************************************************)
LEMMA AllGiven ==
  ASSUME AllWakeInv, FreeInv, IsFiniteSet(At(Coming)), NEW t \in Gossip,
         pc[t] = "freeAll", \A u \in Gossip : pc'[u] = IF u = t THEN "tellAll" ELSE pc[u],
         free[All] \in Nat, free'[All] = free[All] + 1, stored' = stored, missed' = missed
  PROVE  AllWakeInv' /\ FreeInv'
<1>1. /\ "tellAll" \in AllWakers /\ "tellAll" \notin Turned /\ "tellAll" \in Coming
      /\ pc[t] \notin Coming /\ pc[t] \notin Turned
  BY Zenon DEF AllWakers, HoldsAll, Turned, TurnedAway, Coming
<1>2. AllWakeInv'
  <2>1. t \in At(AllWakers)'
    BY <1>1, Zenon DEF At
  <2>2. QED
    BY <2>1, Zenon DEF AllWakeInv
<1>3. At(Turned)' = At(Turned) /\ At(Coming)' = At(Coming) \cup {t} /\ t \notin At(Coming)
  BY <1>1, Zenon DEF At
<1>4. /\ Cardinality(At(Coming)') = Cardinality(At(Coming)) + 1
      /\ Cardinality(At(Coming)) \in Nat
  BY <1>3, FS_AddElement, FS_CardinalityType, Zenon
<1>5. Kept' = Kept /\ Kept \in Nat
  BY Zenon DEF Kept
<1>6. QED
  BY <1>2, <1>3, <1>4, <1>5, SMTT(30) DEF FreeInv

(***************************************************************************)
(* A task that comes notifies and goes: it wakes another, or its           *)
(* notification is stored, or it is one too many.                          *)
(***************************************************************************)
LEMMA AllTold ==
  ASSUME AllWakeInv, FreeInv, IsFiniteSet(At(Coming)), NEW t \in Gossip, NEW to,
         pc[t] \in Coming, to \notin Coming, to \notin Turned, Tells(t, All, to),
         \A u \in Gossip : pc[u] = "onPeer" => gate[u] # All, free[All] \in Nat, free'[All] = free[All]
  PROVE  AllWakeInv' /\ FreeInv'
<1>1. pc[t] \notin Turned
  BY Zenon DEF Coming, Turned, TurnedAway
<1>2. Cardinality(At(Coming)) \in Nat
  BY FS_CardinalityType, Zenon
<1>3. ASSUME NEW w \in Gossip, Wakes(t, All, to, w)
      PROVE  AllWakeInv' /\ FreeInv'
  <2>1. pc[w] = "onAll" /\ pc'[w] = "woken" /\ w # t
    BY <1>3, Zenon DEF Wakes, SleepsOn, Awake
  <2>2. /\ "woken" \in AllWakers /\ "woken" \in Coming /\ "woken" \notin Turned
        /\ "onAll" \notin Coming
    BY Zenon DEF AllWakers, Coming, Turned, TurnedAway
  <2>3. \A u \in Gossip : pc'[u] = IF u = t THEN to ELSE IF u = w THEN "woken" ELSE pc[u]
    BY <1>3, Zenon DEF Wakes, Awake
  <2>4. w \in At(AllWakers)'
    BY <2>1, <2>2, Zenon DEF At
  <2>5. At(Coming)' = (At(Coming) \ {t}) \cup {w} /\ t \in At(Coming) /\ w \notin At(Coming)
    BY <2>1, <2>2, <2>3, Zenon DEF At
  <2>6. IsFiniteSet(At(Coming) \ {t}) /\ Cardinality(At(Coming) \ {t}) = Cardinality(At(Coming)) - 1
    BY <2>5, FS_RemoveElement, Zenon
  <2>7. w \notin At(Coming) \ {t}
    BY <2>5, Zenon
  <2>8. Cardinality(At(Coming)') = Cardinality(At(Coming) \ {t}) + 1
    BY <2>5, <2>6, <2>7, FS_AddElement, Zenon
  <2>9. Cardinality(At(Coming)') = Cardinality(At(Coming))
    BY <1>2, <2>6, <2>8, SMTT(30)
  <2>10. At(Turned)' \subseteq At(Turned) \ {w}
    BY <2>1, <2>2, <2>3, SMTT(30) DEF At
  <2>11. ~ (At(Turned)' \subseteq missed') => ~ (At(Turned) \subseteq missed)
    BY <1>3, <2>10, Zenon DEF Wakes
  <2>12. Kept' = Kept
    BY <1>3, Zenon DEF Kept, Wakes
  <2>13. FreeInv'
    BY <2>9, <2>11, <2>12, Zenon DEF FreeInv
  <2>14. QED
    BY <2>4, <2>13, Zenon DEF AllWakeInv
<1>4. CASE Keeps(t, All, to)
  <2>1. \A u \in Gossip : pc'[u] = IF u = t THEN to ELSE pc[u]
    BY <1>4, Zenon DEF Keeps
  <2>2. All \in stored'
    BY <1>4, Zenon DEF Keeps
  <2>3. At(Turned)' = At(Turned) /\ At(Coming)' = At(Coming) \ {t} /\ t \in At(Coming)
    BY <1>1, <2>1, Zenon DEF At
  <2>4. Cardinality(At(Coming)') = Cardinality(At(Coming)) - 1
    BY <2>3, FS_RemoveElement, Zenon
  <2>5. \A u \in Gossip : pc[u] # "onAll"
    BY <1>4, Zenon DEF Keeps, SleepsOn
  <2>6. At(Turned) = At(TurnedAway)
    BY <2>5, Zenon DEF At, Turned
  <2>7. CASE All \in stored
    <3>1. At(Turned)' \subseteq missed'
      BY <1>4, <2>3, <2>6, <2>7, Zenon DEF Keeps
    <3>2. QED
      BY <2>2, <3>1, SMTT(30) DEF FreeInv, AllWakeInv
  <2>8. CASE All \notin stored
    <3>1. Kept = 0 /\ Kept' = 1 /\ missed' = missed
      BY <1>4, <2>2, <2>8, Zenon DEF Kept, Keeps
    <3>2. FreeInv'
      BY <1>2, <2>3, <2>4, <3>1, SMTT(30) DEF FreeInv
    <3>3. QED
      BY <2>2, <3>2, Zenon DEF AllWakeInv
  <2>9. QED
    BY <2>7, <2>8, Zenon
<1>5. QED
  BY <1>3, <1>4, Zenon DEF Tells

(***************************************************************************)
(* A task takes the stored notification and comes.                         *)
(***************************************************************************)
LEMMA AllHeard ==
  ASSUME AllWakeInv, FreeInv, IsFiniteSet(At(Coming)), NEW t \in Gossip, pc[t] = "waitAll",
         Takes(t, All), free[All] \in Nat, free'[All] = free[All]
  PROVE  AllWakeInv' /\ FreeInv'
<1>1. \A u \in Gossip : pc'[u] = IF u = t THEN "woken" ELSE pc[u]
  BY Zenon DEF Takes, Awake
<1>2. /\ "woken" \in AllWakers /\ "woken" \in Coming /\ "woken" \notin Turned
      /\ pc[t] \notin Coming
  BY Zenon DEF AllWakers, Coming, Turned, TurnedAway
<1>3. t \in At(AllWakers)'
  BY <1>1, <1>2, Zenon DEF At
<1>4. At(Coming)' = At(Coming) \cup {t} /\ t \notin At(Coming)
  BY <1>1, <1>2, Zenon DEF At
<1>5. /\ Cardinality(At(Coming)') = Cardinality(At(Coming)) + 1
      /\ Cardinality(At(Coming)) \in Nat
  BY <1>4, FS_AddElement, FS_CardinalityType, Zenon
<1>6. Kept = 1 /\ Kept' = 0
  BY Zenon DEF Kept, Takes
<1>7. At(Turned)' \subseteq At(Turned) \ {t}
  BY <1>1, <1>2, Zenon DEF At
<1>8. ~ (At(Turned)' \subseteq missed') => ~ (At(Turned) \subseteq missed)
  BY <1>7, Zenon DEF Takes
<1>9. FreeInv'
  BY <1>5, <1>6, <1>8, SMTT(30) DEF FreeInv
<1>10. QED
  BY <1>3, <1>9, Zenon DEF AllWakeInv

-----------------------------------------------------------------------------
(* The actions.                                                            *)

(***************************************************************************)
(* Those that come are admitted, and so finitely many.                     *)
(***************************************************************************)
LEMMA ComingIsFinite ==
  /\ EntryInv => IsFiniteSet(At(Coming))
  /\ EntryInv' => IsFiniteSet(At(Coming)')
<1>1. Coming \subseteq Admitted
  BY Zenon DEF Coming, Admitted, Acquiring, Releasing
<1>2. At(Coming) \subseteq At(Admitted) /\ At(Coming)' \subseteq At(Admitted)'
  BY <1>1, Zenon DEF At
<1>3. QED
  BY <1>2, FS_Subset, Zenon DEF EntryInv

(***************************************************************************)
(* The gate of an admitted task is not the semaphore of all.               *)
(***************************************************************************)
LEMMA SleepersHaveGates ==
  ASSUME TypeOK, EntryInv
  PROVE  \A u \in Gossip : pc[u] = "onPeer" => gate[u] # All
<1>1. "onPeer" \in Admitted
  BY Zenon DEF Admitted, Asleep
<1>2. QED
  BY <1>1, GateIsEntry, Zenon

(***************************************************************************)
(* The types after a step that admits nobody and lets nobody go.           *)
(***************************************************************************)
LEMMA TypeFrame ==
  ASSUME TypeOK, entry' = entry, pending' = pending, gate' = gate,
         pc' \in [Gossip -> Waiting \cup Over \cup Admitted \cup {"handle"}],
         free' \in [Gossip \cup {All} -> 0 .. Workers],
         waiters' \in [Gossip \cup {All} -> Seq(Gossip)],
         stored' \subseteq Gossip \cup {All}, missed' \subseteq Gossip,
         \A u \in Gossip : pc'[u] \in Admitted <=> pc[u] \in Admitted
  PROVE  TypeOK'
BY Zenon DEF TypeOK

(***************************************************************************)
(* A step of a task that is not admitted before or after it.               *)
(***************************************************************************)
LEMMA OutsideStep ==
  ASSUME LimiterInv, NEW t \in Gossip, NEW from, NEW to, Step(t, from, to), UNCHANGED permits,
         from \in {"net", "queued", "held", "handle"},
         to \in {"queued", "held", "handle", "done", "dropped"}
  PROVE  LimiterInv'
<1>1. TypeOK /\ EntryInv /\ PermitInv /\ NotifyInv /\ PeerWakeInv /\ AllWakeInv /\ FreeInv
  BY Zenon DEF LimiterInv
<1>2. /\ pc[t] = from /\ pc' = [pc EXCEPT ![t] = to]
      /\ entry' = entry /\ pending' = pending /\ gate' = gate /\ free' = free
      /\ waiters' = waiters /\ stored' = stored /\ missed' = missed
  BY Zenon DEF Step, permits
<1>3. /\ from \notin Admitted /\ from \notin HoldsPeer /\ from \notin HoldsAll /\ from \notin Asleep
      /\ from \notin Wanting /\ from \notin PeerWakers /\ from \notin Turned /\ from \notin Coming
      /\ from \notin AllWakers
  BY Zenon DEF Admitted, HoldsPeer, HoldsAll, Asleep, Wanting, PeerWakers, Turned, TurnedAway, Coming,
         AllWakers, Acquiring, Releasing
<1>4. /\ to \notin Admitted /\ to \notin HoldsPeer /\ to \notin HoldsAll /\ to \notin Asleep
      /\ to \notin Wanting /\ to \notin PeerWakers /\ to \notin Turned /\ to \notin Coming
      /\ to \notin AllWakers
  BY Zenon DEF Admitted, HoldsPeer, HoldsAll, Asleep, Wanting, PeerWakers, Turned, TurnedAway, Coming,
         AllWakers, Acquiring, Releasing
<1>5. \A u \in Gossip : pc'[u] = IF u = t THEN to ELSE pc[u]
  BY <1>1, <1>2, Zenon DEF TypeOK
<1>6. \A u \in Gossip : pc'[u] \in Admitted <=> pc[u] \in Admitted
  BY <1>2, <1>3, <1>4, <1>5, Zenon
<1>7. TypeOK'
  <2>1. to \in Waiting \cup Over \cup Admitted \cup {"handle"}
    BY Zenon DEF Waiting, Over
  <2>2. pc' \in [Gossip -> Waiting \cup Over \cup Admitted \cup {"handle"}]
    BY <1>1, <1>2, <2>1, Zenon DEF TypeOK
  <2>3. QED
    BY <1>1, <1>2, <1>6, <2>2, Zenon DEF TypeOK
<1>8. EntryInv'
  BY <1>1, <1>2, <1>6, EntryFrame, Zenon
<1>9. PermitInv'
  BY <1>1, <1>2, <1>3, <1>4, <1>5, <1>6, PermitFrame, Zenon
<1>10. NotifyInv'
  <2>1. stored' \subseteq stored
    BY <1>2, Zenon
  <2>2. QED
    BY <1>1, <1>2, <1>3, <1>4, <2>1, NotifyFrame, Zenon
<1>11. PeerWakeInv'
  <2>1. ASSUME NEW e \in Gossip
        PROVE  PeerInv(e)'
    <3>1. pc'[t] \notin Wanting /\ pc[t] \notin PeerWakers
      BY <1>2, <1>3, <1>4, <1>5, Zenon
    <3>2. /\ \A u \in Gossip : u # t => pc'[u] = pc[u] /\ gate'[u] = gate[u]
          /\ free'[e] = free[e] /\ (e \in stored => e \in stored')
      BY <1>2, <1>5, Zenon
    <3>3. QED
      BY <1>1, <3>1, <3>2, PeerStep, Zenon
  <2>2. QED
    BY <2>1, Zenon DEF PeerWakeInv
<1>12. AllWakeInv' /\ FreeInv'
  <2>1. free[All] \in Nat
    BY <1>1, FreeTypes, Zenon
  <2>2. \A u \in Gossip : /\ pc'[u] \in Turned => pc[u] \in Turned
                          /\ pc'[u] \in Turned /\ u \notin missed' => u \notin missed
                          /\ pc[u] \in Coming => pc'[u] \in Coming
                          /\ pc[u] \in AllWakers => pc'[u] \in AllWakers
    BY <1>2, <1>3, <1>4, <1>5, Zenon
  <2>3. QED
    BY <1>1, <1>2, <1>8, <2>1, <2>2, AllFrame, ComingIsFinite, Zenon
<1>13. QED
  BY <1>7, <1>8, <1>9, <1>10, <1>11, <1>12, Zenon DEF LimiterInv

(***************************************************************************)
(* try_admit_snapshot.                                                     *)
(***************************************************************************)
LEMMA TryAdmitStep ==
  ASSUME LimiterInv, NEW t \in Gossip, TryAdmit(t)
  PROVE  LimiterInv'
<1> DEFINE p == Announcer[t]
           e == IF entry[p] = Nil THEN t ELSE entry[p]
<1>1. TypeOK /\ EntryInv /\ PermitInv /\ NotifyInv /\ PeerWakeInv /\ AllWakeInv /\ FreeInv
  BY Zenon DEF LimiterInv
<1>2. /\ pc[t] = "handle" /\ pc' = [pc EXCEPT ![t] = "peer"] /\ gate' = [gate EXCEPT ![t] = e]
      /\ entry' = [entry EXCEPT ![p] = e]
      /\ free' = IF entry[p] = Nil THEN [free EXCEPT ![e] = 1] ELSE free
      /\ waiters' = waiters /\ stored' = stored /\ missed' = missed
  BY Zenon DEF TryAdmit, Step
<1>3. EntryInv' /\ pending' \in [Gossip -> 0 .. MaxPending]
  BY <1>1, AdmitKeepsEntries, Zenon
<1>4. PermitInv' /\ free' \in [Gossip \cup {All} -> 0 .. Workers]
  BY <1>1, AdmitKeepsPermits, Zenon
<1>5. p \in Peer /\ e \in Gossip /\ e # Nil /\ e # All
  BY <1>1, Constants, EntryIsOfPeer, Zenon
<1> HIDE DEF p, e
<1>6. /\ \A u \in Gossip : pc'[u] = IF u = t THEN "peer" ELSE pc[u]
      /\ \A u \in Gossip : gate'[u] = IF u = t THEN e ELSE gate[u]
  BY <1>1, <1>2, Zenon DEF TypeOK
<1>7. /\ "peer" \in Admitted /\ "peer" \notin Asleep /\ "peer" \notin Wanting /\ "peer" \in PeerWakers
      /\ "peer" \notin Turned /\ pc[t] \notin Asleep /\ pc[t] \notin PeerWakers
      /\ pc[t] \notin Coming /\ pc[t] \notin AllWakers
  BY <1>2, Zenon DEF Admitted, Asleep, Wanting, PeerWakers, Turned, TurnedAway, Acquiring, Coming, AllWakers, HoldsAll
<1>8. TypeOK'
  <2>1. pc' \in [Gossip -> Waiting \cup Over \cup Admitted \cup {"handle"}]
    BY <1>1, <1>2, <1>7, SMTT(30) DEF TypeOK
  <2>2. entry' \in [Peer -> Gossip \cup {Nil}] /\ gate' \in [Gossip -> Gossip \cup {Nil}]
    BY <1>1, <1>2, <1>5, SMTT(30) DEF TypeOK
  <2>3. \A u \in Gossip : gate'[u] # Nil <=> pc'[u] \in Admitted
    BY <1>1, <1>5, <1>6, <1>7, Zenon DEF TypeOK
  <2>4. QED
    BY <1>1, <1>2, <1>3, <1>4, <2>1, <2>2, <2>3, Zenon DEF TypeOK
<1>9. NotifyInv'
  <2>1. stored' \subseteq stored
    BY <1>2, Zenon
  <2>2. QED
    BY <1>1, <1>2, <1>6, <1>7, <2>1, NotifyFrame, Zenon
<1>10. PeerWakeInv'
  <2>1. ASSUME NEW c \in Gossip
        PROVE  PeerInv(c)'
    <3>1. CASE c = e
      <4>1. gate'[t] = c /\ pc'[t] \in PeerWakers
        BY <1>6, <1>7, <3>1, Zenon
      <4>2. QED
        BY <4>1, PeerDone, Zenon DEF PeerWaker
    <3>2. CASE c # e
      <4>1. free'[c] = free[c]
        BY <1>1, <1>2, <3>2, Zenon DEF TypeOK
      <4>2. pc'[t] \notin Wanting /\ pc[t] \notin PeerWakers
        BY <1>6, <1>7, Zenon
      <4>3. /\ \A u \in Gossip : u # t => pc'[u] = pc[u] /\ gate'[u] = gate[u]
            /\ c \in stored => c \in stored'
        BY <1>2, <1>6, Zenon
      <4>4. QED
        BY <1>1, <4>1, <4>2, <4>3, PeerStep, Zenon
    <3>3. QED
      BY <3>1, <3>2, Zenon
  <2>2. QED
    BY <2>1, Zenon DEF PeerWakeInv
<1>11. AllWakeInv' /\ FreeInv'
  <2>1. free[All] \in Nat
    BY <1>1, FreeTypes, Zenon
  <2>2. free'[All] = free[All]
    BY <1>1, <1>2, <1>5, Zenon DEF TypeOK
  <2>3. \A u \in Gossip : /\ pc'[u] \in Turned => pc[u] \in Turned
                          /\ pc'[u] \in Turned /\ u \notin missed' => u \notin missed
                          /\ pc[u] \in Coming => pc'[u] \in Coming
                          /\ pc[u] \in AllWakers => pc'[u] \in AllWakers
    BY <1>2, <1>6, <1>7, Zenon
  <2>4. QED
    BY <1>1, <1>2, <1>3, <2>1, <2>2, <2>3, AllFrame, ComingIsFinite, Zenon
<1>12. QED
  BY <1>3, <1>4, <1>8, <1>9, <1>10, <1>11, Zenon DEF LimiterInv

(***************************************************************************)
(* Drop for SnapshotFetchAdmission.                                        *)
(***************************************************************************)
LEMMA LeaveStep ==
  ASSUME LimiterInv, NEW t \in Gossip, Leave(t)
  PROVE  LimiterInv'
<1> DEFINE e == gate[t]
           last == pending[e] = 1
<1>1. TypeOK /\ EntryInv /\ PermitInv /\ NotifyInv /\ PeerWakeInv /\ AllWakeInv /\ FreeInv
  BY Zenon DEF LimiterInv
<1>2. /\ pc[t] = "leave" /\ pc' = [pc EXCEPT ![t] = "done"] /\ gate' = [gate EXCEPT ![t] = Nil]
      /\ entry' = IF last THEN [entry EXCEPT ![Announcer[t]] = Nil] ELSE entry
      /\ free' = IF last THEN [free EXCEPT ![e] = 0] ELSE free
      /\ stored' = IF last THEN stored \ {e} ELSE stored
      /\ waiters' = waiters /\ missed' = missed
  BY Zenon DEF Leave, Step
<1>3. EntryInv' /\ pending' \in [Gossip -> 0 .. MaxPending]
  BY <1>1, LeaveKeepsEntries, Zenon
<1>4. PermitInv' /\ free' \in [Gossip \cup {All} -> 0 .. Workers]
  BY <1>1, LeaveKeepsPermits, Zenon
<1>5. /\ pc[t] \in Admitted /\ "done" \notin Admitted /\ "done" \notin Asleep /\ "done" \notin Wanting
      /\ "done" \notin Turned /\ pc[t] \notin Asleep /\ pc[t] \notin PeerWakers
      /\ pc[t] \notin Coming /\ pc[t] \notin AllWakers /\ "done" \in Over
  BY <1>2, Zenon DEF Admitted, Asleep, Wanting, PeerWakers, Turned, TurnedAway, Acquiring, Releasing, Coming,
              AllWakers, HoldsAll, Over
<1>6. e \in Gossip /\ e # All
  BY <1>1, <1>5, GateIsEntry, Zenon
<1> HIDE DEF e, last
<1>7. /\ \A u \in Gossip : pc'[u] = IF u = t THEN "done" ELSE pc[u]
      /\ \A u \in Gossip : gate'[u] = IF u = t THEN Nil ELSE gate[u]
  BY <1>1, <1>2, Zenon DEF TypeOK
<1>8. stored' \subseteq stored /\ (All \in stored' <=> All \in stored)
  BY <1>2, <1>6, Zenon
<1>9. TypeOK'
  <2>1. pc' \in [Gossip -> Waiting \cup Over \cup Admitted \cup {"handle"}]
    BY <1>1, <1>2, <1>5, SMTT(30) DEF TypeOK
  <2>2. entry' \in [Peer -> Gossip \cup {Nil}] /\ gate' \in [Gossip -> Gossip \cup {Nil}]
    BY <1>1, <1>2, Zenon DEF TypeOK
  <2>3. \A u \in Gossip : gate'[u] # Nil <=> pc'[u] \in Admitted
    BY <1>1, <1>5, <1>7, Zenon DEF TypeOK
  <2>4. stored' \subseteq Gossip \cup {All}
    BY <1>1, <1>8, Zenon DEF TypeOK
  <2>5. QED
    BY <1>1, <1>2, <1>3, <1>4, <2>1, <2>2, <2>3, <2>4, Zenon DEF TypeOK
<1>10. NotifyInv'
  BY <1>1, <1>2, <1>5, <1>7, <1>8, NotifyFrame, Zenon
<1>11. PeerWakeInv'
  <2>1. ASSUME NEW c \in Gossip
        PROVE  PeerInv(c)'
    <3>1. CASE c = e /\ last
      <4>1. free'[c] = 0
        BY <1>1, <1>2, <3>1, SMTT(30) DEF TypeOK
      <4>2. ~ free'[c] > 0
        BY <4>1, SMTT(30)
      <4>3. QED
        BY <4>2, PeerDone, Zenon
    <3>2. CASE ~ (c = e /\ last)
      <4>1. free'[c] = free[c]
        BY <1>1, <1>2, <3>2, Zenon DEF TypeOK
      <4>2. c \in stored => c \in stored'
        BY <1>2, <3>2, Zenon
      <4>3. pc'[t] \notin Wanting /\ pc[t] \notin PeerWakers
        BY <1>5, <1>7, Zenon
      <4>4. \A u \in Gossip : u # t => pc'[u] = pc[u] /\ gate'[u] = gate[u]
        BY <1>7, Zenon
      <4>5. QED
        BY <1>1, <4>1, <4>2, <4>3, <4>4, PeerStep, Zenon
    <3>3. QED
      BY <3>1, <3>2, Zenon
  <2>2. QED
    BY <2>1, Zenon DEF PeerWakeInv
<1>12. AllWakeInv' /\ FreeInv'
  <2>1. free[All] \in Nat
    BY <1>1, FreeTypes, Zenon
  <2>2. free'[All] = free[All]
    BY <1>1, <1>2, <1>6, Zenon DEF TypeOK
  <2>3. \A u \in Gossip : /\ pc'[u] \in Turned => pc[u] \in Turned
                          /\ pc'[u] \in Turned /\ u \notin missed' => u \notin missed
                          /\ pc[u] \in Coming => pc'[u] \in Coming
                          /\ pc[u] \in AllWakers => pc'[u] \in AllWakers
    BY <1>2, <1>5, <1>7, Zenon
  <2>4. QED
    BY <1>1, <1>3, <1>8, <2>1, <2>2, <2>3, AllFrame, ComingIsFinite, Zenon
<1>13. QED
  BY <1>3, <1>4, <1>9, <1>10, <1>11, <1>12, Zenon DEF LimiterInv

(***************************************************************************)
(* A step of an admitted task that is no notification and no wait.         *)
(***************************************************************************)
LEMMA AdmittedStep ==
  ASSUME LimiterInv, NEW t \in Gossip, NEW to, pc' = [pc EXCEPT ![t] = to],
         pc[t] \in Admitted, to \in Admitted, pc[t] \notin Asleep, to \notin Asleep,
         UNCHANGED <<admission, notify>>, free' \in [Gossip \cup {All} -> 0 .. Workers]
  PROVE  /\ TypeOK' /\ EntryInv' /\ NotifyInv' /\ IsFiniteSet(At(Coming)) /\ IsFiniteSet(At(Coming)')
         /\ \A u \in Gossip : pc'[u] = IF u = t THEN to ELSE pc[u]
         /\ gate' = gate /\ stored' = stored /\ missed' = missed /\ gate[t] \in Gossip /\ gate[t] # All
         /\ free[gate[t]] \in Nat /\ free[All] \in Nat
<1>1. TypeOK /\ EntryInv /\ NotifyInv
  BY Zenon DEF LimiterInv
<1>2. /\ entry' = entry /\ pending' = pending /\ gate' = gate
      /\ waiters' = waiters /\ stored' = stored /\ missed' = missed
  BY Zenon DEF admission, notify
<1>3. \A u \in Gossip : pc'[u] = IF u = t THEN to ELSE pc[u]
  BY <1>1, Zenon DEF TypeOK
<1>4. \A u \in Gossip : pc'[u] \in Admitted <=> pc[u] \in Admitted
  BY <1>3, Zenon
<1>5. EntryInv'
  BY <1>1, <1>2, <1>4, EntryFrame, Zenon
<1>6. pc' \in [Gossip -> Waiting \cup Over \cup Admitted \cup {"handle"}]
  BY <1>1, Zenon DEF TypeOK
<1>7. TypeOK'
  <2>1. /\ waiters' \in [Gossip \cup {All} -> Seq(Gossip)]
        /\ stored' \subseteq Gossip \cup {All} /\ missed' \subseteq Gossip
    BY <1>1, <1>2, Zenon DEF TypeOK
  <2>2. QED
    BY <1>1, <1>2, <1>4, <1>6, <2>1, TypeFrame, Zenon
<1>8. NotifyInv'
  <2>1. stored' \subseteq stored
    BY <1>2, Zenon
  <2>2. QED
    BY <1>1, <1>2, <2>1, NotifyFrame, Zenon
<1>9. gate[t] \in Gossip /\ gate[t] # All /\ free[gate[t]] \in Nat /\ free[All] \in Nat
  BY <1>1, GateIsEntry, FreeTypes, Zenon
<1>10. QED
  BY <1>1, <1>2, <1>3, <1>5, <1>7, <1>8, <1>9, ComingIsFinite, Zenon

(***************************************************************************)
(* try_acquire_owned on the semaphore of the peer.                         *)
(***************************************************************************)
LEMMA TryPeerStep ==
  ASSUME LimiterInv, NEW t \in Gossip, TryPeer(t)
  PROVE  LimiterInv'
<1> DEFINE e == gate[t]
           to == IF free[e] > 0 THEN "all" ELSE IF pc[t] = "woken" THEN "passOn" ELSE "waitPeer"
<1>1. TypeOK /\ EntryInv /\ PermitInv /\ NotifyInv /\ PeerWakeInv /\ AllWakeInv /\ FreeInv
  BY Zenon DEF LimiterInv
<1>2. pc[t] \in {"peer", "woken"} /\ UNCHANGED <<admission, notify>> /\ gate' = gate
  BY Zenon DEF TryPeer, admission
<1>3. pc' = [pc EXCEPT ![t] = to]
  BY <1>1, Zenon DEF TryPeer, TypeOK
<1>4. free' = IF free[e] > 0 THEN [free EXCEPT ![e] = @ - 1] ELSE free
  BY Zenon DEF TryPeer
<1>5. /\ pc[t] \in Admitted /\ to \in Admitted /\ pc[t] \notin Asleep /\ to \notin Asleep
      /\ to \notin Turned /\ (pc[t] \in Coming => to \in Coming) /\ (pc[t] \in AllWakers => to \in AllWakers)
  BY <1>2, Zenon DEF Admitted, Asleep, Acquiring, Turned, TurnedAway, Coming, AllWakers, HoldsAll
<1>6. /\ PermitInv' /\ free' \in [Gossip \cup {All} -> 0 .. Workers] /\ ~ free'[e] > 0
      /\ \A n \in Gossip \cup {All} : n # e => free'[n] = free[n]
  <2>1. CASE free[e] > 0
    <3>1. /\ PermitInv' /\ free' \in [Gossip \cup {All} -> 0 .. Workers] /\ free'[e] = 0
          /\ \A n \in Gossip \cup {All} : n # e => free'[n] = free[n]
      BY <1>1, <1>2, <1>3, <1>4, <2>1, TakePeer, Zenon
    <3>2. QED
      BY <3>1, SMTT(30)
  <2>2. CASE ~ free[e] > 0
    <3>1. /\ pc[t] \notin HoldsPeer /\ pc[t] \notin HoldsAll /\ to \notin HoldsPeer /\ to \notin HoldsAll
      BY <1>2, <2>2, Zenon DEF HoldsPeer, HoldsAll
    <3> HIDE DEF to, e
    <3>2. \A u \in Gossip : pc'[u] = IF u = t THEN to ELSE pc[u]
      BY <1>1, <1>3, Zenon DEF TypeOK
    <3>3. \A u \in Gossip : /\ pc'[u] \in Admitted <=> pc[u] \in Admitted
                            /\ pc'[u] \in HoldsPeer <=> pc[u] \in HoldsPeer
                            /\ pc'[u] \in HoldsAll <=> pc[u] \in HoldsAll
      BY <1>5, <3>1, <3>2, Zenon
    <3>4. free' = free
      BY <1>4, <2>2, Zenon
    <3>5. PermitInv'
      BY <1>1, <1>2, <3>3, <3>4, PermitFrame, Zenon
    <3>6. QED
      BY <1>1, <2>2, <3>4, <3>5, Zenon DEF TypeOK
  <2>3. QED
    BY <2>1, <2>2, Zenon
<1> HIDE DEF to, e
<1>7. /\ TypeOK' /\ EntryInv' /\ NotifyInv' /\ IsFiniteSet(At(Coming)) /\ IsFiniteSet(At(Coming)')
      /\ \A u \in Gossip : pc'[u] = IF u = t THEN to ELSE pc[u]
      /\ stored' = stored /\ missed' = missed /\ e \in Gossip /\ e # All /\ free[All] \in Nat
  <2>1. /\ pc[t] \in Admitted /\ to \in Admitted /\ pc[t] \notin Asleep /\ to \notin Asleep
        /\ UNCHANGED <<admission, notify>> /\ free' \in [Gossip \cup {All} -> 0 .. Workers]
    BY <1>2, <1>5, <1>6, Zenon
  <2>2. /\ TypeOK' /\ EntryInv' /\ NotifyInv' /\ IsFiniteSet(At(Coming)) /\ IsFiniteSet(At(Coming)')
        /\ \A u \in Gossip : pc'[u] = IF u = t THEN to ELSE pc[u]
        /\ gate' = gate /\ stored' = stored /\ missed' = missed /\ gate[t] \in Gossip /\ gate[t] # All
        /\ free[gate[t]] \in Nat /\ free[All] \in Nat
    BY <1>3, <2>1, AdmittedStep, Zenon
  <2>3. QED
    BY <2>2, Zenon DEF e
<1>8. PeerWakeInv'
  <2>1. ASSUME NEW c \in Gossip
        PROVE  PeerInv(c)'
    <3>1. CASE c = e
      BY <1>6, <3>1, PeerDone, Zenon
    <3>2. CASE c # e
      <4>1. free'[c] = free[c]
        BY <1>6, <3>2, Zenon
      <4>2. gate[t] # c /\ gate'[t] # c
        BY <1>2, <3>2, Zenon DEF e
      <4>3. /\ \A u \in Gossip : u # t => pc'[u] = pc[u] /\ gate'[u] = gate[u]
            /\ c \in stored => c \in stored'
        BY <1>2, <1>7, Zenon
      <4>4. QED
        BY <1>1, <4>1, <4>2, <4>3, PeerStep, Zenon
    <3>3. QED
      BY <3>1, <3>2, Zenon
  <2>2. QED
    BY <2>1, Zenon DEF PeerWakeInv
<1>9. AllWakeInv' /\ FreeInv'
  <2>1. free'[All] = free[All]
    BY <1>6, <1>7, Zenon
  <2>2. \A u \in Gossip : /\ pc'[u] \in Turned => pc[u] \in Turned
                          /\ pc'[u] \in Turned /\ u \notin missed' => u \notin missed
                          /\ pc[u] \in Coming => pc'[u] \in Coming
                          /\ pc[u] \in AllWakers => pc'[u] \in AllWakers
    BY <1>5, <1>7, Zenon
  <2>3. QED
    BY <1>1, <1>7, <2>1, <2>2, AllFrame, Zenon
<1>10. QED
  BY <1>6, <1>7, <1>8, <1>9, Zenon DEF LimiterInv

(***************************************************************************)
(* try_acquire_owned on the semaphore of all.                              *)
(***************************************************************************)
LEMMA TryAllStep ==
  ASSUME LimiterInv, NEW t \in Gossip, TryAll(t)
  PROVE  LimiterInv'
<1>1. TypeOK /\ EntryInv /\ PermitInv /\ NotifyInv /\ PeerWakeInv /\ AllWakeInv /\ FreeInv
  BY Zenon DEF LimiterInv
<1>2. pc[t] = "all" /\ UNCHANGED <<admission, notify>> /\ gate' = gate /\ free[All] \in Nat
  BY <1>1, FreeTypes, Zenon DEF TryAll, Step, admission
<1>3. PICK to \in {"fetch", "backOff"} :
        /\ to = IF free[All] > 0 THEN "fetch" ELSE "backOff"
        /\ pc' = [pc EXCEPT ![t] = to]
  BY Zenon DEF TryAll, Step
<1>4. /\ pc[t] \in Admitted /\ to \in Admitted /\ pc[t] \notin Asleep /\ to \notin Asleep
      /\ pc[t] \notin PeerWakers /\ to \notin Wanting /\ pc[t] \notin HoldsAll
  BY <1>2, Zenon DEF Admitted, Asleep, Acquiring, PeerWakers, Wanting, HoldsAll
<1>5. /\ PermitInv' /\ free' \in [Gossip \cup {All} -> 0 .. Workers]
      /\ free'[All] = IF free[All] > 0 THEN free[All] - 1 ELSE 0
      /\ \A c \in Gossip : free'[c] = free[c]
  <2>1. CASE free[All] > 0
    <3>1. free' = [free EXCEPT ![All] = @ - 1] /\ pc' = [pc EXCEPT ![t] = "fetch"]
      BY <1>1, <1>3, <2>1, SMTT(30) DEF TryAll, TypeOK
    <3>2. QED
      BY <1>1, <1>2, <2>1, <3>1, TakeAll, Zenon
  <2>2. CASE ~ free[All] > 0
    <3>1. free' = free
      BY <1>1, <2>2, Zenon DEF TryAll, TypeOK
    <3>2. free'[All] = 0 /\ free[All] = 0
      BY <1>2, <2>2, <3>1, SMTT(30)
    <3>3. pc[t] \in HoldsPeer /\ to \in HoldsPeer /\ to \notin HoldsAll
      BY <1>2, <1>3, <2>2, SMTT(30) DEF HoldsPeer, HoldsAll
    <3>4. \A u \in Gossip : pc'[u] = IF u = t THEN to ELSE pc[u]
      BY <1>1, <1>3, Zenon DEF TypeOK
    <3>5. \A u \in Gossip : /\ pc'[u] \in Admitted <=> pc[u] \in Admitted
                            /\ pc'[u] \in HoldsPeer <=> pc[u] \in HoldsPeer
                            /\ pc'[u] \in HoldsAll <=> pc[u] \in HoldsAll
      BY <1>4, <3>3, <3>4, Zenon
    <3>6. PermitInv'
      BY <1>1, <1>2, <3>1, <3>5, PermitFrame, Zenon
    <3>7. QED
      BY <1>1, <2>2, <3>1, <3>2, <3>6, Zenon DEF TypeOK
  <2>3. QED
    BY <2>1, <2>2, Zenon
<1>6. /\ TypeOK' /\ EntryInv' /\ NotifyInv' /\ IsFiniteSet(At(Coming)) /\ IsFiniteSet(At(Coming)')
      /\ \A u \in Gossip : pc'[u] = IF u = t THEN to ELSE pc[u]
      /\ gate' = gate /\ stored' = stored /\ missed' = missed /\ gate[t] \in Gossip /\ gate[t] # All
      /\ free[gate[t]] \in Nat /\ free[All] \in Nat
  <2>1. /\ pc[t] \in Admitted /\ to \in Admitted /\ pc[t] \notin Asleep /\ to \notin Asleep
        /\ pc' = [pc EXCEPT ![t] = to] /\ UNCHANGED <<admission, notify>>
        /\ free' \in [Gossip \cup {All} -> 0 .. Workers]
    BY <1>2, <1>3, <1>4, <1>5, Zenon
  <2>2. QED
    BY <2>1, AdmittedStep, Zenon
<1>7. PeerWakeInv'
  <2>1. ASSUME NEW c \in Gossip
        PROVE  PeerInv(c)'
    <3>1. pc'[t] \notin Wanting
      BY <1>4, <1>6, Zenon
    <3>2. /\ \A u \in Gossip : u # t => pc'[u] = pc[u] /\ gate'[u] = gate[u]
          /\ free'[c] = free[c] /\ (c \in stored => c \in stored')
      BY <1>5, <1>6, Zenon
    <3>3. QED
      BY <1>1, <1>4, <3>1, <3>2, PeerStep, Zenon
  <2>2. QED
    BY <2>1, Zenon DEF PeerWakeInv
<1>8. AllWakeInv' /\ FreeInv'
  <2>1. CASE free[All] > 0
    <3>1. to = "fetch" /\ free'[All] = free[All] - 1
      BY <1>3, <1>5, <2>1, SMTT(30)
    <3>2. \A u \in Gossip : pc'[u] = IF u = t THEN "fetch" ELSE pc[u]
      BY <1>6, <3>1, Zenon
    <3>3. QED
      BY <1>1, <1>2, <1>6, <3>1, <3>2, AllTaken, Zenon
  <2>2. CASE ~ free[All] > 0
    <3>1. free[All] = 0 /\ free'[All] = 0
      BY <1>2, <1>5, <2>2, SMTT(30)
    <3>2. \A u \in Gossip : u # t => pc'[u] = pc[u]
      BY <1>6, Zenon
    <3>3. QED
      BY <1>1, <1>4, <1>6, <3>1, <3>2, AllBusy, Zenon
  <2>3. QED
    BY <2>1, <2>2, SMTT(30)
<1>9. QED
  BY <1>5, <1>6, <1>7, <1>8, Zenon DEF LimiterInv

(***************************************************************************)
(* The permit of a peer is dropped, by a task that was turned away or has  *)
(* fetched.                                                                *)
(***************************************************************************)
LEMMA GivePeerStep ==
  ASSUME LimiterInv, NEW t \in Gossip, BackOff(t) \/ Fetched(t)
  PROVE  LimiterInv'
<1>1. TypeOK /\ EntryInv /\ PermitInv /\ NotifyInv /\ PeerWakeInv /\ AllWakeInv /\ FreeInv
  BY Zenon DEF LimiterInv
<1>2. PICK to \in {"retell", "tellPeer"} :
        /\ ((pc[t] = "backOff" /\ to = "retell") \/ (pc[t] = "fetch" /\ to = "tellPeer"))
        /\ pc' = [pc EXCEPT ![t] = to]
  BY Zenon DEF BackOff, Fetched, Step
<1>3. /\ free' = [free EXCEPT ![gate[t]] = @ + 1]
      /\ UNCHANGED <<admission, notify>> /\ gate' = gate
  BY Zenon DEF BackOff, Fetched, admission
<1>4. /\ pc[t] \in Admitted /\ to \in Admitted /\ pc[t] \notin Asleep /\ to \notin Asleep
      /\ to \in PeerWakers /\ pc[t] \notin Coming
      /\ (pc[t] \in AllWakers => to \in AllWakers) /\ (to \in Turned => pc[t] \in Turned)
  BY <1>2, Zenon DEF Admitted, Asleep, Acquiring, Releasing, PeerWakers, HoldsAll, Coming, AllWakers, Turned, TurnedAway
<1>5. /\ PermitInv' /\ free' \in [Gossip \cup {All} -> 0 .. Workers]
      /\ \A n \in Gossip \cup {All} : n # gate[t] => free'[n] = free[n]
  <2>1. /\ ((pc[t] = "backOff" /\ to = "retell") \/ (pc[t] = "fetch" /\ to = "tellPeer"))
        /\ pc' = [pc EXCEPT ![t] = to] /\ free' = [free EXCEPT ![gate[t]] = @ + 1] /\ gate' = gate
    BY <1>2, <1>3, Zenon
  <2>2. QED
    BY <1>1, <2>1, GivePeer, Zenon
<1>6. /\ TypeOK' /\ EntryInv' /\ NotifyInv' /\ IsFiniteSet(At(Coming)) /\ IsFiniteSet(At(Coming)')
      /\ \A u \in Gossip : pc'[u] = IF u = t THEN to ELSE pc[u]
      /\ gate' = gate /\ stored' = stored /\ missed' = missed /\ gate[t] \in Gossip /\ gate[t] # All
      /\ free[gate[t]] \in Nat /\ free[All] \in Nat
  BY <1>2, <1>3, <1>4, <1>5, AdmittedStep, Zenon
<1>7. PeerWakeInv'
  <2>1. ASSUME NEW c \in Gossip
        PROVE  PeerInv(c)'
    <3>1. CASE c = gate[t]
      <4>1. gate'[t] = c /\ pc'[t] \in PeerWakers
        BY <1>4, <1>6, <3>1, Zenon
      <4>2. QED
        BY <4>1, PeerDone, Zenon DEF PeerWaker
    <3>2. CASE c # gate[t]
      <4>1. free'[c] = free[c] /\ gate[t] # c /\ gate'[t] # c
        BY <1>5, <1>6, <3>2, Zenon
      <4>2. /\ \A u \in Gossip : u # t => pc'[u] = pc[u] /\ gate'[u] = gate[u]
            /\ c \in stored => c \in stored'
        BY <1>6, Zenon
      <4>3. QED
        BY <1>1, <4>1, <4>2, PeerStep, Zenon
    <3>3. QED
      BY <3>1, <3>2, Zenon
  <2>2. QED
    BY <2>1, Zenon DEF PeerWakeInv
<1>8. AllWakeInv' /\ FreeInv'
  <2>1. free'[All] = free[All]
    BY <1>5, <1>6, Zenon
  <2>2. \A u \in Gossip : /\ pc'[u] \in Turned => pc[u] \in Turned
                          /\ pc'[u] \in Turned /\ u \notin missed' => u \notin missed
                          /\ pc[u] \in Coming => pc'[u] \in Coming
                          /\ pc[u] \in AllWakers => pc'[u] \in AllWakers
    BY <1>4, <1>6, Zenon
  <2>3. QED
    BY <1>1, <1>6, <2>1, <2>2, AllFrame, Zenon
<1>9. QED
  BY <1>5, <1>6, <1>7, <1>8, Zenon DEF LimiterInv

(***************************************************************************)
(* A snapshot permit is dropped.                                           *)
(***************************************************************************)
LEMMA FreeAllStep ==
  ASSUME LimiterInv, NEW t \in Gossip, FreeAll(t)
  PROVE  LimiterInv'
<1>1. TypeOK /\ EntryInv /\ PermitInv /\ NotifyInv /\ PeerWakeInv /\ AllWakeInv /\ FreeInv
  BY Zenon DEF LimiterInv
<1>2. /\ pc[t] = "freeAll" /\ pc' = [pc EXCEPT ![t] = "tellAll"]
      /\ free' = [free EXCEPT ![All] = @ + 1]
      /\ UNCHANGED <<admission, notify>> /\ gate' = gate
  BY Zenon DEF FreeAll, Step, admission
<1>3. /\ pc[t] \in Admitted /\ "tellAll" \in Admitted /\ pc[t] \notin Asleep /\ "tellAll" \notin Asleep
      /\ pc[t] \notin PeerWakers /\ "tellAll" \notin Wanting
  BY <1>2, Zenon DEF Admitted, Asleep, Releasing, PeerWakers, Wanting
<1>4. /\ PermitInv' /\ free' \in [Gossip \cup {All} -> 0 .. Workers]
      /\ free'[All] = free[All] + 1 /\ \A c \in Gossip : free'[c] = free[c]
  BY <1>1, <1>2, GiveAll, Zenon
<1>5. /\ TypeOK' /\ EntryInv' /\ NotifyInv' /\ IsFiniteSet(At(Coming)) /\ IsFiniteSet(At(Coming)')
      /\ \A u \in Gossip : pc'[u] = IF u = t THEN "tellAll" ELSE pc[u]
      /\ gate' = gate /\ stored' = stored /\ missed' = missed /\ gate[t] \in Gossip /\ gate[t] # All
      /\ free[gate[t]] \in Nat /\ free[All] \in Nat
  BY <1>2, <1>3, <1>4, AdmittedStep, Zenon
<1>6. PeerWakeInv'
  <2>1. ASSUME NEW c \in Gossip
        PROVE  PeerInv(c)'
    <3>1. pc'[t] \notin Wanting
      BY <1>3, <1>5, Zenon
    <3>2. /\ \A u \in Gossip : u # t => pc'[u] = pc[u] /\ gate'[u] = gate[u]
          /\ free'[c] = free[c] /\ (c \in stored => c \in stored')
      BY <1>4, <1>5, Zenon
    <3>3. QED
      BY <1>1, <1>3, <3>1, <3>2, PeerStep, Zenon
  <2>2. QED
    BY <2>1, Zenon DEF PeerWakeInv
<1>7. AllWakeInv' /\ FreeInv'
  BY <1>1, <1>2, <1>4, <1>5, AllGiven, Zenon
<1>8. QED
  BY <1>4, <1>5, <1>6, <1>7, Zenon DEF LimiterInv

(***************************************************************************)
(* What a notification keeps, whomever it is for.                          *)
(***************************************************************************)
LEMMA TellStep ==
  ASSUME LimiterInv, NEW t \in Gossip, NEW n \in Gossip \cup {All}, NEW to, NotifyOne(t, n, to),
         pc[t] \in Admitted, to \in Admitted, pc[t] \notin Asleep, to \notin Asleep,
         pc[t] \notin HoldsPeer, to \notin HoldsPeer, pc[t] \in HoldsAll <=> to \in HoldsAll,
         UNCHANGED <<admission, free>>
  PROVE  /\ TypeOK' /\ EntryInv' /\ PermitInv' /\ NotifyInv' /\ Tells(t, n, to)
         /\ IsFiniteSet(At(Coming)) /\ IsFiniteSet(At(Coming)') /\ free[All] \in Nat
         /\ gate' = gate /\ free' = free /\ gate[t] \in Gossip /\ gate[t] # All
<1>1. TypeOK /\ EntryInv /\ PermitInv /\ NotifyInv
  BY Zenon DEF LimiterInv
<1>2. entry' = entry /\ pending' = pending /\ gate' = gate /\ free' = free
  BY Zenon DEF admission
<1>3. /\ Tells(t, n, to) /\ NotifyInv'
      /\ pc' \in [Gossip -> Waiting \cup Over \cup Admitted \cup {"handle"}]
      /\ waiters' \in [Gossip \cup {All} -> Seq(Gossip)]
      /\ stored' \subseteq Gossip \cup {All} /\ missed' \subseteq Gossip
  BY <1>1, <1>2, NotifyStep, Zenon
<1>4. \A u \in Gossip : /\ pc'[u] \in Admitted <=> pc[u] \in Admitted
                        /\ pc'[u] \in HoldsPeer <=> pc[u] \in HoldsPeer
                        /\ pc'[u] \in HoldsAll <=> pc[u] \in HoldsAll
  <2>1. CASE Keeps(t, n, to)
    BY <2>1, Zenon DEF Keeps
  <2>2. ASSUME NEW w \in Gossip, Wakes(t, n, to, w)
        PROVE  \A u \in Gossip : /\ pc'[u] \in Admitted <=> pc[u] \in Admitted
                                 /\ pc'[u] \in HoldsPeer <=> pc[u] \in HoldsPeer
                                 /\ pc'[u] \in HoldsAll <=> pc[u] \in HoldsAll
    <3>1. pc[w] \in {"onPeer", "onAll"} /\ Awake(n) \in {"peer", "woken"}
      BY <2>2, Zenon DEF Wakes, SleepsOn, Awake
    <3>2. /\ pc[w] \in Admitted /\ pc[w] \notin HoldsPeer /\ pc[w] \notin HoldsAll
          /\ Awake(n) \in Admitted /\ Awake(n) \notin HoldsPeer /\ Awake(n) \notin HoldsAll
      BY <3>1, Zenon DEF Admitted, Asleep, Acquiring, HoldsPeer, HoldsAll
    <3>3. QED
      BY <2>2, <3>2, Zenon DEF Wakes
  <2>3. QED
    BY <1>3, <2>1, <2>2, Zenon DEF Tells
<1>5. EntryInv'
  BY <1>1, <1>2, <1>4, EntryFrame, Zenon
<1>6. PermitInv'
  BY <1>1, <1>2, <1>4, PermitFrame, Zenon
<1>7. TypeOK'
  <2>1. free' \in [Gossip \cup {All} -> 0 .. Workers]
    BY <1>1, <1>2, Zenon DEF TypeOK
  <2>2. QED
    BY <1>1, <1>2, <1>3, <1>4, <2>1, TypeFrame, Zenon
<1>8. gate[t] \in Gossip /\ gate[t] # All /\ free[All] \in Nat
  BY <1>1, GateIsEntry, FreeTypes, Zenon
<1>9. QED
  BY <1>1, <1>2, <1>3, <1>5, <1>6, <1>7, <1>8, ComingIsFinite, Zenon

(***************************************************************************)
(* A notification on the entry's Notify.                                   *)
(***************************************************************************)
LEMMA TellPeerStep ==
  ASSUME LimiterInv, NEW t \in Gossip, Retell(t) \/ TellPeer(t)
  PROVE  LimiterInv'
<1> DEFINE n == gate[t]
<1>1. TypeOK /\ EntryInv /\ PermitInv /\ NotifyInv /\ PeerWakeInv /\ AllWakeInv /\ FreeInv
  BY Zenon DEF LimiterInv
<1>2. PICK to \in {"waitAll", "freeAll"} :
        /\ (pc[t] = "retell" /\ to = "waitAll") \/ (pc[t] = "tellPeer" /\ to = "freeAll")
        /\ NotifyOne(t, n, to)
  BY Zenon DEF Retell, TellPeer
<1>3. UNCHANGED <<admission, free>>
  BY Zenon DEF Retell, TellPeer
<1>4. /\ pc[t] \in Admitted /\ to \in Admitted /\ pc[t] \notin Asleep /\ to \notin Asleep
      /\ pc[t] \notin HoldsPeer /\ to \notin HoldsPeer /\ (pc[t] \in HoldsAll <=> to \in HoldsAll)
      /\ to \notin Wanting /\ pc[t] \notin Coming /\ (pc[t] \in AllWakers => to \in AllWakers)
      /\ (to \in Turned => pc[t] \in Turned)
  BY <1>2, Zenon DEF Admitted, Asleep, Acquiring, Releasing, HoldsPeer, HoldsAll, Wanting, Coming, AllWakers,
              Turned, TurnedAway
<1>5. n \in Gossip /\ n # All /\ n \in Gossip \cup {All}
  BY <1>1, <1>4, GateIsEntry, Zenon
<1>6. /\ TypeOK' /\ EntryInv' /\ PermitInv' /\ NotifyInv' /\ Tells(t, n, to)
      /\ IsFiniteSet(At(Coming)) /\ IsFiniteSet(At(Coming)') /\ free[All] \in Nat
      /\ gate' = gate /\ free' = free /\ gate[t] \in Gossip /\ gate[t] # All
  BY <1>2, <1>3, <1>4, <1>5, TellStep, Zenon
<1>7. PeerWakeInv'
  BY <1>1, <1>4, <1>6, PeerIsTold, Zenon
<1> HIDE DEF n
<1>8. (All \in stored' <=> All \in stored) /\ free'[All] = free[All]
  BY <1>5, <1>6, Zenon DEF Tells, Keeps, Wakes
<1>9. \A u \in Gossip : /\ pc'[u] \in Turned => pc[u] \in Turned
                        /\ pc'[u] \in Turned /\ u \notin missed' => u \notin missed
                        /\ pc[u] \in Coming => pc'[u] \in Coming
                        /\ pc[u] \in AllWakers => pc'[u] \in AllWakers
  <2>1. CASE Keeps(t, n, to)
    <3>1. missed' = missed
      BY <1>5, <2>1, Zenon DEF Keeps
    <3>2. QED
      BY <1>4, <2>1, <3>1, Zenon DEF Keeps
  <2>2. ASSUME NEW w \in Gossip, Wakes(t, n, to, w)
        PROVE  \A u \in Gossip : /\ pc'[u] \in Turned => pc[u] \in Turned
                                 /\ pc'[u] \in Turned /\ u \notin missed' => u \notin missed
                                 /\ pc[u] \in Coming => pc'[u] \in Coming
                                 /\ pc[u] \in AllWakers => pc'[u] \in AllWakers
    <3>1. pc[w] = "onPeer" /\ pc'[w] = "peer" /\ w # t /\ missed' = missed \ {w}
      BY <1>5, <2>2, Zenon DEF Wakes, SleepsOn, Awake
    <3>2. /\ "onPeer" \notin Coming /\ "onPeer" \notin AllWakers /\ "peer" \notin Turned
      BY Zenon DEF Coming, AllWakers, HoldsAll, Turned, TurnedAway
    <3>3. \A u \in Gossip : u # w => (u \notin missed' => u \notin missed)
      BY <3>1, Zenon
    <3>4. \A u \in Gossip : u # w => pc'[u] = IF u = t THEN to ELSE pc[u]
      BY <2>2, Zenon DEF Wakes
    <3>5. QED
      BY <1>4, <3>1, <3>2, <3>3, <3>4, Zenon
  <2>3. QED
    BY <1>6, <2>1, <2>2, Zenon DEF Tells
<1>10. AllWakeInv' /\ FreeInv'
  BY <1>1, <1>6, <1>8, <1>9, AllFrame, Zenon
<1>11. QED
  BY <1>6, <1>7, <1>10, Zenon DEF LimiterInv

(***************************************************************************)
(* A notification on the Notify of all.                                    *)
(***************************************************************************)
LEMMA TellAllStep ==
  ASSUME LimiterInv, NEW t \in Gossip, PassOn(t) \/ TellAll(t)
  PROVE  LimiterInv'
<1>1. TypeOK /\ EntryInv /\ PermitInv /\ NotifyInv /\ PeerWakeInv /\ AllWakeInv /\ FreeInv
  BY Zenon DEF LimiterInv
<1>2. PICK to \in {"waitPeer", "leave"} :
        /\ (pc[t] = "passOn" /\ to = "waitPeer") \/ (pc[t] = "tellAll" /\ to = "leave")
        /\ NotifyOne(t, All, to)
  BY Zenon DEF PassOn, TellAll
<1>3. UNCHANGED <<admission, free>>
  BY Zenon DEF PassOn, TellAll
<1>4. /\ pc[t] \in Admitted /\ to \in Admitted /\ pc[t] \notin Asleep /\ to \notin Asleep
      /\ pc[t] \notin HoldsPeer /\ to \notin HoldsPeer /\ (pc[t] \in HoldsAll <=> to \in HoldsAll)
      /\ (to \notin Wanting \/ pc[t] \in Wanting) /\ pc[t] \notin PeerWakers
      /\ pc[t] \in Coming /\ to \notin Coming /\ to \notin Turned
  BY <1>2, Zenon DEF Admitted, Asleep, Acquiring, Releasing, HoldsPeer, HoldsAll, Wanting, PeerWakers, Coming,
              Turned, TurnedAway
<1>5. All \in Gossip \cup {All}
  BY Zenon
<1>6. /\ TypeOK' /\ EntryInv' /\ PermitInv' /\ NotifyInv' /\ Tells(t, All, to)
      /\ IsFiniteSet(At(Coming)) /\ IsFiniteSet(At(Coming)') /\ free[All] \in Nat
      /\ gate' = gate /\ free' = free /\ gate[t] \in Gossip /\ gate[t] # All
  BY <1>2, <1>3, <1>4, <1>5, TellStep, Zenon
<1>7. \A u \in Gossip : pc[u] = "onPeer" => gate[u] # All
  BY <1>1, SleepersHaveGates, Zenon
<1>8. PeerWakeInv'
  BY <1>1, <1>4, <1>6, <1>7, PeerUntold, Zenon
<1>9. AllWakeInv' /\ FreeInv'
  <2>1. free'[All] = free[All]
    BY <1>6, Zenon
  <2>2. QED
    BY <1>1, <1>4, <1>6, <1>7, <2>1, AllTold, Zenon
<1>10. QED
  BY <1>6, <1>8, <1>9, Zenon DEF LimiterInv

(***************************************************************************)
(* What a wait keeps, whatever it is for.                                  *)
(***************************************************************************)
LEMMA SleepStep ==
  ASSUME LimiterInv, NEW t \in Gossip, NEW n \in Gossip \cup {All}, NEW asleep,
         pc[t] \in {"waitPeer", "waitAll"}, Await(t, n, asleep), UNCHANGED <<admission, free>>,
         Place(t, n, asleep)
  PROVE  /\ TypeOK' /\ EntryInv' /\ PermitInv' /\ NotifyInv' /\ (Takes(t, n) \/ Sleeps(t, n, asleep))
         /\ IsFiniteSet(At(Coming)) /\ IsFiniteSet(At(Coming)') /\ free[All] \in Nat
         /\ gate' = gate /\ free' = free
<1>1. TypeOK /\ EntryInv /\ PermitInv /\ NotifyInv
  BY Zenon DEF LimiterInv
<1>2. entry' = entry /\ pending' = pending /\ gate' = gate /\ free' = free
  BY Zenon DEF admission
<1>3. /\ pc[t] \in Admitted /\ pc[t] \notin Asleep /\ pc[t] \notin HoldsPeer /\ pc[t] \notin HoldsAll
      /\ asleep \in Admitted /\ asleep \notin HoldsPeer /\ asleep \notin HoldsAll
      /\ Awake(n) \in Admitted /\ Awake(n) \notin HoldsPeer /\ Awake(n) \notin HoldsAll
  BY Zenon DEF Admitted, Asleep, Acquiring, HoldsPeer, HoldsAll, Awake, Place
<1>4. /\ Takes(t, n) \/ Sleeps(t, n, asleep)
      /\ NotifyInv'
      /\ pc' \in [Gossip -> Waiting \cup Over \cup Admitted \cup {"handle"}]
      /\ waiters' \in [Gossip \cup {All} -> Seq(Gossip)]
      /\ stored' \subseteq Gossip \cup {All} /\ missed' \subseteq Gossip
  BY <1>1, <1>2, <1>3, AwaitStep, Zenon
<1>5. \A u \in Gossip : /\ pc'[u] \in Admitted <=> pc[u] \in Admitted
                        /\ pc'[u] \in HoldsPeer <=> pc[u] \in HoldsPeer
                        /\ pc'[u] \in HoldsAll <=> pc[u] \in HoldsAll
  BY <1>3, <1>4, Zenon DEF Takes, Sleeps
<1>6. EntryInv'
  BY <1>1, <1>2, <1>5, EntryFrame, Zenon
<1>7. PermitInv'
  BY <1>1, <1>2, <1>5, PermitFrame, Zenon
<1>8. TypeOK'
  <2>1. free' \in [Gossip \cup {All} -> 0 .. Workers]
    BY <1>1, <1>2, Zenon DEF TypeOK
  <2>2. QED
    BY <1>1, <1>2, <1>4, <1>5, <2>1, TypeFrame, Zenon
<1>9. free[All] \in Nat
  BY <1>1, FreeTypes, Zenon
<1>10. QED
  BY <1>1, <1>2, <1>4, <1>6, <1>7, <1>8, <1>9, ComingIsFinite, Zenon

(***************************************************************************)
(* notified() on the entry's Notify.                                       *)
(***************************************************************************)
LEMMA WaitPeerStep ==
  ASSUME LimiterInv, NEW t \in Gossip, WaitPeer(t)
  PROVE  LimiterInv'
<1> DEFINE n == gate[t]
<1>1. TypeOK /\ EntryInv /\ PermitInv /\ NotifyInv /\ PeerWakeInv /\ AllWakeInv /\ FreeInv
  BY Zenon DEF LimiterInv
<1>2. pc[t] = "waitPeer" /\ Await(t, n, "onPeer") /\ UNCHANGED <<admission, free>>
  BY Zenon DEF WaitPeer
<1>3. "waitPeer" \in Admitted /\ pc[t] \in {"waitPeer", "waitAll"}
  BY <1>2, Zenon DEF Admitted, Acquiring
<1>4. n \in Gossip /\ n # All /\ n \in Gossip \cup {All}
  BY <1>1, <1>2, <1>3, GateIsEntry, Zenon
<1>5. /\ TypeOK' /\ EntryInv' /\ PermitInv' /\ NotifyInv' /\ (Takes(t, n) \/ Sleeps(t, n, "onPeer"))
      /\ IsFiniteSet(At(Coming)) /\ IsFiniteSet(At(Coming)') /\ free[All] \in Nat
      /\ gate' = gate /\ free' = free
  <2>1. Place(t, n, "onPeer")
    BY <1>4, Zenon DEF Place
  <2>2. QED
    BY <1>2, <1>3, <1>4, <2>1, SleepStep, SMTT(30)
<1>6. Awake(n) = "peer"
  BY <1>4, Zenon DEF Awake
<1> HIDE DEF n
<1>7. PICK to \in {"peer", "onPeer"} :
        /\ \A u \in Gossip : pc'[u] = IF u = t THEN to ELSE pc[u]
        /\ to = "peer" => missed' = missed \ {t} /\ stored' = stored \ {n}
        /\ to = "onPeer" => missed' = missed /\ stored' = stored
  <2>1. CASE Takes(t, n)
    BY <1>6, <2>1, Zenon DEF Takes
  <2>2. CASE Sleeps(t, n, "onPeer")
    BY <2>2, Zenon DEF Sleeps
  <2>3. QED
    BY <1>5, <2>1, <2>2, SMTT(30)
<1>8. /\ pc[t] \notin PeerWakers /\ pc[t] \in Wanting /\ "peer" \in PeerWakers /\ to \notin Turned
      /\ pc[t] \notin Coming /\ pc[t] \notin AllWakers
  BY <1>2, Zenon DEF PeerWakers, Wanting, Turned, TurnedAway, Coming, AllWakers, HoldsAll
<1>9. PeerWakeInv'
  <2>1. ASSUME NEW c \in Gossip
        PROVE  PeerInv(c)'
    <3>1. CASE c = n /\ to = "peer"
      <4>1. gate'[t] = c /\ pc'[t] \in PeerWakers
        BY <1>5, <1>7, <1>8, <3>1, Zenon DEF n
      <4>2. QED
        BY <4>1, PeerDone, Zenon DEF PeerWaker
    <3>2. CASE c # n \/ to = "onPeer"
      <4>1. c \in stored => c \in stored'
        BY <1>7, <3>2, SMTT(30)
      <4>2. /\ \A u \in Gossip : u # t => pc'[u] = pc[u] /\ gate'[u] = gate[u]
            /\ free'[c] = free[c] /\ gate'[t] = gate[t]
        BY <1>5, <1>7, Zenon
      <4>3. QED
        BY <1>1, <1>8, <4>1, <4>2, PeerStep, Zenon
    <3>3. QED
      BY <3>1, <3>2, Zenon
  <2>2. QED
    BY <2>1, Zenon DEF PeerWakeInv
<1>10. AllWakeInv' /\ FreeInv'
  <2>1. (All \in stored' <=> All \in stored) /\ free'[All] = free[All]
    BY <1>4, <1>5, <1>7, SMTT(30)
  <2>2. \A u \in Gossip : u # t => (u \notin missed' => u \notin missed)
    BY <1>7, Zenon
  <2>3. \A u \in Gossip : /\ pc'[u] \in Turned => pc[u] \in Turned
                          /\ pc'[u] \in Turned /\ u \notin missed' => u \notin missed
                          /\ pc[u] \in Coming => pc'[u] \in Coming
                          /\ pc[u] \in AllWakers => pc'[u] \in AllWakers
    BY <1>7, <1>8, <2>2, Zenon
  <2>4. QED
    BY <1>1, <1>5, <2>1, <2>3, AllFrame, Zenon
<1>11. QED
  BY <1>5, <1>9, <1>10, Zenon DEF LimiterInv

(***************************************************************************)
(* notified() on the Notify of all.                                        *)
(***************************************************************************)
LEMMA WaitAllStep ==
  ASSUME LimiterInv, NEW t \in Gossip, WaitAll(t)
  PROVE  LimiterInv'
<1>1. TypeOK /\ EntryInv /\ PermitInv /\ NotifyInv /\ PeerWakeInv /\ AllWakeInv /\ FreeInv
  BY Zenon DEF LimiterInv
<1>2. pc[t] = "waitAll" /\ Await(t, All, "onAll") /\ UNCHANGED <<admission, free>>
  BY Zenon DEF WaitAll
<1>3. pc[t] \in {"waitPeer", "waitAll"} /\ All \in Gossip \cup {All}
  BY <1>2, SMTT(30)
<1>4. /\ TypeOK' /\ EntryInv' /\ PermitInv' /\ NotifyInv' /\ (Takes(t, All) \/ Sleeps(t, All, "onAll"))
      /\ IsFiniteSet(At(Coming)) /\ IsFiniteSet(At(Coming)') /\ free[All] \in Nat
      /\ gate' = gate /\ free' = free
  <2>1. Place(t, All, "onAll")
    BY Zenon DEF Place
  <2>2. QED
    BY <1>2, <1>3, <2>1, SleepStep, SMTT(30)
<1>5. PICK to \in {"woken", "onAll"} :
        /\ \A u \in Gossip : pc'[u] = IF u = t THEN to ELSE pc[u]
        /\ stored \ {All} \subseteq stored'
  <2>1. CASE Takes(t, All)
    BY <2>1, Zenon DEF Takes, Awake
  <2>2. CASE Sleeps(t, All, "onAll")
    BY <2>2, Zenon DEF Sleeps
  <2>3. QED
    BY <1>4, <2>1, <2>2, SMTT(30)
<1>6. /\ pc[t] \notin PeerWakers /\ to \notin Wanting
      /\ pc[t] \in Turned /\ pc[t] \notin Coming /\ pc[t] \notin AllWakers
  BY <1>2, Zenon DEF PeerWakers, Wanting, Turned, TurnedAway, Coming, AllWakers, HoldsAll
<1>7. PeerWakeInv'
  <2>1. ASSUME NEW c \in Gossip
        PROVE  PeerInv(c)'
    <3>1. c \in stored => c \in stored'
      BY <1>5, Constants, SMTT(30)
    <3>2. /\ \A u \in Gossip : u # t => pc'[u] = pc[u] /\ gate'[u] = gate[u]
          /\ free'[c] = free[c] /\ pc'[t] \notin Wanting
      BY <1>4, <1>5, <1>6, Zenon
    <3>3. QED
      BY <1>1, <1>6, <3>1, <3>2, PeerStep, Zenon
  <2>2. QED
    BY <2>1, Zenon DEF PeerWakeInv
<1>8. AllWakeInv' /\ FreeInv'
  <2>1. free'[All] = free[All]
    BY <1>4, Zenon
  <2>2. CASE Takes(t, All)
    BY <1>1, <1>2, <1>4, <2>1, <2>2, AllHeard, Zenon
  <2>3. CASE Sleeps(t, All, "onAll")
    <3>1. \A u \in Gossip : /\ pc'[u] \in Turned => pc[u] \in Turned
                            /\ pc'[u] \in Turned /\ u \notin missed' => u \notin missed
                            /\ pc[u] \in Coming => pc'[u] \in Coming
                            /\ pc[u] \in AllWakers => pc'[u] \in AllWakers
      BY <1>6, <2>3, Zenon DEF Sleeps
    <3>2. All \in stored' <=> All \in stored
      BY <2>3, Zenon DEF Sleeps
    <3>3. QED
      BY <1>1, <1>4, <2>1, <3>1, <3>2, AllFrame, Zenon
  <2>4. QED
    BY <1>4, <2>2, <2>3, Zenon
<1>9. QED
  BY <1>4, <1>7, <1>8, Zenon DEF LimiterInv

-----------------------------------------------------------------------------
(* The invariant and what follows from it.                                 *)

(***************************************************************************)
(* No gossip has come.                                                     *)
(***************************************************************************)
LEMMA InitInv == Init => LimiterInv
<1> SUFFICES ASSUME Init
             PROVE  LimiterInv
  BY Zenon
<1>1. /\ \A t \in Gossip : pc[t] = "net" /\ gate[t] = Nil /\ pending[t] = 0
      /\ \A p \in Peer : entry[p] = Nil
      /\ \A n \in Gossip \cup {All} : /\ free[n] = IF n = All THEN Workers ELSE 0
                                      /\ waiters[n] = <<>>
      /\ stored = {} /\ missed = {}
  BY Zenon DEF Init
<1>2. /\ "net" \notin Admitted /\ "net" \notin HoldsAll /\ "net" \notin HoldsPeer /\ "net" \in Waiting
      /\ "net" \notin Wanting /\ "net" \notin Turned
  BY Zenon DEF Admitted, Asleep, Acquiring, Releasing, HoldsAll, HoldsPeer, Waiting, Wanting, Turned, TurnedAway
<1>3. TypeOK
  <2>1. pc \in [Gossip -> Waiting \cup Over \cup Admitted \cup {"handle"}]
    BY <1>2, Zenon DEF Init
  <2>2. entry \in [Peer -> Gossip \cup {Nil}] /\ gate \in [Gossip -> Gossip \cup {Nil}]
    BY Zenon DEF Init
  <2>3. pending \in [Gossip -> 0 .. MaxPending]
    BY Constants, SMTT(30) DEF Init
  <2>4. free \in [Gossip \cup {All} -> 0 .. Workers]
    BY Constants, SMTT(30) DEF Init
  <2>5. waiters \in [Gossip \cup {All} -> Seq(Gossip)]
    BY SMTT(30) DEF Init
  <2>6. \A t \in Gossip : gate[t] # Nil <=> pc[t] \in Admitted
    BY <1>1, <1>2, Zenon
  <2>7. stored \subseteq Gossip \cup {All} /\ missed \subseteq Gossip
    BY <1>1, Zenon
  <2>8. QED
    BY <2>1, <2>2, <2>3, <2>4, <2>5, <2>6, <2>7, Zenon DEF TypeOK
<1>4. At(Admitted) = {} /\ At(HoldsAll) = {} /\ At(Turned) = {} /\ \A p : In(p) = {}
  BY <1>1, <1>2, Zenon DEF At, In
<1>5. EntryInv
  <2>1. IsFiniteSet(At(Admitted))
    BY <1>4, FS_EmptySet, Zenon
  <2>2. ASSUME NEW p \in Peer
        PROVE  entry[p] = Nil /\ In(p) = {}
    BY <1>1, <1>4, Zenon
  <2>3. QED
    BY <1>1, <2>1, <2>2, SMTT(30) DEF EntryInv
<1>6. PermitInv
  <2>1. Cardinality(At(HoldsAll)) = 0
    BY <1>4, FS_EmptySet, Zenon
  <2>2. free[All] = Workers /\ \A e \in Gossip : free[e] = 0
    BY <1>1, Constants, Zenon
  <2>3. QED
    BY <1>1, <1>2, <2>1, <2>2, Constants, SMTT(30) DEF PermitInv
<1>7. NotifyInv
  <2>1. ASSUME NEW n \in Gossip \cup {All}
        PROVE  Registered(n)
    <3>1. DOMAIN waiters[n] = {}
      BY <1>1, SMTT(30)
    <3>2. \A t \in Gossip : ~ SleepsOn(t, n)
      BY <1>1, Zenon DEF SleepsOn
    <3>3. QED
      BY <1>1, <3>1, <3>2, Zenon DEF Registered
  <2>2. QED
    BY <2>1, Zenon DEF NotifyInv
<1>8. PeerWakeInv
  BY <1>1, <1>2, Zenon DEF PeerWakeInv, PeerInv
<1>9. AllWakeInv /\ FreeInv
  BY <1>4, Zenon DEF AllWakeInv, FreeInv
<1>10. QED
  BY <1>3, <1>5, <1>6, <1>7, <1>8, <1>9, Zenon DEF LimiterInv

(***************************************************************************)
(* Every step of the limiter keeps the invariant.                          *)
(***************************************************************************)
LEMMA NextInv == LimiterInv /\ [Next]_vars => LimiterInv'
<1> SUFFICES ASSUME LimiterInv, [Next]_vars
             PROVE  LimiterInv'
  BY Zenon
<1>1. CASE UNCHANGED vars
  <2>1. /\ pc' = pc /\ entry' = entry /\ pending' = pending /\ gate' = gate /\ free' = free
        /\ waiters' = waiters /\ stored' = stored /\ missed' = missed
    BY <1>1, Zenon DEF vars
  <2>2. TypeOK' /\ EntryInv' /\ PermitInv'
    <3>1. TypeOK'
      BY <2>1, Zenon DEF LimiterInv, TypeOK
    <3>2. EntryInv'
      BY <2>1, EntryFrame, Zenon DEF LimiterInv
    <3>3. PermitInv'
      BY <2>1, PermitFrame, SMTT(30) DEF LimiterInv
    <3>4. QED
      BY <3>1, <3>2, <3>3, SMTT(30)
  <2>3. NotifyInv' /\ PeerWakeInv'
    BY <2>1, SMTT(30) DEF LimiterInv, NotifyInv, Registered, SleepsOn, PeerWakeInv, PeerInv, PeerWaker
  <2>4. AllWakeInv' /\ FreeInv'
    BY <2>1, Zenon DEF LimiterInv, AllWakeInv, FreeInv, At, Kept
  <2>5. QED
    BY <2>2, <2>3, <2>4, Zenon DEF LimiterInv
<1>2. ASSUME NEW t \in Gossip, Enqueue(t) \/ Receive(t) \/ Spawn(t) \/ Work(t)
      PROVE  LimiterInv'
  <2>1. CASE Enqueue(t)
    <3>1. PICK to \in {"queued", "dropped"} : Step(t, "net", to) /\ UNCHANGED permits
      BY <2>1, Zenon DEF Enqueue
    <3>2. "net" \in {"net", "queued", "held", "handle"} /\ to \in {"queued", "held", "handle", "done", "dropped"}
      BY Zenon
    <3>3. QED
      BY <3>1, <3>2, OutsideStep, Zenon
  <2>2. CASE Receive(t)
    BY <2>2, OutsideStep, Zenon DEF Receive
  <2>3. CASE Spawn(t)
    BY <2>3, OutsideStep, Zenon DEF Spawn
  <2>4. CASE Ignore(t) \/ Refuse(t)
    BY <2>4, OutsideStep, SMTT(30) DEF Ignore, Refuse
  <2>5. CASE TryAdmit(t)
    BY <2>5, TryAdmitStep, Zenon
  <2>6. CASE TryPeer(t)
    BY <2>6, TryPeerStep, Zenon
  <2>7. CASE PassOn(t) \/ TellAll(t)
    BY <2>7, TellAllStep, Zenon
  <2>8. CASE WaitPeer(t)
    BY <2>8, WaitPeerStep, Zenon
  <2>9. CASE TryAll(t)
    BY <2>9, TryAllStep, Zenon
  <2>10. CASE BackOff(t) \/ Fetched(t)
    BY <2>10, GivePeerStep, Zenon
  <2>11. CASE Retell(t) \/ TellPeer(t)
    BY <2>11, TellPeerStep, Zenon
  <2>12. CASE WaitAll(t)
    BY <2>12, WaitAllStep, Zenon
  <2>13. CASE FreeAll(t)
    BY <2>13, FreeAllStep, Zenon
  <2>14. CASE Leave(t)
    BY <2>14, LeaveStep, Zenon
  <2>15. QED
    BY <1>2, <2>1, <2>2, <2>3, <2>4, <2>5, <2>6, <2>7, <2>8, <2>9, <2>10, <2>11, <2>12, <2>13, <2>14, Zenon
    DEF Work
<1>3. QED
  BY <1>1, <1>2, Zenon DEF Next

(***************************************************************************)
(* The invariant is that of the specification.                             *)
(***************************************************************************)
LEMMA LimiterInvHolds == Spec => []LimiterInv
BY InitInv, NextInv, PTL DEF Spec

(***************************************************************************)
(* The state of SnapshotFetchLimiter stays within its types, and exactly   *)
(* the admitted tasks have a gate.                                         *)
(***************************************************************************)
THEOREM TypeCorrect == Spec => []TypeOK
<1>1. LimiterInv => TypeOK
  BY Zenon DEF LimiterInv
<1>2. QED
  BY <1>1, LimiterInvHolds, PTL

(***************************************************************************)
(* handle_gossip fetches one snapshot at a time from a peer, and no more   *)
(* than Workers from all, whatever the order of the tasks' steps.          *)
(***************************************************************************)
THEOREM FetchesStayBounded == Spec => []FetchesBounded
<1>1. LimiterInv => FetchesBounded
  <2> SUFFICES ASSUME LimiterInv
               PROVE  FetchesBounded
    BY Zenon
  <2>1. TypeOK /\ EntryInv /\ PermitInv
    BY Zenon DEF LimiterInv
  <2>2. Holding \subseteq At(HoldsAll)
    BY Zenon DEF Holding, At, HoldsAll
  <2>3. Cardinality(Holding) <= Cardinality(At(HoldsAll)) /\ Cardinality(Holding) \in Nat
    BY <2>1, <2>2, FreeTypes, FS_Subset, FS_CardinalityType, Zenon
  <2>4. Cardinality(Holding) <= Workers
    BY <2>1, <2>3, FreeTypes, Constants, SMTT(30) DEF PermitInv
  <2>5. ASSUME NEW t \in Holding, NEW u \in Holding, Announcer[t] = Announcer[u]
        PROVE  t = u
    <3>1. /\ t \in Gossip /\ u \in Gossip /\ pc[t] \in HoldsPeer /\ pc[u] \in HoldsPeer
          /\ pc[t] \in Admitted /\ pc[u] \in Admitted
      BY Zenon DEF Holding, At, HoldsPeer, Admitted
    <3>2. gate[t] = entry[Announcer[t]] /\ gate[u] = entry[Announcer[u]]
      BY <2>1, <3>1, GateIsEntry, Zenon
    <3>3. gate[t] = gate[u]
      BY <2>5, <3>2, Zenon
    <3>4. QED
      BY <2>1, <3>1, <3>3, Zenon DEF PermitInv
  <2>6. QED
    BY <2>4, <2>5, Zenon DEF FetchesBounded
<1>2. QED
  BY <1>1, LimiterInvHolds, PTL

(***************************************************************************)
(* The pending count of try_admit_snapshot is exact, and an entry is       *)
(* removed when, and only when, nobody is admitted to it.                  *)
(***************************************************************************)
THEOREM AdmissionsAreCounted == Spec => []AdmissionsCounted
<1>1. LimiterInv => AdmissionsCounted
  BY Zenon DEF LimiterInv, EntryInv, AdmissionsCounted, In
<1>2. QED
  BY <1>1, LimiterInvHolds, PTL

(***************************************************************************)
(* Whoever sleeps in acquire has somebody that will notify.                *)
(***************************************************************************)
THEOREM SleepersHaveWakers == Spec => []SleeperHasWaker
<1>1. LimiterInv => SleeperHasWaker
  <2> SUFFICES ASSUME LimiterInv
               PROVE  SleeperHasWaker
    BY Zenon
  <2>1. TypeOK /\ EntryInv /\ PermitInv /\ NotifyInv /\ PeerWakeInv /\ AllWakeInv
    BY Zenon DEF LimiterInv
  <2>2. ASSUME NEW t \in Gossip, pc[t] = "onPeer"
        PROVE  \E u \in Gossip : gate[u] = gate[t] /\ pc[u] \notin {"onPeer", "freeAll", "tellAll", "leave"}
    <3>1. pc[t] \in Admitted /\ pc[t] \in Wanting
      BY <2>2, Zenon DEF Admitted, Asleep, Wanting
    <3>2. gate[t] \in Gossip /\ free[gate[t]] \in Nat
      BY <2>1, <3>1, GateIsEntry, FreeTypes, Zenon
    <3>3. gate[t] \notin stored
      <4>1. Registered(gate[t]) /\ SleepsOn(t, gate[t])
        BY <2>1, <2>2, <3>2, Zenon DEF NotifyInv, SleepsOn
      <4>2. DOMAIN waiters[gate[t]] # {}
        BY <4>1, Zenon DEF Registered
      <4>3. waiters[gate[t]] # <<>>
        BY <4>2, SMTT(30)
      <4>4. QED
        BY <4>1, <4>3, Zenon DEF Registered
    <3>4. CASE free[gate[t]] = 0
      <4>1. PICK u \in Gossip : gate[u] = gate[t] /\ pc[u] \in HoldsPeer
        BY <2>1, <3>1, <3>4, Zenon DEF PermitInv
      <4>2. pc[u] \notin {"onPeer", "freeAll", "tellAll", "leave"}
        BY <4>1, SMTT(30) DEF HoldsPeer
      <4>3. QED
        BY <4>1, <4>2, Zenon
    <3>5. CASE free[gate[t]] > 0
      <4>1. PeerWaker(gate[t])
        BY <2>1, <3>1, <3>2, <3>5, Zenon DEF PeerWakeInv, PeerInv
      <4>2. PICK u \in Gossip : gate[u] = gate[t] /\ pc[u] \in PeerWakers
        BY <3>3, <4>1, Zenon DEF PeerWaker
      <4>3. pc[u] \notin {"onPeer", "freeAll", "tellAll", "leave"}
        BY <4>2, Zenon DEF PeerWakers
      <4>4. QED
        BY <4>2, <4>3, Zenon
    <3>6. QED
      BY <3>2, <3>4, <3>5, SMTT(30)
  <2>3. ASSUME NEW t \in Gossip, pc[t] = "onAll"
        PROVE  \E u \in Gossip : pc[u] \in {"woken", "passOn", "all", "fetch", "tellPeer", "freeAll", "tellAll"}
    <3>1. t \in At(Turned)
      BY <2>3, Zenon DEF At, Turned
    <3>2. All \notin stored
      <4>1. Registered(All) /\ SleepsOn(t, All)
        BY <2>1, <2>3, Zenon DEF NotifyInv, SleepsOn
      <4>2. DOMAIN waiters[All] # {}
        BY <4>1, Zenon DEF Registered
      <4>3. waiters[All] # <<>>
        BY <4>2, SMTT(30)
      <4>4. QED
        BY <4>1, <4>3, Zenon DEF Registered
    <3>3. At(AllWakers) # {}
      BY <2>1, <3>1, <3>2, SMTT(30) DEF AllWakeInv
    <3>4. QED
      BY <3>3, Zenon DEF At, AllWakers, Coming, HoldsAll
  <2>4. QED
    BY <2>2, <2>3, Zenon DEF SleeperHasWaker
<1>2. QED
  BY <1>1, LimiterInvHolds, PTL

(***************************************************************************)
(* When all is quiet, a snapshot permit is free while a task waits for one *)
(* only if that task missed a notification that became one with another.   *)
(***************************************************************************)
THEOREM FreePermitsAreTaken == Spec => []FreePermitIsTaken
<1>1. LimiterInv => FreePermitIsTaken
  <2> SUFFICES ASSUME LimiterInv, Quiet, free[All] > 0
               PROVE  At({"onAll"}) \subseteq missed
    BY Zenon DEF FreePermitIsTaken
  <2>1. TypeOK /\ EntryInv /\ NotifyInv /\ FreeInv
    BY Zenon DEF LimiterInv
  <2>2. SUFFICES ASSUME NEW t \in Gossip, pc[t] = "onAll", t \notin missed
                 PROVE  FALSE
    BY Zenon DEF At
  <2>3. ~ (At(Turned) \subseteq missed)
    BY <2>2, Zenon DEF At, Turned
  <2>4. All \notin stored
    <3>1. Registered(All) /\ SleepsOn(t, All)
      BY <2>1, <2>2, Zenon DEF NotifyInv, SleepsOn
    <3>2. DOMAIN waiters[All] # {}
      BY <3>1, Zenon DEF Registered
    <3>3. waiters[All] # <<>>
      BY <3>2, SMTT(30)
    <3>4. QED
      BY <3>1, <3>3, Zenon DEF Registered
  <2>5. Kept = 0
    BY <2>4, Zenon DEF Kept
  <2>6. At(Coming) = {}
    <3>1. \A s \in Coming : s \notin Waiting \cup Over \cup Asleep \cup {"fetch"}
      BY Zenon DEF Coming, Waiting, Over, Asleep
    <3>2. \A u \in Gossip : pc[u] \in Waiting \cup Over \cup Asleep \cup {"fetch"}
      BY Zenon DEF Quiet, At
    <3>3. QED
      BY <3>1, <3>2, Zenon DEF At
  <2>7. Cardinality(At(Coming)) = 0
    BY <2>6, FS_EmptySet, Zenon
  <2>8. free[All] \in Nat
    BY <2>1, FreeTypes, Zenon
  <2>9. QED
    BY <2>1, <2>3, <2>5, <2>7, <2>8, SMTT(30) DEF FreeInv
<1>2. QED
  BY <1>1, LimiterInvHolds, PTL
====
