------------------------------ MODULE NodeList -------------------------------
(***************************************************************************)
(* The list of nodes that GET /api/network/nodes makes of reports: sorted  *)
(* by age, those without coordinates dropped, deduplicated by id and cut   *)
(* at the limit.  Gateways answer it together: the one that is asked joins *)
(* its reports with the lists of the others, each of which has made its    *)
(* list in the same way and cut it at the same limit.                      *)
(*                                                                         *)
(* A report is a record of an id, a time (ts) and whether it has           *)
(* coordinates (geo).                                                      *)
(***************************************************************************)
EXTENDS Subsequences, Functions

NoId == 0  \* the empty id

\* sort_values_desc_by_timestamp_with_fallback, which is stable
NewestFirst(s) == Descending(s, [i \in DOMAIN s |-> s[i].ts])

\* retain(has_valid_geo)
Located(s) == Subsequence(s, {i \in DOMAIN s : s[i].geo})

\* dedupe_nodes_by_id keeps the first of an id, and nothing without one.
Deduped(s) ==
  Subsequence(s, {i \in DOMAIN s :
                    s[i].id # NoId /\ \A j \in DOMAIN s : s[j].id = s[i].id => i <= j})

Truncate(s, limit) == SubSeq(s, 1, IF Len(s) < limit THEN Len(s) ELSE limit)

Listed(s, limit) == Truncate(Deduped(Located(NewestFirst(s))), limit)

\* fetch_federated_arrays: the lists of those that answer, one after the other.
\* They are asked with federation=local and ask nobody in turn.
Federated(remote, answering, limit) ==
  Joined([p \in DOMAIN remote |-> IF p \in answering THEN Listed(remote[p], limit) ELSE <<>>])

\* Mutant: what the others answer is appended, in their order.
AppendedNodes(local, remote, answering, limit) ==
  Truncate(Deduped(Listed(local, limit) \o Federated(remote, answering, limit)), limit)

\* network_nodes
NetworkNodes(local, remote, answering, limit) ==
  Listed(local \o Federated(remote, answering, limit), limit)

Ids(reports) == {x.id : x \in reports}

\* Each node once and by its newest report, the newest nodes up to the limit,
\* newest first: what a gateway with all the reports would answer.
IsNewest(answer, known, limit) ==
  LET shown == Ids(Range(answer))
      all == Cardinality(Ids(known))
  IN  /\ Len(answer) = Cardinality(shown)
      /\ Len(answer) = IF all < limit THEN all ELSE limit
      /\ \A i, j \in DOMAIN answer : i < j => answer[i].ts >= answer[j].ts
      /\ \A x \in Range(answer) :
           /\ x \in known
           /\ \A y \in known : y.id = x.id \/ y.id \notin shown => y.ts <= x.ts

\* The reports that count, of those that the gateway and the others have.
Counting(reports) == {x \in reports : x.geo /\ x.id # NoId}
Available(local, remote, answering) ==
  Range(local) \cup UNION {Range(remote[p]) : p \in answering}
=============================================================================
