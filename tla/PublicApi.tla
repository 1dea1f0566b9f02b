------------------------------ MODULE PublicApi ------------------------------
(***************************************************************************)
(* GET /api/network/nodes on the snapshots that the gateways have.  Module *)
(* NodeList makes a list of reports; module SnapshotSync is about how      *)
(* snapshots get there; of what another gateway has nothing is assumed.    *)
(*                                                                         *)
(* A report names a node, the operator or a peer of a snapshot, and is as  *)
(* old as the snapshot, the version standing for generated_at.  It counts  *)
(* when it has an id and coordinates.                                      *)
(***************************************************************************)
EXTENDS SnapshotSync, NodeList

CONSTANTS
  Named,      \* of a version: whom it reports, and whether with coordinates
  MaxId,      \* nodes that are reported are 1 .. MaxId
  MaxLength,  \* reports in the database of another gateway
  Peers       \* other gateways that are known

Reported == [id : NoId .. MaxId, geo : BOOLEAN]

ASSUME ListAssumption ==
  /\ Named \in [1 .. MaxVersion -> Seq(Reported)]
  /\ MaxId \in Nat /\ MaxLength \in Nat /\ Peers \in Nat

Report == [id : NoId .. MaxId, ts : 1 .. MaxVersion, geo : BOOLEAN]

\* snapshot_geo_nodes
ReportsOf(v) == [i \in DOMAIN Named[v] |->
                   [id |-> Named[v][i].id, ts |-> v, geo |-> Named[v][i].geo]]

\* local_network_node_values of a database with these rows (their order decides
\* no more than ties)
LocalNodes(rows) ==
  Joined([n \in Node |-> IF rows[n] > 0 THEN ReportsOf(rows[n]) ELSE <<>>])

\* federated_gateway_base_urls: every gateway that is known, once, and never
\* the one that asks.
Others == 1 .. Peers

\* A local list is completed so, whatever the others have and whoever of them
\* answers.
WellServed(local) ==
  \A remote \in [Others -> UNION {[1 .. n -> Report] : n \in 0 .. MaxLength}],
     answering \in SUBSET Others, limit \in 0 .. MaxId :
    IsNewest(NetworkNodes(local, remote, answering, limit),
             Counting(Available(local, remote, answering)), limit)

\* Of every database.  (TLC evaluates this set once.)
Verdicts == {<<rows, WellServed(LocalNodes(rows))>> : rows \in [Node -> Version]}

(***************************************************************************)
(* Though every gateway cuts its list, the answer is that of one gateway   *)
(* with all the reports: each node once, by its newest report with         *)
(* coordinates, newest first, no node left out that is newer than one      *)
(* listed, and none at all while there is room.                            *)
(***************************************************************************)
ListIsNewest == \A g \in Gateway : <<row[g], TRUE>> \in Verdicts
=============================================================================
