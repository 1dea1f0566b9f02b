---------------------------- MODULE SnapshotSync ----------------------------
(***************************************************************************)
(* Snapshots of nodes, ingested by gateways and passed on between them.    *)
(*                                                                         *)
(* A node signs one snapshot after another; its version stands for         *)
(* generated_at.  How many it signs is chosen at the start; they arrive at *)
(* any time, repeated and out of order.  A worker of a gateway ingests one *)
(* that was pushed, pulled or announced by a peer: it overwrites the       *)
(* artifact that peers fetch, upserts the row, which a transaction does    *)
(* together with the row of the P2P outbox, and then writes the read       *)
(* models.                                                                 *)
(*                                                                         *)
(* The sync loop of a gateway drains the outbox into the gossip and        *)
(* announces its rows again: all of them, page by page, when a full        *)
(* reconcile is due, and otherwise those ingested since the last page.     *)
(* Gossip is lost and reordered.  A gateway that hears of a version it     *)
(* lacks fetches the announcer's artifact and ingests it when it is        *)
(* exactly the version announced.                                          *)
(*                                                                         *)
(* Signatures are valid and sources active here.  Whether an announcement  *)
(* gets a worker is module GossipLimiter's part; the space records of a    *)
(* snapshot are module SpacePresence's.                                    *)
(***************************************************************************)
EXTENDS Naturals, Sequences, FiniteSets, Subsequences

CONSTANTS
  Gateway,
  Worker,
  Site,         \* the gateway of a worker
  N,            \* the nodes are 1 .. N, in the order of their ids
  MaxVersion,
  Signings,     \* how many snapshots the nodes sign, one of these
  PageSize,     \* SNAPSHOT_REANNOUNCE_BATCH_SIZE
  OutboxBatch,  \* P2P_OUTBOX_BATCH_SIZE
  MaxAttempts,  \* P2P_OUTBOX_MAX_ATTEMPTS
  Entry,        \* gateways that nodes push to
  Asking,       \* workers that ask nodes for snapshots
  Announcing,   \* gateways whose sync loop is modelled
  Fallible,     \* gateways in which something fails, once
  Nil

ASSUME SyncAssumption ==
  /\ Site \in [Worker -> Gateway]
  /\ N \in Nat /\ MaxVersion \in Nat
  /\ Signings \subseteq [1 .. N -> 0 .. MaxVersion]
  /\ PageSize \in Nat \ {0} /\ OutboxBatch \in Nat \ {0}
  /\ MaxAttempts \in Nat \ {0}
  /\ Entry \subseteq Announcing /\ Announcing \subseteq Gateway
  /\ Fallible \subseteq Gateway /\ Asking \subseteq Worker

Node == 1 .. N
Version == 0 .. MaxVersion   \* 0: none

VARIABLES
  made,      \* of a node: the last version it signs
  art,       \* of a gateway: the artifact of every node
  row,       \* of a gateway: the generated_at of every node's row
  model,     \* of a gateway: the generated_at of the projections
  outbox,    \* of a gateway: the rows by id
  net,       \* announcements under way
  task,      \* of a worker: what it ingests
  drain,     \* of a gateway: the rows its loop has claimed and not settled
  sent,      \* of a gateway: the first of them was published
  cursor,    \* of a gateway: Nil, Full after a node, or Incremental
  newer,     \* of a gateway: what is stamped after its cursor, in the order
             \* of ingested_at: rows (their nodes) and open transactions
  failed,    \* gateways in which something has failed
  owed       \* of a gateway: the versions new to it that it is to announce
             \* and has neither published nor given up

db == <<art, row, model, outbox>>
loop == <<drain, sent, cursor>>
vars == <<made, db, net, task, loop, newer, failed, owed>>

\* A task to ingest version v of n's snapshot; from: the peer to ask for it.
T(pc, n, v, announce, from) ==
  [pc |-> pc, node |-> n, version |-> v, announce |-> announce, from |-> from]
Idle == T("idle", 0, 0, FALSE, Nil)
Task == [pc : {"idle", "heard", "fetched", "begin", "commit", "models"},
         node : 0 .. N, version : Version, announce : BOOLEAN,
         from : Gateway \cup {Nil}]
OutboxRow == [node : Node, version : Version, attempts : Nat, claimed : BOOLEAN]
Announcement == [from : Gateway, to : Gateway, node : Node, version : Version]
Key(x) == <<x.node, x.version>>

\* SnapshotReannounceCursor
Full(after) == [mode |-> "full", after |-> after]
Incremental == [mode |-> "incremental", after |-> 0]

TypeOK ==
  /\ made \in [Node -> Version]
  /\ \A f \in {art, row, model} : f \in [Gateway -> [Node -> Version]]
  /\ outbox \in [Gateway -> Seq(OutboxRow)]
  /\ \A g \in Gateway : \A i, j \in DOMAIN outbox[g] :
       Key(outbox[g][i]) = Key(outbox[g][j]) => i = j
  /\ net \subseteq Announcement
  /\ task \in [Worker -> Task]
  /\ drain \in [Gateway -> Seq(Node \X Version)]
  /\ sent \in [Gateway -> BOOLEAN]
  /\ cursor \in [Gateway -> {Nil, Incremental} \cup {Full(n) : n \in 0 .. N}]
  /\ newer \in [Gateway -> Seq(Node \cup Worker)]
  /\ failed \subseteq Fallible
  /\ owed \in [Gateway -> SUBSET (Node \X Version)]

Init ==
  /\ made \in Signings
  /\ art = [g \in Gateway |-> [n \in Node |-> 0]]
  /\ row = art /\ model = art
  /\ outbox = [g \in Gateway |-> <<>>]
  /\ net = {}
  /\ task = [w \in Worker |-> Idle]
  /\ drain = [g \in Gateway |-> <<>>]
  /\ sent = [g \in Gateway |-> FALSE]
  /\ cursor = [g \in Gateway |-> Nil]
  /\ newer = [g \in Gateway |-> <<>>]
  /\ failed = {}
  /\ owed = [g \in Gateway |-> {}]

-----------------------------------------------------------------------------
(* Where snapshots come from.                                              *)

\* A worker has the snapshot at hand: it verifies it and, with no await
\* between, has persist_snapshot_artifact write it, whatever the row says.
WriteArtifact(w, n, v, announce) ==
  /\ task' = [task EXCEPT ![w] = T("begin", n, v, announce, Nil)]
  /\ art' = [art EXCEPT ![Site[w]][n] = v]
  /\ UNCHANGED <<made, row, model, outbox, net, loop, newer, failed, owed>>

\* POST /api/ingest/snapshot: pushes come late, repeated and out of order.
Push(w, n) ==
  /\ Site[w] \in Entry /\ task[w].pc = "idle"
  /\ \E v \in 1 .. made[n] : WriteArtifact(w, n, v, TRUE)

\* The node is asked for its snapshot and sends the last one of that time.
Ask(w, n) ==
  \E v \in 1 .. made[n] :
    /\ w \in Asking /\ task[w].pc = "idle"
    /\ task' = [task EXCEPT ![w] = T("fetched", n, v, TRUE, Nil)]
    /\ UNCHANGED <<made, db, net, loop, newer, failed, owed>>

\* sync_nodes, for one of its sources (whose status is not kept here)
Pull(w, n) == Ask(w, n)

\* try_backfill_gap: an event of the node shows that earlier ones are missing.
Refresh(w, n) == Ask(w, n)

\* handle_gossip: a version that is not current is to be fetched.
Hear(w, m) ==
  /\ m \in net /\ m.to = Site[w] /\ task[w].pc = "idle"
  /\ row[Site[w]][m.node] < m.version
  /\ task' = [task EXCEPT ![w] = T("heard", m.node, m.version, FALSE, m.from)]
  /\ net' = net \ {m}
  /\ UNCHANGED <<made, db, loop, newer, failed, owed>>

\* fetch_and_ingest_snapshot: the announcer's artifact is kept when it is of
\* the version announced, and not announced when it is ingested.
Fetch(w) ==
  LET t == task[w]
  IN  /\ t.pc = "heard"
      /\ task' = [task EXCEPT ![w] = IF art[t.from][t.node] = t.version
                                     THEN T("fetched", t.node, t.version, FALSE, Nil)
                                     ELSE Idle]
      /\ UNCHANGED <<made, db, net, loop, newer, failed, owed>>

Fetched(w) ==
  /\ task[w].pc = "fetched"
  /\ WriteArtifact(w, task[w].node, task[w].version, task[w].announce)

-----------------------------------------------------------------------------
(* ingest_signed_snapshot_with_options.                                    *)

Go(w, pc) == task' = [task EXCEPT ![w] = IF pc = "idle" THEN Idle
                                         ELSE [@ EXCEPT !.pc = pc]]

\* The transaction begins: this is the now() of its ingested_at.
Begin(w) ==
  /\ task[w].pc = "begin" /\ Go(w, "commit")
  /\ newer' = [newer EXCEPT ![Site[w]] = Append(@, w)]
  /\ UNCHANGED <<made, db, net, loop, failed, owed>>

\* q without x.
Drop(q, x) == Subsequence(q, {i \in DOMAIN q : q[i] # x})

\* Mutant: the later write wins.
AlwaysApplies(w) == TRUE

Applies(w) == task[w].version >= row[Site[w]][task[w].node]

\* Mutant: the key is not looked up.
AnnouncedAgain(w) ==
  IF task[w].announce
  THEN Append(outbox[Site[w]], [node |-> task[w].node, version |-> task[w].version,
                                attempts |-> 0, claimed |-> FALSE])
  ELSE outbox[Site[w]]

\* The outbox with the snapshot's row, unless there is one of its key.
Announced(w) ==
  LET t == task[w]
      box == outbox[Site[w]]
  IN  IF t.announce /\ ~ \E i \in DOMAIN box : Key(box[i]) = Key(t)
      THEN Append(box, [node |-> t.node, version |-> t.version, attempts |-> 0,
                        claimed |-> FALSE])
      ELSE box

\* upsert_snapshot_inner commits.
Commit(w) ==
  LET t == task[w]
      g == Site[w]
      others == {i \in DOMAIN newer[g] : newer[g][i] # t.node}
  IN  /\ t.pc = "commit"
      /\ IF Applies(w)
         THEN /\ Go(w, "models")
              /\ row' = [row EXCEPT ![g][t.node] = t.version]
              /\ outbox' = [outbox EXCEPT ![g] = Announced(w)]
              /\ owed' = [owed EXCEPT ![g] = IF t.announce /\ t.version # row[g][t.node]
                                                THEN @ \cup {Key(t)} ELSE @]
              /\ newer' = [newer EXCEPT ![g] =
                             Subsequence([i \in DOMAIN @ |-> IF @[i] = w THEN t.node
                                                             ELSE @[i]], others)]
         ELSE /\ Go(w, "idle")
              /\ newer' = [newer EXCEPT ![g] = Drop(@, w)]
              /\ UNCHANGED <<row, outbox, owed>>
      /\ UNCHANGED <<made, art, model, net, loop, failed>>

\* Mutant: a projection is overwritten.
Latest(old, new) == new

\* persist_snapshot_read_models: upsert_projection_row has a guard of its own.
Newest(old, new) == IF new >= old THEN new ELSE old

WriteModels(w) ==
  LET t == task[w]
  IN  /\ t.pc = "models" /\ Go(w, "idle")
      /\ model' = [model EXCEPT ![Site[w]][t.node] = Newest(@, t.version)]
      /\ UNCHANGED <<made, art, row, outbox, net, loop, newer, failed, owed>>

-----------------------------------------------------------------------------
(* The sync loop.  A drain and a page of announcements never overlap.      *)

\* The positions of the rows that no claim holds, and of the first of them by id.
Claimable(g) == {i \in DOMAIN outbox[g] : ~outbox[g][i].claimed}
Batch(g) == First(Claimable(g), OutboxBatch)
Keys(rows) == [i \in DOMAIN rows |-> Key(rows[i])]
Claimed(r) == [r EXCEPT !.claimed = TRUE, !.attempts = @ + 1]
KeysOf(rows) == {Key(rows[i]) : i \in DOMAIN rows}

\* Mutant: what is claimed leaves the outbox.
ClaimAndDelete(g) ==
  /\ drain[g] = <<>> /\ Claimable(g) # {}
  /\ drain' = [drain EXCEPT ![g] = Subsequence(Keys(outbox[g]), Batch(g))]
  /\ outbox' = [outbox EXCEPT ![g] = Subsequence(@, DOMAIN @ \ Batch(g))]
  /\ UNCHANGED <<made, art, row, model, net, task, sent, cursor, newer, failed, owed>>

\* claim_p2p_outbox
Claim(g) ==
  /\ drain[g] = <<>> /\ Claimable(g) # {}
  /\ drain' = [drain EXCEPT ![g] = Subsequence(Keys(outbox[g]), Batch(g))]
  /\ outbox' = [outbox EXCEPT ![g] = [i \in DOMAIN outbox[g] |->
                   IF i \in Batch(g) THEN Claimed(outbox[g][i]) ELSE outbox[g][i]]]
  /\ UNCHANGED <<made, art, row, model, net, task, sent, cursor, newer, failed, owed>>

\* To every other gateway.
Say(g, keys) ==
  net' = net \cup {[from |-> g, to |-> h, node |-> k[1], version |-> k[2]] :
                    h \in Gateway \ {g}, k \in keys}

\* drain_p2p_outbox publishes the first of its rows ...
Publish(g) ==
  /\ drain[g] # <<>> /\ ~sent[g]
  /\ Say(g, {Head(drain[g])})
  /\ sent' = [sent EXCEPT ![g] = TRUE]
  /\ owed' = [owed EXCEPT ![g] = @ \ {Head(drain[g])}]
  /\ UNCHANGED <<made, db, task, drain, cursor, newer, failed>>

\* The row of the outbox the loop is at, without it, and the rest of the batch.
Without(g) ==
  Subsequence(outbox[g], {i \in DOMAIN outbox[g] : Key(outbox[g][i]) # Head(drain[g])})
Advance(g) == /\ drain' = [drain EXCEPT ![g] = Tail(@)]
              /\ sent' = [sent EXCEPT ![g] = FALSE]

\* ... and deletes it (ack_p2p_outbox).
Ack(g) ==
  /\ drain[g] # <<>> /\ sent[g] /\ Advance(g)
  /\ outbox' = [outbox EXCEPT ![g] = Without(g)]
  /\ UNCHANGED <<made, art, row, model, net, task, cursor, newer, failed, owed>>

\* Publishing failed: release_p2p_outbox gives the row up after MaxAttempts
\* claims and otherwise keeps it, claimed for some seconds more.
Release(g) ==
  LET k == Head(drain[g])
      gaveUp == \E i \in DOMAIN outbox[g] :
                  Key(outbox[g][i]) = k /\ outbox[g][i].attempts >= MaxAttempts
  IN  /\ drain[g] # <<>> /\ ~sent[g] /\ Advance(g)
      /\ IF gaveUp
         THEN /\ outbox' = [outbox EXCEPT ![g] = Without(g)]
              /\ owed' = [owed EXCEPT ![g] = @ \ {k}]
         ELSE UNCHANGED <<outbox, owed>>
      /\ UNCHANGED <<made, art, row, model, net, task, cursor, newer, failed>>

\* claimed_until passes for the rows that the loop does not hold.
ClaimLapses(g) ==
  \E i \in DOMAIN outbox[g] :
    /\ outbox[g][i].claimed
    /\ ~ \E j \in DOMAIN drain[g] : drain[g][j] = Key(outbox[g][i])
    /\ outbox' = [outbox EXCEPT ![g][i].claimed = FALSE]
    /\ UNCHANGED <<made, art, row, model, net, task, loop, newer, failed, owed>>

\* Mutant: only the first pass of a process is a full one.
ReconcileOnce(g) ==
  /\ drain[g] = <<>> /\ cursor[g] = Nil
  /\ cursor' = [cursor EXCEPT ![g] = Full(0)]
  /\ newer' = [newer EXCEPT ![g] = <<>>]
  /\ UNCHANGED <<made, db, net, task, drain, sent, failed, owed>>

\* A full reconcile is due: from the start, every FULL_RECONCILE_INTERVAL, when
\* a neighbour appears.  What begins from now on is stamped after started_at.
Reconcile(g) ==
  /\ drain[g] = <<>> /\ cursor[g] \in {Nil, Incremental}
  /\ cursor' = [cursor EXCEPT ![g] = Full(0)]
  /\ newer' = [newer EXCEPT ![g] = <<>>]
  /\ UNCHANGED <<made, db, net, task, drain, sent, failed, owed>>

RowsAfter(g, a) == {n \in Node : n > a /\ row[g][n] > 0}
Current(g, nodes) == {<<n, row[g][n]>> : n \in nodes}

\* reannounce_local_snapshots of a full reconcile, and its next cursor.  (An
\* error leaves the cursor, and the page is announced again.)
FullPage(g) ==
  LET rows == RowsAfter(g, cursor[g].after)
  IN  /\ drain[g] = <<>> /\ cursor[g] # Nil /\ cursor[g].mode = "full"
      /\ Say(g, Current(g, First(rows, PageSize)))
      /\ cursor' = [cursor EXCEPT ![g] = IF Cardinality(rows) >= PageSize
                                         THEN Full(Nth(rows, PageSize)) ELSE Incremental]
      /\ UNCHANGED <<made, db, task, drain, sent, newer, failed, owed>>

\* The page of rows ingested after the cursor, which moves to the last of them
\* and so past every transaction that began before that one and is still open.
IncrementalPage(g) ==
  LET rows == {i \in DOMAIN newer[g] : newer[g][i] \in Node}
      page == First(rows, PageSize)
  IN  /\ drain[g] = <<>> /\ cursor[g] = Incremental /\ rows # {}
      /\ Say(g, Current(g, {newer[g][i] : i \in page}))
      /\ newer' = [newer EXCEPT ![g] =
                     SubSeq(@, Nth(page, Cardinality(page)) + 1, Len(@))]
      /\ UNCHANGED <<made, db, task, loop, failed, owed>>

\* Lost, refused by the limiter, or of a version that is current.
Lose(m) ==
  /\ m \in net
  /\ net' = net \ {m}
  /\ UNCHANGED <<made, db, task, loop, newer, failed, owed>>

\* The process stops and starts again: tasks, claims at hand and the cursor
\* are gone, an open transaction is rolled back, the database and the files stay.
Crash(g) ==
  /\ g \in Fallible \ failed
  /\ failed' = failed \cup {g}
  /\ task' = [w \in Worker |-> IF Site[w] = g THEN Idle ELSE task[w]]
  /\ drain' = [drain EXCEPT ![g] = <<>>]
  /\ sent' = [sent EXCEPT ![g] = FALSE]
  /\ cursor' = [cursor EXCEPT ![g] = Nil]
  /\ newer' = [newer EXCEPT ![g] = <<>>]
  /\ UNCHANGED <<made, db, net, owed>>

\* A query fails, or the client of a push goes away: the ingest ends.
IngestFails(w) ==
  LET g == Site[w]
  IN  /\ g \in Fallible \ failed /\ task[w].pc # "idle" /\ Go(w, "idle")
      /\ failed' = failed \cup {g}
      /\ newer' = [newer EXCEPT ![g] = Drop(@, w)]
      /\ UNCHANGED <<made, db, net, loop, owed>>

\* A query fails: the rest of the batch waits for its claims to lapse.
DrainFails(g) ==
  /\ g \in Fallible \ failed /\ drain[g] # <<>>
  /\ failed' = failed \cup {g}
  /\ drain' = [drain EXCEPT ![g] = <<>>]
  /\ sent' = [sent EXCEPT ![g] = FALSE]
  /\ UNCHANGED <<made, db, net, task, cursor, newer, owed>>

Next ==
  \/ \E w \in Worker : \/ \E n \in Node : Push(w, n)
                       \/ \E n \in Node : Pull(w, n) \/ Refresh(w, n)
                       \/ \E m \in net : Hear(w, m)
                       \/ Fetch(w) \/ Fetched(w) \/ Begin(w) \/ Commit(w) \/ WriteModels(w)
                       \/ IngestFails(w)
  \/ \E g \in Announcing :
       \/ Claim(g) \/ Publish(g) \/ Ack(g) \/ Release(g) \/ ClaimLapses(g)
       \/ Reconcile(g) \/ FullPage(g) \/ IncrementalPage(g)
  \/ \E g \in Gateway : Crash(g) \/ DrainFails(g)
  \/ \E m \in net : Lose(m)

Spec == Init /\ [][Next]_vars

(***************************************************************************)
(* Tasks and the loop run on.  A worker that is told again and again of    *)
(* versions their announcer has hears of one of them at last.              *)
(***************************************************************************)
Fairness ==
  /\ \A w \in Worker :
       /\ WF_vars(Fetch(w) \/ Fetched(w) \/ Begin(w) \/ Commit(w) \/ WriteModels(w))
       /\ SF_vars(\E m \in net : art[m.from][m.node] = m.version /\ Hear(w, m))
  /\ \A g \in Announcing :
       /\ WF_vars(Ack(g) \/ Publish(g) \/ Release(g))
       /\ SF_vars(Reconcile(g))
       /\ SF_vars(FullPage(g))

FairSpec == Spec /\ Fairness

-----------------------------------------------------------------------------
(* Properties.                                                             *)

(***************************************************************************)
(* An ingest never replaces a row by an older snapshot, in whatever order  *)
(* pushes, pulls and fetches of concurrent workers commit.                 *)
(***************************************************************************)
RowsNeverGoBack ==
  [][\A g \in Gateway, n \in Node : row'[g][n] >= row[g][n]]_vars

(***************************************************************************)
(* A snapshot that was applied and is to be announced waits in the outbox  *)
(* until it is published or given up, whenever the process stops.          *)
(***************************************************************************)
OwedIsKept ==
  \A g \in Gateway : owed[g] \subseteq KeysOf(outbox[g])

(***************************************************************************)
(* The read models are never ahead of the row, and once the ingests of a   *)
(* node are done they are those of its row, unless one was cut short by an *)
(* error: the writes after the transaction race, the older one may be last.*)
(***************************************************************************)
ModelsFollowRows ==
  \A g \in Gateway, n \in Node :
    /\ model[g][n] <= row[g][n]
    /\ g \notin failed
       /\ (\A w \in Worker : Site[w] = g /\ task[w].node = n => task[w].pc # "models")
       => model[g][n] = row[g][n]

Agreed == \A g, h \in Gateway, n \in Node : row[g][n] = row[h][n]
ArtifactsCurrent == \A g \in Gateway, n \in Node : art[g][n] = row[g][n]

(***************************************************************************)
(* When every gateway at last serves the artifact of its row, all of them  *)
(* at last have the same row of every node, though announcements are lost, *)
(* the incremental cursor passes rows and outbox rows are given up.        *)
(***************************************************************************)
ServedIsSpread == <>[]ArtifactsCurrent => <>[]Agreed
=============================================================================
