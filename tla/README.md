# Verification of watt-gateway

TLA+ modules that model the two services of this repository, the TLC
configurations that check them on small instances, and TLAPS proofs of the
properties that matter most, for every value of the constants.

- [The system](#the-system)
- [Modules](#modules)
- [Runs](#runs)
- [Proofs](#proofs)
- [What is not modelled](#what-is-not-modelled)

## The system

`wattetheria-message-gateway` is a private transport for Wattswarm nodes. Several
processes share one PostgreSQL database and one RabbitMQ cluster.

| Part | State | Operations | What makes it hard |
|---|---|---|---|
| Mailbox delivery (`rabbit.rs`, `http.rs`, `db.rs`, `commit_token.rs`) | two quorum queues per principal, `pending_pages` in memory, `gateway_delivery_owners` | pull, commit, forward, reap, clean up | the page lives on one process's AMQP channel, its owner in PostgreSQL, its token with the client, each with a clock of its own |
| Gaps (`gaps.rs`, `rabbit.rs`) | dead-letter queue, `gateway_mailbox_gaps` | record, load onto a page, acknowledge, delete | rows are reused by later dead letters |
| Scope membership (`service.rs`, `db.rs`) | memberships, versions, route bindings, grants; bindings in the broker | grant, snapshot, subscribe, reconcile | the broker is changed inside a transaction that may not commit |
| Publish (`service.rs`, `rabbit.rs`) | receipts, token buckets | publish, control | reads before the fence, confirm before the receipt |
| Sessions (`auth.rs`, `db.rs`) | challenges, sessions, instance ids | challenge, prove, verify | two proofs of one challenge; a request needs a second connection while it holds one |
| Token buckets and mutation window (`db.rs`) | bucket rows, window rows | acquire, record | limits and refill at their boundaries |
| Configuration, TLS, observability, object fetch | counters | | no state the others depend on |

`wattetheria-gateway` verifies, stores and republishes signed public data.

| Part | State | Operations | What makes it hard |
|---|---|---|---|
| UI events (`streaming.rs`, `state.rs`, `db.rs`) | event table, broadcast channel, published-event cache | ingest, publish, resume, live | commits are not in cursor order; channels lag |
| Snapshot sync (`gateway_sync.rs`, `http.rs`, `db.rs`) | snapshots, artifacts, announcement cursor | ingest, announce, re-announce, fetch | three ways in, no order between them |
| Gossip limiter (`gateway_sync.rs`) | entries per peer, permits, waiters | admit, acquire, drop | waking the right waiter |
| P2P outbox (`db.rs`, `gateway_sync.rs`) | outbox rows with claims | claim, send, acknowledge, release | a crash between two of the steps |
| Space presence (`space.rs`) | presences, heartbeats, world events | persist event, replay snapshot | transactions of several rows that lock in opposite orders |
| Registry (`http.rs`, `db.rs`) | manifests, review status | register, review, self-register | a manifest is replaced while it is reviewed |
| Public API (`public_api.rs`) | none of its own | federated queries | lists are cut before they are joined |
| Verification, contracts, P2P adapter, start-up | none of their own | | pure functions and I/O |

`PROJECT.json` lists every part and, with the line where each bites, the hazards.

## Modules

### MailboxDelivery

One mailbox (one principal, one delivery class) read by a client through a set
of Gateway instances.

| Variables | Code |
|---|---|
| `sent queue returns held dlq` | RabbitMQ (external): confirmed and ready messages, returns counted against `x-delivery-limit`, messages unacknowledged on each page's channel, dead letters |
| `acked filtered gapped` | what became of a message: ACKed by a commit, ACKed unseen because its recipient wrote it, counted by a gap row |
| `linked open tags aged` | live AMQP connections; `pending_pages`, their deliveries, and those older than the lease |
| `drain recorded` | the dead-letter recorder of each instance |
| `owner leaseLive` | the row of `gateway_delivery_owners` |
| `covers gapPage gapAcked gapDue` | rows of `gateway_mailbox_gaps` |
| `pullPc ...`, `callPc ...` | pull and commit requests between two awaits |

Every stretch of a handler between two awaits that another actor can observe is
one action: `PullAcquire`, `PullSweep`, `PullOpen`, `PullSelectGaps`,
`PullAssignGaps`, `PullReturn` follow `pull_page` in `http.rs`, `rabbit.rs` and
`gaps.rs`; `CommitStart`, `CommitForward`, `CommitCheck`, `CommitAck`,
`CommitRelease`, `CommitGaps`, `CommitReleaseGaps` follow the commit handlers, on
the instance that received the request and on the owner. `CommitTimesOut` is the
forwarding instance giving up on its HTTP call. `Reap`, `Drain*` and `Cleanup*`
are the background loops. `ConnectionLost` and `Crash` are failures.

What is abstracted:

- Time. The lease runs on PostgreSQL's clock, a page's age on a process's
  monotonic clock and a token on a wall clock. No order between them is assumed:
  each timer may fire at any moment after it was started.
- Messages are identities; payloads, sizes and the capacity limit of a queue are
  left out. A queue is a set: no property is about order.
- RabbitMQ's at-least-once dead-lettering is taken as exactly once.
- A lost broker connection is not re-established, as in `RabbitAdapter`, which
  connects once.
- A pull that fails keeps the owner row until its lease lapses, as the code does.

### AtLeastOnceMailbox

What a mailbox promises: a published message stays pending until it is
confirmed, filtered or turned into a gap, and stays what it became. It is
confirmed only if the client was shown it and asked to commit it.
`MailboxDelivery` implements it (`ImplementsMailbox`), with `status` computed from
`acked`, `filtered` and `gapped`.

### MCMailboxDelivery

Model values and the symmetry sets for TLC. Failing and sound instances, mortal
and immortal messages are separate symmetry classes. No liveness run uses
symmetry.

### ScopeMembership

Who belongs to a scope and who receives what is published to it. Requests, any
number at a time, carry signed frames (publishes) and grants from a given set; a
request that has ended may present another frame, or the same one again.

| Variables | Code |
|---|---|
| `member finalizer version` | active rows of `gateway_scope_memberships`, their Finalizer role, `gateway_scope_versions` |
| `rows grant receipt lapsed` | `gateway_scope_route_bindings`, `gateway_network_membership_grants`, live `gateway_publish_receipts`, grants that have expired |
| `bound routed` | RabbitMQ (external): bindings by route, version and principal; what was routed, to whom, and who the members of its version were |
| `pc frame want routes stamp left severed` | a request between two awaits: its frame, the members and routes it acts on, the version it publishes under, rows still to insert, whether it has lost its fence |

`Arrive`, `CheckAuthority`, `LookupHit`/`LookupMiss`, `TakeFence`, `Authorize`, then
`Bind` (a mutation) or `Reconcile`, `DeleteRows`, `InsertRow` (others), `RouteRecord` and
`Commit` follow `publish`; `GrantKnown` and the same `Bind` and `Commit` follow
`admit_grant`. The mutation's rows change in `Commit`, because they are written in the
fence's transaction; `reconcile_scope_bindings` writes through the pool, so its
statements are actions. `Fail`, `BindFails`, `ReconcileFails` and `RouteTimesOut` end a
request at any point, by an error, a refused limit, a timeout or the end of the
process; they differ in what they leave in the broker. `Sever` is the loss of the
connection that holds the advisory lock.

Signatures are abstracted to the set of signers a frame carries. A session is
abstracted to the admission check `verify_bearer` repeats. Direct routes, control
frames, token buckets and the mutation window are left out. Two frames may share an
id with different bodies only if they are not Events, whose id is a hash.

`World` is a set of stories: the frames that are presented, which receipts and grants
may expire, and which requests may lose their fence. `Init` chooses one (`world`), so
one run covers them all. What depends on the fence is claimed of the worlds in which
no fence is lost (`FencesHold`).

### UiStream

Signed events of the public gateway on their way to the clients of `/api/stream`.

| Variables | Code |
|---|---|
| `row committed cursor projected` | `gateway_ui_events` with its bigserial, and what REST serves |
| `pushPc event gate` | calls of `persist_signed_node_event_with_options`, each in some process |
| `cache` | `PublishedEventCache` of a process |
| `streamPc peer batch channel lagged last log` | `handle_ws`: where it is, the rows it has still to send, the receiver of the broadcast channel, `last_sent_cursor`, and what it has sent |
| `seen mark` | what a client knows and the cursor it resumes from |

`Ingest`, `PassOn` or `Superseded` or `Insert`, `Commit`, `Project`, `Publish` (and
`Duplicate`) follow a push. An insert takes its cursor before its transaction
commits. `Connect`, `Hello`, `Replay`, `SendRow`, `GoLive`, `Receive`, `LaggedOut` follow
`handle_ws`, `Bootstrap` is the client's REST read. `PushFails` covers errors and
handlers that are dropped when the caller goes away, `Restart` a process that stops.

Left out: filters (a filtered stream has fewer events), sources that are not
active (their events are refused, and no code changes a source's status), rows
that do not decode. Whether a presence is superseded is a free choice here and the
subject of `SpacePresence`. The records a snapshot brings are pushes like any other;
the snapshot that a gap in a node's sequence asks for is `Refresh` in `SnapshotSync`. No code deletes a row, so
`Hello` never rejects a cursor; `MarkIsStored` checks that.

### Admission

How a principal gets a session and a publish gets through: `auth.rs`, and the
connections, row locks and tokens a request holds on its way.

| Variables | Code |
|---|---|
| `challenge lock` | rows of `gateway_session_challenges`, and the proof whose `for update` holds one |
| `instance history writer` | the row of `gateway_principal_instances`, and the proof that holds it |
| `sessions live admitted` | `gateway_sessions` with the answer each proof got, whether they have run out, `principal_is_admitted` |
| `free pc of` | connections of the pool; where a proof or a publish is, and its challenge |
| `total bulk used` | the token bucket, see `TokenBucket` |

`Begin`, `Select`, `Read`, `Register`, `Commit` follow `prove_session`; `Verify`, `Member`,
`Fence`, `Token` (or `NoToken`), `Published` follow a publish to the Global scope. A
request that has begun a transaction keeps its connection and takes another one for
`principal_is_admitted` or `acquire_global_token`, which go through the pool. `Fail` is
an error at any point; `TimesOut` is the pool's `acquire_timeout`. One principal is
modelled and its admission changes freely (`Turn`); signatures are valid. Every
challenge of the run is asked for with an instance id; the module also has those
without (`Nil`).

### TokenBucket

`acquire_global_token` alone: two counters, refilled at two rates, and the debt of
interactive publishes (`used`, which is not in the code: it says how far they have
gone beyond the reserved rate). Amounts are whole units and exact, where the code has
doubles. `Admission` extends it.

### SnapshotSync

Snapshots of nodes in gateways, and how gateways pass them on.

| Variables | Code |
|---|---|
| `made` | the snapshots a node has signed, by `generated_at`; fixed at the start, any of them arrives at any time |
| `art row model` | of a gateway: artifact files, `node_snapshots`, projections |
| `outbox drain sent` | `gateway_p2p_outbox`, and how far `drain_p2p_outbox` is with the rows it has claimed |
| `cursor newer` | `SnapshotReannounceCursor`, and what is stamped with an `ingested_at` after it |
| `net task` | gossip under way; what a worker ingests |
| `failed owed` | where something has failed; what is still to be announced (not in the code) |

`Push`, `Pull`, `Refresh` and `Hear`/`Fetch` are the ways in. All go through
`ingest_signed_snapshot_with_options`: the artifact is written (`WriteArtifact`), a
transaction begins and is stamped (`Begin`), upserts the row with its outbox row
(`Commit`), and the read models follow (`WriteModels`). `Claim`, `Publish`, `Ack`,
`Release`, `ClaimLapses` are the outbox; `Reconcile`, `FullPage`, `IncrementalPage` the
re-announcements. `Lose`, `Crash`, `IngestFails`, `DrainFails` are failures. Left out:
signatures (valid), sources that are not active, outbox rows of events (which take the
same steps), the status of a source and the collectors' projections.

### GossipLimiter

Whether an announcement gets to be fetched: the queue and the slots of the dispatcher,
the entry of each peer (`entry pending gate`), the permits (`free`) and tokio's `Notify`
(`waiters stored`, external). Tasks run on several threads, so every operation on a
semaphore, a `Notify` or the mutex is an action; `TryPeer` to `WaitAll` follow `acquire`,
`Fetched` to `Leave` the drops in their order. The lane of events has its own queue,
slots and semaphore and is left out.

### SpacePresence

The records of `space.rs`: presences, heartbeats and world events, each a key and a
number. A request is an event with one record or a snapshot with several. `Store` and
`Refuse` follow the three upserts with the row locks they take; `draft` and `lock` are
the open transactions, `ui` the rows of `gateway_ui_events` in the order of their
cursors. Record validation is left out: what is invalid is skipped.

### Subsequences

Lists, defined by their positions. The part of a sequence at some of its positions: the
rows that a query selects, the first of them up to a limit, what a delete or a rollback
leaves (`SnapshotSync` and `SpacePresence` use it). A stable sort, in which an element
goes to the place that the number of those before it gives, and lists one after the other
(`NodeList` uses them).

### NodeList

The pure part of `GET /api/network/nodes`. `NetworkNodes` joins a gateway's reports with
the lists of the other gateways, and `Listed` sorts them by age, drops those without
coordinates, keeps the first of every id and none without an id, and cuts, in the order of
the code. `IsNewest` is the reference: what one gateway with all the reports would answer.

### PublicApi

`NodeList` over the rows of `SnapshotSync`: the reports of a gateway's snapshots, and lists
of other gateways, of which nothing is assumed. The version of a snapshot stands for the
time of its reports. The projections of `NetworkProjection`, of which those a snapshot
brings have no coordinates, and the error answers are left out.

## Runs

| Run | Bounds | Shows |
|---|---|---|
| `mailbox_lease` | 2 instances, 2 pages, 2 commits, 2 messages, no failures | two pulls and two commits race through two instances: a page is committed once (`CommittedOnce`), and an owner row changes hands only after its lease (`LeaseFencesOwner`) |
| `mailbox_faults` | 1 instance that may fail, 2 pages, 3 messages, one of them self-authored, delivery limit 1 | no message is lost or settled twice through crashes, lost connections and prefetch (`EveryMessageAccounted`); a commit that succeeds has ACKed its page (`CommitOkMeansAcked`); the abstract mailbox is implemented (`ImplementsMailbox`) |
| `mailbox_settles` | 2 instances, one may fail, 1 mortal message, 1 page, 1 commit, 1 gap row | every message is settled at last; a gap row is acknowledged only by a commit of a page that carried it |
| `mailbox_gap_reuse` | 2 mortal messages compressed into one row | **violated**: see below |
| `scope_fanout` | genesis, two principals, 2 requests at a time, in one of three worlds: two snapshots and a record whose receipt expires; a grant that expires, two joins, a leave and a record of a group; two snapshots and a record under fences that are lost | a record reaches the members of its version and, where a snapshot made the version, nobody else; binding rows name members; a membership takes effect only after its frame reached all of it; a receipt stands for a routed record |
| `stream_order` | 2 events, one of them a space event, 2 pushes, 2 processes, one row per replay, channel and cache of one entry | a connection sends events in cursor order, none twice, and only what is stored; what is broadcast is projected |
| `stream_resume` | a stored, a space and a protected ephemeral event, 1 push, 1 process that restarts, replays reach the end | a client that resumes misses nothing, and one that keeps connecting sees every stored event |
| `admission` | 3 challenges that move from one instance id to another, 2 requests, 2 connections, a bucket of two tokens, one of them bulk | a challenge gives one session; a changed instance is reported from then on; the reserved rate is granted; every request ends, though both may hold a connection and wait for another |
| `sync_ingest` | 1 gateway that may fail once, 2 workers, a node that signs twice, an outbox batch of 2 and 2 attempts; lists of up to 3 reports of 3 nodes from another gateway | rows never go back; read models follow them; what is owed is in the outbox; the public list is that of the newest reports |
| `sync_spread` | 2 gateways with a worker each, one node that signs twice or two that sign once, pages of 1 row, 1 attempt, lossy gossip | once artifacts are those of the rows, the gateways agree at last |
| `gossip_limiter` | 5 announcements, 3 of them of one peer, 2 permits, 2 admissions per peer | the bounds and counts of the limiter; no lost wake-up, with one exception described below |
| `space_presence` | 2 requests at a time, 2 snapshots that name 2 agents in opposite orders, 5 events | cursors follow records; the last row is what is stored; a snapshot is applied whole; every request ends |

The bounds are the smallest in which each hazard happens: two pages are needed
for a stale epoch, two commits for a repeated one, two instances for forwarding,
a third message for prefetch beyond a page, and a delivery limit of 1 so that the
first return counts and the second dead-letters. Channels and caches of one entry
make every second event overflow them.

Two requests at a time are enough for the fence, whose modes concern pairs, and
each is used again when it has ended, so sequences of requests are not bounded.
Two connections and two requests exhaust a pool that each needs twice. Two workers
let an older ingest finish after a newer one. `sync_spread` needs two rows in one
gateway for a page to end between them, and two versions for an announcement to be
stale. In `gossip_limiter` a third announcement of one peer is refused or waits, and
the other two peers hold both permits.

**Deadlock** is not checked in the mailbox runs: the finite sets of pages, calls and
messages are used up, after which the system stops; likewise in `gossip_limiter`, when
every announcement is handled. The other runs check it.

**Fairness** (`FairSpec`). In `MailboxDelivery` weak fairness is assumed of the clock (`Expire`: a
message's TTL passes; `PageAges`: a page reaches its age limit) and, at every
instance, of the reaper (`Reap`) and of the recorder's `basic_get` (`DrainGet`): both
are loops `main.rs` starts and never stops. Strong fairness is assumed of `DrainRecord`
and `DrainAck`: the broker returns an unrecorded dead letter and the loop tries it
again, so a pass that is retried for ever succeeds at last. Nothing is assumed of
clients (a page may never be committed), of the handlers, of leases and tokens, or of
the clean-up. In `UiStream`, weak fairness is assumed of a push that has begun and of
a client's next connection, and strong fairness of each step of `handle_ws`: a step
that is tried again and again, on connections that may break, succeeds at last.
In `Admission` a request goes on, or is refused where the code refuses it, also when
others come between: PostgreSQL grants row locks and sqlx grants connections in turn.
In `SpacePresence` upserts are served in turn (strong fairness), commits go on, and
PostgreSQL breaks a deadlock (`Victim`). In `SnapshotSync` tasks and the loop run on;
full reconciles come again and again, as the interval makes them; and of
announcements repeated for ever one is heard whose artifact is still the one
announced: gossip that loses everything spreads nothing.

**Findings.** `mailbox_gap_reuse` checks that a dead letter, once recorded, is
counted by a row that some page can still show. `record_gap` adds a dead letter
to an existing row, and does not look at whether that row was already
acknowledged (`gaps.rs:36`). The count is then never shown. The contract tests
say otherwise (`PROJECT.json` quotes them).

**Observations.** What follows was met while modelling and delimits what the
properties say.

- A join binds the members at its version and may then fail; if one of them leaves
  and the join is published again, the member that left is still bound at the version
  that becomes active (`service.rs:941`). `StrangersExcluded` is therefore stated of
  versions that a snapshot made: its frame fixes the members.
- The quorum of a snapshot is checked before the fence is taken and not again
  (`service.rs:295`), while `src/README.md:113` speaks of the current quorum.
- The genesis may replace the membership at any time, not only the first
  (`service.rs:1084`). Two records with one key, published at the same time, can both
  miss the receipt and both be accepted (`service.rs:321`).
- A client that resumes, and is not rejected, can miss an event in five cases: two
  pushes at once commit or are broadcast in the other order than their cursors
  (`streaming.rs:746`); more rows than a replay's limit, which the first live event
  passes over (`streaming.rs:718`); a replay whose query fails (`streaming.rs:703`); a
  second process that stores the event (`streaming.rs:744`); a push that stops between
  its commit and its broadcast (`db.rs:1189`). `stream_resume` and the theorem
  `ResumeHolds` show that nothing is missed when none of them happens.
- An older snapshot that is pushed after a newer one overwrites the artifact and not
  the row. Peers then find an artifact that is not the version announced and leave it
  (`gateway-p2p/src/lib.rs:343`), until a newer snapshot comes. That is why
  `ServedIsSpread` has its premise.
- The incremental cursor passes rows whose transaction began before and commits after
  it moved, and outbox rows are given up; full reconciles make up for both.
- A query that fails after the row was committed leaves the read models behind until
  the next snapshot: `ModelsFollowRows` excepts gateways in which something failed.
- Two `notify_one` calls with nobody registered become one. A task that is about to
  wait for a snapshot permit then sleeps beside a free permit until the next release
  (`gateway_sync.rs:190`); `missed` keeps such tasks, and `SleeperHasWaker` shows that
  somebody is left to wake them.
- The reserve of the token bucket needs a burst of two tokens or more: with one,
  `burst.saturating_sub(1).max(1)` gives bulk publishes the whole burst. The default
  is twenty.
- Requests that hold every connection and each wait for another end only by the
  pool's acquire timeout; without it (`WaitsForever`) `RequestsEnd` fails.

## Proofs

Each `*_proofs` module proves its component's theorems for every value of the
constants, from the named assumptions of the component's module, which TLC evaluates
in the component's runs.

| Module | Proves | Assumes |
|---|---|---|
| `MailboxDelivery_proofs` | every safety property of the passing mailbox runs and the refinement; also `TypeOK`, `AckedOnlyIfCommitted`, `HeldIsReclaimable` and `CommitFreesMailbox`, which no run repeats | `ConstantsAssumption` |
| `ScopeMembership_proofs` | every property of `scope_fanout` | `FrameAssumption`: two frames with one id are one, if one is a mutation |
| `UiStream_proofs` | every property of `stream_order`, and `ResumeIsComplete` when `Undisturbed` and `ReplaysAreWhole` | `StreamAssumption` |
| `Admission_proofs` | every safety property of `admission`, and `ReservedIsGranted` of `TokenBucket` alone | `AdmissionAssumption`: finitely many requests, for the count of connections; `BucketAssumption`: a burst of two tokens, a bulk rate within the total rate |
| `SnapshotSync_proofs` | every property of `sync_ingest` | `SyncAssumption`; for `ListIsNewest` also `ListAssumption`: what snapshots report are lists |
| `GossipLimiter_proofs` | every property of `gossip_limiter` | `LimiterAssumption`: the queue has a place for every worker |
| `SpacePresence_proofs` | every safety property of `space_presence` | `SpaceAssumption`: an event has one record; a world event, stored once, has the number 1 |
| `Lists_proofs` | what the operators of `Subsequences` make of lists of any length; that the list of `NodeList` is the newest one | |

**MailboxDelivery.** The argument is layered; each layer is inductive given those
before it.

1. `TypeOK`.
2. `Control`: a page id is opened once (`PagesFresh`), and only the token of a
   returned page is committed (`CallsReturned`).
3. `Holding`: unacknowledged messages sit on the channel of a pending page of a
   connected instance (`HeldIsReclaimable`), and such a page still holds all it
   must ACK (`PagesHold`). Without `PagesHold` a commit could ACK a message that
   has gone back to the queue.
4. `Accounted`: each message is in exactly one place (`InOnePlace`): queue,
   channel, dead-letter queue, recorder, or settled. This gives
   `EveryMessageAccounted`. It needs layer 3 in the ACK step.
5. `Settling`: what a commit found is ACKed and its page is gone (`GotSettled`),
   shown messages were sent (`TagsSent`), owner rows (`OwnerReleased`) and
   selected gap rows (`GapsSelected`) follow. From these come
   `AckedOnlyIfCommitted`, `CommittedOnce`, `CommitOkMeansAcked`,
   `CommitFreesMailbox` and `GapAckedOnlyIfShown`.
6. `LeaseFencesOwner`, an action property.
7. `Refinement`: `Spec => ImplementsMailbox`, step by step.

**ScopeMembership.** A request that has not lost its fence acts on the membership it
has read (`Current`), because a mutation of the scope beside it would need the fence
for itself (`Fenced`). The bindings it relies on stay: a reconciliation beside it
unbinds, at the active version, only principals that are not members. What every
request has decided when it was authorised holds also of one that has lost its fence
(`Decides`); with the agreement of active versions and members (`Placed`) it makes the
bindings of a snapshot's version name its members (`BoundFits`), and so what is routed
under it (`RoutedFits`). `RoutedFits` is `StrangersExcluded` without its premise:
exclusion does not depend on the fence. `AppliedIsAnnounced` and `ReceiptMeansRouted`
need no premise either, because `Commit` fails on a lost connection. The other two are
false when fences are lost, which is why they have `FencesHold`.

**UiStream.** The database part says that rows are numbered apart and that a row is
committed or the business of one push (`Numbered`, `Pushes`). The connection part
(`Waiting`, `Logged`, `Marked`) says that what a connection has still to send is
committed and after its last cursor, and that its log ends there. Pushes matter to
connections only by what they do to committed rows, which is nothing (`RowsStay`). The
least row of a replay leaves the others after it because no two share a number; a live
event is compared with the last cursor.

`TypeOK` adds the capacities (`Bounds`): the cache forgets its oldest entry when it is
full, and a full channel drops its oldest event.

Resuming needs the premises of the run, stated as such. `Undisturbed`: one push at a
time, one process, and pushes and replays that do not fail; `ReplaysAreWhole`: no replay
is cut at its limit. The observations above show that none of them can be dropped.
The process may still restart, at any point of a push. The invariant (`ResumeInv`) follows
an event that a connection has still to send (`Due`): it is in the replay, or waits in
the channel behind older ones only, or is the newest row, whose push is about to
broadcast it (`Owed`). So whatever is sent next is the least that is due. A repeated
push whose event the cache has forgotten is broadcast again, out of order; it is not
due, or it waits at an earlier place too. A channel that has lagged owes nothing: nothing
more is received from it, and the client is told to drop its cursor.

**TokenBucket.** (In `Admission_proofs`.) The counters alone are not inductive: the invariant (`BucketInv`) adds
`total + used >= bulk + Unit`, that is, what bulk publishes may still take, and one token
more, is there beside the interactive debt.

**Admission.** From its select to its end a proof is the only one that holds the row of
its challenge, and the challenge stays open (`Locked`); so a session is made of an open
challenge and closes it (`Consumed`). The instance row sums up the sessions (`Summary`),
which gives `HistoryIsDurable`: a session reports a change exactly if it has an instance
id and one up to it had another. `BucketRefinement` shows that a step of a request is a step of
`TokenBucket` or leaves it alone, and carries `ReservedIsGranted` over.

**SnapshotSync.** `TypeOK` contains the unique key of the outbox. A row is written only
under the guard `Applies`, which gives the action property `RowsNeverGoBack`. The models
may lag behind a row, but then a worker at work on the very version of the row is still
to write them (`ModelInv`); two ingests that overlap are told apart by `Newest`. What is
owed stays in the outbox (`OutboxInv`): a row is deleted when it was published or given
up, and a row that is published and not yet deleted is not owed again, because no key of
the outbox or of the batch is newer than the row of its node, while a version that
becomes owed is.

**GossipLimiter.** The invariant (`LimiterInv`) joins these. `EntryInv`: the entry of a
peer counts the tasks admitted for the peer, and no other entry counts any. `PermitInv`:
every snapshot permit is free or held, and a peer's permit has one holder. `NotifyInv`: a
`Notify` has registered exactly the tasks that sleep on it, and keeps a permit only when
there are none. `PeerWakeInv`: when the permit of a peer is free and a task wants it, a
notification is stored, or a task is about to try the permit or to notify. `AllWakeInv`
and `FreeInv`: a task that was turned away for want of a snapshot permit is never the
last one, and as many tasks are on their way, or notifications stored, as permits are
free, unless all who wait are in `missed`. A woken task that finds its peer busy hands
its notification on (`passOn`); without that `FreeInv` would not be kept. From these come
the bounds, the exact counts, that every sleeper has a waker, and `FreePermitIsTaken`.

**SpacePresence.** The invariant (`SpaceInv`) orders all rows of a key, those of open
transactions too (`RowsInv`): an open row belongs to the transaction that holds the lock
of the key, so a rollback removes rows from the end of their key's. `KeysInv` says that
what is stored or drafted was told, `JobsInv` that a request has stored the records it is
done with, or found newer ones. At its commit a snapshot is therefore whole
(`SnapshotIsWhole`).

**Subsequences.** Deleting, rolling back and paging take some positions of a sequence.
The module counts them (`Rank`), and the proofs show that the counting reaches every
position exactly once and in order (`SubsequenceKeepsOrder`): ranks differ and there are
as many of them as positions. The sort is proved in the same way from the places of its
elements (`DescendingSorts`), which is why it is defined by them. What joined lists have
(`JoinedHasAll`) is an induction over the lists, done with the first list for which the
claim fails (`OneIsFirst`), which needs no theorem with an operator as parameter.

**NodeList.** Every step keeps a list newest first, so the first report of an id is its
newest one, and a gateway alone answers what it should (`ListedIsNewest`). A report that
another gateway cut off changes nothing (`CutIsNoLoss`): if its id was listed, by a report
at least as new, that report competes instead; if not, the other list was full of newer
ids, so the joint list is full too, and either one of those ids is not in it, and lost to
everything that is, or they are the same ids. The counts agree because a list that was
cut alone fills the joint list. This is `FederatedListIsNewest`, for reports of any times
and finitely many ids; `ListsAreNewest` applies it to the reports of the rows.

**Only model-checked**, on the instances above, is liveness, which is outside the prover's
reach: `EventuallySettled`, `EventuallySeen`, `ServedIsSpread`, `RequestsEnd` of
`Admission` and of `SpacePresence`.

## What is not modelled

- **Control frames.** `send_control` routes one record to one mailbox under no fence and
  keeps no state of its own; the mailbox it goes to is that of `MailboxDelivery`.
- **Direct (Node) routes.** A publish to one principal has no membership and no version:
  it is `RouteRecord` with one recipient.
- **The mutation window and the buckets of principals and scopes.** They only refuse; a
  refusal is `Fail`, which the models allow at every point.
- **The registry.** Each operation is one statement on one row and the last one wins; a
  model would restate the assignments, and no document says which manifest a review is
  about.
- **Registration and status of sources, the collectors' projections.** Single upserts,
  and no code changes a status.
- **The other queries of the public API, the filters of a stream.** Each filters, sorts
  and cuts one table.
- **Configuration, TLS, observability, object fetch, start-up.** They hold no state that
  another part depends on.
- **Signatures and data contracts.** Pure checks, whose verdict the models take as an
  input.
- **The P2P transport.** It is seen as messages that may be lost, repeated or reordered.
- **Doubles.** `TokenBucket` counts exactly; the rounding of PostgreSQL's doubles is left
  out.
