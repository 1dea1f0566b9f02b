------------------------------ MODULE UiStream ------------------------------
(***************************************************************************)
(* Signed node events on their way to the clients of the UI stream.        *)
(*                                                                         *)
(* A push stores an event in PostgreSQL, which numbers it (the cursor) when*)
(* the row is inserted, projects it for REST, and hands it to the hub of   *)
(* its process, which broadcasts an event once while its cache remembers   *)
(* it.  Several processes may share the database.  A client bootstraps over*)
(* REST, connects, is sent the stored events after its cursor, at most     *)
(* Limit, and then what the hub broadcasts; it keeps the largest cursor it *)
(* was sent and resumes from it.                                           *)
(*                                                                         *)
(* A source's status is fixed when it is registered, so the events of a    *)
(* source that is not active are refused and never appear here.  Filters   *)
(* other than the protected kinds are left out: a filtered stream is a     *)
(* stream with fewer events.                                               *)
(*                                                                         *)
(* The snapshot a gap in a node's sequence asks for, the P2P outbox and the*)
(* NATS notice are other components'.                                      *)
(***************************************************************************)
EXTENDS Naturals, Sequences, FiniteSets

CONSTANTS
  Event,
  Ephemeral,   \* events of the policy EphemeralOnly, never stored
  Space,       \* presences and world events, see space.rs
  Protected,   \* events of a kind that needs a token
  Push,        \* pushes that run at a time
  Gate,        \* processes that share the database
  Client,
  Authorized,  \* clients with a token
  Limit,       \* rows a replay reads (query.limit, 200)
  Capacity,    \* of the broadcast channel
  CacheSize,   \* PUBLISHED_EVENT_CACHE_CAPACITY
  Failing,     \* pushes that may fail or be cancelled
  Mortal,      \* processes that may be restarted
  Flaky,       \* clients whose replay query may fail
  MaxCursor,   \* a bound on the cursors handed out
  Nil

Stored == Event \ Ephemeral

ASSUME StreamAssumption ==
  /\ Ephemeral \subseteq Event /\ Space \subseteq Stored
  /\ Protected \subseteq Event /\ Authorized \subseteq Client
  /\ Failing \subseteq Push /\ Mortal \subseteq Gate /\ Flaky \subseteq Client
  /\ Limit \in Nat \ {0} /\ Capacity \in Nat \ {0} /\ CacheSize \in Nat \ {0}
  /\ MaxCursor \in Nat
  /\ Nil \notin Event \cup Gate

VARIABLES
  \* PostgreSQL
  row,        \* the cursor of an event's row, 0 when it has none
  committed,  \* events whose row is committed
  cursor,     \* the last cursor handed out
  projected,  \* stored events that REST serves
  \* pushes
  pushPc, event, gate,
  \* the hub of a process
  cache,      \* PublishedEventCache.order
  \* connections
  streamPc,   \* where handle_ws is
  peer,       \* the process the client is connected to
  batch,      \* rows the replay has still to send
  channel,    \* broadcast events the client has not received
  lagged,     \* clients that were overtaken by the channel
  last,       \* last_sent_cursor
  log,        \* the cursors sent on this connection
  \* clients
  seen,       \* events the client knows, from REST or from the stream
  mark        \* the cursor it resumes from, 0 when it has none

dbVars     == <<row, committed, cursor, projected>>
pushVars   == <<pushPc, event, gate>>
streamVars == <<streamPc, peer, batch, channel, lagged, last, log>>
clientVars == <<seen, mark>>
vars == <<dbVars, pushVars, cache, streamVars, clientVars>>

Cursor == 0 .. MaxCursor

TypeOK ==
  /\ row \in [Event -> Cursor]
  /\ committed \subseteq Stored /\ projected \subseteq Stored
  /\ cursor \in Cursor
  /\ pushPc \in [Push -> {"idle", "store", "commit", "project", "publish"}]
  /\ event \in [Push -> Event \cup {Nil}]
  /\ gate \in [Push -> Gate \cup {Nil}]
  /\ cache \in [Gate -> Seq(Stored)]
  /\ \A g \in Gate : Len(cache[g]) <= CacheSize
  /\ streamPc \in [Client -> {"off", "hello", "replay", "send", "live"}]
  /\ peer \in [Client -> Gate \cup {Nil}]
  /\ batch \in [Client -> SUBSET Stored]
  /\ channel \in [Client -> Seq(Event)]
  /\ \A c \in Client : Len(channel[c]) <= Capacity
  /\ lagged \subseteq Client
  /\ last \in [Client -> Cursor]
  /\ log \in [Client -> Seq(Cursor)]
  /\ seen \in [Client -> SUBSET Event]
  /\ mark \in [Client -> Cursor]

Init ==
  /\ row = [e \in Event |-> 0]
  /\ committed = {} /\ projected = {} /\ cursor = 0
  /\ pushPc = [p \in Push |-> "idle"]
  /\ event = [p \in Push |-> Nil]
  /\ gate = [p \in Push |-> Nil]
  /\ cache = [g \in Gate |-> <<>>]
  /\ streamPc = [c \in Client |-> "off"]
  /\ peer = [c \in Client |-> Nil]
  /\ batch = [c \in Client |-> {}]
  /\ channel = [c \in Client |-> <<>>]
  /\ lagged = {}
  /\ last = [c \in Client |-> 0]
  /\ log = [c \in Client |-> <<>>]
  /\ seen = [c \in Client |-> {}]
  /\ mark = [c \in Client |-> 0]

-----------------------------------------------------------------------------
(* persist_signed_node_event_with_options                                  *)

Step(p, from, to) == pushPc[p] = from /\ pushPc' = [pushPc EXCEPT ![p] = to]

\* The response leaves, or the handler ends without one.
Finish(p) ==
  /\ pushPc' = [pushPc EXCEPT ![p] = "idle"]
  /\ event' = [event EXCEPT ![p] = Nil]
  /\ gate' = [gate EXCEPT ![p] = Nil]

\* An event, new or seen before, arrives at a process and is verified.
Ingest(p, e, g) ==
  /\ Step(p, "idle", "store")
  /\ event' = [event EXCEPT ![p] = e]
  /\ gate' = [gate EXCEPT ![p] = g]
  /\ UNCHANGED <<dbVars, cache, streamVars, clientVars>>

\* An ephemeral event is published and not stored.
PassOn(p) ==
  /\ event[p] \in Ephemeral /\ Step(p, "store", "publish")
  /\ UNCHANGED <<dbVars, event, gate, cache, streamVars, clientVars>>

\* A presence or world event that brings nothing new is dropped; what is new
\* is the business of space.rs.
Superseded(p) ==
  /\ pushPc[p] = "store" /\ event[p] \in Ephemeral \cup Space
  /\ Finish(p)
  /\ UNCHANGED <<dbVars, cache, streamVars, clientVars>>

\* Another transaction has inserted the event and not committed it: the
\* unique index makes this one wait.
Blocked(p) ==
  \E q \in Push \ {p} : pushPc[q] = "commit" /\ event[q] = event[p]

\* Mutant: the event is published while its transaction is open.
InsertEarly(p) ==
  /\ event[p] \in Stored \ committed /\ ~Blocked(p) /\ cursor < MaxCursor
  /\ Step(p, "store", "publish")
  /\ cursor' = cursor + 1
  /\ row' = [row EXCEPT ![event[p]] = cursor + 1]
  /\ UNCHANGED <<committed, projected, event, gate, cache, streamVars, clientVars>>

\* The row is inserted and numbered.  A refused duplicate takes a number too,
\* which only leaves a hole in the cursors.
Insert(p) ==
  /\ event[p] \in Stored \ committed /\ ~Blocked(p) /\ cursor < MaxCursor
  /\ Step(p, "store", "commit")
  /\ cursor' = cursor + 1
  /\ row' = [row EXCEPT ![event[p]] = cursor + 1]
  /\ UNCHANGED <<committed, projected, event, gate, cache, streamVars, clientVars>>

\* A duplicate is projected and published again, except a space event.
Duplicate(p) ==
  /\ event[p] \in committed \ Space /\ Step(p, "store", "project")
  /\ UNCHANGED <<dbVars, event, gate, cache, streamVars, clientVars>>

\* A space event is stored and projected by one transaction.
Commit(p) ==
  /\ Step(p, "commit", IF event[p] \in Space THEN "publish" ELSE "project")
  /\ committed' = committed \cup {event[p]}
  /\ projected' = IF event[p] \in Space THEN projected \cup {event[p]} ELSE projected
  /\ UNCHANGED <<row, cursor, event, gate, cache, streamVars, clientVars>>

\* Mutant: an event is published before it is projected.
ProjectLate(p) ==
  /\ Step(p, "project", "publish")
  /\ UNCHANGED <<dbVars, event, gate, cache, streamVars, clientVars>>

\* insert_audit_record and materialize_event_projection
Project(p) ==
  /\ Step(p, "project", "publish")
  /\ projected' = projected \cup {event[p]}
  /\ UNCHANGED <<row, committed, cursor, event, gate, cache, streamVars, clientVars>>

-----------------------------------------------------------------------------
(* UiStreamHub                                                             *)

\* Mutant: the cache grows without bound.
RememberAll(q, e) == Append(q, e)

\* PublishedEventCache::remember
Remember(q, e) ==
  IF Len(q) >= CacheSize THEN Append(Tail(q), e) ELSE Append(q, e)

Cached(g, e) == \E i \in 1 .. Len(cache[g]) : cache[g][i] = e

Subscribed(c, g) == streamPc[c] # "off" /\ peer[c] = g

\* broadcast::Sender::send: the oldest event makes way, and a receiver that
\* had not received it has lagged.
Broadcast(e, g) ==
  /\ channel' = [c \in Client |->
                   IF ~Subscribed(c, g) THEN channel[c]
                   ELSE IF Len(channel[c]) = Capacity
                        THEN Append(Tail(channel[c]), e)
                        ELSE Append(channel[c], e)]
  /\ lagged' = lagged \cup {c \in Client : Subscribed(c, g)
                                           /\ Len(channel[c]) = Capacity}

Publish(p) ==
  LET e == event[p]
      g == gate[p]
  IN  /\ pushPc[p] = "publish" /\ Finish(p)
      /\ IF e \in Stored /\ Cached(g, e)
         THEN UNCHANGED <<cache, channel, lagged>>
         ELSE /\ cache' = IF e \in Ephemeral THEN cache
                          ELSE [cache EXCEPT ![g] = Remember(@, e)]
              /\ Broadcast(e, g)
      /\ UNCHANGED <<dbVars, streamPc, peer, batch, last, log, clientVars>>

-----------------------------------------------------------------------------
(* Failures of a push.                                                     *)

\* The row of a push that has not committed is rolled back.
RolledBack(p) ==
  IF pushPc[p] = "commit" THEN [row EXCEPT ![event[p]] = 0] ELSE row

\* An error, or the caller gives up and its handler is dropped.
PushFails(p) ==
  /\ p \in Failing /\ pushPc[p] # "idle" /\ Finish(p)
  /\ row' = RolledBack(p)
  /\ UNCHANGED <<committed, cursor, projected, cache, streamVars, clientVars>>

-----------------------------------------------------------------------------
(* handle_ws                                                               *)

StreamStep(c, from, to) ==
  streamPc[c] = from /\ streamPc' = [streamPc EXCEPT ![c] = to]

\* The socket is closed, by either side.
Close(c) ==
  /\ streamPc' = [streamPc EXCEPT ![c] = "off"]
  /\ peer' = [peer EXCEPT ![c] = Nil]
  /\ batch' = [batch EXCEPT ![c] = {}]
  /\ channel' = [channel EXCEPT ![c] = <<>>]
  /\ lagged' = lagged \ {c}
  /\ last' = [last EXCEPT ![c] = 0]
  /\ log' = [log EXCEPT ![c] = <<>>]

\* The client reads REST, as it must when it has no cursor.
Bootstrap(c) ==
  /\ streamPc[c] = "off" /\ mark[c] = 0
  /\ seen' = [seen EXCEPT ![c] = @ \cup projected]
  /\ seen' # seen
  /\ UNCHANGED <<dbVars, pushVars, cache, streamVars, mark>>

\* Mutant: the client is not subscribed to the hub.
ConnectUnsubscribed(c, g) ==
  /\ StreamStep(c, "off", "hello")
  /\ last' = [last EXCEPT ![c] = mark[c]]
  /\ UNCHANGED <<dbVars, pushVars, cache, peer, batch, channel, lagged, log,
                 clientVars>>

Connect(c, g) ==
  /\ StreamStep(c, "off", "hello")
  /\ peer' = [peer EXCEPT ![c] = g]
  /\ last' = [last EXCEPT ![c] = mark[c]]
  /\ UNCHANGED <<dbVars, pushVars, cache, batch, channel, lagged, log, clientVars>>

\* resume_rejection_reason: the cursor is before the earliest stored one.
AgedOut(c) ==
  mark[c] > 0 /\ committed # {} /\ \A e \in committed : mark[c] < row[e]

\* The client is told to bootstrap and to forget its cursor.
Reject(c) ==
  /\ Close(c)
  /\ mark' = [mark EXCEPT ![c] = 0]
  /\ UNCHANGED <<dbVars, pushVars, cache, seen>>

Hello(c) ==
  /\ streamPc[c] = "hello"
  /\ IF AgedOut(c) THEN Reject(c)
     ELSE /\ StreamStep(c, "hello", "replay")
          /\ UNCHANGED <<dbVars, pushVars, cache, peer, batch, channel, lagged,
                         last, log, clientVars>>

\* list_ui_events_after: the Limit first rows after the cursor.
RowsAfter(k) ==
  LET after == {e \in committed : row[e] > k}
  IN  {e \in after : Cardinality({f \in after : row[f] < row[e]}) < Limit}

Replay(c) ==
  /\ StreamStep(c, "replay", "send")
  /\ batch' = [batch EXCEPT ![c] = RowsAfter(mark[c])]
  /\ UNCHANGED <<dbVars, pushVars, cache, peer, channel, lagged, last, log,
                 clientVars>>

\* A replay that fails is left out.
ReplayFails(c) ==
  /\ c \in Flaky /\ StreamStep(c, "replay", "live")
  /\ UNCHANGED <<dbVars, pushVars, cache, peer, batch, channel, lagged, last, log,
                 clientVars>>

\* event_matches_query
Matches(c, e) == e \in Protected => c \in Authorized

Larger(i, j) == IF i > j THEN i ELSE j

\* An event is sent, and the client keeps its cursor.
Deliver(c, e) ==
  /\ seen' = [seen EXCEPT ![c] = @ \cup {e}]
  /\ IF e \in Stored
     THEN /\ last' = [last EXCEPT ![c] = Larger(@, row[e])]
          /\ log' = [log EXCEPT ![c] = Append(@, row[e])]
          /\ mark' = [mark EXCEPT ![c] = Larger(@, row[e])]
     ELSE UNCHANGED <<last, log, mark>>

Skip == UNCHANGED <<last, log, clientVars>>

\* The next row of the replay, in the order of the cursors.
SendRow(c, e) ==
  /\ streamPc[c] = "send" /\ e \in batch[c]
  /\ \A f \in batch[c] : row[e] <= row[f]
  /\ batch' = [batch EXCEPT ![c] = @ \ {e}]
  /\ IF Matches(c, e) THEN Deliver(c, e) ELSE Skip
  /\ UNCHANGED <<dbVars, pushVars, cache, streamPc, peer, channel, lagged>>

GoLive(c) ==
  /\ batch[c] = {}
  /\ StreamStep(c, "send", "live")
  /\ UNCHANGED <<dbVars, pushVars, cache, peer, batch, channel, lagged, last, log,
                 clientVars>>

\* Mutant: live events are not compared with the last cursor sent.
NeverStale(c, e) == FALSE

\* The event was sent already, as far as the cursor tells.
Stale(c, e) == e \in Stored /\ row[e] <= last[c]

Receive(c) ==
  /\ streamPc[c] = "live" /\ c \notin lagged /\ channel[c] # <<>>
  /\ channel' = [channel EXCEPT ![c] = Tail(@)]
  /\ LET e == Head(channel[c])
     IN  IF ~Stale(c, e) /\ Matches(c, e) THEN Deliver(c, e) ELSE Skip
  /\ UNCHANGED <<dbVars, pushVars, cache, streamPc, peer, batch, lagged>>

\* Mutant: a receiver that lagged goes on with what is left.
LaggedGoesOn(c) ==
  /\ streamPc[c] = "live" /\ c \in lagged
  /\ lagged' = lagged \ {c}
  /\ UNCHANGED <<dbVars, pushVars, cache, streamPc, peer, batch, channel, last, log,
                 clientVars>>

\* RecvError::Lagged
LaggedOut(c) ==
  /\ streamPc[c] = "live" /\ c \in lagged
  /\ Reject(c)

Disconnect(c) ==
  /\ streamPc[c] # "off" /\ Close(c)
  /\ UNCHANGED <<dbVars, pushVars, cache, clientVars>>

-----------------------------------------------------------------------------
\* A process stops and starts again: its hub is empty, its connections and
\* its pushes are gone.
Restart(g) ==
  LET mine == {p \in Push : gate[p] = g}
      gone == {c \in Client : Subscribed(c, g)}
  IN  /\ g \in Mortal
      /\ row' = [e \in Event |->
                   IF \E p \in mine : pushPc[p] = "commit" /\ event[p] = e
                   THEN 0 ELSE row[e]]
      /\ pushPc' = [p \in Push |-> IF p \in mine THEN "idle" ELSE pushPc[p]]
      /\ event' = [p \in Push |-> IF p \in mine THEN Nil ELSE event[p]]
      /\ gate' = [p \in Push |-> IF p \in mine THEN Nil ELSE gate[p]]
      /\ cache' = [cache EXCEPT ![g] = <<>>]
      /\ streamPc' = [c \in Client |-> IF c \in gone THEN "off" ELSE streamPc[c]]
      /\ peer' = [c \in Client |-> IF c \in gone THEN Nil ELSE peer[c]]
      /\ batch' = [c \in Client |-> IF c \in gone THEN {} ELSE batch[c]]
      /\ channel' = [c \in Client |-> IF c \in gone THEN <<>> ELSE channel[c]]
      /\ lagged' = lagged \ gone
      /\ last' = [c \in Client |-> IF c \in gone THEN 0 ELSE last[c]]
      /\ log' = [c \in Client |-> IF c \in gone THEN <<>> ELSE log[c]]
      /\ UNCHANGED <<committed, cursor, projected, clientVars>>

PushNext ==
  \E p \in Push :
    \/ \E e \in Event, g \in Gate : Ingest(p, e, g)
    \/ PassOn(p) \/ Superseded(p)
    \/ Insert(p) \/ Duplicate(p) \/ Commit(p) \/ Project(p) \/ Publish(p)
    \/ PushFails(p)

StreamNext ==
  \E c \in Client :
    \/ Bootstrap(c) \/ \E g \in Gate : Connect(c, g)
    \/ Hello(c) \/ Replay(c) \/ ReplayFails(c)
    \/ \E e \in Stored : SendRow(c, e)
    \/ GoLive(c) \/ Receive(c) \/ LaggedOut(c) \/ Disconnect(c)

Next == PushNext \/ StreamNext \/ \E g \in Gate : Restart(g)

Spec == Init /\ [][Next]_vars

\* A push that has begun goes on.  A client that is not connected connects,
\* and its socket is served: of the sends that are tried again and again on
\* connections that break, some succeed.
Fairness ==
  /\ \A p \in Push : WF_vars(PassOn(p) \/ Superseded(p) \/ Insert(p) \/ Duplicate(p)
                             \/ Commit(p) \/ Project(p) \/ Publish(p))
  /\ \A c \in Client :
       /\ WF_vars(\E g \in Gate : Connect(c, g))
       /\ SF_vars(Hello(c)) /\ SF_vars(Replay(c))
       /\ \A e \in Stored : SF_vars(SendRow(c, e))
       /\ SF_vars(GoLive(c))
       /\ SF_vars(Receive(c)) /\ SF_vars(LaggedOut(c))

FairSpec == Spec /\ Fairness

-----------------------------------------------------------------------------
(* Correctness.                                                            *)

\* Over one connection handle_ws sends stored events in the order of their
\* cursors and none twice, although the replay and the hub overlap, pushes
\* are repeated and commit out of order, and the cache forgets.
SentInOrder ==
  \A c \in Client : \A i, j \in 1 .. Len(log[c]) :
    i < j => log[c][i] < log[c][j]

\* What a client keeps as its cursor is that of a committed event, although
\* pushes are rolled back and their events numbered again: it is never
\* refused as aged out, as no row is ever deleted.
MarkIsStored ==
  \A c \in Client :
    mark[c] > 0 => /\ \E e \in committed \cap seen[c] : row[e] = mark[c]
                   /\ ~AgedOut(c)

\* An event the hub broadcasts is served by REST already, so a client that
\* reads REST on a live event finds it there.
LiveIsProjected ==
  \A c \in Client : \A i \in 1 .. Len(channel[c]) :
    channel[c][i] \in Stored => channel[c][i] \in projected

\* The greeting of handle_ws says that a bootstrap is required when
\* "cursor_missing_or_server_rejects_resume".  A client with a cursor it was
\* not told to drop therefore knows every event up to that cursor.
ResumeIsComplete ==
  \A c \in Client : \A e \in committed :
    row[e] <= mark[c] /\ Matches(c, e) => e \in seen[c]

\* When a client that resumes misses nothing: pushes come one at a time, to one
\* process, and end with a broadcast unless the process stops, and replays do
\* not fail ...
Undisturbed ==
  /\ \A p, q \in Push : p = q
  /\ \A g, h \in Gate : g = h
  /\ Failing = {} /\ Flaky = {}

\* ... and read all the rows there are.
ReplaysAreWhole ==
  \A c \in Client : RowsAfter(mark[c]) = {e \in committed : row[e] > mark[c]}

\* A client that reconnects whenever it is disconnected learns every stored
\* event it may see at last.
EventuallySeen ==
  \A c \in Client : \A e \in Stored :
    (e \in committed /\ Matches(c, e)) ~> (e \in seen[c])

=============================================================================
