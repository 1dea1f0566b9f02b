--------------------------- MODULE UiStream_proofs ---------------------------
(***************************************************************************)
(* What UiStream promises a connection, for any numbers of events, pushes, *)
(* processes and clients, any limits and any failures.  The invariant says *)
(* what the pushes make of the database, and what the connections make of  *)
(* that; the connections only read the database, so a push matters to them *)
(* by what it does to committed rows, which is nothing (RowsStay).  The    *)
(* last part is about resuming, when nothing disturbs the pushes.          *)
(***************************************************************************)
EXTENDS UiStream, TLAPS

\* The types the arguments below need.
Types ==
  /\ row \in [Event -> Nat] /\ cursor \in Nat
  /\ committed \subseteq Stored /\ projected \subseteq Stored
  /\ pushPc \in [Push -> {"idle", "store", "commit", "project", "publish"}]
  /\ event \in [Push -> Event \cup {Nil}]
  /\ streamPc \in [Client -> {"off", "hello", "replay", "send", "live"}]
  /\ batch \in [Client -> SUBSET Event]
  /\ channel \in [Client -> Seq(Event)]
  /\ last \in [Client -> Nat] /\ mark \in [Client -> Nat]
  /\ log \in [Client -> Seq(Nat)]
  /\ seen \in [Client -> SUBSET Event]

\* A row is numbered once it is inserted, by a number of its own; an inserted
\* row is committed or the business of one push, and what is published is
\* stored and projected.
Numbered ==
  /\ \A e \in Event : row[e] <= cursor
  /\ \A e, f \in Event : row[e] = row[f] /\ row[e] > 0 => e = f
  /\ \A e \in committed : row[e] > 0
Pushes ==
  /\ \A p \in Push : pushPc[p] # "idle" => event[p] \in Event
  /\ \A p \in Push : pushPc[p] = "commit"
                      => event[p] \in Stored \ committed /\ row[event[p]] > 0
  /\ \A p, q \in Push :
       pushPc[p] = "commit" /\ pushPc[q] = "commit" /\ event[p] = event[q] => p = q
  /\ \A p \in Push : pushPc[p] = "project" => event[p] \in committed
  /\ \A p \in Push : pushPc[p] = "publish" /\ event[p] \in Stored
                       => event[p] \in committed \cap projected
Database == Numbered /\ Pushes

\* What waits to be sent is committed, in the replay after the last cursor;
\* until the replay is read the connection is where its client is.
Waiting(c) ==
  /\ batch[c] \subseteq committed
  /\ batch[c] # {} => streamPc[c] = "send"
  /\ \A e \in batch[c] : row[e] > last[c]
  /\ streamPc[c] \in {"hello", "replay"} => last[c] = mark[c]
  /\ \A i \in 1 .. Len(channel[c]) :
       channel[c][i] \in Stored => channel[c][i] \in committed \cap projected
Logged(c) ==
  /\ streamPc[c] = "off" => log[c] = <<>>
  /\ \A i \in 1 .. Len(log[c]) : log[c][i] <= last[c]
  /\ \A i, j \in 1 .. Len(log[c]) : i < j => log[c][i] < log[c][j]
Marked(c) ==
  mark[c] > 0 => \E e \in committed \cap seen[c] : row[e] = mark[c]
Connection(c) == Waiting(c) /\ Logged(c) /\ Marked(c)
Connections == \A c \in Client : Connection(c)

Inv == Types /\ Database /\ Connections

-----------------------------------------------------------------------------
(* Types.                                                                  *)

(***************************************************************************)
(* Every step of a push keeps the types.                                   *)
(***************************************************************************)
LEMMA PushTypes ==
  ASSUME Types, Pushes, PushNext
  PROVE  Types'
<1> USE StreamAssumption DEF Types
<1>1. PICK p \in Push :
        \/ \E e \in Event, g \in Gate : Ingest(p, e, g)
        \/ PassOn(p) \/ Superseded(p)
        \/ Insert(p) \/ Duplicate(p) \/ Commit(p) \/ Project(p) \/ Publish(p)
        \/ PushFails(p)
  BY DEF PushNext
<1>2. CASE \E e \in Event, g \in Gate : Ingest(p, e, g)
  BY <1>2 DEF Ingest, Step, dbVars, streamVars, clientVars
<1>3. CASE PassOn(p)
  BY <1>3 DEF PassOn, Step, dbVars, streamVars, clientVars
<1>4. CASE Superseded(p)
  BY <1>4 DEF Superseded, Finish, dbVars, streamVars, clientVars
<1>5. CASE Insert(p)
  BY <1>5 DEF Insert, Step, Stored, streamVars, clientVars
<1>6. CASE Duplicate(p)
  BY <1>6 DEF Duplicate, Step, dbVars, streamVars, clientVars
<1>7. CASE Commit(p)
  BY <1>7 DEF Commit, Step, Pushes, streamVars, clientVars
<1>8. CASE Project(p)
  BY <1>8 DEF Project, Step, Pushes, streamVars, clientVars
<1>9. CASE Publish(p)
  <2>1. event[p] \in Event
    BY <1>9 DEF Publish, Pushes
  <2>2. channel' \in [Client -> Seq(Event)]
    <3>1. CASE UNCHANGED channel
      BY <3>1
    <3>2. CASE Broadcast(event[p], gate[p])
      <4> SUFFICES ASSUME NEW c \in Client
                   PROVE  /\ Append(channel[c], event[p]) \in Seq(Event)
                          /\ Len(channel[c]) = Capacity
                             => Append(Tail(channel[c]), event[p]) \in Seq(Event)
        BY <3>2 DEF Broadcast
      <4>1. channel[c] \in Seq(Event)
        OBVIOUS
      <4> QED
        BY <2>1, <4>1
    <3> QED
      BY <1>9, <3>1, <3>2 DEF Publish
  <2>3. pushPc' \in [Push -> {"idle", "store", "commit", "project", "publish"}]
        /\ event' \in [Push -> Event \cup {Nil}]
    BY <1>9 DEF Publish, Finish
  <2>4. UNCHANGED <<row, committed, cursor, projected, streamPc, batch, last, log,
                    seen, mark>>
    BY <1>9 DEF Publish, dbVars, clientVars
  <2> QED
    BY <2>2, <2>3, <2>4
<1>10. CASE PushFails(p)
  BY <1>10, Zenon DEF PushFails, Finish, RolledBack, streamVars, clientVars
<1> QED
  BY <1>1, <1>2, <1>3, <1>4, <1>5, <1>6, <1>7, <1>8, <1>9, <1>10

(***************************************************************************)
(* Every step of a connection keeps the types.                             *)
(***************************************************************************)
LEMMA StreamTypes ==
  ASSUME Types, StreamNext
  PROVE  Types'
<1> USE StreamAssumption DEF Types
<1>1. PICK c \in Client :
        \/ Bootstrap(c) \/ \E g \in Gate : Connect(c, g)
        \/ Hello(c) \/ Replay(c) \/ ReplayFails(c)
        \/ \E e \in Stored : SendRow(c, e)
        \/ GoLive(c) \/ Receive(c) \/ LaggedOut(c) \/ Disconnect(c)
  BY DEF StreamNext
<1>2. ASSUME NEW e \in Event, Deliver(c, e)
      PROVE  /\ last' \in [Client -> Nat] /\ mark' \in [Client -> Nat]
             /\ log' \in [Client -> Seq(Nat)]
             /\ seen' \in [Client -> SUBSET Event]
  <2>1. row[e] \in Nat /\ log[c] \in Seq(Nat)
    OBVIOUS
  <2>2. Append(log[c], row[e]) \in Seq(Nat)
    BY <2>1
  <2>3. Larger(last[c], row[e]) \in Nat /\ Larger(mark[c], row[e]) \in Nat
    BY <2>1 DEF Larger
  <2>4. seen' \in [Client -> SUBSET Event]
    BY <1>2 DEF Deliver
  <2>5. CASE e \in Stored
    <3>1. log' \in [Client -> Seq(Nat)]
      BY <1>2, <2>2, <2>5, Zenon DEF Deliver
    <3>2. /\ last' = [last EXCEPT ![c] = Larger(last[c], row[e])]
          /\ mark' = [mark EXCEPT ![c] = Larger(mark[c], row[e])]
      BY <1>2, <2>5 DEF Deliver
    <3>3. last' \in [Client -> Nat]
      BY <2>3, <3>2
    <3>4. mark' \in [Client -> Nat]
      BY <2>3, <3>2
    <3> QED
      BY <2>4, <3>1, <3>3, <3>4
  <2> QED
    BY <1>2, <2>4, <2>5 DEF Deliver
<1>3. Skip => UNCHANGED <<last, log, seen, mark>>
  BY DEF Skip, clientVars
<1>4. ASSUME Close(c)
      PROVE  /\ streamPc' \in [Client -> {"off", "hello", "replay", "send", "live"}]
             /\ batch' \in [Client -> SUBSET Event]
             /\ channel' \in [Client -> Seq(Event)]
             /\ last' \in [Client -> Nat] /\ log' \in [Client -> Seq(Nat)]
  BY <1>4 DEF Close
<1>5. Reject(c) => Types'
  BY <1>4 DEF Reject, dbVars, pushVars
<1>6. CASE Bootstrap(c)
  BY <1>6 DEF Bootstrap, Stored, dbVars, pushVars, streamVars
<1>7. CASE \E g \in Gate : Connect(c, g)
  BY <1>7 DEF Connect, StreamStep, dbVars, pushVars, clientVars
<1>8. CASE Hello(c)
  BY <1>5, <1>8, Zenon DEF Hello, StreamStep, dbVars, pushVars, clientVars
<1>9. CASE Replay(c)
  <2>1. RowsAfter(mark[c]) \subseteq Event
    BY DEF RowsAfter, Stored
  <2> QED
    BY <1>9, <2>1 DEF Replay, StreamStep, dbVars, pushVars, clientVars
<1>10. CASE ReplayFails(c)
  BY <1>10 DEF ReplayFails, StreamStep, dbVars, pushVars, clientVars
<1>11. CASE \E e \in Stored : SendRow(c, e)
  <2>1. PICK e \in Stored : SendRow(c, e)
    BY <1>11
  <2>2. /\ last' \in [Client -> Nat] /\ mark' \in [Client -> Nat]
        /\ log' \in [Client -> Seq(Nat)]
        /\ seen' \in [Client -> SUBSET Event]
    BY <1>2, <1>3, <2>1, Zenon DEF SendRow, Stored
  <2> QED
    BY <2>1, <2>2, Zenon DEF SendRow, dbVars, pushVars
<1>12. CASE GoLive(c)
  BY <1>12 DEF GoLive, StreamStep, dbVars, pushVars, clientVars
<1>13. CASE Receive(c)
  <2>1. channel[c] \in Seq(Event) /\ channel[c] # <<>>
    BY <1>13 DEF Receive
  <2>2. Head(channel[c]) \in Event /\ Tail(channel[c]) \in Seq(Event)
    BY <2>1
  <2>3. /\ last' \in [Client -> Nat] /\ mark' \in [Client -> Nat]
        /\ log' \in [Client -> Seq(Nat)]
        /\ seen' \in [Client -> SUBSET Event]
    BY <1>2, <1>3, <1>13, <2>2, Zenon DEF Receive
  <2> QED
    BY <1>13, <2>2, <2>3, Zenon DEF Receive, dbVars, pushVars
<1>14. CASE LaggedOut(c)
  BY <1>5, <1>14, Zenon DEF LaggedOut
<1>15. CASE Disconnect(c)
  BY <1>4, <1>15 DEF Disconnect, dbVars, pushVars, clientVars
<1> QED
  BY <1>1, <1>6, <1>7, <1>8, <1>9, <1>10, <1>11, <1>12, <1>13, <1>14, <1>15, Zenon

(***************************************************************************)
(* The types hold in every step.                                           *)
(***************************************************************************)
LEMMA KeepsTypes ==
  ASSUME Types, Pushes, [Next]_vars
  PROVE  Types'
<1>1. CASE PushNext
  BY <1>1, PushTypes
<1>2. CASE StreamNext
  BY <1>2, StreamTypes
<1>3. CASE \E g \in Gate : Restart(g)
  BY <1>3 DEF Restart, Types, clientVars
<1>4. CASE UNCHANGED vars
  BY <1>4 DEF Types, vars, dbVars, pushVars, streamVars, clientVars
<1> QED
  BY <1>1, <1>2, <1>3, <1>4 DEF Next

-----------------------------------------------------------------------------
(* The database.                                                           *)

(***************************************************************************)
(* A step that leaves the rows and the pushes alone keeps what is said of  *)
(* them: every step of a connection does.                                  *)
(***************************************************************************)
LEMMA StreamKeepsDatabase ==
  ASSUME Database, StreamNext \/ UNCHANGED vars
  PROVE  Database' /\ UNCHANGED dbVars
<1>1. UNCHANGED <<dbVars, pushVars>>
  BY Zenon DEF StreamNext, Bootstrap, Connect, Hello, Reject, Replay, ReplayFails,
     SendRow, GoLive, Receive, LaggedOut, Disconnect, vars
<1> QED
  BY <1>1 DEF Database, Numbered, Pushes, dbVars, pushVars

(***************************************************************************)
(* Committed rows keep their numbers and are not lost, and what REST serves*)
(* it goes on serving.                                                     *)
(***************************************************************************)
RowsStay ==
  /\ committed \subseteq committed' /\ projected \subseteq projected'
  /\ \A e \in committed : row'[e] = row[e]

(***************************************************************************)
(* A step that changes no row keeps the numbering, if it commits only rows *)
(* that are numbered.                                                      *)
(***************************************************************************)
LEMMA SameRowsNumbered ==
  ASSUME Types, Numbered, UNCHANGED <<row, cursor>>,
         \A e \in committed' : e \in committed \/ row[e] > 0
  PROVE  Numbered'
BY DEF Numbered, Types

(***************************************************************************)
(* A push may number the row of an event no other push has inserted, and a *)
(* failing one takes back only a row that is not committed.                *)
(***************************************************************************)
LEMMA PushKeepsDatabase ==
  ASSUME Types, Database, PushNext
  PROVE  Database' /\ RowsStay
<1> USE StreamAssumption DEF Types, Database
<1>1. PICK p \in Push :
        \/ \E e \in Event, g \in Gate : Ingest(p, e, g)
        \/ PassOn(p) \/ Superseded(p)
        \/ Insert(p) \/ Duplicate(p) \/ Commit(p) \/ Project(p) \/ Publish(p)
        \/ PushFails(p)
  BY DEF PushNext
<1>2. CASE \E e \in Event, g \in Gate : Ingest(p, e, g)
  <2>1. Numbered' /\ RowsStay
    BY <1>2, SameRowsNumbered DEF Ingest, dbVars, RowsStay
  <2>2. Pushes'
    BY <1>2 DEF Ingest, Step, dbVars, Pushes
  <2> QED
    BY <2>1, <2>2
<1>3. CASE PassOn(p)
  <2>1. Numbered' /\ RowsStay
    BY <1>3, SameRowsNumbered DEF PassOn, dbVars, RowsStay
  <2>2. Pushes'
    BY <1>3 DEF PassOn, Step, dbVars, Pushes, Stored
  <2> QED
    BY <2>1, <2>2
<1>4. CASE Superseded(p)
  <2>1. Numbered' /\ RowsStay
    BY <1>4, SameRowsNumbered DEF Superseded, dbVars, RowsStay
  <2>2. Pushes'
    BY <1>4 DEF Superseded, Finish, dbVars, Pushes
  <2> QED
    BY <2>1, <2>2
<1>5. CASE Insert(p)
  <2>1. event[p] \in Event \ committed
    BY <1>5 DEF Insert, Stored
  <2>2. row' = [row EXCEPT ![event[p]] = cursor + 1] /\ cursor' = cursor + 1
        /\ UNCHANGED <<committed, projected>>
    BY <1>5 DEF Insert
  <2>3. Numbered'
    BY <2>1, <2>2 DEF Numbered
  <2>4. RowsStay
    BY <2>1, <2>2 DEF RowsStay
  <2>5. Pushes'
    BY <1>5, <2>1 DEF Insert, Step, Pushes, Blocked
  <2> QED
    BY <2>3, <2>4, <2>5
<1>6. CASE Duplicate(p)
  <2>1. Numbered' /\ RowsStay
    BY <1>6, SameRowsNumbered DEF Duplicate, dbVars, RowsStay
  <2>2. Pushes'
    BY <1>6 DEF Duplicate, Step, dbVars, Pushes
  <2> QED
    BY <2>1, <2>2
<1>7. CASE Commit(p)
  <2>1. Numbered' /\ RowsStay
    BY <1>7, SameRowsNumbered DEF Commit, Step, Pushes, RowsStay
  <2>2. Pushes'
    BY <1>7 DEF Commit, Step, Pushes
  <2> QED
    BY <2>1, <2>2
<1>8. CASE Project(p)
  <2>1. Numbered' /\ RowsStay
    BY <1>8, SameRowsNumbered DEF Project, RowsStay
  <2>2. Pushes'
    BY <1>8 DEF Project, Step, Pushes
  <2> QED
    BY <2>1, <2>2
<1>9. CASE Publish(p)
  <2>1. Numbered' /\ RowsStay
    BY <1>9, SameRowsNumbered, Zenon DEF Publish, dbVars, RowsStay
  <2>2. Pushes'
    BY <1>9 DEF Publish, Finish, dbVars, Pushes
  <2> QED
    BY <2>1, <2>2
<1>10. CASE PushFails(p)
  <2>1. CASE pushPc[p] = "commit"
    <3>1. event[p] \in Event \ committed
      BY <2>1 DEF Pushes, Stored
    <3>2. row' = [row EXCEPT ![event[p]] = 0]
          /\ UNCHANGED <<committed, cursor, projected>>
      BY <1>10, <2>1 DEF PushFails, RolledBack
    <3>3. Numbered' /\ RowsStay
      BY <3>1, <3>2 DEF Numbered, RowsStay
    <3>4. Pushes'
      BY <1>10, <2>1, <3>1, <3>2 DEF PushFails, Finish, Pushes
    <3> QED
      BY <3>3, <3>4
  <2>2. CASE pushPc[p] # "commit"
    <3>1. UNCHANGED <<row, committed, cursor, projected>>
      BY <1>10, <2>2 DEF PushFails, RolledBack
    <3>2. Numbered' /\ RowsStay
      BY <3>1, SameRowsNumbered DEF RowsStay
    <3>3. Pushes'
      BY <1>10, <3>1 DEF PushFails, Finish, Pushes
    <3> QED
      BY <3>2, <3>3
  <2> QED
    BY <2>1, <2>2
<1> QED
  BY <1>1, <1>2, <1>3, <1>4, <1>5, <1>6, <1>7, <1>8, <1>9, <1>10

(***************************************************************************)
(* A restart rolls back the rows its pushes had not committed.             *)
(***************************************************************************)
LEMMA RestartKeepsDatabase ==
  ASSUME Types, Database, NEW g \in Gate, Restart(g)
  PROVE  Database' /\ RowsStay
<1> DEFINE mine == {p \in Push : gate[p] = g}
<1> USE DEF Database
<1>1. /\ row' = [e \in Event |->
                   IF \E p \in mine : pushPc[p] = "commit" /\ event[p] = e
                   THEN 0 ELSE row[e]]
      /\ pushPc' = [p \in Push |-> IF p \in mine THEN "idle" ELSE pushPc[p]]
      /\ event' = [p \in Push |-> IF p \in mine THEN Nil ELSE event[p]]
      /\ UNCHANGED <<committed, cursor, projected>>
  BY DEF Restart
<1>2. \A e \in committed : e \in Event /\ row'[e] = row[e]
  BY <1>1 DEF Pushes, Types, Stored
<1>3. \A e \in Event : row'[e] \in {0, row[e]}
  BY <1>1
<1>4. RowsStay
  BY <1>1, <1>2 DEF RowsStay
<1>5. Numbered'
  <2>1. \A e \in Event : row[e] \in Nat /\ row[e] <= cursor
    BY DEF Numbered, Types
  <2>2. \A e \in Event : row'[e] <= cursor'
    BY <1>1, <1>3, <2>1, cursor \in Nat DEF Types
  <2>3. \A e, f \in Event : row'[e] = row'[f] /\ row'[e] > 0 => e = f
    BY <1>3, <2>1 DEF Numbered
  <2>4. \A e \in committed' : row'[e] > 0
    BY <1>1, <1>2 DEF Numbered
  <2> QED
    BY <2>2, <2>3, <2>4 DEF Numbered
<1>6. \A p \in Push : pushPc'[p] # "idle"
                      => p \notin mine /\ pushPc'[p] = pushPc[p] /\ event'[p] = event[p]
  BY <1>1
<1>7. \A p \in Push : pushPc'[p] = "commit" => row'[event[p]] = row[event[p]]
  BY <1>1, <1>6 DEF Pushes
<1>8. Pushes'
  BY <1>1, <1>6, <1>7, SMTT(30) DEF Pushes
<1> QED
  BY <1>4, <1>5, <1>8

-----------------------------------------------------------------------------
(* The connections.                                                        *)

\* A step leaves a connection and its client as they are.
Untouched(c) ==
  /\ streamPc'[c] = streamPc[c] /\ batch'[c] = batch[c] /\ channel'[c] = channel[c]
  /\ last'[c] = last[c] /\ log'[c] = log[c]
  /\ seen'[c] = seen[c] /\ mark'[c] = mark[c]

(***************************************************************************)
(* A connection a step leaves alone stays well: the rows it relies on stay.*)
(***************************************************************************)
LEMMA UntouchedIsKept ==
  ASSUME NEW c \in Client, Connection(c), RowsStay, Untouched(c)
  PROVE  Connection(c)'
<1> USE DEF Connection, RowsStay, Untouched
<1>1. Waiting(c)'
  BY Zenon DEF Waiting
<1>2. Logged(c)'
  BY Zenon DEF Logged
<1>3. Marked(c)'
  BY DEF Marked
<1> QED
  BY <1>1, <1>2, <1>3

(***************************************************************************)
(* A closed connection has nothing to send.  Its client keeps its mark or  *)
(* drops it.                                                               *)
(***************************************************************************)
LEMMA ClosedIsKept ==
  ASSUME Types, NEW c \in Client, Connection(c), UNCHANGED <<row, committed>>,
         Close(c), seen'[c] = seen[c], mark'[c] \in {0, mark[c]}
  PROVE  Connection(c)'
<1> USE DEF Connection
<1>1. /\ streamPc'[c] = "off" /\ batch'[c] = {} /\ channel'[c] = <<>>
      /\ last'[c] = 0 /\ log'[c] = <<>>
  BY SMTT(30) DEF Close, Types
<1>2. Waiting(c)'
  BY <1>1, SMTT(30) DEF Waiting
<1>3. Logged(c)'
  BY <1>1 DEF Logged
<1>4. Marked(c)'
  BY DEF Marked
<1> QED
  BY <1>2, <1>3, <1>4

(***************************************************************************)
(* What is sent is committed and after all that was sent before: it goes to*)
(* the end of the log and becomes the last cursor, and the client's mark   *)
(* stays that of a committed event it has seen.                            *)
(***************************************************************************)
LEMMA DeliverIsKept ==
  ASSUME Types, NEW c \in Client, Logged(c), Marked(c), UNCHANGED <<row, committed>>,
         streamPc'[c] # "off",
         NEW e \in Event, Deliver(c, e),
         e \in Stored => e \in committed /\ row[e] > last[c]
  PROVE  /\ Logged(c)' /\ Marked(c)'
         /\ last'[c] = IF e \in Stored THEN row[e] ELSE last[c]
<1>1. /\ row[e] \in Nat /\ last[c] \in Nat /\ mark[c] \in Nat
      /\ log[c] \in Seq(Nat) /\ seen[c] \in SUBSET Event
  BY DEF Types
<1>2. seen'[c] = seen[c] \cup {e}
  BY Zenon DEF Deliver, Types
<1>3. CASE e \in Stored
  <2>1. /\ last' = [last EXCEPT ![c] = Larger(last[c], row[e])]
        /\ log' = [log EXCEPT ![c] = Append(log[c], row[e])]
        /\ mark' = [mark EXCEPT ![c] = Larger(mark[c], row[e])]
    BY <1>3 DEF Deliver
  <2>2. last'[c] = row[e]
    BY <1>1, <1>3, <2>1 DEF Larger, Types
  <2>3. log'[c] = Append(log[c], row[e])
    BY <2>1 DEF Types
  <2>4. mark'[c] \in {mark[c], row[e]}
    BY <2>1 DEF Larger, Types
  <2>5. Logged(c)'
    <3>1. /\ Len(log'[c]) = Len(log[c]) + 1 /\ Len(log[c]) \in Nat
          /\ \A i \in 1 .. Len(log[c]) : log'[c][i] = log[c][i] /\ log[c][i] \in Nat
          /\ log'[c][Len(log[c]) + 1] = row[e]
      BY <1>1, <2>3
    <3>2. \A i \in 1 .. Len(log[c]) : log[c][i] < row[e]
      BY <1>1, <1>3, <3>1, SMTT(30) DEF Logged
    <3>3. \A i \in 1 .. Len(log'[c]) :
            i \in 1 .. Len(log[c]) \/ i = Len(log[c]) + 1
      BY <3>1
    <3>4. ASSUME NEW i \in 1 .. Len(log'[c]) PROVE log'[c][i] <= last'[c]
      <4>1. CASE i \in 1 .. Len(log[c])
        BY <1>1, <2>2, <3>1, <3>2, <4>1, SMTT(30)
      <4>2. CASE i = Len(log[c]) + 1
        BY <1>1, <2>2, <3>1, <4>2
      <4> QED
        BY <3>3, <4>1, <4>2
    <3>5. \A i, j \in 1 .. Len(log'[c]) : i < j => i \in 1 .. Len(log[c])
      BY <3>1
    <3>6. \A i, j \in 1 .. Len(log'[c]) : i < j => log'[c][i] < log'[c][j]
      BY <3>1, <3>2, <3>3, <3>5, Zenon DEF Logged
    <3> QED
      BY <3>4, <3>6 DEF Logged
  <2>6. Marked(c)'
    BY <1>2, <1>3, <2>4 DEF Marked
  <2> QED
    BY <1>3, <2>2, <2>5, <2>6
<1>4. CASE e \notin Stored
  <2>1. UNCHANGED <<last, log, mark>>
    BY <1>4, Zenon DEF Deliver
  <2>2. Logged(c)'
    BY <2>1, Zenon DEF Logged
  <2>3. Marked(c)'
    BY <1>2, <2>1 DEF Marked
  <2> QED
    BY <1>4, <2>1, <2>2, <2>3
<1> QED
  BY <1>3, <1>4

(***************************************************************************)
(* A push touches a connection only by a broadcast, of a stored event that *)
(* is committed and projected.                                             *)
(***************************************************************************)
LEMMA PushKeepsConnections ==
  ASSUME Types, Database, Connections, PushNext
  PROVE  Connections'
<1>1. RowsStay
  BY PushKeepsDatabase
<1> SUFFICES ASSUME NEW c \in Client PROVE Connection(c)'
  BY DEF Connections
<1>2. Connection(c)
  BY DEF Connections
<1>3. PICK p \in Push :
        \/ \E e \in Event, g \in Gate : Ingest(p, e, g)
        \/ PassOn(p) \/ Superseded(p)
        \/ Insert(p) \/ Duplicate(p) \/ Commit(p) \/ Project(p) \/ Publish(p)
        \/ PushFails(p)
  BY DEF PushNext
<1>4. CASE UNCHANGED <<streamVars, clientVars>>
  <2>1. Untouched(c)
    BY <1>4 DEF Untouched, streamVars, clientVars
  <2> QED
    BY <1>1, <1>2, <2>1, UntouchedIsKept
<1>5. CASE Publish(p)
  <2>1. UNCHANGED <<row, committed, projected, streamPc, batch, last, log, seen, mark>>
    BY <1>5, Zenon DEF Publish, dbVars, clientVars
  <2>2. event[p] \in Event
        /\ (event[p] \in Stored => event[p] \in committed \cap projected)
    BY <1>5, Zenon DEF Publish, Database, Pushes
  <2>3. channel[c] \in Seq(Event)
    BY DEF Types
  <2>4. \/ channel'[c] = channel[c]
        \/ channel'[c] = Append(channel[c], event[p])
        \/ Len(channel[c]) = Capacity /\ channel'[c] = Append(Tail(channel[c]), event[p])
    BY <1>5, Zenon DEF Publish, Broadcast
  <2>5. \A i \in 1 .. Len(channel'[c]) :
          \/ channel'[c][i] = event[p]
          \/ \E j \in 1 .. Len(channel[c]) : channel'[c][i] = channel[c][j]
    <3>1. CASE channel'[c] = channel[c]
      BY <3>1, Zenon
    <3>2. CASE channel'[c] = Append(channel[c], event[p])
      BY <2>2, <2>3, <3>2
    <3>3. CASE /\ Len(channel[c]) = Capacity
               /\ channel'[c] = Append(Tail(channel[c]), event[p])
      <4>1. Len(channel[c]) \in Nat \ {0}
        BY <2>3, <3>3, StreamAssumption
      <4>2. /\ Tail(channel[c]) \in Seq(Event)
            /\ Len(Tail(channel[c])) = Len(channel[c]) - 1
            /\ \A i \in 1 .. Len(channel[c]) - 1 :
                 Tail(channel[c])[i] = channel[c][i + 1]
        BY <2>3, <4>1
      <4>3. /\ Len(channel'[c]) = Len(channel[c])
            /\ channel'[c][Len(channel[c])] = event[p]
            /\ \A i \in 1 .. Len(channel[c]) - 1 : channel'[c][i] = channel[c][i + 1]
        BY <2>2, <3>3, <4>1, <4>2
      <4>4. \A i \in 1 .. Len(channel[c]) :
              i = Len(channel[c]) \/ (i \in 1 .. Len(channel[c]) - 1
                                      /\ i + 1 \in 1 .. Len(channel[c]))
        BY <4>1
      <4> QED
        BY <4>3, <4>4, Zenon
    <3> QED
      BY <2>4, <3>1, <3>2, <3>3, Zenon
  <2>6. Waiting(c)'
    BY <1>2, <2>1, <2>2, <2>5, Zenon DEF Waiting, Connection
  <2>7. Logged(c)' /\ Marked(c)'
    BY <1>2, <2>1, Zenon DEF Logged, Marked, Connection
  <2> QED
    BY <2>6, <2>7 DEF Connection
<1> QED
  BY <1>3, <1>4, <1>5 DEF Ingest, PassOn, Superseded, Insert, Duplicate, Commit,
     Project, PushFails

(***************************************************************************)
(* A step of a client or of handle_ws touches the connection of that client*)
(* alone.                                                                  *)
(***************************************************************************)
LEMMA OthersUntouched ==
  ASSUME Types, NEW c \in Client, NEW d \in Client \ {c},
         \/ Bootstrap(c) \/ \E g \in Gate : Connect(c, g)
         \/ Hello(c) \/ Replay(c) \/ ReplayFails(c)
         \/ \E e \in Stored : SendRow(c, e)
         \/ GoLive(c) \/ Receive(c) \/ LaggedOut(c) \/ Disconnect(c)
  PROVE  Untouched(d)
<1> USE DEF Types, Untouched
<1>1. Close(c) => /\ streamPc'[d] = streamPc[d] /\ batch'[d] = batch[d]
                  /\ channel'[d] = channel[d] /\ last'[d] = last[d]
                  /\ log'[d] = log[d]
  BY Zenon DEF Close
<1>2. Reject(c) => Untouched(d)
  BY <1>1, Zenon DEF Reject
<1>3. ASSUME NEW e, Deliver(c, e) \/ Skip
      PROVE  /\ last'[d] = last[d] /\ log'[d] = log[d]
             /\ seen'[d] = seen[d] /\ mark'[d] = mark[d]
  BY <1>3 DEF Deliver, Skip, clientVars
<1>4. CASE Bootstrap(c)
  BY <1>4 DEF Bootstrap, streamVars
<1>5. CASE \E g \in Gate : Connect(c, g)
  BY <1>5, Zenon DEF Connect, StreamStep, clientVars
<1>6. CASE Hello(c)
  BY <1>2, <1>6 DEF Hello, StreamStep, clientVars
<1>7. CASE Replay(c)
  BY <1>7 DEF Replay, StreamStep, clientVars
<1>8. CASE ReplayFails(c)
  BY <1>8, Zenon DEF ReplayFails, StreamStep, clientVars
<1>9. CASE \E e \in Stored : SendRow(c, e)
  BY <1>3, <1>9, Zenon DEF SendRow
<1>10. CASE GoLive(c)
  BY <1>10, Zenon DEF GoLive, StreamStep, clientVars
<1>11. CASE Receive(c)
  BY <1>3, <1>11, Zenon DEF Receive
<1>12. CASE LaggedOut(c)
  BY <1>2, <1>12, Zenon DEF LaggedOut
<1>13. CASE Disconnect(c)
  BY <1>1, <1>13, Zenon DEF Disconnect, clientVars
<1> QED
  BY <1>4, <1>5, <1>6, <1>7, <1>8, <1>9, <1>10, <1>11, <1>12, <1>13, Zenon

(***************************************************************************)
(* The log of a connection that has sent nothing has no entry.             *)
(***************************************************************************)
LEMMA NoEntries == 1 .. Len(<<>>) = {}
OBVIOUS

(***************************************************************************)
(* What Receive takes from the broadcast channel is its first event, and   *)
(* the others move up.                                                     *)
(***************************************************************************)
LEMMA TakesFirst ==
  ASSUME NEW S, NEW q \in Seq(S), q # <<>>
  PROVE  /\ Head(q) = q[1] /\ Head(q) \in S /\ 1 \in 1 .. Len(q)
         /\ \A i \in 1 .. Len(Tail(q)) : i + 1 \in 1 .. Len(q) /\ Tail(q)[i] = q[i + 1]
OBVIOUS

(***************************************************************************)
(* The rows that remain after the least of a replay are after it: no two   *)
(* committed events share a row.                                           *)
(***************************************************************************)
LEMMA OthersAreAfter ==
  ASSUME Types, Numbered, NEW B, NEW e \in B,
         \A f \in B : f \in committed /\ f \in Event,
         \A f \in B : row[e] <= row[f]
  PROVE  \A f \in B \ {e} : row[f] > row[e]
<1> SUFFICES ASSUME NEW f \in B \ {e} PROVE row[f] > row[e]
  OBVIOUS
<1>1. row[e] > 0 /\ row[f] # row[e]
  BY Zenon DEF Numbered
<1>2. row[e] \in Nat /\ row[f] \in Nat
  BY DEF Types
<1> QED
  BY <1>1, <1>2

(***************************************************************************)
(* A stored event that is not stale is after the last cursor.              *)
(***************************************************************************)
LEMMA FreshIsAfter ==
  ASSUME Types, NEW c \in Client, NEW e \in Event, ~Stale(c, e), e \in Stored
  PROVE  row[e] > last[c]
<1>1. row[e] \in Nat /\ last[c] \in Nat
  BY DEF Types
<1> QED
  BY <1>1 DEF Stale

(***************************************************************************)
(* The connection a step is about stays well.  A row of the replay is the  *)
(* least that waits, so it is after the last cursor and the others are     *)
(* after it, for no two committed rows share a number; a live event is     *)
(* compared with the last cursor.                                          *)
(***************************************************************************)
LEMMA StreamKeepsItsConnection ==
  ASSUME Types, Numbered, NEW c \in Client, Connection(c),
         UNCHANGED <<row, committed, projected>>,
         \/ Bootstrap(c) \/ \E g \in Gate : Connect(c, g)
         \/ Hello(c) \/ Replay(c) \/ ReplayFails(c)
         \/ \E e \in Stored : SendRow(c, e)
         \/ GoLive(c) \/ Receive(c) \/ LaggedOut(c) \/ Disconnect(c)
  PROVE  Connection(c)'
<1> USE DEF Connection
<1>1. Reject(c) => Connection(c)'
  BY ClosedIsKept, Zenon DEF Reject, Types
<1>2. CASE Bootstrap(c)
  <2>1. UNCHANGED <<streamPc, batch, channel, last, log, mark>>
        /\ seen[c] \subseteq seen'[c]
    BY <1>2, Zenon DEF Bootstrap, streamVars, Types
  <2>2. Waiting(c)'
    BY <2>1, Zenon DEF Waiting
  <2>3. Logged(c)' /\ Marked(c)'
    BY <2>1, Zenon DEF Logged, Marked
  <2> QED
    BY <2>2, <2>3, Zenon
<1>3. CASE \E g \in Gate : Connect(c, g)
  <2>1. /\ UNCHANGED <<batch, channel, log, mark, seen>>
        /\ streamPc'[c] = "hello" /\ last'[c] = mark[c] /\ streamPc[c] = "off"
    BY <1>3, Zenon DEF Connect, StreamStep, clientVars, Types
  <2>2. Waiting(c)'
    BY <2>1, Zenon DEF Waiting
  <2>3. Logged(c)' /\ Marked(c)'
    <3>1. log'[c] = <<>>
      BY <2>1, Zenon DEF Logged
    <3>2. Logged(c)'
      BY <2>1, <3>1, NoEntries, Zenon DEF Logged
    <3> QED
      BY <2>1, <3>2, Zenon DEF Marked
  <2> QED
    BY <2>2, <2>3, Zenon
<1>4. CASE Hello(c)
  <2>1. CASE Reject(c)
    BY <1>1, <2>1, Zenon
  <2>2. CASE ~AgedOut(c)
    <3>1. /\ UNCHANGED <<batch, channel, last, log, mark, seen>>
          /\ streamPc'[c] = "replay" /\ streamPc[c] = "hello"
      BY <1>4, <2>2, Zenon DEF Hello, StreamStep, clientVars, Types
    <3>2. Waiting(c)'
      BY <3>1, Zenon DEF Waiting
    <3>3. Logged(c)' /\ Marked(c)'
      BY <3>1, Zenon DEF Logged, Marked
    <3> QED
      BY <3>2, <3>3, Zenon
  <2> QED
    BY <1>4, <2>1, <2>2, Zenon DEF Hello
<1>5. CASE Replay(c)
  <2>1. /\ UNCHANGED <<channel, last, log, mark, seen>>
        /\ streamPc'[c] = "send" /\ streamPc[c] = "replay"
        /\ batch'[c] = RowsAfter(mark[c])
    BY <1>5, Zenon DEF Replay, StreamStep, clientVars, Types
  <2>2. \A e \in RowsAfter(mark[c]) : e \in committed /\ row[e] > mark[c]
    BY Zenon DEF RowsAfter
  <2>3. Waiting(c)'
    BY <2>1, <2>2, Zenon DEF Waiting
  <2>4. Logged(c)' /\ Marked(c)'
    BY <2>1, Zenon DEF Logged, Marked
  <2> QED
    BY <2>3, <2>4, Zenon
<1>6. CASE ReplayFails(c)
  <2>1. /\ UNCHANGED <<batch, channel, last, log, mark, seen>>
        /\ streamPc'[c] = "live" /\ streamPc[c] = "replay"
    BY <1>6, Zenon DEF ReplayFails, StreamStep, clientVars, Types
  <2>2. Waiting(c)'
    BY <2>1, Zenon DEF Waiting
  <2>3. Logged(c)' /\ Marked(c)'
    BY <2>1, Zenon DEF Logged, Marked
  <2> QED
    BY <2>2, <2>3, Zenon
<1>7. CASE \E e \in Stored : SendRow(c, e)
  <2>1. PICK e \in Stored : SendRow(c, e)
    BY <1>7, Zenon
  <2>2. /\ UNCHANGED <<channel, streamPc>> /\ streamPc[c] = "send"
        /\ batch'[c] = batch[c] \ {e} /\ e \in batch[c]
        /\ \A f \in batch[c] : row[e] <= row[f]
    BY <2>1, Zenon DEF SendRow, Types
  <2>3. /\ e \in committed /\ e \in Event /\ row[e] > last[c]
        /\ \A f \in batch[c] : f \in committed /\ f \in Event
    BY <2>2, Zenon DEF Waiting, Types, Stored
  <2>4. \A f \in batch'[c] : row[f] > row[e]
    BY <2>2, <2>3, OthersAreAfter, Zenon
  <2>5. last'[c] \in {last[c], row[e]} /\ Logged(c)' /\ Marked(c)'
    <3>1. CASE Deliver(c, e)
      BY <2>2, <2>3, <3>1, DeliverIsKept, Zenon
    <3>2. CASE Skip
      BY <2>2, <3>2, Zenon DEF Skip, clientVars, Logged, Marked
    <3> QED
      BY <2>1, <3>1, <3>2, Zenon DEF SendRow
  <2>6. Waiting(c)'
    BY <2>2, <2>3, <2>4, <2>5, Zenon DEF Waiting
  <2> QED
    BY <2>5, <2>6, Zenon
<1>8. CASE GoLive(c)
  <2>1. /\ UNCHANGED <<batch, channel, last, log, mark, seen>>
        /\ streamPc'[c] = "live" /\ batch[c] = {}
    BY <1>8, Zenon DEF GoLive, StreamStep, clientVars, Types
  <2>2. Waiting(c)'
    BY <2>1, Zenon DEF Waiting
  <2>3. Logged(c)' /\ Marked(c)'
    BY <2>1, Zenon DEF Logged, Marked
  <2> QED
    BY <2>2, <2>3, Zenon
<1>9. CASE Receive(c)
  <2> DEFINE e == Head(channel[c])
  <2>1. /\ UNCHANGED <<batch, streamPc>> /\ streamPc[c] = "live"
        /\ channel'[c] = Tail(channel[c])
        /\ channel[c] \in Seq(Event) /\ channel[c] # <<>>
    BY <1>9, Zenon DEF Receive, Types
  <2>2. /\ e = channel[c][1] /\ e \in Event /\ 1 \in 1 .. Len(channel[c])
        /\ \A i \in 1 .. Len(channel'[c]) :
             i + 1 \in 1 .. Len(channel[c]) /\ channel'[c][i] = channel[c][i + 1]
    BY <2>1, TakesFirst, Zenon
  <2>3. e \in Stored => e \in committed
    BY <2>2, Zenon DEF Waiting
  <2> HIDE DEF e
  <2>4. Logged(c)' /\ Marked(c)'
    <3>1. CASE Deliver(c, e) /\ ~Stale(c, e)
      <4>1. e \in Stored => row[e] > last[c]
        BY <2>2, <3>1, FreshIsAfter, Zenon
      <4> QED
        BY <2>1, <2>2, <2>3, <3>1, <4>1, DeliverIsKept, Zenon
    <3>2. CASE Skip
      BY <2>1, <3>2, Zenon DEF Skip, clientVars, Logged, Marked
    <3> QED
      BY <1>9, <3>1, <3>2, Zenon DEF Receive, e
  <2>5. \A i \in 1 .. Len(channel'[c]) :
          channel'[c][i] \in Stored => channel'[c][i] \in committed \cap projected
    BY <2>2, Zenon DEF Waiting
  <2>6. Waiting(c)'
    BY <2>1, <2>5, Zenon DEF Waiting
  <2> QED
    BY <2>4, <2>6, Zenon
<1>10. CASE LaggedOut(c)
  BY <1>1, <1>10, Zenon DEF LaggedOut
<1>11. CASE Disconnect(c)
  BY <1>11, ClosedIsKept, Zenon DEF Disconnect, clientVars
<1> QED
  BY <1>2, <1>3, <1>4, <1>5, <1>6, <1>7, <1>8, <1>9, <1>10, <1>11, Zenon

(***************************************************************************)
(* A restart closes the connections of its process and touches no other.   *)
(***************************************************************************)
LEMMA RestartKeepsConnections ==
  ASSUME Types, Database, Connections, NEW g \in Gate, Restart(g)
  PROVE  Connections'
<1>1. RowsStay
  BY RestartKeepsDatabase, Zenon
<1> SUFFICES ASSUME NEW c \in Client PROVE Connection(c)'
  BY Zenon DEF Connections
<1>2. Connection(c)
  BY Zenon DEF Connections
<1>3. UNCHANGED <<committed, projected, seen, mark>>
  BY Zenon DEF Restart, clientVars
<1>4. CASE Subscribed(c, g)
  <2>1. /\ streamPc'[c] = "off" /\ batch'[c] = {} /\ channel'[c] = <<>>
        /\ last'[c] = 0 /\ log'[c] = <<>>
    BY <1>4, Zenon DEF Restart
  <2>2. Waiting(c)'
    BY <2>1, SMTT(30) DEF Waiting
  <2>3. Logged(c)'
    BY <2>1 DEF Logged
  <2>4. Marked(c)'
    BY <1>1, <1>2, <1>3, Zenon DEF Marked, Connection, RowsStay
  <2> QED
    BY <2>2, <2>3, <2>4, Zenon DEF Connection
<1>5. CASE ~Subscribed(c, g)
  <2>1. Untouched(c)
    BY <1>3, <1>5, Zenon DEF Restart, Untouched
  <2> QED
    BY <1>1, <1>2, <2>1, UntouchedIsKept, Zenon
<1> QED
  BY <1>4, <1>5, Zenon

-----------------------------------------------------------------------------
(* The invariant and what follows from it.                                 *)

(***************************************************************************)
(* The invariant holds at first and in every step.                         *)
(***************************************************************************)
THEOREM StreamInvariant == Spec => []Inv
<1>1. Init => Inv
  <2> SUFFICES ASSUME Init PROVE Inv
    BY Zenon
  <2>1. Types
    BY DEF Init, Types
  <2>2. Database
    BY DEF Init, Database, Numbered, Pushes
  <2>3. ASSUME NEW c \in Client PROVE Connection(c)
    <3>1. Waiting(c)
      BY DEF Init, Waiting
    <3>2. Logged(c)
      BY DEF Init, Logged
    <3>3. Marked(c)
      BY DEF Init, Marked
    <3> QED
      BY <3>1, <3>2, <3>3, Zenon DEF Connection
  <2> QED
    BY <2>1, <2>2, <2>3, Zenon DEF Inv, Connections
<1>2. Inv /\ [Next]_vars => Inv'
  <2> SUFFICES ASSUME Types, Database, Connections, [Next]_vars
               PROVE  Database' /\ Connections'
    BY KeepsTypes, Zenon DEF Inv, Database
  <2>1. CASE PushNext
    BY <2>1, PushKeepsDatabase, PushKeepsConnections, Zenon
  <2>2. CASE StreamNext
    <3>1. Database' /\ UNCHANGED <<row, committed, projected>>
      BY <2>2, StreamKeepsDatabase, Zenon DEF dbVars
    <3>2. PICK c \in Client :
            \/ Bootstrap(c) \/ \E g \in Gate : Connect(c, g)
            \/ Hello(c) \/ Replay(c) \/ ReplayFails(c)
            \/ \E e \in Stored : SendRow(c, e)
            \/ GoLive(c) \/ Receive(c) \/ LaggedOut(c) \/ Disconnect(c)
      BY <2>2, Zenon DEF StreamNext
    <3>3. Connection(c)'
      BY <3>1, <3>2, StreamKeepsItsConnection, Zenon DEF Connections, Database
    <3>4. ASSUME NEW d \in Client \ {c} PROVE Connection(d)'
      <4>1. Untouched(d)
        BY <3>2, OthersUntouched, Zenon
      <4>2. RowsStay
        BY <3>1, Zenon DEF RowsStay
      <4> QED
        BY <4>1, <4>2, UntouchedIsKept, Zenon DEF Connections
    <3> QED
      BY <3>1, <3>3, <3>4, Zenon DEF Connections
  <2>3. CASE \E g \in Gate : Restart(g)
    BY <2>3, RestartKeepsDatabase, RestartKeepsConnections, Zenon
  <2>4. CASE UNCHANGED vars
    <3>1. Database' /\ RowsStay
      BY <2>4, StreamKeepsDatabase, Zenon DEF dbVars, RowsStay
    <3>2. \A c \in Client : Untouched(c)
      BY <2>4, Zenon DEF vars, streamVars, clientVars, Untouched
    <3> QED
      BY <3>1, <3>2, UntouchedIsKept, Zenon DEF Connections
  <2> QED
    BY <2>1, <2>2, <2>3, <2>4, Zenon DEF Next
<1> QED
  BY <1>1, <1>2, PTL DEF Spec

(***************************************************************************)
(* Over one connection handle_ws sends stored events in the order of their *)
(* cursors, and none twice.                                                *)
(***************************************************************************)
THEOREM OrderHolds == Spec => []SentInOrder
<1>1. Inv => SentInOrder
  BY Zenon DEF Inv, Connections, Connection, Logged, SentInOrder
<1> QED
  BY <1>1, StreamInvariant, PTL

(***************************************************************************)
(* The cursor a client resumes from is that of a committed event it has    *)
(* seen, so resume_rejection_reason never calls it aged out.               *)
(***************************************************************************)
THEOREM MarkHolds == Spec => []MarkIsStored
<1>1. Inv => MarkIsStored
  <2> SUFFICES ASSUME Inv, NEW c \in Client, mark[c] > 0
               PROVE  /\ \E e \in committed \cap seen[c] : row[e] = mark[c]
                      /\ ~AgedOut(c)
    BY Zenon DEF MarkIsStored
  <2>1. PICK e \in committed \cap seen[c] : row[e] = mark[c]
    BY Zenon DEF Inv, Connections, Connection, Marked
  <2>2. ~(mark[c] < row[e])
    BY <2>1, SMTT(30) DEF Inv, Types
  <2> QED
    BY <2>1, <2>2, Zenon DEF AgedOut
<1> QED
  BY <1>1, StreamInvariant, PTL

(***************************************************************************)
(* A stored event that waits in the broadcast channel of a connection is   *)
(* served by REST already.                                                 *)
(***************************************************************************)
THEOREM LiveHolds == Spec => []LiveIsProjected
<1>1. Inv => LiveIsProjected
  BY Zenon DEF Inv, Connections, Connection, Waiting, LiveIsProjected
<1> QED
  BY <1>1, StreamInvariant, PTL

-----------------------------------------------------------------------------
(* The bounds of the state.                                                *)

\* What TypeOK says beyond Types: the cursors are handed out, the cache and
\* the channels are within their capacities, and a process is one.
Numbers == row \in [Event -> Cursor] /\ cursor \in Cursor
Hubs ==
  /\ gate \in [Push -> Gate \cup {Nil}] /\ peer \in [Client -> Gate \cup {Nil}]
  /\ cache \in [Gate -> Seq(Stored)] /\ \A g \in Gate : Len(cache[g]) <= CacheSize
  /\ \A c \in Client : Len(channel[c]) <= Capacity
  /\ lagged \subseteq Client
Sent ==
  /\ batch \in [Client -> SUBSET Stored]
  /\ last \in [Client -> Cursor] /\ mark \in [Client -> Cursor]
  /\ log \in [Client -> Seq(Cursor)]
Bounds == Numbers /\ Hubs /\ Sent

(***************************************************************************)
(* PublishedEventCache::remember forgets the oldest when it is full.       *)
(***************************************************************************)
LEMMA RememberIsBounded ==
  ASSUME NEW q \in Seq(Stored), NEW e \in Stored, Len(q) <= CacheSize
  PROVE  Remember(q, e) \in Seq(Stored) /\ Len(Remember(q, e)) <= CacheSize
<1>1. CASE Len(q) >= CacheSize
  <2>1. q # <<>> /\ Len(q) = CacheSize
    BY <1>1, StreamAssumption, SMTT(30)
  <2>2. Tail(q) \in Seq(Stored) /\ Len(Tail(q)) = Len(q) - 1
    BY <2>1, SMTT(30)
  <2>3. Remember(q, e) = Append(Tail(q), e)
    BY <1>1, Zenon DEF Remember
  <2> QED
    BY <2>1, <2>2, <2>3, StreamAssumption, SMTT(30)
<1>2. CASE ~ Len(q) >= CacheSize
  <2>1. Remember(q, e) = Append(q, e)
    BY <1>2, Zenon DEF Remember
  <2> QED
    BY <1>2, <2>1, StreamAssumption, SMTT(30)
<1> QED
  BY <1>1, <1>2, Zenon

(***************************************************************************)
(* A broadcast leaves the channels within their capacity.                  *)
(***************************************************************************)
LEMMA BroadcastIsBounded ==
  ASSUME Types, Hubs, NEW e \in Event, NEW g, Broadcast(e, g)
  PROVE  /\ \A c \in Client : Len(channel'[c]) <= Capacity
         /\ lagged' \subseteq Client
<1>1. ASSUME NEW c \in Client
      PROVE  Len(channel'[c]) <= Capacity
  <2> DEFINE s == channel[c]
  <2>1. s \in Seq(Event) /\ Len(s) <= Capacity
    BY Zenon DEF Types, Hubs
  <2>2. channel'[c] = IF ~Subscribed(c, g) THEN s
                      ELSE IF Len(s) = Capacity THEN Append(Tail(s), e) ELSE Append(s, e)
    BY Zenon DEF Broadcast
  <2> HIDE DEF s
  <2>3. CASE Len(s) = Capacity
    <3>1. s # <<>>
      BY <2>1, <2>3, StreamAssumption, Zenon
    <3>2. Tail(s) \in Seq(Event) /\ Len(Tail(s)) = Len(s) - 1
      BY <2>1, <3>1, SMTT(30)
    <3>3. Len(Append(Tail(s), e)) = Capacity
      BY <2>3, <3>2, StreamAssumption, SMTT(30)
    <3> QED
      BY <2>1, <2>2, <2>3, <3>3, Zenon
  <2>4. CASE Len(s) # Capacity
    <3>1. Len(Append(s, e)) <= Capacity
      BY <2>1, <2>4, StreamAssumption, SMTT(30)
    <3> QED
      BY <2>1, <2>2, <2>4, <3>1, Zenon
  <2> QED
    BY <2>3, <2>4, Zenon
<1>2. lagged' \subseteq Client
  BY Zenon DEF Broadcast, Hubs
<1> QED
  BY <1>1, <1>2, Zenon

(***************************************************************************)
(* A step of a push keeps the bounds.                                      *)
(***************************************************************************)
LEMMA PushBounds ==
  ASSUME Inv, Bounds, PushNext
  PROVE  Bounds'
<1>1. Types /\ Pushes /\ Numbers /\ Hubs /\ Sent
  BY Zenon DEF Inv, Database, Bounds
<1>2. PICK p \in Push :
        \/ \E e \in Event, g \in Gate : Ingest(p, e, g)
        \/ PassOn(p) \/ Superseded(p)
        \/ Insert(p) \/ Duplicate(p) \/ Commit(p) \/ Project(p) \/ Publish(p)
        \/ PushFails(p)
  BY Zenon DEF PushNext
<1>3. Sent'
  <2>1. UNCHANGED <<batch, last, mark, log>>
    BY <1>2, Zenon DEF Ingest, PassOn, Superseded, Insert, Duplicate, Commit, Project, Publish, PushFails,
                streamVars, clientVars
  <2> QED
    BY <1>1, <2>1, Zenon DEF Sent
<1>4. Numbers'
  <2>1. 0 \in Cursor
    BY StreamAssumption, SMTT(30) DEF Cursor
  <2>2. CASE Insert(p)
    <3>1. cursor + 1 \in Cursor
      BY <1>1, <2>2, StreamAssumption, SMTT(30) DEF Insert, Numbers, Cursor
    <3> QED
      BY <1>1, <2>2, <3>1, Zenon DEF Insert, Numbers
  <2>3. CASE PushFails(p)
    BY <1>1, <2>1, <2>3, Zenon DEF PushFails, RolledBack, Numbers
  <2>4. CASE ~ Insert(p) /\ ~ PushFails(p)
    <3>1. UNCHANGED <<row, cursor>>
      BY <1>2, <2>4, Zenon DEF Ingest, PassOn, Superseded, Duplicate, Commit, Project, Publish, dbVars
    <3> QED
      BY <1>1, <3>1, Zenon DEF Numbers
  <2> QED
    BY <2>2, <2>3, <2>4, Zenon
<1>5. Hubs'
  <2>1. gate' \in [Push -> Gate \cup {Nil}]
    <3>1. CASE \E e \in Event, g \in Gate : Ingest(p, e, g)
      BY <1>1, <3>1, Zenon DEF Ingest, Hubs
    <3>2. CASE Finish(p)
      BY <1>1, <3>2, Zenon DEF Finish, Hubs
    <3>3. CASE gate' = gate
      BY <1>1, <3>3, Zenon DEF Hubs
    <3> QED
      BY <1>2, <3>1, <3>2, <3>3, Zenon DEF PassOn, Superseded, Insert, Duplicate, Commit, Project, Publish, PushFails
  <2>2. CASE ~ Publish(p)
    <3>1. UNCHANGED <<cache, peer, channel, lagged>>
      BY <1>2, <2>2, Zenon DEF Ingest, PassOn, Superseded, Insert, Duplicate, Commit, Project, PushFails, streamVars
    <3> QED
      BY <1>1, <2>1, <3>1, Zenon DEF Hubs
  <2>3. CASE Publish(p)
    <3>1. event[p] \in Event /\ peer' = peer
      BY <1>1, <2>3, Zenon DEF Publish, Pushes
    <3>2. CASE UNCHANGED <<cache, channel, lagged>>
      BY <1>1, <2>1, <3>1, <3>2, Zenon DEF Hubs
    <3>3. CASE /\ cache' = IF event[p] \in Ephemeral THEN cache
                           ELSE [cache EXCEPT ![gate[p]] = Remember(@, event[p])]
               /\ Broadcast(event[p], gate[p])
      <4>1. (\A c \in Client : Len(channel'[c]) <= Capacity) /\ lagged' \subseteq Client
        BY <1>1, <3>1, <3>3, BroadcastIsBounded, Zenon
      <4>2. cache' \in [Gate -> Seq(Stored)] /\ \A g \in Gate : Len(cache'[g]) <= CacheSize
        <5>1. CASE event[p] \in Ephemeral \/ gate[p] \notin Gate
          <6>1. cache' = cache
            BY <1>1, <3>3, <5>1, Zenon DEF Hubs
          <6> QED
            BY <1>1, <6>1, Zenon DEF Hubs
        <5>2. CASE event[p] \notin Ephemeral /\ gate[p] \in Gate
          <6>1. event[p] \in Stored /\ cache[gate[p]] \in Seq(Stored) /\ Len(cache[gate[p]]) <= CacheSize
            BY <1>1, <3>1, <5>2, Zenon DEF Hubs, Stored
          <6>2. /\ Remember(cache[gate[p]], event[p]) \in Seq(Stored)
                /\ Len(Remember(cache[gate[p]], event[p])) <= CacheSize
            BY <6>1, RememberIsBounded, Zenon
          <6>3. cache' = [cache EXCEPT ![gate[p]] = Remember(cache[gate[p]], event[p])]
            BY <3>3, <5>2, Zenon
          <6> QED
            BY <1>1, <5>2, <6>2, <6>3, Zenon DEF Hubs
        <5> QED
          BY <5>1, <5>2, Zenon
      <4> QED
        BY <1>1, <2>1, <3>1, <4>1, <4>2, Zenon DEF Hubs
    <3> QED
      BY <2>3, <3>2, <3>3, Zenon DEF Publish
  <2> QED
    BY <2>2, <2>3, Zenon
<1> QED
  BY <1>3, <1>4, <1>5, Zenon DEF Bounds

(***************************************************************************)
(* So does a step of a connection.                                         *)
(***************************************************************************)
LEMMA StreamBounds ==
  ASSUME Inv, Bounds, StreamNext
  PROVE  Bounds'
<1>1. Types /\ Pushes /\ Numbers /\ Hubs /\ Sent
  BY Zenon DEF Inv, Database, Bounds
<1>2. PICK c \in Client :
        \/ Bootstrap(c) \/ \E g \in Gate : Connect(c, g)
        \/ Hello(c) \/ Replay(c) \/ ReplayFails(c)
        \/ \E e \in Stored : SendRow(c, e)
        \/ GoLive(c) \/ Receive(c) \/ LaggedOut(c) \/ Disconnect(c)
  BY Zenon DEF StreamNext
<1>3. Numbers' /\ gate' = gate /\ cache' = cache
  <2>1. UNCHANGED <<row, cursor, gate, cache>>
    BY <1>2, Zenon DEF Bootstrap, Connect, Hello, Reject, Replay, ReplayFails, SendRow, GoLive, Receive,
         LaggedOut, Disconnect, dbVars, pushVars
  <2> QED
    BY <1>1, <2>1, Zenon DEF Numbers
<1>4. 0 \in Cursor
  BY StreamAssumption, SMTT(30) DEF Cursor
<1>5. ASSUME Close(c)
      PROVE  /\ peer' \in [Client -> Gate \cup {Nil}] /\ lagged' \subseteq Client
             /\ \A d \in Client : Len(channel'[d]) <= Capacity
             /\ batch' \in [Client -> SUBSET Stored] /\ last' \in [Client -> Cursor]
             /\ log' \in [Client -> Seq(Cursor)]
  <2>1. peer' \in [Client -> Gate \cup {Nil}] /\ lagged' \subseteq Client
    BY <1>1, <1>5, Zenon DEF Close, Hubs
  <2>2. \A d \in Client : channel'[d] = IF d = c THEN <<>> ELSE channel[d]
    BY <1>1, <1>5, Zenon DEF Close, Types
  <2>3. Len(<<>>) <= Capacity
    BY StreamAssumption, SMTT(30)
  <2>4. \A d \in Client : Len(channel'[d]) <= Capacity
    BY <1>1, <2>2, <2>3, Zenon DEF Hubs
  <2>5. batch' \in [Client -> SUBSET Stored] /\ last' \in [Client -> Cursor]
    BY <1>1, <1>4, <1>5, Zenon DEF Close, Sent
  <2>6. log' \in [Client -> Seq(Cursor)]
    BY <1>1, <1>5, SMTT(30) DEF Close, Sent
  <2> QED
    BY <2>1, <2>4, <2>5, <2>6, Zenon
<1>6. ASSUME NEW e \in Event, Deliver(c, e)
      PROVE  /\ last' \in [Client -> Cursor] /\ mark' \in [Client -> Cursor]
             /\ log' \in [Client -> Seq(Cursor)]
  <2>1. row[e] \in Cursor /\ log[c] \in Seq(Cursor) /\ last[c] \in Cursor /\ mark[c] \in Cursor
    BY <1>1, Zenon DEF Numbers, Sent
  <2>2. Append(log[c], row[e]) \in Seq(Cursor)
    BY <2>1, SMTT(30)
  <2>3. Larger(last[c], row[e]) \in Cursor /\ Larger(mark[c], row[e]) \in Cursor
    BY <2>1, Zenon DEF Larger
  <2>4. CASE e \in Stored
    <3>1. /\ last' = [last EXCEPT ![c] = Larger(last[c], row[e])]
          /\ mark' = [mark EXCEPT ![c] = Larger(mark[c], row[e])]
          /\ log' = [log EXCEPT ![c] = Append(log[c], row[e])]
      BY <1>6, <2>4, Zenon DEF Deliver
    <3> QED
      BY <1>1, <2>2, <2>3, <3>1, Zenon DEF Sent
  <2>5. CASE e \notin Stored
    BY <1>1, <1>6, <2>5, Zenon DEF Deliver, Sent
  <2> QED
    BY <2>4, <2>5, Zenon
<1>7. Skip => UNCHANGED <<last, log, mark>>
  BY Zenon DEF Skip, clientVars
<1>8. ASSUME Reject(c)
      PROVE  Hubs' /\ Sent'
  <2>1. Close(c) /\ mark' = [mark EXCEPT ![c] = 0]
    BY <1>8, Zenon DEF Reject
  <2>2. mark' \in [Client -> Cursor]
    BY <1>1, <1>4, <2>1, Zenon DEF Sent
  <2> QED
    BY <1>1, <1>3, <1>5, <2>1, <2>2, Zenon DEF Hubs, Sent
<1>9. CASE Bootstrap(c) \/ ReplayFails(c) \/ GoLive(c)
  <2>1. UNCHANGED <<peer, channel, lagged, batch, last, log, mark>>
    BY <1>9, Zenon DEF Bootstrap, ReplayFails, GoLive, streamVars, clientVars
  <2> QED
    BY <1>1, <1>3, <2>1, Zenon DEF Bounds, Hubs, Sent
<1>10. CASE \E g \in Gate : Connect(c, g)
  <2>1. PICK g \in Gate : Connect(c, g)
    BY <1>10, Zenon
  <2>2. /\ peer' = [peer EXCEPT ![c] = g] /\ last' = [last EXCEPT ![c] = mark[c]]
        /\ UNCHANGED <<channel, lagged, batch, log, mark>>
    BY <2>1, Zenon DEF Connect, clientVars
  <2>3. peer' \in [Client -> Gate \cup {Nil}]
    BY <1>1, <2>2, Zenon DEF Hubs
  <2>4. last' \in [Client -> Cursor]
    BY <1>1, <2>2, Zenon DEF Sent
  <2> QED
    BY <1>1, <1>3, <2>2, <2>3, <2>4, Zenon DEF Bounds, Hubs, Sent
<1>11. CASE Hello(c)
  <2>1. CASE Reject(c)
    BY <1>3, <1>8, <2>1, Zenon DEF Bounds
  <2>2. CASE UNCHANGED <<peer, channel, lagged, batch, last, log, mark>>
    BY <1>1, <1>3, <2>2, Zenon DEF Bounds, Hubs, Sent
  <2> QED
    BY <1>11, <2>1, <2>2, Zenon DEF Hello, clientVars
<1>12. CASE Replay(c)
  <2>1. RowsAfter(mark[c]) \subseteq Stored
    BY <1>1, Zenon DEF RowsAfter, Types
  <2>2. /\ batch' = [batch EXCEPT ![c] = RowsAfter(mark[c])]
        /\ UNCHANGED <<peer, channel, lagged, last, log, mark>>
    BY <1>12, Zenon DEF Replay, clientVars
  <2>3. batch' \in [Client -> SUBSET Stored]
    BY <1>1, <2>1, <2>2, Zenon DEF Sent
  <2> QED
    BY <1>1, <1>3, <2>2, <2>3, Zenon DEF Bounds, Hubs, Sent
<1>13. CASE \E e \in Stored : SendRow(c, e)
  <2>1. PICK e \in Stored : SendRow(c, e)
    BY <1>13, Zenon
  <2>2. e \in Event
    BY Zenon DEF Stored
  <2>3. last' \in [Client -> Cursor] /\ mark' \in [Client -> Cursor] /\ log' \in [Client -> Seq(Cursor)]
    <3>1. CASE Deliver(c, e)
      BY <1>6, <2>2, <3>1, Zenon
    <3>2. CASE Skip
      BY <1>1, <1>7, <3>2, Zenon DEF Sent
    <3> QED
      BY <2>1, <3>1, <3>2, Zenon DEF SendRow
  <2>4. batch' = [batch EXCEPT ![c] = batch[c] \ {e}] /\ UNCHANGED <<peer, channel, lagged>>
    BY <2>1, Zenon DEF SendRow
  <2>5. batch' \in [Client -> SUBSET Stored]
    BY <1>1, <2>4, Zenon DEF Sent
  <2> QED
    BY <1>1, <1>3, <2>3, <2>4, <2>5, Zenon DEF Bounds, Hubs, Sent
<1>14. CASE Receive(c)
  <2>1. channel[c] \in Seq(Event) /\ channel[c] # <<>>
    BY <1>1, <1>14, Zenon DEF Receive, Types
  <2>2. Head(channel[c]) \in Event /\ Len(Tail(channel[c])) = Len(channel[c]) - 1 /\ Len(channel[c]) \in Nat
    BY <2>1, SMTT(30)
  <2>3. last' \in [Client -> Cursor] /\ mark' \in [Client -> Cursor] /\ log' \in [Client -> Seq(Cursor)]
    <3>1. CASE Deliver(c, Head(channel[c]))
      BY <1>6, <2>2, <3>1, Zenon
    <3>2. CASE Skip
      BY <1>1, <1>7, <3>2, Zenon DEF Sent
    <3> QED
      BY <1>14, <3>1, <3>2, Zenon DEF Receive
  <2>4. channel' = [channel EXCEPT ![c] = Tail(channel[c])] /\ UNCHANGED <<peer, batch, lagged>>
    BY <1>14, Zenon DEF Receive
  <2>5. \A d \in Client : channel'[d] = IF d = c THEN Tail(channel[c]) ELSE channel[d]
    BY <1>1, <2>4, Zenon DEF Types
  <2>6. Len(Tail(channel[c])) <= Capacity
    BY <1>1, <2>2, StreamAssumption, SMTT(30) DEF Hubs
  <2>7. \A d \in Client : Len(channel'[d]) <= Capacity
    BY <1>1, <2>5, <2>6, Zenon DEF Hubs
  <2> QED
    BY <1>1, <1>3, <2>3, <2>4, <2>7, Zenon DEF Bounds, Hubs, Sent
<1>15. CASE LaggedOut(c)
  BY <1>3, <1>8, <1>15, Zenon DEF LaggedOut, Bounds
<1>16. CASE Disconnect(c)
  <2>1. Close(c) /\ mark' = mark
    BY <1>16, Zenon DEF Disconnect, clientVars
  <2> QED
    BY <1>1, <1>3, <1>5, <2>1, Zenon DEF Bounds, Hubs, Sent
<1> QED
  BY <1>2, <1>9, <1>10, <1>11, <1>12, <1>13, <1>14, <1>15, <1>16, Zenon

(***************************************************************************)
(* And a restart of a process.                                             *)
(***************************************************************************)
LEMMA RestartBounds ==
  ASSUME Inv, Bounds, NEW g \in Gate, Restart(g)
  PROVE  Bounds'
<1>1. Types /\ Numbers /\ Hubs /\ Sent
  BY Zenon DEF Inv, Bounds
<1>2. 0 \in Cursor
  BY StreamAssumption, SMTT(30) DEF Cursor
<1>3. Numbers'
  BY <1>1, <1>2, Zenon DEF Restart, Numbers
<1>4. Hubs'
  <2>1. gate' \in [Push -> Gate \cup {Nil}] /\ peer' \in [Client -> Gate \cup {Nil}] /\ lagged' \subseteq Client
    BY <1>1, Zenon DEF Restart, Hubs
  <2>2. Len(<<>>) <= Capacity /\ Len(<<>>) <= CacheSize /\ <<>> \in Seq(Stored)
    BY StreamAssumption, SMTT(30)
  <2>3. cache' = [cache EXCEPT ![g] = <<>>]
    BY Zenon DEF Restart
  <2>4. cache' \in [Gate -> Seq(Stored)] /\ \A h \in Gate : Len(cache'[h]) <= CacheSize
    BY <1>1, <2>2, <2>3, Zenon DEF Hubs
  <2>5. \A c \in Client : channel'[c] = <<>> \/ channel'[c] = channel[c]
    BY Zenon DEF Restart
  <2>6. \A c \in Client : Len(channel'[c]) <= Capacity
    BY <1>1, <2>2, <2>5, Zenon DEF Hubs
  <2> QED
    BY <2>1, <2>4, <2>6, Zenon DEF Hubs
<1>5. Sent'
  <2>1. batch' \in [Client -> SUBSET Stored]
    BY <1>1, Zenon DEF Restart, Sent
  <2>2. last' \in [Client -> Cursor] /\ mark' \in [Client -> Cursor]
    BY <1>1, <1>2, Zenon DEF Restart, Sent, clientVars
  <2>3. log' \in [Client -> Seq(Cursor)]
    <3>1. log' = [c \in Client |-> IF c \in {d \in Client : Subscribed(d, g)} THEN <<>> ELSE log[c]]
      BY Zenon DEF Restart
    <3>2. <<>> \in Seq(Cursor) /\ \A c \in Client : log[c] \in Seq(Cursor)
      BY <1>1, SMTT(30) DEF Sent
    <3> QED
      BY <3>1, <3>2, Zenon
  <2> QED
    BY <2>1, <2>2, <2>3, Zenon DEF Sent
<1> QED
  BY <1>3, <1>4, <1>5, Zenon DEF Bounds

(***************************************************************************)
(* The state stays within its types: the published-event cache and the     *)
(* broadcast channels never exceed their capacities.                       *)
(***************************************************************************)
THEOREM TypesHold == Spec => []TypeOK
<1>1. Init => Bounds
  <2> SUFFICES ASSUME Init PROVE Bounds
    BY Zenon
  <2>1. 0 \in Cursor /\ Len(<<>>) <= Capacity /\ Len(<<>>) <= CacheSize
    BY StreamAssumption, SMTT(30) DEF Cursor
  <2>2. Numbers
    BY <2>1, Zenon DEF Init, Numbers
  <2>3. Hubs
    BY <2>1, SMTT(30) DEF Init, Hubs
  <2>4. Sent
    BY <2>1, SMTT(30) DEF Init, Sent
  <2> QED
    BY <2>2, <2>3, <2>4, Zenon DEF Bounds
<1>2. Inv /\ Bounds /\ [Next]_vars => Bounds'
  <2>1. Inv /\ Bounds /\ UNCHANGED vars => Bounds'
    BY Zenon DEF Bounds, Numbers, Hubs, Sent, vars, dbVars, pushVars, streamVars, clientVars
  <2> QED
    BY <2>1, PushBounds, StreamBounds, RestartBounds, Zenon DEF Next
<1>3. Inv /\ Bounds => TypeOK
  BY Zenon DEF Inv, Types, Bounds, Numbers, Hubs, Sent, TypeOK
<1> QED
  BY <1>1, <1>2, <1>3, StreamInvariant, PTL DEF Spec

-----------------------------------------------------------------------------
(* Resuming.                                                               *)

\* An event that waits in the channel, behind older ones only.
InChannel(c, e) ==
  \E i \in 1 .. Len(channel[c]) :
    /\ channel[c][i] = e
    /\ \A j \in 1 .. i : channel[c][j] \in Stored => row[channel[c][j]] <= row[e]
\* The newest event, which is about to be broadcast.
Pending(e) ==
  \E p \in Push : /\ pushPc[p] \in {"project", "publish"} /\ event[p] = e
                  /\ ~Cached(gate[p], e) /\ \A f \in committed : row[f] <= row[e]
\* An event that the connection has still to send.
Due(c, e) == e \in committed /\ Matches(c, e) /\ row[e] > last[c]

\* A connection is where its client is.
Level(c) == streamPc[c] # "off" => peer[c] \in Gate /\ last[c] = mark[c]

\* The client knows what is up to its mark.
Knows(c) == \A e \in committed : row[e] <= mark[c] /\ Matches(c, e) => e \in seen[c]

\* What is due beside the replay is newer than the replay.
After(c) == \A e \in batch[c], f \in Stored \ batch[c] : Due(c, f) => row[e] < row[f]

\* What is due comes: from the replay, the channel or the push, unless the
\* channel has lagged, after which nothing is received.
Comes(c, e) == e \in batch[c] \/ InChannel(c, e) \/ Pending(e)
Owed(c) == streamPc[c] \in {"send", "live"} /\ c \notin lagged
             => \A e \in Stored : Due(c, e) => Comes(c, e)
Kept(c) == Level(c) /\ Knows(c) /\ After(c) /\ Owed(c)

\* A push runs in the process, the row it has inserted is the newest, and only
\* what is committed was published.
InTurn ==
  /\ \A p \in Push : pushPc[p] # "idle" => gate[p] \in Gate
  /\ \A p \in Push : pushPc[p] = "commit" => \A e \in committed : row[e] < row[event[p]]
  /\ \A g \in Gate : \A i \in 1 .. Len(cache[g]) : cache[g][i] \in committed

ResumeInv == InTurn /\ \A c \in Client : Kept(c)

\* Of a connection: what a step leaves as it is.
Same(c) ==
  /\ streamPc'[c] = streamPc[c] /\ peer'[c] = peer[c] /\ batch'[c] = batch[c]
  /\ channel'[c] = channel[c] /\ (c \in lagged' <=> c \in lagged)
  /\ last'[c] = last[c] /\ mark'[c] = mark[c] /\ seen'[c] = seen[c]

(***************************************************************************)
(* An event that waits in the channel goes on waiting there, as committed  *)
(* rows stay.                                                              *)
(***************************************************************************)
LEMMA ChannelRows ==
  ASSUME Inv, NEW c \in Client, RowsStay, channel'[c] = channel[c], NEW e \in committed, InChannel(c, e)
  PROVE  InChannel(c, e)'
<1>1. PICK i \in 1 .. Len(channel[c]) :
        /\ channel[c][i] = e
        /\ \A j \in 1 .. i : channel[c][j] \in Stored => row[channel[c][j]] <= row[e]
  BY Zenon DEF InChannel
<1>2. Len(channel[c]) \in Nat
  BY SMTT(30) DEF Inv, Types
<1>3. \A j \in 1 .. i : j \in 1 .. Len(channel[c])
  BY <1>2, SMTT(30)
<1>4. \A j \in 1 .. i : channel[c][j] \in Stored => channel[c][j] \in committed
  BY <1>3, Zenon DEF Inv, Connections, Connection, Waiting
<1>5. \A j \in 1 .. i : channel[c][j] \in Stored => row'[channel[c][j]] <= row'[e]
  BY <1>1, <1>4, Zenon DEF RowsStay
<1> QED
  BY <1>1, <1>5, Zenon DEF InChannel

(***************************************************************************)
(* A connection that a step leaves as it is owes what it owed, and it      *)
(* comes the same way.                                                     *)
(***************************************************************************)
LEMMA SameIsKept ==
  ASSUME Inv, NEW c \in Client, Kept(c), RowsStay, committed' = committed, Same(c),
         \A e \in committed : Pending(e) => Pending(e)'
  PROVE  Kept(c)'
<1>1. \A e : Due(c, e)' => Due(c, e)
  BY Zenon DEF Due, Matches, RowsStay, Same
<1>2. batch[c] \subseteq committed
  BY Zenon DEF Inv, Connections, Connection, Waiting
<1>3. Level(c)'
  BY Zenon DEF Kept, Level, Same
<1>4. Knows(c)'
  BY Zenon DEF Kept, Knows, Same, Matches, RowsStay
<1>5. After(c)'
  <2> SUFFICES ASSUME NEW e \in batch'[c], NEW f \in Stored \ batch'[c], Due(c, f)'
               PROVE  row'[e] < row'[f]
    BY Zenon DEF After
  <2>1. e \in batch[c] /\ f \in Stored \ batch[c] /\ Due(c, f)
    BY <1>1, Zenon DEF Same
  <2>2. row[e] < row[f]
    BY <2>1, Zenon DEF After, Kept
  <2>3. e \in committed /\ f \in committed
    BY <1>2, <2>1, Zenon DEF Due
  <2> QED
    BY <2>2, <2>3, Zenon DEF RowsStay
<1>6. Owed(c)'
  <2> SUFFICES ASSUME streamPc'[c] \in {"send", "live"}, c \notin lagged',
                      NEW e \in Stored, Due(c, e)'
               PROVE  Comes(c, e)'
    BY Zenon DEF Owed
  <2>1. Comes(c, e) /\ e \in committed
    BY <1>1, Zenon DEF Owed, Same, Kept, Due
  <2>2. CASE e \in batch[c]
    BY <2>2, Zenon DEF Comes, Same
  <2>3. CASE InChannel(c, e)
    BY <2>1, <2>3, ChannelRows, Zenon DEF Comes, Same
  <2>4. CASE Pending(e)
    BY <2>1, <2>4, Zenon DEF Comes
  <2> QED
    BY <2>1, <2>2, <2>3, <2>4, Zenon DEF Comes
<1> QED
  BY <1>3, <1>4, <1>5, <1>6, Zenon DEF Kept

(***************************************************************************)
(* A row that is committed is after every mark, every replay and every     *)
(* event that waits, and it is about to be broadcast.                      *)
(***************************************************************************)
LEMMA CommitIsKept ==
  ASSUME Undisturbed, Inv, InTurn, NEW p \in Push, Commit(p), NEW c \in Client, Kept(c)
  PROVE  Kept(c)'
<1>0. PICK e0 : e0 = event[p]
  BY Zenon
<1>1. /\ pushPc[p] = "commit" /\ committed' = committed \cup {e0}
      /\ UNCHANGED <<row, event, gate, cache, streamVars, clientVars>>
      /\ pushPc'[p] \in {"project", "publish"}
  <2>1. pushPc[p] = "commit" /\ pushPc' = [pushPc EXCEPT ![p] =
            IF event[p] \in Space THEN "publish" ELSE "project"]
    BY Zenon DEF Commit, Step
  <2> QED
    BY <1>0, <2>1, Zenon DEF Commit, Inv, Types
<1>2. /\ e0 \in Stored \ committed /\ e0 \in Event /\ row[e0] > 0
      /\ \A e \in committed : row[e] < row[e0]
  BY <1>0, <1>1, Zenon DEF Inv, Database, Pushes, InTurn, Stored
<1>3. Same(c)
  BY <1>1, Zenon DEF Same, streamVars, clientVars
<1>4. RowsStay
  <2>1. PushNext
    BY Zenon DEF PushNext
  <2> QED
    BY <2>1, PushKeepsDatabase, Zenon DEF Inv
<1>5. /\ row[e0] \in Nat /\ mark[c] \in Nat
      /\ \A e \in committed : row[e] \in Nat
  BY <1>2, Zenon DEF Inv, Types, Stored
<1>6. batch[c] \subseteq committed
  BY Zenon DEF Inv, Connections, Connection, Waiting
<1>7. \A e : Due(c, e)' /\ e # e0 => Due(c, e)
  BY <1>1, <1>3, Zenon DEF Due, Matches, Same
<1>8. Level(c)'
  BY <1>3, Zenon DEF Kept, Level, Same
<1>9. Knows(c)'
  <2>1. ~(row[e0] <= mark[c])
    <3>1. CASE mark[c] > 0
      <4>1. PICK e \in committed : row[e] = mark[c]
        BY <3>1, Zenon DEF Inv, Connections, Connection, Marked
      <4> QED
        BY <1>2, <1>5, <4>1, SMTT(30)
    <3>2. CASE ~(mark[c] > 0)
      BY <1>2, <1>5, <3>2, SMTT(30)
    <3> QED
      BY <3>1, <3>2, Zenon
  <2> QED
    BY <1>1, <1>3, <2>1, Zenon DEF Knows, Kept, Same, Matches
<1>10. After(c)'
  <2> SUFFICES ASSUME NEW e \in batch'[c], NEW f \in Stored \ batch'[c], Due(c, f)'
               PROVE  row'[e] < row'[f]
    BY Zenon DEF After
  <2>1. e \in batch[c] /\ f \in Stored \ batch[c]
    BY <1>3, Zenon DEF Same
  <2>2. CASE f = e0
    BY <1>1, <1>2, <1>6, <2>1, <2>2, Zenon
  <2>3. CASE f # e0
    BY <1>1, <1>7, <2>1, <2>3, Zenon DEF After, Kept
  <2> QED
    BY <2>2, <2>3, Zenon
<1>11. Owed(c)'
  <2> SUFFICES ASSUME streamPc'[c] \in {"send", "live"}, c \notin lagged',
                      NEW e \in Stored, Due(c, e)'
               PROVE  Comes(c, e)'
    BY Zenon DEF Owed
  <2>1. CASE e = e0
    <3>1. gate[p] \in Gate
      BY <1>1, Zenon DEF InTurn
    <3>2. ~Cached(gate[p], e0)'
      BY <1>1, <1>2, <3>1, Zenon DEF InTurn, Cached
    <3>3. \A f \in committed' : row'[f] <= row'[e0]
      BY <1>1, <1>2, <1>5, SMTT(30)
    <3>4. Pending(e0)'
      BY <1>0, <1>1, <3>2, <3>3, Zenon DEF Pending
    <3> QED
      BY <2>1, <3>4, Zenon DEF Comes
  <2>2. CASE e # e0
    <3>1. Due(c, e) /\ e \in committed
      BY <1>7, <2>2, Zenon DEF Due
    <3>2. Comes(c, e)
      BY <1>3, <3>1, Zenon DEF Owed, Same, Kept
    <3>3. ~Pending(e)
      <4>1. pushPc[p] \notin {"project", "publish"}
        BY <1>1, Zenon
      <4> QED
        BY <4>1, Zenon DEF Pending, Undisturbed
    <3>4. CASE e \in batch[c]
      BY <1>3, <3>4, Zenon DEF Comes, Same
    <3>5. CASE InChannel(c, e)
      BY <1>3, <1>4, <3>1, <3>5, ChannelRows, Zenon DEF Comes, Same
    <3> QED
      BY <3>2, <3>3, <3>4, <3>5, Zenon DEF Comes
  <2> QED
    BY <2>1, <2>2, Zenon
<1> QED
  BY <1>8, <1>9, <1>10, <1>11, Zenon DEF Kept

(***************************************************************************)
(* What Broadcast appends comes after what waits.                          *)
(***************************************************************************)
LEMMA AppendKeeps ==
  ASSUME NEW S, NEW q \in Seq(S), NEW x \in S, NEW r, r = Append(q, x)
  PROVE  /\ Len(q) \in Nat /\ Len(r) = Len(q) + 1 /\ r[Len(q) + 1] = x
         /\ \A i \in 1 .. Len(q) : i \in 1 .. Len(r) /\ r[i] = q[i]
         /\ \A i \in 1 .. Len(q) + 1 : i \in 1 .. Len(q) \/ i = Len(q) + 1
         /\ \A i \in 1 .. Len(q) : \A j \in 1 .. i : j \in 1 .. Len(q)
         /\ Len(q) + 1 \in 1 .. Len(q) + 1
BY SMTT(30)

(***************************************************************************)
(* The newest event goes to the end of the channel of every connection, or *)
(* makes it lag; an event in the cache was due no longer or waits already. *)
(***************************************************************************)
LEMMA PublishIsKept ==
  ASSUME Undisturbed, Inv, InTurn, NEW p \in Push, Publish(p), NEW c \in Client, Kept(c)
  PROVE  Kept(c)'
<1> DEFINE e0 == event[p]
           g == gate[p]
<1>1. /\ pushPc[p] = "publish"
      /\ UNCHANGED <<row, committed, streamPc, peer, batch, last, seen, mark>>
  BY Zenon DEF Publish, dbVars, clientVars
<1>2. \/ e0 \in Stored /\ Cached(g, e0) /\ UNCHANGED <<channel, lagged>>
      \/ Broadcast(e0, g)
  BY Zenon DEF Publish
<1>3. e0 \in Event /\ g \in Gate
  BY <1>1, Zenon DEF Inv, Database, Pushes, InTurn
<1> HIDE DEF e0, g
<1>4. Level(c)' /\ Knows(c)'
  BY <1>1, Zenon DEF Kept, Level, Knows, Matches
<1>5. \A e : Due(c, e)' => Due(c, e)
  BY <1>1, Zenon DEF Due, Matches
<1>6. After(c)'
  BY <1>1, <1>5, Zenon DEF Kept, After
<1>7. Owed(c)'
  <2> SUFFICES ASSUME streamPc'[c] \in {"send", "live"}, c \notin lagged',
                      NEW e \in Stored, Due(c, e)'
               PROVE  Comes(c, e)'
    BY Zenon DEF Owed
  <2>1. streamPc[c] \in {"send", "live"} /\ streamPc[c] # "off"
    BY <1>1, Zenon
  <2>2. peer[c] = g
    BY <1>3, <2>1, Zenon DEF Kept, Level, Undisturbed
  <2>3. Due(c, e) /\ e \in committed
    BY <1>5, Zenon DEF Due
  <2>4. Pending(e) => e = e0 /\ ~Cached(g, e0) /\ \A f \in committed : row[f] <= row[e0]
    BY Zenon DEF Pending, Undisturbed, e0, g
  <2>5. CASE e0 \in Stored /\ Cached(g, e0) /\ UNCHANGED <<channel, lagged>>
    <3>1. Comes(c, e) /\ ~Pending(e)
      BY <2>1, <2>3, <2>4, <2>5, Zenon DEF Owed, Kept
    <3>2. InChannel(c, e) => InChannel(c, e)'
      BY <1>1, <2>5, Zenon DEF InChannel
    <3> QED
      BY <1>1, <3>1, <3>2, Zenon DEF Comes
  <2>6. CASE Broadcast(e0, g)
    <3>1. channel'[c] = Append(channel[c], e0) /\ c \notin lagged
      BY <2>1, <2>2, <2>6, Zenon DEF Broadcast, Subscribed
    <3>2. Comes(c, e)
      BY <2>1, <2>3, <3>1, Zenon DEF Owed, Kept
    <3>3. channel[c] \in Seq(Event)
      BY Zenon DEF Inv, Types
    <3> DEFINE q == channel[c]
               r == channel'[c]
    <3>4. /\ Len(q) \in Nat /\ Len(r) = Len(q) + 1 /\ r[Len(q) + 1] = e0
          /\ \A i \in 1 .. Len(q) : i \in 1 .. Len(r) /\ r[i] = q[i]
          /\ \A i \in 1 .. Len(q) + 1 : i \in 1 .. Len(q) \/ i = Len(q) + 1
          /\ \A i \in 1 .. Len(q) : \A j \in 1 .. i : j \in 1 .. Len(q)
          /\ Len(q) + 1 \in 1 .. Len(q) + 1
      <4>1. q \in Seq(Event) /\ r = Append(q, e0) /\ e0 \in Event
        BY <1>3, <3>1, <3>3, Zenon
      <4> HIDE DEF q, r
      <4> QED
        BY <4>1, AppendKeeps, SMTT(30)
    <3>5. CASE e \in batch[c]
      BY <1>1, <3>5, Zenon DEF Comes
    <3>6. CASE InChannel(c, e)
      <4>1. PICK i \in 1 .. Len(q) :
              /\ q[i] = e
              /\ \A j \in 1 .. i : q[j] \in Stored => row[q[j]] <= row[e]
        BY <3>6, Zenon DEF InChannel
      <4>2. i \in 1 .. Len(r) /\ r[i] = e /\ \A j \in 1 .. i : r[j] = q[j]
        BY <3>4, <4>1, Zenon
      <4>3. \A j \in 1 .. i : r[j] \in Stored => row'[r[j]] <= row'[e]
        BY <1>1, <4>1, <4>2, Zenon
      <4> QED
        BY <4>2, <4>3, Zenon DEF InChannel, Comes
    <3>7. CASE Pending(e)
      <4>1. \A j \in 1 .. Len(q) : q[j] \in Stored => q[j] \in committed
        BY Zenon DEF Inv, Connections, Connection, Waiting
      <4>2. e = e0 /\ \A f \in committed : row[f] <= row[e]
        BY <2>4, <3>7, Zenon
      <4>3. \A j \in 1 .. Len(q) + 1 : r[j] \in Stored => r[j] \in committed
        BY <2>3, <3>4, <4>1, <4>2, Zenon
      <4>4. \A j \in 1 .. Len(q) + 1 : r[j] \in Stored => row'[r[j]] <= row'[e]
        BY <1>1, <4>2, <4>3, Zenon
      <4>5. Len(q) + 1 \in 1 .. Len(r) /\ r[Len(q) + 1] = e
        BY <3>4, <4>2, Zenon
      <4> QED
        BY <4>4, <4>5, Zenon DEF InChannel, Comes
    <3> QED
      BY <3>2, <3>5, <3>6, <3>7, Zenon DEF Comes
  <2> QED
    BY <1>2, <2>5, <2>6, Zenon
<1> QED
  BY <1>4, <1>6, <1>7, Zenon DEF Kept

(***************************************************************************)
(* A restart closes all connections; their clients keep their marks.       *)
(***************************************************************************)
LEMMA RestartIsKept ==
  ASSUME Undisturbed, Inv, NEW g \in Gate, Restart(g), NEW c \in Client, Kept(c)
  PROVE  Kept(c)'
<1>1. UNCHANGED <<committed, seen, mark>>
  BY Zenon DEF Restart, clientVars
<1>2. RowsStay
  BY RestartKeepsDatabase, Zenon DEF Inv
<1>3. streamPc'[c] = "off" /\ batch'[c] = {}
  <2>1. CASE Subscribed(c, g)
    BY <2>1, Zenon DEF Restart
  <2>2. CASE ~Subscribed(c, g)
    <3>1. streamPc[c] = "off"
      BY <2>2, Zenon DEF Subscribed, Kept, Level, Undisturbed
    <3>2. batch[c] = {}
      <4>1. "off" # "send"
        BY Zenon
      <4> QED
        BY <3>1, <4>1, Zenon DEF Inv, Connections, Connection, Waiting
    <3> QED
      BY <2>2, <3>1, <3>2, Zenon DEF Restart
  <2> QED
    BY <2>1, <2>2, Zenon
<1>4. Level(c)' /\ After(c)'
  BY <1>3, Zenon DEF Level, After
<1>5. Owed(c)'
  BY <1>3, Zenon DEF Owed
<1>6. Knows(c)'
  BY <1>1, <1>2, Zenon DEF Kept, Knows, Matches, RowsStay
<1> QED
  BY <1>4, <1>5, <1>6, Zenon DEF Kept

(***************************************************************************)
(* A connection has rows of a replay to send only while it sends them.     *)
(***************************************************************************)
LEMMA NoBatch ==
  ASSUME Inv, NEW c \in Client, streamPc[c] # "send"
  PROVE  batch[c] = {}
BY Zenon DEF Inv, Connections, Connection, Waiting

(***************************************************************************)
(* A closed connection owes nothing, and a client that drops its mark      *)
(* claims to know nothing.                                                 *)
(***************************************************************************)
LEMMA ClosedIsComplete ==
  ASSUME Inv, NEW c \in Client, Kept(c), Close(c), UNCHANGED <<row, committed>>,
         seen'[c] = seen[c], mark'[c] \in {0, mark[c]}
  PROVE  Kept(c)'
<1>1. streamPc'[c] = "off" /\ batch'[c] = {}
  BY Zenon DEF Close, Inv, Types
<1>2. Level(c)' /\ After(c)'
  BY <1>1, Zenon DEF Level, After
<1>3. Owed(c)'
  BY <1>1, Zenon DEF Owed
<1>4. Knows(c)'
  <2>1. CASE mark'[c] = mark[c]
    BY <2>1, Zenon DEF Kept, Knows, Matches
  <2>2. CASE mark'[c] = 0
    <3>1. \A e \in committed : row[e] \in Nat /\ row[e] > 0
      BY Zenon DEF Inv, Types, Database, Numbered, Stored
    <3>2. \A e \in committed : ~(row[e] <= 0)
      BY <3>1, SMTT(30)
    <3> QED
      BY <2>2, <3>2, Zenon DEF Knows
  <2> QED
    BY <2>1, <2>2, Zenon
<1> QED
  BY <1>2, <1>3, <1>4, Zenon DEF Kept

(***************************************************************************)
(* What is sent is after the last cursor, which is the client's mark, and  *)
(* becomes both.                                                           *)
(***************************************************************************)
LEMMA Delivers ==
  ASSUME Types, NEW c \in Client, last[c] = mark[c], NEW e \in Event, Deliver(c, e),
         e \in Stored => row[e] > last[c]
  PROVE  /\ seen'[c] = seen[c] \cup {e} /\ last'[c] = mark'[c]
         /\ last'[c] = IF e \in Stored THEN row[e] ELSE last[c]
<1>1. row[e] \in Nat /\ last[c] \in Nat /\ mark[c] \in Nat
  BY Zenon DEF Types
<1>2. seen'[c] = seen[c] \cup {e}
  BY Zenon DEF Deliver, Types
<1>3. CASE e \in Stored
  <2>1. /\ last' = [last EXCEPT ![c] = Larger(last[c], row[e])]
        /\ mark' = [mark EXCEPT ![c] = Larger(mark[c], row[e])]
    BY <1>3, Zenon DEF Deliver
  <2>2. last'[c] = Larger(last[c], row[e]) /\ mark'[c] = Larger(mark[c], row[e])
    BY <2>1, Zenon DEF Types
  <2>3. Larger(last[c], row[e]) = row[e]
    BY <1>1, <1>3, SMTT(30) DEF Larger
  <2> QED
    BY <1>2, <1>3, <2>2, <2>3, Zenon
<1>4. CASE e \notin Stored
  <2>1. UNCHANGED <<last, mark>>
    BY <1>4, Zenon DEF Deliver
  <2> QED
    BY <1>2, <1>4, <2>1, Zenon
<1> QED
  BY <1>3, <1>4, Zenon

(***************************************************************************)
(* Row numbers are ordered: what the arguments about one row before        *)
(* another use of the naturals.                                            *)
(***************************************************************************)
LEMMA RowOrder ==
  \A k, m, n \in Nat : /\ k <= m /\ m <= k => k = m
                       /\ k < m => ~(m <= k)
                       /\ k > m => k > 0 /\ k # m
                       /\ k > m /\ m > n => k > n
                       /\ ~(k <= m) => k > m
BY SMTT(30)

(***************************************************************************)
(* What comes before a place of a channel that is not the first moves one  *)
(* place forward when the first event is received.                         *)
(***************************************************************************)
LEMMA TailMoves ==
  ASSUME NEW S, NEW q \in Seq(S), NEW i \in 1 .. Len(q), q # <<>>
  PROVE  /\ 1 \in 1 .. i
         /\ i # 1 => /\ i - 1 \in 1 .. Len(Tail(q))
                     /\ Tail(q)[i - 1] = q[i]
                     /\ \A j \in 1 .. i - 1 : j + 1 \in 1 .. i /\ Tail(q)[j] = q[j + 1]
<1>1. Len(q) \in Nat /\ Len(Tail(q)) = Len(q) - 1
  BY SMTT(30)
<1>2. \A j \in 1 .. Len(q) - 1 : Tail(q)[j] = q[j + 1]
  BY SMTT(30)
<1>3. ASSUME i # 1
      PROVE  /\ i - 1 \in 1 .. Len(q) - 1 /\ (i - 1) + 1 = i
             /\ \A j \in 1 .. i - 1 : j + 1 \in 1 .. i /\ j \in 1 .. Len(q) - 1
  BY <1>1, <1>3, SMTT(30)
<1>4. 1 \in 1 .. i
  BY <1>1, SMTT(30)
<1> QED
  BY <1>1, <1>2, <1>3, <1>4, Zenon

(***************************************************************************)
(* The least row of the replay is sent: nothing that is due comes before   *)
(* it.                                                                     *)
(***************************************************************************)
LEMMA SendIsKept ==
  ASSUME Inv, NEW c \in Client, Kept(c), NEW e \in Stored, SendRow(c, e),
         \A f \in committed : Pending(f) => Pending(f)'
  PROVE  Kept(c)'
<1>1. /\ UNCHANGED <<row, committed, channel, streamPc, peer, lagged>>
      /\ streamPc[c] = "send" /\ e \in batch[c] /\ batch'[c] = batch[c] \ {e}
      /\ \A f \in batch[c] : row[e] <= row[f]
  BY Zenon DEF SendRow, dbVars, Inv, Types
<1>2. streamPc[c] # "off" /\ streamPc[c] \in {"send", "live"}
  BY <1>1, Zenon
<1>3. last[c] = mark[c]
  BY <1>2, Zenon DEF Kept, Level
<1>4. /\ e \in committed /\ e \in Event /\ row[e] > last[c]
      /\ \A f \in batch[c] : f \in committed
  BY <1>1, Zenon DEF Inv, Connections, Connection, Waiting, Stored
<1>5. /\ last[c] \in Nat /\ \A f \in committed : f \in Event /\ row[f] \in Nat
  BY Zenon DEF Inv, Types, Stored
<1>6. \/ /\ ~Matches(c, e) /\ last'[c] = last[c] /\ mark'[c] = mark[c]
         /\ seen'[c] = seen[c]
      \/ /\ last'[c] = row[e] /\ mark'[c] = row[e]
         /\ seen'[c] = seen[c] \cup {e}
  <2>1. CASE Matches(c, e)
    <3>1. Deliver(c, e)
      BY <2>1, Zenon DEF SendRow
    <3> QED
      BY <1>3, <1>4, <3>1, Delivers, Zenon DEF Inv
  <2>2. CASE ~Matches(c, e)
    BY <2>2, Zenon DEF SendRow, Skip, clientVars
  <2> QED
    BY <2>1, <2>2, Zenon
<1>7. \A f \in committed : row[f] <= row[e] /\ row[f] > last[c] /\ Matches(c, f) => f = e
  <2> SUFFICES ASSUME NEW f \in committed, row[f] <= row[e], row[f] > last[c], Matches(c, f)
               PROVE  f = e
    BY Zenon
  <2>1. Due(c, f) /\ f \in Stored
    BY Zenon DEF Due, Inv, Types
  <2>2. CASE f \in batch[c]
    <3>1. row[e] <= row[f] /\ row[e] \in Nat /\ row[f] \in Nat /\ last[c] \in Nat
      BY <1>1, <1>4, <1>5, <2>2, Zenon
    <3>2. row[f] = row[e] /\ row[f] > 0
      BY <3>1, RowOrder, Zenon
    <3> QED
      BY <1>4, <1>5, <3>2, Zenon DEF Inv, Database, Numbered
  <2>3. CASE f \notin batch[c]
    <3>1. row[e] < row[f]
      BY <1>1, <2>1, <2>3, Zenon DEF Kept, After
    <3>2. row[e] \in Nat /\ row[f] \in Nat
      BY <1>4, <1>5, Zenon
    <3> QED
      BY <3>1, <3>2, RowOrder, Zenon
  <2> QED
    BY <2>2, <2>3, Zenon
<1>8. \A f : Due(c, f)' => Due(c, f) /\ f # e
  <2> SUFFICES ASSUME NEW f, Due(c, f)' PROVE Due(c, f) /\ f # e
    BY Zenon
  <2>1. f \in committed /\ Matches(c, f) /\ row[f] > last'[c]
    BY <1>1, Zenon DEF Due, Matches
  <2>2. row[e] \in Nat /\ row[f] \in Nat /\ last[c] \in Nat
    BY <1>4, <1>5, <2>1, Zenon
  <2>3. row[f] > last[c]
    BY <1>4, <1>6, <2>1, <2>2, RowOrder, Zenon
  <2>4. f # e
    BY <1>6, <2>1, <2>2, RowOrder, Zenon
  <2> QED
    BY <2>1, <2>3, <2>4, Zenon DEF Due
<1>9. Level(c)'
  BY <1>1, <1>3, <1>6, Zenon DEF Kept, Level
<1>10. Knows(c)'
  <2> SUFFICES ASSUME NEW f \in committed, row[f] <= mark'[c], Matches(c, f)
               PROVE  f \in seen'[c]
    BY <1>1, Zenon DEF Knows, Matches
  <2>1. CASE row[f] <= mark[c]
    <3>1. f \in seen[c]
      BY <2>1, Zenon DEF Kept, Knows
    <3> QED
      BY <1>6, <3>1, Zenon
  <2>2. CASE ~(row[f] <= mark[c])
    <3>1. row[f] > last[c]
      BY <1>3, <1>5, <2>2, RowOrder, Zenon
    <3> QED
      BY <1>6, <1>7, <2>2, <3>1, Zenon
  <2> QED
    BY <2>1, <2>2, Zenon
<1>11. After(c)'
  <2> SUFFICES ASSUME NEW f \in batch'[c], NEW h \in Stored \ batch'[c], Due(c, h)'
               PROVE  row'[f] < row'[h]
    BY Zenon DEF After
  <2>1. f \in batch[c] /\ h \in Stored \ batch[c] /\ Due(c, h)
    BY <1>1, <1>8, Zenon
  <2> QED
    BY <1>1, <2>1, Zenon DEF Kept, After
<1>12. Owed(c)'
  <2> SUFFICES ASSUME c \notin lagged', NEW f \in Stored, Due(c, f)'
               PROVE  Comes(c, f)'
    BY Zenon DEF Owed
  <2>1. Due(c, f) /\ f # e /\ f \in committed
    BY <1>8, Zenon DEF Due
  <2>2. Comes(c, f)
    BY <1>1, <1>2, <2>1, Zenon DEF Kept, Owed
  <2>3. InChannel(c, f) => InChannel(c, f)'
    BY <1>1, Zenon DEF InChannel
  <2> QED
    BY <1>1, <2>1, <2>2, <2>3, Zenon DEF Comes
<1> QED
  BY <1>9, <1>10, <1>11, <1>12, Zenon DEF Kept

(***************************************************************************)
(* A live event is received: nothing that is due comes before it, as what  *)
(* waits behind it is newer.                                               *)
(***************************************************************************)
LEMMA ReceiveIsKept ==
  ASSUME Inv, NEW c \in Client, Kept(c), Receive(c),
         \A f \in committed : Pending(f) => Pending(f)'
  PROVE  Kept(c)'
<1>0. PICK e : e = Head(channel[c])
  BY Zenon
<1>1. /\ UNCHANGED <<row, committed, streamPc, peer, batch, lagged>>
      /\ streamPc[c] = "live" /\ c \notin lagged /\ channel[c] # <<>>
      /\ channel'[c] = Tail(channel[c]) /\ channel[c] \in Seq(Event)
  BY Zenon DEF Receive, dbVars, Inv, Types
<1>2. streamPc[c] # "off" /\ streamPc[c] \in {"send", "live"} /\ streamPc[c] # "send"
  BY <1>1, Zenon
<1>3. last[c] = mark[c] /\ batch[c] = {}
  BY <1>2, NoBatch, Zenon DEF Kept, Level
<1>4. /\ e = channel[c][1] /\ e \in Event /\ 1 \in 1 .. Len(channel[c])
  BY <1>0, <1>1, TakesFirst, Zenon
<1>5. e \in Stored => e \in committed
  BY <1>4, Zenon DEF Inv, Connections, Connection, Waiting
<1>6. /\ last[c] \in Nat /\ \A f \in committed : f \in Event /\ f \in Stored /\ row[f] \in Nat
  BY Zenon DEF Inv, Types, Stored
<1>7. \A f \in committed : row[f] > 0
  BY Zenon DEF Inv, Database, Numbered
<1>8. \A f : Due(c, f) => InChannel(c, f) \/ Pending(f)
  BY <1>1, <1>2, <1>3, <1>6, Zenon DEF Kept, Owed, Comes, Due
<1>9. \/ /\ last'[c] = last[c] /\ mark'[c] = mark[c] /\ seen[c] \subseteq seen'[c]
         /\ ~Due(c, e)
      \/ /\ last'[c] = row[e] /\ mark'[c] = row[e] /\ row[e] > last[c]
         /\ e \in Stored /\ seen'[c] = seen[c] \cup {e}
  <2>1. CASE Stale(c, e) \/ ~Matches(c, e)
    <3>1. Skip
      BY <1>0, <2>1, Zenon DEF Receive
    <3>2. ~Due(c, e)
      <4>1. ASSUME Stale(c, e), Due(c, e) PROVE FALSE
        <5>1. e \in committed /\ row[e] > last[c] /\ row[e] <= last[c]
          BY <4>1, Zenon DEF Stale, Due
        <5> QED
          BY <1>6, <5>1, SMTT(30)
      <4> QED
        BY <2>1, <4>1, Zenon DEF Due
    <3> QED
      BY <3>1, <3>2, Zenon DEF Skip, clientVars
  <2>2. CASE ~Stale(c, e) /\ Matches(c, e)
    <3>1. Deliver(c, e)
      BY <1>0, <2>2, Zenon DEF Receive
    <3>2. e \in Stored => row[e] > last[c]
      BY <1>4, <2>2, FreshIsAfter, Zenon DEF Inv
    <3>3. /\ seen'[c] = seen[c] \cup {e} /\ last'[c] = mark'[c]
          /\ last'[c] = IF e \in Stored THEN row[e] ELSE last[c]
      BY <1>3, <1>4, <3>1, <3>2, Delivers, Zenon DEF Inv
    <3>4. CASE e \in Stored
      BY <3>2, <3>3, <3>4, Zenon
    <3>5. CASE e \notin Stored
      BY <1>3, <1>6, <3>3, <3>5, Zenon DEF Due
    <3> QED
      BY <3>4, <3>5, Zenon
  <2> QED
    BY <2>1, <2>2, Zenon
<1>10. ASSUME e \in Stored
       PROVE  \A f \in committed : row[f] <= row[e] /\ row[f] > last[c] /\ Matches(c, f) => f = e
  <2> SUFFICES ASSUME NEW f \in committed, row[f] <= row[e], row[f] > last[c], Matches(c, f)
               PROVE  f = e
    BY Zenon
  <2>1. Due(c, f)
    BY Zenon DEF Due
  <2>2. row[e] <= row[f]
    <3>1. CASE InChannel(c, f)
      <4>1. PICK i \in 1 .. Len(channel[c]) :
              \A j \in 1 .. i : channel[c][j] \in Stored => row[channel[c][j]] <= row[f]
        BY <3>1, Zenon DEF InChannel
      <4>2. 1 \in 1 .. i
        BY <1>1, TailMoves, Zenon
      <4> QED
        BY <1>4, <1>10, <4>1, <4>2, Zenon
    <3>2. CASE Pending(f)
      BY <1>5, <1>10, <3>2, Zenon DEF Pending
    <3> QED
      BY <1>8, <2>1, <3>1, <3>2, Zenon
  <2>3. row[f] = row[e] /\ row[f] > 0
    BY <1>5, <1>6, <1>7, <1>10, <2>2, RowOrder, Zenon
  <2> QED
    BY <1>4, <1>6, <2>3, Zenon DEF Inv, Database, Numbered
<1>11. \A f : Due(c, f)' => Due(c, f) /\ f # e
  <2> SUFFICES ASSUME NEW f, Due(c, f)' PROVE Due(c, f) /\ f # e
    BY Zenon
  <2>1. f \in committed /\ Matches(c, f) /\ row[f] > last'[c]
    BY <1>1, Zenon DEF Due, Matches
  <2>2. CASE last'[c] = last[c] /\ ~Due(c, e)
    BY <2>1, <2>2, Zenon DEF Due
  <2>3. CASE last'[c] = row[e] /\ row[e] > last[c] /\ e \in Stored
    <3>1. row[e] \in Nat /\ row[f] \in Nat /\ last[c] \in Nat
      BY <1>5, <1>6, <2>1, <2>3, Zenon
    <3>2. row[f] > last[c] /\ f # e
      BY <2>1, <2>3, <3>1, RowOrder, Zenon
    <3> QED
      BY <2>1, <3>2, Zenon DEF Due
  <2> QED
    BY <1>9, <2>2, <2>3, Zenon
<1>12. Level(c)'
  BY <1>1, <1>3, <1>9, Zenon DEF Kept, Level
<1>13. Knows(c)'
  <2> SUFFICES ASSUME NEW f \in committed, row[f] <= mark'[c], Matches(c, f)
               PROVE  f \in seen'[c]
    BY <1>1, Zenon DEF Knows, Matches
  <2>1. CASE row[f] <= mark[c]
    <3>1. f \in seen[c]
      BY <2>1, Zenon DEF Kept, Knows
    <3> QED
      BY <1>9, <3>1, Zenon
  <2>2. CASE ~(row[f] <= mark[c])
    <3>1. row[f] > last[c]
      BY <1>3, <1>6, <2>2, RowOrder, Zenon
    <3>2. mark'[c] = row[e] /\ e \in Stored /\ seen'[c] = seen[c] \cup {e}
      BY <1>9, <2>2, Zenon
    <3>3. f = e
      BY <1>10, <3>1, <3>2, Zenon
    <3> QED
      BY <3>2, <3>3, Zenon
  <2> QED
    BY <2>1, <2>2, Zenon
<1>14. After(c)'
  BY <1>1, <1>3, Zenon DEF After
<1>15. Owed(c)'
  <2> SUFFICES ASSUME NEW f \in Stored, Due(c, f)' PROVE Comes(c, f)'
    BY Zenon DEF Owed
  <2>1. Due(c, f) /\ f # e /\ f \in committed
    BY <1>11, Zenon DEF Due
  <2>2. CASE InChannel(c, f)
    <3>1. PICK i \in 1 .. Len(channel[c]) :
            /\ channel[c][i] = f
            /\ \A j \in 1 .. i : channel[c][j] \in Stored => row[channel[c][j]] <= row[f]
      BY <2>2, Zenon DEF InChannel
    <3>2. i # 1
      BY <1>4, <2>1, <3>1, Zenon
    <3>3. /\ i - 1 \in 1 .. Len(Tail(channel[c])) /\ Tail(channel[c])[i - 1] = channel[c][i]
          /\ \A j \in 1 .. i - 1 : j + 1 \in 1 .. i /\ Tail(channel[c])[j] = channel[c][j + 1]
      BY <1>1, <3>2, TailMoves, Zenon
    <3>4. i - 1 \in 1 .. Len(channel'[c]) /\ channel'[c][i - 1] = f
      BY <1>1, <3>3, <3>1, Zenon
    <3>5. \A j \in 1 .. i - 1 : j + 1 \in 1 .. i /\ channel'[c][j] = channel[c][j + 1]
      BY <1>1, <3>3, Zenon
    <3>6. \A j \in 1 .. i - 1 : channel'[c][j] \in Stored => row'[channel'[c][j]] <= row'[f]
      BY <1>1, <3>1, <3>5, Zenon
    <3> QED
      BY <3>4, <3>6, Zenon DEF Comes, InChannel
  <2>3. CASE Pending(f)
    BY <2>1, <2>3, Zenon DEF Comes
  <2> QED
    BY <1>8, <2>1, <2>2, <2>3, Zenon
<1> QED
  BY <1>12, <1>13, <1>14, <1>15, Zenon DEF Kept

(***************************************************************************)
(* A connection whose replay is not read yet owes nothing.                 *)
(***************************************************************************)
LEMMA IdleIsKept ==
  ASSUME NEW c \in Client, batch'[c] = {}, streamPc'[c] \notin {"send", "live"},
         Level(c)', Knows(c)'
  PROVE  Kept(c)'
<1>1. After(c)'
  BY Zenon DEF After
<1>2. Owed(c)'
  BY Zenon DEF Owed
<1> QED
  BY <1>1, <1>2, Zenon DEF Kept

(***************************************************************************)
(* Every step of a client and of its connection leaves nothing out.        *)
(***************************************************************************)
LEMMA StreamIsKept ==
  ASSUME Undisturbed, ReplaysAreWhole, TypeOK, Inv, NEW c \in Client, Kept(c),
         UNCHANGED <<row, committed>>, \A f \in committed : Pending(f) => Pending(f)',
         \/ Bootstrap(c) \/ \E g \in Gate : Connect(c, g)
         \/ Hello(c) \/ Replay(c) \/ ReplayFails(c)
         \/ \E e \in Stored : SendRow(c, e)
         \/ GoLive(c) \/ Receive(c) \/ LaggedOut(c) \/ Disconnect(c)
  PROVE  Kept(c)'
<1>1. Reject(c) => Kept(c)'
  BY ClosedIsComplete, Zenon DEF Reject, Inv, Types
<1>2. CASE Bootstrap(c)
  <2>1. /\ streamPc[c] = "off" /\ UNCHANGED <<streamPc, batch, mark>>
        /\ seen[c] \subseteq seen'[c]
    BY <1>2, Zenon DEF Bootstrap, streamVars, Inv, Types
  <2>2. batch'[c] = {} /\ streamPc'[c] \notin {"send", "live"}
    BY <2>1, NoBatch, Zenon
  <2>3. Level(c)' /\ Knows(c)'
    BY <2>1, Zenon DEF Kept, Level, Knows, Matches
  <2> QED
    BY <2>2, <2>3, IdleIsKept, Zenon
<1>3. CASE \E g \in Gate : Connect(c, g)
  <2>1. PICK g \in Gate : Connect(c, g)
    BY <1>3, Zenon
  <2>2. /\ streamPc[c] = "off" /\ UNCHANGED <<batch, mark, seen>>
        /\ streamPc'[c] = "hello" /\ last'[c] = mark[c]
    BY <2>1, Zenon DEF Connect, StreamStep, clientVars, Inv, Types
  <2>3. batch'[c] = {} /\ streamPc'[c] \notin {"send", "live"}
    BY <2>2, NoBatch, Zenon
  <2>4. Knows(c)'
    BY <2>2, Zenon DEF Kept, Knows, Matches
  <2>5. peer'[c] = g
    BY <2>1, Zenon DEF Connect, TypeOK
  <2>6. Level(c)'
    BY <2>2, <2>5, Zenon DEF Level
  <2> QED
    BY <2>3, <2>4, <2>6, IdleIsKept, Zenon
<1>4. CASE Hello(c)
  <2>1. CASE ~AgedOut(c)
    <3>1. /\ UNCHANGED <<peer, batch, last, mark, seen>>
          /\ streamPc'[c] = "replay" /\ streamPc[c] = "hello"
      BY <1>4, <2>1, Zenon DEF Hello, StreamStep, clientVars, Inv, Types
    <3>2. batch'[c] = {} /\ streamPc'[c] \notin {"send", "live"} /\ streamPc[c] # "off"
      BY <3>1, NoBatch, Zenon
    <3>3. Level(c)' /\ Knows(c)'
      BY <3>1, <3>2, Zenon DEF Kept, Level, Knows, Matches
    <3> QED
      BY <3>2, <3>3, IdleIsKept, Zenon
  <2> QED
    BY <1>1, <1>4, <2>1, Zenon DEF Hello
<1>5. CASE Replay(c)
  <2>1. /\ UNCHANGED <<peer, last, mark, seen>>
        /\ streamPc'[c] = "send" /\ streamPc[c] = "replay"
        /\ batch'[c] = RowsAfter(mark[c]) /\ mark[c] \in Nat
    BY <1>5, Zenon DEF Replay, StreamStep, clientVars, Inv, Types
  <2>2. RowsAfter(mark[c]) = {e \in committed : row[e] > mark[c]}
    BY Zenon DEF ReplaysAreWhole
  <2>3. streamPc[c] # "off"
    BY <2>1, Zenon
  <2>4. peer[c] \in Gate /\ last[c] = mark[c]
    BY <2>3, Zenon DEF Kept, Level
  <2>5. \A e : Due(c, e)' => e \in batch'[c]
    BY <2>1, <2>2, <2>4, Zenon DEF Due
  <2>6. Level(c)' /\ Knows(c)'
    BY <2>1, <2>4, Zenon DEF Kept, Level, Knows, Matches
  <2>7. After(c)' /\ Owed(c)'
    BY <2>5, Zenon DEF After, Owed, Comes
  <2> QED
    BY <2>6, <2>7, Zenon DEF Kept
<1>6. CASE ReplayFails(c)
  BY <1>6, Zenon DEF ReplayFails, Undisturbed
<1>7. CASE \E e \in Stored : SendRow(c, e)
  BY <1>7, SendIsKept, Zenon
<1>8. CASE GoLive(c)
  <2>1. /\ UNCHANGED <<peer, batch, channel, lagged, last, mark, seen>>
        /\ streamPc'[c] = "live" /\ streamPc[c] = "send" /\ batch[c] = {}
    BY <1>8, Zenon DEF GoLive, StreamStep, clientVars, Inv, Types
  <2>2. streamPc[c] # "off" /\ streamPc[c] \in {"send", "live"}
    BY <2>1, Zenon
  <2>3. Level(c)' /\ Knows(c)' /\ After(c)'
    BY <2>1, <2>2, Zenon DEF Kept, Level, Knows, Matches, After
  <2>4. Owed(c)'
    <3> SUFFICES ASSUME c \notin lagged', NEW f \in Stored, Due(c, f)'
                 PROVE  Comes(c, f)'
      BY Zenon DEF Owed
    <3>1. Due(c, f) /\ f \in committed
      BY <2>1, Zenon DEF Due, Matches
    <3>2. Comes(c, f)
      BY <2>1, <2>2, <3>1, Zenon DEF Kept, Owed
    <3>3. InChannel(c, f) => InChannel(c, f)'
      BY <2>1, Zenon DEF InChannel
    <3> QED
      BY <2>1, <3>1, <3>2, <3>3, Zenon DEF Comes
  <2> QED
    BY <2>3, <2>4, Zenon DEF Kept
<1>9. CASE Receive(c)
  BY <1>9, ReceiveIsKept, Zenon
<1>10. CASE LaggedOut(c)
  BY <1>1, <1>10, Zenon DEF LaggedOut
<1>11. CASE Disconnect(c)
  BY <1>11, ClosedIsComplete, Zenon DEF Disconnect, clientVars
<1> QED
  BY <1>2, <1>3, <1>4, <1>5, <1>6, <1>7, <1>8, <1>9, <1>10, <1>11, Zenon

(***************************************************************************)
(* A step of one connection leaves the others as they are.                 *)
(***************************************************************************)
LEMMA OthersSame ==
  ASSUME TypeOK, Inv, NEW c \in Client, NEW d \in Client \ {c},
         \/ Bootstrap(c) \/ \E g \in Gate : Connect(c, g)
         \/ Hello(c) \/ Replay(c) \/ ReplayFails(c)
         \/ \E e \in Stored : SendRow(c, e)
         \/ GoLive(c) \/ Receive(c) \/ LaggedOut(c) \/ Disconnect(c)
  PROVE  Same(d)
<1>1. Untouched(d)
  BY OthersUntouched, Zenon DEF Inv
<1>2. peer \in [Client -> Gate \cup {Nil}]
  BY Zenon DEF TypeOK
<1>3. Close(c) => peer'[d] = peer[d] /\ (d \in lagged' <=> d \in lagged)
  BY <1>2, Zenon DEF Close
<1>4. peer'[d] = peer[d] /\ (d \in lagged' <=> d \in lagged)
  BY <1>2, <1>3, Zenon DEF Bootstrap, streamVars, Connect, Hello, Reject, Replay,
     ReplayFails, SendRow, GoLive, Receive, LaggedOut, Disconnect
<1> QED
  BY <1>1, <1>4, Zenon DEF Same, Untouched

(***************************************************************************)
(* What the published-event cache holds is what was remembered before, or  *)
(* the new event.                                                          *)
(***************************************************************************)
LEMMA Remembers ==
  ASSUME NEW q \in Seq(Stored), NEW e \in Stored, CacheSize \in Nat \ {0}
  PROVE  \A i \in 1 .. Len(Remember(q, e)) :
           Remember(q, e)[i] = e \/ \E j \in 1 .. Len(q) : Remember(q, e)[i] = q[j]
<1>1. CASE Len(q) >= CacheSize
  <2>1. q # <<>> /\ Tail(q) \in Seq(Stored)
    BY <1>1, SMTT(30)
  <2>2. Remember(q, e) = Append(Tail(q), e)
    BY <1>1, Zenon DEF Remember
  <2> QED
    BY <2>1, <2>2, SMTT(30)
<1>2. CASE ~(Len(q) >= CacheSize)
  <2>1. Remember(q, e) = Append(q, e)
    BY <1>2, Zenon DEF Remember
  <2> QED
    BY <2>1, SMTT(30)
<1> QED
  BY <1>1, <1>2, Zenon

(***************************************************************************)
(* With one push at a time the row that is inserted is the newest, and     *)
(* with one process the cache holds committed events and is empty after a  *)
(* restart.                                                                *)
(***************************************************************************)
LEMMA InTurnIsKept ==
  ASSUME Undisturbed, TypeOK, Inv, InTurn, [Next]_vars
  PROVE  InTurn'
<1> USE DEF Undisturbed
<1>1. ASSUME UNCHANGED <<row, committed, pushPc, event, gate, cache>> PROVE InTurn'
  BY <1>1, Zenon DEF InTurn
<1>2. CASE StreamNext \/ UNCHANGED vars
  <2>1. UNCHANGED <<dbVars, pushVars, cache>>
    BY <1>2, Zenon DEF StreamNext, Bootstrap, Connect, Hello, Reject, Replay, ReplayFails,
       SendRow, GoLive, Receive, LaggedOut, Disconnect, vars
  <2> QED
    BY <1>1, <2>1, Zenon DEF dbVars, pushVars
<1>3. ASSUME NEW g \in Gate, Restart(g) PROVE InTurn'
  <2>1. /\ \A p \in Push : pushPc'[p] = "idle" \/ (pushPc'[p] = pushPc[p] /\ gate'[p] # g)
        /\ \A p \in Push : gate'[p] = Nil \/ gate'[p] = gate[p]
        /\ committed' = committed /\ cache'[g] = <<>>
    BY <1>3, Zenon DEF Restart, TypeOK
  <2>2. \A p \in Push : pushPc'[p] = "idle"
    <3> SUFFICES ASSUME NEW p \in Push, pushPc'[p] # "idle" PROVE FALSE
      BY Zenon
    <3>1. pushPc[p] # "idle" /\ gate[p] # g
      BY <1>3, Zenon DEF Restart
    <3> QED
      BY <3>1, Zenon DEF InTurn
  <2>3. \A h \in Gate : cache'[h] = <<>>
    BY <2>1, Zenon
  <2>4. 1 .. Len(<<>>) = {}
    BY SMTT(30)
  <2> QED
    BY <2>2, <2>3, <2>4, Zenon DEF InTurn
<1>4. CASE PushNext
  <2>1. PICK p \in Push :
          \/ \E e \in Event, g \in Gate : Ingest(p, e, g)
          \/ PassOn(p) \/ Superseded(p)
          \/ Insert(p) \/ Duplicate(p) \/ Commit(p) \/ Project(p) \/ Publish(p)
          \/ PushFails(p)
    BY <1>4, Zenon DEF PushNext
  <2>2. \A q \in Push : q = p
    BY Zenon
  <2>3. pushPc \in [Push -> {"idle", "store", "commit", "project", "publish"}]
        /\ gate \in [Push -> Gate \cup {Nil}]
    BY Zenon DEF TypeOK
  <2>4. CASE \E e \in Event, g \in Gate : Ingest(p, e, g)
    BY <2>2, <2>3, <2>4, SMTT(30) DEF InTurn, Ingest, Step, dbVars
  <2>5. CASE PassOn(p) \/ Duplicate(p)
    BY <2>2, <2>3, <2>5, Zenon DEF InTurn, PassOn, Duplicate, Step, dbVars
  <2>6. CASE Superseded(p)
    BY <2>2, <2>3, <2>6, Zenon DEF InTurn, Superseded, Finish, dbVars
  <2>7. CASE Insert(p)
    <3>1. /\ event[p] \in Stored \ committed /\ row' = [row EXCEPT ![event[p]] = cursor + 1]
          /\ pushPc[p] = "store" /\ pushPc'[p] = "commit"
          /\ UNCHANGED <<committed, event, gate, cache>>
      BY <2>3, <2>7, Zenon DEF Insert, Step
    <3>2. \A e \in committed : row'[e] < row'[event[p]]
      <4> SUFFICES ASSUME NEW e \in committed PROVE row'[e] < row'[event[p]]
        BY Zenon
      <4>1. e \in Event /\ event[p] \in Event /\ e # event[p]
        BY <3>1, Zenon DEF Inv, Types, Stored
      <4>2. row'[e] = row[e] /\ row'[event[p]] = cursor + 1
        BY <3>1, <4>1, Zenon DEF Inv, Types
      <4>3. row[e] <= cursor /\ row[e] \in Nat /\ cursor \in Nat
        BY <4>1, Zenon DEF Inv, Types, Database, Numbered
      <4> QED
        BY <4>2, <4>3, SMTT(30)
    <3>3. gate[p] \in Gate
      BY <3>1, Zenon DEF InTurn
    <3> QED
      BY <2>2, <3>1, <3>2, <3>3, Zenon DEF InTurn
  <2>8. CASE Commit(p)
    <3>1. /\ pushPc[p] = "commit" /\ pushPc'[p] # "commit"
          /\ UNCHANGED <<gate, cache>> /\ committed \subseteq committed'
      <4>1. pushPc[p] = "commit" /\ pushPc' = [pushPc EXCEPT ![p] =
                IF event[p] \in Space THEN "publish" ELSE "project"]
        BY <2>8, Zenon DEF Commit, Step
      <4> QED
        BY <2>3, <2>8, <4>1, Zenon DEF Commit
    <3>2. gate[p] \in Gate
      BY <3>1, Zenon DEF InTurn
    <3> QED
      BY <2>2, <3>1, <3>2, Zenon DEF InTurn
  <2>9. CASE Project(p)
    BY <2>2, <2>3, <2>9, Zenon DEF InTurn, Project, Step
  <2>10. CASE Publish(p)
    <3>1. /\ pushPc[p] = "publish" /\ pushPc'[p] = "idle" /\ UNCHANGED committed
      BY <2>3, <2>10, Zenon DEF Publish, Finish, dbVars
    <3>2. \/ cache' = cache
          \/ /\ event[p] \in Stored
             /\ cache' = [cache EXCEPT ![gate[p]] = Remember(cache[gate[p]], event[p])]
      <4>1. event[p] \in Event
        BY <3>1, Zenon DEF Inv, Database, Pushes
      <4> QED
        BY <2>10, <4>1, Zenon DEF Publish, Stored
    <3>3. ASSUME NEW g \in Gate, NEW i \in 1 .. Len(cache'[g])
          PROVE  cache'[g][i] \in committed'
      <4>1. CASE cache' = cache
        BY <3>1, <4>1, <3>3, Zenon DEF InTurn
      <4>2. CASE /\ event[p] \in Stored
                 /\ cache' = [cache EXCEPT ![gate[p]] = Remember(cache[gate[p]], event[p])]
        <5>1. event[p] \in committed
          BY <3>1, <4>2, Zenon DEF Inv, Database, Pushes
        <5>2. gate[p] = g
          BY <3>1, Zenon DEF InTurn
        <5>3. cache'[g] = Remember(cache[g], event[p]) /\ cache[g] \in Seq(Stored)
          BY <4>2, <5>2, Zenon DEF TypeOK
        <5>4. cache'[g][i] = event[p] \/ \E j \in 1 .. Len(cache[g]) : cache'[g][i] = cache[g][j]
          <6>1. CacheSize \in Nat \ {0}
            BY StreamAssumption, Zenon
          <6>2. \A k \in 1 .. Len(Remember(cache[g], event[p])) :
                  \/ Remember(cache[g], event[p])[k] = event[p]
                  \/ \E j \in 1 .. Len(cache[g]) : Remember(cache[g], event[p])[k] = cache[g][j]
            BY <4>2, <5>3, <6>1, Remembers, SMTT(30)
          <6> QED
            BY <3>3, <5>3, <6>2, Zenon
        <5> QED
          BY <3>1, <5>1, <5>4, Zenon DEF InTurn
      <4> QED
        BY <3>2, <4>1, <4>2, Zenon
    <3> QED
      BY <2>2, <3>1, <3>3, Zenon DEF InTurn
  <2>11. CASE PushFails(p)
    BY <2>11, Zenon DEF PushFails
  <2> QED
    BY <2>1, <2>4, <2>5, <2>6, <2>7, <2>8, <2>9, <2>10, <2>11, Zenon
<1> QED
  BY <1>2, <1>3, <1>4, Zenon DEF Next

(***************************************************************************)
(* Every step of a push leaves nothing out: until its commit it is no      *)
(* concern of connections, and from its commit to its broadcast its event  *)
(* is pending.                                                             *)
(***************************************************************************)
LEMMA PushIsKept ==
  ASSUME Undisturbed, Inv, InTurn, PushNext, NEW c \in Client, Kept(c)
  PROVE  Kept(c)'
<1>1. PICK p \in Push :
        \/ \E e \in Event, g \in Gate : Ingest(p, e, g)
        \/ PassOn(p) \/ Superseded(p)
        \/ Insert(p) \/ Duplicate(p) \/ Commit(p) \/ Project(p) \/ Publish(p)
        \/ PushFails(p)
  BY Zenon DEF PushNext
<1>2. RowsStay
  BY PushKeepsDatabase, Zenon DEF Inv
<1>3. CASE \/ \E e \in Event, g \in Gate : Ingest(p, e, g)
           \/ PassOn(p) \/ Superseded(p) \/ Insert(p) \/ Duplicate(p)
  <2>1. pushPc[p] \in {"idle", "store"}
    BY <1>3, Zenon DEF Ingest, PassOn, Superseded, Insert, Duplicate, Step
  <2>2. UNCHANGED <<committed, streamVars, clientVars>>
    BY <1>3, Zenon DEF Ingest, PassOn, Superseded, Insert, Duplicate, dbVars
  <2>3. Same(c)
    BY <2>2, Zenon DEF Same, streamVars, clientVars
  <2>4. pushPc[p] \notin {"project", "publish"}
    BY <2>1, Zenon
  <2>5. \A e : ~Pending(e)
    BY <2>4, Zenon DEF Pending, Undisturbed
  <2> QED
    BY <1>2, <2>2, <2>3, <2>5, SameIsKept, Zenon
<1>4. CASE Commit(p)
  BY <1>4, CommitIsKept, Zenon
<1>5. CASE Project(p)
  <2>1. UNCHANGED <<row, committed, event, gate, cache, streamVars, clientVars>>
    BY <1>5, Zenon DEF Project
  <2>2. pushPc'[p] = "publish"
    BY <1>5, Zenon DEF Project, Step, Inv, Types
  <2>3. Same(c)
    BY <2>1, Zenon DEF Same, streamVars, clientVars
  <2>4. ASSUME NEW e \in committed, Pending(e) PROVE Pending(e)'
    <3>1. /\ event[p] = e /\ ~Cached(gate[p], e) /\ \A f \in committed : row[f] <= row[e]
      BY <2>4, Zenon DEF Pending, Undisturbed
    <3>2. pushPc'[p] \in {"project", "publish"}
      BY <2>2, Zenon
    <3> QED
      BY <2>1, <3>1, <3>2, Zenon DEF Pending, Cached
  <2> QED
    BY <1>2, <2>1, <2>3, <2>4, SameIsKept, Zenon
<1>6. CASE Publish(p)
  BY <1>6, PublishIsKept, Zenon
<1>7. CASE PushFails(p)
  BY <1>7, Zenon DEF PushFails, Undisturbed
<1> QED
  BY <1>1, <1>3, <1>4, <1>5, <1>6, <1>7, Zenon

(***************************************************************************)
(* The invariant holds in every step.                                      *)
(***************************************************************************)
LEMMA ResumeIsKept ==
  ASSUME Undisturbed, ReplaysAreWhole, TypeOK, Inv, ResumeInv, [Next]_vars
  PROVE  ResumeInv'
<1>1. InTurn /\ \A c \in Client : Kept(c)
  BY Zenon DEF ResumeInv
<1>2. InTurn'
  BY <1>1, InTurnIsKept, Zenon
<1>3. ASSUME NEW c \in Client PROVE Kept(c)'
  <2>1. CASE PushNext
    BY <1>1, <2>1, PushIsKept, Zenon
  <2>2. ASSUME UNCHANGED <<dbVars, pushVars, cache>>
        PROVE  /\ UNCHANGED <<row, committed>> /\ RowsStay
               /\ \A f \in committed : Pending(f) => Pending(f)'
    BY <2>2, Zenon DEF RowsStay, Pending, Cached, dbVars, pushVars
  <2>3. CASE StreamNext
    <3>1. PICK d \in Client :
            \/ Bootstrap(d) \/ \E g \in Gate : Connect(d, g)
            \/ Hello(d) \/ Replay(d) \/ ReplayFails(d)
            \/ \E e \in Stored : SendRow(d, e)
            \/ GoLive(d) \/ Receive(d) \/ LaggedOut(d) \/ Disconnect(d)
      BY <2>3, Zenon DEF StreamNext
    <3>2. UNCHANGED <<dbVars, pushVars, cache>>
      BY <3>1, Zenon DEF Bootstrap, Connect, Hello, Reject, Replay, ReplayFails,
         SendRow, GoLive, Receive, LaggedOut, Disconnect
    <3>3. CASE d = c
      BY <1>1, <2>2, <3>1, <3>2, <3>3, StreamIsKept, Zenon
    <3>4. CASE d # c
      <4>1. Same(c)
        BY <3>1, <3>4, OthersSame, Zenon
      <4> QED
        BY <1>1, <2>2, <3>2, <4>1, SameIsKept, Zenon
    <3> QED
      BY <3>3, <3>4, Zenon
  <2>4. CASE \E g \in Gate : Restart(g)
    BY <1>1, <2>4, RestartIsKept, Zenon
  <2>5. CASE UNCHANGED vars
    <3>1. UNCHANGED <<dbVars, pushVars, cache>> /\ Same(c)
      BY <2>5, Zenon DEF vars, Same, streamVars, clientVars
    <3> QED
      BY <1>1, <2>2, <3>1, SameIsKept, Zenon
  <2> QED
    BY <2>1, <2>3, <2>4, <2>5, Zenon DEF Next
<1> QED
  BY <1>2, <1>3, Zenon DEF ResumeInv

(***************************************************************************)
(* A client whose cursor handle_ws has not rejected knows every event up   *)
(* to it that it may see, though connections break, channels lag, the      *)
(* cache forgets, pushes are repeated and the process restarts: for any    *)
(* events, clients, channel and cache, while pushes come one at a time to  *)
(* one process and do not fail before they are broadcast, and replays      *)
(* neither fail nor are cut off.                                           *)
(***************************************************************************)
THEOREM ResumeHolds ==
  Undisturbed => (Spec /\ []ReplaysAreWhole => []ResumeIsComplete)
<1> SUFFICES ASSUME Undisturbed
             PROVE  Spec /\ []ReplaysAreWhole => []ResumeIsComplete
  BY Zenon
<1>1. Init => ResumeInv
  <2> SUFFICES ASSUME Init PROVE ResumeInv
    BY Zenon
  <2>1. InTurn
    BY SMTT(30) DEF Init, InTurn
  <2>2. ASSUME NEW c \in Client PROVE Kept(c)
    <3>1. /\ streamPc[c] = "off" /\ batch[c] = {} /\ committed = {}
      BY Zenon DEF Init
    <3>2. Level(c) /\ Knows(c) /\ After(c)
      BY <3>1, Zenon DEF Level, Knows, After
    <3>3. Owed(c)
      BY <3>1, Zenon DEF Owed
    <3> QED
      BY <3>2, <3>3, Zenon DEF Kept
  <2> QED
    BY <2>1, <2>2, Zenon DEF ResumeInv
<1>2. ReplaysAreWhole /\ TypeOK /\ Inv /\ ResumeInv /\ [Next]_vars => ResumeInv'
  BY ResumeIsKept, Zenon
<1>3. ResumeInv => ResumeIsComplete
  BY Zenon DEF ResumeInv, Kept, Knows, ResumeIsComplete
<1> QED
  BY <1>1, <1>2, <1>3, StreamInvariant, TypesHold, PTL DEF Spec
=============================================================================
