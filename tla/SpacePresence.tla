---------------------------- MODULE SpacePresence ----------------------------
(***************************************************************************)
(* Where agents are, which nodes are alive and what has happened in a      *)
(* space: the records of space.rs, each the newest of its key.             *)
(*                                                                         *)
(* A pushed event carries one record and a snapshot several, which one     *)
(* transaction stores in the snapshot's order.  An upsert locks the row of *)
(* its key until the transaction ends, and what it changes is told to the  *)
(* clients by a row of gateway_ui_events, numbered when it is inserted.    *)
(* Two snapshots may lock rows in opposite orders; PostgreSQL then aborts  *)
(* one of them.                                                            *)
(*                                                                         *)
(* A record is its key and a number: the seq of an agent's presence, the   *)
(* time of a heartbeat, 1 for a world event.  Records are valid here, and  *)
(* the rows are sent to clients by module UiStream.                        *)
(***************************************************************************)
EXTENDS Naturals, Sequences, FiniteSets, Subsequences

CONSTANTS
  Key,
  Heart,   \* keys of node heartbeats
  World,   \* keys of world events
  MaxSeq,
  Input,   \* the events and snapshots that arrive
  Req,     \* requests that run at a time
  Nil

Record == [key : Key, seq : 1 .. MaxSeq]

ASSUME SpaceAssumption ==
  /\ Heart \subseteq Key /\ World \subseteq Key /\ Heart \cap World = {}
  /\ MaxSeq \in Nat /\ Nil \notin Req \cup Input
  /\ \A x \in Input :
       /\ x.kind \in {"event", "snapshot"}
       /\ x.records \in Seq(Record) /\ x.records # <<>>
       /\ x.kind = "event" => Len(x.records) = 1
       /\ \A j \in DOMAIN x.records : x.records[j].key \in World => x.records[j].seq = 1

VARIABLES
  stored,  \* the committed number of a key, 0: no row
  draft,   \* the number an open transaction has written, 0: none
  lock,    \* the request whose transaction holds the row of a key
  ui,      \* committed and open rows of gateway_ui_events, by cursor
  job,     \* the input of a request
  done     \* how many of its records are stored or refused

vars == <<stored, draft, lock, ui, job, done>>

UiRow == [key : Key, seq : 1 .. MaxSeq, from : Input,
          tx : Req \cup {Nil}]  \* the open transaction; Nil: committed

TypeOK ==
  /\ stored \in [Key -> 0 .. MaxSeq] /\ draft \in [Key -> 0 .. MaxSeq]
  /\ lock \in [Key -> Req \cup {Nil}]
  /\ ui \in Seq(UiRow)
  /\ job \in [Req -> Input \cup {Nil}] /\ done \in [Req -> Nat]
  /\ \A r \in Req : done[r] <= IF job[r] = Nil THEN 0 ELSE Len(job[r].records)
  /\ \A k \in Key : /\ draft[k] # 0 => lock[k] # Nil
                    /\ lock[k] # Nil => job[lock[k]] # Nil

Init ==
  /\ stored = [k \in Key |-> 0] /\ draft = stored
  /\ lock = [k \in Key |-> Nil]
  /\ ui = <<>>
  /\ job = [r \in Req |-> Nil]
  /\ done = [r \in Req |-> 0]

Arrive(r, x) ==
  /\ job[r] = Nil
  /\ job' = [job EXCEPT ![r] = x]
  /\ UNCHANGED <<stored, draft, lock, ui, done>>

Working(r) == job[r] # Nil /\ done[r] < Len(job[r].records)
At(r) == job[r].records[done[r] + 1]
Free(r) == lock[At(r).key] \in {Nil, r}
Seen(k) == IF draft[k] # 0 THEN draft[k] ELSE stored[k]

\* The conditions of upsert_presence, upsert_node_presence, upsert_world_event.
Accepts(k, s) == IF k \in World THEN Seen(k) = 0 ELSE Seen(k) < s

\* Mutant: what a snapshot changes is not told.
ToldByEvent(r) == job[r].kind = "event"

\* A heartbeat that comes as an event is broadcast and not stored as a row.
Told(r) == job[r].kind = "snapshot" \/ At(r).key \notin Heart

Row(r, tx) == [key |-> At(r).key, seq |-> At(r).seq, from |-> job[r], tx |-> tx]

\* Mutant: every record of a snapshot is a transaction of its own.
StoreAlone(r) ==
  LET k == At(r).key
  IN  /\ Working(r) /\ Free(r) /\ Accepts(k, At(r).seq)
      /\ stored' = [stored EXCEPT ![k] = At(r).seq]
      /\ ui' = IF Told(r) THEN Append(ui, Row(r, Nil)) ELSE ui
      /\ done' = [done EXCEPT ![r] = @ + 1]
      /\ UNCHANGED <<lock, draft, job>>

\* The upsert has found its record new: the row and its UI row are written.
Store(r) ==
  LET k == At(r).key
  IN  /\ Working(r) /\ Free(r) /\ Accepts(k, At(r).seq)
      /\ lock' = [lock EXCEPT ![k] = r]
      /\ draft' = [draft EXCEPT ![k] = At(r).seq]
      /\ ui' = IF Told(r) THEN Append(ui, Row(r, r)) ELSE ui
      /\ done' = [done EXCEPT ![r] = @ + 1]
      /\ UNCHANGED <<stored, job>>

End(r) ==
  /\ lock' = [k \in Key |-> IF lock[k] = r THEN Nil ELSE lock[k]]
  /\ draft' = [k \in Key |-> IF lock[k] = r THEN 0 ELSE draft[k]]
  /\ job' = [job EXCEPT ![r] = Nil]
  /\ done' = [done EXCEPT ![r] = 0]

\* Mutant: an event is told though its record is refused.
RefuseAndTell(r) ==
  /\ Working(r) /\ Free(r) /\ ~Accepts(At(r).key, At(r).seq)
  /\ IF Told(r) THEN Len(ui) < 6 /\ ui' = Append(ui, Row(r, r)) ELSE UNCHANGED ui
  /\ done' = [done EXCEPT ![r] = @ + 1]
  /\ UNCHANGED <<stored, lock, draft, job>>

\* An event that brings nothing new ends; a snapshot goes on and keeps the
\* lock, which "on conflict do update" takes and "do nothing" does not.
Refuse(r) ==
  LET k == At(r).key
  IN  /\ Working(r) /\ Free(r) /\ ~Accepts(k, At(r).seq)
      /\ IF job[r].kind = "event" THEN End(r)
         ELSE /\ lock' = IF k \in World THEN lock ELSE [lock EXCEPT ![k] = r]
              /\ done' = [done EXCEPT ![r] = @ + 1]
              /\ UNCHANGED <<draft, job>>
      /\ UNCHANGED <<stored, ui>>

\* Mutant: the locks of a transaction are kept.
CommitHolding(r) ==
  /\ job[r] # Nil /\ ~Working(r)
  /\ job' = [job EXCEPT ![r] = Nil] /\ done' = [done EXCEPT ![r] = 0]
  /\ stored' = [k \in Key |-> IF lock[k] = r /\ draft[k] # 0 THEN draft[k] ELSE stored[k]]
  /\ ui' = [i \in DOMAIN ui |-> IF ui[i].tx = r THEN [ui[i] EXCEPT !.tx = Nil] ELSE ui[i]]
  /\ UNCHANGED <<lock, draft>>

\* persist_event, persist_node_presence, persist_snapshot_space commit.
Commit(r) ==
  /\ job[r] # Nil /\ ~Working(r) /\ End(r)
  /\ stored' = [k \in Key |-> IF lock[k] = r /\ draft[k] # 0 THEN draft[k] ELSE stored[k]]
  /\ ui' = [i \in DOMAIN ui |-> IF ui[i].tx = r THEN [ui[i] EXCEPT !.tx = Nil] ELSE ui[i]]

\* An error, a lost connection, a dropped request or a deadlock: the
\* transaction is rolled back and its numbers are a hole in the cursors.
Fail(r) ==
  /\ job[r] # Nil /\ End(r)
  /\ ui' = Subsequence(ui, {i \in DOMAIN ui : ui[i].tx # r})
  /\ UNCHANGED stored

Next ==
  \E r \in Req :
    \/ \E x \in Input : Arrive(r, x)
    \/ Store(r) \/ Refuse(r) \/ Commit(r) \/ Fail(r)

Spec == Init /\ [][Next]_vars

Waits(r, q) == Working(r) /\ lock[At(r).key] = q /\ q # r

\* PostgreSQL finds two requests that wait for each other and aborts one.
Victim(r) == (\E q \in Req : Waits(r, q) /\ Waits(q, r)) /\ Fail(r)

(***************************************************************************)
(* Requests go on.  PostgreSQL serves those that wait for a row in turn,   *)
(* and breaks a deadlock after deadlock_timeout.                           *)
(***************************************************************************)
Fairness ==
  \A r \in Req : /\ SF_vars(Store(r) \/ Refuse(r))
                 /\ WF_vars(Commit(r))
                 /\ WF_vars(Victim(r))

FairSpec == Spec /\ Fairness

-----------------------------------------------------------------------------
(* Properties.                                                             *)

Committed == {i \in DOMAIN ui : ui[i].tx = Nil}
Of(k) == {i \in Committed : ui[i].key = k}

(***************************************************************************)
(* The UI rows of a key are numbered in the order of its records and tell  *)
(* each of them once, though events and snapshots name their rows          *)
(* differently: a client that applies rows in cursor order never goes back.*)
(***************************************************************************)
CursorsFollowRecords ==
  \A k \in Key : \A i, j \in Of(k) : i < j => ui[i].seq < ui[j].seq

(***************************************************************************)
(* Whoever has read all committed rows knows what REST serves: the last    *)
(* row of a key is the stored record.  Heartbeats also come as events that *)
(* leave no row.                                                           *)
(***************************************************************************)
LastRowIsStored ==
  \A k \in Key :
    /\ \A i \in Of(k) : ui[i].seq <= stored[k]
    /\ k \notin Heart /\ stored[k] # 0
         => \E i \in Of(k) : ui[i].seq = stored[k] /\ \A j \in Of(k) : j <= i

(***************************************************************************)
(* Once one record of a snapshot is told, all of its records, or newer     *)
(* ones, are stored: no failure or deadlock leaves half of a snapshot.     *)
(***************************************************************************)
SnapshotIsWhole ==
  \A i \in Committed :
    LET x == ui[i].from
    IN  \A j \in DOMAIN x.records : stored[x.records[j].key] >= x.records[j].seq

(***************************************************************************)
(* Every request ends, though snapshots lock rows in opposite orders.      *)
(***************************************************************************)
RequestsEnd == \A r \in Req : job[r] # Nil ~> job[r] = Nil
=============================================================================
