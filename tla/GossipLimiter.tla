--------------------------- MODULE GossipLimiter ---------------------------
(***************************************************************************)
(* How a gateway bounds the work its peers' gossip causes.                 *)
(*                                                                         *)
(* An announcement of a snapshot waits in the queue of its lane.  The      *)
(* dispatcher takes it out, waits for one of the lane's slots and spawns a *)
(* task.  The task is admitted to the entry of its peer, which is made by  *)
(* the first and removed by the last that is in it, and then needs the     *)
(* entry's permit and one of the snapshot permits; a task that finds one   *)
(* taken waits to be notified.  The lane of the events has a queue, slots  *)
(* and a semaphore of its own and shares nothing with this one.            *)
(*                                                                         *)
(* The tasks run on several threads: every operation on a semaphore, on a  *)
(* Notify or under the mutex of the entries is a step.  What a task reads  *)
(* from the database or is answered by its peer is an arbitrary choice     *)
(* here; module SnapshotSync follows the data.                             *)
(***************************************************************************)
EXTENDS Naturals, Sequences, FiniteSets

CONSTANTS
  Gossip,     \* the announcements, and the tasks that handle them
  Peer,
  Announcer,  \* the peer of an announcement
  Workers,    \* SNAPSHOT_WORKER_COUNT
  Capacity,   \* GOSSIP_WORK_QUEUE_CAPACITY
  Nil

ASSUME LimiterAssumption ==
  /\ Announcer \in [Gossip -> Peer]
  /\ Workers \in Nat \ {0}
  /\ Capacity \in Nat /\ Capacity >= Workers
  /\ Nil \notin Gossip /\ "all" \notin Gossip

VARIABLES
  pc,         \* of a task; "queued" and "held" by the dispatcher at first
  entry,      \* of a peer: the task whose admission made its entry, or Nil
  pending,    \* of an entry: the admissions it counts
  gate,       \* of a task: the entry it is admitted to
  free,       \* of an entry and of all: the permits that are free
  waiters,    \* of an entry and of all: the tasks a Notify has registered
  stored,     \* the Notifys that hold a permit for the next to ask
  missed      \* tasks about to wait when two notifications became one

vars == <<pc, entry, pending, gate, free, waiters, stored, missed>>

\* MAX_PENDING_SNAPSHOT_FETCHES_PER_PEER
MaxPending == Capacity \div Workers

\* snapshot_global, snapshot_global_notify
All == "all"

Waiting == {"net", "queued", "held"}
Over == {"done", "dropped"}
Asleep == {"onPeer", "onAll"}
Releasing == {"tellPeer", "freeAll", "tellAll", "leave"}
Acquiring == {"peer", "woken", "passOn", "waitPeer", "all", "backOff", "retell",
              "waitAll"}
\* No snapshot permit was free, and the task is not registered yet.
TurnedAway == {"backOff", "retell", "waitAll"}
Admitted == Asleep \cup Acquiring \cup Releasing \cup {"fetch"}

TypeOK ==
  /\ pc \in [Gossip -> Waiting \cup Over \cup Admitted \cup {"handle"}]
  /\ entry \in [Peer -> Gossip \cup {Nil}]
  /\ pending \in [Gossip -> 0 .. MaxPending]
  /\ gate \in [Gossip -> Gossip \cup {Nil}]
  /\ free \in [Gossip \cup {All} -> 0 .. Workers]
  /\ waiters \in [Gossip \cup {All} -> Seq(Gossip)]
  /\ stored \subseteq Gossip \cup {All}
  /\ missed \subseteq Gossip
  /\ \A t \in Gossip : gate[t] # Nil <=> pc[t] \in Admitted

Init ==
  /\ pc = [t \in Gossip |-> "net"]
  /\ entry = [p \in Peer |-> Nil]
  /\ pending = [t \in Gossip |-> 0]
  /\ gate = [t \in Gossip |-> Nil]
  /\ free = [n \in Gossip \cup {All} |-> IF n = All THEN Workers ELSE 0]
  /\ waiters = [n \in Gossip \cup {All} |-> <<>>]
  /\ stored = {} /\ missed = {}

-----------------------------------------------------------------------------
(* The queues and the dispatchers.                                         *)

permits == <<entry, pending, gate, free, waiters, stored,
             missed>>

Step(t, from, to) == pc[t] = from /\ pc' = [pc EXCEPT ![t] = to]

\* The tasks at one of the steps P.
At(P) == {t \in Gossip : pc[t] \in P}

\* enqueue_gossip: what finds the queue full is dropped.  Gossip comes
\* in any order, so the queue's own order is left out.
Enqueue(t) ==
  /\ Step(t, "net", IF Cardinality(At({"queued"})) < Capacity
                    THEN "queued" ELSE "dropped")
  /\ UNCHANGED permits

\* The dispatcher receives one ...
Receive(t) ==
  /\ At({"held"}) = {}
  /\ Step(t, "queued", "held")
  /\ UNCHANGED permits

\* ... and waits for a slot before it spawns the task.
Spawn(t) ==
  /\ Cardinality(Gossip \ At(Waiting \cup Over)) < Capacity
  /\ Step(t, "held", "handle")
  /\ UNCHANGED permits

-----------------------------------------------------------------------------
(* handle_gossip, from its start to its admission.                         *)

\* Malformed, refused by validate_snapshot_announcement, this gateway's own,
\* or an announcement of a snapshot that is current already.
Ignore(t) ==
  /\ Step(t, "handle", "done")
  /\ UNCHANGED permits

\* Mutant: an entry is made for every admission.
TryAdmitFresh(t) ==
  LET p == Announcer[t]
  IN  /\ Step(t, "handle", "peer")
      /\ entry' = [entry EXCEPT ![p] = t]
      /\ pending' = [pending EXCEPT ![t] = 1]
      /\ free' = [free EXCEPT ![t] = 1]
      /\ gate' = [gate EXCEPT ![t] = t]
      /\ UNCHANGED <<waiters, stored, missed>>

\* Mutant: the peer's queue has no bound.
TryAdmitUnbounded(t) ==
  LET p == Announcer[t]
      e == IF entry[p] = Nil THEN t ELSE entry[p]
  IN  /\ Step(t, "handle", "peer")
      /\ entry' = [entry EXCEPT ![p] = e]
      /\ pending' = [pending EXCEPT ![e] = @ + 1]
      /\ free' = IF entry[p] = Nil THEN [free EXCEPT ![e] = 1] ELSE free
      /\ gate' = [gate EXCEPT ![t] = e]
      /\ UNCHANGED <<waiters, stored, missed>>

\* try_admit_snapshot, under the mutex.
TryAdmit(t) ==
  LET p == Announcer[t]
      e == IF entry[p] = Nil THEN t ELSE entry[p]
  IN  /\ pending[e] < MaxPending
      /\ Step(t, "handle", "peer")
      /\ entry' = [entry EXCEPT ![p] = e]
      /\ pending' = [pending EXCEPT ![e] = @ + 1]
      /\ free' = IF entry[p] = Nil THEN [free EXCEPT ![e] = 1] ELSE free
      /\ gate' = [gate EXCEPT ![t] = e]
      /\ UNCHANGED <<waiters, stored, missed>>

\* The peer's queue is full.
Refuse(t) ==
  /\ entry[Announcer[t]] # Nil
  /\ pending[entry[Announcer[t]]] >= MaxPending
  /\ Step(t, "handle", "done")
  /\ UNCHANGED permits

-----------------------------------------------------------------------------
(* tokio's Notify.                                                         *)

\* Where a task that was notified by n goes on; woke_from_global is "woken".
Awake(n) == IF n = All THEN "woken" ELSE "peer"

\* notify_one on n by task t, which goes on at "to": the task registered
\* first is woken; when none is, a permit is stored, and no more than one.
NotifyOne(t, n, to) ==
  IF waiters[n] = <<>>
  THEN /\ pc' = [pc EXCEPT ![t] = to]
       /\ stored' = stored \cup {n}
       /\ missed' = IF n = All /\ n \in stored
                    THEN missed \cup {u \in Gossip : pc[u] \in TurnedAway}
                    ELSE missed
       /\ UNCHANGED waiters
  ELSE LET w == Head(waiters[n])
       IN  /\ pc' = [pc EXCEPT ![t] = to, ![w] = Awake(n)]
           /\ waiters' = [waiters EXCEPT ![n] = Tail(@)]
           /\ missed' = missed \ {w}
           /\ UNCHANGED stored

\* The first poll of notified(): a stored permit is consumed and the task
\* tries again; otherwise it is registered and sleeps.
Await(t, n, asleep) ==
  IF n \in stored
  THEN /\ pc' = [pc EXCEPT ![t] = Awake(n)]
       /\ stored' = stored \ {n}
       /\ missed' = missed \ {t}
       /\ UNCHANGED waiters
  ELSE /\ pc' = [pc EXCEPT ![t] = asleep]
       /\ waiters' = [waiters EXCEPT ![n] = Append(@, t)]
       /\ UNCHANGED <<stored, missed>>

-----------------------------------------------------------------------------
(* SnapshotFetchAdmission::acquire.                                        *)

admission == <<entry, pending, gate>>
notify == <<waiters, stored, missed>>

TryPeer(t) ==
  /\ pc[t] \in {"peer", "woken"}
  /\ IF free[gate[t]] > 0
     THEN /\ pc' = [pc EXCEPT ![t] = "all"]
          /\ free' = [free EXCEPT ![gate[t]] = @ - 1]
     ELSE /\ pc' = [pc EXCEPT ![t] = IF @ = "woken" THEN "passOn" ELSE "waitPeer"]
          /\ UNCHANGED free
  /\ UNCHANGED <<admission, notify>>

\* Mutant: the wake of a task whose peer is busy is used up.
PassOnNothing(t) ==
  /\ Step(t, "passOn", "waitPeer")
  /\ UNCHANGED <<admission, free, notify>>

\* A task that a snapshot permit has woken passes the wake on when its peer
\* is busy.
PassOn(t) ==
  /\ pc[t] = "passOn" /\ NotifyOne(t, All, "waitPeer")
  /\ UNCHANGED <<admission, free>>

WaitPeer(t) ==
  /\ pc[t] = "waitPeer" /\ Await(t, gate[t], "onPeer")
  /\ UNCHANGED <<admission, free>>

TryAll(t) ==
  /\ Step(t, "all", IF free[All] > 0 THEN "fetch" ELSE "backOff")
  /\ free' = [free EXCEPT ![All] = IF @ > 0 THEN @ - 1 ELSE @]
  /\ UNCHANGED <<admission, notify>>

\* No snapshot permit: the peer's is given back, its waiter notified.
BackOff(t) ==
  /\ Step(t, "backOff", "retell")
  /\ free' = [free EXCEPT ![gate[t]] = @ + 1]
  /\ UNCHANGED <<admission, notify>>

Retell(t) ==
  /\ pc[t] = "retell" /\ NotifyOne(t, gate[t], "waitAll")
  /\ UNCHANGED <<admission, free>>

WaitAll(t) ==
  /\ pc[t] = "waitAll" /\ Await(t, All, "onAll")
  /\ UNCHANGED <<admission, free>>

-----------------------------------------------------------------------------
(* The rest of handle_gossip: the second look at the row, the fetch, which *)
(* has a timeout, the ingest; however they end, the permits are dropped,   *)
(* the peer's first, then the admission and the slot.                      *)

Fetched(t) ==
  /\ Step(t, "fetch", "tellPeer")
  /\ free' = [free EXCEPT ![gate[t]] = @ + 1]
  /\ UNCHANGED <<admission, notify>>

TellPeer(t) ==
  /\ pc[t] = "tellPeer" /\ NotifyOne(t, gate[t], "freeAll")
  /\ UNCHANGED <<admission, free>>

FreeAll(t) ==
  /\ Step(t, "freeAll", "tellAll")
  /\ free' = [free EXCEPT ![All] = @ + 1]
  /\ UNCHANGED <<admission, notify>>

\* Mutant: a permit is dropped without a notification.
TellNobody(t) ==
  /\ Step(t, "tellAll", "leave")
  /\ UNCHANGED <<admission, free, notify>>

TellAll(t) ==
  /\ pc[t] = "tellAll" /\ NotifyOne(t, All, "leave")
  /\ UNCHANGED <<admission, free>>

\* Mutant: the entry is removed by whoever leaves it first.
LeaveFirst(t) ==
  /\ Step(t, "leave", "done")
  /\ pending' = [pending EXCEPT ![gate[t]] = @ - 1]
  /\ entry' = [entry EXCEPT ![Announcer[t]] = Nil]
  /\ gate' = [gate EXCEPT ![t] = Nil]
  /\ UNCHANGED <<free, notify>>

\* Drop for SnapshotFetchAdmission: the last to leave removes the entry.
Leave(t) ==
  LET e == gate[t]
      last == pending[e] = 1
  IN  /\ Step(t, "leave", "done")
      /\ pending' = [pending EXCEPT ![e] = @ - 1]
      /\ entry' = IF last THEN [entry EXCEPT ![Announcer[t]] = Nil] ELSE entry
      /\ gate' = [gate EXCEPT ![t] = Nil]
      /\ free' = IF last THEN [free EXCEPT ![e] = 0] ELSE free
      /\ stored' = IF last THEN stored \ {e} ELSE stored
      /\ UNCHANGED <<waiters, missed>>

-----------------------------------------------------------------------------
Work(t) ==
  \/ Ignore(t) \/ TryAdmit(t) \/ Refuse(t)
  \/ TryPeer(t) \/ PassOn(t) \/ WaitPeer(t)
  \/ TryAll(t) \/ BackOff(t) \/ Retell(t) \/ WaitAll(t)
  \/ Fetched(t) \/ TellPeer(t) \/ FreeAll(t) \/ TellAll(t)
  \/ Leave(t)

Next == \E t \in Gossip : Enqueue(t) \/ Receive(t) \/ Spawn(t) \/ Work(t)

Spec == Init /\ [][Next]_vars

-----------------------------------------------------------------------------
(* Correctness.                                                            *)

\* The tasks that hold both permits.
Holding == At({"fetch"})

\* handle_gossip fetches from a peer one snapshot at a time, and from all
\* peers no more than Workers, though entries are removed and made again.
FetchesBounded ==
  /\ Cardinality(Holding) <= Workers
  /\ \A t, u \in Holding : Announcer[t] = Announcer[u] => t = u

\* try_admit_snapshot's count is exact: an entry exists while an admission
\* to it does, every admission to a peer is to the same entry, and pending is
\* their number.
AdmissionsCounted ==
  \A p \in Peer :
    LET in == {t \in Gossip : pc[t] \in Admitted /\ Announcer[t] = p}
    IN  /\ entry[p] = Nil <=> in = {}
        /\ \A t \in in : gate[t] = entry[p]
        /\ in # {} => pending[entry[p]] = Cardinality(in)

\* Every task sleeps, fetches, or has nothing to do.
Quiet == At(Waiting \cup Over \cup Asleep \cup {"fetch"}) = Gossip

\* acquire does not sleep on a free permit: when all is quiet and a snapshot
\* permit is free, a task waits for one only if two permits were dropped when
\* it was about to wait and their notifications became one.
FreePermitIsTaken ==
  Quiet /\ free[All] > 0 => At({"onAll"}) \subseteq missed

\* Somebody notifies whoever sleeps in acquire.  For a task that waits for
\* its peer, another of the same peer has still to give up the peer's permit;
\* for one that waits for a snapshot permit, a task has one, was woken by one,
\* or is about to ask for one.
SleeperHasWaker ==
  \A t \in Gossip :
    /\ pc[t] = "onPeer"
         => \E u \in Gossip : /\ gate[u] = gate[t]
                              /\ pc[u] \notin {"onPeer", "freeAll", "tellAll", "leave"}
    /\ pc[t] = "onAll"
         => \E u \in Gossip : pc[u] \in {"woken", "passOn", "all", "fetch",
                                         "tellPeer", "freeAll", "tellAll"}

=============================================================================
