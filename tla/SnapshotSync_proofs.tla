------------------------- MODULE SnapshotSync_proofs -------------------------
(***************************************************************************)
(* Proofs about module SnapshotSync, for any number of gateways, workers,  *)
(* nodes and versions.                                                     *)
(***************************************************************************)
EXTENDS PublicApi, Lists_proofs

-----------------------------------------------------------------------------
(* Types.                                                                  *)

(***************************************************************************)
(* What a worker has at hand is a snapshot of some node.                   *)
(***************************************************************************)
TasksNameNodes == \A w \in Worker : task[w].pc # "idle" => task[w].node \in Node

TypeInv == TypeOK /\ TasksNameNodes

(***************************************************************************)
(* The conjuncts of TypeOK about the rows, one by one.                     *)
(***************************************************************************)
LEMMA RowTypes ==
  ASSUME TypeOK
  PROVE  /\ art \in [Gateway -> [Node -> Version]]
         /\ row \in [Gateway -> [Node -> Version]]
         /\ model \in [Gateway -> [Node -> Version]]
BY DEF TypeOK

(***************************************************************************)
(* A worker belongs to a gateway.                                          *)
(***************************************************************************)
LEMMA SiteIsGateway ==
  ASSUME NEW w \in Worker
  PROVE  Site[w] \in Gateway
BY SyncAssumption

(***************************************************************************)
(* An idle worker, and one that goes on with its snapshot, has a task.     *)
(***************************************************************************)
LEMMA GoTypes ==
  ASSUME NEW w \in Worker, NEW pc \in {"idle", "commit", "models"},
         task \in [Worker -> Task], TasksNameNodes, task[w].pc # "idle", Go(w, pc)
  PROVE  task' \in [Worker -> Task] /\ TasksNameNodes'
<1>1. Idle \in Task
  BY SyncAssumption DEF Idle, T, Task, Version
<1>2. CASE pc = "idle"
  <2>1. task' = [task EXCEPT ![w] = Idle]
    BY <1>2 DEF Go
  <2>2. QED
    BY <1>1, <2>1 DEF TasksNameNodes, Idle, T
<1>3. CASE pc # "idle"
  <2>1. task' = [task EXCEPT ![w] = [task[w] EXCEPT !.pc = pc]]
    BY <1>3 DEF Go
  <2>2. [task[w] EXCEPT !.pc = pc] \in Task
    BY DEF Task
  <2>3. [task[w] EXCEPT !.pc = pc].node = task[w].node
    BY DEF Task
  <2>4. QED
    BY <2>1, <2>2, <2>3 DEF TasksNameNodes
<1>4. QED
  BY <1>2, <1>3

(***************************************************************************)
(* A worker that takes up a snapshot of a node has a task.                 *)
(***************************************************************************)
LEMMA TakeUpTypes ==
  ASSUME NEW w \in Worker, NEW n \in Node, NEW v \in Version, NEW a \in BOOLEAN,
         NEW from \in Gateway \cup {Nil}, NEW pc \in {"heard", "fetched", "begin"},
         task \in [Worker -> Task], TasksNameNodes,
         task' = [task EXCEPT ![w] = T(pc, n, v, a, from)]
  PROVE  task' \in [Worker -> Task] /\ TasksNameNodes'
<1>1. T(pc, n, v, a, from) \in Task
  BY SyncAssumption DEF T, Task, Node
<1>2. T(pc, n, v, a, from).node = n
  BY DEF T
<1>3. QED
  BY <1>1, <1>2 DEF TasksNameNodes

(***************************************************************************)
(* Versions a node has signed are versions.                                *)
(***************************************************************************)
LEMMA SignedIsVersion ==
  ASSUME NEW m \in Version, NEW v \in 1 .. m
  PROVE  v \in Version
BY SyncAssumption DEF Version

(***************************************************************************)
(* A sequence without one of its elements is a sequence.                   *)
(***************************************************************************)
LEMMA DropIsSeq ==
  ASSUME NEW S, NEW q \in Seq(S), NEW x
  PROVE  Drop(q, x) \in Seq(S)
BY SubsequenceIsSeq DEF Drop

-----------------------------------------------------------------------------
(* The outbox.                                                             *)

\* No two rows of an outbox have the same key.
Distinct(box) == \A i, j \in DOMAIN box : Key(box[i]) = Key(box[j]) => i = j

(***************************************************************************)
(* Rows at some positions of an outbox are rows of it, each once.          *)
(***************************************************************************)
LEMMA SubsequenceOfOutbox ==
  ASSUME NEW box \in Seq(OutboxRow), Distinct(box), NEW I \in SUBSET DOMAIN box
  PROVE  /\ Subsequence(box, I) \in Seq(OutboxRow)
         /\ Distinct(Subsequence(box, I))
         /\ KeysOf(Subsequence(box, I)) = {Key(box[i]) : i \in I}
<1> DEFINE s == Subsequence(box, I)
           m == Cardinality(I)
<1>1. s \in Seq(OutboxRow) /\ Len(s) = m /\ m \in Nat
  BY SubsequenceIsSeq
<1>2. PICK h : Embeds(h, s, box, I)
  <2>1. Len(box) \in Nat /\ I \in SUBSET (1 .. Len(box))
    OBVIOUS
  <2>2. QED
    BY <2>1, SubsequenceKeepsOrder, Zenon
<1>3. DOMAIN s = 1 .. m /\ h \in [1 .. m -> I]
  BY <1>2 DEF Embeds
<1>4. \A k \in 1 .. m : s[k] = box[h[k]]
  BY <1>2 DEF Embeds
<1>5. \A j, k \in 1 .. m : h[j] = h[k] => j = k
  <2> SUFFICES ASSUME NEW j \in 1 .. m, NEW k \in 1 .. m, j # k
               PROVE  h[j] # h[k]
    OBVIOUS
  <2>1. h[j] \in Nat /\ h[k] \in Nat
    BY <1>3
  <2>2. j < k \/ k < j
    BY <1>1
  <2>3. h[j] < h[k] \/ h[k] < h[j]
    BY <1>2, <2>2 DEF Embeds
  <2>4. QED
    BY <2>1, <2>3
<1>6. Distinct(s)
  <2> SUFFICES ASSUME NEW j \in 1 .. m, NEW k \in 1 .. m, Key(s[j]) = Key(s[k])
               PROVE  j = k
    BY <1>3 DEF Distinct
  <2>1. h[j] \in DOMAIN box /\ h[k] \in DOMAIN box /\ Key(box[h[j]]) = Key(box[h[k]])
    BY <1>3, <1>4
  <2>2. h[j] = h[k]
    BY <2>1 DEF Distinct
  <2>3. QED
    BY <1>5, <2>2
<1>7. KeysOf(s) = {Key(box[i]) : i \in I}
  <2>1. \A k \in 1 .. m : h[k] \in I /\ s[k] = box[h[k]]
    BY <1>3, <1>4
  <2>2. \A i \in I : \E k \in 1 .. m : s[k] = box[i]
    BY <1>2, <1>4 DEF Embeds
  <2> HIDE DEF s
  <2>3. QED
    BY <1>3, <2>1, <2>2, Zenon DEF KeysOf
<1>8. QED
  BY <1>1, <1>6, <1>7

(***************************************************************************)
(* Without removes the row of the drain's first key, and that row only.    *)
(***************************************************************************)
LEMMA WithoutRemovesHead ==
  ASSUME NEW g, outbox[g] \in Seq(OutboxRow), Distinct(outbox[g])
  PROVE  /\ Without(g) \in Seq(OutboxRow) /\ Distinct(Without(g))
         /\ KeysOf(Without(g)) = KeysOf(outbox[g]) \ {Head(drain[g])}
<1> DEFINE I == {i \in DOMAIN outbox[g] : Key(outbox[g][i]) # Head(drain[g])}
<1>1. I \in SUBSET DOMAIN outbox[g] /\ Without(g) = Subsequence(outbox[g], I)
  BY DEF Without
<1>2. /\ Without(g) \in Seq(OutboxRow) /\ Distinct(Without(g))
      /\ KeysOf(Without(g)) = {Key(outbox[g][i]) : i \in I}
  BY <1>1, SubsequenceOfOutbox
<1>3. {Key(outbox[g][i]) : i \in I} = KeysOf(outbox[g]) \ {Head(drain[g])}
  BY DEF KeysOf
<1>4. QED
  BY <1>2, <1>3

(***************************************************************************)
(* Announced adds at most the row of the snapshot, when it is a new one.   *)
(***************************************************************************)
LEMMA AnnouncedAdds ==
  ASSUME NEW w \in Worker, NEW box \in Seq(OutboxRow), box = outbox[Site[w]],
         Distinct(box), task[w] \in Task, task[w].node \in Node
  PROVE  /\ Announced(w) \in Seq(OutboxRow) /\ Distinct(Announced(w))
         /\ KeysOf(Announced(w)) = IF task[w].announce THEN KeysOf(box) \cup {Key(task[w])}
                                   ELSE KeysOf(box)
<1> DEFINE t == task[w]
           r == [node |-> t.node, version |-> t.version, attempts |-> 0, claimed |-> FALSE]
<1>1. r \in OutboxRow /\ Key(r) = Key(t)
  BY DEF OutboxRow, Task, Key
<1>2. CASE t.announce /\ ~ \E i \in DOMAIN box : Key(box[i]) = Key(t)
  <2>1. Announced(w) = Append(box, r)
    BY <1>2 DEF Announced
  <2> HIDE DEF r
  <2> DEFINE s == Append(box, r)
  <2>2. /\ s \in Seq(OutboxRow) /\ DOMAIN s = 1 .. Len(box) + 1
        /\ DOMAIN box = 1 .. Len(box) /\ Len(box) \in Nat
        /\ \A i \in 1 .. Len(box) : s[i] = box[i]
        /\ s[Len(box) + 1] = r
    BY <1>1
  <2> HIDE DEF s
  <2>3. \A i \in DOMAIN s : i \in DOMAIN box \/ i = Len(box) + 1
    BY <2>2
  <2>4. \A i \in DOMAIN box : i \in DOMAIN s /\ s[i] = box[i]
    BY <2>2
  <2>5. Len(box) + 1 \in DOMAIN s
    BY <2>2
  <2>6. Distinct(s)
    <3>1. \A i \in DOMAIN box : Key(s[i]) = Key(box[i]) /\ Key(s[i]) # Key(t)
      BY <1>2, <2>4
    <3>2. Key(s[Len(box) + 1]) = Key(t)
      BY <1>1, <2>2
    <3>3. SUFFICES ASSUME NEW i \in DOMAIN s, NEW j \in DOMAIN s, Key(s[i]) = Key(s[j])
                   PROVE  i = j
      BY DEF Distinct
    <3>4. CASE i \in DOMAIN box /\ j \in DOMAIN box
      BY <3>1, <3>3, <3>4 DEF Distinct
    <3>5. CASE ~ (i \in DOMAIN box /\ j \in DOMAIN box)
      BY <2>3, <3>1, <3>2, <3>3, <3>5, Zenon
    <3>6. QED
      BY <3>4, <3>5
  <2>7. KeysOf(s) = KeysOf(box) \cup {Key(t)}
    BY <1>1, <2>2, <2>3, <2>4, <2>5, ZenonT(40) DEF KeysOf
  <2>8. QED
    BY <1>2, <2>1, <2>2, <2>6, <2>7 DEF s
<1>3. CASE ~ (t.announce /\ ~ \E i \in DOMAIN box : Key(box[i]) = Key(t))
  <2>1. Announced(w) = box
    BY <1>3 DEF Announced
  <2>2. t.announce => Key(t) \in KeysOf(box)
    BY <1>3 DEF KeysOf
  <2>3. QED
    BY <2>1, <2>2, Zenon
<1>4. QED
  BY <1>2, <1>3

(***************************************************************************)
(* Rows changed in place with their keys kept are the same keys.           *)
(***************************************************************************)
LEMMA SameKeys ==
  ASSUME NEW box \in Seq(OutboxRow), Distinct(box), NEW new \in Seq(OutboxRow),
         DOMAIN new = DOMAIN box, \A i \in DOMAIN box : Key(new[i]) = Key(box[i])
  PROVE  Distinct(new) /\ KeysOf(new) = KeysOf(box)
BY Zenon DEF Distinct, KeysOf

(***************************************************************************)
(* A claim keeps the key of a row.                                         *)
(***************************************************************************)
LEMMA ClaimedKeepsKey ==
  ASSUME NEW r \in OutboxRow
  PROVE  Claimed(r) \in OutboxRow /\ Key(Claimed(r)) = Key(r)
<1>1. r.attempts + 1 \in Nat
  BY DEF OutboxRow
<1>2. Claimed(r) \in OutboxRow
  BY <1>1, Zenon DEF Claimed, OutboxRow
<1>3. Claimed(r).node = r.node /\ Claimed(r).version = r.version
  BY DEF Claimed, OutboxRow
<1>4. QED
  BY <1>2, <1>3 DEF Key

(***************************************************************************)
(* The keys of an outbox are pairs of a node and a version.                *)
(***************************************************************************)
LEMMA KeysTypes ==
  ASSUME NEW box \in Seq(OutboxRow)
  PROVE  /\ Keys(box) \in Seq(Node \X Version) /\ DOMAIN Keys(box) = DOMAIN box
         /\ \A i \in DOMAIN box : Keys(box)[i] = Key(box[i])
<1>0. \A r \in OutboxRow : Key(r) \in Node \X Version
  BY DEF Key, OutboxRow
<1>1. \A i \in DOMAIN box : Key(box[i]) \in Node \X Version
  BY <1>0
<1>2. DOMAIN box = 1 .. Len(box) /\ Len(box) \in Nat
  OBVIOUS
<1>3. QED
  BY <1>1, <1>2 DEF Keys

-----------------------------------------------------------------------------
(* Every step keeps the types.                                             *)

(***************************************************************************)
(* An artifact is written: Push and Fetched.                               *)
(***************************************************************************)
LEMMA WriteArtifactTypes ==
  ASSUME TypeInv, NEW w \in Worker, NEW n \in Node, NEW v \in Version, NEW a \in BOOLEAN,
         WriteArtifact(w, n, v, a)
  PROVE  TypeInv'
<1>1. task' \in [Worker -> Task] /\ TasksNameNodes'
  BY TakeUpTypes, Zenon DEF TypeInv, TypeOK, WriteArtifact
<1>2. art' \in [Gateway -> [Node -> Version]]
  BY RowTypes, SiteIsGateway DEF TypeInv, WriteArtifact
<1>3. QED
  BY <1>1, <1>2, RowTypes DEF TypeInv, TypeOK, WriteArtifact, loop

(***************************************************************************)
(* A worker takes up a snapshot, and fetches it: Push, Ask, Hear, Fetch,   *)
(* Fetched.                                                                *)
(***************************************************************************)
LEMMA TakeUpStep ==
  ASSUME TypeInv, NEW w \in Worker,
         \/ \E n \in Node : Push(w, n) \/ Ask(w, n)
         \/ \E m \in net : Hear(w, m)
         \/ Fetch(w) \/ Fetched(w)
  PROVE  TypeInv'
<1> USE DEF TypeInv
<1>1. ASSUME NEW n \in Node, Push(w, n) PROVE TypeInv'
  <2>1. PICK v \in 1 .. made[n] : WriteArtifact(w, n, v, TRUE)
    BY <1>1, Zenon DEF Push
  <2>2. v \in Version
    BY SignedIsVersion DEF TypeOK
  <2>3. QED
    BY <2>1, <2>2, WriteArtifactTypes, Zenon
<1>2. ASSUME NEW n \in Node, Ask(w, n) PROVE TypeInv'
  <2>1. PICK v \in 1 .. made[n] :
          /\ task' = [task EXCEPT ![w] = T("fetched", n, v, TRUE, Nil)]
          /\ UNCHANGED <<made, db, net, loop, newer, failed, owed>>
    BY <1>2, Zenon DEF Ask
  <2>2. v \in Version
    BY SignedIsVersion DEF TypeOK
  <2>3. task' \in [Worker -> Task] /\ TasksNameNodes'
    BY <2>1, <2>2, TakeUpTypes, Zenon DEF TypeOK
  <2>4. QED
    BY <2>1, <2>3, Zenon DEF TypeOK, db, loop
<1>3. ASSUME NEW m \in net, Hear(w, m) PROVE TypeInv'
  <2>1. m.node \in Node /\ m.version \in Version /\ m.from \in Gateway
    BY DEF TypeOK, Announcement
  <2>2. task' \in [Worker -> Task] /\ TasksNameNodes'
    BY <1>3, <2>1, TakeUpTypes, Zenon DEF TypeOK, Hear
  <2>3. QED
    BY <1>3, <2>2, Zenon DEF TypeOK, Hear, db, loop
<1>4. CASE Fetch(w)
  <2>1. task[w].node \in Node /\ task[w].version \in Version
    BY <1>4 DEF Fetch, TypeOK, TasksNameNodes, Task
  <2>2. \/ task' = [task EXCEPT ![w] = T("fetched", task[w].node, task[w].version, FALSE, Nil)]
        \/ task' = [task EXCEPT ![w] = Idle]
    BY <1>4, Zenon DEF Fetch
  <2>3. Idle \in Task /\ Idle.pc = "idle"
    BY SyncAssumption DEF Idle, T, Task, Version
  <2>4. task' \in [Worker -> Task] /\ TasksNameNodes'
    <3>1. CASE task' = [task EXCEPT ![w] = Idle]
      BY <2>3, <3>1 DEF TypeOK, TasksNameNodes
    <3>2. CASE task' = [task EXCEPT ![w] = T("fetched", task[w].node, task[w].version, FALSE, Nil)]
      BY <2>1, <3>2, TakeUpTypes, Zenon DEF TypeOK
    <3>3. QED
      BY <2>2, <3>1, <3>2, Zenon
  <2>5. QED
    BY <1>4, <2>4, Zenon DEF Fetch, TypeOK, db, loop
<1>5. CASE Fetched(w)
  <2>1. /\ task[w].node \in Node /\ task[w].version \in Version
        /\ task[w].announce \in BOOLEAN
    BY <1>5 DEF Fetched, TypeOK, TasksNameNodes, Task
  <2>2. QED
    BY <1>5, <2>1, WriteArtifactTypes DEF Fetched
<1>6. QED
  BY <1>1, <1>2, <1>3, <1>4, <1>5

(***************************************************************************)
(* A worker's transaction and what follows it: Begin, Commit, WriteModels, *)
(* IngestFails.                                                            *)
(***************************************************************************)
LEMMA IngestStep ==
  ASSUME TypeInv, NEW w \in Worker,
         Begin(w) \/ Commit(w) \/ WriteModels(w) \/ IngestFails(w)
  PROVE  TypeInv'
<1> USE DEF TypeInv
<1> DEFINE g == Site[w]
<1>0. /\ g \in Gateway /\ newer[g] \in Seq(Node \cup Worker)
      /\ outbox[g] \in Seq(OutboxRow) /\ Distinct(outbox[g])
  BY SiteIsGateway DEF TypeOK, Distinct
<1>1. CASE Begin(w)
  <2>1. task' \in [Worker -> Task] /\ TasksNameNodes'
    BY <1>1, GoTypes, Zenon DEF TypeOK, Begin
  <2>2. Append(newer[g], w) \in Seq(Node \cup Worker)
    BY <1>0
  <2>3. newer' \in [Gateway -> Seq(Node \cup Worker)]
    BY <1>1, <2>2, Zenon DEF TypeOK, Begin
  <2>4. QED
    BY <1>1, <2>1, <2>3 DEF TypeOK, Begin, db, loop
<1>2. CASE Commit(w) /\ Applies(w)
  <2> DEFINE t == task[w]
             others == {i \in DOMAIN newer[g] : newer[g][i] # t.node}
             stamped == [i \in DOMAIN newer[g] |-> IF newer[g][i] = w THEN t.node
                                                    ELSE newer[g][i]]
  <2>1. t.node \in Node /\ t.version \in Version /\ t \in Task /\ t.pc = "commit"
    BY <1>2 DEF Commit, TypeOK, TasksNameNodes, Task
  <2>2. task' \in [Worker -> Task] /\ TasksNameNodes'
    BY <1>2, <2>1, GoTypes, Zenon DEF TypeOK, Commit
  <2>3. row' \in [Gateway -> [Node -> Version]]
    <3>1. row' = [row EXCEPT ![g][t.node] = t.version]
      BY <1>2 DEF Commit
    <3> HIDE DEF t, g
    <3>2. QED
      BY <1>0, <2>1, <3>1, RowTypes
  <2>4. stamped \in Seq(Node \cup Worker) /\ DOMAIN stamped = DOMAIN newer[g]
    BY <1>0, <2>1
  <2>5. Subsequence(stamped, others) \in Seq(Node \cup Worker)
    <3>1. others \in SUBSET DOMAIN stamped
      BY <2>4
    <3> HIDE DEF stamped, others
    <3>2. QED
      BY <2>4, <3>1, SubsequenceIsSeq
  <2>6. newer' = [newer EXCEPT ![g] = Subsequence(stamped, others)]
    BY <1>2 DEF Commit
  <2>7. newer' \in [Gateway -> Seq(Node \cup Worker)]
    <3> HIDE DEF stamped, others, g
    <3>1. QED
      BY <2>5, <2>6, Zenon DEF TypeOK
  <2>8. Announced(w) \in Seq(OutboxRow) /\ Distinct(Announced(w))
    BY <1>0, <2>1, AnnouncedAdds
  <2>9. outbox' = [outbox EXCEPT ![g] = Announced(w)]
    BY <1>2 DEF Commit
  <2>10. /\ outbox' \in [Gateway -> Seq(OutboxRow)]
         /\ \A h \in Gateway : Distinct(outbox'[h])
    BY <2>8, <2>9, Zenon DEF TypeOK, Distinct
  <2>11. owed' \in [Gateway -> SUBSET (Node \X Version)]
    <3>1. Key(t) \in Node \X Version
      BY <2>1 DEF Key
    <3>2. owed' = [owed EXCEPT ![g] = IF t.announce /\ t.version # row[g][t.node]
                                      THEN owed[g] \cup {Key(t)} ELSE owed[g]]
      BY <1>2 DEF Commit
    <3>3. QED
      BY <1>0, <3>1, <3>2 DEF TypeOK
  <2>12. UNCHANGED <<made, art, model, net, loop, failed>>
    BY <1>2 DEF Commit
  <2> HIDE DEF t, others, stamped, g
  <2>13. QED
    BY <2>2, <2>3, <2>7, <2>10, <2>11, <2>12, RowTypes DEF TypeOK, Distinct, loop
<1>3. CASE Commit(w) /\ ~Applies(w)
  <2>1. task' \in [Worker -> Task] /\ TasksNameNodes'
    BY <1>3, GoTypes, Zenon DEF TypeOK, Commit
  <2>2. newer' \in [Gateway -> Seq(Node \cup Worker)]
    <3>1. newer' = [newer EXCEPT ![g] = Drop(newer[g], w)]
      BY <1>3 DEF Commit
    <3>2. QED
      BY <1>0, <3>1, DropIsSeq DEF TypeOK
  <2>3. UNCHANGED <<made, art, row, model, outbox, net, loop, failed, owed>>
    BY <1>3 DEF Commit
  <2>4. QED
    BY <2>1, <2>2, <2>3 DEF TypeOK, loop
<1>4. CASE WriteModels(w)
  <2>1. task[w].node \in Node /\ task[w].version \in Version
    BY <1>4 DEF WriteModels, TypeOK, TasksNameNodes, Task
  <2>2. task' \in [Worker -> Task] /\ TasksNameNodes'
    BY <1>4, GoTypes, Zenon DEF TypeOK, WriteModels
  <2>3. model' \in [Gateway -> [Node -> Version]]
    BY <1>0, <1>4, <2>1, RowTypes DEF WriteModels, Newest
  <2>4. QED
    BY <1>4, <2>2, <2>3, RowTypes, Zenon DEF TypeOK, WriteModels, loop
<1>5. CASE IngestFails(w)
  <2>1. task' \in [Worker -> Task] /\ TasksNameNodes'
    BY <1>5, GoTypes DEF TypeOK, IngestFails
  <2>2. newer' \in [Gateway -> Seq(Node \cup Worker)]
    BY <1>0, <1>5, DropIsSeq DEF TypeOK, IngestFails
  <2>3. failed' \subseteq Fallible
    BY <1>5 DEF TypeOK, IngestFails
  <2>4. QED
    BY <1>5, <2>1, <2>2, <2>3 DEF TypeOK, IngestFails, db, loop
<1>6. QED
  BY <1>1, <1>2, <1>3, <1>4, <1>5

(***************************************************************************)
(* Announcements of snapshots are announcements.                           *)
(***************************************************************************)
LEMMA SayTypes ==
  ASSUME TypeOK, NEW g \in Gateway, NEW keys \in SUBSET (Node \X Version), Say(g, keys)
  PROVE  net' \subseteq Announcement
<1>1. \A k \in keys : k[1] \in Node /\ k[2] \in Version
  OBVIOUS
<1>2. \A h \in Gateway, k \in keys :
        [from |-> g, to |-> h, node |-> k[1], version |-> k[2]] \in Announcement
  BY <1>1 DEF Announcement
<1>3. QED
  BY <1>2 DEF Say, TypeOK

(***************************************************************************)
(* The rest of a batch is a batch.                                         *)
(***************************************************************************)
LEMMA AdvanceTypes ==
  ASSUME TypeOK, NEW g \in Gateway, drain[g] # <<>>, Advance(g)
  PROVE  /\ drain' \in [Gateway -> Seq(Node \X Version)]
         /\ sent' \in [Gateway -> BOOLEAN]
<1>1. Tail(drain[g]) \in Seq(Node \X Version)
  BY DEF TypeOK
<1>2. QED
  BY <1>1 DEF TypeOK, Advance

(***************************************************************************)
(* The steps of a drain: Claim, Publish, Ack, Release, ClaimLapses.        *)
(***************************************************************************)
LEMMA DrainStep ==
  ASSUME TypeInv, NEW g \in Gateway,
         Claim(g) \/ Publish(g) \/ Ack(g) \/ Release(g) \/ ClaimLapses(g)
  PROVE  TypeInv'
<1> USE DEF TypeInv
<1> DEFINE box == outbox[g]
<1>0. box \in Seq(OutboxRow) /\ Distinct(box) /\ drain[g] \in Seq(Node \X Version)
  BY DEF TypeOK, Distinct
<1>01. ASSUME NEW new \in Seq(OutboxRow), Distinct(new), outbox' = [outbox EXCEPT ![g] = new]
       PROVE  /\ outbox' \in [Gateway -> Seq(OutboxRow)]
              /\ \A h \in Gateway : Distinct(outbox'[h])
  BY <1>01 DEF TypeOK, Distinct
<1>1. CASE Claim(g)
  <2> DEFINE new == [i \in DOMAIN box |->
                       IF i \in Batch(g) THEN Claimed(box[i]) ELSE box[i]]
  <2>1. Batch(g) \in SUBSET DOMAIN box
    BY DEF Batch, First, Claimable
  <2>2. Subsequence(Keys(box), Batch(g)) \in Seq(Node \X Version)
    BY <1>0, <2>1, KeysTypes, SubsequenceIsSeq, Zenon
  <2>3. drain' \in [Gateway -> Seq(Node \X Version)]
    BY <1>1, <2>2, Zenon DEF Claim, TypeOK
  <2>4. \A r \in OutboxRow : Claimed(r) \in OutboxRow /\ Key(Claimed(r)) = Key(r)
    BY ClaimedKeepsKey, Zenon
  <2>5. \A i \in DOMAIN box : box[i] \in OutboxRow
    BY <1>0
  <2>6. \A i \in DOMAIN box : new[i] \in OutboxRow /\ Key(new[i]) = Key(box[i])
    BY <2>4, <2>5, Zenon
  <2>7. DOMAIN box = 1 .. Len(box) /\ Len(box) \in Nat /\ DOMAIN new = DOMAIN box
    BY <1>0
  <2>8. outbox' = [outbox EXCEPT ![g] = new]
    BY <1>1, Zenon DEF Claim
  <2>9. new \in Seq(OutboxRow)
    <3>1. new = [i \in 1 .. Len(box) |-> new[i]]
      BY <2>7, Zenon
    <3> HIDE DEF new, box
    <3>2. QED
      BY <2>6, <2>7, <3>1
  <2> HIDE DEF new, box
  <2>10. Distinct(new)
    BY <1>0, <2>6, <2>7, <2>9, SameKeys
  <2>11. UNCHANGED <<made, art, row, model, net, task, sent, cursor, newer, failed, owed>>
    BY <1>1 DEF Claim
  <2>12. QED
    BY <1>01, <2>3, <2>8, <2>9, <2>10, <2>11, Zenon DEF TypeOK, Distinct, TasksNameNodes
<1>2. CASE Publish(g)
  <2>1. Head(drain[g]) \in Node \X Version
    BY <1>0, <1>2 DEF Publish
  <2>2. net' \subseteq Announcement
    BY <1>2, <2>1, SayTypes DEF Publish
  <2>3. QED
    BY <1>2, <2>2 DEF Publish, TypeOK, TasksNameNodes, db
<1>3. CASE Ack(g)
  <2>1. drain' \in [Gateway -> Seq(Node \X Version)] /\ sent' \in [Gateway -> BOOLEAN]
    BY <1>3, AdvanceTypes, Zenon DEF Ack
  <2>2. /\ outbox' \in [Gateway -> Seq(OutboxRow)]
        /\ \A h \in Gateway : Distinct(outbox'[h])
    BY <1>0, <1>01, <1>3, WithoutRemovesHead, Zenon DEF Ack
  <2>3. QED
    BY <1>3, <2>1, <2>2 DEF Ack, TypeOK, Distinct, TasksNameNodes
<1>4. CASE Release(g)
  <2>1. drain' \in [Gateway -> Seq(Node \X Version)] /\ sent' \in [Gateway -> BOOLEAN]
    BY <1>4, AdvanceTypes, Zenon DEF Release
  <2>2. \/ /\ outbox' = [outbox EXCEPT ![g] = Without(g)]
           /\ owed' = [owed EXCEPT ![g] = @ \ {Head(drain[g])}]
        \/ UNCHANGED <<outbox, owed>>
    BY <1>4, Zenon DEF Release
  <2>3. /\ outbox' \in [Gateway -> Seq(OutboxRow)]
        /\ \A h \in Gateway : Distinct(outbox'[h])
    <3>1. CASE UNCHANGED <<outbox, owed>>
      BY <3>1, Zenon DEF TypeOK, Distinct
    <3>2. CASE outbox' = [outbox EXCEPT ![g] = Without(g)]
      BY <1>0, <1>01, <3>2, WithoutRemovesHead, Zenon
    <3>3. QED
      BY <2>2, <3>1, <3>2
  <2>4. owed' \in [Gateway -> SUBSET (Node \X Version)]
    <3>1. owed[g] \ {Head(drain[g])} \in SUBSET (Node \X Version)
      BY Zenon DEF TypeOK
    <3>2. QED
      BY <2>2, <3>1, ZenonT(40) DEF TypeOK
  <2>5. UNCHANGED <<made, art, row, model, net, task, cursor, newer, failed>>
    BY <1>4, Zenon DEF Release
  <2>6. QED
    BY <2>1, <2>3, <2>4, <2>5, ZenonT(40) DEF TypeOK, Distinct, TasksNameNodes
<1>5. CASE ClaimLapses(g)
  <2>1. PICK i \in DOMAIN box :
          /\ outbox' = [outbox EXCEPT ![g][i].claimed = FALSE]
          /\ UNCHANGED <<made, art, row, model, net, task, loop, newer, failed, owed>>
    BY <1>5, Zenon DEF ClaimLapses
  <2> DEFINE new == [box EXCEPT ![i] = [box[i] EXCEPT !.claimed = FALSE]]
  <2>2. outbox' = [outbox EXCEPT ![g] = new]
    BY <2>1, Zenon
  <2>3. \A r \in OutboxRow : /\ [r EXCEPT !.claimed = FALSE] \in OutboxRow
                             /\ Key([r EXCEPT !.claimed = FALSE]) = Key(r)
    BY Zenon DEF OutboxRow, Key
  <2>4. [box[i] EXCEPT !.claimed = FALSE] \in OutboxRow
    BY <1>0, <2>3
  <2>5. /\ new \in Seq(OutboxRow) /\ DOMAIN new = DOMAIN box
        /\ \A j \in DOMAIN box : Key(new[j]) = Key(box[j])
    BY <1>0, <2>3, <2>4
  <2> HIDE DEF new, box
  <2>6. Distinct(new)
    BY <1>0, <2>5, SameKeys, Zenon
  <2>7. QED
    BY <1>01, <2>1, <2>2, <2>5, <2>6, Zenon DEF TypeOK, Distinct, TasksNameNodes, loop
<1>6. QED
  BY <1>1, <1>2, <1>3, <1>4, <1>5, Zenon

(***************************************************************************)
(* The pages of the loop and its failures: Reconcile, FullPage,            *)
(* IncrementalPage, Crash, DrainFails.                                     *)
(***************************************************************************)
LEMMA LoopStep ==
  ASSUME TypeInv, NEW g \in Gateway,
         \/ Reconcile(g) \/ FullPage(g) \/ IncrementalPage(g)
         \/ Crash(g) \/ DrainFails(g)
  PROVE  TypeInv'
<1> USE DEF TypeInv
<1>0. row[g] \in [Node -> Version]
  BY RowTypes, Zenon
<1>1. CASE Reconcile(g)
  <2>1. Full(0) \in {Full(n) : n \in 0 .. N}
    BY SyncAssumption
  <2>2. cursor' \in [Gateway -> {Nil, Incremental} \cup {Full(n) : n \in 0 .. N}]
    BY <1>1, <2>1, Zenon DEF Reconcile, TypeOK
  <2>3. newer' \in [Gateway -> Seq(Node \cup Worker)]
    BY <1>1 DEF Reconcile, TypeOK
  <2>4. QED
    BY <1>1, <2>2, <2>3 DEF Reconcile, TypeOK, TasksNameNodes, db
<1>2. CASE FullPage(g)
  <2> DEFINE rows == RowsAfter(g, cursor[g].after)
  <2>1. rows \in SUBSET (1 .. N) /\ N \in Nat
    BY SyncAssumption, Zenon DEF RowsAfter, Node
  <2>2. Current(g, First(rows, PageSize)) \in SUBSET (Node \X Version)
    BY <1>0, <2>1 DEF Current, First, Node
  <2>3. net' \subseteq Announcement
    BY <1>2, <2>2, SayTypes, Zenon DEF FullPage
  <2>4. ASSUME Cardinality(rows) >= PageSize
        PROVE  Full(Nth(rows, PageSize)) \in {Full(n) : n \in 0 .. N}
    <3> HIDE DEF rows
    <3>1. Cardinality(rows) \in Nat
      BY <2>1, PositionsAreFinite, Zenon
    <3>2. PageSize \in 1 .. Cardinality(rows)
      BY <2>4, <3>1, SyncAssumption
    <3>3. Nth(rows, PageSize) \in rows
      BY <2>1, <3>2, NthHasRank, Zenon
    <3>4. Nth(rows, PageSize) \in 0 .. N
      <4>1. Nth(rows, PageSize) \in 1 .. N
        BY <2>1, <3>3, Zenon
      <4>2. QED
        BY <2>1, <4>1
    <3>5. QED
      BY <3>4, Zenon
  <2>5. cursor' = [cursor EXCEPT ![g] = IF Cardinality(rows) >= PageSize
                                        THEN Full(Nth(rows, PageSize)) ELSE Incremental]
    BY <1>2, Zenon DEF FullPage
  <2>6. cursor' \in [Gateway -> {Nil, Incremental} \cup {Full(n) : n \in 0 .. N}]
    <3> HIDE DEF rows
    <3>1. QED
      BY <2>4, <2>5, Zenon DEF TypeOK
  <2>7. QED
    BY <1>2, <2>3, <2>6, Zenon DEF FullPage, TypeOK, TasksNameNodes, db
<1>3. CASE IncrementalPage(g)
  <2> DEFINE q == newer[g]
             rows == {i \in DOMAIN q : q[i] \in Node}
             page == First(rows, PageSize)
             last == Nth(page, Cardinality(page))
  <2>1. q \in Seq(Node \cup Worker)
    BY Zenon DEF TypeOK
  <2>2. Len(q) \in Nat /\ rows \in SUBSET (1 .. Len(q)) /\ rows # {}
    BY <1>3, <2>1 DEF IncrementalPage
  <2>3. page \in SUBSET rows /\ last \in 1 .. Len(q)
    <3> HIDE DEF rows
    <3>1. QED
      BY <2>2, SyncAssumption, PageHasLast, Zenon
  <2>4. Current(g, {q[i] : i \in page}) \in SUBSET (Node \X Version)
    <3>1. {q[i] : i \in page} \in SUBSET Node
      BY <2>3, Zenon
    <3>2. QED
      BY <1>0, <3>1 DEF Current
  <2>5. net' \subseteq Announcement
    BY <1>3, <2>4, SayTypes, Zenon DEF IncrementalPage
  <2>6. newer' = [newer EXCEPT ![g] = SubSeq(q, last + 1, Len(q))]
    BY <1>3, Zenon DEF IncrementalPage
  <2>7. newer' \in [Gateway -> Seq(Node \cup Worker)]
    <3> HIDE DEF q, last
    <3>1. last + 1 \in 1 .. Len(q) + 1
      BY <2>2, <2>3
    <3>2. SubSeq(q, last + 1, Len(q)) \in Seq(Node \cup Worker)
      BY <2>1, <2>2, <3>1
    <3>3. QED
      BY <2>6, <3>2, Zenon DEF TypeOK
  <2>8. QED
    BY <1>3, <2>5, <2>7, Zenon DEF IncrementalPage, TypeOK, TasksNameNodes, db, loop
<1>4. CASE Crash(g)
  <2>1. Idle \in Task /\ Idle.pc = "idle"
    BY SyncAssumption DEF Idle, T, Task, Version
  <2>2. task' \in [Worker -> Task] /\ TasksNameNodes'
    BY <1>4, <2>1, Zenon DEF Crash, TypeOK, TasksNameNodes
  <2>3. QED
    BY <1>4, <2>2 DEF Crash, TypeOK, db
<1>5. CASE DrainFails(g)
  BY <1>5 DEF DrainFails, TypeOK, TasksNameNodes, db
<1>6. QED
  BY <1>1, <1>2, <1>3, <1>4, <1>5, Zenon

(***************************************************************************)
(* In the initial state nothing is stored and the workers are idle.        *)
(***************************************************************************)
LEMMA InitTypes == Init => TypeInv
<1> SUFFICES ASSUME Init PROVE TypeInv
  BY Zenon
<1>1. 0 \in Version
  BY SyncAssumption DEF Version
<1>2. made \in [Node -> Version]
  BY SyncAssumption, Zenon DEF Init, Node, Version
<1>3. \A f \in {art, row, model} : f \in [Gateway -> [Node -> Version]]
  BY <1>1 DEF Init
<1>4. Idle \in Task /\ Idle.pc = "idle"
  BY SyncAssumption DEF Idle, T, Task, Version
<1>5. task \in [Worker -> Task] /\ TasksNameNodes
  BY <1>4, Zenon DEF Init, TasksNameNodes
<1>6. /\ outbox \in [Gateway -> Seq(OutboxRow)]
      /\ \A g \in Gateway : DOMAIN outbox[g] = {}
      /\ drain \in [Gateway -> Seq(Node \X Version)]
      /\ newer \in [Gateway -> Seq(Node \cup Worker)]
  BY DEF Init
<1>7. /\ net \subseteq Announcement /\ sent \in [Gateway -> BOOLEAN]
      /\ cursor \in [Gateway -> {Nil, Incremental} \cup {Full(n) : n \in 0 .. N}]
      /\ failed \subseteq Fallible /\ owed \in [Gateway -> SUBSET (Node \X Version)]
  BY Zenon DEF Init
<1>8. QED
  BY <1>2, <1>3, <1>5, <1>6, <1>7, Zenon DEF TypeInv, TypeOK

(***************************************************************************)
(* Next keeps the types.                                                   *)
(***************************************************************************)
LEMMA NextTypes == TypeInv /\ [Next]_vars => TypeInv'
<1> SUFFICES ASSUME TypeInv, [Next]_vars PROVE TypeInv'
  BY Zenon
<1>1. ASSUME NEW w \in Worker,
             \/ \E n \in Node : Push(w, n)
             \/ \E n \in Node : Pull(w, n) \/ Refresh(w, n)
             \/ \E m \in net : Hear(w, m)
             \/ Fetch(w) \/ Fetched(w)
      PROVE  TypeInv'
  BY <1>1, TakeUpStep, Zenon DEF Pull, Refresh
<1>2. ASSUME NEW w \in Worker, Begin(w) \/ Commit(w) \/ WriteModels(w) \/ IngestFails(w)
      PROVE  TypeInv'
  BY <1>2, IngestStep, Zenon
<1>3. ASSUME NEW g \in Announcing,
             \/ Claim(g) \/ Publish(g) \/ Ack(g) \/ Release(g) \/ ClaimLapses(g)
             \/ Reconcile(g) \/ FullPage(g) \/ IncrementalPage(g)
      PROVE  TypeInv'
  <2>1. g \in Gateway
    BY SyncAssumption, Zenon
  <2>2. QED
    BY <1>3, <2>1, DrainStep, LoopStep
<1>4. ASSUME NEW g \in Gateway, Crash(g) \/ DrainFails(g)
      PROVE  TypeInv'
  BY <1>4, LoopStep, Zenon
<1>5. ASSUME NEW m \in net, Lose(m)
      PROVE  TypeInv'
  BY <1>5 DEF Lose, TypeInv, TypeOK, TasksNameNodes, db, loop
<1>6. CASE UNCHANGED vars
  BY <1>6 DEF vars, TypeInv, TypeOK, TasksNameNodes, db, loop
<1>7. QED
  BY <1>1, <1>2, <1>3, <1>4, <1>5, <1>6 DEF Next

(***************************************************************************)
(* Types are kept: no two rows of an outbox have the same key, though      *)
(* workers insert while the loop claims, releases and deletes.             *)
(***************************************************************************)
THEOREM TypeCorrect == Spec => []TypeOK
<1>1. TypeInv => TypeOK
  BY Zenon DEF TypeInv
<1>2. QED
  BY <1>1, InitTypes, NextTypes, PTL DEF Spec

-----------------------------------------------------------------------------
(* Rows and read models.                                                   *)

\* What a transaction does to the rows: nothing, or it puts a version that
\* is not older in the place of one row.
RowsKeptOrRaised ==
  \/ row' = row
  \/ \E g \in Gateway, n \in Node, v \in Version :
       v >= row[g][n] /\ row' = [row EXCEPT ![g][n] = v]

(***************************************************************************)
(* Of all steps only the commit of a transaction touches the rows.         *)
(***************************************************************************)
LEMMA OnlyCommitWritesRows ==
  ASSUME TypeInv, [Next]_vars
  PROVE  RowsKeptOrRaised
<1>1. ASSUME NEW w \in Worker, Commit(w)
      PROVE  RowsKeptOrRaised
  <2>1. CASE Applies(w)
    <3>1. /\ Site[w] \in Gateway /\ task[w].node \in Node /\ task[w].version \in Version
      BY <1>1, SiteIsGateway DEF Commit, TypeInv, TypeOK, TasksNameNodes, Task
    <3>2. row' = [row EXCEPT ![Site[w]][task[w].node] = task[w].version]
      BY <1>1, <2>1 DEF Commit
    <3>3. task[w].version >= row[Site[w]][task[w].node]
      BY <2>1 DEF Applies
    <3>4. QED
      BY <3>1, <3>2, <3>3, Zenon DEF RowsKeptOrRaised
  <2>2. CASE ~Applies(w)
    BY <1>1, <2>2 DEF Commit, RowsKeptOrRaised
  <2>3. QED
    BY <2>1, <2>2
<1>2. ASSUME NEW w \in Worker,
             \/ \E n \in Node : Push(w, n)
             \/ \E n \in Node : Pull(w, n) \/ Refresh(w, n)
             \/ \E m \in net : Hear(w, m)
             \/ Fetch(w) \/ Fetched(w) \/ Begin(w) \/ WriteModels(w) \/ IngestFails(w)
      PROVE  row' = row
  BY <1>2, Zenon DEF Push, Pull, Refresh, Ask, Hear, Fetch, Fetched, WriteArtifact, Begin,
              WriteModels, IngestFails, db
<1>3. ASSUME NEW g \in Announcing,
             \/ Claim(g) \/ Publish(g) \/ Ack(g) \/ Release(g) \/ ClaimLapses(g)
             \/ Reconcile(g) \/ FullPage(g) \/ IncrementalPage(g)
      PROVE  row' = row
  BY <1>3, Zenon DEF Claim, Publish, Ack, Release, ClaimLapses, Reconcile, FullPage,
              IncrementalPage, db
<1>4. ASSUME NEW g \in Gateway, Crash(g) \/ DrainFails(g)
      PROVE  row' = row
  BY <1>4, Zenon DEF Crash, DrainFails, db
<1>5. ASSUME NEW m \in net, Lose(m)
      PROVE  row' = row
  BY <1>5, Zenon DEF Lose, db
<1>6. CASE UNCHANGED vars
  BY <1>6, Zenon DEF vars, db, RowsKeptOrRaised
<1>7. QED
  BY <1>1, <1>2, <1>3, <1>4, <1>5, <1>6 DEF Next, RowsKeptOrRaised

(***************************************************************************)
(* A row is never replaced by an older snapshot, whichever workers of      *)
(* whichever gateways ingest it.                                           *)
(***************************************************************************)
THEOREM RowsOnlyAdvance == Spec => RowsNeverGoBack
<1>1. ASSUME TypeInv, [Next]_vars
      PROVE  \A g \in Gateway, n \in Node : row'[g][n] >= row[g][n]
  <2>1. row \in [Gateway -> [Node -> Version]]
    BY <1>1, RowTypes, Zenon DEF TypeInv
  <2>2. \A g \in Gateway, n \in Node : row[g][n] \in Nat
    BY <2>1 DEF Version
  <2>3. RowsKeptOrRaised
    BY <1>1, OnlyCommitWritesRows, Zenon
  <2>4. CASE row' = row
    BY <2>2, <2>4
  <2>5. ASSUME NEW g \in Gateway, NEW n \in Node, NEW v \in Version,
               v >= row[g][n], row' = [row EXCEPT ![g][n] = v]
        PROVE  \A h \in Gateway, k \in Node : row'[h][k] >= row[h][k]
    BY <2>1, <2>2, <2>5
  <2>6. QED
    BY <2>3, <2>4, <2>5, Zenon DEF RowsKeptOrRaised
<1>2. TypeInv /\ [Next]_vars =>
        [\A g \in Gateway, n \in Node : row'[g][n] >= row[g][n]]_vars
  BY <1>1, Zenon
<1>3. QED
  BY <1>2, InitTypes, NextTypes, PTL DEF Spec, RowsNeverGoBack

(***************************************************************************)
(* The read models are not ahead of the row, no worker is to write models  *)
(* newer than the row, and models that lag behind a row are still to be    *)
(* written by a worker at work on the very version of the row, unless      *)
(* something has failed.                                                   *)
(***************************************************************************)
ModelInv ==
  /\ \A g \in Gateway, n \in Node : model[g][n] <= row[g][n]
  /\ \A w \in Worker : task[w].pc = "models" =>
       task[w].version <= row[Site[w]][task[w].node]
  /\ \A g \in Gateway \ failed, n \in Node : model[g][n] # row[g][n] =>
       \E w \in Worker : /\ Site[w] = g /\ task[w].pc = "models"
                         /\ task[w].node = n /\ task[w].version = row[g][n]

(***************************************************************************)
(* A step that leaves rows and models alone, sends no worker to write      *)
(* models and ends none of them without a failure keeps ModelInv.          *)
(***************************************************************************)
LEMMA ModelFrame ==
  ASSUME ModelInv, row' = row, model' = model, failed \subseteq failed',
         \A w \in Worker : task'[w].pc = "models" => task'[w] = task[w],
         \A w \in Worker : task[w].pc = "models" /\ Site[w] \notin failed' => task'[w] = task[w]
  PROVE  ModelInv'
BY DEF ModelInv

(***************************************************************************)
(* A worker takes up a snapshot, begins its transaction or fails.          *)
(***************************************************************************)
LEMMA ModelWorker ==
  ASSUME TypeInv, ModelInv, NEW w \in Worker,
         \/ \E n \in Node : Push(w, n)
         \/ \E n \in Node : Pull(w, n) \/ Refresh(w, n)
         \/ \E m \in net : Hear(w, m)
         \/ Fetch(w) \/ Fetched(w) \/ Begin(w) \/ IngestFails(w)
         \/ (Commit(w) /\ ~Applies(w))
  PROVE  ModelInv'
<1>1. task \in [Worker -> Task]
  BY Zenon DEF TypeInv, TypeOK
<1>2. row' = row /\ model' = model /\ failed \subseteq failed'
  BY Zenon DEF Push, Pull, Refresh, Ask, Hear, Fetch, Fetched, WriteArtifact, Begin, IngestFails,
         Commit, db
<1>3. Idle.pc # "models"
  BY Zenon DEF Idle, T
<1>4. /\ \A n, v, a, f : T("heard", n, v, a, f).pc # "models"
      /\ \A n, v, a, f : T("fetched", n, v, a, f).pc # "models"
      /\ \A n, v, a, f : T("begin", n, v, a, f).pc # "models"
  BY Zenon DEF T
<1>5. [task[w] EXCEPT !.pc = "commit"].pc # "models"
  BY <1>1, Zenon DEF Task
<1>6. \E x : task' = [task EXCEPT ![w] = x] /\ x.pc # "models"
  <2>1. ASSUME NEW n \in Node, Push(w, n)
        PROVE  \E x : task' = [task EXCEPT ![w] = x] /\ x.pc # "models"
    <3>1. PICK v : task' = [task EXCEPT ![w] = T("begin", n, v, TRUE, Nil)]
      BY <2>1, Zenon DEF Push, WriteArtifact
    <3>2. QED
      BY <1>4, <3>1, Zenon
  <2>2. ASSUME NEW n \in Node, Ask(w, n)
        PROVE  \E x : task' = [task EXCEPT ![w] = x] /\ x.pc # "models"
    <3>1. PICK v : task' = [task EXCEPT ![w] = T("fetched", n, v, TRUE, Nil)]
      BY <2>2, Zenon DEF Ask
    <3>2. QED
      BY <1>4, <3>1, Zenon
  <2>3. ASSUME NEW m \in net, Hear(w, m)
        PROVE  \E x : task' = [task EXCEPT ![w] = x] /\ x.pc # "models"
    <3>1. task' = [task EXCEPT ![w] = T("heard", m.node, m.version, FALSE, m.from)]
      BY <2>3, Zenon DEF Hear
    <3>2. QED
      BY <1>4, <3>1, Zenon
  <2>4. CASE Fetch(w)
    <3>1. \/ task' = [task EXCEPT ![w] = T("fetched", task[w].node, task[w].version, FALSE, Nil)]
          \/ task' = [task EXCEPT ![w] = Idle]
      BY <2>4, Zenon DEF Fetch
    <3>2. CASE task' = [task EXCEPT ![w] = T("fetched", task[w].node, task[w].version, FALSE, Nil)]
      BY <1>4, <3>2, Zenon
    <3>3. CASE task' = [task EXCEPT ![w] = Idle]
      BY <1>3, <3>3, Zenon
    <3>4. QED
      BY <3>1, <3>2, <3>3, Zenon
  <2>5. CASE Fetched(w)
    <3>1. task' = [task EXCEPT ![w] = T("begin", task[w].node, task[w].version,
                                        task[w].announce, Nil)]
      BY <2>5, Zenon DEF Fetched, WriteArtifact
    <3>2. QED
      BY <1>4, <3>1, Zenon
  <2>6. CASE Begin(w)
    BY <1>5, <2>6, Zenon DEF Begin, Go
  <2>7. CASE IngestFails(w) \/ (Commit(w) /\ ~Applies(w))
    BY <1>3, <2>7, Zenon DEF IngestFails, Commit, Go
  <2>8. QED
    BY <2>1, <2>2, <2>3, <2>4, <2>5, <2>6, <2>7, Zenon DEF Pull, Refresh
<1>61. task[w].pc = "models" => Site[w] \in failed'
  BY Zenon DEF Push, Pull, Refresh, Ask, Hear, Fetch, Fetched, Begin, IngestFails, Commit
<1>7. PICK x : task' = [task EXCEPT ![w] = x] /\ x.pc # "models"
  BY <1>6, Zenon
<1>8. \A u \in Worker : task'[u] = IF u = w THEN x ELSE task[u]
  BY <1>1, <1>7, Zenon
<1>9. QED
  BY <1>2, <1>61, <1>7, <1>8, ModelFrame, Zenon

(***************************************************************************)
(* A transaction that applies leaves its worker to write the models of the *)
(* new row.                                                                *)
(***************************************************************************)
LEMMA ModelCommit ==
  ASSUME TypeInv, ModelInv, NEW w \in Worker, Commit(w), Applies(w)
  PROVE  ModelInv'
<1> DEFINE g == Site[w]
           n == task[w].node
           v == task[w].version
<1>1. /\ g \in Gateway /\ n \in Node /\ v \in Version /\ task[w].pc = "commit"
      /\ task[w] \in Task /\ task \in [Worker -> Task]
  BY SiteIsGateway, SMTT(30) DEF Commit, TypeInv, TypeOK, TasksNameNodes, Task
<1>2. row \in [Gateway -> [Node -> Version]] /\ model \in [Gateway -> [Node -> Version]]
  BY RowTypes, Zenon DEF TypeInv
<1>3. /\ row' = [row EXCEPT ![g][n] = v] /\ v >= row[g][n]
      /\ model' = model /\ failed' = failed
      /\ task' = [task EXCEPT ![w] = [task[w] EXCEPT !.pc = "models"]]
  BY Zenon DEF Commit, Applies, Go
<1>4. /\ task'[w].pc = "models" /\ task'[w].node = n /\ task'[w].version = v
      /\ \A u \in Worker \ {w} : task'[u] = task[u]
  BY <1>1, <1>3, SMTT(30) DEF Task
<1>5. \A h \in Gateway, k \in Node :
        row'[h][k] = IF h = g /\ k = n THEN v ELSE row[h][k]
  BY <1>1, <1>2, <1>3, SMTT(30)
<1>6. \A h \in Gateway, k \in Node : row[h][k] \in Nat /\ model[h][k] \in Nat
  BY <1>2, SMTT(30) DEF Version
<1>7. v \in Nat /\ \A u \in Worker : task[u].version \in Nat /\ Site[u] \in Gateway
  BY <1>1, SiteIsGateway, SMTT(30) DEF Version, Task
<1>8. \A u \in Worker : task[u].pc = "models" => task[u].node \in Node
  BY Zenon DEF TypeInv, TasksNameNodes
<1> HIDE DEF g, n, v
<1>9. \A h \in Gateway, k \in Node : model'[h][k] <= row'[h][k]
  <2> TAKE h \in Gateway, k \in Node
  <2>1. model[h][k] <= row[h][k]
    BY Zenon DEF ModelInv
  <2>2. row[h][k] <= row'[h][k] /\ row'[h][k] \in Nat
    BY <1>3, <1>5, <1>6, <1>7, SMTT(30)
  <2>3. QED
    BY <1>3, <1>6, <2>1, <2>2, SMTT(30)
<1>10. \A u \in Worker : task'[u].pc = "models" =>
         task'[u].version <= row'[Site[u]][task'[u].node]
  <2> SUFFICES ASSUME NEW u \in Worker, task'[u].pc = "models"
               PROVE  task'[u].version <= row'[Site[u]][task'[u].node]
    BY Zenon
  <2>1. CASE u = w
    BY <1>1, <1>4, <1>5, <1>7, <2>1, SMTT(30) DEF g
  <2>2. CASE u # w
    <3>1. task'[u] = task[u] /\ Site[u] \in Gateway /\ task[u].node \in Node
      BY <1>4, <1>7, <1>8, <2>2, Zenon
    <3>2. task[u].version <= row[Site[u]][task[u].node]
      BY <3>1, Zenon DEF ModelInv
    <3>3. /\ row[Site[u]][task[u].node] <= row'[Site[u]][task[u].node]
          /\ row'[Site[u]][task[u].node] \in Nat /\ row[Site[u]][task[u].node] \in Nat
      BY <1>3, <1>5, <1>6, <1>7, <3>1, SMTT(30)
    <3>4. QED
      BY <1>7, <3>1, <3>2, <3>3, SMTT(30)
  <2>3. QED
    BY <2>1, <2>2, Zenon
<1>11. \A h \in Gateway \ failed', k \in Node : model'[h][k] # row'[h][k] =>
         \E u \in Worker : /\ Site[u] = h /\ task'[u].pc = "models"
                           /\ task'[u].node = k /\ task'[u].version = row'[h][k]
  <2> SUFFICES ASSUME NEW h \in Gateway \ failed, NEW k \in Node, model[h][k] # row'[h][k]
               PROVE  \E u \in Worker : /\ Site[u] = h /\ task'[u].pc = "models"
                                        /\ task'[u].node = k /\ task'[u].version = row'[h][k]
    BY <1>3, SMTT(30)
  <2>1. CASE h = g /\ k = n
    BY <1>4, <1>5, <2>1, Zenon DEF g
  <2>2. CASE ~ (h = g /\ k = n)
    <3>1. row'[h][k] = row[h][k]
      BY <1>5, <2>2, Zenon
    <3>2. PICK u \in Worker : /\ Site[u] = h /\ task[u].pc = "models"
                              /\ task[u].node = k /\ task[u].version = row[h][k]
      BY <3>1, SMTT(30) DEF ModelInv
    <3>3. task'[u] = task[u]
      BY <1>1, <1>4, <3>2, Zenon
    <3>4. QED
      BY <3>1, <3>2, <3>3, Zenon
  <2>3. QED
    BY <2>1, <2>2, Zenon
<1>12. QED
  BY <1>9, <1>10, <1>11, Zenon DEF ModelInv

(***************************************************************************)
(* The guard of the projections: an older write that comes last changes    *)
(* nothing, and the one of the row's version brings the models up to it.   *)
(***************************************************************************)
LEMMA ModelWrite ==
  ASSUME TypeInv, ModelInv, NEW w \in Worker, WriteModels(w)
  PROVE  ModelInv'
<1> DEFINE g == Site[w]
           n == task[w].node
           v == task[w].version
<1>1. /\ g \in Gateway /\ n \in Node /\ v \in Version /\ task[w].pc = "models"
      /\ task \in [Worker -> Task]
  BY SiteIsGateway, Zenon DEF WriteModels, TypeInv, TypeOK, TasksNameNodes, Task
<1>2. row \in [Gateway -> [Node -> Version]] /\ model \in [Gateway -> [Node -> Version]]
  BY RowTypes, Zenon DEF TypeInv
<1>3. /\ model' = [model EXCEPT ![g][n] = Newest(model[g][n], v)]
      /\ row' = row /\ failed' = failed /\ task' = [task EXCEPT ![w] = Idle]
  BY Zenon DEF WriteModels, Go
<1>4. task'[w].pc # "models" /\ \A u \in Worker \ {w} : task'[u] = task[u]
  BY <1>1, <1>3, Zenon DEF Idle, T
<1>5. \A h \in Gateway, k \in Node :
        model'[h][k] = IF h = g /\ k = n THEN Newest(model[g][n], v) ELSE model[h][k]
  BY <1>1, <1>2, <1>3, SMTT(30)
<1>6. \A h \in Gateway, k \in Node : row[h][k] \in Nat /\ model[h][k] \in Nat
  BY <1>2, SMTT(30) DEF Version
<1>7. v \in Nat /\ v <= row[g][n] /\ model[g][n] <= row[g][n]
  BY <1>1, SMTT(30) DEF Version, ModelInv
<1> HIDE DEF g, n, v
<1>8. /\ Newest(model[g][n], v) <= row[g][n]
      /\ v = row[g][n] => Newest(model[g][n], v) = row[g][n]
      /\ model[g][n] = row[g][n] => Newest(model[g][n], v) = row[g][n]
  BY <1>1, <1>6, <1>7, SMTT(30) DEF Newest
<1>9. \A h \in Gateway, k \in Node : model'[h][k] <= row'[h][k]
  BY <1>3, <1>5, <1>8, SMTT(30) DEF ModelInv
<1>10. \A u \in Worker : task'[u].pc = "models" =>
         task'[u].version <= row'[Site[u]][task'[u].node]
  BY <1>3, <1>4, SMTT(30) DEF ModelInv
<1>11. \A h \in Gateway \ failed', k \in Node : model'[h][k] # row'[h][k] =>
         \E u \in Worker : /\ Site[u] = h /\ task'[u].pc = "models"
                           /\ task'[u].node = k /\ task'[u].version = row'[h][k]
  <2> SUFFICES ASSUME NEW h \in Gateway \ failed, NEW k \in Node, model'[h][k] # row[h][k]
               PROVE  \E u \in Worker : /\ Site[u] = h /\ task'[u].pc = "models"
                                        /\ task'[u].node = k /\ task'[u].version = row[h][k]
    BY <1>3, SMTT(30)
  <2>1. model[h][k] # row[h][k] /\ ~ (h = g /\ k = n /\ v = row[h][k])
    BY <1>5, <1>8, Zenon
  <2>2. PICK u \in Worker : /\ Site[u] = h /\ task[u].pc = "models"
                            /\ task[u].node = k /\ task[u].version = row[h][k]
    BY <2>1, SMTT(30) DEF ModelInv
  <2>3. u # w
    BY <2>1, <2>2, Zenon DEF g, n, v
  <2>4. QED
    BY <1>4, <2>2, <2>3, Zenon
<1>12. QED
  BY <1>9, <1>10, <1>11, Zenon DEF ModelInv

(***************************************************************************)
(* The loop, the network and a restart.                                    *)
(***************************************************************************)
LEMMA ModelLoop ==
  ASSUME TypeInv, ModelInv,
         \/ \E g \in Announcing :
              \/ Claim(g) \/ Publish(g) \/ Ack(g) \/ Release(g) \/ ClaimLapses(g)
              \/ Reconcile(g) \/ FullPage(g) \/ IncrementalPage(g)
         \/ \E g \in Gateway : Crash(g) \/ DrainFails(g)
         \/ \E m \in net : Lose(m)
         \/ UNCHANGED vars
  PROVE  ModelInv'
<1>1. ASSUME NEW g \in Announcing,
             \/ Claim(g) \/ Publish(g) \/ Ack(g) \/ Release(g) \/ ClaimLapses(g)
             \/ Reconcile(g) \/ FullPage(g) \/ IncrementalPage(g)
      PROVE  row' = row /\ model' = model /\ task' = task /\ failed' = failed
  BY <1>1, Zenon DEF Claim, Publish, Ack, Release, ClaimLapses, Reconcile, FullPage,
              IncrementalPage, db
<1>2. ASSUME NEW g \in Gateway, DrainFails(g)
      PROVE  row' = row /\ model' = model /\ task' = task /\ failed \subseteq failed'
  BY <1>2, Zenon DEF DrainFails, db
<1>3. ASSUME NEW m \in net, Lose(m)
      PROVE  row' = row /\ model' = model /\ task' = task /\ failed' = failed
  BY <1>3, Zenon DEF Lose, db
<1>4. CASE UNCHANGED vars
  BY <1>4, ModelFrame, Zenon DEF vars, db
<1>5. ASSUME NEW g \in Gateway, Crash(g)
      PROVE  ModelInv'
  <2>1. row' = row /\ model' = model /\ failed \subseteq failed' /\ g \in failed'
    BY <1>5, Zenon DEF Crash, db
  <2>2. \A w \in Worker : task'[w] = IF Site[w] = g THEN Idle ELSE task[w]
    BY <1>5, Zenon DEF Crash
  <2>3. Idle.pc # "models"
    BY Zenon DEF Idle, T
  <2>4. QED
    BY <2>1, <2>2, <2>3, ModelFrame, SMTT(30)
<1>6. ASSUME row' = row, model' = model, task' = task, failed \subseteq failed'
      PROVE  ModelInv'
  BY <1>6, ModelFrame, SMTT(30)
<1>7. QED
  BY <1>1, <1>2, <1>3, <1>4, <1>5, <1>6, Zenon

(***************************************************************************)
(* Next keeps ModelInv.                                                    *)
(***************************************************************************)
LEMMA NextModels == TypeInv /\ ModelInv /\ [Next]_vars => ModelInv'
<1> SUFFICES ASSUME TypeInv, ModelInv, [Next]_vars PROVE ModelInv'
  BY Zenon
<1>1. ASSUME NEW w \in Worker,
             \/ \E n \in Node : Push(w, n)
             \/ \E n \in Node : Pull(w, n) \/ Refresh(w, n)
             \/ \E m \in net : Hear(w, m)
             \/ Fetch(w) \/ Fetched(w) \/ Begin(w) \/ IngestFails(w)
      PROVE  ModelInv'
  BY <1>1, ModelWorker, SMTT(30)
<1>2. ASSUME NEW w \in Worker, Commit(w)
      PROVE  ModelInv'
  BY <1>2, ModelWorker, ModelCommit, SMTT(30)
<1>3. ASSUME NEW w \in Worker, WriteModels(w)
      PROVE  ModelInv'
  BY <1>3, ModelWrite, SMTT(30)
<1>4. QED
  BY <1>1, <1>2, <1>3, ModelLoop, SMTT(30) DEF Next

(***************************************************************************)
(* The read models of every node at every gateway follow its row: they are *)
(* never ahead, and when no ingest of the node is under way they are those *)
(* of the row, unless an ingest was cut short.                             *)
(***************************************************************************)
THEOREM ModelsAreThoseOfRows == Spec => []ModelsFollowRows
<1>1. Init => ModelInv
  <2> SUFFICES ASSUME Init PROVE ModelInv
    BY Zenon
  <2>1. \A g \in Gateway, n \in Node : row[g][n] = 0 /\ model[g][n] = 0
    BY Zenon DEF Init
  <2>2. \A w \in Worker : task[w].pc = "idle"
    BY Zenon DEF Init, Idle, T
  <2>3. QED
    BY <2>1, <2>2, SMTT(30) DEF ModelInv
<1>2. ModelInv => ModelsFollowRows
  BY SMTT(30) DEF ModelInv, ModelsFollowRows
<1>3. QED
  BY <1>1, <1>2, InitTypes, NextTypes, NextModels, PTL DEF Spec

-----------------------------------------------------------------------------
(* What is to be announced.                                                *)

(***************************************************************************)
(* What is owed is in the outbox; no row of the outbox and none that the   *)
(* loop holds is newer than the row of its node, so that a new version's   *)
(* key is never the one the loop is about to delete; and what was          *)
(* published and waits to be deleted is not owed.                          *)
(***************************************************************************)
OutboxInv ==
  \A g \in Gateway :
    /\ owed[g] \subseteq KeysOf(outbox[g])
    /\ \A k \in KeysOf(outbox[g]) : k[2] <= row[g][k[1]]
    /\ \A i \in DOMAIN drain[g] : drain[g][i][2] <= row[g][drain[g][i][1]]
    /\ sent[g] => drain[g] # <<>> /\ Head(drain[g]) \notin owed[g]

(***************************************************************************)
(* The rows and keys of a gateway's outbox.                                *)
(***************************************************************************)
LEMMA OutboxFacts ==
  ASSUME TypeInv, NEW g \in Gateway
  PROVE  /\ outbox[g] \in Seq(OutboxRow) /\ Distinct(outbox[g])
         /\ KeysOf(outbox[g]) \in SUBSET (Node \X Version)
         /\ drain[g] \in Seq(Node \X Version)
<1>1. outbox[g] \in Seq(OutboxRow) /\ Distinct(outbox[g])
  BY Zenon DEF TypeInv, TypeOK, Distinct
<1>2. \A r \in OutboxRow : Key(r) \in Node \X Version
  BY Zenon DEF Key, OutboxRow
<1>3. \A i \in DOMAIN outbox[g] : outbox[g][i] \in OutboxRow
  BY <1>1, SMTT(30)
<1>4. KeysOf(outbox[g]) \in SUBSET (Node \X Version)
  BY <1>2, <1>3, Zenon DEF KeysOf
<1>5. QED
  BY <1>1, <1>4, Zenon DEF TypeInv, TypeOK

(***************************************************************************)
(* A commit puts the row of what it owes in the outbox, and a key that the *)
(* loop has published is not owed anew: it is of no newer version.         *)
(***************************************************************************)
LEMMA OutboxCommit ==
  ASSUME TypeInv, OutboxInv, NEW w \in Worker, Commit(w), Applies(w)
  PROVE  OutboxInv'
<1> DEFINE g == Site[w]
           t == task[w]
<1>1. /\ g \in Gateway /\ t \in Task /\ t.node \in Node /\ t.version \in Version
  BY SiteIsGateway, Zenon DEF Commit, TypeInv, TypeOK, TasksNameNodes, Task
<1>2. row \in [Gateway -> [Node -> Version]]
  BY RowTypes, Zenon DEF TypeInv
<1>3. /\ row' = [row EXCEPT ![g][t.node] = t.version] /\ t.version >= row[g][t.node]
      /\ outbox' = [outbox EXCEPT ![g] = Announced(w)]
      /\ owed' = [owed EXCEPT ![g] = IF t.announce /\ t.version # row[g][t.node]
                                     THEN owed[g] \cup {Key(t)} ELSE owed[g]]
      /\ drain' = drain /\ sent' = sent
  BY Zenon DEF Commit, Applies, loop
<1>4. KeysOf(Announced(w)) = IF t.announce THEN KeysOf(outbox[g]) \cup {Key(t)}
                             ELSE KeysOf(outbox[g])
  BY <1>1, OutboxFacts, AnnouncedAdds, Zenon
<1>5. /\ outbox'[g] = Announced(w) /\ \A h \in Gateway \ {g} : outbox'[h] = outbox[h]
      /\ \A h \in Gateway \ {g} : owed'[h] = owed[h]
      /\ owed'[g] = IF t.announce /\ t.version # row[g][t.node]
                    THEN owed[g] \cup {Key(t)} ELSE owed[g]
  BY <1>1, <1>3, Zenon DEF TypeInv, TypeOK
<1>6. Key(t) = <<t.node, t.version>>
  BY Zenon DEF Key
<1>7. /\ row'[g][t.node] = t.version
      /\ \A h \in Gateway, n \in Node : row'[h][n] >= row[h][n]
      /\ \A h \in Gateway, n \in Node : row'[h][n] \in Nat /\ row[h][n] \in Nat
  <2>1. \A h \in Gateway, n \in Node :
          row'[h][n] = IF h = g /\ n = t.node THEN t.version ELSE row[h][n]
    BY <1>1, <1>2, <1>3, ZenonT(40)
  <2>2. \A h \in Gateway, n \in Node : row[h][n] \in Nat
    <3>1. \A h \in Gateway, n \in Node : row[h][n] \in Version
      BY <1>2, Zenon
    <3>2. QED
      BY <3>1, SyncAssumption, SMTT(30) DEF Version
  <2>3. t.version \in Nat
    BY <1>1, SMTT(30) DEF Version
  <2> HIDE DEF g, t
  <2>4. QED
    BY <1>1, <1>3, <2>1, <2>2, <2>3, SMTT(30)
<1> HIDE DEF g, t
<1>8. SUFFICES ASSUME NEW h \in Gateway
               PROVE  /\ owed'[h] \subseteq KeysOf(outbox'[h])
                      /\ \A k \in KeysOf(outbox'[h]) : k[2] <= row'[h][k[1]]
                      /\ \A i \in DOMAIN drain'[h] :
                           drain'[h][i][2] <= row'[h][drain'[h][i][1]]
                      /\ sent'[h] => drain'[h] # <<>> /\ Head(drain'[h]) \notin owed'[h]
  BY Zenon DEF OutboxInv, KeysOf
<1>9. owed'[h] \subseteq KeysOf(outbox'[h])
  <2>1. owed[h] \subseteq KeysOf(outbox[h])
    BY Zenon DEF OutboxInv
  <2>2. QED
    BY <1>4, <1>5, <2>1, SMTT(30)
<1>10. \A k \in Node \X Version : k[2] <= row[h][k[1]] => k[2] <= row'[h][k[1]]
  <2> SUFFICES ASSUME NEW k \in Node \X Version, k[2] <= row[h][k[1]]
               PROVE  k[2] <= row'[h][k[1]]
    BY Zenon
  <2>1. k[1] \in Node /\ k[2] \in Nat
    BY SMTT(30) DEF Version
  <2>2. QED
    BY <1>7, <2>1, SMTT(30)
<1>11. \A k \in KeysOf(outbox'[h]) : k[2] <= row'[h][k[1]]
  <2>1. \A k \in KeysOf(outbox[h]) : k \in Node \X Version /\ k[2] <= row[h][k[1]]
    BY OutboxFacts, SMTT(30) DEF OutboxInv
  <2>2. \A k \in KeysOf(outbox'[h]) : k \in KeysOf(outbox[h]) \/ (h = g /\ k = Key(t))
    BY <1>4, <1>5, Zenon
  <2>3. Key(t)[2] <= row'[g][Key(t)[1]]
    BY <1>1, <1>6, <1>7, SMTT(30) DEF Version
  <2>4. QED
    BY <1>10, <2>1, <2>2, <2>3, SMTT(30)
<1>12. \A i \in DOMAIN drain'[h] : drain'[h][i][2] <= row'[h][drain'[h][i][1]]
  <2>1. \A i \in DOMAIN drain[h] : drain[h][i] \in Node \X Version
    BY OutboxFacts, SMTT(30)
  <2>2. \A i \in DOMAIN drain[h] : drain[h][i][2] <= row[h][drain[h][i][1]]
    BY Zenon DEF OutboxInv
  <2>3. QED
    BY <1>3, <1>10, <2>1, <2>2, SMTT(30)
<1>13. ASSUME sent'[h]
       PROVE  drain'[h] # <<>> /\ Head(drain'[h]) \notin owed'[h]
  <2>1. drain[h] # <<>> /\ Head(drain[h]) \notin owed[h]
    BY <1>3, <1>13, Zenon DEF OutboxInv
  <2>2. Head(drain[h])[2] <= row[h][Head(drain[h])[1]]
    <3>1. 1 \in DOMAIN drain[h] /\ Head(drain[h]) = drain[h][1]
      BY <2>1, OutboxFacts, SMTT(30)
    <3>2. QED
      BY <3>1, Zenon DEF OutboxInv
  <2>3. t.version # row[g][t.node] /\ h = g => Head(drain[h]) # Key(t)
    <3> SUFFICES ASSUME h = g, Head(drain[h]) = Key(t)
                 PROVE  t.version = row[g][t.node]
      BY Zenon
    <3>1. t.version <= row[g][t.node]
      BY <1>6, <2>2, SMTT(30)
    <3>2. QED
      BY <1>1, <1>3, <1>7, <3>1, SMTT(30) DEF Version
  <2>4. QED
    BY <1>3, <1>5, <2>1, <2>3, SMTT(30)
<1>14. QED
  BY <1>9, <1>11, <1>12, <1>13, Zenon

\* OutboxInv for one gateway, as functions of what it is about.
Kept(keys, rows, batch, published, due) ==
  /\ due \subseteq keys
  /\ \A k \in keys : k[2] <= rows[k[1]]
  /\ \A i \in DOMAIN batch : batch[i][2] <= rows[batch[i][1]]
  /\ published => batch # <<>> /\ Head(batch) \notin due

(***************************************************************************)
(* A step of one gateway that keeps the rows keeps OutboxInv when it keeps *)
(* it for that gateway.                                                    *)
(***************************************************************************)
LEMMA OutboxLocal ==
  ASSUME OutboxInv, NEW g \in Gateway, row' = row,
         Kept(KeysOf(outbox'[g]), row[g], drain'[g], sent'[g], owed'[g]),
         \A h \in Gateway \ {g} : /\ outbox'[h] = outbox[h] /\ drain'[h] = drain[h]
                                  /\ sent'[h] = sent[h] /\ owed'[h] = owed[h]
  PROVE  OutboxInv'
<1> SUFFICES ASSUME NEW h \in Gateway
             PROVE  Kept(KeysOf(outbox'[h]), row[h], drain'[h], sent'[h], owed'[h])
  BY Zenon DEF OutboxInv, KeysOf, Kept
<1>1. Kept(KeysOf(outbox[h]), row[h], drain[h], sent[h], owed[h])
  BY Zenon DEF OutboxInv, Kept
<1>2. QED
  BY <1>1, Zenon

(***************************************************************************)
(* The rest of a batch.                                                    *)
(***************************************************************************)
LEMMA TailOfBatch ==
  ASSUME NEW batch \in Seq(Node \X Version), batch # <<>>
  PROVE  \A i \in DOMAIN Tail(batch) : i + 1 \in DOMAIN batch /\ Tail(batch)[i] = batch[i + 1]
BY SMTT(30)

(***************************************************************************)
(* The drain: a claim takes keys of the outbox, publishing pays what is    *)
(* owed before the row is deleted, and giving up cancels it.               *)
(***************************************************************************)
LEMMA OutboxDrain ==
  ASSUME TypeInv, OutboxInv, NEW g \in Gateway,
         Claim(g) \/ Publish(g) \/ Ack(g) \/ Release(g) \/ ClaimLapses(g)
  PROVE  OutboxInv'
<1> DEFINE box == outbox[g]
           keys == KeysOf(box)
<1>0. /\ box \in Seq(OutboxRow) /\ Distinct(box) /\ keys \in SUBSET (Node \X Version)
      /\ drain[g] \in Seq(Node \X Version)
  BY OutboxFacts, ZenonT(40)
<1>01. Kept(keys, row[g], drain[g], sent[g], owed[g])
  BY Zenon DEF OutboxInv, Kept
<1>02. /\ outbox \in [Gateway -> Seq(OutboxRow)]
       /\ drain \in [Gateway -> Seq(Node \X Version)] /\ sent \in [Gateway -> BOOLEAN]
       /\ owed \in [Gateway -> SUBSET (Node \X Version)]
  BY Zenon DEF TypeInv, TypeOK
<1>03. ASSUME drain[g] # <<>>
       PROVE  \A i \in DOMAIN Tail(drain[g]) :
                Tail(drain[g])[i][2] <= row[g][Tail(drain[g])[i][1]]
  BY <1>0, <1>01, <1>03, TailOfBatch, SMTT(30) DEF Kept
<1>1. CASE Claim(g)
  <2> DEFINE I == Batch(g)
             d == Subsequence(Keys(box), I)
             new == [i \in DOMAIN box |-> IF i \in I THEN Claimed(box[i]) ELSE box[i]]
  <2>1. I \in SUBSET DOMAIN box
    BY Zenon DEF Batch, First, Claimable
  <2>2. /\ outbox' = [outbox EXCEPT ![g] = new] /\ drain' = [drain EXCEPT ![g] = d]
        /\ sent' = sent /\ owed' = owed /\ row' = row /\ drain[g] = <<>>
    BY <1>1, Zenon DEF Claim
  <2>3. KeysOf(new) = keys
    <3>1. ASSUME NEW i \in DOMAIN box PROVE Key(new[i]) = Key(box[i])
      <4>1. box[i] \in OutboxRow
        BY <1>0, SMTT(30)
      <4>2. new[i] = Claimed(box[i]) \/ new[i] = box[i]
        BY Zenon
      <4>3. QED
        BY <4>1, <4>2, ClaimedKeepsKey, Zenon
    <3>2. DOMAIN new = DOMAIN box
      BY Zenon
    <3> HIDE DEF new
    <3>3. QED
      BY <3>1, <3>2, SMTT(30) DEF KeysOf
  <2>4. \A i \in DOMAIN d : d[i] \in keys
    <3>1. Keys(box) \in Seq(Node \X Version) /\ DOMAIN Keys(box) = DOMAIN box
      BY <1>0, KeysTypes, Zenon
    <3>2. Len(box) \in Nat /\ I \in SUBSET (1 .. Len(box))
      BY <1>0, <2>1, SMTT(30)
    <3>3. PICK h : Embeds(h, d, Keys(box), I)
      BY <3>2, SubsequenceKeepsOrder, Zenon
    <3>4. \A i \in DOMAIN d : h[i] \in I /\ d[i] = Keys(box)[h[i]]
      BY <3>3, Zenon DEF Embeds
    <3>5. \A j \in I : Keys(box)[j] \in keys
      BY <2>1, Zenon DEF Keys, KeysOf
    <3>6. QED
      BY <3>4, <3>5, Zenon
  <2> HIDE DEF d, new
  <2>5. ~sent[g]
    BY <1>01, <2>2, Zenon DEF Kept
  <2>6. Kept(keys, row[g], d, sent[g], owed[g])
    BY <1>01, <2>4, <2>5, Zenon DEF Kept
  <2>7. QED
    BY <1>02, <2>2, <2>3, <2>6, OutboxLocal, SMTT(30)
<1>2. CASE Publish(g)
  <2>1. /\ outbox' = outbox /\ drain' = drain /\ sent' = [sent EXCEPT ![g] = TRUE]
        /\ owed' = [owed EXCEPT ![g] = owed[g] \ {Head(drain[g])}]
        /\ row' = row /\ drain[g] # <<>>
    BY <1>2, Zenon DEF Publish, db
  <2>2. Kept(keys, row[g], drain[g], TRUE, owed[g] \ {Head(drain[g])})
    BY <1>01, <2>1, Zenon DEF Kept
  <2>3. QED
    BY <1>02, <2>1, <2>2, OutboxLocal, Zenon
<1>3. CASE Ack(g)
  <2>1. /\ outbox' = [outbox EXCEPT ![g] = Without(g)] /\ owed' = owed /\ row' = row
        /\ drain' = [drain EXCEPT ![g] = Tail(drain[g])] /\ sent' = [sent EXCEPT ![g] = FALSE]
        /\ drain[g] # <<>> /\ sent[g]
    BY <1>3, Zenon DEF Ack, Advance
  <2>2. KeysOf(Without(g)) = keys \ {Head(drain[g])}
    BY <1>0, WithoutRemovesHead, Zenon
  <2>3. Kept(keys \ {Head(drain[g])}, row[g], Tail(drain[g]), FALSE, owed[g])
    BY <1>01, <1>03, <2>1, Zenon DEF Kept
  <2>4. QED
    BY <1>02, <2>1, <2>2, <2>3, OutboxLocal, Zenon
<1>4. CASE Release(g)
  <2>1. /\ drain' = [drain EXCEPT ![g] = Tail(drain[g])] /\ sent' = [sent EXCEPT ![g] = FALSE]
        /\ drain[g] # <<>> /\ row' = row
    BY <1>4, Zenon DEF Release, Advance
  <2>2. \/ /\ outbox' = [outbox EXCEPT ![g] = Without(g)]
           /\ owed' = [owed EXCEPT ![g] = owed[g] \ {Head(drain[g])}]
        \/ outbox' = outbox /\ owed' = owed
    BY <1>4, Zenon DEF Release
  <2>3. KeysOf(Without(g)) = keys \ {Head(drain[g])}
    BY <1>0, WithoutRemovesHead, Zenon
  <2>4. Kept(keys \ {Head(drain[g])}, row[g], Tail(drain[g]), FALSE, owed[g] \ {Head(drain[g])})
    BY <1>01, <1>03, <2>1, ZenonT(40) DEF Kept
  <2>5. Kept(keys, row[g], Tail(drain[g]), FALSE, owed[g])
    BY <1>01, <1>03, <2>1, SMTT(30) DEF Kept
  <2>6. CASE outbox' = outbox /\ owed' = owed
    BY <1>02, <2>1, <2>5, <2>6, OutboxLocal, Zenon
  <2>7. CASE /\ outbox' = [outbox EXCEPT ![g] = Without(g)]
             /\ owed' = [owed EXCEPT ![g] = owed[g] \ {Head(drain[g])}]
    BY <1>02, <2>1, <2>3, <2>4, <2>7, OutboxLocal, Zenon
  <2>8. QED
    BY <2>2, <2>6, <2>7, SMTT(30)
<1>5. CASE ClaimLapses(g)
  <2>1. PICK i \in DOMAIN box :
          /\ outbox' = [outbox EXCEPT ![g][i].claimed = FALSE]
          /\ drain' = drain /\ sent' = sent /\ owed' = owed /\ row' = row
    BY <1>5, Zenon DEF ClaimLapses, loop
  <2> DEFINE new == [box EXCEPT ![i] = [box[i] EXCEPT !.claimed = FALSE]]
  <2>2. outbox' = [outbox EXCEPT ![g] = new]
    BY <2>1, Zenon
  <2>3. \A r \in OutboxRow : Key([r EXCEPT !.claimed = FALSE]) = Key(r)
    BY Zenon DEF OutboxRow, Key
  <2>4. DOMAIN new = DOMAIN box /\ \A j \in DOMAIN box : Key(new[j]) = Key(box[j])
    BY <1>0, <2>3, SMTT(30)
  <2> HIDE DEF new
  <2>5. KeysOf(new) = keys
    BY <2>4, Zenon DEF KeysOf
  <2>6. QED
    BY <1>01, <1>02, <2>1, <2>2, <2>5, OutboxLocal, Zenon
<1>6. QED
  BY <1>1, <1>2, <1>3, <1>4, <1>5, SMTT(30)

(***************************************************************************)
(* A loop that stops leaves the outbox as it is.                           *)
(***************************************************************************)
LEMMA OutboxStop ==
  ASSUME TypeInv, OutboxInv, NEW g \in Gateway, Crash(g) \/ DrainFails(g)
  PROVE  OutboxInv'
<1>1. /\ drain' = [drain EXCEPT ![g] = <<>>] /\ sent' = [sent EXCEPT ![g] = FALSE]
      /\ outbox' = outbox /\ owed' = owed /\ row' = row
  BY Zenon DEF Crash, DrainFails, db
<1>2. Kept(KeysOf(outbox[g]), row[g], drain[g], sent[g], owed[g])
  BY Zenon DEF OutboxInv, Kept
<1>3. Kept(KeysOf(outbox[g]), row[g], <<>>, FALSE, owed[g])
  BY <1>2, SMTT(30) DEF Kept
<1>4. drain \in [Gateway -> Seq(Node \X Version)] /\ sent \in [Gateway -> BOOLEAN]
  BY Zenon DEF TypeInv, TypeOK
<1>5. QED
  BY <1>1, <1>3, <1>4, OutboxLocal, Zenon

(***************************************************************************)
(* Next keeps OutboxInv.                                                   *)
(***************************************************************************)
LEMMA NextOutbox == TypeInv /\ OutboxInv /\ [Next]_vars => OutboxInv'
<1> SUFFICES ASSUME TypeInv, OutboxInv, [Next]_vars PROVE OutboxInv'
  BY Zenon
<1>0. ASSUME UNCHANGED <<row, outbox, drain, sent, owed>>
      PROVE  OutboxInv'
  BY <1>0, SMTT(30) DEF OutboxInv, KeysOf
<1>1. ASSUME NEW w \in Worker,
             \/ \E n \in Node : Push(w, n)
             \/ \E n \in Node : Pull(w, n) \/ Refresh(w, n)
             \/ \E m \in net : Hear(w, m)
             \/ Fetch(w) \/ Fetched(w) \/ Begin(w) \/ WriteModels(w) \/ IngestFails(w)
             \/ (Commit(w) /\ ~Applies(w))
      PROVE  UNCHANGED <<row, outbox, drain, sent, owed>>
  BY <1>1, Zenon DEF Push, Pull, Refresh, Ask, Hear, Fetch, Fetched, WriteArtifact, Begin,
              WriteModels, IngestFails, Commit, db, loop
<1>2. ASSUME NEW w \in Worker, Commit(w)
      PROVE  OutboxInv'
  BY <1>0, <1>1, <1>2, OutboxCommit, Zenon
<1>3. ASSUME NEW g \in Announcing,
             Claim(g) \/ Publish(g) \/ Ack(g) \/ Release(g) \/ ClaimLapses(g)
      PROVE  OutboxInv'
  BY <1>3, OutboxDrain, SyncAssumption, Zenon
<1>4. ASSUME NEW g \in Announcing, Reconcile(g) \/ FullPage(g) \/ IncrementalPage(g)
      PROVE  UNCHANGED <<row, outbox, drain, sent, owed>>
  BY <1>4, Zenon DEF Reconcile, FullPage, IncrementalPage, db, loop
<1>5. ASSUME NEW g \in Gateway, Crash(g) \/ DrainFails(g)
      PROVE  OutboxInv'
  BY <1>5, OutboxStop, Zenon
<1>6. ASSUME NEW m \in net, Lose(m)
      PROVE  UNCHANGED <<row, outbox, drain, sent, owed>>
  BY <1>6, Zenon DEF Lose, db, loop
<1>7. CASE UNCHANGED vars
  BY <1>0, <1>7, Zenon DEF vars, db, loop
<1>8. QED
  BY <1>0, <1>1, <1>2, <1>3, <1>4, <1>5, <1>6, <1>7, Zenon DEF Next

(***************************************************************************)
(* What a gateway owes its peers is in its outbox, through claims, failed  *)
(* drains and restarts, until it is published or given up.                 *)
(***************************************************************************)
THEOREM OwedStaysInOutbox == Spec => []OwedIsKept
<1>1. Init => OutboxInv
  BY SMTT(30) DEF Init, OutboxInv, KeysOf
<1>2. OutboxInv => OwedIsKept
  BY Zenon DEF OutboxInv, OwedIsKept
<1>3. QED
  BY <1>1, <1>2, InitTypes, NextTypes, NextOutbox, PTL DEF Spec
-----------------------------------------------------------------------------
(* The list of nodes.                                                      *)

(***************************************************************************)
(* Every report of a database is a report.                                 *)
(***************************************************************************)
LEMMA LocalNodesTypes ==
  ASSUME NEW rows \in [Node -> Version] PROVE LocalNodes(rows) \in Seq(Report)
<1> DEFINE list == [n \in Node |-> IF rows[n] > 0 THEN ReportsOf(rows[n]) ELSE <<>>]
<1>1. N \in Nat /\ MaxVersion \in Nat
  BY SyncAssumption, Zenon
<1>2. ASSUME NEW v \in 1 .. MaxVersion PROVE ReportsOf(v) \in Seq(Report)
  <2>1. Named[v] \in Seq(Reported)
    BY ListAssumption, Zenon
  <2> DEFINE m == Len(Named[v])
  <2>2. m \in Nat /\ DOMAIN Named[v] = 1 .. m /\ \A i \in 1 .. m : Named[v][i] \in Reported
    BY <2>1, SMTT(30)
  <2> HIDE DEF m
  <2>3. \A i \in 1 .. m : [id |-> Named[v][i].id, ts |-> v, geo |-> Named[v][i].geo] \in Report
    BY <2>2, Zenon DEF Reported, Report
  <2>4. ReportsOf(v) \in [1 .. m -> Report]
    BY <2>2, <2>3, Zenon DEF ReportsOf
  <2>5. QED
    BY <2>2, <2>4, SMTT(30)
<1>3. list \in [Node -> Seq(Report)]
  <2>1. \A n \in Node : rows[n] > 0 => rows[n] \in 1 .. MaxVersion
    BY <1>1, SMTT(30) DEF Version
  <2>2. <<>> \in Seq(Report)
    BY SMTT(30)
  <2>3. \A n \in Node : (IF rows[n] > 0 THEN ReportsOf(rows[n]) ELSE <<>>) \in Seq(Report)
    BY <1>2, <2>1, <2>2, Zenon
  <2>4. QED
    BY <2>3, Zenon
<1> HIDE DEF list
<1>4. list \in [1 .. N -> Seq(Report)]
  BY <1>3, Zenon DEF Node
<1>5. Joined(list) \in Seq(Report)
  BY <1>1, <1>4, JoinedHasAll, Zenon
<1>6. QED
  BY <1>5, Zenon DEF LocalNodes, list

(***************************************************************************)
(* The reports of snapshots are what the theorem about lists asks for.     *)
(***************************************************************************)
LEMMA ReportsAreReports == AreReports(Report)
<1>1. \A x \in Report : x.ts \in Int /\ x.id \in NoId .. MaxId
  <2>1. MaxVersion \in Nat
    BY SyncAssumption, Zenon
  <2>2. QED
    BY <2>1, SMTT(30) DEF Report
<1>2. Ids(Report) \in SUBSET (NoId .. MaxId)
  BY <1>1, Zenon DEF Ids
<1>3. NoId \in Int /\ MaxId \in Int
  BY ListAssumption, SMTT(30) DEF NoId
<1>4. IsFiniteSet(Ids(Report))
  BY <1>2, <1>3, FS_Interval, FS_Subset, Zenon
<1>5. QED
  BY <1>1, <1>4, Zenon DEF AreReports

(***************************************************************************)
(* The list that a gateway answers is the newest one in every state,       *)
(* whatever was ingested and whatever the others have.                     *)
(***************************************************************************)
THEOREM ListsAreNewest == Spec => []ListIsNewest
<1>1. TypeOK => ListIsNewest
  <2> SUFFICES ASSUME TypeOK, NEW g \in Gateway PROVE <<row[g], TRUE>> \in Verdicts
    BY Zenon DEF ListIsNewest
  <2>1. row[g] \in [Node -> Version]
    <3>1. row \in [Gateway -> [Node -> Version]]
      BY Zenon DEF TypeOK
    <3>2. QED
      BY <3>1, Zenon
  <2> DEFINE local == LocalNodes(row[g])
  <2>2. local \in Seq(Report)
    BY <2>1, LocalNodesTypes, Zenon
  <2> HIDE DEF local
  <2>3. ASSUME NEW remote \in [Others -> UNION {[1 .. n -> Report] : n \in 0 .. MaxLength}],
               NEW answering \in SUBSET Others, NEW limit \in 0 .. MaxId
        PROVE  IsNewest(NetworkNodes(local, remote, answering, limit),
                        Counting(Available(local, remote, answering)), limit)
    <3>1. \A n \in 0 .. MaxLength : [1 .. n -> Report] \subseteq Seq(Report)
      BY ListAssumption, SMTT(30)
    <3>2. remote \in [Others -> Seq(Report)]
      <4>1. UNION {[1 .. n -> Report] : n \in 0 .. MaxLength} \subseteq Seq(Report)
        BY <3>1, Zenon
      <4>2. QED
        BY <4>1, Zenon
    <3>3. limit \in Nat
      BY ListAssumption, SMTT(30)
    <3>4. Peers \in Nat /\ Others = 1 .. Peers
      BY ListAssumption, Zenon DEF Others
    <3>5. remote \in [1 .. Peers -> Seq(Report)] /\ answering \in SUBSET (1 .. Peers)
      BY <3>2, <3>4, Zenon
    <3>6. QED
      BY <2>2, <3>3, <3>4, <3>5, ReportsAreReports, FederatedListIsNewest, Zenon
  <2>4. WellServed(local) <=> TRUE
    BY <2>3, Zenon DEF WellServed
  <2>5. WellServed(local) = TRUE
    BY <2>4, Zenon DEF WellServed
  <2>6. QED
    BY <2>1, <2>5, Zenon DEF Verdicts, local
<1>2. QED
  BY <1>1, TypeCorrect, PTL
=============================================================================
