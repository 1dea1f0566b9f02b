------------------------- MODULE SpacePresence_proofs -------------------------
(***************************************************************************)
(* What the rows of gateway_ui_events tell of the records of space.rs, for *)
(* any requests, records and interleaving of their transactions.           *)
(***************************************************************************)
EXTENDS SpacePresence, Lists_proofs

(***************************************************************************)
(* The input of a request that has one.                                    *)
(***************************************************************************)
LEMMA JobIsInput ==
  ASSUME TypeOK, NEW r \in Req, job[r] # Nil
  PROVE  /\ job[r] \in Input
         /\ job[r].records \in Seq(Record) /\ Len(job[r].records) \in Nat
         /\ job[r].kind = "event" => Len(job[r].records) = 1
         /\ done[r] \in 0 .. Len(job[r].records)
<1>1. job[r] \in Input
  BY Zenon DEF TypeOK
<1>2. /\ job[r].records \in Seq(Record)
      /\ job[r].kind = "event" => Len(job[r].records) = 1
  BY <1>1, SpaceAssumption, Zenon
<1>3. Len(job[r].records) \in Nat
  BY <1>2
<1>4. done[r] \in Nat /\ done[r] <= Len(job[r].records)
  BY DEF TypeOK
<1>5. QED
  BY <1>1, <1>2, <1>3, <1>4

(***************************************************************************)
(* The record a request is at.                                             *)
(***************************************************************************)
LEMMA AtIsRecord ==
  ASSUME TypeOK, NEW r \in Req, Working(r)
  PROVE  /\ job[r] \in Input /\ done[r] + 1 \in 1 .. Len(job[r].records)
         /\ At(r).key \in Key /\ At(r).seq \in 1 .. MaxSeq
         /\ At(r).key \in World => At(r).seq = 1
<1>1. /\ job[r] \in Input /\ job[r].records \in Seq(Record)
      /\ done[r] \in 0 .. Len(job[r].records) /\ Len(job[r].records) \in Nat
  BY JobIsInput DEF Working
<1>2. done[r] + 1 \in 1 .. Len(job[r].records) /\ done[r] + 1 \in DOMAIN job[r].records
  BY <1>1 DEF Working
<1>3. At(r) \in Record
  BY <1>1, <1>2 DEF At
<1>4. At(r).key \in World => At(r).seq = 1
  BY <1>1, <1>2, SpaceAssumption, Zenon DEF At
<1>5. QED
  BY <1>1, <1>2, <1>3, <1>4 DEF Record

(***************************************************************************)
(* The row that tells a record.                                            *)
(***************************************************************************)
LEMMA RowIsUiRow ==
  ASSUME TypeOK, NEW r \in Req, Working(r)
  PROVE  /\ Row(r, r) \in UiRow
         /\ Row(r, r).key = At(r).key /\ Row(r, r).seq = At(r).seq
         /\ Row(r, r).from = job[r] /\ Row(r, r).tx = r
BY AtIsRecord DEF Row, UiRow

(***************************************************************************)
(* A committed row has all but its transaction as before.                  *)
(***************************************************************************)
LEMMA CommittedRow ==
  ASSUME NEW x \in UiRow
  PROVE  /\ [x EXCEPT !.tx = Nil] \in UiRow
         /\ [x EXCEPT !.tx = Nil].key = x.key /\ [x EXCEPT !.tx = Nil].seq = x.seq
         /\ [x EXCEPT !.tx = Nil].from = x.from /\ [x EXCEPT !.tx = Nil].tx = Nil
BY DEF UiRow

(***************************************************************************)
(* The end of a request keeps the types.                                   *)
(***************************************************************************)
LEMMA EndTypes ==
  ASSUME TypeOK, NEW r \in Req, End(r),
         stored' \in [Key -> 0 .. MaxSeq], ui' \in Seq(UiRow)
  PROVE  TypeOK'
<1>1. /\ lock' \in [Key -> Req \cup {Nil}]
      /\ \A k \in Key : lock'[k] = IF lock[k] = r THEN Nil ELSE lock[k]
  BY DEF End, TypeOK
<1>2. draft' \in [Key -> 0 .. MaxSeq]
  BY SpaceAssumption DEF End, TypeOK
<1>3. /\ job' \in [Req -> Input \cup {Nil}]
      /\ \A q \in Req : job'[q] = IF q = r THEN Nil ELSE job[q]
  BY DEF End, TypeOK
<1>4. done' \in [Req -> Nat] /\ \A q \in Req : done'[q] = IF q = r THEN 0 ELSE done[q]
  BY DEF End, TypeOK
<1>5. \A q \in Req : done'[q] <= IF job'[q] = Nil THEN 0 ELSE Len(job'[q].records)
  BY <1>3, <1>4 DEF TypeOK
<1>6. ASSUME NEW k \in Key
      PROVE  (draft'[k] # 0 => lock'[k] # Nil) /\ (lock'[k] # Nil => job'[lock'[k]] # Nil)
  <2>1. draft'[k] = IF lock[k] = r THEN 0 ELSE draft[k]
    BY DEF End
  <2>2. (draft[k] # 0 => lock[k] # Nil) /\ (lock[k] # Nil => job[lock[k]] # Nil)
        /\ lock[k] \in Req \cup {Nil}
    BY DEF TypeOK
  <2>3. QED
    BY <1>1, <1>3, <2>1, <2>2
<1>7. QED
  BY <1>1, <1>2, <1>3, <1>4, <1>5, <1>6 DEF TypeOK

(***************************************************************************)
(* A request goes on to its next record: the row it is at is locked, or    *)
(* not, and written, or not.                                               *)
(***************************************************************************)
LEMMA GoOnTypes ==
  ASSUME TypeOK, NEW r \in Req, Working(r), Free(r),
         stored' = stored, job' = job, ui' \in Seq(UiRow),
         done' = [done EXCEPT ![r] = @ + 1],
         \/ lock' = lock /\ draft' = draft
         \/ lock' = [lock EXCEPT ![At(r).key] = r]
            /\ draft' \in {draft, [draft EXCEPT ![At(r).key] = At(r).seq]}
  PROVE  TypeOK'
<1>1. /\ At(r).key \in Key /\ At(r).seq \in 0 .. MaxSeq /\ job[r] # Nil
      /\ done[r] + 1 <= Len(job[r].records) /\ done[r] + 1 \in Nat
  BY AtIsRecord, SpaceAssumption DEF Working
<1>2. done' \in [Req -> Nat]
  BY <1>1 DEF TypeOK
<1>3. \A q \in Req : done'[q] <= IF job'[q] = Nil THEN 0 ELSE Len(job'[q].records)
  BY <1>1 DEF TypeOK
<1>4. lock' \in [Key -> Req \cup {Nil}] /\ draft' \in [Key -> 0 .. MaxSeq]
  BY <1>1, ZenonT(40) DEF TypeOK
<1>5. ASSUME NEW k \in Key
      PROVE  (draft'[k] # 0 => lock'[k] # Nil) /\ (lock'[k] # Nil => job'[lock'[k]] # Nil)
  BY <1>1, SpaceAssumption, Zenon DEF TypeOK
<1>6. QED
  BY <1>2, <1>3, <1>4, <1>5 DEF TypeOK

(***************************************************************************)
(* A stored record adds a row of gateway_ui_events, or none.               *)
(***************************************************************************)
LEMMA StoredRows ==
  ASSUME TypeOK, NEW r \in Req, Store(r)
  PROVE  ui' \in Seq(UiRow)
BY RowIsUiRow DEF Store, TypeOK

(***************************************************************************)
(* A commit changes the transaction of its rows and nothing else of them.  *)
(***************************************************************************)
LEMMA CommittedRows ==
  ASSUME TypeOK, NEW r \in Req, Commit(r)
  PROVE  /\ ui' \in Seq(UiRow) /\ DOMAIN ui' = DOMAIN ui
         /\ \A i \in DOMAIN ui :
              /\ ui'[i].key = ui[i].key /\ ui'[i].seq = ui[i].seq /\ ui'[i].from = ui[i].from
              /\ ui'[i].tx = IF ui[i].tx = r THEN Nil ELSE ui[i].tx
<1>1. /\ ui \in Seq(UiRow) /\ Len(ui) \in Nat /\ DOMAIN ui = 1 .. Len(ui)
      /\ \A i \in DOMAIN ui : ui[i] \in UiRow
  BY DEF TypeOK
<1>2. ui' = [i \in DOMAIN ui |-> IF ui[i].tx = r THEN [ui[i] EXCEPT !.tx = Nil] ELSE ui[i]]
  BY DEF Commit
<1>3. ASSUME NEW i \in DOMAIN ui
      PROVE  /\ ui'[i] \in UiRow
             /\ ui'[i].key = ui[i].key /\ ui'[i].seq = ui[i].seq /\ ui'[i].from = ui[i].from
             /\ ui'[i].tx = IF ui[i].tx = r THEN Nil ELSE ui[i].tx
  BY <1>1, <1>2, CommittedRow, Zenon
<1>4. ui' \in [1 .. Len(ui) -> UiRow]
  BY <1>1, <1>2, <1>3, Zenon
<1>5. QED
  BY <1>1, <1>2, <1>3, <1>4

(***************************************************************************)
(* A rollback leaves the rows of the other transactions, in their order.   *)
(***************************************************************************)
LEMMA RowsLeft ==
  ASSUME TypeOK, NEW r \in Req, Fail(r)
  PROVE  /\ ui' \in Seq(UiRow)
         /\ \E h : Embeds(h, ui', ui, {i \in DOMAIN ui : ui[i].tx # r})
<1> DEFINE I == {i \in DOMAIN ui : ui[i].tx # r}
<1>1. ui \in Seq(UiRow) /\ I \in SUBSET DOMAIN ui /\ ui' = Subsequence(ui, I)
  BY DEF TypeOK, Fail
<1>2. Len(ui) \in Nat /\ I \in SUBSET (1 .. Len(ui))
  BY <1>1
<1> HIDE DEF I
<1>3. ui' \in Seq(UiRow)
  BY <1>1, SubsequenceIsSeq, Zenon
<1>4. \E h : Embeds(h, ui', ui, I)
  BY <1>1, <1>2, SubsequenceKeepsOrder, Zenon
<1>5. QED
  BY <1>3, <1>4, Zenon DEF I

(***************************************************************************)
(* Every step keeps the types.                                             *)
(***************************************************************************)
LEMMA NextTypes ==
  ASSUME TypeOK, [Next]_vars
  PROVE  TypeOK'
<1>1. ASSUME NEW r \in Req, NEW x \in Input, Arrive(r, x)
      PROVE  TypeOK'
  <2>1. job' \in [Req -> Input \cup {Nil}] /\ \A q \in Req : job'[q] = IF q = r THEN x ELSE job[q]
    BY <1>1 DEF Arrive, TypeOK
  <2>2. x # Nil /\ Len(x.records) \in Nat
    BY SpaceAssumption
  <2>3. \A q \in Req : done[q] <= IF job'[q] = Nil THEN 0 ELSE Len(job'[q].records)
    BY <1>1, <2>1, <2>2 DEF TypeOK, Arrive
  <2>4. \A k \in Key : lock[k] # Nil => job'[lock[k]] # Nil
    BY <2>1, <2>2 DEF TypeOK
  <2>5. QED
    BY <1>1, <2>1, <2>3, <2>4 DEF TypeOK, Arrive
<1>2. ASSUME NEW r \in Req, Store(r)
      PROVE  TypeOK'
  BY <1>2, StoredRows, GoOnTypes, Zenon DEF Store
<1>3. ASSUME NEW r \in Req, Refuse(r)
      PROVE  TypeOK'
  <2>1. stored' = stored /\ ui' = ui /\ Working(r) /\ Free(r)
    BY <1>3 DEF Refuse
  <2>2. stored' \in [Key -> 0 .. MaxSeq] /\ ui' \in Seq(UiRow)
    BY <2>1 DEF TypeOK
  <2>3. CASE job[r].kind = "event"
    BY <1>3, <2>2, <2>3, EndTypes DEF Refuse
  <2>4. CASE job[r].kind # "event"
    BY <1>3, <2>1, <2>2, <2>4, GoOnTypes, Zenon DEF Refuse
  <2>5. QED
    BY <2>3, <2>4
<1>4. ASSUME NEW r \in Req, Commit(r)
      PROVE  TypeOK'
  <2>1. stored' \in [Key -> 0 .. MaxSeq]
    BY <1>4 DEF Commit, TypeOK
  <2>2. QED
    BY <1>4, <2>1, CommittedRows, EndTypes, Zenon DEF Commit
<1>5. ASSUME NEW r \in Req, Fail(r)
      PROVE  TypeOK'
  <2>1. stored' \in [Key -> 0 .. MaxSeq] /\ End(r)
    BY <1>5 DEF Fail, TypeOK
  <2>2. ui' \in Seq(UiRow)
    BY <1>5, RowsLeft, Zenon
  <2>3. QED
    BY <2>1, <2>2, EndTypes, Zenon
<1>6. CASE UNCHANGED vars
  BY <1>6 DEF vars, TypeOK
<1>7. QED
  BY <1>1, <1>2, <1>3, <1>4, <1>5, <1>6, Zenon DEF Next

(***************************************************************************)
(* The types hold at first.                                                *)
(***************************************************************************)
LEMMA InitTypes ==
  ASSUME Init
  PROVE  TypeOK
<1>1. 0 \in 0 .. MaxSeq
  BY SpaceAssumption
<1>2. stored \in [Key -> 0 .. MaxSeq] /\ draft \in [Key -> 0 .. MaxSeq]
  BY <1>1 DEF Init
<1>3. /\ lock \in [Key -> Req \cup {Nil}] /\ job \in [Req -> Input \cup {Nil}]
      /\ \A k \in Key : draft[k] = 0 /\ lock[k] = Nil
  BY Zenon DEF Init
<1>4. /\ ui \in Seq(UiRow) /\ done \in [Req -> Nat]
      /\ \A r \in Req : done[r] = 0 /\ job[r] = Nil
  BY DEF Init
<1>5. QED
  BY <1>2, <1>3, <1>4 DEF TypeOK

(***************************************************************************)
(* Every variable keeps its type, and a request that holds a row has not   *)
(* ended: the transactions of persist_event, persist_node_presence and     *)
(* persist_snapshot_space leave no lock and no draft behind.               *)
(***************************************************************************)
THEOREM TypeCorrect == Spec => []TypeOK
BY InitTypes, NextTypes, PTL DEF Spec

-----------------------------------------------------------------------------
(* The rows and the records.                                               *)

(***************************************************************************)
(* A committed row tells a record that is stored, or an older one; an open *)
(* one was written by the transaction that still holds the row of its key. *)
(***************************************************************************)
RowIsKept(x) ==
  IF x.tx = Nil THEN x.seq <= stored[x.key]
  ELSE lock[x.key] = x.tx /\ x.from = job[x.tx] /\ x.seq <= draft[x.key]

(***************************************************************************)
(* All rows of a key, the open ones too, are numbered in the order of its  *)
(* records.                                                                *)
(***************************************************************************)
RowsInv ==
  /\ \A i, j \in DOMAIN ui : i < j /\ ui[i].key = ui[j].key => ui[i].seq < ui[j].seq
  /\ \A i \in DOMAIN ui : RowIsKept(ui[i])

(***************************************************************************)
(* The rows tell record v of key c, in transaction x.                      *)
(***************************************************************************)
Tells(rows, c, v, x) ==
  \E i \in DOMAIN rows : rows[i].tx = x /\ rows[i].key = c /\ rows[i].seq = v

(***************************************************************************)
(* A draft is newer than what is stored, and both were told.               *)
(***************************************************************************)
KeysInv ==
  \A k \in Key :
    /\ draft[k] # 0 => stored[k] < draft[k]
    /\ k \notin Heart /\ stored[k] # 0 => Tells(ui, k, stored[k], Nil)
    /\ k \notin Heart /\ draft[k] # 0 => Tells(ui, k, draft[k], lock[k])

(***************************************************************************)
(* The record x, or a newer one, is stored or will be when r commits.      *)
(***************************************************************************)
Has(r, x) ==
  x.seq <= stored[x.key] \/ (lock[x.key] = r /\ x.seq <= draft[x.key])

(***************************************************************************)
(* A request has the records it is done with, and none locked at first.    *)
(***************************************************************************)
JobsInv ==
  \A r \in Req :
    /\ done[r] = 0 => \A k \in Key : lock[k] # r
    /\ job[r] # Nil => \A j \in 1 .. done[r] : Has(r, job[r].records[j])

(***************************************************************************)
(* The numbers of a key.                                                   *)
(***************************************************************************)
LEMMA NumbersAreNat ==
  ASSUME TypeOK
  PROVE  /\ \A k \in Key : /\ stored[k] \in Nat /\ draft[k] \in Nat
                           /\ lock[k] \in Req \cup {Nil}
                           /\ draft[k] # 0 => lock[k] # Nil
         /\ \A i \in DOMAIN ui : /\ ui[i].key \in Key /\ ui[i].seq \in Nat \ {0}
                                 /\ ui[i].tx \in Req \cup {Nil} /\ i \in Nat
         /\ Nil \notin Req
<1>1. \A k \in Key : stored[k] \in 0 .. MaxSeq /\ draft[k] \in 0 .. MaxSeq
  BY DEF TypeOK
<1>2. \A i \in DOMAIN ui : ui[i] \in UiRow /\ i \in Nat
  BY DEF TypeOK
<1>3. \A i \in DOMAIN ui : ui[i].seq \in 1 .. MaxSeq /\ ui[i].key \in Key /\ ui[i].tx \in Req \cup {Nil}
  BY <1>2 DEF UiRow
<1>4. \A k \in Key : lock[k] \in Req \cup {Nil} /\ (draft[k] # 0 => lock[k] # Nil)
  BY DEF TypeOK
<1>5. QED
  BY <1>1, <1>2, <1>3, <1>4, SpaceAssumption

(***************************************************************************)
(* A record that is accepted is newer than what is stored, written or told *)
(* of its key.                                                             *)
(***************************************************************************)
LEMMA AcceptedIsNewer ==
  ASSUME TypeOK, RowsInv, KeysInv, NEW r \in Req, Working(r), Accepts(At(r).key, At(r).seq)
  PROVE  /\ stored[At(r).key] < At(r).seq /\ draft[At(r).key] < At(r).seq
         /\ \A i \in DOMAIN ui : ui[i].key = At(r).key => ui[i].seq < At(r).seq
<1> DEFINE k == At(r).key
           s == At(r).seq
<1>1. k \in Key /\ s \in Nat \ {0} /\ stored[k] \in Nat /\ draft[k] \in Nat
  BY AtIsRecord, NumbersAreNat, SpaceAssumption
<1>2. draft[k] # 0 => stored[k] < draft[k]
  BY <1>1 DEF KeysInv
<1>3. Seen(k) < s
  BY <1>1 DEF Accepts, Seen
<1> HIDE DEF k, s
<1>4. stored[k] < s /\ draft[k] < s
  BY <1>1, <1>2, <1>3 DEF Seen
<1>5. ASSUME NEW i \in DOMAIN ui, ui[i].key = k PROVE ui[i].seq < s
  <2>1. ui[i].seq <= stored[k] \/ ui[i].seq <= draft[k]
    BY <1>5 DEF RowsInv, RowIsKept
  <2>2. ui[i].seq \in Nat
    BY NumbersAreNat
  <2>3. QED
    BY <1>1, <1>4, <2>1, <2>2
<1>6. QED
  BY <1>4, <1>5 DEF k, s

(***************************************************************************)
(* A record that is refused is there already, or a newer one.              *)
(***************************************************************************)
LEMMA RefusedIsThere ==
  ASSUME TypeOK, KeysInv, NEW r \in Req, Working(r), Free(r), ~ Accepts(At(r).key, At(r).seq)
  PROVE  Has(r, At(r))
<1> DEFINE k == At(r).key
           s == At(r).seq
<1>1. k \in Key /\ s \in Nat \ {0} /\ stored[k] \in Nat /\ draft[k] \in Nat /\ (k \in World => s = 1)
  BY AtIsRecord, NumbersAreNat, SpaceAssumption
<1>2. (draft[k] # 0 => lock[k] # Nil) /\ lock[k] \in {Nil, r}
  BY <1>1, NumbersAreNat DEF Free
<1>3. Seen(k) >= s
  <2>1. Seen(k) \in Nat
    BY <1>1 DEF Seen
  <2>2. QED
    BY <1>1, <2>1 DEF Accepts
<1> HIDE DEF k, s
<1>4. s <= stored[k] \/ (lock[k] = r /\ s <= draft[k])
  <2>1. draft[k] # 0 => lock[k] = r
    BY <1>2, Zenon
  <2>2. CASE draft[k] = 0
    BY <1>1, <1>3, <2>2 DEF Seen
  <2>3. CASE draft[k] # 0
    BY <1>1, <1>3, <2>1, <2>3 DEF Seen
  <2>4. QED
    BY <2>2, <2>3
<1>5. QED
  BY <1>4 DEF k, s, Has

(***************************************************************************)
(* What the upsert of a new record changes.                                *)
(***************************************************************************)
LEMMA StoreStep ==
  ASSUME TypeOK, NEW r \in Req, Store(r)
  PROVE  /\ Working(r) /\ Free(r) /\ Accepts(At(r).key, At(r).seq)
         /\ stored' = stored /\ job' = job
         /\ \A c \in Key : /\ lock'[c] = IF c = At(r).key THEN r ELSE lock[c]
                           /\ draft'[c] = IF c = At(r).key THEN At(r).seq ELSE draft[c]
         /\ \A q \in Req : done'[q] = IF q = r THEN done[r] + 1 ELSE done[q]
         /\ \/ ui' = ui /\ At(r).key \in Heart
            \/ \E n \in Nat : /\ DOMAIN ui' = DOMAIN ui \cup {n}
                              /\ \A i \in DOMAIN ui : i < n /\ ui'[i] = ui[i]
                              /\ ui'[n].key = At(r).key /\ ui'[n].seq = At(r).seq
                              /\ ui'[n].from = job[r] /\ ui'[n].tx = r
<1>1. /\ Working(r) /\ Free(r) /\ Accepts(At(r).key, At(r).seq)
      /\ stored' = stored /\ job' = job
  BY DEF Store
<1>2. \A c \in Key : /\ lock'[c] = IF c = At(r).key THEN r ELSE lock[c]
                     /\ draft'[c] = IF c = At(r).key THEN At(r).seq ELSE draft[c]
  BY Zenon DEF Store, TypeOK
<1>3. \A q \in Req : done'[q] = IF q = r THEN done[r] + 1 ELSE done[q]
  BY Zenon DEF Store, TypeOK
<1>4. CASE ~ Told(r)
  <2>1. ui' = ui
    BY <1>4 DEF Store
  <2>2. job[r].kind # "snapshot" /\ At(r).key \in Heart
    BY <1>4 DEF Told
  <2>3. QED
    BY <1>1, <1>2, <1>3, <2>1, <2>2, Zenon
<1>5. CASE Told(r)
  <2>1. ui' = Append(ui, Row(r, r)) /\ ui \in Seq(UiRow)
    BY <1>5 DEF Store, TypeOK
  <2>2. /\ Row(r, r).key = At(r).key /\ Row(r, r).seq = At(r).seq
        /\ Row(r, r).from = job[r] /\ Row(r, r).tx = r
    BY <1>1, RowIsUiRow, Zenon
  <2>3. /\ Len(ui) + 1 \in Nat /\ DOMAIN ui' = DOMAIN ui \cup {Len(ui) + 1}
        /\ \A i \in DOMAIN ui : i < Len(ui) + 1 /\ ui'[i] = ui[i]
        /\ ui'[Len(ui) + 1] = Row(r, r)
    BY <2>1
  <2>4. QED
    BY <1>1, <1>2, <1>3, <2>2, <2>3, ZenonT(40)
<1>6. QED
  BY <1>4, <1>5, Zenon

(***************************************************************************)
(* The row of a stored record comes after the rows of older records of its *)
(* key.                                                                    *)
(***************************************************************************)
LEMMA StoreKeepsRows ==
  ASSUME TypeOK, RowsInv, KeysInv, NEW r \in Req, Store(r)
  PROVE  RowsInv' /\ KeysInv'
<1> DEFINE k == At(r).key
           s == At(r).seq
<1>1. /\ Working(r) /\ Free(r) /\ Accepts(k, s)
      /\ stored' = stored /\ job' = job
      /\ \A c \in Key : /\ lock'[c] = IF c = k THEN r ELSE lock[c]
                        /\ draft'[c] = IF c = k THEN s ELSE draft[c]
  BY StoreStep, Zenon
<1>2. /\ k \in Key /\ s \in Nat \ {0} /\ stored[k] < s /\ draft[k] < s
      /\ \A i \in DOMAIN ui : ui[i].key = k => ui[i].seq < s
  BY <1>1, AtIsRecord, AcceptedIsNewer, SpaceAssumption
<1>3. /\ \/ ui' = ui /\ k \in Heart
         \/ \E n \in Nat : /\ DOMAIN ui' = DOMAIN ui \cup {n}
                           /\ \A i \in DOMAIN ui : i < n /\ ui'[i] = ui[i]
                           /\ ui'[n].key = k /\ ui'[n].seq = s
                           /\ ui'[n].from = job[r] /\ ui'[n].tx = r
  BY StoreStep, Zenon
<1>4. lock[k] \in {Nil, r}
  BY <1>1 DEF Free
<1> HIDE DEF k, s
<1>5. ASSUME NEW i \in DOMAIN ui
      PROVE  IF ui[i].tx = Nil THEN ui[i].seq <= stored'[ui[i].key]
             ELSE /\ lock'[ui[i].key] = ui[i].tx /\ ui[i].from = job'[ui[i].tx]
                  /\ ui[i].seq <= draft'[ui[i].key]
  <2>1. ui[i].key \in Key /\ ui[i].seq \in Nat
    BY NumbersAreNat
  <2>2. RowIsKept(ui[i])
    BY DEF RowsInv
  <2>3. CASE ui[i].tx = Nil \/ ui[i].key # k
    BY <1>1, <2>1, <2>2, <2>3, Zenon DEF RowIsKept
  <2>4. CASE ui[i].tx # Nil /\ ui[i].key = k
    <3>1. ui[i].tx = r /\ ui[i].from = job[r]
      BY <1>4, <2>2, <2>4, Zenon DEF RowIsKept
    <3>2. ui[i].seq <= s
      BY <1>2, <2>1, <2>4
    <3>3. QED
      BY <1>1, <1>2, <2>4, <3>1, <3>2, Zenon
  <2>5. QED
    BY <2>3, <2>4
<1>6. \A i, j \in DOMAIN ui : i < j /\ ui[i].key = ui[j].key => ui[i].seq < ui[j].seq
  BY DEF RowsInv
<1>7. ASSUME NEW c \in Key, c # k
      PROVE  /\ draft'[c] # 0 => stored'[c] < draft'[c]
             /\ c \notin Heart /\ stored'[c] # 0 => Tells(ui, c, stored'[c], Nil)
             /\ c \notin Heart /\ draft'[c] # 0 => Tells(ui, c, draft'[c], lock'[c])
  BY <1>1, <1>7, Zenon DEF KeysInv
<1>8. /\ stored'[k] < draft'[k] /\ draft'[k] = s /\ lock'[k] = r
      /\ k \notin Heart /\ stored'[k] # 0 => Tells(ui, k, stored'[k], Nil)
  BY <1>1, <1>2, Zenon DEF KeysInv
<1>9. CASE ui' = ui /\ k \in Heart
  <2>1. RowsInv'
    BY <1>5, <1>6, <1>9, Zenon DEF RowsInv, RowIsKept
  <2>2. ASSUME NEW c \in Key
        PROVE  /\ draft'[c] # 0 => stored'[c] < draft'[c]
               /\ c \notin Heart /\ stored'[c] # 0 => Tells(ui', c, stored'[c], Nil)
               /\ c \notin Heart /\ draft'[c] # 0 => Tells(ui', c, draft'[c], lock'[c])
    BY <1>7, <1>8, <1>9, Zenon
  <2>3. QED
    BY <2>1, <2>2, Zenon DEF KeysInv
<1>10. ASSUME NEW n \in Nat, DOMAIN ui' = DOMAIN ui \cup {n},
              \A i \in DOMAIN ui : i < n /\ ui'[i] = ui[i],
              ui'[n].key = k, ui'[n].seq = s, ui'[n].from = job[r], ui'[n].tx = r
       PROVE  RowsInv' /\ KeysInv'
  <2>1. ASSUME NEW i \in DOMAIN ui', NEW j \in DOMAIN ui', i < j, ui'[i].key = ui'[j].key
        PROVE  ui'[i].seq < ui'[j].seq
    <3>1. \A x \in DOMAIN ui : x \in Nat
      BY NumbersAreNat
    <3>2. i \in DOMAIN ui
      BY <1>10, <2>1, <3>1
    <3>3. CASE j = n
      BY <1>2, <1>10, <2>1, <3>2, <3>3, Zenon
    <3>4. CASE j # n
      BY <1>6, <1>10, <2>1, <3>2, <3>4, Zenon
    <3>5. QED
      BY <3>3, <3>4
  <2>2. ASSUME NEW i \in DOMAIN ui'
        PROVE  IF ui'[i].tx = Nil THEN ui'[i].seq <= stored'[ui'[i].key]
               ELSE /\ lock'[ui'[i].key] = ui'[i].tx /\ ui'[i].from = job'[ui'[i].tx]
                    /\ ui'[i].seq <= draft'[ui'[i].key]
    <3>1. CASE i = n
      <4>1. r # Nil /\ s <= s
        BY <1>2, NumbersAreNat
      <4>2. QED
        BY <1>1, <1>2, <1>10, <3>1, <4>1, Zenon
    <3>2. CASE i \in DOMAIN ui
      BY <1>5, <1>10, <3>2, Zenon
    <3>3. QED
      BY <1>10, <3>1, <3>2
  <2>3. RowsInv'
    BY <2>1, <2>2, Zenon DEF RowsInv, RowIsKept
  <2>4. \A c, v, x : Tells(ui, c, v, x) => Tells(ui', c, v, x)
    BY <1>10, Zenon DEF Tells
  <2>5. Tells(ui', k, s, r)
    BY <1>10, Zenon DEF Tells
  <2>6. ASSUME NEW c \in Key
        PROVE  /\ draft'[c] # 0 => stored'[c] < draft'[c]
               /\ c \notin Heart /\ stored'[c] # 0 => Tells(ui', c, stored'[c], Nil)
               /\ c \notin Heart /\ draft'[c] # 0 => Tells(ui', c, draft'[c], lock'[c])
    <3>1. CASE c # k
      BY <1>7, <2>4, <3>1, Zenon
    <3>2. CASE c = k
      BY <1>8, <2>4, <2>5, <3>2, Zenon
    <3>3. QED
      BY <3>1, <3>2, Zenon
  <2>7. QED
    BY <2>3, <2>6, Zenon DEF KeysInv
<1>11. QED
  BY <1>3, <1>9, <1>10, Zenon

(***************************************************************************)
(* What a request has it keeps while the row is its own and nothing stored *)
(* gets older.                                                             *)
(***************************************************************************)
LEMMA HasStays ==
  ASSUME TypeOK, TypeOK', NEW q, NEW x \in Record, Has(q, x),
         \A c \in Key : stored[c] <= stored'[c],
         \A c \in Key : lock[c] = q => lock'[c] = q /\ draft[c] <= draft'[c]
  PROVE  x.seq <= stored'[x.key] \/ (lock'[x.key] = q /\ x.seq <= draft'[x.key])
<1>1. x.key \in Key /\ x.seq \in Nat
  BY SpaceAssumption DEF Record
<1>2. /\ stored[x.key] \in Nat /\ stored'[x.key] \in Nat
      /\ draft[x.key] \in Nat /\ draft'[x.key] \in Nat
  BY <1>1, SpaceAssumption DEF TypeOK
<1>3. QED
  BY <1>1, <1>2 DEF Has

(***************************************************************************)
(* So a request has the records it is done with.                           *)
(***************************************************************************)
LEMMA DoneStays ==
  ASSUME TypeOK, TypeOK', JobsInv, NEW q \in Req, job'[q] = job[q], job[q] # Nil,
         \A c \in Key : stored[c] <= stored'[c],
         \A c \in Key : lock[c] = q => lock'[c] = q /\ draft[c] <= draft'[c],
         NEW j \in 1 .. done[q]
  PROVE  LET x == job'[q].records[j]
         IN  x.seq <= stored'[x.key] \/ (lock'[x.key] = q /\ x.seq <= draft'[x.key])
<1>1. job[q].records \in Seq(Record) /\ done[q] \in Nat /\ done[q] <= Len(job[q].records)
  BY JobIsInput
<1>2. job[q].records[j] \in Record
  BY <1>1
<1>3. Has(q, job[q].records[j])
  BY DEF JobsInv
<1>4. QED
  BY <1>2, <1>3, HasStays, ZenonT(40)

(***************************************************************************)
(* A request that goes on has the record it leaves.                        *)
(***************************************************************************)
LEMMA GoOnKeepsJobs ==
  ASSUME TypeOK, TypeOK', JobsInv, NEW r \in Req, Working(r), Free(r),
         stored' = stored, job' = job,
         \A q \in Req : done'[q] = IF q = r THEN done[r] + 1 ELSE done[q],
         \A c \in Key : /\ c # At(r).key => lock'[c] = lock[c] /\ draft'[c] = draft[c]
                        /\ c = At(r).key => lock'[c] \in {lock[c], r} /\ draft[c] <= draft'[c],
         \/ At(r).seq <= stored'[At(r).key]
         \/ lock'[At(r).key] = r /\ At(r).seq <= draft'[At(r).key]
  PROVE  JobsInv'
<1> DEFINE k == At(r).key
<1>1. /\ k \in Key /\ lock[k] \in {Nil, r} /\ job[r] # Nil /\ done[r] \in Nat
      /\ \A c \in Key : stored[c] \in Nat /\ draft[c] \in Nat /\ stored[c] <= stored'[c]
  BY AtIsRecord, NumbersAreNat DEF Free, Working, TypeOK
<1>2. SUFFICES ASSUME NEW q \in Req
               PROVE  /\ done'[q] = 0 => \A c \in Key : lock'[c] # q
                      /\ job'[q] # Nil => \A j \in 1 .. done'[q] :
                           LET x == job'[q].records[j]
                           IN  x.seq <= stored'[x.key] \/ (lock'[x.key] = q /\ x.seq <= draft'[x.key])
  BY Zenon DEF JobsInv, Has
<1>3. done'[q] = 0 => \A c \in Key : lock'[c] # q
  <2>1. done'[q] = 0 => q # r /\ done[q] = 0
    BY <1>1
  <2>2. QED
    BY <1>1, <2>1, Zenon DEF JobsInv
<1>4. ASSUME NEW c \in Key, lock[c] = q PROVE lock'[c] = q /\ draft[c] <= draft'[c]
  <2>1. CASE c = k
    BY <1>1, <1>4, <2>1, NumbersAreNat, Zenon
  <2>2. CASE c # k
    <3>1. draft[c] <= draft[c]
      BY <1>1
    <3>2. QED
      BY <1>4, <2>2, <3>1, Zenon
  <2>3. QED
    BY <2>1, <2>2
<1>5. ASSUME job'[q] # Nil, NEW j \in 1 .. done'[q]
      PROVE  LET x == job'[q].records[j]
             IN  x.seq <= stored'[x.key] \/ (lock'[x.key] = q /\ x.seq <= draft'[x.key])
  <2>1. job[q].records \in Seq(Record) /\ done[q] \in Nat /\ done[q] <= Len(job[q].records)
    BY <1>5, JobIsInput
  <2>2. CASE j \in 1 .. done[q]
    <3>1. job'[q] = job[q] /\ job[q] # Nil
      BY <1>5
    <3>2. \A c \in Key : stored[c] <= stored'[c]
      BY <1>1
    <3>3. QED
      BY <1>4, <2>2, <3>1, <3>2, DoneStays, Zenon
  <2>3. CASE j \notin 1 .. done[q]
    <3>1. q = r /\ j = done[r] + 1
      BY <1>1, <2>1, <2>3
    <3>2. QED
      BY <3>1, Zenon DEF At
  <2>4. QED
    BY <2>2, <2>3
<1>6. QED
  BY <1>3, <1>5

(***************************************************************************)
(* A request that ends takes nothing from the others.                      *)
(***************************************************************************)
LEMMA EndKeepsJobs ==
  ASSUME TypeOK, TypeOK', JobsInv, NEW r \in Req, End(r),
         \A c \in Key : stored[c] <= stored'[c]
  PROVE  JobsInv'
<1>1. \A c \in Key : /\ lock'[c] = IF lock[c] = r THEN Nil ELSE lock[c]
                     /\ draft'[c] = IF lock[c] = r THEN 0 ELSE draft[c]
  BY Zenon DEF End
<1>2. \A q \in Req : /\ job'[q] = IF q = r THEN Nil ELSE job[q]
                     /\ done'[q] = IF q = r THEN 0 ELSE done[q]
  BY Zenon DEF End, TypeOK
<1>3. SUFFICES ASSUME NEW q \in Req
               PROVE  /\ done'[q] = 0 => \A c \in Key : lock'[c] # q
                      /\ job'[q] # Nil => \A j \in 1 .. done'[q] :
                           LET x == job'[q].records[j]
                           IN  x.seq <= stored'[x.key] \/ (lock'[x.key] = q /\ x.seq <= draft'[x.key])
  BY Zenon DEF JobsInv, Has
<1>4. CASE q = r
  BY <1>1, <1>2, <1>4, NumbersAreNat, Zenon
<1>5. CASE q # r
  <2>1. done'[q] = 0 => \A c \in Key : lock'[c] # q
    BY <1>1, <1>2, <1>5, NumbersAreNat, ZenonT(40) DEF JobsInv
  <2>2. \A c \in Key : draft[c] <= draft[c]
    BY NumbersAreNat
  <2>3. \A c \in Key : lock[c] = q => lock'[c] = q /\ draft[c] <= draft'[c]
    BY <1>1, <1>5, <2>2, Zenon
  <2>4. ASSUME job'[q] # Nil, NEW j \in 1 .. done'[q]
        PROVE  LET x == job'[q].records[j]
               IN  x.seq <= stored'[x.key] \/ (lock'[x.key] = q /\ x.seq <= draft'[x.key])
    <3>1. job'[q] = job[q] /\ done'[q] = done[q]
      BY <1>2, <1>5
    <3>2. QED
      BY <2>3, <2>4, <3>1, DoneStays, Zenon
  <2>5. QED
    BY <2>1, <2>4
<1>6. QED
  BY <1>4, <1>5

(***************************************************************************)
(* A row of another transaction is as good after a request has ended.      *)
(***************************************************************************)
LEMMA EndKeepsRow ==
  ASSUME TypeOK, TypeOK', NEW r \in Req, End(r), \A c \in Key : stored[c] <= stored'[c],
         NEW x \in UiRow, x.tx # r, RowIsKept(x)
  PROVE  IF x.tx = Nil THEN x.seq <= stored'[x.key]
         ELSE lock'[x.key] = x.tx /\ x.from = job'[x.tx] /\ x.seq <= draft'[x.key]
<1>1. x.key \in Key /\ x.seq \in Nat /\ x.tx \in Req \cup {Nil}
  BY SpaceAssumption DEF UiRow
<1>2. stored[x.key] \in Nat /\ stored'[x.key] \in Nat
  BY <1>1, SpaceAssumption DEF TypeOK
<1>3. CASE x.tx = Nil
  BY <1>1, <1>2, <1>3 DEF RowIsKept
<1>4. CASE x.tx # Nil
  <2>1. lock[x.key] # r /\ lock[x.key] = x.tx /\ x.from = job[x.tx] /\ x.seq <= draft[x.key]
    BY <1>4 DEF RowIsKept
  <2>2. lock'[x.key] = lock[x.key] /\ draft'[x.key] = draft[x.key]
    BY <1>1, <2>1 DEF End
  <2>3. job'[x.tx] = job[x.tx]
    BY <1>1, <1>4 DEF End, TypeOK
  <2>4. QED
    BY <1>4, <2>1, <2>2, <2>3, Zenon
<1>5. QED
  BY <1>3, <1>4

(***************************************************************************)
(* What was told whole stays whole while nothing stored gets older.        *)
(***************************************************************************)
LEMMA WholeStays ==
  ASSUME TypeOK, TypeOK', SnapshotIsWhole, \A c \in Key : stored[c] <= stored'[c],
         NEW i \in Committed,
         NEW j \in DOMAIN ui[i].from.records
  PROVE  stored'[ui[i].from.records[j].key] >= ui[i].from.records[j].seq
<1> DEFINE x == ui[i].from.records[j]
<1>1. ui[i].from \in Input
  <2>1. ui \in Seq(UiRow) /\ i \in DOMAIN ui
    BY DEF TypeOK, Committed
  <2>2. ui[i] \in UiRow
    BY <2>1
  <2>3. QED
    BY <2>2 DEF UiRow
<1>2. ui[i].from.records \in Seq(Record)
  BY <1>1, SpaceAssumption, Zenon
<1>3. x \in Record
  BY <1>2
<1>4. stored[x.key] >= x.seq
  BY DEF SnapshotIsWhole
<1> HIDE DEF x
<1>5. x.key \in Key /\ x.seq \in Nat
  BY <1>3, SpaceAssumption DEF Record
<1>6. stored[x.key] \in Nat /\ stored'[x.key] \in Nat
  BY <1>5, SpaceAssumption DEF TypeOK
<1>7. stored'[x.key] >= x.seq
  BY <1>4, <1>5, <1>6
<1>8. QED
  BY <1>7 DEF x

(***************************************************************************)
(* What a commit stores.                                                   *)
(***************************************************************************)
LEMMA CommitStep ==
  ASSUME TypeOK, KeysInv, NEW r \in Req, Commit(r)
  PROVE  /\ End(r) /\ job[r] # Nil /\ done[r] = Len(job[r].records)
         /\ \A c \in Key :
              /\ stored'[c] = IF lock[c] = r /\ draft[c] # 0 THEN draft[c] ELSE stored[c]
              /\ lock'[c] = IF lock[c] = r THEN Nil ELSE lock[c]
              /\ draft'[c] = IF lock[c] = r THEN 0 ELSE draft[c]
              /\ stored[c] <= stored'[c]
<1>1. End(r) /\ job[r] # Nil /\ ~ Working(r)
  BY DEF Commit
<1>2. done[r] = Len(job[r].records)
  BY <1>1, JobIsInput DEF Working
<1>3. \A c \in Key :
        /\ stored'[c] = IF lock[c] = r /\ draft[c] # 0 THEN draft[c] ELSE stored[c]
        /\ lock'[c] = IF lock[c] = r THEN Nil ELSE lock[c]
        /\ draft'[c] = IF lock[c] = r THEN 0 ELSE draft[c]
  BY DEF Commit, End
<1>4. ASSUME NEW c \in Key PROVE stored[c] <= stored'[c]
  <2>1. stored[c] \in Nat /\ draft[c] \in Nat /\ (draft[c] # 0 => stored[c] < draft[c])
    BY NumbersAreNat DEF KeysInv
  <2>2. QED
    BY <1>3, <2>1
<1>5. QED
  BY <1>1, <1>2, <1>3, <1>4

(***************************************************************************)
(* A commit makes the rows of its transaction, all at once, rows of what   *)
(* is stored.                                                              *)
(***************************************************************************)
LEMMA CommitKeepsRows ==
  ASSUME TypeOK, TypeOK', RowsInv, KeysInv, NEW r \in Req, Commit(r)
  PROVE  RowsInv' /\ KeysInv'
<1>1. /\ End(r)
      /\ \A c \in Key :
           /\ stored'[c] = IF lock[c] = r /\ draft[c] # 0 THEN draft[c] ELSE stored[c]
           /\ lock'[c] = IF lock[c] = r THEN Nil ELSE lock[c]
           /\ draft'[c] = IF lock[c] = r THEN 0 ELSE draft[c]
  BY CommitStep, Zenon
<1>2. \A c \in Key : stored[c] <= stored'[c]
  BY CommitStep, Zenon
<1>3. /\ DOMAIN ui' = DOMAIN ui
      /\ \A i \in DOMAIN ui :
           /\ ui'[i].key = ui[i].key /\ ui'[i].seq = ui[i].seq /\ ui'[i].from = ui[i].from
           /\ ui'[i].tx = IF ui[i].tx = r THEN Nil ELSE ui[i].tx
  BY CommittedRows, Zenon
<1>4. \A i, j \in DOMAIN ui' : i < j /\ ui'[i].key = ui'[j].key => ui'[i].seq < ui'[j].seq
  BY <1>3, Zenon DEF RowsInv
<1>5. ASSUME NEW i \in DOMAIN ui'
      PROVE  IF ui'[i].tx = Nil THEN ui'[i].seq <= stored'[ui'[i].key]
             ELSE /\ lock'[ui'[i].key] = ui'[i].tx /\ ui'[i].from = job'[ui'[i].tx]
                  /\ ui'[i].seq <= draft'[ui'[i].key]
  <2>1. i \in DOMAIN ui /\ RowIsKept(ui[i])
    BY <1>3 DEF RowsInv
  <2>2. CASE ui[i].tx # r
    <3>1. ui[i] \in UiRow
      BY <2>1 DEF TypeOK
    <3>2. IF ui[i].tx = Nil THEN ui[i].seq <= stored'[ui[i].key]
          ELSE /\ lock'[ui[i].key] = ui[i].tx /\ ui[i].from = job'[ui[i].tx]
               /\ ui[i].seq <= draft'[ui[i].key]
      BY <1>1, <1>2, <2>1, <2>2, <3>1, EndKeepsRow, Zenon
    <3>3. QED
      BY <1>3, <2>1, <2>2, <3>2, Zenon
  <2>3. CASE ui[i].tx = r
    <3>1. lock[ui[i].key] = r /\ ui[i].seq <= draft[ui[i].key]
      BY <2>1, <2>3, NumbersAreNat DEF RowIsKept
    <3>2. ui[i].key \in Key /\ ui[i].seq \in Nat \ {0} /\ draft[ui[i].key] \in Nat
      BY <2>1, NumbersAreNat
    <3>3. draft[ui[i].key] # 0
      BY <3>1, <3>2
    <3>4. QED
      BY <1>1, <1>3, <2>1, <2>3, <3>1, <3>2, <3>3, Zenon
  <2>4. QED
    BY <2>2, <2>3
<1>6. \A c, v, x : x # r /\ Tells(ui, c, v, x) => Tells(ui', c, v, x)
  BY <1>3, Zenon DEF Tells
<1>7. \A c, v : Tells(ui, c, v, r) => Tells(ui', c, v, Nil)
  BY <1>3, Zenon DEF Tells
<1>8. ASSUME NEW c \in Key
      PROVE  /\ draft'[c] # 0 => stored'[c] < draft'[c]
             /\ c \notin Heart /\ stored'[c] # 0 => Tells(ui', c, stored'[c], Nil)
             /\ c \notin Heart /\ draft'[c] # 0 => Tells(ui', c, draft'[c], lock'[c])
  <2>1. Nil # r
    BY NumbersAreNat
  <2>2. CASE lock[c] # r
    BY <1>1, <1>6, <2>1, <2>2, Zenon DEF KeysInv
  <2>3. CASE lock[c] = r /\ draft[c] # 0
    BY <1>1, <1>7, <2>3, Zenon DEF KeysInv
  <2>4. CASE lock[c] = r /\ draft[c] = 0
    BY <1>1, <1>6, <2>1, <2>4, Zenon DEF KeysInv
  <2>5. QED
    BY <2>2, <2>3, <2>4
<1>9. QED
  BY <1>4, <1>5, <1>8, Zenon DEF RowsInv, RowIsKept, KeysInv

(***************************************************************************)
(* A commit stores every record of its snapshot that was not there.        *)
(***************************************************************************)
LEMMA CommitKeepsWhole ==
  ASSUME TypeOK, TypeOK', RowsInv, KeysInv, JobsInv, SnapshotIsWhole, NEW r \in Req, Commit(r)
  PROVE  SnapshotIsWhole'
<1>1. \A c \in Key : stored[c] <= stored'[c]
  BY CommitStep, Zenon
<1>2. /\ DOMAIN ui' = DOMAIN ui
      /\ \A i \in DOMAIN ui : /\ ui'[i].from = ui[i].from
                              /\ ui'[i].tx = IF ui[i].tx = r THEN Nil ELSE ui[i].tx
  BY CommittedRows, Zenon
<1>3. SUFFICES ASSUME NEW i \in DOMAIN ui', ui'[i].tx = Nil, NEW j \in DOMAIN ui'[i].from.records
               PROVE  stored'[ui'[i].from.records[j].key] >= ui'[i].from.records[j].seq
  BY Zenon DEF SnapshotIsWhole, Committed
<1>4. i \in DOMAIN ui /\ ui'[i].from = ui[i].from
  BY <1>2, <1>3, Zenon
<1>5. CASE ui[i].tx # r
  <2>1. i \in Committed
    BY <1>2, <1>3, <1>4, <1>5, Zenon DEF Committed
  <2>2. j \in DOMAIN ui[i].from.records
    BY <1>4, Zenon
  <2>3. stored'[ui[i].from.records[j].key] >= ui[i].from.records[j].seq
    BY <1>1, <2>1, <2>2, WholeStays, Zenon
  <2>4. QED
    BY <1>4, <2>3, Zenon
<1>6. CASE ui[i].tx = r
  <2> DEFINE x == job[r].records[j]
  <2>1. ui[i].from = job[r]
    BY <1>4, <1>6, NumbersAreNat, Zenon DEF RowsInv, RowIsKept
  <2>2. job[r] # Nil /\ done[r] = Len(job[r].records)
    BY CommitStep, Zenon
  <2>3. job[r].records \in Seq(Record)
    BY <2>2, JobIsInput
  <2>4. j \in DOMAIN job[r].records
    BY <1>4, <2>1, Zenon
  <2>5. x \in Record /\ j \in 1 .. done[r]
    BY <2>2, <2>3, <2>4
  <2>6. Has(r, x)
    BY <2>2, <2>5, Zenon DEF JobsInv
  <2>7. x.key \in Key /\ x.seq \in Nat \ {0}
    BY <2>5, SpaceAssumption DEF Record
  <2> HIDE DEF x
  <2>8. stored'[x.key] = IF lock[x.key] = r /\ draft[x.key] # 0 THEN draft[x.key] ELSE stored[x.key]
    BY <2>7, CommitStep, Zenon
  <2>9. stored[x.key] \in Nat /\ draft[x.key] \in Nat /\ stored[x.key] <= stored'[x.key]
    BY <1>1, <2>7, NumbersAreNat, Zenon
  <2>10. stored'[x.key] >= x.seq
    BY <2>6, <2>7, <2>8, <2>9 DEF Has
  <2>11. QED
    BY <1>4, <2>1, <2>10, Zenon DEF x
<1>7. QED
  BY <1>5, <1>6

(***************************************************************************)
(* A rollback leaves the other transactions' rows in their order, and what *)
(* was stored.                                                             *)
(***************************************************************************)
LEMMA FailKeepsRows ==
  ASSUME TypeOK, TypeOK', RowsInv, KeysInv, SnapshotIsWhole, NEW r \in Req, Fail(r)
  PROVE  RowsInv' /\ KeysInv' /\ SnapshotIsWhole'
<1> DEFINE I == {i \in DOMAIN ui : ui[i].tx # r}
<1>1. End(r) /\ stored' = stored
  BY DEF Fail
<1>2. \A c \in Key : stored[c] <= stored'[c]
  BY <1>1, NumbersAreNat
<1>3. PICK h : Embeds(h, ui', ui, I)
  BY RowsLeft, Zenon
<1>4. /\ \A n \in DOMAIN ui' : h[n] \in I /\ ui'[n] = ui[h[n]]
      /\ \A m, n \in DOMAIN ui' : m < n => h[m] < h[n]
      /\ \A i \in I : \E n \in DOMAIN ui' : h[n] = i
  BY <1>3 DEF Embeds
<1>5. \A n \in DOMAIN ui' : h[n] \in DOMAIN ui /\ ui[h[n]].tx # r /\ ui'[n] = ui[h[n]]
  BY <1>4, Zenon DEF I
<1>6. ASSUME NEW m \in DOMAIN ui', NEW n \in DOMAIN ui', m < n, ui'[m].key = ui'[n].key
      PROVE  ui'[m].seq < ui'[n].seq
  <2>1. h[m] \in DOMAIN ui /\ h[n] \in DOMAIN ui /\ h[m] < h[n]
    BY <1>4, <1>5, <1>6, Zenon
  <2>2. ui'[m] = ui[h[m]] /\ ui'[n] = ui[h[n]]
    BY <1>5, Zenon
  <2>3. QED
    BY <1>6, <2>1, <2>2, Zenon DEF RowsInv
<1>7. ASSUME NEW n \in DOMAIN ui'
      PROVE  IF ui'[n].tx = Nil THEN ui'[n].seq <= stored'[ui'[n].key]
             ELSE /\ lock'[ui'[n].key] = ui'[n].tx /\ ui'[n].from = job'[ui'[n].tx]
                  /\ ui'[n].seq <= draft'[ui'[n].key]
  <2>1. ui'[n] \in UiRow
    BY DEF TypeOK
  <2>2. PICK i \in DOMAIN ui : ui[i].tx # r /\ ui'[n] = ui[i]
    BY <1>5, Zenon
  <2>3. RowIsKept(ui[i]) /\ ui[i] \in UiRow
    BY <2>1, <2>2 DEF RowsInv
  <2>4. IF ui[i].tx = Nil THEN ui[i].seq <= stored'[ui[i].key]
        ELSE /\ lock'[ui[i].key] = ui[i].tx /\ ui[i].from = job'[ui[i].tx]
             /\ ui[i].seq <= draft'[ui[i].key]
    BY <1>1, <1>2, <2>2, <2>3, EndKeepsRow, Zenon
  <2>5. QED
    BY <2>2, <2>4, Zenon
<1>8. ASSUME NEW c, NEW v, NEW x, x # r, Tells(ui, c, v, x)
      PROVE  Tells(ui', c, v, x)
  <2>1. PICK i \in DOMAIN ui : ui[i].tx = x /\ ui[i].key = c /\ ui[i].seq = v
    BY <1>8 DEF Tells
  <2>2. PICK n \in DOMAIN ui' : h[n] = i
    BY <1>4, <1>8, <2>1, Zenon DEF I
  <2>3. ui'[n] = ui[i]
    BY <1>5, <2>2
  <2>4. QED
    BY <2>1, <2>3, Zenon DEF Tells
<1>9. ASSUME NEW c \in Key
      PROVE  /\ draft'[c] # 0 => stored'[c] < draft'[c]
             /\ c \notin Heart /\ stored'[c] # 0 => Tells(ui', c, stored'[c], Nil)
             /\ c \notin Heart /\ draft'[c] # 0 => Tells(ui', c, draft'[c], lock'[c])
  <2>1. Nil # r
    BY NumbersAreNat
  <2>2. /\ lock'[c] = IF lock[c] = r THEN Nil ELSE lock[c]
        /\ draft'[c] = IF lock[c] = r THEN 0 ELSE draft[c]
    BY <1>1, Zenon DEF End
  <2>3. QED
    BY <1>1, <1>8, <2>1, <2>2, Zenon DEF KeysInv
<1>10. SnapshotIsWhole'
  <2>1. SUFFICES ASSUME NEW n \in DOMAIN ui', ui'[n].tx = Nil, NEW j \in DOMAIN ui'[n].from.records
                 PROVE  stored'[ui'[n].from.records[j].key] >= ui'[n].from.records[j].seq
    BY Zenon DEF SnapshotIsWhole, Committed
  <2>2. PICK i \in DOMAIN ui : ui'[n] = ui[i]
    BY <1>5, Zenon
  <2>3. i \in Committed /\ j \in DOMAIN ui[i].from.records
    BY <2>1, <2>2, Zenon DEF Committed
  <2>4. stored'[ui[i].from.records[j].key] >= ui[i].from.records[j].seq
    BY <1>2, <2>3, WholeStays, Zenon
  <2>5. QED
    BY <2>2, <2>4, Zenon
<1>11. QED
  BY <1>6, <1>7, <1>9, <1>10, Zenon DEF RowsInv, RowIsKept, KeysInv

(***************************************************************************)
(* The inductive invariant.                                                *)
(***************************************************************************)
SpaceInv == RowsInv /\ KeysInv /\ JobsInv /\ SnapshotIsWhole

(***************************************************************************)
(* A step that leaves the numbers, the locks and the rows leaves what is   *)
(* said of them; the input of a request that holds a lock stays the same.  *)
(***************************************************************************)
LEMMA RowsFrame ==
  ASSUME TypeOK, RowsInv, KeysInv, SnapshotIsWhole,
         stored' = stored, draft' = draft, lock' = lock, ui' = ui,
         \A q \in Req : job[q] # Nil => job'[q] = job[q]
  PROVE  RowsInv' /\ KeysInv' /\ SnapshotIsWhole'
<1>1. KeysInv' /\ SnapshotIsWhole'
  BY Zenon DEF KeysInv, SnapshotIsWhole, Committed
<1>2. \A i, j \in DOMAIN ui' : i < j /\ ui'[i].key = ui'[j].key => ui'[i].seq < ui'[j].seq
  BY Zenon DEF RowsInv
<1>3. ASSUME NEW i \in DOMAIN ui
      PROVE  IF ui[i].tx = Nil THEN ui[i].seq <= stored[ui[i].key]
             ELSE /\ lock[ui[i].key] = ui[i].tx /\ ui[i].from = job'[ui[i].tx]
                  /\ ui[i].seq <= draft[ui[i].key]
  <2>1. RowIsKept(ui[i]) /\ ui[i].key \in Key /\ ui[i].tx \in Req \cup {Nil}
    BY NumbersAreNat DEF RowsInv
  <2>2. lock[ui[i].key] # Nil => job[lock[ui[i].key]] # Nil
    BY <2>1, Zenon DEF TypeOK
  <2>3. QED
    BY <2>1, <2>2, Zenon DEF RowIsKept
<1>4. QED
  BY <1>1, <1>2, <1>3, Zenon DEF RowsInv, RowIsKept

(***************************************************************************)
(* A record that is refused changes nothing but, for a snapshot, the lock. *)
(***************************************************************************)
LEMMA RefuseKeeps ==
  ASSUME TypeOK, TypeOK', SpaceInv, NEW r \in Req, Refuse(r)
  PROVE  SpaceInv'
<1> DEFINE k == At(r).key
<1>1. /\ Working(r) /\ Free(r) /\ ~ Accepts(k, At(r).seq) /\ stored' = stored /\ ui' = ui
      /\ RowsInv /\ KeysInv /\ JobsInv /\ SnapshotIsWhole
  BY DEF Refuse, SpaceInv
<1>2. /\ \A c \in Key : stored[c] <= stored'[c] /\ draft[c] <= draft[c]
      /\ k \in Key /\ Has(r, At(r)) /\ lock[k] \in {Nil, r}
  BY <1>1, NumbersAreNat, AtIsRecord, RefusedIsThere DEF Free
<1>3. CASE job[r].kind = "event"
  <2>1. End(r)
    BY <1>3 DEF Refuse
  <2>2. done[r] = 0
    <3>1. Len(job[r].records) = 1 /\ done[r] \in 0 .. Len(job[r].records)
      BY <1>1, <1>3, JobIsInput, Zenon DEF Working
    <3>2. QED
      BY <1>1, <3>1 DEF Working
  <2>3. \A c \in Key : lock[c] # r
    BY <1>1, <2>2 DEF JobsInv
  <2>4. lock' = lock /\ draft' = draft
    BY <2>1, <2>3 DEF End, TypeOK
  <2>5. JobsInv'
    BY <1>1, <1>2, <2>1, EndKeepsJobs, Zenon
  <2>6. ASSUME NEW i \in DOMAIN ui
        PROVE  IF ui[i].tx = Nil THEN ui[i].seq <= stored'[ui[i].key]
               ELSE /\ lock'[ui[i].key] = ui[i].tx /\ ui[i].from = job'[ui[i].tx]
                    /\ ui[i].seq <= draft'[ui[i].key]
    <3>1. RowIsKept(ui[i]) /\ ui[i].key \in Key /\ r # Nil
      BY <1>1, NumbersAreNat DEF RowsInv
    <3>2. ui[i].tx # r
      BY <2>3, <3>1, Zenon DEF RowIsKept
    <3>3. ui[i] \in UiRow
      BY DEF TypeOK
    <3>4. QED
      BY <1>2, <2>1, <3>1, <3>2, <3>3, EndKeepsRow, Zenon
  <2>7. RowsInv'
    BY <1>1, <2>6, Zenon DEF RowsInv, RowIsKept
  <2>8. KeysInv' /\ SnapshotIsWhole'
    BY <1>1, <2>4, Zenon DEF KeysInv, SnapshotIsWhole, Committed
  <2>9. QED
    BY <2>5, <2>7, <2>8 DEF SpaceInv
<1>4. CASE job[r].kind # "event"
  <2>1. /\ lock' = IF k \in World THEN lock ELSE [lock EXCEPT ![k] = r]
        /\ done' = [done EXCEPT ![r] = @ + 1] /\ draft' = draft /\ job' = job
    BY <1>4 DEF Refuse
  <2>2. /\ \A c \in Key : c # k => lock'[c] = lock[c]
        /\ lock'[k] \in {lock[k], r} /\ (lock[k] = r => lock'[k] = r)
    BY <1>2, <2>1, Zenon DEF TypeOK
  <2>3. \A q \in Req : done'[q] = IF q = r THEN done[r] + 1 ELSE done[q]
    BY <2>1, Zenon DEF TypeOK
  <2>4. \/ At(r).seq <= stored'[At(r).key]
        \/ lock'[At(r).key] = r /\ At(r).seq <= draft'[At(r).key]
    BY <1>1, <1>2, <2>1, <2>2, Zenon DEF Has
  <2>5. \A c \in Key : /\ c # At(r).key => lock'[c] = lock[c] /\ draft'[c] = draft[c]
                       /\ c = At(r).key => lock'[c] \in {lock[c], r} /\ draft[c] <= draft'[c]
    BY <1>2, <2>1, <2>2, Zenon
  <2>6. JobsInv'
    BY <1>1, <2>1, <2>3, <2>4, <2>5, GoOnKeepsJobs, Zenon
  <2>7. ASSUME NEW c \in Key, lock[c] # Nil
        PROVE  lock'[c] = lock[c]
    BY <1>2, <2>2, <2>7, Zenon
  <2>8. ASSUME NEW i \in DOMAIN ui
        PROVE  IF ui[i].tx = Nil THEN ui[i].seq <= stored'[ui[i].key]
               ELSE /\ lock'[ui[i].key] = ui[i].tx /\ ui[i].from = job'[ui[i].tx]
                    /\ ui[i].seq <= draft'[ui[i].key]
    <3>1. RowIsKept(ui[i]) /\ ui[i].key \in Key
      BY <1>1, NumbersAreNat DEF RowsInv
    <3>2. QED
      BY <1>1, <2>1, <2>7, <3>1, Zenon DEF RowIsKept
  <2>9. RowsInv'
    BY <1>1, <2>8, Zenon DEF RowsInv, RowIsKept
  <2>10. KeysInv'
    <3>1. ASSUME NEW c \in Key
          PROVE  /\ draft'[c] # 0 => stored'[c] < draft'[c]
                 /\ c \notin Heart /\ stored'[c] # 0 => Tells(ui', c, stored'[c], Nil)
                 /\ c \notin Heart /\ draft'[c] # 0 => Tells(ui', c, draft'[c], lock'[c])
      <4>1. draft[c] # 0 => lock'[c] = lock[c]
        BY <2>7, NumbersAreNat, Zenon
      <4>2. QED
        BY <1>1, <2>1, <4>1, Zenon DEF KeysInv
    <3>2. QED
      BY <3>1, Zenon DEF KeysInv
  <2>11. SnapshotIsWhole'
    BY <1>1, Zenon DEF SnapshotIsWhole, Committed
  <2>12. QED
    BY <2>6, <2>9, <2>10, <2>11 DEF SpaceInv
<1>5. QED
  BY <1>3, <1>4

(***************************************************************************)
(* Every step keeps the invariant.                                         *)
(***************************************************************************)
LEMMA NextKeeps ==
  ASSUME TypeOK, SpaceInv, [Next]_vars
  PROVE  SpaceInv'
<1>0. TypeOK' /\ RowsInv /\ KeysInv /\ JobsInv /\ SnapshotIsWhole
  BY NextTypes DEF SpaceInv
<1>1. \A c \in Key : stored[c] <= stored[c] /\ draft[c] <= draft[c]
  BY NumbersAreNat
<1>2. ASSUME NEW r \in Req, NEW x \in Input, Arrive(r, x)
      PROVE  SpaceInv'
  <2>1. /\ stored' = stored /\ draft' = draft /\ lock' = lock /\ ui' = ui /\ done' = done
        /\ \A q \in Req : job'[q] = IF q = r THEN x ELSE job[q]
        /\ job[r] = Nil
    BY <1>2, Zenon DEF Arrive, TypeOK
  <2>2. RowsInv' /\ KeysInv' /\ SnapshotIsWhole'
    BY <1>0, <2>1, RowsFrame, Zenon
  <2>3. done[r] = 0
    BY <2>1 DEF TypeOK
  <2>4. ASSUME NEW q \in Req
        PROVE  /\ done'[q] = 0 => \A c \in Key : lock'[c] # q
               /\ job'[q] # Nil => \A j \in 1 .. done'[q] :
                    LET y == job'[q].records[j]
                    IN  y.seq <= stored'[y.key] \/ (lock'[y.key] = q /\ y.seq <= draft'[y.key])
    <3>1. CASE q = r
      <4>1. 1 .. done'[q] = {} /\ \A c \in Key : lock'[c] # q
        BY <1>0, <2>1, <2>3, <3>1 DEF JobsInv
      <4>2. QED
        BY <4>1, Zenon
    <3>2. CASE q # r
      BY <1>0, <2>1, <3>2, ZenonT(40) DEF JobsInv, Has
    <3>3. QED
      BY <3>1, <3>2
  <2>5. QED
    BY <2>2, <2>4, Zenon DEF SpaceInv, JobsInv, Has
<1>3. ASSUME NEW r \in Req, Store(r)
      PROVE  SpaceInv'
  <2>1. RowsInv' /\ KeysInv'
    BY <1>0, <1>3, StoreKeepsRows, Zenon
  <2>2. /\ Working(r) /\ Free(r) /\ Accepts(At(r).key, At(r).seq)
        /\ stored' = stored /\ job' = job
        /\ \A c \in Key : /\ lock'[c] = IF c = At(r).key THEN r ELSE lock[c]
                          /\ draft'[c] = IF c = At(r).key THEN At(r).seq ELSE draft[c]
        /\ \A q \in Req : done'[q] = IF q = r THEN done[r] + 1 ELSE done[q]
    BY <1>3, StoreStep, Zenon
  <2>3. /\ At(r).key \in Key /\ At(r).seq \in Nat /\ draft[At(r).key] \in Nat
        /\ draft[At(r).key] < At(r).seq
    BY <1>0, <2>2, AtIsRecord, AcceptedIsNewer, NumbersAreNat, SpaceAssumption
  <2>4. draft[At(r).key] <= At(r).seq /\ At(r).seq <= At(r).seq
    BY <2>3
  <2>5. \/ At(r).seq <= stored'[At(r).key]
        \/ lock'[At(r).key] = r /\ At(r).seq <= draft'[At(r).key]
    BY <2>2, <2>3, <2>4, Zenon
  <2>6. \A c \in Key : /\ c # At(r).key => lock'[c] = lock[c] /\ draft'[c] = draft[c]
                       /\ c = At(r).key => lock'[c] \in {lock[c], r} /\ draft[c] <= draft'[c]
    BY <2>2, <2>4, Zenon
  <2>7. JobsInv'
    BY <1>0, <2>2, <2>5, <2>6, GoOnKeepsJobs, Zenon
  <2>8. ASSUME NEW i \in DOMAIN ui', ui'[i].tx = Nil
        PROVE  i \in DOMAIN ui /\ ui'[i] = ui[i]
    <3>1. CASE ui' = ui
      BY <3>1, Zenon
    <3>2. ASSUME NEW n \in Nat, DOMAIN ui' = DOMAIN ui \cup {n},
                 \A m \in DOMAIN ui : ui'[m] = ui[m], ui'[n].tx = r
          PROVE  i \in DOMAIN ui /\ ui'[i] = ui[i]
      BY <2>8, <3>2, NumbersAreNat, Zenon
    <3>3. \/ ui' = ui
          \/ \E n \in Nat : /\ DOMAIN ui' = DOMAIN ui \cup {n}
                            /\ \A m \in DOMAIN ui : m < n /\ ui'[m] = ui[m]
                            /\ ui'[n].key = At(r).key /\ ui'[n].seq = At(r).seq
                            /\ ui'[n].from = job[r] /\ ui'[n].tx = r
      BY <1>3, StoreStep, Zenon
    <3>4. QED
      BY <3>1, <3>2, <3>3, Zenon
  <2>9. SnapshotIsWhole'
    <3>1. SUFFICES ASSUME NEW i \in DOMAIN ui', ui'[i].tx = Nil, NEW j \in DOMAIN ui'[i].from.records
                   PROVE  stored'[ui'[i].from.records[j].key] >= ui'[i].from.records[j].seq
      BY Zenon DEF SnapshotIsWhole, Committed
    <3>2. i \in DOMAIN ui /\ ui'[i] = ui[i]
      BY <2>8, <3>1, Zenon
    <3>3. QED
      BY <1>0, <2>2, <3>1, <3>2, Zenon DEF SnapshotIsWhole, Committed
  <2>10. QED
    BY <2>1, <2>7, <2>9 DEF SpaceInv
<1>4. ASSUME NEW r \in Req, Refuse(r)
      PROVE  SpaceInv'
  BY <1>0, <1>4, RefuseKeeps, Zenon
<1>5. ASSUME NEW r \in Req, Commit(r)
      PROVE  SpaceInv'
  <2>1. End(r) /\ \A c \in Key : stored[c] <= stored'[c]
    BY <1>0, <1>5, CommitStep, Zenon
  <2>2. JobsInv'
    BY <1>0, <2>1, EndKeepsJobs, Zenon
  <2>3. QED
    BY <1>0, <1>5, <2>2, CommitKeepsRows, CommitKeepsWhole, Zenon DEF SpaceInv
<1>6. ASSUME NEW r \in Req, Fail(r)
      PROVE  SpaceInv'
  <2>1. End(r) /\ \A c \in Key : stored[c] <= stored'[c]
    BY <1>1, <1>6, Zenon DEF Fail
  <2>2. JobsInv'
    BY <1>0, <2>1, EndKeepsJobs, Zenon
  <2>3. QED
    BY <1>0, <1>6, <2>2, FailKeepsRows, Zenon DEF SpaceInv
<1>7. CASE UNCHANGED vars
  <2>1. RowsInv' /\ KeysInv' /\ SnapshotIsWhole'
    BY <1>0, <1>7, RowsFrame, Zenon DEF vars
  <2>2. JobsInv'
    BY <1>0, <1>7, Zenon DEF vars, JobsInv, Has
  <2>3. QED
    BY <2>1, <2>2 DEF SpaceInv
<1>8. QED
  BY <1>2, <1>3, <1>4, <1>5, <1>6, <1>7, Zenon DEF Next

(***************************************************************************)
(* The invariant holds at first.                                           *)
(***************************************************************************)
LEMMA InitHas ==
  ASSUME Init
  PROVE  SpaceInv
<1>1. ui = <<>> /\ DOMAIN ui = {}
  BY DEF Init
<1>2. RowsInv /\ SnapshotIsWhole
  BY <1>1, Zenon DEF RowsInv, SnapshotIsWhole, Committed
<1>3. KeysInv
  BY Zenon DEF Init, KeysInv
<1>4. JobsInv
  <2>1. \A c \in Key : \A q \in Req : lock[c] # q
    BY SpaceAssumption, Zenon DEF Init
  <2>2. \A q \in Req : job[q] = Nil
    BY Zenon DEF Init
  <2>3. QED
    BY <2>1, <2>2, Zenon DEF JobsInv
<1>5. QED
  BY <1>2, <1>3, <1>4 DEF SpaceInv

(***************************************************************************)
(* What the invariant says of the rows that are committed.                 *)
(***************************************************************************)
LEMMA InvSays ==
  ASSUME TypeOK, SpaceInv
  PROVE  CursorsFollowRecords /\ LastRowIsStored /\ SnapshotIsWhole
<1>1. CursorsFollowRecords
  BY Zenon DEF SpaceInv, RowsInv, CursorsFollowRecords, Of, Committed
<1>2. ASSUME NEW k \in Key, NEW i \in Of(k) PROVE ui[i].seq <= stored[k]
  BY <1>2, Zenon DEF SpaceInv, RowsInv, RowIsKept, Of, Committed
<1>3. ASSUME NEW k \in Key, k \notin Heart, stored[k] # 0
      PROVE  \E i \in Of(k) : ui[i].seq = stored[k] /\ \A j \in Of(k) : j <= i
  <2>1. PICK i \in DOMAIN ui : ui[i].tx = Nil /\ ui[i].key = k /\ ui[i].seq = stored[k]
    BY <1>3, Zenon DEF SpaceInv, KeysInv, Tells
  <2>2. i \in Of(k) /\ i \in Nat
    BY <2>1, NumbersAreNat DEF Of, Committed
  <2>3. ASSUME NEW j \in Of(k) PROVE j <= i
    <3>1. j \in Nat /\ ui[j].seq \in Nat /\ stored[k] \in Nat
      BY NumbersAreNat DEF Of, Committed
    <3>2. ui[j].seq <= stored[k]
      BY <1>2
    <3>3. i < j => ui[i].seq < ui[j].seq
      BY <1>1, <2>2 DEF CursorsFollowRecords
    <3>4. QED
      BY <2>1, <2>2, <3>1, <3>2, <3>3
  <2>4. QED
    BY <2>1, <2>2, <2>3, Zenon
<1>4. LastRowIsStored
  BY <1>2, <1>3, Zenon DEF LastRowIsStored
<1>5. QED
  BY <1>1, <1>4 DEF SpaceInv

(***************************************************************************)
(* The inductive invariant holds of every state that requests reach.       *)
(***************************************************************************)
THEOREM SpaceInvariant == Spec => [](TypeOK /\ SpaceInv)
<1>1. Init => TypeOK /\ SpaceInv
  BY InitTypes, InitHas
<1>2. TypeOK /\ SpaceInv /\ [Next]_vars => TypeOK' /\ SpaceInv'
  BY NextTypes, NextKeeps
<1>3. QED
  BY <1>1, <1>2, PTL DEF Spec

(***************************************************************************)
(* The rows of gateway_ui_events are numbered in the order of the records  *)
(* they tell, whatever transactions run, wait, commit and are rolled back  *)
(* between them.                                                           *)
(***************************************************************************)
THEOREM RowsTellInOrder == Spec => []CursorsFollowRecords
<1>1. TypeOK /\ SpaceInv => CursorsFollowRecords
  BY InvSays
<1>2. QED
  BY <1>1, SpaceInvariant, PTL

(***************************************************************************)
(* The last row of a key tells what upsert_presence and upsert_world_event *)
(* have stored; only a heartbeat may have stored more than was told.       *)
(***************************************************************************)
THEOREM LastRowTellsTheStore == Spec => []LastRowIsStored
<1>1. TypeOK /\ SpaceInv => LastRowIsStored
  BY InvSays
<1>2. QED
  BY <1>1, SpaceInvariant, PTL

(***************************************************************************)
(* persist_snapshot_space is all or nothing: once one record of a snapshot *)
(* is told, all of them, or newer ones, are stored.                        *)
(***************************************************************************)
THEOREM SnapshotsAreWhole == Spec => []SnapshotIsWhole
<1>1. TypeOK /\ SpaceInv => SnapshotIsWhole
  BY InvSays
<1>2. QED
  BY <1>1, SpaceInvariant, PTL
=============================================================================
