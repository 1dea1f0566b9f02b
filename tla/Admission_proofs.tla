--------------------------- MODULE Admission_proofs ---------------------------
(***************************************************************************)
(* Admission for any challenges, instances, requests and connections.  The *)
(* argument is the row lock of prove_session: from its select to its end a *)
(* proof is the only one that holds its challenge, and the challenge stays *)
(* open, so a session is made of an open challenge and closes it.          *)
(*                                                                         *)
(* The reserve of the bucket holds for every rate and every burst of two   *)
(* tokens or more.  Its invariant compares the two counters: what bulk     *)
(* publishes may still take, and one token, are there beside the           *)
(* interactive debt.                                                       *)
(***************************************************************************)
EXTENDS Admission, FiniteSetTheorems, TLAPS

-----------------------------------------------------------------------------
(* The bucket.                                                             *)

BucketInv ==
  /\ BucketTypeOK
  /\ total + used >= bulk + Unit

(***************************************************************************)
(* The bulk rate is part of the total rate, over any time.                 *)
(***************************************************************************)
LEMMA RatesOrdered ==
  ASSUME NEW e \in Elapsed
  PROVE  /\ e * BulkRate \in Nat /\ e * TotalRate \in Nat
         /\ e * BulkRate <= e * TotalRate
BY BucketAssumption DEF Elapsed

(***************************************************************************)
(* Refilling keeps the relation of the counters and the debt: total tokens *)
(* come at the bulk rate and the reserved one together.                    *)
(***************************************************************************)
LEMMA RefillKeepsReserve ==
  ASSUME BucketInv, NEW e \in Elapsed
  PROVE  LET t == Refill(total, TotalRate, Burst, e)
             b == Refill(bulk, BulkRate, BulkCapacity, e)
         IN  /\ t \in 0 .. Burst /\ b \in 0 .. BulkCapacity
             /\ Repaid(e) \in 0 .. Burst
             /\ t + Repaid(e) >= b + Unit
<1> DEFINE x == e * TotalRate
           y == e * BulkRate
<1>1. x \in Nat /\ y \in Nat /\ y <= x
  BY RatesOrdered
<1>2. Refill(total, TotalRate, Burst, e) = IF total + x < Burst THEN total + x ELSE Burst
  BY DEF Refill
<1>3. Refill(bulk, BulkRate, BulkCapacity, e)
        = IF bulk + y < BulkCapacity THEN bulk + y ELSE BulkCapacity
  BY DEF Refill
<1>4. Repaid(e) = IF used + y > x THEN used + y - x ELSE 0
  BY DEF Repaid
<1> HIDE DEF x, y
<1> QED
  BY <1>1, <1>2, <1>3, <1>4, BucketAssumption DEF BucketInv, BucketTypeOK, BulkCapacity

(***************************************************************************)
(* Every acquisition, granted or refused, keeps the invariant.             *)
(***************************************************************************)
LEMMA AcquireKeepsInv ==
  ASSUME BucketInv, NEW class \in Class, NEW e \in Elapsed, Acquire(class, e)
  PROVE  BucketInv'
<1> DEFINE t == Refill(total, TotalRate, Burst, e)
           b == Refill(bulk, BulkRate, BulkCapacity, e)
           u == Repaid(e)
<1>1. /\ t \in 0 .. Burst /\ b \in 0 .. BulkCapacity /\ u \in 0 .. Burst
      /\ t + u >= b + Unit
  BY RefillKeepsReserve
<1>2. Allowed(class, e) <=> t >= Unit /\ (class = "interactive" \/ b >= Unit)
  BY DEF Allowed
<1>3. /\ total' = IF Allowed(class, e) THEN t - Unit ELSE t
      /\ bulk' = IF Allowed(class, e) /\ class = "bulk" THEN b - Unit ELSE b
      /\ used' = IF Allowed(class, e) /\ class = "interactive" THEN Owe(u) ELSE u
  BY DEF Acquire, Take
<1> HIDE DEF t, b, u
<1>4. CASE ~Allowed(class, e)
  BY <1>1, <1>3, <1>4, BucketAssumption DEF BucketInv, BucketTypeOK, BulkCapacity
<1>5. CASE Allowed(class, e) /\ class = "interactive"
  <2>1. total' = t - Unit /\ bulk' = b /\ used' = Owe(u) /\ t >= Unit
    BY <1>2, <1>3, <1>5
  <2> QED
    BY <1>1, <2>1, BucketAssumption DEF BucketInv, BucketTypeOK, BulkCapacity, Owe
<1>6. CASE Allowed(class, e) /\ class = "bulk"
  <2>1. total' = t - Unit /\ bulk' = b - Unit /\ used' = u /\ t >= Unit /\ b >= Unit
    BY <1>1, <1>2, <1>3, <1>6
  <2> QED
    BY <1>1, <2>1, BucketAssumption DEF BucketInv, BucketTypeOK, BulkCapacity
<1> QED
  BY <1>4, <1>5, <1>6 DEF Class

(***************************************************************************)
(* The counters of gateway_global_rate_buckets stay in their bounds and    *)
(* keep the reserve.                                                       *)
(***************************************************************************)
THEOREM BucketInvariant == BucketSpec => []BucketInv
<1>1. BucketInit => BucketInv
  BY BucketAssumption DEF BucketInit, BucketInv, BucketTypeOK, BulkCapacity
<1>2. BucketInv /\ [BucketNext]_bucket => BucketInv'
  <2> SUFFICES ASSUME BucketInv, [BucketNext]_bucket PROVE BucketInv'
    OBVIOUS
  <2>1. CASE BucketNext
    BY <2>1, AcquireKeepsInv DEF BucketNext
  <2>2. CASE UNCHANGED bucket
    BY <2>2 DEF bucket, BucketInv, BucketTypeOK, BulkCapacity
  <2> QED
    BY <2>1, <2>2
<1> QED
  BY <1>1, <1>2, PTL DEF BucketSpec

(***************************************************************************)
(* Interactive publishes within the reserved rate are never refused, for   *)
(* all rates, bursts of two tokens or more, and bulk traffic.              *)
(***************************************************************************)
THEOREM ReserveHolds == BucketSpec => []ReservedIsGranted
<1>1. BucketInv => ReservedIsGranted
  <2> SUFFICES ASSUME BucketInv, NEW e \in Elapsed, Repaid(e) = 0
               PROVE  Allowed("interactive", e)
    BY DEF ReservedIsGranted
  <2> DEFINE t == Refill(total, TotalRate, Burst, e)
             b == Refill(bulk, BulkRate, BulkCapacity, e)
  <2>1. t \in 0 .. Burst /\ b \in 0 .. BulkCapacity /\ t + 0 >= b + Unit
    BY RefillKeepsReserve
  <2> HIDE DEF b
  <2>2. t >= Unit
    BY <2>1, BucketAssumption DEF BulkCapacity
  <2> QED
    BY <2>2 DEF Allowed
<1> QED
  BY <1>1, BucketInvariant, PTL

-----------------------------------------------------------------------------
(* The sessions.                                                           *)

\* A proof has a challenge, and from its select on it holds the row.
Proving == {"begin", "select", "read", "instance", "commit"}
Locking == {"read", "instance", "commit"}
Locked ==
  \A r \in Req :
    /\ pc[r] \in Proving => of[r] \in Challenge
    /\ pc[r] \in Locking => lock[of[r]] = r /\ challenge[of[r]] = "open"

\* A challenge that made a session is consumed.
Consumed == \A i \in DOMAIN sessions : challenge[sessions[i].challenge] = "gone"

\* The row of gateway_principal_instances sums up the sessions: it has an id
\* that was shown, if any was, and the flag when two were.
Summary ==
  /\ instance = Nil => \A i \in DOMAIN sessions : Id(i) = Nil
  /\ instance # Nil => \E i \in DOMAIN sessions : Id(i) = instance
  /\ history <=> \E i, k \in DOMAIN sessions : Id(i) # Nil /\ Id(k) \notin {Nil, Id(i)}

AdmissionInv ==
  /\ TypeOK /\ Locked
  /\ Consumed /\ OneSessionPerChallenge
  /\ Summary /\ HistoryIsDurable

-----------------------------------------------------------------------------
(* Connections and types.                                                  *)

Held == {r \in Req : pc[r] \in Holding}

(***************************************************************************)
(* A step of one request changes what is held by that request alone.       *)
(***************************************************************************)
LEMMA HeldChanges ==
  ASSUME TypeOK, NEW r \in Req, NEW to, pc' = [pc EXCEPT ![r] = to]
  PROVE  /\ Cardinality(Held) \in Nat
         /\ Cardinality(Held') = IF to \in Holding
                                 THEN IF pc[r] \in Holding THEN Cardinality(Held)
                                      ELSE Cardinality(Held) + 1
                                 ELSE IF pc[r] \in Holding THEN Cardinality(Held) - 1
                                      ELSE Cardinality(Held)
<1>1. IsFiniteSet(Held) /\ Cardinality(Held) \in Nat
  BY AdmissionAssumption, FS_Subset, FS_CardinalityType DEF Held
<1>2. pc'[r] = to /\ \A q \in Req \ {r} : pc'[q] = pc[q]
  BY DEF TypeOK
<1>3. CASE to \in Holding
  <2>1. Held' = Held \cup {r}
    BY <1>2, <1>3 DEF Held
  <2> QED
    BY <1>1, <1>3, <2>1, FS_AddElement, Zenon DEF Held
<1>4. CASE to \notin Holding
  <2>1. Held' = Held \ {r}
    BY <1>2, <1>4 DEF Held
  <2> QED
    BY <1>1, <1>4, <2>1, FS_RemoveElement, Zenon DEF Held
<1> QED
  BY <1>3, <1>4

(***************************************************************************)
(* A step of a request that takes or returns as many connections as it     *)
(* says keeps the count.                                                   *)
(***************************************************************************)
LEMMA StepTypes ==
  ASSUME TypeOK, NEW r \in Req, NEW from, NEW to \in {"idle"} \cup Waiting \cup Holding,
         Step(r, from, to),
         free' = IF from \notin Holding /\ to \in Holding THEN free - 1 ELSE free,
         from \in Holding => to \in Holding
  PROVE  /\ pc' \in [Req -> {"idle"} \cup Waiting \cup Holding]
         /\ free' = Conns - Cardinality(Held')
<1>1. pc[r] = from /\ pc' = [pc EXCEPT ![r] = to]
  BY DEF Step
<1>2. pc' \in [Req -> {"idle"} \cup Waiting \cup Holding]
  BY <1>1 DEF TypeOK
<1>3. Cardinality(Held) \in Nat /\ free = Conns - Cardinality(Held) /\ Conns \in Nat
  BY <1>1, HeldChanges, AdmissionAssumption, Zenon DEF TypeOK, Held
<1>4. Cardinality(Held') = IF to \in Holding /\ from \notin Holding
                           THEN Cardinality(Held) + 1 ELSE Cardinality(Held)
  BY <1>1, HeldChanges, Zenon
<1> QED
  BY <1>2, <1>3, <1>4

(***************************************************************************)
(* A request that ends returns its connection and its locks.               *)
(***************************************************************************)
LEMMA EndTypes ==
  ASSUME TypeOK, NEW r \in Req, End(r)
  PROVE  /\ pc' \in [Req -> {"idle"} \cup Waiting \cup Holding]
         /\ of' \in [Req -> Challenge \cup {Nil}]
         /\ lock' \in [Challenge -> Req \cup {Nil}] /\ writer' \in Req \cup {Nil}
         /\ free' = Conns - Cardinality(Held')
<1>1. "idle" \notin Holding
  BY DEF Holding
<1>2. /\ pc' = [pc EXCEPT ![r] = "idle"]
      /\ free' = IF pc[r] \in Holding THEN free + 1 ELSE free
  BY DEF End
<1>3. Cardinality(Held) \in Nat /\ free = Conns - Cardinality(Held) /\ Conns \in Nat
  BY <1>2, HeldChanges, AdmissionAssumption, Zenon DEF TypeOK, Held
<1>4. Cardinality(Held') = IF pc[r] \in Holding THEN Cardinality(Held) - 1
                           ELSE Cardinality(Held)
  BY <1>1, <1>2, HeldChanges, Zenon
<1>5. free' = Conns - Cardinality(Held')
  BY <1>2, <1>3, <1>4
<1> QED
  BY <1>5 DEF End, TypeOK

(***************************************************************************)
(* Every step keeps the types and the count of the connections.            *)
(***************************************************************************)
LEMMA KeepsTypes ==
  ASSUME TypeOK, Locked, BucketTypeOK', [Next]_vars
  PROVE  TypeOK'
<1> SUFFICES /\ admitted' \in BOOLEAN
             /\ challenge' \in [Challenge -> {"none", "open", "gone"}]
             /\ lock' \in [Challenge -> Req \cup {Nil}]
             /\ instance' \in Instance \cup {Nil} /\ history' \in BOOLEAN
             /\ writer' \in Req \cup {Nil}
             /\ sessions' \in Seq(Session) /\ live' \in BOOLEAN
             /\ pc' \in [Req -> {"idle"} \cup Waiting \cup Holding]
             /\ of' \in [Req -> Challenge \cup {Nil}]
             /\ free' = Conns - Cardinality(Held')
  BY DEF TypeOK, Held
<1>0. /\ admitted \in BOOLEAN
      /\ challenge \in [Challenge -> {"none", "open", "gone"}]
      /\ lock \in [Challenge -> Req \cup {Nil}]
      /\ instance \in Instance \cup {Nil} /\ history \in BOOLEAN
      /\ writer \in Req \cup {Nil}
      /\ sessions \in Seq(Session) /\ live \in BOOLEAN
      /\ pc \in [Req -> {"idle"} \cup Waiting \cup Holding]
      /\ of \in [Req -> Challenge \cup {Nil}]
      /\ free = Conns - Cardinality(Held)
  BY DEF TypeOK, Held
<1>1. CASE Turn
  BY <1>0, <1>1 DEF Turn, rows, Held
<1>2. CASE \E c \in Challenge : Ask(c) \/ ChallengeExpires(c)
  BY <1>0, <1>2, Zenon DEF Ask, ChallengeExpires, Held
<1>3. CASE SessionsExpire
  BY <1>0, <1>3, Zenon DEF SessionsExpire, Held
<1>4. ASSUME NEW r \in Req, NEW c \in Challenge, Prove(r, c)
      PROVE  pc' \in [Req -> {"idle"} \cup Waiting \cup Holding]
             /\ free' = Conns - Cardinality(Held')
  BY <1>4, StepTypes DEF Prove, Waiting, Holding
<1>5. ASSUME NEW r \in Req, Begin(r) \/ Fence(r)
      PROVE  pc' \in [Req -> {"idle"} \cup Waiting \cup Holding]
             /\ free' = Conns - Cardinality(Held')
  BY <1>5, StepTypes DEF Begin, Fence, Waiting, Holding
<1>6. ASSUME NEW r \in Req, Select(r) \/ Read(r) \/ Register(r)
      PROVE  pc' \in [Req -> {"idle"} \cup Waiting \cup Holding]
             /\ free' = Conns - Cardinality(Held')
  BY <1>6, StepTypes DEF Select, Read, Register, Waiting, Holding
<1>7. ASSUME NEW r \in Req, Publish(r) \/ Verify(r) \/ Member(r) \/ Token(r)
      PROVE  pc' \in [Req -> {"idle"} \cup Waiting \cup Holding]
             /\ free' = Conns - Cardinality(Held')
  <2>1. free' = free
    BY <1>7 DEF Publish, Verify, Member, Token
  <2>2. Step(r, "idle", "session") \/ Step(r, "session", "member")
        \/ Step(r, "member", "fence") \/ Step(r, "token", "publish")
    BY <1>7 DEF Publish, Verify, Member, Token
  <2> QED
    BY <2>1, <2>2, StepTypes DEF Waiting, Holding
<1>8. ASSUME NEW r \in Req, \E c \in Challenge : Prove(r, c) PROVE TypeOK'
  BY <1>0, <1>4, <1>8, Zenon DEF Prove, rows, TypeOK, Held
<1>9. ASSUME NEW r \in Req, Begin(r) \/ Fence(r) PROVE TypeOK'
  BY <1>0, <1>5, <1>9, Zenon DEF Begin, Fence, rows, TypeOK, Held
<1>10. ASSUME NEW r \in Req, Select(r) PROVE TypeOK'
  BY <1>0, <1>6, <1>10, Zenon DEF Select, TypeOK, Held
<1>11. ASSUME NEW r \in Req, Read(r) \/ Register(r) PROVE TypeOK'
  BY <1>0, <1>6, <1>11, Zenon DEF Read, Register, rows, TypeOK, Held
<1>12. ASSUME NEW r \in Req, Publish(r) \/ Verify(r) \/ Member(r) \/ Token(r)
       PROVE  TypeOK'
  BY <1>0, <1>7, <1>12 DEF Publish, Verify, Member, Token, rows, TypeOK, Held
<1>13. ASSUME NEW r \in Req, Published(r) \/ Fail(r) \/ NoToken(r) PROVE TypeOK'
  <2>1. End(r) /\ UNCHANGED <<admitted, challenge, instance, history, sessions, live>>
    BY <1>13 DEF Published, Fail, NoToken
  <2> QED
    BY <1>0, <2>1, EndTypes, Zenon DEF TypeOK, Held
<1>14. ASSUME NEW r \in Req, Commit(r) PROVE TypeOK'
  <2> DEFINE c == of[r]
             new == [challenge |-> c, history |-> Claim[c] # Nil /\ Changed(Claim[c])]
  <2>1. c \in Challenge /\ Claim[c] \in Instance \cup {Nil}
    BY <1>14, AdmissionAssumption DEF Commit, Locked, Proving
  <2>2. End(r) /\ sessions' = Append(sessions, new) /\ UNCHANGED admitted
        /\ challenge' = [challenge EXCEPT ![c] = "gone"] /\ live' = TRUE
    BY <1>14 DEF Commit
  <2>3. new \in Session
    BY <1>0, <2>1 DEF Session, Changed
  <2> HIDE DEF new
  <2>4. sessions' \in Seq(Session)
    BY <1>0, <2>2, <2>3
  <2>5. instance' \in Instance \cup {Nil} /\ history' \in BOOLEAN
    BY <1>0, <1>14, <2>1, Zenon DEF Commit, Changed
  <2> QED
    BY <1>0, <2>1, <2>2, <2>4, <2>5, EndTypes, Zenon DEF TypeOK, Held
<1>15. CASE UNCHANGED vars
  BY <1>0, <1>15 DEF vars, rows, Held
<1> QED
  BY <1>1, <1>2, <1>3, <1>8, <1>9, <1>10, <1>11, <1>12, <1>13, <1>14, <1>15, Zenon
     DEF Next, Run, TypeOK, Held

-----------------------------------------------------------------------------
(* The lock of a challenge.                                                *)

(***************************************************************************)
(* A request that ends gives up its own locks and no others, and consumes  *)
(* no challenge but the one it holds.                                      *)
(***************************************************************************)
LEMMA EndKeepsLocked ==
  ASSUME TypeOK, Locked, NEW r \in Req, End(r),
         \A c \in Challenge : challenge'[c] # challenge[c] => lock[c] = r
  PROVE  Locked'
<1> SUFFICES ASSUME NEW q \in Req
             PROVE  /\ pc'[q] \in Proving => of'[q] \in Challenge
                    /\ pc'[q] \in Locking
                         => lock'[of'[q]] = q /\ challenge'[of'[q]] = "open"
  BY DEF Locked
<1>1. CASE q = r
  BY <1>1 DEF End, TypeOK, Proving, Locking
<1>2. CASE q # r
  <2>1. pc'[q] = pc[q] /\ of'[q] = of[q]
    BY <1>2 DEF End, TypeOK
  <2>2. pc[q] \in Locking => /\ of[q] \in Challenge /\ lock[of[q]] = q
                             /\ challenge[of[q]] = "open"
    BY DEF Locked, Locking, Proving
  <2>3. \A c \in Challenge : lock[c] = q => lock'[c] = q /\ challenge'[c] = challenge[c]
    BY <1>2 DEF End, TypeOK
  <2> QED
    BY <2>1, <2>2, <2>3 DEF Locked
<1> QED
  BY <1>1, <1>2

(***************************************************************************)
(* Every step keeps the locks: a select waits for the row, and what runs   *)
(* out is not locked.                                                      *)
(***************************************************************************)
LEMMA KeepsLocked ==
  ASSUME TypeOK, Locked, [Next]_vars
  PROVE  Locked'
<1>0. /\ challenge \in [Challenge -> {"none", "open", "gone"}]
      /\ lock \in [Challenge -> Req \cup {Nil}]
      /\ pc \in [Req -> {"idle"} \cup Waiting \cup Holding]
      /\ of \in [Req -> Challenge \cup {Nil}]
      /\ Nil \notin Req
  BY AdmissionAssumption DEF TypeOK
<1>1. ASSUME UNCHANGED <<challenge, lock, pc, of>> PROVE Locked'
  BY <1>1 DEF Locked
<1>2. ASSUME NEW c \in Challenge, Ask(c) \/ ChallengeExpires(c) PROVE Locked'
  <2>1. /\ UNCHANGED <<lock, pc, of>>
        /\ \A d \in Challenge : challenge[d] = "open" /\ lock[d] # Nil
                                => challenge'[d] = "open"
    BY <1>0, <1>2 DEF Ask, ChallengeExpires
  <2> QED
    BY <1>0, <2>1 DEF Locked, Locking, Proving
<1>3. ASSUME NEW r \in Req, NEW from, NEW to, Step(r, from, to),
             UNCHANGED <<challenge, lock, of>>,
             to \in Proving => from \in Proving, to \in Locking => from \in Locking
      PROVE  Locked'
  BY <1>0, <1>3 DEF Step, Locked
<1>4. ASSUME NEW r \in Req, NEW c \in Challenge, Prove(r, c) PROVE Locked'
  BY <1>0, <1>4 DEF Prove, Step, rows, Locked, Proving, Locking
<1>5. ASSUME NEW r \in Req, Begin(r) \/ Read(r) \/ Register(r) PROVE Locked'
  <2>1. UNCHANGED <<challenge, lock, of>>
    BY <1>5 DEF Begin, Read, Register, rows
  <2>2. Step(r, "begin", "select") \/ Step(r, "read", "instance")
        \/ Step(r, "instance", "commit")
    BY <1>5 DEF Begin, Read, Register
  <2> QED
    BY <1>3, <2>1, <2>2 DEF Proving, Locking
<1>6. ASSUME NEW r \in Req, Select(r) PROVE Locked'
  <2>1. /\ of[r] \in Challenge /\ challenge[of[r]] = "open" /\ lock[of[r]] = Nil
        /\ pc[r] = "select" /\ pc' = [pc EXCEPT ![r] = "read"]
        /\ lock' = [lock EXCEPT ![of[r]] = r] /\ UNCHANGED <<challenge, of>>
    BY <1>6 DEF Select, Step, Locked, Proving
  <2>2. ASSUME NEW q \in Req \ {r}, pc[q] \in Locking
        PROVE  of[q] \in Challenge /\ of[q] # of[r]
    BY <1>0, <2>1, <2>2 DEF Locked, Locking, Proving
  <2> QED
    BY <1>0, <2>1, <2>2, Zenon DEF Locked
<1>7. ASSUME NEW r \in Req, Publish(r) \/ Verify(r) \/ Member(r) \/ Fence(r) \/ Token(r)
      PROVE  Locked'
  <2>1. UNCHANGED <<challenge, lock, of>>
    BY <1>7 DEF Publish, Verify, Member, Fence, Token, rows
  <2>2. Step(r, "idle", "session") \/ Step(r, "session", "member")
        \/ Step(r, "member", "fence") \/ Step(r, "fence", "token")
        \/ Step(r, "token", "publish")
    BY <1>7 DEF Publish, Verify, Member, Fence, Token
  <2> QED
    BY <1>3, <2>1, <2>2 DEF Proving, Locking
<1>8. ASSUME NEW r \in Req, Published(r) \/ Fail(r) \/ NoToken(r) PROVE Locked'
  <2>1. End(r) /\ UNCHANGED challenge
    BY <1>8 DEF Published, Fail, NoToken
  <2> QED
    BY <2>1, EndKeepsLocked
<1>9. ASSUME NEW r \in Req, Commit(r) PROVE Locked'
  <2>1. End(r) /\ challenge' = [challenge EXCEPT ![of[r]] = "gone"] /\ lock[of[r]] = r
    BY <1>9 DEF Commit, Locked, Locking
  <2> QED
    BY <1>0, <2>1, EndKeepsLocked
<1>10. CASE Turn \/ SessionsExpire \/ UNCHANGED vars
  BY <1>1, <1>10 DEF Turn, SessionsExpire, vars, rows
<1> QED
  BY <1>2, <1>4, <1>5, <1>6, <1>7, <1>8, <1>9, <1>10 DEF Next, Run

-----------------------------------------------------------------------------
(* Sessions.                                                               *)

(***************************************************************************)
(* Only a commit makes a session; other steps leave the consumed           *)
(* challenges, the ids and the flag alone.                                 *)
(***************************************************************************)
LEMMA OnlyCommitMakesSessions ==
  ASSUME TypeOK, [Next]_vars, ~\E r \in Req : Commit(r)
  PROVE  /\ UNCHANGED <<sessions, instance, history>>
         /\ \A c \in Challenge : challenge[c] = "gone" => challenge'[c] = "gone"
<1>0. challenge \in [Challenge -> {"none", "open", "gone"}]
  BY DEF TypeOK
<1>1. CASE \E c \in Challenge : Ask(c) \/ ChallengeExpires(c)
  BY <1>0, <1>1 DEF Ask, ChallengeExpires
<1>2. ASSUME NEW r \in Req, Published(r) \/ Fail(r) \/ NoToken(r)
      PROVE  UNCHANGED <<sessions, instance, history, challenge>>
  BY <1>2, Zenon DEF Published, Fail, NoToken
<1>3. ASSUME NEW r \in Req,
             \/ \E c \in Challenge : Prove(r, c)
             \/ Begin(r) \/ Select(r) \/ Read(r) \/ Register(r)
             \/ Publish(r) \/ Verify(r) \/ Member(r) \/ Fence(r) \/ Token(r)
      PROVE  UNCHANGED <<sessions, instance, history, challenge>>
  BY <1>3 DEF Prove, Begin, Select, Read, Register, Publish, Verify, Member, Fence,
     Token, rows
<1>4. CASE Turn \/ SessionsExpire \/ UNCHANGED vars
  BY <1>4 DEF Turn, SessionsExpire, vars, rows
<1> QED
  BY <1>1, <1>2, <1>3, <1>4 DEF Next, Run

(***************************************************************************)
(* The session a commit makes is the last, of a challenge that was open.   *)
(***************************************************************************)
LEMMA CommitAppends ==
  ASSUME TypeOK, Locked, NEW r \in Req, Commit(r)
  PROVE  LET n == Len(sessions)
             c == of[r]
         IN  /\ n \in Nat /\ DOMAIN sessions = 1 .. n /\ DOMAIN sessions' = 1 .. n + 1
             /\ \A i \in 1 .. n : /\ sessions'[i] = sessions[i]
                                  /\ sessions[i].challenge \in Challenge
             /\ c \in Challenge /\ challenge[c] = "open"
             /\ challenge' = [challenge EXCEPT ![c] = "gone"]
             /\ sessions'[n + 1].challenge = c
             /\ sessions'[n + 1].history <=> Claim[c] # Nil /\ Changed(Claim[c])
<1> DEFINE c == of[r]
           new == [challenge |-> c, history |-> Claim[c] # Nil /\ Changed(Claim[c])]
<1>1. c \in Challenge /\ challenge[c] = "open"
  BY DEF Commit, Locked, Proving, Locking
<1>2. sessions' = Append(sessions, new)
      /\ challenge' = [challenge EXCEPT ![c] = "gone"]
  BY DEF Commit
<1>3. new.challenge = c /\ (new.history <=> Claim[c] # Nil /\ Changed(Claim[c]))
  BY Zenon
<1>4. sessions \in Seq(Session)
  BY DEF TypeOK
<1>5. Len(sessions) \in Nat /\ DOMAIN sessions = 1 .. Len(sessions)
      /\ \A i \in 1 .. Len(sessions) : sessions[i] \in Session
  BY <1>4
<1>6. \A i \in 1 .. Len(sessions) : sessions[i].challenge \in Challenge
  BY <1>5 DEF Session
<1> HIDE DEF new
<1>7. /\ DOMAIN sessions' = 1 .. Len(sessions) + 1
      /\ \A i \in 1 .. Len(sessions) : sessions'[i] = sessions[i]
      /\ sessions'[Len(sessions) + 1] = new
  BY <1>2, <1>4, <1>5
<1> QED
  BY <1>1, <1>2, <1>3, <1>5, <1>6, <1>7, Zenon

(***************************************************************************)
(* Every step keeps a challenge to one session.                            *)
(***************************************************************************)
LEMMA KeepsConsumed ==
  ASSUME TypeOK, Locked, Consumed, OneSessionPerChallenge, [Next]_vars
  PROVE  Consumed' /\ OneSessionPerChallenge'
<1>0. challenge \in [Challenge -> {"none", "open", "gone"}]
      /\ \A i \in DOMAIN sessions : sessions[i].challenge \in Challenge
  <2>1. sessions \in Seq(Session)
    BY DEF TypeOK
  <2>2. \A i \in DOMAIN sessions : sessions[i] \in Session
    BY <2>1
  <2> QED
    BY <2>2 DEF TypeOK, Session
<1>1. CASE \E r \in Req : Commit(r)
  <2> DEFINE n == Len(sessions)
  <2>1. PICK r \in Req : Commit(r)
    BY <1>1
  <2>2. /\ n \in Nat /\ DOMAIN sessions = 1 .. n /\ DOMAIN sessions' = 1 .. n + 1
        /\ \A i \in 1 .. n : sessions'[i] = sessions[i]
        /\ of[r] \in Challenge /\ challenge[of[r]] = "open"
        /\ challenge' = [challenge EXCEPT ![of[r]] = "gone"]
        /\ sessions'[n + 1].challenge = of[r]
    BY <2>1, CommitAppends
  <2> HIDE DEF n
  <2>3. \A i \in 1 .. n : sessions[i].challenge # of[r]
    BY <2>2 DEF Consumed
  <2>4. \A i \in 1 .. n + 1 : i \in 1 .. n \/ i = n + 1
    BY <2>2
  <2>5. Consumed'
    BY <1>0, <2>2, <2>4 DEF Consumed
  <2>6. OneSessionPerChallenge'
    BY <2>2, <2>3, <2>4 DEF OneSessionPerChallenge
  <2> QED
    BY <2>5, <2>6
<1>2. CASE ~\E r \in Req : Commit(r)
  <2>1. /\ UNCHANGED sessions
        /\ \A c \in Challenge : challenge[c] = "gone" => challenge'[c] = "gone"
    BY <1>2, OnlyCommitMakesSessions
  <2> QED
    BY <1>0, <2>1 DEF Consumed, OneSessionPerChallenge
<1> QED
  BY <1>1, <1>2

(***************************************************************************)
(* Every step keeps the row of the instance ids a summary of the sessions, *)
(* and the answers right.                                                  *)
(***************************************************************************)
LEMMA KeepsSummary ==
  ASSUME TypeOK, Locked, Summary, HistoryIsDurable, [Next]_vars
  PROVE  Summary' /\ HistoryIsDurable'
<1> USE DEF Id
<1>1. CASE \E r \in Req : Commit(r)
  <2>1. PICK r \in Req : Commit(r)
    BY <1>1
  <2>2. PICK n \in Nat, x \in Instance \cup {Nil} :
        /\ x = Claim[of[r]] /\ DOMAIN sessions = 1 .. n /\ DOMAIN sessions' = 1 .. n + 1
        /\ \A i \in 1 .. n : sessions'[i] = sessions[i]
        /\ sessions'[n + 1].challenge = of[r]
        /\ sessions'[n + 1].history <=> x # Nil /\ Changed(x)
    <3> DEFINE n == Len(sessions)
    <3>1. /\ n \in Nat /\ DOMAIN sessions = 1 .. n /\ DOMAIN sessions' = 1 .. n + 1
          /\ \A i \in 1 .. n : sessions'[i] = sessions[i]
          /\ sessions'[n + 1].challenge = of[r]
          /\ sessions'[n + 1].history
               <=> Claim[of[r]] # Nil /\ Changed(Claim[of[r]])
      BY <2>1, CommitAppends
    <3>2. Claim[of[r]] \in Instance \cup {Nil}
      <4>1. of[r] \in Challenge
        BY <2>1, Zenon DEF Commit, Locked, Proving
      <4> QED
        BY <4>1, AdmissionAssumption, Zenon
    <3> HIDE DEF n
    <3> QED
      BY <3>1, <3>2, Zenon
  <2>3. (\A i \in 1 .. n : Id(i)' = Id(i)) /\ Id(n + 1)' = x
    BY <2>2
  <2>4. IF x = Nil THEN UNCHANGED <<instance, history>>
        ELSE instance' = x /\ (history' <=> Changed(x))
    BY <2>1, <2>2, Zenon DEF Commit
  <2>5. \A i \in 1 .. n + 1 : i \in 1 .. n \/ i = n + 1
    BY <2>2
  <2>6. 1 .. n \subseteq 1 .. n + 1 /\ n + 1 \in 1 .. n + 1
    BY <2>2
  <2>7. x # Nil => (Changed(x) <=> \E i \in 1 .. n : Id(i) \notin {Nil, x})
    BY <2>2, Zenon DEF Summary, Changed
  <2>8. Summary'
    <3>1. CASE x = Nil
      BY <2>2, <2>3, <2>4, <2>5, <2>6, <3>1, Zenon DEF Summary
    <3>2. CASE x # Nil
      <4>1. history' <=> \E i \in 1 .. n : Id(i) \notin {Nil, x}
        BY <2>4, <2>7, <3>2
      <4>2. ASSUME history'
            PROVE  \E i, k \in 1 .. n + 1 : Id(i)' # Nil /\ Id(k)' \notin {Nil, Id(i)'}
        BY <2>3, <2>6, <3>2, <4>1, <4>2
      <4>3. ASSUME NEW i \in 1 .. n + 1, NEW k \in 1 .. n + 1,
                   Id(i)' # Nil, Id(k)' \notin {Nil, Id(i)'}
            PROVE  history'
        BY <2>3, <2>5, <4>1, <4>3, Zenon
      <4> QED
        BY <2>2, <2>3, <2>4, <2>6, <3>2, <4>2, <4>3 DEF Summary
    <3> QED
      BY <3>1, <3>2, Zenon
  <2>9. HistoryIsDurable'
    <3>1. ASSUME NEW j \in 1 .. n
          PROVE  sessions'[j].history <=>
                   Id(j)' # Nil /\ \E i \in 1 .. j : Id(i)' \notin {Nil, Id(j)'}
      <4>1. \A i \in 1 .. j : i \in 1 .. n
        BY <2>2
      <4> QED
        BY <2>2, <2>3, <4>1 DEF HistoryIsDurable
    <3>2. sessions'[n + 1].history <=>
            Id(n + 1)' # Nil /\ \E i \in 1 .. n + 1 : Id(i)' \notin {Nil, Id(n + 1)'}
      <4>1. x # Nil => ((\E i \in 1 .. n + 1 : Id(i)' \notin {Nil, x})
                         <=> \E i \in 1 .. n : Id(i) \notin {Nil, x})
        BY <2>3, <2>5, <2>6
      <4> QED
        BY <2>2, <2>3, <2>7, <4>1
    <3> QED
      BY <2>2, <2>5, <3>1, <3>2, Zenon DEF HistoryIsDurable
  <2> QED
    BY <2>8, <2>9
<1>2. CASE ~\E r \in Req : Commit(r)
  <2>1. UNCHANGED <<sessions, instance, history>>
    BY <1>2, OnlyCommitMakesSessions
  <2> QED
    BY <2>1 DEF Summary, HistoryIsDurable
<1> QED
  BY <1>1, <1>2

-----------------------------------------------------------------------------
(* The invariant and what follows from it.                                 *)

(***************************************************************************)
(* Whatever requests do, the bucket sees acquisitions and nothing else, so *)
(* what holds of the bucket alone holds of it here.                        *)
(***************************************************************************)
THEOREM BucketRefinement == Spec => BucketSpec
<1>1. Init => BucketInit
  BY DEF Init
<1>2. [Next]_vars => [BucketNext]_bucket
  <2> SUFFICES ASSUME [Next]_vars PROVE BucketNext \/ UNCHANGED bucket
    OBVIOUS
  <2>1. ASSUME NEW r \in Req, Token(r) \/ NoToken(r) PROVE BucketNext
    BY <2>1, Zenon DEF Token, NoToken, BucketNext
  <2>2. ASSUME NEW r \in Req,
               \/ \E c \in Challenge : Prove(r, c)
               \/ Begin(r) \/ Select(r) \/ Read(r) \/ Register(r) \/ Commit(r)
               \/ Publish(r) \/ Verify(r) \/ Member(r) \/ Fence(r)
               \/ Published(r) \/ Fail(r)
        PROVE  UNCHANGED bucket
    BY <2>2, Zenon DEF Prove, Begin, Select, Read, Register, Commit, Publish, Verify, Member,
       Fence, Published, Fail
  <2>3. CASE \/ Turn \/ SessionsExpire \/ UNCHANGED vars
             \/ \E c \in Challenge : Ask(c) \/ ChallengeExpires(c)
    BY <2>3 DEF Turn, SessionsExpire, Ask, ChallengeExpires, vars
  <2> QED
    BY <2>1, <2>2, <2>3 DEF Next, Run
<1> QED
  BY <1>1, <1>2, PTL DEF Spec, BucketSpec

(***************************************************************************)
(* Interactive publishes within the reserved rate are never refused,       *)
(* whatever else the requests do.                                          *)
(***************************************************************************)
THEOREM ReserveHoldsForRequests == Spec => []ReservedIsGranted
BY BucketRefinement, ReserveHolds, PTL

(***************************************************************************)
(* The invariant holds at first and in every step.                         *)
(***************************************************************************)
THEOREM AdmissionInvariant == Spec => []AdmissionInv
<1>1. Init /\ BucketInv => AdmissionInv
  <2> SUFFICES ASSUME Init, BucketInv PROVE AdmissionInv
    OBVIOUS
  <2>1. Held = {}
    BY DEF Init, Held, Holding
  <2>2. TypeOK
    <3>1. free = Conns - Cardinality(Held)
      BY <2>1, FS_EmptySet, AdmissionAssumption DEF Init
    <3>2. sessions \in Seq(Session)
      BY DEF Init
    <3> QED
      BY <3>1, <3>2, Zenon DEF Init, BucketInv, TypeOK, Held
  <2>3. Locked
    BY DEF Init, Locked, Proving, Locking
  <2>4. DOMAIN sessions = {}
    BY DEF Init
  <2>5. Consumed /\ OneSessionPerChallenge /\ Summary /\ HistoryIsDurable
    BY <2>4 DEF Init, Consumed, OneSessionPerChallenge, Summary, HistoryIsDurable
  <2> QED
    BY <2>2, <2>3, <2>5 DEF AdmissionInv
<1>2. AdmissionInv /\ BucketInv' /\ [Next]_vars => AdmissionInv'
  BY KeepsTypes, KeepsLocked, KeepsConsumed, KeepsSummary DEF AdmissionInv, BucketInv
<1>3. Spec => []BucketInv
  BY BucketRefinement, BucketInvariant, PTL
<1> QED
  BY <1>1, <1>2, <1>3, PTL DEF Spec

(***************************************************************************)
(* The types, and every connection of the pool is free or held by a        *)
(* request that runs: none is lost and none is lent twice.                 *)
(***************************************************************************)
THEOREM TypesHold == Spec => []TypeOK
<1>1. AdmissionInv => TypeOK
  BY DEF AdmissionInv
<1> QED
  BY <1>1, AdmissionInvariant, PTL

(***************************************************************************)
(* A challenge is good for one session, however many proofs of it run.     *)
(***************************************************************************)
THEOREM OneSessionHolds == Spec => []OneSessionPerChallenge
<1>1. AdmissionInv => OneSessionPerChallenge
  BY DEF AdmissionInv
<1> QED
  BY <1>1, AdmissionInvariant, PTL

(***************************************************************************)
(* prove_session answers history_unavailable exactly when the principal    *)
(* has shown another instance id before.                                   *)
(***************************************************************************)
THEOREM HistoryHolds == Spec => []HistoryIsDurable
<1>1. AdmissionInv => HistoryIsDurable
  BY DEF AdmissionInv
<1> QED
  BY <1>1, AdmissionInvariant, PTL
=============================================================================
