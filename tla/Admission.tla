------------------------------ MODULE Admission ------------------------------
(***************************************************************************)
(* How a principal is let in: challenges, sessions, and the connections,   *)
(* locks and tokens a request holds on its way.                            *)
(*                                                                         *)
(* A proof consumes its challenge and makes a session in one transaction;  *)
(* a publish shows the session, opens the transaction of the scope fence   *)
(* and takes a token.  Both hold a connection of the pool while they use   *)
(* another one for a query: when every connection is held that way,        *)
(* everyone waits, until acquiring times out.                              *)
(*                                                                         *)
(* One principal is modelled, and only whether it is admitted; module      *)
(* ScopeMembership has the memberships and the exclusive fences.           *)
(* Signatures are valid here, and a challenge is proved as it was asked    *)
(* for.                                                                    *)
(***************************************************************************)
EXTENDS TokenBucket, Sequences, FiniteSets

CONSTANTS
  Challenge,
  Claim,      \* the instance id a challenge is asked for with
  Instance,   \* tenant instance ids
  Req,        \* proofs and publishes that run at a time
  Conns,      \* connections of the pool
  Nil         \* no instance id; no request

ASSUME AdmissionAssumption ==
  /\ Conns \in Nat \ {0} /\ IsFiniteSet(Req)
  /\ Claim \in [Challenge -> Instance \cup {Nil}]
  /\ Nil \notin Instance \cup Req \cup Challenge

VARIABLES
  admitted,   \* principal_is_admitted
  challenge,  \* none, open, or gone: consumed, expired or cleaned up
  lock,       \* the proof that holds the row of a challenge
  instance,   \* gateway_principal_instances: the last id,
  history,    \* history_unavailable,
  writer,     \* and the proof that holds the row
  sessions,   \* the challenges that made sessions, in order, and the answers
  live,       \* a session has not run out
  free,       \* connections no one holds
  pc, of      \* where a request is, and its challenge

rows == <<challenge, lock, instance, history, writer, sessions, live>>
vars == <<admitted, rows, free, pc, of, bucket>>

Waiting == {"begin", "read", "session", "member", "fence", "token"}
Holding == {"select", "read", "instance", "commit", "token", "publish"}

Session == [challenge : Challenge, history : BOOLEAN]

(***************************************************************************)
(* The types, and: a connection is free or held by a request that runs.    *)
(***************************************************************************)
TypeOK ==
  /\ BucketTypeOK
  /\ admitted \in BOOLEAN
  /\ challenge \in [Challenge -> {"none", "open", "gone"}]
  /\ lock \in [Challenge -> Req \cup {Nil}]
  /\ instance \in Instance \cup {Nil} /\ history \in BOOLEAN
  /\ writer \in Req \cup {Nil}
  /\ sessions \in Seq(Session) /\ live \in BOOLEAN
  /\ pc \in [Req -> {"idle"} \cup Waiting \cup Holding]
  /\ of \in [Req -> Challenge \cup {Nil}]
  /\ free = Conns - Cardinality({r \in Req : pc[r] \in Holding})

Init ==
  /\ BucketInit
  /\ admitted = TRUE
  /\ challenge = [c \in Challenge |-> "none"]
  /\ lock = [c \in Challenge |-> Nil]
  /\ instance = Nil /\ history = FALSE /\ writer = Nil
  /\ sessions = <<>> /\ live = FALSE
  /\ free = Conns
  /\ pc = [r \in Req |-> "idle"]
  /\ of = [r \in Req |-> Nil]

-----------------------------------------------------------------------------
(* What others do: the membership changes, time passes.                    *)

Turn ==
  /\ admitted' = ~admitted
  /\ UNCHANGED <<rows, free, pc, of, bucket>>

\* A challenge runs out; cleanup_expired_metadata deletes it when no proof
\* holds its row, and a proof that read it before goes on.
ChallengeExpires(c) ==
  /\ challenge[c] = "open" /\ lock[c] = Nil
  /\ challenge' = [challenge EXCEPT ![c] = "gone"]
  /\ UNCHANGED <<admitted, lock, instance, history, writer, sessions, live, free, pc, of, bucket>>

SessionsExpire ==
  /\ live /\ live' = FALSE
  /\ UNCHANGED <<admitted, challenge, lock, instance, history, writer, sessions, free, pc, of, bucket>>

\* create_challenge
Ask(c) ==
  /\ challenge[c] = "none" /\ admitted /\ free > 0
  /\ challenge' = [challenge EXCEPT ![c] = "open"]
  /\ UNCHANGED <<admitted, lock, instance, history, writer, sessions, live, free, pc, of, bucket>>

-----------------------------------------------------------------------------
(* prove_session                                                           *)

Step(r, from, to) == pc[r] = from /\ pc' = [pc EXCEPT ![r] = to]

Prove(r, c) ==
  /\ challenge[c] # "none" /\ Step(r, "idle", "begin")
  /\ of' = [of EXCEPT ![r] = c]
  /\ UNCHANGED <<admitted, rows, free, bucket>>

Begin(r) ==
  /\ free > 0 /\ Step(r, "begin", "select")
  /\ free' = free - 1
  /\ UNCHANGED <<admitted, rows, of, bucket>>

\* Mutant: the challenge is read without "for update".
SelectUnlocked(r) ==
  /\ Step(r, "select", "read") /\ challenge[of[r]] = "open"
  /\ UNCHANGED <<admitted, rows, free, of, bucket>>

\* select .. where consumed_at is null for update
Select(r) ==
  /\ Step(r, "select", "read") /\ challenge[of[r]] = "open" /\ lock[of[r]] = Nil
  /\ lock' = [lock EXCEPT ![of[r]] = r]
  /\ UNCHANGED <<admitted, challenge, instance, history, writer, sessions, live, free, of, bucket>>

\* principal_is_admitted, over a connection of its own
Read(r) ==
  /\ free > 0 /\ admitted /\ Step(r, "read", "instance")
  /\ UNCHANGED <<admitted, rows, free, of, bucket>>

\* Mutant: the flag says whether the last id has changed.
ChangedNow(i) == instance \notin {Nil, i}

\* The flag that register_principal_instance returns: once set, it stays.
Changed(i) == history \/ instance \notin {Nil, i}

\* register_principal_instance locks the row to the end of the transaction.
Register(r) ==
  LET i == Claim[of[r]]
  IN  /\ Step(r, "instance", "commit")
      /\ i = Nil \/ writer = Nil
      /\ IF i = Nil THEN UNCHANGED writer ELSE writer' = r
      /\ UNCHANGED <<admitted, challenge, lock, instance, history, sessions, live, free, of, bucket>>

\* Mutant: the connection of a request that ends early is not returned.
EndHolding(r) ==
  /\ pc' = [pc EXCEPT ![r] = "idle"]
  /\ of' = [of EXCEPT ![r] = Nil]
  /\ lock' = [c \in Challenge |-> IF lock[c] = r THEN Nil ELSE lock[c]]
  /\ writer' = IF writer = r THEN Nil ELSE writer
  /\ free' = IF pc[r] \in {"commit", "publish"} THEN free + 1 ELSE free

\* The request ends: locks and connection go back.
End(r) ==
  /\ pc' = [pc EXCEPT ![r] = "idle"]
  /\ of' = [of EXCEPT ![r] = Nil]
  /\ lock' = [c \in Challenge |-> IF lock[c] = r THEN Nil ELSE lock[c]]
  /\ writer' = IF writer = r THEN Nil ELSE writer
  /\ free' = IF pc[r] \in Holding THEN free + 1 ELSE free

\* The challenge is consumed, the session and the id are written.
Commit(r) ==
  LET c == of[r]
      i == Claim[c]
      unavailable == i # Nil /\ Changed(i)
  IN  /\ pc[r] = "commit" /\ End(r)
      /\ challenge' = [challenge EXCEPT ![c] = "gone"]
      /\ sessions' = Append(sessions, [challenge |-> c, history |-> unavailable])
      /\ live' = TRUE
      /\ IF i = Nil THEN UNCHANGED <<instance, history>>
         ELSE instance' = i /\ history' = unavailable
      /\ UNCHANGED <<admitted, bucket>>

-----------------------------------------------------------------------------
(* publish, to the Global scope                                            *)

Publish(r) ==
  /\ sessions # <<>> /\ Step(r, "idle", "session")
  /\ UNCHANGED <<admitted, rows, free, of, bucket>>

\* verify_bearer: the session, then the admission of its principal
Verify(r) ==
  /\ free > 0 /\ live
  /\ Step(r, "session", "member")
  /\ UNCHANGED <<admitted, rows, free, of, bucket>>

Member(r) ==
  /\ free > 0 /\ admitted /\ Step(r, "member", "fence")
  /\ UNCHANGED <<admitted, rows, free, of, bucket>>

\* begin_scope_fence
Fence(r) ==
  /\ free > 0 /\ Step(r, "fence", "token")
  /\ free' = free - 1
  /\ UNCHANGED <<admitted, rows, of, bucket>>

\* acquire_global_token, over a connection of its own
Token(r) ==
  \E class \in Class, e \in Elapsed :
    /\ free > 0 /\ Allowed(class, e) /\ Step(r, "token", "publish")
    /\ Acquire(class, e)
    /\ UNCHANGED <<admitted, rows, free, of>>

\* The record is routed and the fence committed.
Published(r) ==
  /\ pc[r] = "publish" /\ End(r)
  /\ UNCHANGED <<admitted, challenge, instance, history, sessions, live, bucket>>

-----------------------------------------------------------------------------

\* A check fails, a query fails or the client goes away: the transaction is
\* rolled back.
Fail(r) ==
  /\ pc[r] # "idle" /\ End(r)
  /\ UNCHANGED <<admitted, challenge, instance, history, sessions, live, bucket>>

\* Backpressure: there is no token, and the bucket is written back.
NoToken(r) ==
  \E class \in Class, e \in Elapsed :
    /\ pc[r] = "token" /\ free > 0 /\ ~Allowed(class, e) /\ End(r)
    /\ Acquire(class, e)
    /\ UNCHANGED <<admitted, challenge, instance, history, sessions, live>>

Run(r) ==
  \/ Begin(r) \/ Select(r) \/ Read(r) \/ Register(r) \/ Commit(r)
  \/ Verify(r) \/ Member(r) \/ Fence(r) \/ Token(r) \/ Published(r) \/ NoToken(r)

Next ==
  \/ Turn
  \/ \E c \in Challenge : Ask(c) \/ ChallengeExpires(c)
  \/ SessionsExpire
  \/ \E r \in Req : \/ \E c \in Challenge : Prove(r, c)
                    \/ Publish(r) \/ Run(r) \/ Fail(r)

Spec == Init /\ [][Next]_vars

\* Mutant: a request waits for a connection as long as it takes.
WaitsForever(r) == FALSE

\* The pool's acquire_timeout, which connect leaves at its default.
TimesOut(r) == pc[r] \in Waiting /\ free = 0

\* Where the code returns an error of its own accord.
Refused(r) ==
  \/ TimesOut(r)
  \/ pc[r] = "select" /\ challenge[of[r]] # "open"
  \/ pc[r] \in {"read", "member"} /\ ~admitted /\ free > 0
  \/ pc[r] = "session" /\ ~live

(***************************************************************************)
(* A request goes on or is refused; row locks are granted in turn.         *)
(***************************************************************************)
Fairness == \A r \in Req : SF_vars(Run(r) \/ (Refused(r) /\ Fail(r)))

FairSpec == Spec /\ Fairness

-----------------------------------------------------------------------------
(* Properties.                                                             *)

(***************************************************************************)
(* A challenge is good for one session, though several proofs of it run    *)
(* at a time and it may run out or be cleaned up meanwhile.                *)
(***************************************************************************)
OneSessionPerChallenge ==
  \A i, j \in DOMAIN sessions : sessions[i].challenge = sessions[j].challenge => i = j

\* The instance id the i-th session was proved with.
Id(i) == Claim[sessions[i].challenge]

(***************************************************************************)
(* prove_session answers history_unavailable exactly when the principal    *)
(* has shown another instance id, in any session up to this one: a changed *)
(* id durably returns it.                                                  *)
(***************************************************************************)
HistoryIsDurable ==
  \A j \in DOMAIN sessions :
    sessions[j].history <=>
      Id(j) # Nil /\ \E i \in 1 .. j : Id(i) \notin {Nil, Id(j)}

(***************************************************************************)
(* Every proof and publish ends, though each may hold a connection while   *)
(* it waits for another and none is free.                                  *)
(***************************************************************************)
RequestsEnd == \A r \in Req : pc[r] # "idle" ~> pc[r] = "idle"
=============================================================================
