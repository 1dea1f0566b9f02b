--------------------------- MODULE ScopeMembership ---------------------------
(***************************************************************************)
(* Who belongs to a scope, and who receives what is published to it.       *)
(*                                                                         *)
(* A publish or a grant is a request that runs in one PostgreSQL           *)
(* transaction, the scope fence: exclusive if it changes the membership,   *)
(* shared otherwise.  The broker routes a record by its route and the      *)
(* version of the membership, the id of the frame that made it.  Members   *)
(* are bound in the broker before the transaction commits, so a request    *)
(* that fails leaves its bindings behind, and old bindings are kept.       *)
(*                                                                         *)
(* Only the steps other requests can observe are actions; any error, limit *)
(* or lost process is Fail, which rolls the transaction back.  Direct      *)
(* (Node) routes are not modelled here.                                    *)
(***************************************************************************)
EXTENDS Naturals, FiniteSets

CONSTANTS
  Principal,
  Genesis,        \* the configured genesis principal
  Scope, Global,
  Route,          \* route addresses
  World,          \* frames the clients may hold, with the faults beside them
  Req,            \* requests that run at a time
  MaxRecipients,  \* max_fanout_recipients, max_active_tenants
  Seed,           \* the version written by seed_trusted_network_genesis
  Nil

Frame == UNION {w.frames : w \in World}
Id == {f.id : f \in Frame}
Kind == {"snapshot", "join", "leave", "data", "grant"}
Mutating == Kind \ {"data"}

ASSUME FrameAssumption ==
  /\ \A w \in World : w.perishable \subseteq w.frames /\ w.severable \subseteq Req
  /\ Genesis \in Principal /\ Global \in Scope /\ MaxRecipients \in Nat
  /\ Nil \notin Id /\ Nil \notin Frame /\ Seed \notin Id \cup {Nil}
  /\ \A f \in Frame :
       /\ f.kind \in Kind /\ f.author \in Principal /\ f.scope \in Scope
       /\ f.route \in Route /\ f.members \subseteq Principal
       /\ f.finalizers \subseteq f.members /\ f.signers \subseteq Principal
       /\ f.quorum \in Nat
       /\ f.kind \in {"snapshot", "grant"} => f.scope = Global
       /\ f.kind \in {"join", "leave"} => f.scope # Global
  \* two frames with one id carry the same mutation, if any
  /\ \A f, h \in Frame : f.id = h.id /\ f.kind \in Mutating => f = h

VARIABLES
  \* PostgreSQL, committed
  member,     \* active rows of gateway_scope_memberships
  finalizer,  \* the active global members with the Finalizer role
  version,    \* active_membership_version
  rows,       \* gateway_scope_route_bindings: routes and principals
  grant,      \* gateway_network_membership_grants
  receipt,    \* unexpired confirmed receipts
  lapsed,     \* grants that have expired
  \* the broker
  bound,      \* bindings: route, version, principal
  routed,     \* what was routed, to whom, and who the members were
  \* requests
  pc, frame,
  want,       \* the members the request will leave, or publishes to
  routes,     \* the routes a mutation binds
  stamp,      \* the version it publishes under
  severed,    \* requests that have lost the fence and do not know it
  left,       \* binding rows a reconciliation has still to insert
  \* the signed frames and grants clients present, those whose receipt or
  \* grant may expire, and the requests whose fence connection may be lost
  world

dbVars  == <<member, finalizer, version, rows, grant, receipt, lapsed>>
reqVars == <<pc, frame, want, routes, stamp, severed, world, left>>
vars == <<dbVars, bound, routed, reqVars>>

InFence == {"fenced", "bind", "reconcile", "delete", "insert", "route", "commit"}
Busy == InFence \cup {"authority", "lookup", "fence"}

TypeOK ==
  /\ member \in [Scope -> SUBSET Principal]
  /\ finalizer \subseteq Principal
  /\ version \in [Scope -> Id \cup {Seed, Nil}]
  /\ rows \in [Scope -> SUBSET (Route \X Principal)]
  /\ grant \in [Principal -> Id \cup {Nil}]
  /\ receipt \subseteq [frame : Frame, version : Id \cup {Seed, Nil}]
  /\ lapsed \subseteq Id
  /\ bound \subseteq Route \X (Id \cup {Seed, Nil}) \X Principal
  /\ routed \subseteq [frame : Frame, version : Id \cup {Seed, Nil},
                       to : SUBSET Principal, members : SUBSET Principal]
  /\ pc \in [Req -> Busy \cup {"idle"}]
  /\ frame \in [Req -> Frame \cup {Nil}]
  /\ want \in [Req -> SUBSET Principal]
  /\ routes \in [Req -> SUBSET Route]
  /\ stamp \in [Req -> Id \cup {Seed, Nil}]
  /\ severed \subseteq Req /\ world \in World
  /\ left \in [Req -> SUBSET Principal]
  /\ \A r \in Req : pc[r] = "idle" <=> frame[r] = Nil
  /\ \A r \in severed : pc[r] \in InFence

\* seed_trusted_network_genesis has run.
Init ==
  /\ member = [s \in Scope |-> IF s = Global THEN {Genesis} ELSE {}]
  /\ finalizer = {Genesis}
  /\ version = [s \in Scope |-> IF s = Global THEN Seed ELSE Nil]
  /\ rows = [s \in Scope |-> {}]
  /\ grant = [p \in Principal |-> Nil]
  /\ receipt = {} /\ lapsed = {}
  /\ bound = {} /\ routed = {}
  /\ pc = [r \in Req |-> "idle"]
  /\ frame = [r \in Req |-> Nil]
  /\ want = [r \in Req |-> {}]
  /\ routes = [r \in Req |-> {}]
  /\ stamp = [r \in Req |-> Nil]
  /\ severed = {} /\ world \in World
  /\ left = [r \in Req |-> {}]

-----------------------------------------------------------------------------
\* A principal without a grant row, or whose grant has not expired.
GrantLive(p) == grant[p] = Nil \/ grant[p] \notin lapsed

\* principal_is_admitted
Admitted(p) == p \in member[Global] /\ GrantLive(p)

\* The members that authorized_scope_version_and_count counts.
Counted(s) == {p \in member[s] : GrantLive(p)}

Step(r, from, to) == pc[r] = from /\ pc' = [pc EXCEPT ![r] = to]

\* Mutant: a broken connection goes back to the pool.
FinishStale(r) ==
  /\ pc' = [pc EXCEPT ![r] = "idle"]
  /\ frame' = [frame EXCEPT ![r] = Nil]
  /\ want' = [want EXCEPT ![r] = {}]
  /\ routes' = [routes EXCEPT ![r] = {}]
  /\ stamp' = [stamp EXCEPT ![r] = Nil]
  /\ left' = [left EXCEPT ![r] = {}]
  /\ UNCHANGED <<severed, world>>

\* The response leaves, or the request ends otherwise: the fence is released.
Finish(r) ==
  /\ pc' = [pc EXCEPT ![r] = "idle"]
  /\ frame' = [frame EXCEPT ![r] = Nil]
  /\ want' = [want EXCEPT ![r] = {}]
  /\ routes' = [routes EXCEPT ![r] = {}]
  /\ stamp' = [stamp EXCEPT ![r] = Nil]
  /\ severed' = severed \ {r}
  /\ left' = [left EXCEPT ![r] = {}]
  /\ UNCHANGED world

\* verify_bearer for a publish; validate_network_membership_grant_for_admission
\* for a grant, which needs no session.
Arrive(r, f) ==
  /\ IF f.kind = "grant" THEN f.id \notin lapsed ELSE Admitted(f.author)
  /\ Step(r, "idle", IF f.kind = "grant" THEN "fence"
                     ELSE IF f.kind = "snapshot" THEN "authority" ELSE "lookup")
  /\ frame' = [frame EXCEPT ![r] = f]
  /\ UNCHANGED <<dbVars, bound, routed, want, routes, stamp, severed, world, left>>

\* validate_membership_snapshot_authority
Authorised(f) ==
  LET allowed == IF f.author = Genesis THEN {Genesis} ELSE finalizer
  IN  /\ f.author = Genesis \/ f.author \in finalizer
      /\ f.quorum > 0
      /\ Cardinality(f.signers \cap allowed) >= f.quorum

CheckAuthority(r) ==
  /\ pc[r] = "authority" /\ Authorised(frame[r])
  /\ Step(r, "authority", "lookup")
  /\ UNCHANGED <<dbVars, bound, routed, frame, want, routes, stamp, severed, world, left>>

\* Frames that share the idempotency key.
SameKey(f, h) == f.author = h.author /\ f.id = h.id

\* load_confirmed_receipt: an identical record is accepted again, a changed
\* one refused (Fail), and a new one goes on.
LookupHit(r) ==
  /\ pc[r] = "lookup" /\ Finish(r)
  /\ \E x \in receipt : x.frame = frame[r]
  /\ UNCHANGED <<dbVars, bound, routed>>

LookupMiss(r) ==
  /\ Step(r, "lookup", "fence")
  /\ ~ \E x \in receipt : SameKey(x.frame, frame[r])
  /\ UNCHANGED <<dbVars, bound, routed, frame, want, routes, stamp, severed, world, left>>

-----------------------------------------------------------------------------
(* The scope fence.                                                        *)

\* Mutant: every publish takes the fence shared.
FreeOfAnyone(r) == TRUE

\* The advisory lock is compatible with those other requests hold.
FenceFree(r) ==
  \A q \in Req \ (severed \cup {r}) :
    pc[q] \in InFence /\ frame[q].scope = frame[r].scope
      => frame[q].kind = "data" /\ frame[r].kind = "data"

TakeFence(r) ==
  /\ pc[r] = "fence" /\ FenceFree(r)
  /\ Step(r, "fence", "fenced")
  /\ UNCHANGED <<dbVars, bound, routed, frame, want, routes, stamp, severed, world, left>>

\* A grant for a principal that is already an active member.
GrantKnown(r) ==
  LET f == frame[r]
  IN  /\ pc[r] = "fenced" /\ f.kind = "grant" /\ r \notin severed
      /\ f.author \in member[Global] /\ f.id \notin lapsed
      /\ grant' = [grant EXCEPT ![f.author] = f.id]
      /\ Finish(r)
      /\ UNCHANGED <<member, finalizer, version, rows, receipt, lapsed, bound,
                     routed>>

\* authorized_scope_version_and_count: a subscriber may author its own join.
AuthorAllowed(f) ==
  \/ f.author \in Counted(f.scope)
  \/ f.kind = "join" /\ Admitted(f.author)
  \/ f.kind = "grant"

Desired(f) ==
  IF f.kind = "snapshot" THEN f.members
  ELSE (member[f.scope] \ (IF f.kind = "leave" THEN {f.author} ELSE {}))
         \cup (IF f.kind \in {"join", "grant"} THEN {f.author} ELSE {})

\* The routes to bind: those with rows and, for a publish, its own.
KnownRoutes(f) ==
  {x[1] : x \in rows[f.scope]} \cup (IF f.kind = "grant" THEN {} ELSE {f.route})

Authorize(r) ==
  LET f == frame[r]
  IN  /\ pc[r] = "fenced" /\ AuthorAllowed(f)
      /\ f.kind = "grant" => f.author \notin member[Global] \/ f.id \in lapsed
      /\ f.kind = "data" => Cardinality(Counted(f.scope)) \in 1 .. MaxRecipients
      /\ Step(r, "fenced", IF f.kind = "data" THEN "reconcile" ELSE "bind")
      /\ f.kind # "data" => r \notin severed
      /\ want' = [want EXCEPT ![r] = Desired(f)]
      /\ routes' = [routes EXCEPT ![r] = IF f.kind = "data" THEN {}
                                         ELSE KnownRoutes(f)]
      /\ stamp' = [stamp EXCEPT ![r] = IF f.kind = "data" THEN version[f.scope]
                                                         ELSE f.id]
      /\ UNCHANGED <<dbVars, bound, routed, frame, severed, world, left>>

-----------------------------------------------------------------------------
(* apply_membership_mutation, up to its bindings.                          *)

NewBindings(r) == routes[r] \X {frame[r].id} \X want[r]

\* Mutant: only the principals that are new to the scope are bound.
BindNewcomers(r) ==
  /\ pc[r] = "bind" /\ Cardinality(want[r]) \in 1 .. MaxRecipients
  /\ Step(r, "bind", IF frame[r].kind = "grant" THEN "commit" ELSE "route")
  /\ bound' = bound \cup routes[r] \X {frame[r].id}
                           \X (want[r] \ member[frame[r].scope])
  /\ UNCHANGED <<dbVars, routed, frame, want, routes, stamp, severed, world, left>>

Bind(r) ==
  /\ r \notin severed
  /\ pc[r] = "bind" /\ Cardinality(want[r]) \in 1 .. MaxRecipients
  /\ Step(r, "bind", IF frame[r].kind = "grant" THEN "commit" ELSE "route")
  /\ bound' = bound \cup NewBindings(r)
  /\ UNCHANGED <<dbVars, routed, frame, want, routes, stamp, severed, world, left>>

\* The broker, a limit or the process fails when some members are bound.  The
\* tenant limit is checked before the first.
BindFails(r) ==
  /\ pc[r] = "bind" /\ Finish(r)
  /\ frame[r].scope = Global => Cardinality(want[r]) <= MaxRecipients
  /\ \E S \in SUBSET NewBindings(r) : bound' = bound \cup S
  /\ UNCHANGED <<dbVars, routed>>

-----------------------------------------------------------------------------
(* reconcile_scope_bindings, under the shared fence and outside of its     *)
(* transaction.                                                            *)

\* The bindings of principals P for the route of f, at the active version.
At(f, P) == {f.route} \X {version[f.scope]} \X P

\* The principals that have rows and are not members.
Removed(f) ==
  {p \in Principal : <<f.route, p>> \in rows[f.scope]} \ member[f.scope]

Reconcile(r) ==
  LET f == frame[r]
  IN  /\ Step(r, "reconcile", "delete")
      /\ bound' = (bound \cup At(f, member[f.scope])) \ At(f, Removed(f))
      /\ left' = [left EXCEPT ![r] = member[f.scope]]
      /\ UNCHANGED <<dbVars, routed, frame, want, routes, stamp, severed, world>>

\* Members are bound first, then the others unbound, one at a time.
ReconcileFails(r) ==
  LET f == frame[r]
  IN  /\ pc[r] = "reconcile" /\ Finish(r)
      /\ \/ \E P \in SUBSET member[f.scope] : bound' = bound \cup At(f, P)
         \/ \E P \in SUBSET Removed(f) :
               bound' = (bound \cup At(f, member[f.scope])) \ At(f, P)
      /\ UNCHANGED <<dbVars, routed>>

DeleteRows(r) ==
  /\ Step(r, "delete", "insert")
  /\ rows' = [rows EXCEPT ![frame[r].scope] = {x \in @ : x[1] # frame[r].route}]
  /\ UNCHANGED <<member, finalizer, version, grant, receipt, lapsed, bound,
                 routed, frame, want, routes, stamp, severed, world, left>>

\* One INSERT; a row another reconciliation has just inserted is an error.
InsertRow(r, p) ==
  LET s == frame[r].scope
      x == <<frame[r].route, p>>
  IN  /\ pc[r] = "insert" /\ p \in left[r] /\ x \notin rows[s]
      /\ rows' = [rows EXCEPT ![s] = @ \cup {x}]
      /\ left' = [left EXCEPT ![r] = @ \ {p}]
      /\ pc' = [pc EXCEPT ![r] = IF left[r] = {p} THEN "route" ELSE "insert"]
      /\ UNCHANGED <<member, finalizer, version, grant, receipt, lapsed, bound,
                     routed, frame, want, routes, stamp, severed, world>>

-----------------------------------------------------------------------------
(* RabbitAdapter::publish and the end of the transaction.                  *)

Recipients(r) == {p \in Principal : <<frame[r].route, stamp[r], p>> \in bound}

Record(r) == [frame |-> frame[r], version |-> stamp[r], to |-> Recipients(r),
              members |-> want[r]]

\* Mutant: an unconfirmed publish is taken for a confirmed one.
RouteUnconfirmed(r) ==
  /\ Step(r, "route", "commit")
  /\ UNCHANGED <<dbVars, bound, routed, frame, want, routes, stamp, severed, world, left>>

\* A mandatory publish with no binding is returned, which is an error.
RouteRecord(r) ==
  /\ Step(r, "route", "commit")
  /\ Recipients(r) # {}
  /\ routed' = routed \cup {Record(r)}
  /\ UNCHANGED <<dbVars, bound, frame, want, routes, stamp, severed, world, left>>

\* The confirm is late: the record is routed and the request fails.
RouteTimesOut(r) ==
  /\ pc[r] = "route" /\ Finish(r)
  /\ routed' = routed \cup {Record(r)}
  /\ UNCHANGED <<dbVars, bound>>

\* INSERT ... ON CONFLICT DO UPDATE WHERE expired: a live receipt stays.
Receipts(r) ==
  IF frame[r].kind = "grant" \/ \E x \in receipt : SameKey(x.frame, frame[r])
  THEN receipt
  ELSE receipt \cup {[frame |-> frame[r], version |-> stamp[r]]}

\* Mutant: the active version is left as it was.
NewVersionKept(f) == version

NewVersion(f) == [version EXCEPT ![f.scope] = f.id]

\* The mutation becomes visible.  A Principal mutation writes empty roles.
ApplyMutation(r) ==
  LET f == frame[r]
  IN  /\ member' = [member EXCEPT ![f.scope] = want[r]]
      /\ finalizer' = IF f.kind = "snapshot" THEN f.finalizers
                      ELSE IF f.kind = "grant" THEN {} ELSE finalizer
      /\ version' = NewVersion(f)
      /\ rows' = [rows EXCEPT ![f.scope] = routes[r] \X want[r]]
      /\ grant' = IF f.kind = "grant" THEN [grant EXCEPT ![f.author] = f.id]
                                      ELSE grant

\* Mutant: the receipt is written outside of the fence's transaction.
CommitOnPool(r) ==
  /\ pc[r] = "commit" /\ Finish(r)
  /\ IF frame[r].kind = "data"
     THEN UNCHANGED <<member, finalizer, version, rows, grant>>
     ELSE ApplyMutation(r)
  /\ receipt' = Receipts(r)
  /\ UNCHANGED <<lapsed, bound, routed>>

\* The receipt, the audit row and the mutation commit together.
Commit(r) ==
  /\ pc[r] = "commit" /\ r \notin severed /\ Finish(r)
  /\ IF frame[r].kind = "data"
     THEN UNCHANGED <<member, finalizer, version, rows, grant>>
     ELSE ApplyMutation(r)
  /\ receipt' = Receipts(r)
  /\ UNCHANGED <<lapsed, bound, routed>>

\* The connection that holds the advisory lock is lost.  The reads and
\* bindings that follow use others, so only the next statement in the
\* transaction, at the latest its commit, fails.
Sever(r) ==
  /\ r \in world.severable \ severed /\ pc[r] \in InFence
  /\ severed' = severed \cup {r}
  /\ UNCHANGED <<dbVars, bound, routed, pc, frame, want, routes, stamp, left, world>>

\* Any error, refused limit, timeout or lost process: rolled back.
Fail(r) ==
  /\ pc[r] \in Busy /\ Finish(r)
  /\ UNCHANGED <<dbVars, bound, routed>>

-----------------------------------------------------------------------------
ReceiptExpires ==
  /\ \E x \in receipt : x.frame \in world.perishable /\ receipt' = receipt \ {x}
  /\ UNCHANGED <<member, finalizer, version, rows, grant, lapsed, bound, routed,
                 reqVars>>

GrantExpires(f) ==
  /\ f.kind = "grant" /\ f \in world.perishable /\ f.id \notin lapsed
  /\ lapsed' = lapsed \cup {f.id}
  /\ UNCHANGED <<member, finalizer, version, rows, grant, receipt, bound, routed,
                 reqVars>>

Next ==
  \/ ReceiptExpires
  \/ \E f \in world.frames : GrantExpires(f)
  \/ \E r \in Req :
       \/ \E f \in world.frames : Arrive(r, f)
       \/ CheckAuthority(r) \/ LookupHit(r) \/ LookupMiss(r) \/ TakeFence(r)
       \/ GrantKnown(r) \/ Authorize(r) \/ Bind(r) \/ BindFails(r)
       \/ Reconcile(r) \/ ReconcileFails(r) \/ DeleteRows(r) \/ \E p \in Principal : InsertRow(r, p)
       \/ RouteRecord(r) \/ RouteTimesOut(r) \/ Commit(r) \/ Sever(r) \/ Fail(r)

Spec == Init /\ [][Next]_vars

-----------------------------------------------------------------------------
(* Correctness.                                                            *)

\* No connection that holds a fence is lost.
FencesHold == world.severable = {}

\* A record reaches every member: whatever requests run beside it, all the
\* members under whose version publish stamped it are bound when it is routed,
\* if fences are not lost.
FanoutReachesMembers == FencesHold => \A e \in routed : e.members \subseteq e.to

\* Contract test: a "removed member must not receive the removal version or
\* later records".  A snapshot names its members, so what publish routes under
\* its version reaches members only, also when the snapshot was tried before
\* and has left bindings.  (A join that is tried again names other members.)
StrangersExcluded ==
  FencesHold => \A e \in routed :
             (\A f \in Frame : f.id = e.version => f.kind = "snapshot")
               => e.to \subseteq e.members

\* A membership that publish made active was announced: the frame that made
\* it was routed to every one of its members before it took effect.
AppliedIsAnnounced ==
  \A s \in Scope :
    (\E f \in Frame : f.id = version[s] /\ f.kind # "grant")
      => \E e \in routed : e.frame.id = version[s] /\ member[s] \subseteq e.to

\* A receipt, which makes later retries skip the broker, exists only for a
\* record that was routed, under the receipt's version, to every member of it:
\* also when a request has lost its fence and does not know.
ReceiptMeansRouted ==
  \A x \in receipt :
    \E e \in routed : /\ e.frame = x.frame /\ e.version = x.version
                     /\ e.members \subseteq e.to

\* Binding rows name only current members, so a reconciliation never unbinds
\* one, whatever crashed or ran beside it, if fences are not lost.
RowsNameMembers == FencesHold => \A s \in Scope : \A x \in rows[s] : x[2] \in member[s]

=============================================================================
