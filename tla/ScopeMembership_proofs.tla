------------------------ MODULE ScopeMembership_proofs ------------------------
(***************************************************************************)
(* Who receives what is published to a scope, for any principals, scopes,  *)
(* frames, requests and limits.                                            *)
(*                                                                         *)
(* The argument is about requests that have not lost their fence.  Such a  *)
(* request works on the membership it has read (Current): a mutation of its*)
(* scope would have needed the fence for itself (Fenced).  Its bindings    *)
(* stay, because a reconciliation beside it unbinds only principals that   *)
(* are not members of the active version (Placed).  What holds of every    *)
(* request, also of one that has lost its fence, is what it decided when it*)
(* was authorised (Decides), and that makes bindings of a snapshot's       *)
(* version name its members (BoundFits).                                   *)
(***************************************************************************)
EXTENDS ScopeMembership, TLAPS

\* After Authorize.
Decided == {"bind", "reconcile", "delete", "insert", "route", "commit"}

\* The members P are such as f leaves behind.
Leaves(f, P) ==
  /\ f.kind = "snapshot" => P = f.members
  /\ f.kind \in {"join", "grant"} => f.author \in P
  /\ f.kind = "leave" => f.author \notin P

\* Active versions belong to their scope and agree with its members.
Placed ==
  \A s \in Scope :
    /\ version[s] = Nil => member[s] = {}
    /\ version[s] = Seed => s = Global /\ member[s] = {Genesis}
    /\ \A f \in Frame : f.id = version[s] =>
         f.kind \in Mutating /\ f.scope = s /\ Leaves(f, member[s])

\* Version v names p among its members, if it names members; P has all the
\* members it names.
Names(v, p) ==
  /\ v # Nil
  /\ v = Seed => p = Genesis
  /\ \A f \in Frame : f.id = v /\ f.kind = "snapshot" => p \in f.members
Covers(v, P) ==
  /\ v = Seed => Genesis \in P
  /\ \A f \in Frame : f.id = v /\ f.kind = "snapshot" => f.members \subseteq P

Decides(r) ==
  pc[r] \in Decided =>
    /\ pc[r] \in {"reconcile", "delete", "insert"} => frame[r].kind = "data"
    /\ pc[r] = "bind" => frame[r].kind # "data"
    /\ pc[r] = "route" => frame[r].kind # "grant"
    /\ Covers(stamp[r], want[r])
    /\ frame[r].kind # "data" =>
         /\ stamp[r] = frame[r].id /\ Leaves(frame[r], want[r])
         /\ frame[r].kind # "grant" => frame[r].route \in routes[r]

IsBound(r) == \A p \in want[r] : <<frame[r].route, stamp[r], p>> \in bound

Announced(r) ==
  \E e \in routed : /\ e.frame = frame[r] /\ e.version = stamp[r]
                    /\ e.members = want[r] /\ want[r] \subseteq e.to

Current(r) ==
  r \notin severed /\ pc[r] \in Decided =>
    /\ want[r] = Desired(frame[r])
    /\ frame[r].kind = "data" => stamp[r] = version[frame[r].scope]
    /\ pc[r] \in {"delete", "insert", "route"} => IsBound(r)
    /\ pc[r] \in {"delete", "insert"} => left[r] \subseteq want[r]
    /\ pc[r] = "commit" /\ frame[r].kind # "grant" => Announced(r)

Requests == \A r \in Req : Decides(r) /\ Current(r)

Fenced ==
  \A r, q \in Req \ severed :
    /\ r # q /\ pc[r] \in InFence /\ pc[q] \in InFence
    /\ frame[r].scope = frame[q].scope
    => frame[r].kind = "data"

BoundFits == \A x \in bound : Names(x[2], x[3])

\* StrangersExcluded, also when fences are lost.
RoutedFits ==
  \A e \in routed :
    (\A f \in Frame : f.id = e.version => f.kind = "snapshot") => e.to \subseteq e.members

Inv ==
  /\ TypeOK /\ severed \subseteq world.severable
  /\ Placed /\ Requests /\ Fenced
  /\ BoundFits /\ RoutedFits
  /\ FanoutReachesMembers /\ RowsNameMembers
  /\ AppliedIsAnnounced /\ ReceiptMeansRouted

-----------------------------------------------------------------------------
(* Types.                                                                  *)

Version == Id \cup {Seed, Nil}

DbTypes ==
  /\ member \in [Scope -> SUBSET Principal]
  /\ finalizer \subseteq Principal
  /\ version \in [Scope -> Version]
  /\ rows \in [Scope -> SUBSET (Route \X Principal)]
  /\ grant \in [Principal -> Id \cup {Nil}]
  /\ receipt \subseteq [frame : Frame, version : Version]
  /\ lapsed \subseteq Id
  /\ bound \subseteq Route \X Version \X Principal
  /\ routed \subseteq [frame : Frame, version : Version,
                       to : SUBSET Principal, members : SUBSET Principal]

ReqTypes ==
  /\ pc \in [Req -> Busy \cup {"idle"}]
  /\ frame \in [Req -> Frame \cup {Nil}]
  /\ want \in [Req -> SUBSET Principal]
  /\ routes \in [Req -> SUBSET Route]
  /\ stamp \in [Req -> Version]
  /\ severed \subseteq Req /\ world \in World
  /\ left \in [Req -> SUBSET Principal]
  /\ \A r \in Req : pc[r] = "idle" <=> frame[r] = Nil
  /\ \A r \in severed : pc[r] \in InFence

(***************************************************************************)
(* The types are those of the database and broker and of the requests.     *)
(***************************************************************************)
LEMMA TypesSplit == TypeOK <=> DbTypes /\ ReqTypes
BY DEF TypeOK, DbTypes, ReqTypes, Version

(***************************************************************************)
(* What the frames of the clients are.                                     *)
(***************************************************************************)
LEMMA FrameFacts ==
  /\ Nil \notin Frame /\ Nil \notin Id /\ Seed \notin Id /\ Seed # Nil
  /\ Genesis \in Principal /\ Global \in Scope
  /\ \A f \in Frame : /\ f.kind \in Kind /\ f.author \in Principal /\ f.scope \in Scope
                      /\ f.route \in Route /\ f.members \subseteq Principal
                      /\ f.finalizers \subseteq f.members /\ f.id \in Id
                      /\ f.kind \in {"snapshot", "grant"} => f.scope = Global
  /\ \A f, h \in Frame : f.id = h.id /\ f.kind \in Mutating => f = h
<1>1. \A f \in Frame : f.id \in Id
  BY DEF Id
<1>2. Nil \notin Frame /\ Nil \notin Id /\ Seed \notin Id /\ Seed # Nil
      /\ Genesis \in Principal /\ Global \in Scope
  BY FrameAssumption, Zenon
<1>3. \A f \in Frame : /\ f.kind \in Kind /\ f.author \in Principal /\ f.scope \in Scope
                       /\ f.route \in Route /\ f.members \subseteq Principal
                       /\ f.finalizers \subseteq f.members
                       /\ f.kind \in {"snapshot", "grant"} => f.scope = Global
  BY FrameAssumption, Zenon
<1>4. \A f, h \in Frame : f.id = h.id /\ f.kind \in Mutating => f = h
  BY FrameAssumption, Zenon
<1> QED
  BY <1>1, <1>2, <1>3, <1>4

(***************************************************************************)
(* A request that has begun has a frame.                                   *)
(***************************************************************************)
LEMMA BusyHasFrame ==
  ASSUME ReqTypes, NEW r \in Req, pc[r] # "idle"
  PROVE  frame[r] \in Frame
BY DEF ReqTypes

(***************************************************************************)
(* A request that ends keeps the types.                                    *)
(***************************************************************************)
LEMMA FinishTypes ==
  ASSUME ReqTypes, NEW r \in Req, Finish(r)
  PROVE  ReqTypes'
<1>1. /\ pc' = [pc EXCEPT ![r] = "idle"] /\ frame' = [frame EXCEPT ![r] = Nil]
      /\ severed' = severed \ {r} /\ UNCHANGED world
  BY DEF Finish
<1>2. /\ want' \in [Req -> SUBSET Principal] /\ routes' \in [Req -> SUBSET Route]
      /\ stamp' \in [Req -> Version] /\ left' \in [Req -> SUBSET Principal]
  BY DEF Finish, ReqTypes, Version
<1>3. /\ pc' \in [Req -> Busy \cup {"idle"}] /\ frame' \in [Req -> Frame \cup {Nil}]
      /\ \A q \in Req : pc'[q] = "idle" <=> frame'[q] = Nil
      /\ \A q \in severed' : pc'[q] \in InFence
  BY <1>1 DEF ReqTypes
<1> QED
  BY <1>1, <1>2, <1>3 DEF ReqTypes

(***************************************************************************)
(* A request that goes on keeps the types if it stays in its fence.        *)
(***************************************************************************)
LEMMA StepTypes ==
  ASSUME ReqTypes, NEW r \in Req, NEW from \in Busy, NEW to \in Busy,
         Step(r, from, to), from \in InFence => to \in InFence,
         UNCHANGED <<frame, severed, world>>,
         want' \in [Req -> SUBSET Principal], routes' \in [Req -> SUBSET Route],
         stamp' \in [Req -> Version], left' \in [Req -> SUBSET Principal]
  PROVE  ReqTypes'
<1>1. "idle" \notin Busy
  BY DEF Busy, InFence
<1>2. pc[r] = from /\ pc' = [pc EXCEPT ![r] = to]
  BY DEF Step
<1>3. /\ pc' \in [Req -> Busy \cup {"idle"}]
      /\ \A q \in Req : pc'[q] = "idle" <=> frame'[q] = Nil
      /\ \A q \in severed' : pc'[q] \in InFence
  BY <1>1, <1>2 DEF ReqTypes
<1> QED
  BY <1>3 DEF ReqTypes

(***************************************************************************)
(* The members a request will leave, and the routes it binds, are of the   *)
(* right types.                                                            *)
(***************************************************************************)
LEMMA DesiredTypes ==
  ASSUME DbTypes, NEW f \in Frame
  PROVE  Desired(f) \subseteq Principal /\ KnownRoutes(f) \subseteq Route
<1>1. /\ f.author \in Principal /\ f.scope \in Scope /\ f.route \in Route
      /\ f.members \subseteq Principal
  BY FrameFacts
<1>2. member[f.scope] \subseteq Principal /\ rows[f.scope] \subseteq Route \X Principal
  BY <1>1 DEF DbTypes
<1> QED
  BY <1>1, <1>2 DEF Desired, KnownRoutes

(***************************************************************************)
(* Every step keeps the types of the requests.                             *)
(***************************************************************************)
LEMMA KeepsReqTypes ==
  ASSUME DbTypes, ReqTypes, [Next]_vars
  PROVE  ReqTypes'
<1>0. /\ want \in [Req -> SUBSET Principal] /\ routes \in [Req -> SUBSET Route]
      /\ stamp \in [Req -> Version] /\ left \in [Req -> SUBSET Principal]
  BY DEF ReqTypes
<1> USE DEF Busy, InFence
<1>1. ASSUME UNCHANGED reqVars PROVE ReqTypes'
  BY <1>1 DEF reqVars, ReqTypes
<1>2. CASE ReceiptExpires \/ (\E f \in world.frames : GrantExpires(f)) \/ UNCHANGED vars
  BY <1>1, <1>2 DEF ReceiptExpires, GrantExpires, vars
<1>3. ASSUME NEW r \in Req, NEW f \in world.frames, Arrive(r, f) PROVE ReqTypes'
  <2>1. f \in Frame /\ f # Nil
    BY <1>3, FrameFacts DEF ReqTypes, Frame
  <2>2. PICK to \in {"fence", "authority", "lookup"} :
          pc[r] = "idle" /\ pc' = [pc EXCEPT ![r] = to]
    BY <1>3, Zenon DEF Arrive, Step
  <2>3. frame' = [frame EXCEPT ![r] = f]
        /\ UNCHANGED <<want, routes, stamp, severed, world, left>>
    BY <1>3 DEF Arrive
  <2> QED
    BY <2>1, <2>2, <2>3 DEF ReqTypes
<1>4. ASSUME NEW r \in Req, CheckAuthority(r) \/ LookupMiss(r) \/ TakeFence(r)
      PROVE  ReqTypes'
  <2>1. UNCHANGED <<frame, want, routes, stamp, severed, world, left>>
    BY <1>4 DEF CheckAuthority, LookupMiss, TakeFence
  <2>2. Step(r, "authority", "lookup") \/ Step(r, "lookup", "fence")
        \/ Step(r, "fence", "fenced")
    BY <1>4 DEF CheckAuthority, LookupMiss, TakeFence
  <2> QED
    BY <1>0, <2>1, <2>2, StepTypes
<1>5. ASSUME NEW r \in Req,
             \/ LookupHit(r) \/ GrantKnown(r) \/ BindFails(r) \/ ReconcileFails(r)
             \/ RouteTimesOut(r) \/ Commit(r) \/ Fail(r)
      PROVE  ReqTypes'
  <2>1. Finish(r)
    BY <1>5, Zenon DEF LookupHit, GrantKnown, BindFails, ReconcileFails, RouteTimesOut,
       Commit, Fail
  <2> QED
    BY <2>1, FinishTypes
<1>6. ASSUME NEW r \in Req, Authorize(r) PROVE ReqTypes'
  <2> DEFINE f == frame[r]
             to == IF f.kind = "data" THEN "reconcile" ELSE "bind"
  <2>1. f \in Frame
    BY <1>6, BusyHasFrame DEF Authorize
  <2>2. Step(r, "fenced", to) /\ to \in Busy /\ to \in InFence
    BY <1>6 DEF Authorize
  <2>3. f.id \in Id /\ f.scope \in Scope
    BY <2>1, FrameFacts
  <2>4. version[f.scope] \in Version /\ f.id \in Version
    BY <2>3 DEF DbTypes, Version
  <2>5. want' \in [Req -> SUBSET Principal]
    BY <1>0, <1>6, <2>1, DesiredTypes DEF Authorize
  <2>6. routes' \in [Req -> SUBSET Route]
    BY <1>0, <1>6, <2>1, DesiredTypes DEF Authorize
  <2>7. stamp' \in [Req -> Version]
    BY <1>0, <1>6, <2>4 DEF Authorize
  <2>8. UNCHANGED <<frame, severed, world, left>>
    BY <1>6 DEF Authorize
  <2> QED
    BY <1>0, <2>2, <2>5, <2>6, <2>7, <2>8, StepTypes
<1>7. ASSUME NEW r \in Req, Bind(r) \/ DeleteRows(r) \/ RouteRecord(r) PROVE ReqTypes'
  <2>1. UNCHANGED <<frame, want, routes, stamp, severed, world, left>>
    BY <1>7 DEF Bind, DeleteRows, RouteRecord
  <2>2. Step(r, "bind", "commit") \/ Step(r, "bind", "route")
        \/ Step(r, "delete", "insert") \/ Step(r, "route", "commit")
    BY <1>7, Zenon DEF Bind, DeleteRows, RouteRecord
  <2> QED
    BY <1>0, <2>1, <2>2, StepTypes
<1>8. ASSUME NEW r \in Req, Reconcile(r) PROVE ReqTypes'
  <2>1. frame[r].scope \in Scope
    BY <1>8, BusyHasFrame, FrameFacts DEF Reconcile, Step
  <2>2. left' \in [Req -> SUBSET Principal]
    BY <1>0, <1>8, <2>1 DEF Reconcile, DbTypes
  <2> QED
    BY <1>0, <1>8, <2>2, StepTypes DEF Reconcile
<1>9. ASSUME NEW r \in Req, NEW p \in Principal, InsertRow(r, p) PROVE ReqTypes'
  <2>1. Step(r, "insert", "route") \/ Step(r, "insert", "insert")
    BY <1>9, Zenon DEF InsertRow, Step
  <2>2. left' \in [Req -> SUBSET Principal]
    BY <1>0, <1>9 DEF InsertRow
  <2>3. UNCHANGED <<frame, want, routes, stamp, severed, world>>
    BY <1>9 DEF InsertRow
  <2> QED
    BY <1>0, <2>1, <2>2, <2>3, StepTypes
<1>10. ASSUME NEW r \in Req, Sever(r) PROVE ReqTypes'
  BY <1>10 DEF Sever, ReqTypes
<1> QED
  BY <1>2, <1>3, <1>4, <1>5, <1>6, <1>7, <1>8, <1>9, <1>10 DEF Next

(***************************************************************************)
(* Every step keeps the types of the database and of the broker.           *)
(***************************************************************************)
LEMMA KeepsDbTypes ==
  ASSUME DbTypes, ReqTypes, [Next]_vars
  PROVE  DbTypes'
<1>0. ASSUME NEW r \in Req, pc[r] # "idle"
      PROVE  /\ frame[r] \in Frame /\ frame[r].scope \in Scope /\ frame[r].route \in Route
             /\ frame[r].author \in Principal /\ frame[r].id \in Id
             /\ frame[r].finalizers \subseteq Principal
             /\ want[r] \subseteq Principal /\ routes[r] \subseteq Route
             /\ stamp[r] \in Version /\ left[r] \subseteq Principal
             /\ member[frame[r].scope] \subseteq Principal
             /\ version[frame[r].scope] \in Version
             /\ rows[frame[r].scope] \subseteq Route \X Principal
  <2>1. frame[r] \in Frame
    BY <1>0, BusyHasFrame
  <2>2. /\ frame[r].scope \in Scope /\ frame[r].route \in Route
        /\ frame[r].author \in Principal /\ frame[r].id \in Id
        /\ frame[r].finalizers \subseteq Principal
    BY <2>1, FrameFacts
  <2> QED
    BY <2>1, <2>2 DEF DbTypes, ReqTypes
<1>1. ASSUME UNCHANGED <<dbVars, bound, routed>> PROVE DbTypes'
  BY <1>1 DEF dbVars, DbTypes
<1>2. ASSUME NEW r \in Req, GrantKnown(r) PROVE DbTypes'
  <2>1. frame[r].id \in Id
    BY <1>0, <1>2 DEF GrantKnown
  <2> QED
    BY <1>2, <2>1, Zenon DEF GrantKnown, DbTypes
<1>3. ASSUME UNCHANGED <<dbVars, routed>>, bound' \subseteq Route \X Version \X Principal
      PROVE  DbTypes'
  BY <1>3 DEF dbVars, DbTypes
<1>4. ASSUME NEW r \in Req, Bind(r) \/ BindFails(r) PROVE DbTypes'
  <2>1. NewBindings(r) \subseteq Route \X Version \X Principal
    BY <1>0, <1>4 DEF Bind, BindFails, NewBindings, Version
  <2>2. bound' \subseteq bound \cup NewBindings(r) /\ UNCHANGED <<dbVars, routed>>
    BY <1>4 DEF Bind, BindFails
  <2> QED
    BY <1>3, <2>1, <2>2 DEF DbTypes
<1>5. ASSUME NEW r \in Req, Reconcile(r) \/ ReconcileFails(r) PROVE DbTypes'
  <2>1. At(frame[r], member[frame[r].scope]) \subseteq Route \X Version \X Principal
    BY <1>0, <1>5 DEF Reconcile, Step, ReconcileFails, At
  <2>2. bound' \subseteq bound \cup At(frame[r], member[frame[r].scope])
        /\ UNCHANGED <<dbVars, routed>>
    BY <1>5 DEF Reconcile, ReconcileFails, At
  <2> QED
    BY <1>3, <2>1, <2>2 DEF DbTypes
<1>6. ASSUME NEW r \in Req, DeleteRows(r) PROVE DbTypes'
  BY <1>6, Zenon DEF DeleteRows, DbTypes
<1>7. ASSUME NEW r \in Req, NEW p \in Principal, InsertRow(r, p) PROVE DbTypes'
  <2>1. frame[r].route \in Route /\ frame[r].scope \in Scope
    BY <1>0, <1>7 DEF InsertRow
  <2>2. rows' \in [Scope -> SUBSET (Route \X Principal)]
    BY <1>7, <2>1 DEF InsertRow, DbTypes
  <2>3. UNCHANGED <<member, finalizer, version, grant, receipt, lapsed, bound, routed>>
    BY <1>7 DEF InsertRow
  <2> QED
    BY <2>2, <2>3 DEF DbTypes
<1>8. ASSUME NEW r \in Req, RouteRecord(r) \/ RouteTimesOut(r) PROVE DbTypes'
  <2>1. Record(r) \in [frame : Frame, version : Version,
                       to : SUBSET Principal, members : SUBSET Principal]
    BY <1>0, <1>8 DEF RouteRecord, Step, RouteTimesOut, Record, Recipients
  <2>2. routed' = routed \cup {Record(r)} /\ UNCHANGED <<dbVars, bound>>
    BY <1>8 DEF RouteRecord, RouteTimesOut
  <2> QED
    BY <2>1, <2>2 DEF dbVars, DbTypes
<1>9. ASSUME NEW r \in Req, Commit(r) PROVE DbTypes'
  <2> DEFINE f == frame[r]
  <2>1. /\ f \in Frame /\ f.scope \in Scope /\ f.id \in Id /\ f.author \in Principal
        /\ f.finalizers \subseteq Principal /\ stamp[r] \in Version
        /\ want[r] \subseteq Principal /\ routes[r] \subseteq Route
    BY <1>0, <1>9 DEF Commit
  <2>2. receipt' \subseteq [frame : Frame, version : Version]
    BY <1>9, <2>1 DEF Commit, Receipts, DbTypes
  <2>3. UNCHANGED <<lapsed, bound, routed>>
    BY <1>9 DEF Commit
  <2>4. CASE f.kind = "data"
    BY <1>9, <2>2, <2>3, <2>4 DEF Commit, DbTypes
  <2>5. CASE ApplyMutation(r)
    <3>1. /\ member' \in [Scope -> SUBSET Principal]
          /\ rows' \in [Scope -> SUBSET (Route \X Principal)]
      BY <2>1, <2>5 DEF ApplyMutation, DbTypes
    <3>2. finalizer' \subseteq Principal
      BY <2>1, <2>5 DEF ApplyMutation, DbTypes
    <3>3. version' \in [Scope -> Version] /\ grant' \in [Principal -> Id \cup {Nil}]
      BY <2>1, <2>5 DEF ApplyMutation, NewVersion, DbTypes, Version
    <3> QED
      BY <2>2, <2>3, <3>1, <3>2, <3>3 DEF DbTypes
  <2> QED
    BY <1>9, <2>4, <2>5 DEF Commit
<1>10. CASE ReceiptExpires
  BY <1>10 DEF ReceiptExpires, DbTypes
<1>11. ASSUME NEW f \in world.frames, GrantExpires(f) PROVE DbTypes'
  <2>1. f.id \in Id
    <3>1. world \in World
      BY Zenon DEF ReqTypes
    <3>2. f \in Frame
      BY <3>1, Zenon DEF Frame
    <3> QED
      BY <3>2, Zenon DEF Id
  <2> QED
    BY <1>11, <2>1 DEF GrantExpires, DbTypes
<1>12. ASSUME NEW r \in Req,
              \/ \E f \in world.frames : Arrive(r, f)
              \/ CheckAuthority(r) \/ LookupHit(r) \/ LookupMiss(r) \/ TakeFence(r)
              \/ Authorize(r) \/ Sever(r) \/ Fail(r)
       PROVE  UNCHANGED <<dbVars, bound, routed>>
  BY <1>12, Zenon DEF Arrive, CheckAuthority, LookupHit, LookupMiss, TakeFence, Authorize,
     Sever, Fail
<1>13. CASE UNCHANGED vars
  BY <1>1, <1>13, ZenonT(30) DEF vars
<1> QED
  BY <1>1, <1>2, <1>4, <1>5, <1>6, <1>7, <1>8, <1>9, <1>10, <1>11, <1>12, <1>13 DEF Next

-----------------------------------------------------------------------------
(* What a step leaves alone.                                               *)

Action(r) ==
  \/ \E f \in world.frames : Arrive(r, f)
  \/ CheckAuthority(r) \/ LookupHit(r) \/ LookupMiss(r) \/ TakeFence(r)
  \/ GrantKnown(r) \/ Authorize(r) \/ Bind(r) \/ BindFails(r)
  \/ Reconcile(r) \/ ReconcileFails(r) \/ DeleteRows(r)
  \/ \E p \in Principal : InsertRow(r, p)
  \/ RouteRecord(r) \/ RouteTimesOut(r) \/ Commit(r) \/ Sever(r) \/ Fail(r)

Untouched(r) ==
  /\ pc'[r] = pc[r] /\ frame'[r] = frame[r] /\ want'[r] = want[r]
  /\ routes'[r] = routes[r] /\ stamp'[r] = stamp[r] /\ left'[r] = left[r]
  /\ r \in severed' <=> r \in severed

(***************************************************************************)
(* A step is of a request or touches no request.                           *)
(***************************************************************************)
LEMMA StepIsOfRequest ==
  ASSUME [Next]_vars
  PROVE  \/ \E q \in Req : Action(q)
         \/ /\ UNCHANGED <<reqVars, member, version, rows, bound, routed>>
            /\ receipt' \subseteq receipt
<1>1. CASE ReceiptExpires
  BY <1>1 DEF ReceiptExpires
<1>2. CASE \E f \in world.frames : GrantExpires(f)
  BY <1>2 DEF GrantExpires
<1>3. CASE UNCHANGED vars
  BY <1>3, Zenon DEF vars, dbVars
<1> QED
  BY <1>1, <1>2, <1>3 DEF Next, Action

(***************************************************************************)
(* A request that ends is idle, and a step of one request touches no other.*)
(***************************************************************************)
LEMMA OthersUntouched ==
  ASSUME ReqTypes, NEW q \in Req, Action(q), NEW r \in Req \ {q}
  PROVE  Untouched(r)
<1> USE DEF ReqTypes, Untouched
<1>1. Finish(q) => Untouched(r)
  BY DEF Finish
<1>2. ASSUME NEW from, NEW to, Step(q, from, to) PROVE pc'[r] = pc[r]
  BY <1>2 DEF Step
<1>3. CASE \E f \in world.frames : Arrive(q, f)
  BY <1>3, Zenon DEF Arrive, Step
<1>4. CASE CheckAuthority(q) \/ LookupMiss(q) \/ TakeFence(q) \/ Bind(q)
           \/ DeleteRows(q) \/ RouteRecord(q)
  BY <1>2, <1>4, Zenon DEF CheckAuthority, LookupMiss, TakeFence, Bind, DeleteRows, RouteRecord
<1>5. CASE \/ LookupHit(q) \/ GrantKnown(q) \/ BindFails(q) \/ ReconcileFails(q)
           \/ RouteTimesOut(q) \/ Commit(q) \/ Fail(q)
  BY <1>1, <1>5, Zenon DEF LookupHit, GrantKnown, BindFails, ReconcileFails, RouteTimesOut,
     Commit, Fail
<1>6. CASE Authorize(q)
  BY <1>2, <1>6, Zenon DEF Authorize
<1>7. CASE Reconcile(q)
  BY <1>2, <1>7 DEF Reconcile
<1>8. CASE \E p \in Principal : InsertRow(q, p)
  BY <1>8, SMTT(30) DEF InsertRow
<1>9. CASE Sever(q)
  BY <1>9, Zenon DEF Sever
<1> QED
  BY <1>3, <1>4, <1>5, <1>6, <1>7, <1>8, <1>9, Zenon DEF Action

(***************************************************************************)
(* The membership of a scope changes by a commit of a mutation alone, what *)
(* was routed stays routed, and the world is fixed.                        *)
(***************************************************************************)
LEMMA OnlyCommitMutates ==
  ASSUME NEW q \in Req, Action(q)
  PROVE  /\ routed \subseteq routed' /\ UNCHANGED world
         /\ \/ Commit(q) /\ ApplyMutation(q) /\ frame[q].kind # "data"
            \/ UNCHANGED <<member, version>>
<1>1. CASE Commit(q)
  BY <1>1, ZenonT(30) DEF Commit, Finish
<1>2. CASE \/ LookupHit(q) \/ GrantKnown(q) \/ BindFails(q) \/ ReconcileFails(q)
           \/ RouteTimesOut(q) \/ Fail(q)
  <2>1. Finish(q) => UNCHANGED world
    BY Zenon DEF Finish
  <2> QED
    BY <1>2, <2>1 DEF LookupHit, GrantKnown, BindFails, ReconcileFails, RouteTimesOut,
       Fail, dbVars
<1>3. CASE \/ \E f \in world.frames : Arrive(q, f)
           \/ CheckAuthority(q) \/ LookupMiss(q) \/ TakeFence(q) \/ Authorize(q)
           \/ Bind(q) \/ Reconcile(q) \/ DeleteRows(q)
           \/ \E p \in Principal : InsertRow(q, p)
           \/ RouteRecord(q) \/ Sever(q)
  BY <1>3, Zenon DEF Arrive, CheckAuthority, LookupMiss, TakeFence, Authorize, Bind, Reconcile,
     DeleteRows, InsertRow, RouteRecord, Sever, dbVars
<1> QED
  BY <1>1, <1>2, <1>3, Zenon DEF Action

(***************************************************************************)
(* What a commit of a mutation makes of its scope, and of no other.        *)
(***************************************************************************)
LEMMA MutationOfScope ==
  ASSUME DbTypes, ReqTypes, NEW q \in Req, pc[q] # "idle", ApplyMutation(q)
  PROVE  LET s == frame[q].scope
         IN  /\ s \in Scope /\ member'[s] = want[q] /\ version'[s] = frame[q].id
             /\ rows'[s] = routes[q] \X want[q]
             /\ \A t \in Scope \ {s} : /\ member'[t] = member[t]
                                       /\ version'[t] = version[t]
                                       /\ rows'[t] = rows[t]
<1>1. frame[q].scope \in Scope
  BY BusyHasFrame, FrameFacts
<1> QED
  BY <1>1, Zenon DEF ApplyMutation, NewVersion, DbTypes

-----------------------------------------------------------------------------
(* Versions, decisions and fences.                                         *)

(***************************************************************************)
(* Every step keeps the active versions in agreement with the members.     *)
(***************************************************************************)
LEMMA KeepsPlaced ==
  ASSUME DbTypes, ReqTypes, Placed, Requests, [Next]_vars
  PROVE  Placed'
<1>1. ASSUME NEW q \in Req, Commit(q), ApplyMutation(q), frame[q].kind # "data"
      PROVE  Placed'
  <2> DEFINE f == frame[q]
  <2>1. pc[q] = "commit" /\ f \in Frame
    BY <1>1, BusyHasFrame DEF Commit
  <2>2. f.kind \in Mutating /\ f.id \in Id
    BY <1>1, <2>1, FrameFacts DEF Mutating
  <2>3. Leaves(f, want[q])
    BY <1>1, <2>1 DEF Requests, Decides, Decided
  <2>4. \A h \in Frame : h.id = f.id => h = f
    BY <2>1, <2>2, FrameFacts
  <2>5. f.id # Nil /\ f.id # Seed
    BY <2>2, FrameFacts
  <2>6. /\ member'[f.scope] = want[q] /\ version'[f.scope] = f.id
        /\ \A t \in Scope \ {f.scope} : member'[t] = member[t] /\ version'[t] = version[t]
    BY <1>1, <2>1, MutationOfScope, Zenon
  <2> SUFFICES ASSUME NEW s \in Scope
               PROVE  /\ version'[s] = Nil => member'[s] = {}
                      /\ version'[s] = Seed => s = Global /\ member'[s] = {Genesis}
                      /\ \A h \in Frame : h.id = version'[s] =>
                           h.kind \in Mutating /\ h.scope = s /\ Leaves(h, member'[s])
    BY Zenon DEF Placed, Leaves
  <2>7. CASE s = f.scope
    BY <2>2, <2>3, <2>4, <2>5, <2>6, <2>7
  <2>8. CASE s # f.scope
    BY <2>6, <2>8 DEF Placed
  <2> QED
    BY <2>7, <2>8
<1>2. CASE UNCHANGED <<member, version>>
  BY <1>2, Zenon DEF Placed, Leaves
<1> QED
  BY <1>1, <1>2, OnlyCommitMutates, StepIsOfRequest

(***************************************************************************)
(* Every step keeps what a request has decided.                            *)
(***************************************************************************)
LEMMA KeepsDecides ==
  ASSUME DbTypes, ReqTypes, Placed, NEW r \in Req, Decides(r), [Next]_vars
  PROVE  Decides(r)'
<1>1. ASSUME Untouched(r) PROVE Decides(r)'
  BY <1>1, Zenon DEF Untouched, Decides, Covers, Leaves
<1>2. ASSUME Finish(r) PROVE Decides(r)'
  <2>1. pc'[r] = "idle"
    BY <1>2 DEF Finish, ReqTypes
  <2> QED
    BY <2>1 DEF Decides, Decided
<1>3. CASE \/ \E f \in world.frames : Arrive(r, f)
           \/ CheckAuthority(r) \/ LookupMiss(r) \/ TakeFence(r)
  <2>1. pc'[r] \in {"fence", "authority", "lookup", "fenced"}
    BY <1>3, Zenon DEF Arrive, CheckAuthority, LookupMiss, TakeFence, Step, ReqTypes
  <2> QED
    BY <2>1, Zenon DEF Decides, Decided
<1>4. CASE \/ LookupHit(r) \/ GrantKnown(r) \/ BindFails(r) \/ ReconcileFails(r)
           \/ RouteTimesOut(r) \/ Commit(r) \/ Fail(r)
  BY <1>2, <1>4 DEF LookupHit, GrantKnown, BindFails, ReconcileFails, RouteTimesOut,
     Commit, Fail
<1>5. CASE Authorize(r)
  <2> DEFINE f == frame[r]
  <2>1. f \in Frame
    BY <1>5, BusyHasFrame, Zenon DEF Authorize
  <2>2. /\ frame'[r] = f /\ want'[r] = Desired(f)
        /\ pc'[r] = IF f.kind = "data" THEN "reconcile" ELSE "bind"
        /\ routes'[r] = IF f.kind = "data" THEN {} ELSE KnownRoutes(f)
        /\ stamp'[r] = IF f.kind = "data" THEN version[f.scope] ELSE f.id
    BY <1>5, Zenon DEF Authorize, Step, ReqTypes
  <2>3. CASE f.kind = "data"
    <3>1. f.scope \in Scope
      BY <2>1, FrameFacts
    <3>2. Desired(f) = member[f.scope]
      BY <2>3 DEF Desired
    <3>3. Covers(version[f.scope], member[f.scope])
      BY <3>1, Zenon DEF Placed, Covers, Leaves
    <3>4. Covers(stamp'[r], want'[r])
      BY <2>2, <2>3, <3>2, <3>3, Zenon
    <3> QED
      BY <2>2, <2>3, <3>4 DEF Decides, Covers
  <2>4. CASE f.kind # "data"
    <3>1. f.kind \in Mutating /\ f.id # Seed
      BY <2>1, <2>4, FrameFacts DEF Mutating
    <3>2. Leaves(f, Desired(f))
      BY DEF Leaves, Desired
    <3>3. Covers(f.id, Desired(f))
      <4>1. \A h \in Frame : h.id = f.id => h = f
        BY <2>1, <3>1, FrameFacts
      <4> QED
        BY <3>1, <3>2, <4>1 DEF Covers, Leaves
    <3>4. f.kind # "grant" => f.route \in KnownRoutes(f)
      BY Zenon DEF KnownRoutes
    <3>5. Covers(stamp'[r], want'[r]) /\ Leaves(frame'[r], want'[r])
      BY <2>2, <2>4, <3>2, <3>3
    <3> QED
      BY <2>2, <2>4, <3>4, <3>5, Zenon DEF Decides, Covers, Leaves
  <2> QED
    BY <2>3, <2>4, Zenon
<1>6. CASE \/ Bind(r) \/ Reconcile(r) \/ DeleteRows(r)
           \/ (\E p \in Principal : InsertRow(r, p)) \/ RouteRecord(r)
  <2>1. UNCHANGED <<frame, want, routes, stamp>>
    BY <1>6, Zenon DEF Bind, Reconcile, DeleteRows, InsertRow, RouteRecord
  <2>2. \/ pc[r] = "bind" /\ pc'[r] = IF frame[r].kind = "grant" THEN "commit" ELSE "route"
        \/ pc[r] = "reconcile" /\ pc'[r] = "delete"
        \/ pc[r] = "delete" /\ pc'[r] = "insert"
        \/ pc[r] = "insert" /\ pc'[r] \in {"insert", "route"}
        \/ pc[r] = "route" /\ pc'[r] = "commit"
    BY <1>6, Zenon DEF Bind, Reconcile, DeleteRows, InsertRow, RouteRecord, Step, ReqTypes
  <2> QED
    BY <2>1, <2>2, Zenon DEF Decides, Decided, Covers, Leaves
<1>7. CASE Sever(r)
  BY <1>7 DEF Sever, Decides, Covers, Leaves
<1>8. CASE \E q \in Req \ {r} : Action(q)
  BY <1>1, <1>8, OthersUntouched, Zenon
<1>9. CASE UNCHANGED reqVars
  BY <1>1, <1>9 DEF reqVars, Untouched
<1> QED
  BY <1>3, <1>4, <1>5, <1>6, <1>7, <1>8, <1>9, StepIsOfRequest, Zenon DEF Action

(***************************************************************************)
(* Every step keeps the fences apart: an exclusive one is taken when no    *)
(* other request holds one of the scope.                                   *)
(***************************************************************************)
LEMMA KeepsFenced ==
  ASSUME ReqTypes, Fenced, [Next]_vars
  PROVE  Fenced'
<1>1. ASSUME \A r \in Req : /\ r \in severed => r \in severed' \/ pc'[r] \notin InFence
                            /\ pc'[r] \in InFence => pc[r] \in InFence
                                                     /\ frame'[r] = frame[r],
             severed' \subseteq Req
      PROVE  Fenced'
  BY <1>1 DEF Fenced
<1>2. ASSUME NEW q \in Req, Action(q), ~TakeFence(q) PROVE Fenced'
  <2>1. ASSUME NEW r \in Req \ {q} PROVE Untouched(r)
    BY <1>2, OthersUntouched, Zenon
  <2>2. \/ pc'[q] \notin InFence
        \/ /\ pc[q] \in InFence /\ frame'[q] = frame[q]
           /\ q \in severed => q \in severed'
    <3> USE DEF ReqTypes
    <3>1. Finish(q) => pc'[q] \notin InFence
      BY Zenon DEF Finish, InFence
    <3>2. CASE \/ \E f \in world.frames : Arrive(q, f)
               \/ CheckAuthority(q) \/ LookupMiss(q)
      BY <3>2, Zenon DEF Arrive, CheckAuthority, LookupMiss, Step, InFence
    <3>3. CASE \/ LookupHit(q) \/ GrantKnown(q) \/ BindFails(q) \/ ReconcileFails(q)
               \/ RouteTimesOut(q) \/ Commit(q) \/ Fail(q)
      BY <3>1, <3>3, Zenon DEF LookupHit, GrantKnown, BindFails, ReconcileFails, RouteTimesOut,
         Commit, Fail
    <3>4. CASE \/ Authorize(q) \/ Bind(q) \/ Reconcile(q) \/ DeleteRows(q)
               \/ (\E p \in Principal : InsertRow(q, p)) \/ RouteRecord(q) \/ Sever(q)
      BY <3>4, Zenon DEF Authorize, Bind, Reconcile, DeleteRows, InsertRow, RouteRecord, Sever,
         Step, InFence
    <3> QED
      BY <1>2, <3>2, <3>3, <3>4, Zenon DEF Action
  <2>3. severed' \subseteq Req
    <3>1. \A r \in severed' : r \in severed \/ r = q
      BY <1>2, Zenon DEF Action, Arrive, CheckAuthority, LookupHit, LookupMiss, GrantKnown,
         Authorize, Bind, BindFails, Reconcile, ReconcileFails, DeleteRows, InsertRow,
         RouteRecord, RouteTimesOut, Commit, Sever, Fail, Finish
    <3> QED
      BY <3>1, Zenon DEF ReqTypes
  <2> QED
    BY <1>1, <2>1, <2>2, <2>3 DEF Untouched
<1>3. ASSUME NEW q \in Req, TakeFence(q) PROVE Fenced'
  <2>1. /\ UNCHANGED <<frame, severed>> /\ pc[q] = "fence" /\ FenceFree(q)
        /\ \A r \in Req \ {q} : pc'[r] = pc[r]
    BY <1>3, Zenon DEF TakeFence, Step, ReqTypes
  <2>2. \A r \in Req \ severed : r # q /\ pc[r] \in InFence
                                 /\ frame[r].scope = frame[q].scope
                                 => frame[r].kind = "data" /\ frame[q].kind = "data"
    BY <2>1, Zenon DEF FenceFree
  <2> SUFFICES ASSUME NEW r \in Req \ severed, NEW t \in Req \ severed, r # t,
                      pc'[r] \in InFence, pc'[t] \in InFence,
                      frame[r].scope = frame[t].scope
               PROVE  frame[r].kind = "data"
    BY <2>1, Zenon DEF Fenced
  <2>3. CASE r = q
    BY <2>1, <2>2, <2>3, Zenon
  <2>4. CASE t = q
    BY <2>1, <2>2, <2>4, Zenon
  <2>5. CASE r # q /\ t # q
    BY <2>1, <2>5, Zenon DEF Fenced
  <2> QED
    BY <2>3, <2>4, <2>5, Zenon
<1>4. CASE UNCHANGED reqVars
  BY <1>4 DEF reqVars, Fenced
<1> QED
  BY <1>2, <1>3, <1>4, StepIsOfRequest

-----------------------------------------------------------------------------
(* Requests that hold their fence.                                         *)

(***************************************************************************)
(* Two scopes do not share an active version, unless they have no members. *)
(***************************************************************************)
LEMMA VersionsApart ==
  ASSUME DbTypes, Placed, NEW s \in Scope, NEW t \in Scope, version[s] = version[t]
  PROVE  s = t \/ member[s] = {}
<1>1. CASE version[s] \in Id
  <2>1. PICK f \in Frame : f.id = version[s]
    BY <1>1 DEF Id
  <2> QED
    BY <2>1 DEF Placed
<1>2. CASE version[s] = Seed
  BY <1>2, Zenon DEF Placed
<1>3. CASE version[s] = Nil
  BY <1>3 DEF Placed
<1> QED
  BY <1>1, <1>2, <1>3, Zenon DEF DbTypes, Version

(***************************************************************************)
(* A request that holds its fence publishes to principals that are members *)
(* of any scope whose active version it publishes under.                   *)
(***************************************************************************)
LEMMA WantedAreMembers ==
  ASSUME DbTypes, ReqTypes, Placed, NEW r \in Req, Decides(r), Current(r),
         r \notin severed, pc[r] \in Decided, NEW s \in Scope, stamp[r] = version[s]
  PROVE  want[r] \subseteq member[s]
<1> DEFINE f == frame[r]
<1>1. f \in Frame /\ f.scope \in Scope
  BY BusyHasFrame, FrameFacts DEF Decided
<1>2. want[r] = Desired(f)
  BY DEF Current
<1>3. CASE f.kind = "data"
  <2>1. want[r] = member[f.scope] /\ version[f.scope] = version[s]
    BY <1>2, <1>3, Zenon DEF Current, Desired
  <2> QED
    BY <1>1, <2>1, VersionsApart
<1>4. CASE f.kind # "data"
  <2>1. f.id = version[s]
    BY <1>4, Zenon DEF Decides
  <2>2. f.scope = s /\ Leaves(f, member[s])
    BY <1>1, <2>1, Zenon DEF Placed
  <2> QED
    BY <1>2, <2>2 DEF Leaves, Desired
<1> QED
  BY <1>3, <1>4

(***************************************************************************)
(* What another request does to the bindings leaves those of a request     *)
(* that holds its fence: a reconciliation unbinds no member.               *)
(***************************************************************************)
LEMMA BindingsStay ==
  ASSUME DbTypes, ReqTypes, Placed, NEW r \in Req, Decides(r), Current(r),
         r \notin severed, pc[r] \in Decided, IsBound(r),
         NEW q \in Req, Action(q), Untouched(r)
  PROVE  IsBound(r)'
<1> SUFFICES ASSUME NEW p \in want[r]
             PROVE  <<frame[r].route, stamp[r], p>> \in bound'
  BY Zenon DEF IsBound, Untouched
<1>1. <<frame[r].route, stamp[r], p>> \in bound
  BY Zenon DEF IsBound
<1>2. CASE bound \subseteq bound'
  BY <1>1, <1>2
<1>3. CASE Reconcile(q) \/ ReconcileFails(q)
  <2> DEFINE f == frame[q]
  <2>1. f.scope \in Scope
    BY <1>3, BusyHasFrame, FrameFacts, Zenon DEF Reconcile, Step, ReconcileFails
  <2>2. PICK P \in SUBSET Removed(f) : bound \ At(f, P) \subseteq bound'
    BY <1>3, Zenon DEF Reconcile, ReconcileFails
  <2>3. stamp[r] = version[f.scope] => p \in member[f.scope]
    BY <2>1, WantedAreMembers, Zenon
  <2>4. p \in P => p \notin member[f.scope]
    BY Zenon DEF Removed
  <2>5. <<frame[r].route, stamp[r], p>> \notin At(f, P)
    BY <2>3, <2>4 DEF At
  <2> QED
    BY <1>1, <2>2, <2>5, Zenon
<1> QED
  BY <1>2, <1>3, Zenon DEF Action, Arrive, CheckAuthority, LookupHit, LookupMiss, TakeFence,
     GrantKnown, Authorize, Bind, BindFails, DeleteRows, InsertRow, RouteRecord,
     RouteTimesOut, Commit, Sever, Fail

(***************************************************************************)
(* A step of another request leaves a request that holds its fence where   *)
(* it is: nobody else can change the membership it works on.               *)
(***************************************************************************)
LEMMA OthersKeepCurrent ==
  ASSUME DbTypes, ReqTypes, Placed, Fenced, NEW r \in Req, Decides(r), Current(r),
         NEW q \in Req \ {r}, Action(q)
  PROVE  Current(r)'
<1>1. Untouched(r)
  BY OthersUntouched, Zenon
<1> SUFFICES ASSUME r \notin severed, pc[r] \in Decided
             PROVE  /\ want'[r] = Desired(frame[r])'
                    /\ frame'[r].kind = "data" => stamp'[r] = version'[frame'[r].scope]
                    /\ pc'[r] \in {"delete", "insert", "route"} => IsBound(r)'
                    /\ pc'[r] \in {"delete", "insert"} => left'[r] \subseteq want'[r]
                    /\ pc'[r] = "commit" /\ frame'[r].kind # "grant" => Announced(r)'
  BY <1>1, Zenon DEF Untouched, Current
<1>2. pc[r] \in InFence /\ frame[r] \in Frame /\ frame[r].scope \in Scope
  BY BusyHasFrame, FrameFacts, Zenon DEF Decided, InFence
<1>3. /\ member'[frame[r].scope] = member[frame[r].scope]
      /\ version'[frame[r].scope] = version[frame[r].scope]
  <2>1. CASE UNCHANGED <<member, version>>
    BY <2>1
  <2>2. CASE Commit(q) /\ ApplyMutation(q) /\ frame[q].kind # "data"
    <3>1. pc[q] = "commit" /\ q \notin severed
      BY <2>2 DEF Commit
    <3>2. frame[q].scope # frame[r].scope
      BY <1>2, <2>2, <3>1, Zenon DEF Fenced, InFence
    <3> QED
      BY <1>2, <2>2, <3>1, <3>2, MutationOfScope, SMTT(30)
  <2> QED
    BY <2>1, <2>2, OnlyCommitMutates
<1>4. Desired(frame[r])' = Desired(frame[r])
  BY <1>1, <1>3 DEF Desired, Untouched
<1>5. IsBound(r) => IsBound(r)'
  BY <1>1, BindingsStay, Zenon
<1>6. Announced(r) => Announced(r)'
  BY <1>1, OnlyCommitMutates, Zenon DEF Announced, Untouched
<1> QED
  BY <1>1, <1>3, <1>4, <1>5, <1>6 DEF Current, Untouched

(***************************************************************************)
(* A request that binds its members, reconciles or routes gets what it     *)
(* needs for its next step.                                                *)
(***************************************************************************)
LEMMA SelfKeepsCurrent ==
  ASSUME DbTypes, ReqTypes, NEW r \in Req, Decides(r), Current(r), Action(r)
  PROVE  Current(r)'
<1> USE DEF ReqTypes
<1>1. ASSUME pc'[r] \notin Decided PROVE Current(r)'
  BY <1>1, Zenon DEF Current
<1>2. Finish(r) => pc'[r] \notin Decided
  BY DEF Finish, Decided
<1>3. CASE \/ \E f \in world.frames : Arrive(r, f)
           \/ CheckAuthority(r) \/ LookupMiss(r) \/ TakeFence(r)
  <2>1. pc'[r] \notin Decided
    BY <1>3, Zenon DEF Arrive, CheckAuthority, LookupMiss, TakeFence, Step, Decided
  <2> QED
    BY <1>1, <2>1, Zenon
<1>4. CASE \/ LookupHit(r) \/ GrantKnown(r) \/ BindFails(r) \/ ReconcileFails(r)
           \/ RouteTimesOut(r) \/ Commit(r) \/ Fail(r)
  BY <1>1, <1>2, <1>4, Zenon DEF LookupHit, GrantKnown, BindFails, ReconcileFails,
     RouteTimesOut, Commit, Fail
<1>5. CASE Sever(r)
  <2>1. r \in severed'
    BY <1>5, Zenon DEF Sever
  <2> QED
    BY <2>1, Zenon DEF Current
<1>6. CASE Authorize(r)
  <2>1. /\ UNCHANGED <<frame, member, version>> /\ want'[r] = Desired(frame[r])
        /\ pc'[r] \in {"reconcile", "bind"}
        /\ frame[r].kind = "data" => stamp'[r] = version[frame[r].scope]
    BY <1>6, Zenon DEF Authorize, Step, dbVars
  <2>2. Desired(frame[r])' = Desired(frame[r])
    BY <2>1, Zenon DEF Desired
  <2> QED
    BY <2>1, <2>2, Zenon DEF Current
<1>7. ASSUME UNCHANGED <<frame, want, stamp, severed, member, version>>,
             pc[r] \in Decided, r \notin severed
      PROVE  /\ want'[r] = Desired(frame[r])'
             /\ frame'[r].kind = "data" => stamp'[r] = version'[frame'[r].scope]
  <2>1. Desired(frame[r])' = Desired(frame[r])
    BY <1>7, Zenon DEF Desired
  <2> QED
    BY <1>7, <2>1, Zenon DEF Current
<1>8. CASE Bind(r)
  <2>1. /\ UNCHANGED <<frame, want, routes, stamp, severed, member, version>>
        /\ pc[r] = "bind" /\ bound' = bound \cup NewBindings(r) /\ r \notin severed
        /\ pc'[r] = IF frame[r].kind = "grant" THEN "commit" ELSE "route"
    BY <1>8, Zenon DEF Bind, Step, dbVars
  <2>2. frame[r].kind # "grant" => IsBound(r)'
    BY <2>1, Zenon DEF Decides, Decided, IsBound, NewBindings
  <2> QED
    BY <1>7, <2>1, <2>2, Zenon DEF Current, Decided
<1>9. CASE Reconcile(r)
  <2> DEFINE f == frame[r]
  <2>1. /\ UNCHANGED <<frame, want, stamp, severed, member, version>>
        /\ pc[r] = "reconcile" /\ pc'[r] = "delete" /\ left'[r] = member[f.scope]
        /\ bound' = (bound \cup At(f, member[f.scope])) \ At(f, Removed(f))
    BY <1>9, Zenon DEF Reconcile, Step, dbVars
  <2>2. CASE r \notin severed
    <3>1. want[r] = member[f.scope] /\ stamp[r] = version[f.scope]
      BY <2>1, <2>2, Zenon DEF Current, Decides, Decided, Desired
    <3>2. \A p \in member[f.scope] : /\ <<f.route, version[f.scope], p>>
                                          \in At(f, member[f.scope])
                                     /\ <<f.route, version[f.scope], p>>
                                          \notin At(f, Removed(f))
      BY Zenon DEF At, Removed
    <3>3. IsBound(r)'
      BY <2>1, <3>1, <3>2, Zenon DEF IsBound
    <3> QED
      BY <1>7, <2>1, <2>2, <3>1, <3>3, Zenon DEF Current, Decided
  <2> QED
    BY <2>1, <2>2, Zenon DEF Current
<1>10. CASE DeleteRows(r) \/ \E p \in Principal : InsertRow(r, p)
  <2>1. /\ UNCHANGED <<frame, want, stamp, severed, member, version, bound>>
        /\ pc[r] \in {"delete", "insert"} /\ pc'[r] \in {"insert", "route"}
        /\ left'[r] \subseteq left[r]
    <3>1. CASE DeleteRows(r)
      BY <3>1, Zenon DEF DeleteRows, Step
    <3>2. CASE \E p \in Principal : InsertRow(r, p)
      BY <3>2, SMTT(30) DEF InsertRow
    <3> QED
      BY <1>10, <3>1, <3>2, Zenon
  <2>2. IsBound(r)' <=> IsBound(r)
    BY <2>1, Zenon DEF IsBound
  <2> QED
    BY <1>7, <2>1, <2>2, Zenon DEF Current, Decided
<1>11. CASE RouteRecord(r)
  <2>1. /\ UNCHANGED <<frame, want, stamp, severed, member, version>>
        /\ pc[r] = "route" /\ pc'[r] = "commit" /\ routed' = routed \cup {Record(r)}
    BY <1>11, Zenon DEF RouteRecord, Step, dbVars
  <2>2. CASE r \notin severed
    <3>1. want[r] \subseteq Recipients(r)
      BY <2>1, <2>2, Zenon DEF Current, Decided, IsBound, Recipients
    <3>2. /\ Record(r).frame = frame[r] /\ Record(r).version = stamp[r]
          /\ Record(r).members = want[r] /\ Record(r).to = Recipients(r)
      BY Zenon DEF Record
    <3>3. Announced(r)'
      BY <2>1, <3>1, <3>2 DEF Announced
    <3> QED
      BY <1>7, <2>1, <2>2, <3>3, Zenon DEF Current, Decided
  <2> QED
    BY <2>1, <2>2, Zenon DEF Current
<1> QED
  BY <1>3, <1>4, <1>5, <1>6, <1>8, <1>9, <1>10, <1>11, Zenon DEF Action

(***************************************************************************)
(* Every step keeps what is said of the requests.                          *)
(***************************************************************************)
LEMMA KeepsRequests ==
  ASSUME DbTypes, ReqTypes, Placed, Fenced, Requests, [Next]_vars
  PROVE  Requests'
<1> SUFFICES ASSUME NEW r \in Req PROVE Decides(r)' /\ Current(r)'
  BY DEF Requests
<1>1. Decides(r) /\ Current(r)
  BY DEF Requests
<1>2. Decides(r)'
  BY <1>1, KeepsDecides
<1>3. CASE Action(r)
  BY <1>1, <1>2, <1>3, SelfKeepsCurrent
<1>4. ASSUME NEW q \in Req \ {r}, Action(q) PROVE Current(r)'
  BY <1>1, <1>4, OthersKeepCurrent, Zenon
<1>5. CASE UNCHANGED <<reqVars, member, version, rows, bound, routed>>
  <2>1. UNCHANGED <<pc, frame, want, stamp, left, severed, member, version, bound, routed>>
    BY <1>5, Zenon DEF reqVars
  <2>2. /\ Desired(frame[r])' = Desired(frame[r])
        /\ IsBound(r)' <=> IsBound(r)
        /\ Announced(r)' <=> Announced(r)
    BY <2>1, Zenon DEF Desired, IsBound, Announced
  <2> QED
    BY <1>1, <1>2, <2>1, <2>2 DEF Current
<1> QED
  BY <1>2, <1>3, <1>4, <1>5, StepIsOfRequest

-----------------------------------------------------------------------------
(* Bindings, records, rows and receipts.                                   *)

(***************************************************************************)
(* Every binding of a version that names its members is of one of them.    *)
(***************************************************************************)
LEMMA KeepsBoundFits ==
  ASSUME DbTypes, ReqTypes, Placed, Requests, BoundFits, [Next]_vars
  PROVE  BoundFits'
<1>1. ASSUME \A x \in bound' : x \in bound \/ Names(x[2], x[3]) PROVE BoundFits'
  BY <1>1 DEF BoundFits, Names
<1>2. ASSUME NEW r \in Req, Bind(r) \/ BindFails(r) PROVE BoundFits'
  <2> DEFINE f == frame[r]
  <2>1. f \in Frame /\ pc[r] = "bind"
    BY <1>2, BusyHasFrame, Zenon DEF Bind, BindFails
  <2>2. f.kind # "data" /\ Leaves(f, want[r])
    BY <2>1, Zenon DEF Requests, Decides, Decided
  <2>3. f.kind \in Mutating /\ f.id # Nil /\ f.id # Seed
    BY <2>1, <2>2, FrameFacts, Zenon DEF Mutating
  <2>4. \A h \in Frame : h.id = f.id => h = f
    BY <2>1, <2>3, FrameFacts
  <2>5. \A p \in want[r] : Names(f.id, p)
    BY <2>2, <2>3, <2>4, Zenon DEF Names, Leaves
  <2>6. bound' \subseteq bound \cup NewBindings(r)
    BY <1>2, Zenon DEF Bind, BindFails
  <2>7. \A x \in NewBindings(r) : x[2] = f.id /\ x[3] \in want[r]
    BY Zenon DEF NewBindings
  <2>8. \A x \in NewBindings(r) : Names(x[2], x[3])
    BY <2>5, <2>7
  <2> QED
    BY <1>1, <2>6, <2>8, Zenon
<1>3. ASSUME NEW r \in Req, Reconcile(r) \/ ReconcileFails(r) PROVE BoundFits'
  <2> DEFINE f == frame[r]
             s == f.scope
  <2>1. s \in Scope
    BY <1>3, BusyHasFrame, FrameFacts, Zenon DEF Reconcile, Step, ReconcileFails
  <2>2. \A p \in member[s] : Names(version[s], p)
    <3> SUFFICES ASSUME NEW p \in member[s] PROVE Names(version[s], p)
      OBVIOUS
    <3>1. /\ version[s] = Nil => member[s] = {}
          /\ version[s] = Seed => member[s] = {Genesis}
          /\ \A h \in Frame : h.id = version[s] => Leaves(h, member[s])
      BY <2>1, Zenon DEF Placed
    <3>2. \A h \in Frame : h.id = version[s] /\ h.kind = "snapshot" => p \in h.members
      BY <3>1, Zenon DEF Leaves
    <3> QED
      BY <3>1, <3>2, Zenon DEF Names
  <2>3. bound' \subseteq bound \cup At(f, member[s])
    <3>1. ASSUME NEW P \in SUBSET member[s] PROVE At(f, P) \subseteq At(f, member[s])
      BY Zenon DEF At
    <3>2. CASE Reconcile(r)
      BY <3>2, Zenon DEF Reconcile
    <3>3. CASE ReconcileFails(r)
      BY <3>1, <3>3, Zenon DEF ReconcileFails
    <3> QED
      BY <1>3, <3>2, <3>3
  <2>4. \A x \in At(f, member[s]) : x[2] = version[s] /\ x[3] \in member[s]
    BY DEF At
  <2>5. \A x \in At(f, member[s]) : Names(x[2], x[3])
    BY <2>2, <2>4
  <2> QED
    BY <1>1, <2>3, <2>5, Zenon
<1>4. CASE UNCHANGED bound
  BY <1>4 DEF BoundFits, Names
<1> QED
  BY <1>2, <1>3, <1>4, StepIsOfRequest, Zenon DEF Action, Arrive, CheckAuthority, LookupHit,
     LookupMiss, TakeFence, GrantKnown, Authorize, DeleteRows, InsertRow, RouteRecord,
     RouteTimesOut, Commit, Sever, Fail

(***************************************************************************)
(* A record is routed by RouteRecord or RouteTimesOut.                     *)
(***************************************************************************)
LEMMA OnlyRoutesRoute ==
  ASSUME [Next]_vars
  PROVE  \/ UNCHANGED routed
         \/ \E r \in Req : pc[r] = "route" /\ routed' = routed \cup {Record(r)}
                           /\ UNCHANGED <<dbVars, bound, world>>
<1>1. ASSUME NEW r \in Req, RouteRecord(r)
      PROVE  pc[r] = "route" /\ routed' = routed \cup {Record(r)}
             /\ UNCHANGED <<dbVars, bound, world>>
  BY <1>1 DEF RouteRecord, Step
<1>2. ASSUME NEW r \in Req, RouteTimesOut(r)
      PROVE  pc[r] = "route" /\ routed' = routed \cup {Record(r)}
             /\ UNCHANGED <<dbVars, bound, world>>
  BY <1>2 DEF RouteTimesOut, Finish
<1> QED
  BY <1>1, <1>2, StepIsOfRequest, Zenon DEF Action, Arrive, CheckAuthority, LookupHit,
     LookupMiss, TakeFence, GrantKnown, Authorize, Bind, BindFails, Reconcile,
     ReconcileFails, DeleteRows, InsertRow, Commit, Sever, Fail

(***************************************************************************)
(* What is routed under a version that names its members goes to them.     *)
(***************************************************************************)
LEMMA KeepsRoutedFits ==
  ASSUME DbTypes, ReqTypes, Requests, BoundFits, RoutedFits, [Next]_vars
  PROVE  RoutedFits'
<1>1. ASSUME NEW r \in Req, pc[r] = "route",
             \A f \in Frame : f.id = stamp[r] => f.kind = "snapshot"
      PROVE  Recipients(r) \subseteq want[r]
  <2> SUFFICES ASSUME NEW p \in Recipients(r) PROVE p \in want[r]
    OBVIOUS
  <2>1. Names(stamp[r], p)
    <3>1. <<frame[r].route, stamp[r], p>> \in bound
      BY Zenon DEF Recipients
    <3> QED
      BY <3>1 DEF BoundFits
  <2>2. Covers(stamp[r], want[r]) /\ stamp[r] \in Version
    BY <1>1, Zenon DEF Requests, Decides, Decided, ReqTypes
  <2>3. CASE stamp[r] \in Id
    <3>1. PICK f \in Frame : f.id = stamp[r]
      BY <2>3 DEF Id
    <3> QED
      BY <1>1, <2>1, <2>2, <3>1, Zenon DEF Names, Covers
  <2>4. CASE stamp[r] = Seed
    BY <2>1, <2>2, <2>4 DEF Names, Covers
  <2>5. stamp[r] # Nil
    BY <2>1, Zenon DEF Names
  <2> QED
    BY <2>2, <2>3, <2>4, <2>5 DEF Version
<1>2. ASSUME NEW r \in Req, pc[r] = "route", routed' = routed \cup {Record(r)}
      PROVE  RoutedFits'
  <2>1. /\ Record(r).version = stamp[r]
        /\ Record(r).members = want[r] /\ Record(r).to = Recipients(r)
    BY Zenon DEF Record
  <2> QED
    BY <1>1, <1>2, <2>1, Zenon DEF RoutedFits
<1>3. CASE UNCHANGED routed
  BY <1>3 DEF RoutedFits
<1> QED
  BY <1>2, <1>3, OnlyRoutesRoute

(***************************************************************************)
(* Fences are lost where they may be.                                      *)
(***************************************************************************)
LEMMA KeepsSeverable ==
  ASSUME severed \subseteq world.severable, [Next]_vars
  PROVE  UNCHANGED world /\ severed' \subseteq world'.severable
<1>1. ASSUME NEW r \in Req, Action(r)
      PROVE  severed' \subseteq severed \/ (Sever(r) /\ severed' = severed \cup {r})
  BY <1>1, Zenon DEF Action, Arrive, CheckAuthority, LookupHit, LookupMiss, TakeFence,
     GrantKnown, Authorize, Bind, BindFails, Reconcile, ReconcileFails, DeleteRows,
     InsertRow, RouteRecord, RouteTimesOut, Commit, Sever, Fail, Finish
<1>2. UNCHANGED world
  BY StepIsOfRequest, OnlyCommitMutates DEF reqVars
<1>3. CASE \E r \in Req : Action(r)
  BY <1>1, <1>2, <1>3 DEF Sever
<1>4. CASE UNCHANGED reqVars
  BY <1>4 DEF reqVars
<1> QED
  BY <1>2, <1>3, <1>4, StepIsOfRequest, Zenon

(***************************************************************************)
(* Every record reaches its members, if fences hold.                       *)
(***************************************************************************)
LEMMA KeepsFanout ==
  ASSUME ReqTypes, Requests, severed \subseteq world.severable, FanoutReachesMembers,
         [Next]_vars
  PROVE  FanoutReachesMembers'
<1>1. UNCHANGED world
  BY KeepsSeverable
<1> SUFFICES ASSUME FencesHold, NEW e \in routed' PROVE e.members \subseteq e.to
  BY <1>1 DEF FanoutReachesMembers, FencesHold
<1>2. severed = {}
  BY Zenon DEF FencesHold
<1>3. ASSUME NEW r \in Req, pc[r] = "route" PROVE Record(r).members \subseteq Record(r).to
  <2>1. IsBound(r) /\ want[r] \subseteq Principal
    BY <1>2, <1>3, Zenon DEF Requests, Current, Decided, ReqTypes
  <2>2. want[r] \subseteq Recipients(r)
    BY <2>1, Zenon DEF IsBound, Recipients
  <2> QED
    BY <2>2, Zenon DEF Record
<1> QED
  BY <1>3, OnlyRoutesRoute DEF FanoutReachesMembers

(***************************************************************************)
(* Binding rows are of members, if fences hold.                            *)
(***************************************************************************)
LEMMA KeepsRows ==
  ASSUME DbTypes, ReqTypes, Requests, severed \subseteq world.severable,
         RowsNameMembers, [Next]_vars
  PROVE  RowsNameMembers'
<1>1. UNCHANGED world
  BY KeepsSeverable, Zenon
<1> SUFFICES ASSUME FencesHold PROVE \A s \in Scope : \A x \in rows'[s] : x[2] \in member'[s]
  BY <1>1 DEF RowsNameMembers, FencesHold
<1>2. severed = {} /\ \A s \in Scope : \A x \in rows[s] : x[2] \in member[s]
  BY DEF FencesHold, RowsNameMembers
<1>3. CASE UNCHANGED <<member, rows>>
  BY <1>2, <1>3
<1>4. ASSUME NEW r \in Req, DeleteRows(r)
      PROVE  \A s \in Scope : \A x \in rows'[s] : x[2] \in member'[s]
  <2>1. \A s \in Scope : rows'[s] \subseteq rows[s]
    BY <1>4, Zenon DEF DeleteRows, DbTypes
  <2>2. UNCHANGED member
    BY <1>4, Zenon DEF DeleteRows
  <2> QED
    BY <1>2, <2>1, <2>2, Zenon
<1>5. ASSUME NEW r \in Req, NEW p \in Principal, InsertRow(r, p)
      PROVE  \A s \in Scope : \A x \in rows'[s] : x[2] \in member'[s]
  <2>1. pc[r] = "insert" /\ p \in left[r] /\ UNCHANGED member
    BY <1>5, Zenon DEF InsertRow
  <2>2. p \in member[frame[r].scope]
    BY <1>2, <2>1, Zenon DEF Requests, Current, Decides, Decided, Desired
  <2>3. \A s \in Scope : \A x \in rows'[s] :
          x \in rows[s] \/ (s = frame[r].scope /\ x = <<frame[r].route, p>>)
    BY <1>5, Zenon DEF InsertRow, DbTypes
  <2> QED
    BY <1>2, <2>1, <2>2, <2>3, SMTT(30)
<1>6. ASSUME NEW r \in Req, Commit(r), ApplyMutation(r)
      PROVE  \A s \in Scope : \A x \in rows'[s] : x[2] \in member'[s]
  <2>1. pc[r] = "commit"
    BY <1>6, Zenon DEF Commit
  <2>2. LET s == frame[r].scope
        IN  /\ member'[s] = want[r] /\ rows'[s] = routes[r] \X want[r]
            /\ \A t \in Scope \ {s} : member'[t] = member[t] /\ rows'[t] = rows[t]
    BY <1>6, <2>1, MutationOfScope, Zenon
  <2> QED
    BY <1>2, <2>2
<1> QED
  BY <1>3, <1>4, <1>5, <1>6, StepIsOfRequest, ZenonT(30) DEF Action, Arrive, CheckAuthority,
     LookupHit, LookupMiss, TakeFence, GrantKnown, Authorize, Bind, BindFails, Reconcile,
     ReconcileFails, RouteRecord, RouteTimesOut, Commit, Sever, Fail, dbVars

(***************************************************************************)
(* A membership in force was announced before it took effect.              *)
(***************************************************************************)
LEMMA KeepsAnnounced ==
  ASSUME DbTypes, ReqTypes, Requests, AppliedIsAnnounced, [Next]_vars
  PROVE  AppliedIsAnnounced'
<1>1. ASSUME routed \subseteq routed', UNCHANGED <<member, version>>
      PROVE  AppliedIsAnnounced'
  BY <1>1, Zenon DEF AppliedIsAnnounced
<1>2. ASSUME NEW r \in Req, Commit(r), ApplyMutation(r), frame[r].kind # "data"
      PROVE  AppliedIsAnnounced'
  <2> DEFINE f == frame[r]
  <2>1. /\ f \in Frame /\ pc[r] = "commit" /\ r \notin severed /\ UNCHANGED routed
    BY <1>2, BusyHasFrame, Zenon DEF Commit
  <2>2. f.kind \in Mutating
    BY <1>2, <2>1, FrameFacts, Zenon DEF Mutating
  <2>3. \A h \in Frame : h.id = f.id => h = f
    BY <2>1, <2>2, FrameFacts, Zenon
  <2>4. f.kind # "grant" => \E e \in routed : e.frame = f /\ want[r] \subseteq e.to
    BY <2>1, Zenon DEF Requests, Current, Announced, Decided
  <2>5. /\ member'[f.scope] = want[r] /\ version'[f.scope] = f.id
        /\ \A t \in Scope \ {f.scope} : member'[t] = member[t] /\ version'[t] = version[t]
    BY <1>2, <2>1, MutationOfScope, Zenon
  <2> QED
    BY <2>1, <2>3, <2>4, <2>5, SMTT(30) DEF AppliedIsAnnounced
<1> QED
  BY <1>1, <1>2, OnlyCommitMutates, StepIsOfRequest, Zenon

(***************************************************************************)
(* A receipt is of a record that was routed to all the members of its      *)
(* version: the request that writes it holds its fence at its commit.      *)
(***************************************************************************)
LEMMA KeepsReceipts ==
  ASSUME DbTypes, ReqTypes, Requests, ReceiptMeansRouted, [Next]_vars
  PROVE  ReceiptMeansRouted'
<1>1. ASSUME routed \subseteq routed', receipt' \subseteq receipt
      PROVE  ReceiptMeansRouted'
  BY <1>1, Zenon DEF ReceiptMeansRouted
<1>2. ASSUME NEW r \in Req, Commit(r) PROVE ReceiptMeansRouted'
  <2>1. pc[r] = "commit" /\ r \notin severed /\ UNCHANGED routed /\ receipt' = Receipts(r)
    BY <1>2, Zenon DEF Commit
  <2>2. ASSUME NEW x \in receipt' \ receipt
        PROVE  x.frame = frame[r] /\ x.version = stamp[r] /\ frame[r].kind # "grant"
    <3>1. /\ x = [frame |-> frame[r], version |-> stamp[r]]
          /\ frame[r].kind # "grant"
      BY <2>1, <2>2, Zenon DEF Receipts
    <3> QED
      BY <3>1
  <2>3. frame[r].kind # "grant"
          => \E e \in routed : /\ e.frame = frame[r] /\ e.version = stamp[r]
                               /\ e.members \subseteq e.to
    <3>1. frame[r].kind # "grant" => Announced(r)
      <4>1. Current(r) /\ pc[r] \in Decided
        BY <2>1, Zenon DEF Requests, Decided
      <4> QED
        BY <2>1, <4>1, Zenon DEF Current
    <3> QED
      BY <3>1, Zenon DEF Announced
  <2> QED
    BY <2>1, <2>2, <2>3, Zenon DEF ReceiptMeansRouted
<1>3. ASSUME NEW r \in Req, Action(r), ~Commit(r) PROVE UNCHANGED receipt
  BY <1>3, Zenon DEF Action, Arrive, CheckAuthority, LookupHit, LookupMiss, TakeFence,
     GrantKnown, Authorize, Bind, BindFails, Reconcile, ReconcileFails, DeleteRows,
     InsertRow, RouteRecord, RouteTimesOut, Sever, Fail, dbVars
<1> QED
  BY <1>1, <1>2, <1>3, OnlyCommitMutates, StepIsOfRequest

-----------------------------------------------------------------------------
(* The invariant and what follows from it.                                 *)

(***************************************************************************)
(* The invariant holds at first and in every step.                         *)
(***************************************************************************)
THEOREM ScopeInvariant == Spec => []Inv
<1>1. Init => Inv
  <2> SUFFICES ASSUME Init PROVE Inv
    OBVIOUS
  <2>1. DbTypes
    BY FrameFacts, Zenon DEF Init, DbTypes, Version
  <2>2. ReqTypes
    BY Zenon DEF Init, ReqTypes, Version
  <2>3. Placed
    <3>1. \A f \in Frame, s \in Scope : f.id # version[s]
      BY FrameFacts, Zenon DEF Init
    <3> QED
      BY <3>1, FrameFacts, Zenon DEF Init, Placed
  <2>4. Requests /\ Fenced
    BY Zenon DEF Init, Requests, Decides, Current, Decided, Fenced, InFence
  <2>5. BoundFits /\ RoutedFits /\ FanoutReachesMembers /\ RowsNameMembers
        /\ ReceiptMeansRouted /\ severed \subseteq world.severable
    BY Zenon DEF Init, BoundFits, RoutedFits, FanoutReachesMembers, RowsNameMembers,
       ReceiptMeansRouted
  <2>6. AppliedIsAnnounced
    BY FrameFacts, Zenon DEF Init, AppliedIsAnnounced
  <2> QED
    BY <2>1, <2>2, <2>3, <2>4, <2>5, <2>6, TypesSplit DEF Inv
<1>2. Inv /\ [Next]_vars => Inv'
  <2> SUFFICES ASSUME Inv, [Next]_vars PROVE Inv'
    OBVIOUS
  <2>1. DbTypes /\ ReqTypes
    BY TypesSplit, Zenon DEF Inv
  <2>2. TypeOK'
    <3>1. DbTypes' /\ ReqTypes'
      BY <2>1, KeepsDbTypes, KeepsReqTypes, Zenon
    <3> QED
      BY <3>1 DEF TypeOK, DbTypes, ReqTypes, Version
  <2>3. severed' \subseteq world'.severable
    BY KeepsSeverable DEF Inv
  <2>4. Placed' /\ Requests' /\ Fenced'
    BY <2>1, KeepsPlaced, KeepsRequests, KeepsFenced DEF Inv
  <2>5. BoundFits' /\ RoutedFits'
    BY <2>1, KeepsBoundFits, KeepsRoutedFits DEF Inv
  <2>6. FanoutReachesMembers' /\ RowsNameMembers'
    BY <2>1, KeepsFanout, KeepsRows DEF Inv
  <2>7. AppliedIsAnnounced' /\ ReceiptMeansRouted'
    BY <2>1, KeepsAnnounced, KeepsReceipts DEF Inv
  <2> QED
    BY <2>2, <2>3, <2>4, <2>5, <2>6, <2>7, Zenon DEF Inv
<1> QED
  BY <1>1, <1>2, PTL DEF Spec

(***************************************************************************)
(* Rows, bindings and requests keep their types; only a request that is    *)
(* inside its fence can have lost it.                                      *)
(***************************************************************************)
THEOREM TypesHold == Spec => []TypeOK
<1>1. Inv => TypeOK
  BY DEF Inv
<1> QED
  BY <1>1, ScopeInvariant, PTL

(***************************************************************************)
(* If no fence is lost, publish routes every record to all the members of  *)
(* the version it is stamped with.                                         *)
(***************************************************************************)
THEOREM FanoutHolds == Spec => []FanoutReachesMembers
<1>1. Inv => FanoutReachesMembers
  BY DEF Inv
<1> QED
  BY <1>1, ScopeInvariant, PTL

(***************************************************************************)
(* A removed member does not receive the snapshot that removes it, nor what*)
(* is published under its version.                                         *)
(***************************************************************************)
THEOREM StrangersHolds == Spec => []StrangersExcluded
<1>1. Inv => StrangersExcluded
  BY DEF Inv, RoutedFits, StrangersExcluded
<1> QED
  BY <1>1, ScopeInvariant, PTL

(***************************************************************************)
(* If no fence is lost, a binding row names a current member, so that      *)
(* reconcile_scope_bindings never unbinds one.                             *)
(***************************************************************************)
THEOREM RowsHold == Spec => []RowsNameMembers
<1>1. Inv => RowsNameMembers
  BY DEF Inv
<1> QED
  BY <1>1, ScopeInvariant, PTL

(***************************************************************************)
(* A membership takes effect after the frame that made it was routed to    *)
(* every one of its members, though fences may be lost.                    *)
(***************************************************************************)
THEOREM AnnouncedHolds == Spec => []AppliedIsAnnounced
<1>1. Inv => AppliedIsAnnounced
  BY DEF Inv
<1> QED
  BY <1>1, ScopeInvariant, PTL

(***************************************************************************)
(* A receipt is kept only of a record that was routed to all the members   *)
(* of its version, though fences may be lost.                              *)
(***************************************************************************)
THEOREM ReceiptsHold == Spec => []ReceiptMeansRouted
<1>1. Inv => ReceiptMeansRouted
  BY DEF Inv
<1> QED
  BY <1>1, ScopeInvariant, PTL
=============================================================================
