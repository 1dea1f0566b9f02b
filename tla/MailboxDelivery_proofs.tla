----------------------- MODULE MailboxDelivery_proofs -----------------------
(***************************************************************************)
(* Proofs about MailboxDelivery, for any instances, messages and bounds,   *)
(* and that it implements AtLeastOnceMailbox.                              *)
(***************************************************************************)
EXTENDS MailboxDelivery, TLAPS

USE DEF brokerVars, queueVars, pageVars, drainVars, ownerVars, gapVars,
        pullVars, callVars

-----------------------------------------------------------------------------
(* Type correctness.                                                       *)

\* A closing channel returns messages, so it keeps the broker's types.
LEMMA RequeueType ==
  ASSUME returns \in [Message -> 0 .. DeliveryLimit],
         NEW ready \in SUBSET Message, NEW dead \in SUBSET Message,
         NEW S \in SUBSET Message, Requeue(ready, dead, S)
  PROVE  /\ queue' \subseteq Message /\ dlq' \subseteq Message
         /\ returns' \in [Message -> 0 .. DeliveryLimit]
BY ConstantsAssumption DEF Requeue, Exhausted

LEMMA UnackedType ==
  ASSUME TypeOK, NEW P \in SUBSET Page
  PROVE  Unacked(P) \in SUBSET Message
BY DEF TypeOK, Unacked

LEMMA TypePull ==
  ASSUME TypeOK, NEW p \in Page, Pull(p)
  PROVE  TypeOK'
<1>1. CASE \E i \in Instance : PullAcquire(p, i)
  BY <1>1 DEF TypeOK, PullAcquire, PullStep, TryAcquire, PullBusy
<1>2. CASE PullSweep(p)
  <2>1. ExpiredPages(pullInst[p]) \in SUBSET Page
    BY DEF ExpiredPages, TypeOK
  <2>2. Unacked(ExpiredPages(pullInst[p])) \in SUBSET Message
    BY <2>1, UnackedType
  <2>3. /\ queue' \subseteq Message /\ dlq' \subseteq Message
        /\ returns' \in [Message -> 0 .. DeliveryLimit]
    BY <1>2, <2>2, RequeueType DEF PullSweep, ClosePages, TypeOK
  <2>. QED
    BY <1>2, <2>1, <2>3 DEF TypeOK, PullSweep, PullStep, ClosePages, DropHeld, PullBusy
<1>3. ASSUME NEW h \in SUBSET queue, NEW r \in SUBSET h, PullOpen(p, h, r)
      PROVE  TypeOK'
  <2>1. /\ queue' \subseteq Message /\ dlq' \subseteq Message
        /\ returns' \in [Message -> 0 .. DeliveryLimit]
    <3>1. CASE Requeue(queue \ h, dlq, h \ r)
      <4>1. queue \ h \in SUBSET Message /\ dlq \in SUBSET Message /\ h \ r \in SUBSET Message
        BY DEF TypeOK
      <4>. QED  BY <3>1, <4>1, RequeueType, Zenon DEF TypeOK
    <3>2. CASE queue' = queue \ h /\ UNCHANGED <<returns, dlq>>
      BY <3>2 DEF TypeOK
    <3>. QED  BY <1>3, <3>1, <3>2 DEF PullOpen
  <2>2. held' \in [Page -> SUBSET Message] /\ tags' \in [Page -> SUBSET Message]
        /\ open' \subseteq Page
    BY <1>3 DEF PullOpen, TypeOK
  <2>. QED
    BY <1>3, <2>1, <2>2, ConstantsAssumption, Zenon DEF TypeOK, PullOpen, PullStep, PullBusy
<1>4. ASSUME NEW h \in SUBSET queue, NEW r \in SUBSET h, PullOpenFails(p, h, r)
      PROVE  TypeOK'
  <2>1. /\ queue' \subseteq Message /\ dlq' \subseteq Message
        /\ returns' \in [Message -> 0 .. DeliveryLimit]
    <3>1. queue \ h \in SUBSET Message /\ dlq \in SUBSET Message /\ h \ r \in SUBSET Message
      BY DEF TypeOK
    <3>. QED  BY <1>4, <3>1, RequeueType, Zenon DEF PullOpenFails, TypeOK
  <2>. QED
    BY <1>4, <2>1, ConstantsAssumption DEF TypeOK, PullOpenFails, PullStep, PullBusy
<1>5. CASE PullSelectGaps(p)
  BY <1>5 DEF TypeOK, PullSelectGaps, PullStep, Loadable, PullBusy
<1>6. CASE PullAssignGaps(p)
  BY <1>6 DEF TypeOK, PullAssignGaps, PullStep, PullBusy
<1>7. CASE PullReturn(p)
  BY <1>7 DEF TypeOK, PullReturn, PullStep, PullBusy
<1>8. CASE PullEmpty(p)
  BY <1>8, Zenon DEF TypeOK, PullEmpty, PullStep, ReleaseOwner, PullBusy
<1>9. CASE PullFails(p)
  BY <1>9 DEF TypeOK, PullFails, PullBusy
<1>. QED
  BY <1>1, <1>2, <1>3, <1>4, <1>5, <1>6, <1>7, <1>8, <1>9 DEF Pull

LEMMA TypeCommit ==
  ASSUME TypeOK, NEW c \in Call, Commit(c)
  PROVE  TypeOK'
<1>. USE DEF CallBusy, AtOwner, AtVia
<1>1. CASE \E p \in Page, v \in Instance : CommitStart(c, p, v)
  BY <1>1 DEF TypeOK, CommitStart, CallStep
<1>2. CASE CommitForward(c)
  BY <1>2 DEF TypeOK, CommitForward, CallStep
<1>3. CASE CommitCheck(c)
  BY <1>3 DEF TypeOK, CommitCheck, CallStep
<1>4. CASE CommitMiss(c)
  BY <1>4 DEF TypeOK, CommitMiss, CallStep
<1>5. ASSUME NEW p \in Page, NEW S \in SUBSET tags[p], AckAndClose(p, S)
      PROVE  /\ queue' \subseteq Message /\ dlq' \subseteq Message
             /\ returns' \in [Message -> 0 .. DeliveryLimit]
             /\ open' \subseteq Page /\ aged' \subseteq Page
             /\ acked' \subseteq Message
             /\ held' \in [Page -> SUBSET Message]
  <2>1. held[p] \ S \in SUBSET Message /\ queue \in SUBSET Message
        /\ dlq \in SUBSET Message
    BY DEF TypeOK
  <2>. QED
    BY <1>5, <2>1, RequeueType DEF AckAndClose, TypeOK
<1>6. CASE CommitAck(c)
  <2>1. callPage[c] \in Page
    BY <1>6 DEF CommitAck, TypeOK
  <2>. QED
    BY <1>5, <1>6, <2>1 DEF TypeOK, CommitAck, CallStep
<1>7. CASE CommitAckFails(c)
  <2>1. callPage[c] \in Page
    BY <1>7 DEF CommitAckFails, TypeOK
  <2>2. PICK S \in SUBSET (tags[callPage[c]] \cap held[callPage[c]]) :
          AckAndClose(callPage[c], S)
    BY <1>7 DEF CommitAckFails
  <2>. QED
    BY <1>5, <1>7, <2>1, <2>2 DEF TypeOK, CommitAckFails, CallStep
<1>8. CASE CommitRelease(c)
  BY <1>8, Zenon DEF TypeOK, CommitRelease, CallStep, ReleaseOwner
<1>9. CASE CommitGaps(c)
  BY <1>9 DEF TypeOK, CommitGaps, CallStep, PageGaps
<1>10. CASE CommitReleaseGaps(c)
  BY <1>10, Zenon DEF TypeOK, CommitReleaseGaps, CallStep, ReleaseOwner
<1>11. CASE CommitFails(c)
  BY <1>11 DEF TypeOK, CommitFails
<1>12. CASE CommitTimesOut(c)
  BY <1>12 DEF TypeOK, CommitTimesOut
<1>. QED
  BY <1>1, <1>2, <1>3, <1>4, <1>6, <1>7, <1>8, <1>9, <1>10, <1>11, <1>12 DEF Commit

LEMMA TypeProcess ==
  ASSUME TypeOK, NEW i \in Instance, Process(i)
  PROVE  TypeOK'
<1>0. Here(i) \in SUBSET Page /\ ExpiredPages(i) \in SUBSET Page
  BY DEF Here, ExpiredPages, TypeOK
<1>1. CASE Reap(i)
  <2>1. Unacked(ExpiredPages(i)) \in SUBSET Message
    BY <1>0, UnackedType
  <2>2. /\ queue' \subseteq Message /\ dlq' \subseteq Message
        /\ returns' \in [Message -> 0 .. DeliveryLimit]
    BY <1>1, <2>1, RequeueType, Zenon DEF Reap, ClosePages, TypeOK
  <2>. QED
    BY <1>1, <2>2 DEF TypeOK, Reap, ClosePages, DropHeld
<1>2. CASE Drain(i)
  <2>1. CASE \E m \in Message : DrainGet(i, m)
    BY <2>1 DEF TypeOK, DrainGet
  <2>2. CASE \E g \in GapRow : DrainRecord(i, g)
    BY <2>2 DEF TypeOK, DrainRecord
  <2>3. CASE DrainAck(i)
    BY <2>3 DEF TypeOK, DrainAck
  <2>4. CASE DrainFails(i)
    BY <2>4 DEF TypeOK, DrainFails
  <2>. QED
    BY <1>2, <2>1, <2>2, <2>3, <2>4 DEF Drain
<1>3. Draining({i}) \in SUBSET Message /\ Unacked(Here(i)) \in SUBSET Message
  BY <1>0, UnackedType DEF Draining, TypeOK
<1>4. ASSUME Requeue(queue, dlq \cup Draining({i}), Unacked(Here(i)))
      PROVE  /\ queue' \subseteq Message /\ dlq' \subseteq Message
             /\ returns' \in [Message -> 0 .. DeliveryLimit]
  <2>1. queue \in SUBSET Message /\ dlq \cup Draining({i}) \in SUBSET Message
    BY <1>3, Zenon DEF TypeOK
  <2>. QED  BY <1>3, <1>4, <2>1, RequeueType, Zenon DEF TypeOK
<1>5. CASE ConnectionLost(i)
  BY <1>4, <1>5 DEF TypeOK, ConnectionLost, DropHeld
<1>6. CASE Crash(i)
  <2>1. /\ queue' \subseteq Message /\ dlq' \subseteq Message
        /\ returns' \in [Message -> 0 .. DeliveryLimit]
    BY <1>4, <1>6 DEF Crash
  <2>2. /\ callPc' \in [Call -> CallBusy \cup {"idle", "ok", "gone", "failed"}]
        /\ callVia' \in [Call -> Instance \cup {Nil}]
        /\ pullPc' \in [Page -> PullBusy \cup {"idle", "returned", "empty", "failed"}]
    BY <1>6 DEF Crash, TypeOK
  <2>. QED
    BY <1>6, <2>1, <2>2 DEF TypeOK, Crash, DropHeld
<1>. QED
  BY <1>1, <1>2, <1>5, <1>6 DEF Process

LEMMA TypeRest ==
  ASSUME TypeOK, Broker \/ Timers \/ Cleanup
  PROVE  TypeOK'
<1>1. CASE Broker
  BY <1>1 DEF TypeOK, Broker, Enqueue, Expire
<1>2. CASE Timers
  BY <1>2, ZenonT(40) DEF TypeOK, Timers, LeaseLapses, PageAges, TokenExpires, GapFallsDue
<1>3. CASE Cleanup
  BY <1>3 DEF TypeOK, Cleanup, CleanupOwner, CleanupGap
<1>. QED
  BY <1>1, <1>2, <1>3, Zenon

\* Every variable keeps its type through pulls, commits, timers, background
\* loops and failures.
THEOREM TypeCorrect == Spec => []TypeOK
<1>1. Init => TypeOK
  <2>. SUFFICES ASSUME Init PROVE TypeOK
    OBVIOUS
  <2>1. returns \in [Message -> 0 .. DeliveryLimit]
    BY ConstantsAssumption DEF Init
  <2>2. leaseLive \in BOOLEAN
    BY Zenon DEF Init
  <2>3. filtered \subseteq SelfAuthored /\ linked \subseteq Instance
    BY DEF Init
  <2>. QED
    BY <2>1, <2>2, <2>3 DEF Init, TypeOK
<1>2. TypeOK /\ [Next]_vars => TypeOK'
  <2>1. TypeOK /\ UNCHANGED vars => TypeOK'
    BY DEF TypeOK, vars
  <2>. QED
    BY <2>1, TypePull, TypeCommit, TypeProcess, TypeRest DEF Next
<1>. QED
  BY <1>1, <1>2, PTL DEF Spec

-----------------------------------------------------------------------------
(* Pages and calls are used in order.                                      *)

Control == PagesFresh /\ CallsReturned

LEMMA ControlPull ==
  ASSUME TypeOK, Control, NEW p \in Page, Pull(p)
  PROVE  Control'
<1>. USE DEF Control, PagesFresh, CallsReturned, TypeOK, PullStep
<1>1. CASE \E i \in Instance : PullAcquire(p, i)
  BY <1>1 DEF PullAcquire
<1>2. CASE PullSweep(p)
  BY <1>2 DEF PullSweep, ClosePages
<1>3. CASE \E h \in SUBSET queue : \E r \in SUBSET h : PullOpen(p, h, r)
  BY <1>3 DEF PullOpen
<1>4. CASE \E h \in SUBSET queue : \E r \in SUBSET h : PullOpenFails(p, h, r)
  BY <1>4 DEF PullOpenFails
<1>5. CASE PullSelectGaps(p)
  BY <1>5 DEF PullSelectGaps
<1>6. CASE PullAssignGaps(p)
  BY <1>6 DEF PullAssignGaps
<1>7. CASE PullReturn(p)
  BY <1>7 DEF PullReturn
<1>8. CASE PullEmpty(p)
  BY <1>8, Zenon DEF PullEmpty
<1>9. CASE PullFails(p)
  BY <1>9 DEF PullFails, PullBusy
<1>. QED
  BY <1>1, <1>2, <1>3, <1>4, <1>5, <1>6, <1>7, <1>8, <1>9, Zenon DEF Pull

LEMMA ControlCommit ==
  ASSUME TypeOK, Control, NEW c \in Call, Commit(c)
  PROVE  Control'
<1>. USE DEF Control, PagesFresh, CallsReturned, TypeOK, CallStep
<1>1. CASE \E p \in Page, v \in Instance : CommitStart(c, p, v)
  BY <1>1 DEF CommitStart
<1>2. CASE CommitForward(c)
  BY <1>2 DEF CommitForward
<1>3. CASE CommitCheck(c)
  BY <1>3 DEF CommitCheck
<1>4. CASE CommitMiss(c)
  BY <1>4, Zenon DEF CommitMiss
<1>5. CASE CommitAck(c)
  BY <1>5, Zenon DEF CommitAck, AckAndClose
<1>6. CASE CommitAckFails(c)
  BY <1>6 DEF CommitAckFails, AckAndClose
<1>7. CASE CommitRelease(c)
  BY <1>7, Zenon DEF CommitRelease
<1>8. CASE CommitGaps(c)
  BY <1>8, Zenon DEF CommitGaps
<1>9. CASE CommitReleaseGaps(c)
  BY <1>9, Zenon DEF CommitReleaseGaps
<1>10. CASE CommitFails(c)
  BY <1>10 DEF CommitFails, CallBusy, AtOwner, AtVia
<1>11. CASE CommitTimesOut(c)
  BY <1>11, Zenon DEF CommitTimesOut, CallBusy, AtOwner, AtVia
<1>. QED
  BY <1>1, <1>2, <1>3, <1>4, <1>5, <1>6, <1>7, <1>8, <1>9, <1>10, <1>11, Zenon DEF Commit

LEMMA ControlProcess ==
  ASSUME TypeOK, Control, NEW i \in Instance, Process(i)
  PROVE  Control'
<1>. USE DEF Control, PagesFresh, CallsReturned, TypeOK
<1>1. CASE Reap(i)
  BY <1>1, Zenon DEF Reap, ClosePages
<1>2. CASE Drain(i)
  BY <1>2, Zenon DEF Drain, DrainGet, DrainRecord, DrainAck, DrainFails
<1>3. CASE ConnectionLost(i)
  BY <1>3, Zenon DEF ConnectionLost
<1>4. CASE Crash(i)
  <2>1. \A p \in Page : /\ pullPc'[p] # pullPc[p] => pullPc[p] \in PullBusy /\ pullPc'[p] = "failed"
                        /\ pullPc[p] = "returned" => pullPc'[p] = "returned"
    BY <1>4 DEF Crash, PullBusy
  <2>2. \A c \in Call : callPc'[c] # "idle" => callPc[c] # "idle"
    BY <1>4, Zenon DEF Crash, AtVia, AtOwner
  <2>. QED
    BY <1>4, <2>1, <2>2, Zenon DEF Crash
<1>. QED
  BY <1>1, <1>2, <1>3, <1>4, Zenon DEF Process

LEMMA ControlRest ==
  ASSUME TypeOK, Control, Broker \/ Timers \/ Cleanup
  PROVE  Control'
<1>. USE DEF Control, PagesFresh, CallsReturned
<1>1. CASE Broker
  BY <1>1, ZenonT(40) DEF Broker, Enqueue, Expire
<1>2. CASE Timers
  BY <1>2, Zenon DEF Timers, LeaseLapses, PageAges, TokenExpires, GapFallsDue
<1>3. CASE Cleanup
  BY <1>3, Zenon DEF Cleanup, CleanupOwner, CleanupGap
<1>. QED
  BY <1>1, <1>2, <1>3

\* A page id is opened once, and only the token of a returned page is used.
THEOREM ControlCorrect == Spec => []Control
<1>1. Init => Control
  BY DEF Init, Control, PagesFresh, CallsReturned
<1>2. TypeOK /\ Control /\ [Next]_vars => Control'
  <2>1. Control /\ UNCHANGED vars => Control'
    BY Zenon DEF Control, PagesFresh, CallsReturned, vars
  <2>. QED
    BY <2>1, ControlPull, ControlCommit, ControlProcess, ControlRest, Zenon DEF Next
<1>. QED
  BY <1>1, <1>2, TypeCorrect, PTL DEF Spec

-----------------------------------------------------------------------------
(* Channels hold what their pages need, and no page is stranded.           *)

Holding == HeldIsReclaimable /\ PagesHold

LEMMA HoldingPull ==
  ASSUME TypeOK, Control, Holding, NEW p \in Page, Pull(p)
  PROVE  Holding'
<1>. USE DEF Holding, HeldIsReclaimable, PagesHold, TypeOK, PullStep
<1>1. CASE \E i \in Instance : PullAcquire(p, i)
  BY <1>1 DEF PullAcquire, Control, PagesFresh
<1>2. CASE PullSweep(p)
  BY <1>2, Zenon DEF PullSweep, ClosePages, DropHeld
<1>3. CASE \E h \in SUBSET queue : \E r \in SUBSET h : PullOpen(p, h, r)
  BY <1>3 DEF PullOpen, Control, PagesFresh
<1>4. CASE \E h \in SUBSET queue : \E r \in SUBSET h : PullOpenFails(p, h, r)
  BY <1>4, Zenon DEF PullOpenFails
<1>5. CASE PullSelectGaps(p)
  BY <1>5, Zenon DEF PullSelectGaps
<1>6. CASE PullAssignGaps(p)
  BY <1>6, Zenon DEF PullAssignGaps
<1>7. CASE PullReturn(p)
  BY <1>7, Zenon DEF PullReturn
<1>8. CASE PullEmpty(p)
  BY <1>8 DEF PullEmpty
<1>9. CASE PullFails(p)
  BY <1>9, Zenon DEF PullFails
<1>. QED
  BY <1>1, <1>2, <1>3, <1>4, <1>5, <1>6, <1>7, <1>8, <1>9, Zenon DEF Pull

LEMMA HoldingCommit ==
  ASSUME TypeOK, Holding, NEW c \in Call, Commit(c)
  PROVE  Holding'
<1>. USE DEF Holding, HeldIsReclaimable, PagesHold, TypeOK
<1>1. CASE CommitAck(c) \/ CommitAckFails(c)
  BY <1>1, Zenon DEF CommitAck, CommitAckFails, AckAndClose
<1>2. CASE UNCHANGED <<held, open, tags, pullInst, linked>>
  BY <1>2, Zenon
<1>. QED
  BY <1>1, <1>2 DEF Commit, CommitStart, CommitForward, CommitCheck, CommitMiss,
     CommitRelease, CommitGaps, CommitReleaseGaps, CommitTimesOut, CommitFails

LEMMA HoldingProcess ==
  ASSUME TypeOK, Holding, NEW i \in Instance, Process(i)
  PROVE  Holding'
<1>. USE DEF Holding, HeldIsReclaimable, PagesHold, TypeOK
<1>1. CASE Reap(i)
  BY <1>1, Zenon DEF Reap, ClosePages, DropHeld
<1>2. CASE Drain(i)
  BY <1>2, Zenon DEF Drain, DrainGet, DrainRecord, DrainAck, DrainFails
<1>3. CASE ConnectionLost(i)
  BY <1>3 DEF ConnectionLost, DropHeld, Here
<1>4. CASE Crash(i)
  BY <1>4, Zenon DEF Crash, DropHeld, Here
<1>. QED
  BY <1>1, <1>2, <1>3, <1>4, Zenon DEF Process

LEMMA HoldingRest ==
  ASSUME Holding, Broker \/ Timers \/ Cleanup
  PROVE  Holding'
BY DEF Holding, HeldIsReclaimable, PagesHold, Broker, Enqueue, Expire, Timers,
   LeaseLapses, PageAges, TokenExpires, GapFallsDue, Cleanup, CleanupOwner,
   CleanupGap

\* Unacknowledged messages always sit on the channel of a pending page of a
\* connected instance, where its reaper finds them (HeldIsReclaimable); and a
\* pending page of a connected instance still holds all it must ACK.
THEOREM HoldingCorrect == Spec => []Holding
<1>1. Init => Holding
  BY DEF Init, Holding, HeldIsReclaimable, PagesHold
<1>2. TypeOK /\ Control /\ Holding /\ [Next]_vars => Holding'
  <2>1. Holding /\ UNCHANGED vars => Holding'
    BY Zenon DEF Holding, HeldIsReclaimable, PagesHold, vars
  <2>. QED
    BY <2>1, HoldingPull, HoldingCommit, HoldingProcess, HoldingRest DEF Next
<1>. QED
  BY <1>1, <1>2, TypeCorrect, ControlCorrect, PTL DEF Spec

-----------------------------------------------------------------------------
(* Every message is in exactly one place.                                  *)

OnChannel(m) == \E p \in Page : m \in held[p]
Drained(m)   == \E i \in Instance : drain[i] = m

\* EveryMessageAccounted, message by message.
InOnePlace(m) ==
  /\ m \in sent <=> \/ m \in queue \/ OnChannel(m) \/ m \in dlq \/ Drained(m)
                    \/ m \in acked \/ m \in filtered \/ m \in gapped
  /\ m \in queue => /\ ~OnChannel(m) /\ m \notin dlq /\ ~Drained(m)
                    /\ m \notin acked /\ m \notin filtered /\ m \notin gapped
  /\ OnChannel(m) => /\ m \notin dlq /\ ~Drained(m)
                     /\ m \notin acked /\ m \notin filtered /\ m \notin gapped
  /\ m \in dlq => /\ ~Drained(m)
                  /\ m \notin acked /\ m \notin filtered /\ m \notin gapped
  /\ Drained(m) => m \notin acked /\ m \notin filtered /\ m \notin gapped
  /\ m \in acked => m \notin filtered /\ m \notin gapped
  /\ m \in filtered => m \notin gapped
  /\ \A p, q \in Page : m \in held[p] /\ m \in held[q] => p = q
  /\ \A i, j \in Instance : drain[i] = m /\ drain[j] = m => i = j

Accounted == \A m \in Message : InOnePlace(m)

LEMMA AccountedSuffices ==
  ASSUME TypeOK, Accounted
  PROVE  EveryMessageAccounted
<1>1. \A m : m \in Unacked(Page) <=> OnChannel(m)
  BY ZenonT(40) DEF Unacked, OnChannel
<1>2. \A m \in Message : m \in Draining(Instance) <=> Drained(m)
  BY ConstantsAssumption, Zenon DEF Draining, Drained
<1>3. Unacked(Page) \subseteq Message /\ Draining(Instance) \subseteq Message
  BY DEF Unacked, Draining, TypeOK
<1>4. filtered \subseteq Message
  BY ConstantsAssumption DEF TypeOK
<1>. QED
  BY <1>1, <1>2, <1>3, <1>4
     DEF Accounted, InOnePlace, EveryMessageAccounted, Settled, TypeOK

\* Closing the channels of some pages only moves their messages back.
LEMMA AccountedClose ==
  ASSUME TypeOK, Accounted, NEW P \in SUBSET Page,
         DropHeld(P), Requeue(queue, dlq, Unacked(P)),
         UNCHANGED <<sent, drain, acked, filtered, gapped>>
  PROVE  Accounted'
<1>1. \A m : m \in Unacked(P) <=> \E p \in P : m \in held[p]
  BY DEF Unacked
<1>2. \A m, p : p \in Page => (m \in held'[p] <=> p \notin P /\ m \in held[p])
  BY DEF DropHeld
<1>3. \A m : /\ m \in queue' <=> m \in queue \/ (m \in Unacked(P) /\ returns[m] # DeliveryLimit)
             /\ m \in dlq' <=> m \in dlq \/ (m \in Unacked(P) /\ returns[m] = DeliveryLimit)
  BY Zenon DEF Requeue, Exhausted
<1>4. \A m \in Message : OnChannel(m)' <=> OnChannel(m) /\ m \notin Unacked(P)
  BY <1>1, <1>2, Zenon DEF OnChannel, Accounted, InOnePlace
<1>5. \A m \in Message : m \in Unacked(P) => OnChannel(m)
  BY <1>1 DEF OnChannel
<1>6. \A m \in Message : Drained(m)' <=> Drained(m)
  BY DEF Drained
<1>. QED
  BY <1>2, <1>3, <1>4, <1>5, <1>6, ZenonT(40) DEF Accounted, InOnePlace

LEMMA AccountedPullOpen ==
  ASSUME TypeOK, Control, Holding, Accounted, NEW p \in Page,
         NEW h \in SUBSET queue, NEW r \in SUBSET h, PullOpen(p, h, r)
  PROVE  Accounted'
<1>0. held[p] = {}
  BY DEF PullOpen, PullStep, Control, PagesFresh, Holding, HeldIsReclaimable
<1>1. \A m \in Message : Drained(m)' <=> Drained(m)
  BY Zenon DEF PullOpen, Drained
<1>2. CASE r \ SelfAuthored # {}
  <2>1. /\ queue' = queue \ h /\ dlq' = dlq
        /\ filtered' = filtered \cup (r \cap SelfAuthored)
        /\ held' = [held EXCEPT ![p] = h \ (r \cap SelfAuthored)]
        /\ UNCHANGED <<sent, acked, gapped, drain>>
    BY <1>2, Zenon DEF PullOpen
  <2>2. \A m \in Message : \A q \in Page : m \in held'[q] <=>
          IF q = p THEN m \in h /\ m \notin r \cap SelfAuthored ELSE m \in held[q]
    BY <2>1, Zenon DEF TypeOK
  <2>3. \A m \in Message : OnChannel(m)' <=>
          OnChannel(m) \/ (m \in h /\ m \notin r \cap SelfAuthored)
    BY <1>0, <2>2 DEF OnChannel
  <2>. QED
    BY <1>0, <1>1, <2>1, <2>2, <2>3 DEF Accounted, InOnePlace, OnChannel
<1>3. CASE r \ SelfAuthored = {}
  <2>1. /\ Requeue(queue \ h, dlq, h \ r)
        /\ filtered' = filtered \cup (r \cap SelfAuthored)
        /\ UNCHANGED <<sent, acked, gapped, drain, held>>
    BY <1>3 DEF PullOpen
  <2>2. \A m : /\ m \in queue' <=> m \in queue \ h \/ (m \in h \ r /\ returns[m] # DeliveryLimit)
               /\ m \in dlq' <=> m \in dlq \/ (m \in h \ r /\ returns[m] = DeliveryLimit)
    BY <2>1, Zenon DEF Requeue, Exhausted
  <2>3. \A m : OnChannel(m)' <=> OnChannel(m)
    BY <2>1 DEF OnChannel
  <2>4. r \subseteq SelfAuthored
    BY <1>3
  <2>. QED
    BY <1>1, <2>1, <2>2, <2>3, <2>4, Zenon DEF Accounted, InOnePlace
<1>. QED
  BY <1>2, <1>3, Zenon

LEMMA AccountedPullOpenFails ==
  ASSUME TypeOK, Accounted, NEW p \in Page,
         NEW h \in SUBSET queue, NEW r \in SUBSET h, PullOpenFails(p, h, r)
  PROVE  Accounted'
<1>1. \A m : /\ m \in queue' <=> m \in queue \ h \/ (m \in h \ r /\ returns[m] # DeliveryLimit)
             /\ m \in dlq' <=> m \in dlq \/ (m \in h \ r /\ returns[m] = DeliveryLimit)
  BY DEF PullOpenFails, Requeue, Exhausted
<1>2. \A m : /\ OnChannel(m)' <=> OnChannel(m)
             /\ Drained(m)' <=> Drained(m)
  BY Zenon DEF OnChannel, Drained, PullOpenFails
<1>. QED
  BY <1>1, <1>2, Zenon DEF Accounted, InOnePlace, PullOpenFails

LEMMA AccountedAckAndClose ==
  ASSUME TypeOK, Accounted, NEW p \in Page, NEW S \in SUBSET held[p],
         AckAndClose(p, S), UNCHANGED <<sent, drain, filtered, gapped>>
  PROVE  Accounted'
<1>1. \A m : /\ m \in queue' <=> m \in queue \/ (m \in held[p] \ S /\ returns[m] # DeliveryLimit)
             /\ m \in dlq' <=> m \in dlq \/ (m \in held[p] \ S /\ returns[m] = DeliveryLimit)
  BY DEF AckAndClose, Requeue, Exhausted
<1>2. \A m, q : q \in Page => (m \in held'[q] <=> q # p /\ m \in held[q])
  BY Zenon DEF AckAndClose, TypeOK
<1>3. \A m \in Message : OnChannel(m)' <=> OnChannel(m) /\ m \notin held[p]
  BY <1>2, Zenon DEF OnChannel, Accounted, InOnePlace
<1>4. \A m \in Message : Drained(m)' <=> Drained(m)
  BY Zenon DEF Drained
<1>5. \A m \in held[p] : OnChannel(m)
  BY DEF OnChannel
<1>6. acked' = acked \cup S
  BY DEF AckAndClose
<1>. QED
  BY <1>1, <1>2, <1>3, <1>4, <1>5, <1>6, Zenon DEF Accounted, InOnePlace

\* A lost connection or process returns its messages and its dead letter.
LEMMA AccountedFailure ==
  ASSUME TypeOK, Accounted, NEW i \in Instance, NEW P \in SUBSET Page,
         DropHeld(P), Requeue(queue, dlq \cup Draining({i}), Unacked(P)),
         drain' = [drain EXCEPT ![i] = Nil],
         UNCHANGED <<sent, acked, filtered, gapped>>
  PROVE  Accounted'
<1>1. \A m : m \in Unacked(P) <=> \E p \in P : m \in held[p]
  BY Zenon DEF Unacked
<1>2. \A m, p : p \in Page => (m \in held'[p] <=> p \notin P /\ m \in held[p])
  BY DEF DropHeld
<1>3. \A m \in Message : m \in Draining({i}) <=> drain[i] = m
  BY ConstantsAssumption DEF Draining
<1>4. \A m \in Message :
        /\ m \in queue' <=> m \in queue \/ (m \in Unacked(P) /\ returns[m] # DeliveryLimit)
        /\ m \in dlq' <=> \/ m \in dlq \/ drain[i] = m
                          \/ (m \in Unacked(P) /\ returns[m] = DeliveryLimit)
  BY <1>3, Zenon DEF Requeue, Exhausted
<1>5. \A m \in Message : OnChannel(m)' <=> OnChannel(m) /\ m \notin Unacked(P)
  BY <1>1, <1>2, Zenon DEF OnChannel, Accounted, InOnePlace
<1>6. \A m \in Message : m \in Unacked(P) => OnChannel(m)
  BY <1>1 DEF OnChannel
<1>7. \A j \in Instance : \A m \in Message : drain'[j] = m <=> j # i /\ drain[j] = m
  BY ConstantsAssumption, Zenon DEF TypeOK
<1>8. \A m \in Message : Drained(m)' <=> Drained(m) /\ drain[i] # m
  BY <1>7 DEF Drained, Accounted, InOnePlace
<1>9. \A m \in Message : drain[i] = m => Drained(m)
  BY DEF Drained
<1>. QED
  BY <1>2, <1>4, <1>5, <1>6, <1>7, <1>8, <1>9, ZenonT(40) DEF Accounted, InOnePlace

LEMMA AccountedDrain ==
  ASSUME TypeOK, Accounted, NEW i \in Instance, Drain(i)
  PROVE  Accounted'
<1>1. \A m : OnChannel(m)' <=> OnChannel(m)
  BY Zenon DEF OnChannel, Drain, DrainGet, DrainRecord, DrainAck, DrainFails
<1>2. CASE \E m \in Message : DrainGet(i, m)
  <2>1. PICK d \in Message : DrainGet(i, d)
    BY <1>2, Zenon
  <2>2. \A j \in Instance : \A m \in Message :
          drain'[j] = m <=> IF j = i THEN m = d ELSE drain[j] = m
    BY <2>1 DEF DrainGet, TypeOK
  <2>3. \A m \in Message : Drained(m)' <=> m = d \/ Drained(m)
    BY <2>1, <2>2, ConstantsAssumption DEF DrainGet, Drained
  <2>4. SUFFICES ASSUME NEW m \in Message PROVE InOnePlace(m)'
    BY DEF Accounted
  <2>5. InOnePlace(m) /\ InOnePlace(d)
    BY DEF Accounted
  <2>6. \A j, k \in Instance : drain'[j] = m /\ drain'[k] = m => j = k
    BY <2>1, <2>2, <2>5, Zenon DEF DrainGet, InOnePlace, Drained
  <2>. QED
    BY <1>1, <2>1, <2>3, <2>5, <2>6, Zenon DEF DrainGet, InOnePlace
<1>3. CASE \E g \in GapRow : DrainRecord(i, g)
  BY <1>1, <1>3, ZenonT(40) DEF DrainRecord, Accounted, InOnePlace, Drained
<1>4. ASSUME DrainAck(i) \/ DrainFails(i)
      PROVE  /\ \A j \in Instance : \A m \in Message :
                  drain'[j] = m <=> j # i /\ drain[j] = m
             /\ \A m \in Message : Drained(m)' <=> Drained(m) /\ m # drain[i]
             /\ drain[i] \in Message /\ Drained(drain[i])
  <2>1. drain' = [drain EXCEPT ![i] = Nil] /\ drain[i] # Nil
    BY <1>4, Zenon DEF DrainAck, DrainFails
  <2>2. \A j \in Instance : \A m \in Message : drain'[j] = m <=> j # i /\ drain[j] = m
    BY <2>1, ConstantsAssumption DEF TypeOK
  <2>. QED
    BY <2>1, <2>2 DEF Drained, Accounted, InOnePlace, TypeOK
<1>5. CASE DrainAck(i)
  <2>1. SUFFICES ASSUME NEW m \in Message PROVE InOnePlace(m)'
    BY Zenon DEF Accounted
  <2>2. InOnePlace(m) /\ InOnePlace(drain[i])
    BY <1>4, <1>5 DEF Accounted
  <2>3. \A j, k \in Instance : drain'[j] = m /\ drain'[k] = m => j = k
    BY <1>4, <1>5, <2>2, Zenon DEF InOnePlace
  <2>. QED
    BY <1>1, <1>4, <1>5, <2>2, <2>3, Zenon DEF DrainAck, InOnePlace
<1>6. CASE DrainFails(i)
  <2>1. SUFFICES ASSUME NEW m \in Message PROVE InOnePlace(m)'
    BY DEF Accounted
  <2>2. InOnePlace(m) /\ InOnePlace(drain[i])
    BY <1>4, <1>6 DEF Accounted
  <2>3. \A j, k \in Instance : drain'[j] = m /\ drain'[k] = m => j = k
    BY <1>4, <1>6, <2>2, Zenon DEF InOnePlace
  <2>. QED
    BY <1>1, <1>4, <1>6, <2>2, <2>3, Zenon DEF DrainFails, InOnePlace
<1>. QED
  BY <1>2, <1>3, <1>5, <1>6 DEF Drain

LEMMA AccountedBroker ==
  ASSUME TypeOK, Accounted, Broker
  PROVE  Accounted'
<1>1. \A m : (OnChannel(m)' <=> OnChannel(m)) /\ (Drained(m)' <=> Drained(m))
  BY ZenonT(40) DEF OnChannel, Drained, Broker, Enqueue, Expire
<1>2. CASE \E m \in Message : Enqueue(m)
  <2>1. PICK d \in Message : Enqueue(d)
    BY <1>2
  <2>2. SUFFICES ASSUME NEW m \in Message PROVE InOnePlace(m)'
    BY DEF Accounted
  <2>3. InOnePlace(m)
    BY DEF Accounted
  <2>4. m \in sent' <=> m \in sent \/ m = d
    BY <2>1, Zenon DEF Enqueue
  <2>5. m \in queue' <=> m \in queue \/ m = d
    BY <2>1, Zenon DEF Enqueue
  <2>6. d \notin sent /\ UNCHANGED <<held, dlq, acked, filtered, gapped, drain>>
    BY <2>1, Zenon DEF Enqueue, drainVars
  <2>. QED
    BY <1>1, <2>3, <2>4, <2>5, <2>6, ZenonT(40) DEF InOnePlace
<1>3. CASE \E m \in Message : Expire(m)
  <2>1. PICK d \in Message : Expire(d)
    BY <1>3
  <2>2. SUFFICES ASSUME NEW m \in Message PROVE InOnePlace(m)'
    BY DEF Accounted
  <2>3. InOnePlace(m)
    BY DEF Accounted
  <2>4. m \in queue' <=> m \in queue /\ m # d
    BY <2>1, Zenon DEF Expire
  <2>5. m \in dlq' <=> m \in dlq \/ m = d
    BY <2>1, Zenon DEF Expire
  <2>6. d \in queue /\ UNCHANGED <<sent, held, acked, filtered, gapped, drain>>
    BY <2>1, Zenon DEF Expire, drainVars
  <2>. QED
    BY <1>1, <2>3, <2>4, <2>5, <2>6, ZenonT(40) DEF InOnePlace
<1>. QED
  BY <1>2, <1>3 DEF Broker

LEMMA AccountedNext ==
  ASSUME TypeOK, Control, Holding, Accounted, [Next]_vars
  PROVE  Accounted'
<1>1. ASSUME UNCHANGED <<sent, queue, held, dlq, acked, filtered, gapped, drain>>
      PROVE  Accounted'
  BY <1>1 DEF Accounted, InOnePlace, OnChannel, Drained
<1>2. ASSUME NEW p \in Page, Pull(p) PROVE Accounted'
  <2>1. CASE PullSweep(p)
    <3>1. ExpiredPages(pullInst[p]) \in SUBSET Page
      BY DEF ExpiredPages, TypeOK
    <3>. QED
      BY <2>1, <3>1, AccountedClose, Zenon DEF PullSweep, ClosePages
  <2>2. CASE \E h \in SUBSET queue : \E r \in SUBSET h : PullOpen(p, h, r)
    BY <2>2, AccountedPullOpen
  <2>3. CASE \E h \in SUBSET queue : \E r \in SUBSET h : PullOpenFails(p, h, r)
    BY <2>3, AccountedPullOpenFails
  <2>. QED
    BY <1>1, <1>2, <2>1, <2>2, <2>3, Zenon DEF Pull, PullAcquire, PullSelectGaps,
       PullAssignGaps, PullReturn, PullEmpty, PullFails
<1>3. ASSUME NEW c \in Call, Commit(c) PROVE Accounted'
  <2>1. CASE CommitAck(c)
    <3>1. callPage[c] \in Page /\ tags[callPage[c]] \in SUBSET held[callPage[c]]
      BY <2>1, Zenon DEF CommitAck, TypeOK, Holding, PagesHold
    <3>. QED
      BY <2>1, <3>1, AccountedAckAndClose, Zenon DEF CommitAck
  <2>2. CASE CommitAckFails(c)
    <3>1. callPage[c] \in Page
      BY <2>2, Zenon DEF CommitAckFails, TypeOK
    <3>2. PICK S \in SUBSET (tags[callPage[c]] \cap held[callPage[c]]) :
            AckAndClose(callPage[c], S)
      BY <2>2, Zenon DEF CommitAckFails
    <3>. QED
      BY <2>2, <3>1, <3>2, AccountedAckAndClose, Zenon DEF CommitAckFails
  <2>. QED
    BY <1>1, <1>3, <2>1, <2>2, ZenonT(40) DEF Commit, CommitStart, CommitForward, CommitCheck,
       CommitMiss, CommitRelease, CommitGaps, CommitReleaseGaps, CommitTimesOut, CommitFails
<1>4. ASSUME NEW i \in Instance, Process(i) PROVE Accounted'
  <2>1. Here(i) \in SUBSET Page /\ ExpiredPages(i) \in SUBSET Page
    BY Zenon DEF Here, ExpiredPages, TypeOK
  <2>2. CASE Reap(i)
    BY <2>1, <2>2, AccountedClose DEF Reap, ClosePages
  <2>3. CASE ConnectionLost(i)
    BY <2>1, <2>3, AccountedFailure, Zenon DEF ConnectionLost
  <2>4. CASE Crash(i)
    BY <2>1, <2>4, AccountedFailure, Zenon DEF Crash
  <2>. QED
    BY <1>4, <2>2, <2>3, <2>4, AccountedDrain, Zenon DEF Process
<1>5. CASE Timers \/ Cleanup \/ UNCHANGED vars
  BY <1>1, <1>5, ZenonT(40) DEF Timers, LeaseLapses, PageAges, TokenExpires, GapFallsDue,
     Cleanup, CleanupOwner, CleanupGap, vars
<1>. QED
  BY <1>2, <1>3, <1>4, <1>5, AccountedBroker, Zenon DEF Next

\* Every message has exactly one place, the pointwise form of the next theorem.
THEOREM AccountedCorrect == Spec => []Accounted
<1>1. Init => Accounted
  BY ConstantsAssumption DEF Init, Accounted, InOnePlace, OnChannel, Drained
<1>2. TypeOK /\ Control /\ Holding /\ Accounted /\ [Next]_vars => Accounted'
  BY AccountedNext
<1>. QED
  BY <1>1, <1>2, TypeCorrect, ControlCorrect, HoldingCorrect, PTL DEF Spec

\* No confirmed message is ever lost or duplicated by a pull, a commit, the
\* reaper, the dead-letter recorder, a cut connection or a crash.
THEOREM MessagesAccounted == Spec => []EveryMessageAccounted
<1>1. TypeOK /\ Accounted => EveryMessageAccounted
  BY AccountedSuffices
<1>. QED
  BY <1>1, TypeCorrect, AccountedCorrect, PTL

-----------------------------------------------------------------------------
(* What a client has been given and has asked for never changes.           *)

\* A returned page keeps its deliveries and gap rows, and a request that has
\* started keeps its page.
Persist ==
  /\ \A p \in Page : pullPc[p] = "returned" =>
       pullPc'[p] = "returned" /\ tags'[p] = tags[p] /\ sel'[p] = sel[p]
  /\ \A c \in Call : callPc[c] # "idle" =>
       callPc'[c] # "idle" /\ callPage'[c] = callPage[c]

LEMMA Persistent ==
  ASSUME TypeOK, [Next]_vars
  PROVE  Persist
<1>1. ASSUME NEW p \in Page, Pull(p) PROVE Persist
  <2>1. UNCHANGED callVars
    BY <1>1, Zenon DEF Pull, PullAcquire, PullSweep, PullOpen, PullOpenFails, PullFails,
       PullSelectGaps, PullAssignGaps, PullReturn, PullEmpty
  <2>2. /\ pullPc[p] # "returned"
        /\ \A q \in Page \ {p} : pullPc'[q] = pullPc[q] /\ tags'[q] = tags[q]
                                 /\ sel'[q] = sel[q]
    BY <1>1, ZenonT(40) DEF Pull, PullAcquire, PullSweep, PullOpen, PullOpenFails, PullFails,
       PullSelectGaps, PullAssignGaps, PullReturn, PullEmpty, PullStep, PullBusy, TypeOK
  <2>. QED
    BY <2>1, <2>2 DEF Persist
<1>2. ASSUME NEW c \in Call, Commit(c) PROVE Persist
  <2>1. UNCHANGED <<pullVars, tags>>
    BY <1>2, Zenon DEF Commit, CommitStart, CommitForward, CommitCheck, CommitMiss,
       CommitAck, CommitAckFails, CommitRelease, CommitGaps, CommitReleaseGaps,
       CommitTimesOut, CommitFails
  <2>2. CASE \E p \in Page, v \in Instance : CommitStart(c, p, v)
    BY <2>1, <2>2, ZenonT(40) DEF Persist, CommitStart, CallStep, TypeOK
  <2>3. CASE CommitTimesOut(c)
    BY <2>1, <2>3, Zenon DEF Persist, CommitTimesOut
  <2>4. CASE ~ \/ \E p \in Page, v \in Instance : CommitStart(c, p, v)
               \/ CommitTimesOut(c)
    <3>1. UNCHANGED callPage
      BY <1>2, <2>4, Zenon DEF Commit, CommitForward, CommitCheck, CommitMiss, CommitAck,
         CommitAckFails, CommitRelease, CommitGaps, CommitReleaseGaps, CommitFails
    <3>2. \E pc \in CallBusy \cup {"ok", "gone", "failed"} : callPc' = [callPc EXCEPT ![c] = pc]
      BY <1>2, <2>4, Zenon DEF Commit, CommitForward, CommitCheck, CommitMiss, CommitAck,
         CommitAckFails, CommitRelease, CommitGaps, CommitReleaseGaps, CommitFails,
         CallStep, CallBusy, AtOwner, AtVia
    <3>. QED
      BY <2>1, <3>1, <3>2 DEF Persist, TypeOK, CallBusy, AtOwner, AtVia
  <2>. QED
    BY <2>2, <2>3, <2>4
<1>3. ASSUME NEW i \in Instance, Process(i) PROVE Persist
  <2>1. CASE Crash(i)
    <3>1. \A p \in Page : pullPc[p] = "returned" => pullPc'[p] = "returned"
      BY <2>1, Zenon DEF Crash, PullBusy
    <3>2. \A c \in Call : callPc[c] # "idle" => callPc'[c] # "idle"
      BY <2>1, Zenon DEF Crash
    <3>. QED
      BY <2>1, <3>1, <3>2, Zenon DEF Crash, Persist
  <2>. QED
    BY <1>3, <2>1, Zenon DEF Process, Persist, Reap, ConnectionLost, Drain, DrainGet,
       DrainRecord, DrainAck, DrainFails
<1>4. CASE Broker \/ Timers \/ Cleanup \/ UNCHANGED vars
  BY <1>4, Zenon DEF Persist, Broker, Enqueue, Expire, Timers, LeaseLapses, PageAges,
     TokenExpires, GapFallsDue, Cleanup, CleanupOwner, CleanupGap, vars
<1>. QED
  BY <1>1, <1>2, <1>3, <1>4 DEF Next

\* Only a commit that is about to leave "owned" ACKs, and only deliveries of
\* its own page.
LEMMA AckedGrows ==
  ASSUME TypeOK, [Next]_vars
  PROVE  \/ UNCHANGED acked
         \/ \E c \in Call : /\ callPc[c] = "owned"
                            /\ acked' \subseteq acked \cup tags[callPage[c]]
                            /\ acked \subseteq acked'
<1>1. ASSUME NEW c \in Call, Commit(c), acked' # acked
      PROVE  /\ callPc[c] = "owned"
             /\ acked' \subseteq acked \cup tags[callPage[c]]
             /\ acked \subseteq acked'
  <2>1. CASE CommitAck(c)
    BY <2>1, Zenon DEF CommitAck, AckAndClose, CallStep
  <2>2. CASE CommitAckFails(c)
    BY <2>2, Zenon DEF CommitAckFails, AckAndClose, CallStep
  <2>. QED
    BY <1>1, <2>1, <2>2, Zenon DEF Commit, CommitStart, CommitForward, CommitCheck,
       CommitMiss, CommitRelease, CommitGaps, CommitReleaseGaps, CommitTimesOut, CommitFails
<1>2. ASSUME NEW p \in Page, Pull(p) PROVE UNCHANGED acked
  BY <1>2, ZenonT(40) DEF Pull, PullAcquire, PullSweep, PullOpen, PullOpenFails, PullFails,
     PullSelectGaps, PullAssignGaps, PullReturn, PullEmpty
<1>3. ASSUME NEW i \in Instance, Process(i) PROVE UNCHANGED acked
  BY <1>3, Zenon DEF Process, Crash, Reap, ConnectionLost, Drain, DrainGet, DrainRecord,
     DrainAck, DrainFails
<1>4. CASE Broker \/ Timers \/ Cleanup \/ UNCHANGED vars
  BY <1>4, Zenon DEF Broker, Enqueue, Expire, Timers, LeaseLapses, PageAges,
     TokenExpires, GapFallsDue, Cleanup, CleanupOwner, CleanupGap, vars
<1>. QED
  BY <1>1, <1>2, <1>3, <1>4, Zenon DEF Next

\* An ACKed message was shown on a page whose commit token the client
\* presented, whatever the interleaving and whatever failed.
THEOREM AckedWereCommitted == Spec => []AckedOnlyIfCommitted
<1>1. Init => AckedOnlyIfCommitted
  BY DEF Init, AckedOnlyIfCommitted
<1>2. TypeOK /\ Control /\ AckedOnlyIfCommitted /\ [Next]_vars => AckedOnlyIfCommitted'
  <2>. SUFFICES ASSUME TypeOK, Control, AckedOnlyIfCommitted, [Next]_vars,
                       NEW m \in acked'
                PROVE  \E p \in Page : (m \in Shown(p) /\ Presented(p))'
    BY DEF AckedOnlyIfCommitted
  <2>1. Persist
    BY Persistent
  <2>2. \A p \in Page : m \in Shown(p) /\ Presented(p) => (m \in Shown(p) /\ Presented(p))'
    BY <2>1 DEF Persist, Shown, Presented
  <2>3. CASE m \in acked
    BY <2>2, <2>3 DEF AckedOnlyIfCommitted
  <2>4. CASE m \notin acked
    <3>1. PICK c \in Call : callPc[c] = "owned" /\ m \in tags[callPage[c]]
      BY <2>4, AckedGrows
    <3>2. callPage[c] \in Page /\ m \in Shown(callPage[c]) /\ Presented(callPage[c])
      BY <3>1 DEF Control, CallsReturned, Shown, Presented
    <3>. QED
      BY <2>2, <3>2, Zenon
  <2>. QED
    BY <2>3, <2>4
<1>. QED
  BY <1>1, <1>2, TypeCorrect, ControlCorrect, PTL DEF Spec

-----------------------------------------------------------------------------
(* A page is settled by one commit.                                        *)

Settling == GotSettled /\ CommittedOnce

\* A page that was returned is never pending again once it is not.
LEMMA OpenShrinks ==
  ASSUME TypeOK, [Next]_vars, NEW q \in Page, pullPc[q] = "returned", q \notin open
  PROVE  q \notin open'
<1>1. ASSUME NEW p \in Page, Pull(p) PROVE q \notin open'
  BY <1>1, ZenonT(40) DEF Pull, PullAcquire, PullSweep, ClosePages, PullOpen, PullOpenFails,
     PullFails, PullSelectGaps, PullAssignGaps, PullReturn, PullEmpty, PullStep
<1>2. ASSUME NEW c \in Call, Commit(c) PROVE q \notin open'
  BY <1>2, Zenon DEF Commit, CommitStart, CommitForward, CommitCheck, CommitMiss, CommitAck,
     CommitAckFails, AckAndClose, CommitRelease, CommitGaps, CommitReleaseGaps, CommitTimesOut, CommitFails
<1>3. ASSUME NEW i \in Instance, Process(i) PROVE q \notin open'
  BY <1>3, Zenon DEF Process, Crash, Reap, ClosePages, ConnectionLost, Drain, DrainGet,
     DrainRecord, DrainAck, DrainFails
<1>4. CASE Broker \/ Timers \/ Cleanup \/ UNCHANGED vars
  BY <1>4, Zenon DEF Broker, Enqueue, Expire, Timers, LeaseLapses, PageAges,
     TokenExpires, GapFallsDue, Cleanup, CleanupOwner, CleanupGap, vars
<1>. QED
  BY <1>1, <1>2, <1>3, <1>4 DEF Next

Committed == {"release", "gaps", "release2", "ok", "gone", "failed"}

\* A call enters got by CommitAck, and after that only moves forward.
LEMMA GotGrows ==
  ASSUME TypeOK, [Next]_vars
  PROVE  /\ \A c \in Call : callPc[c] \in Committed => callPc'[c] \in Committed
         /\ UNCHANGED got \/ \E c \in Call : CommitAck(c)
<1>1. ASSUME NEW d \in Call, Commit(d)
      PROVE  /\ \A c \in Call : callPc[c] \in Committed => callPc'[c] \in Committed
             /\ UNCHANGED got \/ CommitAck(d)
  BY <1>1, ZenonT(40) DEF Commit, CommitStart, CommitForward, CommitCheck, CommitMiss, CommitAck,
     CommitAckFails, CommitRelease, CommitGaps, CommitReleaseGaps, CommitTimesOut, CommitFails,
     CallStep, Committed, TypeOK
<1>2. ASSUME NEW p \in Page, Pull(p) PROVE UNCHANGED <<callPc, got>>
  BY <1>2, Zenon DEF Pull, PullAcquire, PullSweep, PullOpen, PullOpenFails,
     PullFails, PullSelectGaps, PullAssignGaps, PullReturn, PullEmpty
<1>3. ASSUME NEW i \in Instance, Process(i)
      PROVE  UNCHANGED got /\ \A c \in Call : callPc'[c] \in {callPc[c], "failed"}
  BY <1>3, Zenon DEF Process, Crash, Reap, ConnectionLost, Drain, DrainGet,
     DrainRecord, DrainAck, DrainFails
<1>4. CASE Broker \/ Timers \/ Cleanup \/ UNCHANGED vars
  BY <1>4, Zenon DEF Broker, Enqueue, Expire, Timers, LeaseLapses, PageAges,
     TokenExpires, GapFallsDue, Cleanup, CleanupOwner, CleanupGap, vars
<1>. QED
  BY <1>1, <1>2, <1>3, <1>4 DEF Next, Committed

LEMMA SettlingNext ==
  ASSUME TypeOK, Control, Settling, [Next]_vars
  PROVE  Settling'
<1>1. \A c \in got : callPc[c] \in Committed
  BY DEF Settling, GotSettled, TypeOK, CallBusy, AtOwner, AtVia, Committed
<1>2. ASSUME NEW c \in got
      PROVE  /\ callPc'[c] \in Committed /\ callPage'[c] = callPage[c]
             /\ callPage[c] \in Page /\ callPage[c] \notin open
             /\ callPage'[c] \notin open' /\ tags'[callPage'[c]] \subseteq acked'
  <2>0. c \in Call /\ callPc[c] # "idle"
    BY <1>1 DEF TypeOK, Committed
  <2>1. callPage[c] \in Page /\ pullPc[callPage[c]] = "returned"
    BY <2>0, Zenon DEF Control, CallsReturned
  <2>2. tags'[callPage[c]] = tags[callPage[c]] /\ callPage'[c] = callPage[c]
    BY <2>0, <2>1, Persistent DEF Persist
  <2>3. callPage[c] \notin open'
    BY <2>1, OpenShrinks, Zenon DEF Settling, GotSettled
  <2>4. acked \subseteq acked'
    BY AckedGrows
  <2>5. callPc'[c] \in Committed
    BY <1>1, <2>0, GotGrows
  <2>. QED
    BY <2>1, <2>2, <2>3, <2>4, <2>5, ZenonT(40) DEF Settling, GotSettled
<1>3. \A c \in Call : callPc'[c] \in Committed =>
        callPc'[c] \notin {"idle", "route", "check", "owned"}
  BY DEF Committed
<1>4. CASE UNCHANGED got
  BY <1>2, <1>3, <1>4, ZenonT(40) DEF Settling, GotSettled, CommittedOnce, TypeOK
<1>5. ASSUME NEW c \in Call, CommitAck(c) PROVE Settling'
  <2>1. /\ callPc'[c] = "release" /\ callPage' = callPage
        /\ callPage[c] \in open /\ callPage[c] \notin open'
        /\ tags'[callPage[c]] \subseteq acked' /\ got' = got \cup {c}
    BY <1>5, Zenon DEF CommitAck, CallStep, AckAndClose, TypeOK
  <2>. QED
    BY <1>2, <1>3, <2>1, ZenonT(40) DEF Settling, GotSettled, CommittedOnce, TypeOK
<1>. QED
  BY <1>4, <1>5, GotGrows

\* A commit that found its page has settled it, and is the only one that did.
THEOREM SettlingCorrect == Spec => []Settling
<1>1. Init => Settling
  BY DEF Init, Settling, GotSettled, CommittedOnce
<1>2. TypeOK /\ Control /\ Settling /\ [Next]_vars => Settling'
  BY SettlingNext
<1>. QED
  BY <1>1, <1>2, TypeCorrect, ControlCorrect, PTL DEF Spec

\* Concurrent, repeated and forwarded commits of a page settle it once.
THEOREM PageCommittedOnce == Spec => []CommittedOnce
BY SettlingCorrect, PTL DEF Settling

\* A commit that reports its deliveries has ACKed all of them.
THEOREM CommitOkAcked == Spec => []CommitOkMeansAcked
<1>1. Settling => CommitOkMeansAcked
  BY Zenon DEF Settling, GotSettled, CommitOkMeansAcked
<1>. QED
  BY <1>1, SettlingCorrect, PTL

\* No channel of a lost instance or forgotten page keeps messages.
THEOREM HeldReclaimable == Spec => []HeldIsReclaimable
BY HoldingCorrect, PTL DEF Holding

-----------------------------------------------------------------------------
(* The owner row.                                                          *)

\* The row changes hands only through a new pull or a release.
LEMMA OwnerMoves ==
  ASSUME TypeOK, [Next]_vars
  PROVE  \/ owner' \in {owner, Nil}
         \/ \E p \in Page : pullPc[p] = "idle" /\ owner' = p
<1>1. ASSUME NEW p \in Page, Pull(p)
      PROVE  owner' \in {owner, Nil} \/ (pullPc[p] = "idle" /\ owner' = p)
  BY <1>1, Zenon DEF Pull, PullAcquire, TryAcquire, PullSweep, PullOpen, PullOpenFails,
     PullFails, PullSelectGaps, PullAssignGaps, PullReturn, PullEmpty, PullStep,
     ReleaseOwner
<1>2. ASSUME NEW c \in Call, Commit(c) PROVE owner' \in {owner, Nil}
  BY <1>2, Zenon DEF Commit, CommitStart, CommitForward, CommitCheck, CommitMiss, CommitAck,
     CommitAckFails, CommitRelease, CommitGaps, CommitReleaseGaps, CommitTimesOut, CommitFails,
     ReleaseOwner
<1>3. ASSUME NEW i \in Instance, Process(i) PROVE owner' = owner
  BY <1>3, Zenon DEF Process, Crash, Reap, ConnectionLost, Drain, DrainGet,
     DrainRecord, DrainAck, DrainFails
<1>4. CASE Broker \/ Timers \/ Cleanup \/ UNCHANGED vars
  BY <1>4, Zenon DEF Broker, Enqueue, Expire, Timers, LeaseLapses, PageAges,
     TokenExpires, GapFallsDue, Cleanup, CleanupOwner, CleanupGap, vars
<1>. QED
  BY <1>1, <1>2, <1>3, <1>4 DEF Next

\* The calls whose release of the row is behind them.
Released(c) == callPc[c] = "ok" \/ (c \in got /\ callPc[c] \in {"gaps", "release2"})

\* A step that puts a call behind its release either releases or was there.
LEMMA ReleasedGrows ==
  ASSUME TypeOK, Settling, [Next]_vars, NEW c \in Call, Released(c)'
  PROVE  \/ Released(c)
         \/ callPc[c] # "idle" /\ ReleaseOwner(callPage[c])
<1>1. ASSUME NEW d \in Call, Commit(d)
      PROVE  Released(c) \/ (callPc[c] # "idle" /\ ReleaseOwner(callPage[c]))
  <2>1. CASE d # c
    <3>1. callPc'[c] = callPc[c] /\ (c \in got' => c \in got)
      BY <1>1, <2>1, Zenon DEF Commit, CommitStart, CommitForward, CommitCheck, CommitMiss,
         CommitAck, CommitAckFails, CommitRelease, CommitGaps, CommitReleaseGaps,
         CommitTimesOut, CommitFails, CallStep, TypeOK
    <3>. QED
      BY <3>1 DEF Released
  <2>2. CASE d = c
    <3>1. CASE CommitRelease(c)
      BY <3>1 DEF CommitRelease, CallStep
    <3>2. CASE CommitReleaseGaps(c)
      BY <3>2, Zenon DEF CommitReleaseGaps, CallStep
    <3>3. CASE CommitGaps(c)
      BY <3>3, Zenon DEF CommitGaps, CallStep, Released, TypeOK
    <3>4. CASE CommitMiss(c)
      BY <3>4, Zenon DEF CommitMiss, CallStep, Released, TypeOK, Settling, GotSettled
    <3>5. CASE CommitTimesOut(c)
      BY <3>5 DEF CommitTimesOut, Released
    <3>6. CASE \/ \E p \in Page, v \in Instance : CommitStart(c, p, v)
               \/ CommitForward(c) \/ CommitCheck(c) \/ CommitAck(c)
               \/ CommitAckFails(c) \/ CommitFails(c)
      <4>1. callPc'[c] \notin {"ok", "gaps", "release2"}
        BY <3>6, ZenonT(40) DEF CommitStart, CommitForward, CommitCheck, CommitAck,
           CommitAckFails, CommitFails, CallStep, TypeOK
      <4>. QED
        BY <4>1 DEF Released
    <3>. QED
      BY <1>1, <2>2, <3>1, <3>2, <3>3, <3>4, <3>5, <3>6, Zenon DEF Commit
  <2>. QED
    BY <2>1, <2>2
<1>2. ASSUME NEW p \in Page, Pull(p) PROVE UNCHANGED <<callPc, got>>
  BY <1>2, Zenon DEF Pull, PullAcquire, PullSweep, PullOpen, PullOpenFails,
     PullFails, PullSelectGaps, PullAssignGaps, PullReturn, PullEmpty
<1>3. ASSUME NEW i \in Instance, Process(i)
      PROVE  UNCHANGED got /\ callPc'[c] \in {callPc[c], "failed"}
  BY <1>3, Zenon DEF Process, Crash, Reap, ConnectionLost, Drain, DrainGet,
     DrainRecord, DrainAck, DrainFails
<1>4. CASE Broker \/ Timers \/ Cleanup \/ UNCHANGED vars
  BY <1>4, Zenon DEF Broker, Enqueue, Expire, Timers, LeaseLapses, PageAges,
     TokenExpires, GapFallsDue, Cleanup, CleanupOwner, CleanupGap, Released, vars
<1>. QED
  BY <1>1, <1>2, <1>3, <1>4, Zenon DEF Next, Released

\* A commit that succeeds leaves the mailbox free for the next pull.
THEOREM CommitFrees == Spec => []CommitFreesMailbox
<1>1. Init => OwnerReleased
  BY DEF Init, OwnerReleased
<1>2. TypeOK /\ Control /\ Settling /\ OwnerReleased /\ [Next]_vars => OwnerReleased'
  <2>. SUFFICES ASSUME TypeOK, Control, Settling, OwnerReleased, [Next]_vars,
                       NEW c \in Call, Released(c)'
                PROVE  owner' # callPage'[c]
    BY DEF OwnerReleased, Released
  <2>0. callPc[c] # "idle"
    BY ReleasedGrows DEF Released, Settling, GotSettled
  <2>1. /\ callPage[c] \in Page /\ pullPc[callPage[c]] = "returned"
        /\ callPage'[c] = callPage[c]
    BY <2>0, Persistent, Zenon DEF Persist, Control, CallsReturned
  <2>2. CASE Released(c)
    <3>1. owner # callPage[c]
      BY <2>2, Zenon DEF OwnerReleased, Released
    <3>. QED
      BY <2>1, <3>1, OwnerMoves, ConstantsAssumption, Zenon
  <2>3. CASE ReleaseOwner(callPage[c])
    BY <2>1, <2>3, ConstantsAssumption DEF ReleaseOwner
  <2>. QED
    BY <2>2, <2>3, ReleasedGrows, Zenon
<1>3. OwnerReleased => CommitFreesMailbox
  BY DEF OwnerReleased, CommitFreesMailbox
<1>. QED
  BY <1>1, <1>2, <1>3, TypeCorrect, ControlCorrect, SettlingCorrect, PTL DEF Spec

\* While its lease lives, only the epoch in the row gives the mailbox up.
THEOREM LeaseFences == Spec => LeaseFencesOwner
<1>1. ASSUME TypeOK, [Next]_vars, owner # Nil, leaseLive, owner' # owner
      PROVE  /\ owner' = Nil
             /\ \/ pullPc[owner] = "loaded" /\ pullPc'[owner] = "empty"
                \/ \E c \in Call : /\ callPage[c] = owner
                                   /\ callPc[c] \in {"release", "release2"}
                                   /\ callPc'[c] \in {"gaps", "ok"}
  <2>1. ASSUME NEW p \in Page, Pull(p)
        PROVE  owner' = Nil /\ pullPc[owner] = "loaded" /\ pullPc'[owner] = "empty"
    BY <1>1, <2>1, ZenonT(40) DEF Pull, PullAcquire, TryAcquire, PullSweep, PullOpen, PullOpenFails,
       PullFails, PullSelectGaps, PullAssignGaps, PullReturn, PullEmpty, PullStep,
       ReleaseOwner, TypeOK
  <2>2. ASSUME NEW c \in Call, Commit(c)
        PROVE  /\ owner' = Nil /\ callPage[c] = owner
               /\ callPc[c] \in {"release", "release2"} /\ callPc'[c] \in {"gaps", "ok"}
    BY <1>1, <2>2, Zenon DEF Commit, CommitStart, CommitForward, CommitCheck, CommitMiss,
       CommitAck, CommitAckFails, CommitRelease, CommitGaps, CommitReleaseGaps,
       CommitTimesOut, CommitFails, ReleaseOwner, CallStep, TypeOK
  <2>3. ASSUME NEW i \in Instance, Process(i) PROVE FALSE
    BY <1>1, <2>3, Zenon DEF Process, Crash, Reap, ConnectionLost, Drain, DrainGet,
       DrainRecord, DrainAck, DrainFails
  <2>4. ASSUME Broker \/ Timers \/ Cleanup \/ UNCHANGED vars PROVE FALSE
    BY <1>1, <2>4, Zenon DEF Broker, Enqueue, Expire, Timers, LeaseLapses, PageAges,
       TokenExpires, GapFallsDue, Cleanup, CleanupOwner, CleanupGap, vars
  <2>. QED
    BY <1>1, <2>1, <2>2, <2>3, <2>4 DEF Next
<1>. QED
  BY <1>1, TypeCorrect, PTL DEF Spec, LeaseFencesOwner

-----------------------------------------------------------------------------
(* Gap rows.                                                               *)

LEMMA GapsSelectedNext ==
  ASSUME TypeOK, GapsSelected, [Next]_vars
  PROVE  GapsSelected'
<1>. DEFINE Over == {"loaded", "returned", "empty", "failed"}
<1>1. gapPage \in [GapRow -> Page \cup {Nil}] /\ sel \in [Page -> SUBSET GapRow]
      /\ pullPc \in [Page -> PullBusy \cup {"idle", "returned", "empty", "failed"}]
  BY DEF TypeOK
\* A step that assigns no row and takes no page back from its end.
<1>2. ASSUME \A g \in GapRow : gapPage'[g] \in {gapPage[g], Nil},
             \A p \in Page : pullPc[p] \in Over =>
               pullPc'[p] \in Over /\ sel'[p] = sel[p]
      PROVE  GapsSelected'
  BY <1>1, <1>2, ConstantsAssumption, ZenonT(40) DEF GapsSelected
<1>3. ASSUME NEW p \in Page, Pull(p) PROVE GapsSelected'
  <2>1. CASE PullAssignGaps(p)
    BY <1>1, <2>1 DEF PullAssignGaps, PullStep, GapsSelected
  <2>2. CASE PullSelectGaps(p)
    BY <1>1, <1>2, <2>2, Zenon DEF PullSelectGaps, PullStep
  <2>3. CASE PullReturn(p) \/ PullEmpty(p)
    BY <1>1, <1>2, <2>3, Zenon DEF PullReturn, PullEmpty, PullStep
  <2>4. CASE PullFails(p)
    BY <1>1, <1>2, <2>4, Zenon DEF PullFails
  <2>5. CASE \E i \in Instance : PullAcquire(p, i)
    BY <1>1, <1>2, <2>5, Zenon DEF PullAcquire, PullStep
  <2>6. CASE PullSweep(p)
    BY <1>1, <1>2, <2>6, Zenon DEF PullSweep, PullStep
  <2>7. CASE \E h \in SUBSET queue : \E r \in SUBSET h :
               PullOpen(p, h, r) \/ PullOpenFails(p, h, r)
    <3>1. gapPage' = gapPage /\ sel' = sel /\ pullPc[p] = "swept"
          /\ \E to \in {"opened", "failed"} : pullPc' = [pullPc EXCEPT ![p] = to]
      BY <2>7, Zenon DEF PullOpen, PullOpenFails, PullStep
    <3>. QED
      BY <1>1, <1>2, <3>1
  <2>. QED
    BY <1>3, <2>1, <2>2, <2>3, <2>4, <2>5, <2>6, <2>7 DEF Pull
<1>4. ASSUME NEW c \in Call, Commit(c) PROVE GapsSelected'
  <2>1. UNCHANGED <<gapPage, sel, pullPc>>
    BY <1>4, Zenon DEF Commit, CommitStart, CommitForward, CommitCheck, CommitMiss,
       CommitAck, CommitAckFails, CommitRelease, CommitGaps, CommitReleaseGaps,
       CommitTimesOut, CommitFails
  <2>. QED
    BY <1>2, <2>1
<1>5. ASSUME NEW i \in Instance, Process(i) PROVE GapsSelected'
  <2>1. CASE Crash(i)
    <3>1. \A p \in Page : pullPc[p] \in Over => pullPc'[p] \in Over
      BY <1>1, <2>1, ZenonT(40) DEF Crash
    <3>. QED
      BY <1>2, <2>1, <3>1, Zenon DEF Crash
  <2>2. CASE Reap(i) \/ ConnectionLost(i) \/ Drain(i)
    <3>1. UNCHANGED <<gapPage, sel, pullPc>>
      BY <2>2, Zenon DEF Reap, ConnectionLost, Drain, DrainGet, DrainRecord, DrainAck,
         DrainFails
    <3>. QED
      BY <1>2, <3>1
  <2>. QED
    BY <1>5, <2>1, <2>2 DEF Process
<1>6. CASE Cleanup
  <2>1. UNCHANGED <<sel, pullPc>> /\ \A g \in GapRow : gapPage'[g] \in {gapPage[g], Nil}
    BY <1>1, <1>6 DEF Cleanup, CleanupOwner, CleanupGap
  <2>. QED
    BY <1>2, <2>1, Zenon
<1>7. CASE Broker \/ Timers \/ UNCHANGED vars
  <2>1. UNCHANGED <<gapPage, sel, pullPc>>
    BY <1>7, ZenonT(40) DEF Broker, Enqueue, Expire, Timers, LeaseLapses, PageAges,
       TokenExpires, GapFallsDue, vars
  <2>. QED
    BY <1>2, <2>1
<1>. QED
  BY <1>3, <1>4, <1>5, <1>6, <1>7, Zenon DEF Next

\* A commit stamps a gap row only if it rode on the page that was committed.
LEMMA GapAckedGrows ==
  ASSUME TypeOK, [Next]_vars, NEW g \in gapAcked', g \notin gapAcked
  PROVE  \E c \in Call : callPc[c] # "idle" /\ gapPage[g] = callPage[c] /\ g \in GapRow
<1>1. ASSUME NEW c \in Call, Commit(c)
      PROVE  callPc[c] # "idle" /\ gapPage[g] = callPage[c] /\ g \in GapRow
  BY <1>1, Zenon DEF Commit, CommitStart, CommitForward, CommitCheck, CommitMiss, CommitAck,
     CommitAckFails, CommitRelease, CommitGaps, PageGaps, CommitReleaseGaps,
     CommitTimesOut, CommitFails, CallStep
<1>2. ASSUME NEW p \in Page, Pull(p) PROVE FALSE
  BY <1>2, Zenon DEF Pull, PullAcquire, PullSweep, PullOpen, PullOpenFails,
     PullFails, PullSelectGaps, PullAssignGaps, PullReturn, PullEmpty
<1>3. ASSUME NEW i \in Instance, Process(i) PROVE FALSE
  BY <1>3, Zenon DEF Process, Crash, Reap, ConnectionLost, Drain, DrainGet,
     DrainRecord, DrainAck, DrainFails
<1>4. ASSUME Broker \/ Timers \/ Cleanup \/ UNCHANGED vars PROVE FALSE
  BY <1>4, Zenon DEF Broker, Enqueue, Expire, Timers, LeaseLapses, PageAges,
     TokenExpires, GapFallsDue, Cleanup, CleanupOwner, CleanupGap, vars
<1>. QED
  BY <1>1, <1>2, <1>3, <1>4, Zenon DEF Next

\* A gap row is acknowledged only for a client that was shown it and
\* committed the page it was on.
THEOREM GapsAckedIfShown == Spec => []GapAckedOnlyIfShown
<1>1. Init => GapsSelected /\ GapAckedOnlyIfShown
  BY DEF Init, GapsSelected, GapAckedOnlyIfShown
<1>2. TypeOK /\ GapsSelected /\ [Next]_vars => GapsSelected'
  BY GapsSelectedNext, Zenon
<1>3. TypeOK /\ Control /\ GapsSelected /\ GapAckedOnlyIfShown /\ [Next]_vars
        => GapAckedOnlyIfShown'
  <2>. SUFFICES ASSUME TypeOK, Control, GapsSelected, GapAckedOnlyIfShown, [Next]_vars,
                       NEW g \in gapAcked'
                PROVE  \E p \in Page : (pullPc[p] = "returned" /\ g \in sel[p] /\ Presented(p))'
    BY Zenon DEF GapAckedOnlyIfShown
  <2>1. \A p \in Page : pullPc[p] = "returned" /\ g \in sel[p] /\ Presented(p) =>
          (pullPc[p] = "returned" /\ g \in sel[p] /\ Presented(p))'
    BY Persistent, Zenon DEF Persist, Presented
  <2>2. CASE g \in gapAcked
    BY <2>1, <2>2, Zenon DEF GapAckedOnlyIfShown
  <2>3. CASE g \notin gapAcked
    <3>1. PICK c \in Call : callPc[c] # "idle" /\ gapPage[g] = callPage[c] /\ g \in GapRow
      BY <2>3, GapAckedGrows, Zenon
    <3>2. callPage[c] \in Page /\ pullPc[callPage[c]] = "returned"
      BY <3>1, Zenon DEF Control, CallsReturned
    <3>3. g \in sel[callPage[c]] /\ Presented(callPage[c])
      BY <3>1, <3>2, ConstantsAssumption DEF GapsSelected, Presented
    <3>. QED
      BY <2>1, <3>2, <3>3, Zenon
  <2>. QED
    BY <2>2, <2>3, Zenon
<1>. QED
  BY <1>1, <1>2, <1>3, TypeCorrect, ControlCorrect, PTL DEF Spec

-----------------------------------------------------------------------------
(* MailboxDelivery implements AtLeastOnceMailbox.                          *)

AllShown   == UNION {Shown(p) : p \in Page}
AllClaimed == UNION {tags[p] : p \in {q \in Page : Presented(q)}}
Statuses   == [m \in Message |-> Status(m)]

-----------------------------------------------------------------------------
(* What is on a page was confirmed by the broker.                          *)

LEMMA TagsSentNext ==
  ASSUME TypeOK, Accounted, TagsSent, [Next]_vars
  PROVE  TagsSent'
<1>1. ASSUME UNCHANGED tags, sent \subseteq sent' PROVE TagsSent'
  BY <1>1 DEF TagsSent
<1>2. ASSUME NEW p \in Page, Pull(p) PROVE TagsSent'
  <2>1. ASSUME NEW h \in SUBSET queue, NEW r \in SUBSET h, PullOpen(p, h, r)
        PROVE  TagsSent'
    <3>1. queue \subseteq sent
      BY Zenon DEF Accounted, InOnePlace, TypeOK
    <3>. QED
      BY <2>1, <3>1 DEF PullOpen, TagsSent, TypeOK
  <2>. QED
    BY <1>1, <1>2, <2>1, Zenon DEF Pull, PullAcquire, PullSweep, PullOpenFails,
       PullFails, PullSelectGaps, PullAssignGaps, PullReturn, PullEmpty
<1>3. ASSUME NEW c \in Call, Commit(c) PROVE TagsSent'
  BY <1>1, <1>3, Zenon DEF Commit, CommitStart, CommitForward, CommitCheck, CommitMiss,
     CommitAck, CommitAckFails, CommitRelease, CommitGaps, CommitReleaseGaps, CommitTimesOut, CommitFails
<1>4. ASSUME NEW i \in Instance, Process(i) PROVE TagsSent'
  BY <1>1, <1>4, Zenon DEF Process, Crash, Reap, ConnectionLost, Drain, DrainGet,
     DrainRecord, DrainAck, DrainFails
<1>5. CASE Broker \/ Timers \/ Cleanup \/ UNCHANGED vars
  BY <1>1, <1>5 DEF Broker, Enqueue, Expire, Timers, LeaseLapses, PageAges,
     TokenExpires, GapFallsDue, Cleanup, CleanupOwner, CleanupGap, vars
<1>. QED
  BY <1>2, <1>3, <1>4, <1>5 DEF Next

-----------------------------------------------------------------------------
(* Steps the client cannot see.                                            *)

NoPageReturned == \A p \in Page : pullPc'[p] = "returned" => pullPc[p] = "returned"
NoCallStarted  == \A c \in Call : callPc'[c] # "idle" => callPc[c] # "idle"

LEMMA ShownStable ==
  ASSUME TypeOK, Persist, NoPageReturned
  PROVE  AllShown' = AllShown
<1>1. \A p \in Page : Shown(p)' = Shown(p)
  BY DEF Persist, NoPageReturned, Shown
<1>. QED
  BY <1>1 DEF AllShown

LEMMA ClaimedStable ==
  ASSUME TypeOK, Control, Persist, NoCallStarted
  PROVE  AllClaimed' = AllClaimed
<1>1. \A p \in Page : Presented(p)' <=> Presented(p)
  BY DEF Persist, NoCallStarted, Presented
<1>2. \A p \in Page : Presented(p) => tags'[p] = tags[p]
  BY DEF Persist, Presented, Control, CallsReturned
<1>. QED
  BY <1>1, <1>2 DEF AllClaimed

LEMMA StatusStable ==
  ASSUME UNCHANGED <<sent, acked, filtered, gapped>>
  PROVE  Statuses' = Statuses
BY DEF Statuses, Status

-----------------------------------------------------------------------------
(* Steps the client can see.                                               *)

\* The messages in S get a new status and nothing else changes for the client.
Becomes(S, new) ==
  /\ Statuses' = [m \in Message |-> IF m \in S THEN new ELSE Statuses[m]]
  /\ AllShown' = AllShown
  /\ AllClaimed' = AllClaimed

\* A message that is not settled, and was confirmed by the broker, is pending.
LEMMA Unsettled ==
  ASSUME TypeOK, Accounted, NEW m \in Message,
         m \in queue \/ m \in dlq \/ OnChannel(m) \/ Drained(m)
  PROVE  Statuses[m] = "pending" /\ m \notin acked \cup filtered \cup gapped
BY DEF Accounted, InOnePlace, Statuses, Status

LEMMA PublishVisible ==
  ASSUME TypeOK, Control, Accounted, Persist, NEW m \in Message, Enqueue(m)
  PROVE  Statuses[m] = "absent" /\ Becomes({m}, "pending")
<1>1. m \notin acked \cup filtered \cup gapped
  BY DEF Enqueue, Accounted, InOnePlace
<1>2. AllShown' = AllShown /\ AllClaimed' = AllClaimed
  BY ShownStable, ClaimedStable DEF Enqueue, NoPageReturned, NoCallStarted
<1>. QED
  BY <1>1, <1>2 DEF Enqueue, Becomes, Statuses, Status

LEMMA ConfirmVisible ==
  ASSUME NEW S \in SUBSET Message, acked' = acked \cup S,
         UNCHANGED <<sent, filtered, gapped>>
  PROVE  Statuses' = [m \in Message |-> IF m \in S THEN "confirmed" ELSE Statuses[m]]
BY DEF Statuses, Status

LEMMA FilterVisible ==
  ASSUME NEW S \in SUBSET Message, filtered' = filtered \cup S, S \cap acked = {},
         UNCHANGED <<sent, acked, gapped>>
  PROVE  Statuses' = [m \in Message |-> IF m \in S THEN "filtered" ELSE Statuses[m]]
BY DEF Statuses, Status

LEMMA LoseVisible ==
  ASSUME NEW d \in Message, gapped' = gapped \cup {d}, d \notin acked \cup filtered,
         UNCHANGED <<sent, acked, filtered>>
  PROVE  Statuses' = [m \in Message |-> IF m \in {d} THEN "gapped" ELSE Statuses[m]]
BY DEF Statuses, Status

\* A pull shows the client nothing until it returns, and may filter records.
LEMMA PullVisible ==
  ASSUME TypeOK, Control, Accounted, TagsSent, Persist, NEW p \in Page, Pull(p)
  PROVE  \/ Statuses' = Statuses /\ AllShown' = AllShown /\ AllClaimed' = AllClaimed
         \/ \E S \in SUBSET SelfAuthored :
              (\A m \in S : Statuses[m] = "pending") /\ Becomes(S, "filtered")
         \/ /\ Statuses' = Statuses /\ AllClaimed' = AllClaimed
            /\ AllShown' = AllShown \cup tags[p]
            /\ \A m \in tags[p] : Statuses[m] # "absent"
<1>1. UNCHANGED callVars
  BY Zenon DEF Pull, PullAcquire, PullSweep, PullOpen, PullOpenFails,
     PullFails, PullSelectGaps, PullAssignGaps, PullReturn, PullEmpty
<1>2. AllClaimed' = AllClaimed
  BY <1>1, ClaimedStable DEF NoCallStarted
<1>3. ASSUME ~ PullReturn(p) PROVE AllShown' = AllShown
  <2>1. NoPageReturned
    BY <1>3, Zenon DEF Pull, PullAcquire, PullSweep, PullOpen, PullOpenFails, PullFails,
       PullSelectGaps, PullAssignGaps, PullEmpty, PullStep, NoPageReturned, TypeOK
  <2>. QED
    BY <2>1, ShownStable
<1>4. ASSUME NEW h \in SUBSET queue, NEW r \in SUBSET (h \cap SelfAuthored),
             filtered' = filtered \cup r, UNCHANGED <<sent, acked, gapped>>,
             ~ PullReturn(p)
      PROVE  (\A m \in r : Statuses[m] = "pending") /\ Becomes(r, "filtered")
  <2>1. r \in SUBSET Message /\ r \subseteq queue
    BY DEF TypeOK
  <2>2. \A m \in r : Statuses[m] = "pending" /\ m \notin acked
    BY <2>1, Unsettled
  <2>. QED
    BY <1>2, <1>3, <1>4, <2>1, <2>2, FilterVisible DEF Becomes
<1>5. ASSUME NEW h \in SUBSET queue, NEW r \in SUBSET h, PullOpen(p, h, r)
      PROVE  \E S \in SUBSET SelfAuthored :
               (\A m \in S : Statuses[m] = "pending") /\ Becomes(S, "filtered")
  <2>1. r \cap SelfAuthored \in SUBSET (h \cap SelfAuthored)
    OBVIOUS
  <2>2. ~ PullReturn(p)
    BY <1>5, Zenon DEF PullOpen, PullReturn, PullStep
  <2>. QED
    BY <1>4, <1>5, <2>1, <2>2, Zenon DEF PullOpen
<1>6. ASSUME NEW h \in SUBSET queue, NEW r \in SUBSET h, PullOpenFails(p, h, r)
      PROVE  \E S \in SUBSET SelfAuthored :
               (\A m \in S : Statuses[m] = "pending") /\ Becomes(S, "filtered")
  <2>1. r \in SUBSET (h \cap SelfAuthored)
    BY <1>6 DEF PullOpenFails
  <2>2. ~ PullReturn(p)
    BY <1>6 DEF PullOpenFails, PullReturn, PullStep
  <2>. QED
    BY <1>4, <1>6, <2>1, <2>2 DEF PullOpenFails
<1>7. ASSUME PullReturn(p)
      PROVE  /\ Statuses' = Statuses
             /\ AllShown' = AllShown \cup tags[p]
             /\ \A m \in tags[p] : Statuses[m] # "absent"
  <2>1. UNCHANGED <<sent, acked, filtered, gapped, tags>>
    BY <1>7 DEF PullReturn
  <2>2. \A q \in Page : Shown(q)' = IF q = p THEN tags[p] ELSE Shown(q)
    BY <1>7, <2>1, Zenon DEF PullReturn, PullStep, Shown, TypeOK
  <2>3. Shown(p) = {}
    BY <1>7 DEF PullReturn, PullStep, Shown
  <2>4. AllShown' = AllShown \cup tags[p]
    BY <2>2, <2>3 DEF AllShown
  <2>5. \A m \in tags[p] : m \in sent /\ m \in Message
    BY DEF TagsSent, TypeOK
  <2>. QED
    BY <2>1, <2>4, <2>5, StatusStable DEF Statuses, Status
<1>8. CASE UNCHANGED <<sent, acked, filtered, gapped>> /\ ~ PullReturn(p)
  BY <1>2, <1>3, <1>8, StatusStable, Zenon
<1>. QED
  BY <1>2, <1>5, <1>6, <1>7, <1>8, Zenon DEF Pull, PullAcquire, PullSweep, PullFails,
     PullSelectGaps, PullAssignGaps, PullEmpty

\* Starting a commit claims the page; the owner's ACKs confirm messages of it.
LEMMA CommitVisible ==
  ASSUME TypeOK, Control, Holding, Accounted, Persist, NEW c \in Call, Commit(c)
  PROVE  \/ Statuses' = Statuses /\ AllShown' = AllShown /\ AllClaimed' = AllClaimed
         \/ \E S \in SUBSET AllShown :
              /\ Statuses' = Statuses /\ AllShown' = AllShown
              /\ AllClaimed' = AllClaimed \cup S
         \/ \E S \in SUBSET AllClaimed :
              /\ S \subseteq Message /\ \A m \in S : Statuses[m] = "pending"
              /\ Becomes(S, "confirmed")
<1>1. AllShown' = AllShown
  BY ShownStable DEF Commit, CommitStart, CommitForward, CommitCheck, CommitMiss,
     CommitAck, CommitAckFails, CommitRelease, CommitGaps, CommitReleaseGaps,
     CommitTimesOut, CommitFails, NoPageReturned
<1>2. ASSUME callPc[c] # "idle" PROVE AllClaimed' = AllClaimed
  <2>1. NoCallStarted
    BY <1>2, Zenon DEF Commit, CommitStart, CommitForward, CommitCheck, CommitMiss,
       CommitAck, CommitAckFails, CommitRelease, CommitGaps, CommitReleaseGaps,
       CommitTimesOut, CommitFails, CallStep, NoCallStarted, TypeOK
  <2>. QED
    BY <2>1, ClaimedStable, Zenon
<1>3. ASSUME NEW p \in Page, NEW v \in Instance, CommitStart(c, p, v)
      PROVE  /\ Statuses' = Statuses /\ tags[p] \in SUBSET AllShown
             /\ AllClaimed' = AllClaimed \cup tags[p]
  <2>1. UNCHANGED <<sent, acked, filtered, gapped, tags>>
    BY <1>3, Zenon DEF CommitStart
  <2>2. /\ callPc[c] = "idle" /\ callPc'[c] # "idle" /\ callPage'[c] = p
        /\ \A d \in Call \ {c} : callPc'[d] = callPc[d] /\ callPage'[d] = callPage[d]
    BY <1>3 DEF CommitStart, CallStep, TypeOK
  <2>3. \A q \in Page : Presented(q)' <=> q = p \/ Presented(q)
    BY <2>2 DEF Presented
  <2>4. tags[p] \in SUBSET AllShown
    BY <1>3 DEF CommitStart, AllShown, Shown
  <2>. QED
    BY <2>1, <2>3, <2>4, StatusStable DEF AllClaimed
<1>4. ASSUME NEW S, callPc[c] = "owned", callPage[c] \in Page,
             S \subseteq tags[callPage[c]] \cap held[callPage[c]],
             acked' = acked \cup S, UNCHANGED <<sent, filtered, gapped>>
      PROVE  /\ S \in SUBSET AllClaimed
             /\ S \subseteq Message /\ \A m \in S : Statuses[m] = "pending"
             /\ Becomes(S, "confirmed")
  <2>1. S \in SUBSET Message /\ \A m \in S : OnChannel(m)
    BY <1>4 DEF OnChannel, TypeOK
  <2>2. S \in SUBSET AllClaimed
    BY <1>4 DEF AllClaimed, Presented
  <2>3. \A m \in S : Statuses[m] = "pending"
    BY <2>1, Unsettled, Zenon
  <2>. QED
    BY <1>1, <1>2, <1>4, <2>1, <2>2, <2>3, ConfirmVisible, Zenon DEF Becomes
<1>5. CASE CommitAck(c)
  <2>1. /\ callPc[c] = "owned" /\ callPage[c] \in Page
        /\ tags[callPage[c]] \subseteq held[callPage[c]]
    BY <1>5 DEF CommitAck, CallStep, TypeOK, Holding, PagesHold
  <2>. QED
    BY <1>4, <1>5, <2>1, Zenon DEF CommitAck, AckAndClose
<1>6. CASE CommitAckFails(c)
  <2>1. callPc[c] = "owned" /\ callPage[c] \in Page
    BY <1>6, Zenon DEF CommitAckFails, CallStep, TypeOK
  <2>2. PICK S \in SUBSET (tags[callPage[c]] \cap held[callPage[c]]) :
          AckAndClose(callPage[c], S)
    BY <1>6 DEF CommitAckFails
  <2>. QED
    BY <1>4, <1>6, <2>1, <2>2, Zenon DEF CommitAckFails, AckAndClose
<1>7. CASE callPc[c] # "idle" /\ UNCHANGED <<sent, acked, filtered, gapped>>
  BY <1>1, <1>2, <1>7, StatusStable
<1>. QED
  BY <1>1, <1>3, <1>5, <1>6, <1>7, Zenon DEF Commit, CommitForward, CommitCheck, CommitMiss,
     CommitRelease, CommitGaps, CommitReleaseGaps, CommitTimesOut, CommitFails, CallStep, CallBusy,
     AtOwner, AtVia

\* Of the background work and failures, only a recorder's ACK is visible.
LEMMA ProcessVisible ==
  ASSUME TypeOK, Control, Accounted, Persist, NEW i \in Instance, Process(i)
  PROVE  \/ Statuses' = Statuses /\ AllShown' = AllShown /\ AllClaimed' = AllClaimed
         \/ \E m \in Message :
              /\ Statuses[m] = "pending"
              /\ \/ m \in SelfAuthored /\ Becomes({m}, "filtered")
                 \/ m \notin SelfAuthored /\ Becomes({m}, "gapped")
<1>1. AllShown' = AllShown
  <2>1. NoPageReturned
    BY DEF Process, Crash, Reap, ConnectionLost, Drain, DrainGet, DrainRecord,
       DrainAck, DrainFails, NoPageReturned
  <2>. QED
    BY <2>1, ShownStable, Zenon
<1>2. AllClaimed' = AllClaimed
  <2>1. CASE Crash(i)
    BY <2>1, ClaimedStable, Zenon DEF Crash, AtVia, AtOwner, NoCallStarted
  <2>2. CASE ~ Crash(i)
    BY <2>2, ClaimedStable DEF Process, Reap, ConnectionLost, Drain, DrainGet,
       DrainRecord, DrainAck, DrainFails, NoCallStarted
  <2>. QED
    BY <2>1, <2>2
<1>3. CASE DrainAck(i)
  <2>1. drain[i] \in Message /\ Drained(drain[i])
    BY <1>3 DEF DrainAck, Drained, TypeOK
  <2>2. Statuses[drain[i]] = "pending" /\ drain[i] \notin acked \cup filtered \cup gapped
    BY <2>1, Unsettled
  <2>3. CASE drain[i] \in SelfAuthored
    <3>1. {drain[i]} \in SUBSET Message /\ {drain[i]} \cap acked = {}
      BY <2>1, <2>2
    <3>2. filtered' = filtered \cup {drain[i]} /\ UNCHANGED <<sent, acked, gapped>>
      BY <1>3, <2>3 DEF DrainAck
    <3>3. Becomes({drain[i]}, "filtered")
      BY <1>1, <1>2, <3>1, <3>2, FilterVisible, Zenon DEF Becomes
    <3>. QED
      BY <2>1, <2>2, <2>3, <3>3, Zenon
  <2>4. CASE drain[i] \notin SelfAuthored
    <3>1. gapped' = gapped \cup {drain[i]} /\ UNCHANGED <<sent, acked, filtered>>
      BY <1>3, <2>4 DEF DrainAck
    <3>2. Becomes({drain[i]}, "gapped")
      BY <1>1, <1>2, <2>1, <2>2, <3>1, LoseVisible DEF Becomes
    <3>. QED
      BY <2>1, <2>2, <2>4, <3>2, Zenon
  <2>. QED
    BY <2>3, <2>4, Zenon
<1>4. CASE ~ DrainAck(i)
  BY <1>1, <1>2, <1>4, StatusStable DEF Process, Crash, Reap, ConnectionLost, Drain,
     DrainGet, DrainRecord, DrainFails
<1>. QED
  BY <1>3, <1>4, Zenon

-----------------------------------------------------------------------------
(* The refinement.                                                         *)

LEMMA StepRefines ==
  ASSUME TypeOK, Control, Holding, Accounted, TagsSent, [Next]_vars
  PROVE  [Mailbox!Next]_(Mailbox!vars)
<1>0. AllShown \subseteq Message /\ AllClaimed \subseteq Message
  BY DEF AllShown, AllClaimed, Shown, TypeOK
<1>. USE Persistent
<1>1. ASSUME Statuses' = Statuses, AllShown' = AllShown, AllClaimed' = AllClaimed
      PROVE  UNCHANGED Mailbox!vars
  BY <1>1 DEF Mailbox!vars, Statuses, AllShown, AllClaimed
<1>2. ASSUME NEW S \in SUBSET SelfAuthored, \A m \in S : Statuses[m] = "pending",
             Becomes(S, "filtered")
      PROVE  Mailbox!Next
  <2>1. S \in SUBSET Message
    BY ConstantsAssumption
  <2>2. Mailbox!Filter(S)
    BY <1>2, <2>1, Zenon DEF Mailbox!Filter, Mailbox!Become, Mailbox!Pending, Becomes,
       Statuses, AllShown, AllClaimed
  <2>. QED
    BY <2>1, <2>2 DEF Mailbox!Next
<1>3. ASSUME NEW p \in Page, Pull(p) PROVE [Mailbox!Next]_(Mailbox!vars)
  <2>1. ASSUME Statuses' = Statuses, AllClaimed' = AllClaimed,
               AllShown' = AllShown \cup tags[p],
               \A m \in tags[p] : Statuses[m] # "absent"
        PROVE  Mailbox!Next
    <3>1. Mailbox!Show(tags[p])
      BY <2>1, Zenon DEF Mailbox!Show, Mailbox!Absent, Statuses, AllShown, AllClaimed
    <3>2. tags[p] \in SUBSET Message
      BY DEF TypeOK
    <3>. QED
      BY <3>1, <3>2, Zenon DEF Mailbox!Next
  <2>. QED
    BY <1>1, <1>2, <1>3, <2>1, PullVisible, Zenon
<1>4. ASSUME NEW c \in Call, Commit(c) PROVE [Mailbox!Next]_(Mailbox!vars)
  <2>1. ASSUME NEW S \in SUBSET AllShown, Statuses' = Statuses, AllShown' = AllShown,
               AllClaimed' = AllClaimed \cup S
        PROVE  Mailbox!Next
    <3>1. Mailbox!Claim(S)
      BY <2>1 DEF Mailbox!Claim, Statuses, AllShown, AllClaimed
    <3>2. S \in SUBSET Message
      BY <1>0
    <3>. QED
      BY <3>1, <3>2, Zenon DEF Mailbox!Next
  <2>2. ASSUME NEW S \in SUBSET AllClaimed, S \subseteq Message,
               \A m \in S : Statuses[m] = "pending", Becomes(S, "confirmed")
        PROVE  Mailbox!Next
    <3>1. Mailbox!Confirm(S)
      BY <2>2 DEF Mailbox!Confirm, Mailbox!Become, Mailbox!Pending, Becomes,
         Statuses, AllShown, AllClaimed
    <3>. QED
      BY <2>2, <3>1, Zenon DEF Mailbox!Next
  <2>. QED
    BY <1>1, <1>4, <2>1, <2>2, CommitVisible
<1>5. ASSUME NEW i \in Instance, Process(i) PROVE [Mailbox!Next]_(Mailbox!vars)
  <2>1. ASSUME NEW m \in Message, Statuses[m] = "pending", m \notin SelfAuthored,
               Becomes({m}, "gapped")
        PROVE  Mailbox!Next
    <3>1. Mailbox!Lose(m)
      BY <2>1 DEF Mailbox!Lose, Mailbox!Become, Mailbox!Pending, Becomes,
         Statuses, AllShown, AllClaimed
    <3>. QED
      BY <3>1, Zenon DEF Mailbox!Next
  <2>2. ASSUME NEW m \in Message, Statuses[m] = "pending", m \in SelfAuthored,
               Becomes({m}, "filtered")
        PROVE  Mailbox!Next
    <3>1. {m} \in SUBSET SelfAuthored /\ \A x \in {m} : Statuses[x] = "pending"
      BY <2>2
    <3>. QED
      BY <1>2, <2>2, <3>1
  <2>. QED
    BY <1>1, <1>5, <2>1, <2>2, ProcessVisible, Zenon
<1>6. ASSUME NEW m \in Message, Enqueue(m) PROVE Mailbox!Next
  <2>1. Mailbox!Publish(m)
    BY <1>6, PublishVisible DEF Mailbox!Publish, Mailbox!Become, Mailbox!Absent,
       Becomes, Statuses, AllShown, AllClaimed
  <2>. QED
    BY <2>1, Zenon DEF Mailbox!Next
<1>7. CASE UNCHANGED <<sent, acked, filtered, gapped, tags, pullPc, callPc, callPage>>
  BY <1>1, <1>7, StatusStable, ShownStable, ClaimedStable
     DEF NoPageReturned, NoCallStarted
<1>8. CASE Broker \/ Timers \/ Cleanup \/ UNCHANGED vars
  BY <1>6, <1>7, <1>8, Zenon DEF Broker, Expire, Timers, LeaseLapses, PageAges,
     TokenExpires, GapFallsDue, Cleanup, CleanupOwner, CleanupGap, vars
<1>. QED
  BY <1>3, <1>4, <1>5, <1>8, Zenon DEF Next

\* Leases, pages, reapers, recorders, lost connections and crashes implement
\* the at-least-once mailbox that the client is promised.
THEOREM Refinement == Spec => ImplementsMailbox
<1>1. Init => TagsSent
  BY DEF Init, TagsSent
<1>2. TypeOK /\ Accounted /\ TagsSent /\ [Next]_vars => TagsSent'
  BY TagsSentNext
<1>3. Init => Mailbox!Init
  <2>. SUFFICES ASSUME Init PROVE Mailbox!Init
    OBVIOUS
  <2>1. [m \in Message |-> Status(m)] = [m \in Message |-> "absent"]
    BY DEF Init, Status
  <2>2. \A p \in Page : Shown(p) = {} /\ tags[p] = {}
    BY DEF Init, Shown
  <2>. QED
    BY <2>1, <2>2 DEF Mailbox!Init
<1>4. TypeOK /\ Control /\ Holding /\ Accounted /\ TagsSent /\ [Next]_vars
        => [Mailbox!Next]_(Mailbox!vars)
  BY StepRefines
<1>. QED
  BY <1>1, <1>2, <1>3, <1>4, TypeCorrect, ControlCorrect, HoldingCorrect,
     AccountedCorrect, PTL DEF Spec, ImplementsMailbox, Mailbox!Spec

=============================================================================
