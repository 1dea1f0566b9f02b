--------------------------- MODULE MailboxDelivery ---------------------------
(***************************************************************************)
(* Delivery of one Message Gateway mailbox: the queue of one principal and *)
(* delivery class, read in pages by a client through several Gateway       *)
(* instances that share PostgreSQL and RabbitMQ.                           *)
(*                                                                         *)
(* A pull takes the mailbox's owner lease, opens an AMQP channel, leaves   *)
(* the page's messages unacknowledged on it, and returns a commit token.   *)
(* A commit, through any instance, is routed to the owner, which ACKs the  *)
(* page.  A page nobody commits is requeued by the reaper, a crash or the  *)
(* loss of the broker connection.  Messages that outlive their TTL or      *)
(* their delivery limit are dead-lettered and compressed into gap rows,    *)
(* which pages carry and commits acknowledge.                              *)
(*                                                                         *)
(* Every step between two awaits of a handler that another actor can       *)
(* observe is an action.  Time is abstract: the owner lease runs on        *)
(* PostgreSQL's clock, a page's age on its instance's monotonic clock and  *)
(* a commit token on the wall clock of whoever verifies it, so each of     *)
(* these timers may fire at any moment after it was started.               *)
(***************************************************************************)
EXTENDS Naturals, FiniteSets

CONSTANTS
  Instance,       \* Gateway processes
  Message,        \* records and controls addressed to this mailbox
  SelfAuthored,   \* the records among them whose author is the recipient
  Page,           \* pull requests; page_id and consumer_epoch are both fresh
  Call,           \* commit requests
  GapRow,         \* compressed gap ids of this mailbox
  PageLimit,      \* most messages on a channel, and most gap rows on a page
  DeliveryLimit,  \* x-delivery-limit: returns a message survives
  Mortal,         \* messages that may outlive their TTL
  Fallible,       \* instances that may lose their connection or crash
  Nil

ASSUME ConstantsAssumption ==
  /\ SelfAuthored \subseteq Message /\ Mortal \subseteq Message
  /\ Fallible \subseteq Instance
  /\ PageLimit \in Nat
  /\ DeliveryLimit \in Nat
  /\ Nil \notin Instance \cup Page \cup Message

VARIABLES
  \* RabbitMQ
  sent,        \* messages the broker has confirmed for this mailbox
  queue,       \* ready messages
  returns,     \* how often each message was requeued
  held,        \* messages unacknowledged on the channel of each page
  dlq,         \* messages ready in the dead-letter queue
  acked,       \* messages a commit has ACKed
  filtered,    \* self-authored messages, ACKed without being shown
  gapped,      \* dead letters ACKed after a gap row counted them
  \* Gateway processes
  linked,      \* instances whose AMQP connection is alive
  open,        \* pages in some instance's pending_pages
  tags,        \* deliveries of each page, fixed when it is opened
  aged,        \* those of them older than the owner lease
  drain,       \* dead letter each instance's recorder is working on
  recorded,    \* instances whose recorder has written the gap row
  \* gateway_delivery_owners
  owner,       \* consumer epoch in the mailbox's row
  leaseLive,   \* lease_expires_at > clock_timestamp()
  \* gateway_mailbox_gaps
  covers,      \* dead letters each row counts; an empty set is no row
  gapPage,     \* delivery_page_id
  gapAcked,    \* rows with acknowledged_at set
  gapDue,      \* rows delivered at least one lease ago
  \* pull requests
  pullPc, pullInst,
  sel,         \* gap rows a pull has selected
  counted,     \* dead letters those rows counted when they were selected
  expired,     \* pages whose commit token has expired
  \* commit requests
  callPc, callPage, callVia,
  got          \* calls whose owner found and ACKed the page

queueVars  == <<queue, returns, dlq>>
brokerVars == <<sent, queue, returns, held, dlq, acked, filtered, gapped>>
pageVars   == <<open, tags, aged>>
drainVars  == <<drain, recorded>>
ownerVars  == <<owner, leaseLive>>
gapVars    == <<covers, gapPage, gapAcked, gapDue>>
pullVars   == <<pullPc, pullInst, sel, counted, expired>>
callVars   == <<callPc, callPage, callVia, got>>
vars == <<brokerVars, linked, pageVars, drainVars, ownerVars, gapVars,
          pullVars, callVars>>

PullBusy == {"acquired", "swept", "opened", "selected", "loaded"}
AtOwner  == {"check", "owned", "release"}
AtVia    == {"route", "gaps", "release2"}
CallBusy == AtOwner \cup AtVia

TypeOK ==
  /\ sent \subseteq Message /\ queue \subseteq Message
  /\ returns \in [Message -> 0 .. DeliveryLimit]
  /\ held \in [Page -> SUBSET Message]
  /\ dlq \subseteq Message /\ acked \subseteq Message
  /\ filtered \subseteq SelfAuthored /\ gapped \subseteq Message
  /\ linked \subseteq Instance
  /\ open \subseteq Page /\ aged \subseteq Page
  /\ tags \in [Page -> SUBSET Message]
  /\ drain \in [Instance -> Message \cup {Nil}]
  /\ recorded \subseteq Instance
  /\ owner \in Page \cup {Nil}
  /\ leaseLive \in BOOLEAN
  /\ covers \in [GapRow -> SUBSET Message]
  /\ gapPage \in [GapRow -> Page \cup {Nil}]
  /\ gapAcked \subseteq GapRow /\ gapDue \subseteq GapRow
  /\ pullPc \in [Page -> PullBusy \cup {"idle", "returned", "empty", "failed"}]
  /\ pullInst \in [Page -> Instance \cup {Nil}]
  /\ sel \in [Page -> SUBSET GapRow]
  /\ counted \in [Page -> SUBSET Message]
  /\ expired \subseteq Page
  /\ callPc \in [Call -> CallBusy \cup {"idle", "ok", "gone", "failed"}]
  /\ callPage \in [Call -> Page \cup {Nil}]
  /\ callVia \in [Call -> Instance \cup {Nil}]
  /\ got \subseteq Call

Init ==
  /\ sent = {} /\ queue = {} /\ dlq = {}
  /\ returns = [m \in Message |-> 0]
  /\ held = [p \in Page |-> {}]
  /\ acked = {} /\ filtered = {} /\ gapped = {}
  /\ linked = Instance
  /\ open = {} /\ aged = {}
  /\ tags = [p \in Page |-> {}]
  /\ drain = [i \in Instance |-> Nil]
  /\ recorded = {}
  /\ owner = Nil /\ leaseLive = FALSE
  /\ covers = [g \in GapRow |-> {}]
  /\ gapPage = [g \in GapRow |-> Nil]
  /\ gapAcked = {} /\ gapDue = {}
  /\ pullPc = [p \in Page |-> "idle"]
  /\ pullInst = [p \in Page |-> Nil]
  /\ sel = [p \in Page |-> {}]
  /\ counted = [p \in Page |-> {}]
  /\ expired = {}
  /\ callPc = [c \in Call |-> "idle"]
  /\ callPage = [c \in Call |-> Nil]
  /\ callVia = [c \in Call |-> Nil]
  /\ got = {}

-----------------------------------------------------------------------------
(* The broker.                                                             *)

\* A channel closes: what it still holds goes back to the queue, except the
\* messages whose returns are used up, which are dead-lettered.
Exhausted(S) == {m \in S : returns[m] = DeliveryLimit}

Requeue(ready, dead, S) ==
  /\ queue' = ready \cup (S \ Exhausted(S))
  /\ dlq' = dead \cup Exhausted(S)
  /\ returns' = [m \in Message |->
                   IF m \in S \ Exhausted(S) THEN returns[m] + 1
                                             ELSE returns[m]]

\* The messages unacknowledged on the channels of a set of pages.
Unacked(P) == UNION {held[p] : p \in P}

DropHeld(P) == held' = [p \in Page |-> IF p \in P THEN {} ELSE held[p]]

\* The broker confirms a publish to this mailbox.
Enqueue(m) ==
  /\ m \notin sent
  /\ sent' = sent \cup {m}
  /\ queue' = queue \cup {m}
  /\ UNCHANGED <<returns, held, dlq, acked, filtered, gapped, linked,
                 pageVars, drainVars, ownerVars, gapVars, pullVars, callVars>>

\* x-message-ttl runs out on a ready message.
Expire(m) ==
  /\ m \in queue \cap Mortal
  /\ queue' = queue \ {m}
  /\ dlq' = dlq \cup {m}
  /\ UNCHANGED <<sent, returns, held, acked, filtered, gapped, linked,
                 pageVars, drainVars, ownerVars, gapVars, pullVars, callVars>>

-----------------------------------------------------------------------------
(* gateway_delivery_owners.                                                *)

\* A row is handed to a new epoch only once its lease has lapsed.
TryAcquire(p) ==
  /\ owner = Nil \/ ~leaseLive \/ owner = p
  /\ owner' = p
  /\ leaseLive' = TRUE

\* load_delivery_owner finds the unexpired row of epoch p.
OwnedBy(p) == owner = p /\ leaseLive

\* Mutant: the DELETE does not compare the epoch.
ReleaseAnyOwner(p) == owner' = Nil /\ leaseLive' = FALSE

\* The row is deleted only if it still carries the caller's epoch.
ReleaseOwner(p) ==
  /\ owner' = IF owner = p THEN Nil ELSE owner
  /\ leaseLive' = IF owner = p THEN FALSE ELSE leaseLive

LeaseLapses ==
  /\ leaseLive
  /\ leaseLive' = FALSE
  /\ UNCHANGED <<brokerVars, linked, pageVars, drainVars, owner, gapVars,
                 pullVars, callVars>>

\* cleanup_expired_metadata deletes the lapsed row.
CleanupOwner ==
  /\ owner # Nil /\ ~leaseLive
  /\ owner' = Nil
  /\ UNCHANGED <<brokerVars, linked, pageVars, drainVars, leaseLive, gapVars,
                 pullVars, callVars>>

-----------------------------------------------------------------------------
(* Pulling a page.                                                         *)

PullStep(p, from, to) ==
  /\ pullPc[p] = from
  /\ pullPc' = [pullPc EXCEPT ![p] = to]

\* A pull that finds the mailbox owned answers 204 and changes nothing.
PullAcquire(p, i) ==
  /\ PullStep(p, "idle", "acquired")
  /\ TryAcquire(p)
  /\ pullInst' = [pullInst EXCEPT ![p] = i]
  /\ UNCHANGED <<brokerVars, linked, pageVars, drainVars, gapVars, sel,
                 counted, expired, callVars>>

\* Mutant: the comparison with the lease is the wrong way round.
FreshPages(i) == {p \in open \ aged : pullInst[p] = i}

\* The pages an instance's expiry scan takes out of pending_pages.
ExpiredPages(i) == {p \in open \cap aged : pullInst[p] = i}

\* Mutant: the messages were consumed with no_ack.
ClosePagesNoAck(P) ==
  open' = open \ P /\ aged' = aged \ P /\ DropHeld(P)
  /\ UNCHANGED queueVars

\* Close the channels of a set of pages taken out of pending_pages.
ClosePages(P) ==
  /\ open' = open \ P
  /\ aged' = aged \ P
  /\ DropHeld(P)
  /\ Requeue(queue, dlq, Unacked(P))

\* abandon_expired_pages, on the instance that pulls.
PullSweep(p) ==
  /\ PullStep(p, "acquired", "swept")
  /\ ClosePages(ExpiredPages(pullInst[p]))
  /\ UNCHANGED <<sent, acked, filtered, gapped, linked, tags, drainVars,
                 ownerVars, gapVars, pullInst, sel, counted, expired, callVars>>

\* The channel gets the messages in h, the consumer loop reads r of them
\* before it times out, and the rest stay prefetched.  Self-authored records
\* are ACKed at once.  The page is kept only if something is left to show.
PullOpen(p, h, r) ==
  /\ PullStep(p, "swept", "opened")
  /\ pullInst[p] \in linked
  /\ h \subseteq queue /\ r \subseteq h
  /\ Cardinality(h) <= PageLimit
  /\ filtered' = filtered \cup (r \cap SelfAuthored)
  /\ \/ /\ r \ SelfAuthored # {}
        /\ open' = open \cup {p}
        /\ tags' = [tags EXCEPT ![p] = r \ SelfAuthored]
        /\ held' = [held EXCEPT ![p] = h \ (r \cap SelfAuthored)]
        /\ queue' = queue \ h
        /\ UNCHANGED <<returns, dlq>>
     \/ /\ r \ SelfAuthored = {}
        /\ Requeue(queue \ h, dlq, h \ r)
        /\ UNCHANGED <<open, tags, held>>
  /\ UNCHANGED <<sent, acked, gapped, linked, aged, drainVars, ownerVars,
                 gapVars, pullInst, sel, counted, expired, callVars>>

\* The broker fails while the page is being read: some self-authored records
\* are already ACKed, the dropped channel returns the rest, and the owner row
\* stays until its lease lapses.
PullOpenFails(p, h, r) ==
  /\ PullStep(p, "swept", "failed")
  /\ pullInst[p] \in linked
  /\ h \subseteq queue /\ r \subseteq h \cap SelfAuthored
  /\ Cardinality(h) <= PageLimit
  /\ filtered' = filtered \cup r
  /\ Requeue(queue \ h, dlq, h \ r)
  /\ UNCHANGED <<sent, held, acked, gapped, linked, pageVars, drainVars,
                 ownerVars, gapVars, pullInst, sel, counted, expired, callVars>>

\* The rows load_for_page may put on page p.
Loadable(p) ==
  {g \in GapRow : /\ covers[g] # {} /\ g \notin gapAcked
                  /\ gapPage[g] \in {Nil, p} \/ g \in gapDue}

\* load_for_page is a SELECT ... LIMIT and then, separately, an UPDATE.
PullSelectGaps(p) ==
  /\ PullStep(p, "opened", "selected")
  /\ \E S \in SUBSET Loadable(p) :
       /\ \/ S = Loadable(p)
          \/ Cardinality(S) = PageLimit
       /\ Cardinality(S) <= PageLimit
       /\ sel' = [sel EXCEPT ![p] = S]
       /\ counted' = [counted EXCEPT ![p] = UNION {covers[g] : g \in S}]
  /\ UNCHANGED <<brokerVars, linked, pageVars, drainVars, ownerVars, gapVars,
                 pullInst, expired, callVars>>

PullAssignGaps(p) ==
  /\ PullStep(p, "selected", "loaded")
  /\ gapPage' = [g \in GapRow |->
                   IF g \in sel[p] \ gapAcked THEN p ELSE gapPage[g]]
  /\ gapDue' = gapDue \ (sel[p] \ gapAcked)
  /\ UNCHANGED <<brokerVars, linked, pageVars, drainVars, ownerVars, covers,
                 gapAcked, pullInst, sel, counted, expired, callVars>>

\* The response, with its commit token, leaves for the client.
PullReturn(p) ==
  /\ tags[p] # {} \/ sel[p] # {}
  /\ PullStep(p, "loaded", "returned")
  /\ UNCHANGED <<brokerVars, linked, pageVars, drainVars, ownerVars, gapVars,
                 pullInst, sel, counted, expired, callVars>>

\* Nothing to show: the lease is given back and the answer is 204.
PullEmpty(p) ==
  /\ tags[p] = {} /\ sel[p] = {}
  /\ PullStep(p, "loaded", "empty")
  /\ ReleaseOwner(p)
  /\ UNCHANGED <<brokerVars, linked, pageVars, drainVars, gapVars, pullInst,
                 sel, counted, expired, callVars>>

\* An error or a disconnect ends the handler; an opened page stays pending.
PullFails(p) ==
  /\ pullPc[p] \in PullBusy
  /\ pullPc' = [pullPc EXCEPT ![p] = "failed"]
  /\ UNCHANGED <<brokerVars, linked, pageVars, drainVars, ownerVars, gapVars,
                 pullInst, sel, counted, expired, callVars>>

PageAges(p) ==
  /\ p \in open \ aged
  /\ aged' = aged \cup {p}
  /\ UNCHANGED <<brokerVars, linked, open, tags, drainVars, ownerVars, gapVars,
                 pullVars, callVars>>

TokenExpires(p) ==
  /\ pullPc[p] = "returned" /\ p \notin expired
  /\ expired' = expired \cup {p}
  /\ UNCHANGED <<brokerVars, linked, pageVars, drainVars, ownerVars, gapVars,
                 pullPc, pullInst, sel, counted, callVars>>

\* reap_expired_pages, the background loop of every instance.
Reap(i) ==
  /\ ExpiredPages(i) # {}
  /\ ClosePages(ExpiredPages(i))
  /\ UNCHANGED <<sent, acked, filtered, gapped, linked, tags, drainVars,
                 ownerVars, gapVars, pullVars, callVars>>

-----------------------------------------------------------------------------
(* Committing a page.                                                      *)

CallStep(c, from, to) ==
  /\ callPc[c] = from
  /\ callPc' = [callPc EXCEPT ![c] = to]

\* A client presents the token of a page it was given to any instance.
CommitStart(c, p, v) ==
  /\ pullPc[p] = "returned" /\ p \notin expired
  /\ CallStep(c, "idle", IF v = pullInst[p] THEN "check" ELSE "route")
  /\ callPage' = [callPage EXCEPT ![c] = p]
  /\ callVia' = [callVia EXCEPT ![c] = v]
  /\ UNCHANGED <<brokerVars, linked, pageVars, drainVars, ownerVars, gapVars,
                 pullVars, got>>

\* forward_commit_to_owner checks the row, and the owner verifies the token
\* again, before the request reaches commit_local_deliveries.
CommitForward(c) ==
  /\ CallStep(c, "route", IF OwnedBy(callPage[c]) /\ callPage[c] \notin expired
                          THEN "check" ELSE "failed")
  /\ UNCHANGED <<brokerVars, linked, pageVars, drainVars, ownerVars, gapVars,
                 pullVars, callPage, callVia, got>>

CommitCheck(c) ==
  /\ CallStep(c, "check", IF OwnedBy(callPage[c]) THEN "owned" ELSE "failed")
  /\ UNCHANGED <<brokerVars, linked, pageVars, drainVars, ownerVars, gapVars,
                 pullVars, callPage, callVia, got>>

\* The page is gone from pending_pages: reaped, lost or already committed.
CommitMiss(c) ==
  /\ callPage[c] \notin open
  /\ CallStep(c, "owned", "gaps")
  /\ UNCHANGED <<brokerVars, linked, pageVars, drainVars, ownerVars, gapVars,
                 pullVars, callPage, callVia, got>>

\* Mutant: the ACK is sent with multiple set.
AckMultiple(p, S) ==
  /\ open' = open \ {p} /\ aged' = aged \ {p}
  /\ acked' = acked \cup held[p]
  /\ held' = [held EXCEPT ![p] = {}]
  /\ UNCHANGED queueVars

\* Mutant: only one of the tags is ACKed.
AckOneTag(p, S) ==
  /\ open' = open \ {p} /\ aged' = aged \ {p}
  /\ held' = [held EXCEPT ![p] = {}]
  /\ \E m \in S : acked' = acked \cup {m} /\ Requeue(queue, dlq, held[p] \ {m})

\* Mutant: the page is looked up and left in pending_pages.
AckAndKeep(p, S) ==
  /\ UNCHANGED <<open, aged>>
  /\ acked' = acked \cup S
  /\ held' = [held EXCEPT ![p] = {}]
  /\ Requeue(queue, dlq, held[p] \ S)

\* The page is taken out of pending_pages, the deliveries in S are ACKed and
\* the channel is closed, which returns whatever else it holds.
AckAndClose(p, S) ==
  /\ open' = open \ {p} /\ aged' = aged \ {p}
  /\ acked' = acked \cup S
  /\ held' = [held EXCEPT ![p] = {}]
  /\ Requeue(queue, dlq, held[p] \ S)

CommitAck(c) ==
  LET p == callPage[c]
  IN  /\ CallStep(c, "owned", "release")
      /\ p \in open /\ pullInst[p] \in linked
      /\ AckAndClose(p, tags[p])
      /\ got' = got \cup {c}
      /\ UNCHANGED <<sent, filtered, gapped, linked, tags, drainVars,
                     ownerVars, gapVars, pullVars, callPage, callVia>>

\* The broker or the handler fails after the page was taken: only some of
\* the ACKs reached the broker before the channel went.
CommitAckFails(c) ==
  LET p == callPage[c]
  IN  /\ CallStep(c, "owned", "failed")
      /\ p \in open
      /\ \E S \in SUBSET (tags[p] \cap held[p]) : AckAndClose(p, S)
      /\ UNCHANGED <<sent, filtered, gapped, linked, tags, drainVars,
                     ownerVars, gapVars, pullVars, callPage, callVia, got>>

CommitRelease(c) ==
  /\ CallStep(c, "release", "gaps")
  /\ ReleaseOwner(callPage[c])
  /\ UNCHANGED <<brokerVars, linked, pageVars, drainVars, gapVars, pullVars,
                 callPage, callVia, got>>

\* Mutant: every unacknowledged row of the mailbox is stamped.
AllGaps(p) == {g \in GapRow : covers[g] # {} /\ g \notin gapAcked}

\* The rows acknowledge_page stamps.
PageGaps(p) ==
  {g \in GapRow : covers[g] # {} /\ gapPage[g] = p /\ g \notin gapAcked}

\* Back in the instance the client called, which must still be there.
CommitGaps(c) ==
  LET G == PageGaps(callPage[c])
  IN  /\ CallStep(c, "gaps", IF G # {} THEN "release2"
                             ELSE IF c \in got THEN "ok" ELSE "gone")
      /\ callVia[c] # Nil
      /\ gapAcked' = gapAcked \cup G
      /\ UNCHANGED <<brokerVars, linked, pageVars, drainVars, ownerVars, covers,
                     gapPage, gapDue, pullVars, callPage, callVia, got>>

CommitReleaseGaps(c) ==
  /\ CallStep(c, "release2", "ok")
  /\ ReleaseOwner(callPage[c])
  /\ UNCHANGED <<brokerVars, linked, pageVars, drainVars, gapVars, pullVars,
                 callPage, callVia, got>>

\* The forwarding instance gives up waiting, and its client sees an error,
\* while the owner may carry the request through.
CommitTimesOut(c) ==
  /\ callPc[c] \in AtOwner
  /\ callVia[c] \notin {Nil, pullInst[callPage[c]]}
  /\ callVia' = [callVia EXCEPT ![c] = Nil]
  /\ UNCHANGED <<brokerVars, linked, pageVars, drainVars, ownerVars, gapVars,
                 pullVars, callPc, callPage, got>>

\* An error, a request that never arrives or a disconnect.
CommitFails(c) ==
  /\ callPc[c] \in CallBusy
  /\ callPc' = [callPc EXCEPT ![c] = "failed"]
  /\ UNCHANGED <<brokerVars, linked, pageVars, drainVars, ownerVars, gapVars,
                 pullVars, callPage, callVia, got>>

-----------------------------------------------------------------------------
(* drain_dead_letters, the background loop of every instance.              *)

DrainGet(i, m) ==
  /\ i \in linked /\ drain[i] = Nil /\ m \in dlq
  /\ dlq' = dlq \ {m}
  /\ drain' = [drain EXCEPT ![i] = m]
  /\ UNCHANGED <<sent, queue, returns, held, acked, filtered, gapped, linked,
                 pageVars, recorded, ownerVars, gapVars, pullVars, callVars>>

\* record_gap: the row g of the message's route, reason and hour is inserted
\* or counts one more; acknowledged_at and delivery_page_id are left alone.
DrainRecord(i, g) ==
  /\ drain[i] # Nil /\ drain[i] \notin SelfAuthored
  /\ i \notin recorded
  /\ covers' = [covers EXCEPT ![g] = @ \cup {drain[i]}]
  /\ recorded' = recorded \cup {i}
  /\ UNCHANGED <<brokerVars, linked, pageVars, drain, ownerVars, gapPage,
                 gapAcked, gapDue, pullVars, callVars>>

\* The dead letter is ACKed once its gap is written; one that its own author
\* would have received is ACKed without a gap.
DrainAck(i) ==
  LET m == drain[i]
  IN  /\ m # Nil
      /\ \/ m \in SelfAuthored /\ filtered' = filtered \cup {m}
            /\ UNCHANGED gapped
         \/ m \notin SelfAuthored /\ i \in recorded
            /\ gapped' = gapped \cup {m} /\ UNCHANGED filtered
      /\ drain' = [drain EXCEPT ![i] = Nil]
      /\ recorded' = recorded \ {i}
      /\ UNCHANGED <<sent, queue, returns, held, dlq, acked, linked, pageVars,
                     ownerVars, gapVars, pullVars, callVars>>

\* The dead letters that the recorders of a set of instances hold.
Draining(I) == {drain[i] : i \in I} \ {Nil}

\* An error ends the pass; its dropped channel returns the dead letter.
DrainFails(i) ==
  /\ drain[i] # Nil
  /\ dlq' = dlq \cup {drain[i]}
  /\ drain' = [drain EXCEPT ![i] = Nil]
  /\ recorded' = recorded \ {i}
  /\ UNCHANGED <<sent, queue, returns, held, acked, filtered, gapped, linked,
                 pageVars, ownerVars, gapVars, pullVars, callVars>>

\* A row that a page carried may be carried by another one a lease later.
GapFallsDue(g) ==
  /\ gapPage[g] # Nil /\ g \notin gapDue
  /\ gapDue' = gapDue \cup {g}
  /\ UNCHANGED <<brokerVars, linked, pageVars, drainVars, ownerVars, covers,
                 gapPage, gapAcked, pullVars, callVars>>

\* cleanup_expired_metadata deletes an acknowledged row after its retention.
CleanupGap(g) ==
  /\ g \in gapAcked
  /\ covers' = [covers EXCEPT ![g] = {}]
  /\ gapPage' = [gapPage EXCEPT ![g] = Nil]
  /\ gapAcked' = gapAcked \ {g}
  /\ gapDue' = gapDue \ {g}
  /\ UNCHANGED <<brokerVars, linked, pageVars, drainVars, ownerVars, pullVars,
                 callVars>>

-----------------------------------------------------------------------------
(* Failures of a process.                                                  *)

Here(i) == {p \in Page : pullInst[p] = i}

\* The AMQP connection is lost.  The broker returns everything it had handed
\* out; pending_pages keeps the dead channels, and nothing reconnects.
ConnectionLost(i) ==
  /\ i \in linked \cap Fallible
  /\ linked' = linked \ {i}
  /\ DropHeld(Here(i))
  /\ Requeue(queue, dlq \cup Draining({i}), Unacked(Here(i)))
  /\ drain' = [drain EXCEPT ![i] = Nil]
  /\ recorded' = recorded \ {i}
  /\ UNCHANGED <<sent, acked, filtered, gapped, pageVars, ownerVars, gapVars,
                 pullVars, callVars>>

\* The process dies and restarts: connection, pending_pages, recorder and
\* handlers are lost.  A call forwarded by it may go on at the owner.
Crash(i) ==
  /\ i \in Fallible
  /\ linked' = linked \cup {i}
  /\ open' = open \ Here(i) /\ aged' = aged \ Here(i)
  /\ DropHeld(Here(i))
  /\ Requeue(queue, dlq \cup Draining({i}), Unacked(Here(i)))
  /\ drain' = [drain EXCEPT ![i] = Nil]
  /\ recorded' = recorded \ {i}
  /\ pullPc' = [p \in Page |-> IF p \in Here(i) /\ pullPc[p] \in PullBusy
                               THEN "failed" ELSE pullPc[p]]
  /\ callPc' = [c \in Call |->
                  IF \/ callPc[c] \in AtVia /\ callVia[c] = i
                     \/ callPc[c] \in AtOwner /\ callPage[c] \in Here(i)
                  THEN "failed" ELSE callPc[c]]
  /\ callVia' = [c \in Call |-> IF callVia[c] = i THEN Nil ELSE callVia[c]]
  /\ UNCHANGED <<sent, acked, filtered, gapped, tags, ownerVars, gapVars,
                 pullInst, sel, counted, expired, callPage, got>>

-----------------------------------------------------------------------------
Broker == \E m \in Message : Enqueue(m) \/ Expire(m)

Timers ==
  \/ LeaseLapses
  \/ \E p \in Page : PageAges(p) \/ TokenExpires(p)
  \/ \E g \in GapRow : GapFallsDue(g)

Pull(p) ==
  \/ \E i \in Instance : PullAcquire(p, i)
  \/ PullSweep(p)
  \/ \E h \in SUBSET queue : \E r \in SUBSET h :
       PullOpen(p, h, r) \/ PullOpenFails(p, h, r)
  \/ PullSelectGaps(p) \/ PullAssignGaps(p)
  \/ PullReturn(p) \/ PullEmpty(p) \/ PullFails(p)

Commit(c) ==
  \/ \E p \in Page, v \in Instance : CommitStart(c, p, v)
  \/ CommitForward(c) \/ CommitCheck(c)
  \/ CommitMiss(c) \/ CommitAck(c) \/ CommitAckFails(c)
  \/ CommitRelease(c) \/ CommitGaps(c) \/ CommitReleaseGaps(c)
  \/ CommitTimesOut(c) \/ CommitFails(c)

Drain(i) ==
  \/ \E m \in Message : DrainGet(i, m)
  \/ \E g \in GapRow : DrainRecord(i, g)
  \/ DrainAck(i) \/ DrainFails(i)

Cleanup == CleanupOwner \/ \E g \in GapRow : CleanupGap(g)

Process(i) == Reap(i) \/ Drain(i) \/ ConnectionLost(i) \/ Crash(i)

Next ==
  \/ Broker \/ Timers \/ Cleanup
  \/ \E p \in Page : Pull(p)
  \/ \E c \in Call : Commit(c)
  \/ \E i \in Instance : Process(i)

Spec == Init /\ [][Next]_vars

\* Time passes, the background loops of main.rs run for ever, and a dead
\* letter that is retried again and again is recorded and ACKed at last.
Fairness ==
  /\ \A m \in Message : WF_vars(Expire(m))
  /\ \A p \in Page : WF_vars(PageAges(p))
  /\ \A i \in Instance : /\ WF_vars(Reap(i))
                         /\ WF_vars(\E m \in Message : DrainGet(i, m))
                         /\ SF_vars(\E g \in GapRow : DrainRecord(i, g))
                         /\ SF_vars(DrainAck(i))

FairSpec == Spec /\ Fairness

-----------------------------------------------------------------------------
(* Correctness.                                                            *)

\* The messages a page shows once its response has left.
Shown(p) == IF pullPc[p] = "returned" THEN tags[p] ELSE {}

\* The page's token was presented and accepted.
Presented(p) == \E c \in Call : callPc[c] # "idle" /\ callPage[c] = p

Settled == acked \cup filtered \cup gapped

\* Through pulls, commits, reaping, cut connections, crashes and dead
\* lettering, a message the broker confirmed is neither lost nor duplicated:
\* it is ready, or unacknowledged on one channel, or waiting for or in the
\* hands of one recorder, or settled in one way.
EveryMessageAccounted ==
  /\ sent = queue \cup Unacked(Page) \cup dlq \cup Draining(Instance)
              \cup Settled
  /\ queue \cap (Unacked(Page) \cup dlq \cup Draining(Instance) \cup Settled) = {}
  /\ Unacked(Page) \cap (dlq \cup Draining(Instance) \cup Settled) = {}
  /\ dlq \cap (Draining(Instance) \cup Settled) = {}
  /\ Draining(Instance) \cap Settled = {}
  /\ acked \cap (filtered \cup gapped) = {} /\ filtered \cap gapped = {}
  /\ \A p, q \in Page : p # q => held[p] \cap held[q] = {}
  /\ \A i, j \in Instance : i # j /\ drain[i] # Nil => drain[i] # drain[j]

\* Manual ACK: commit_page ACKs a message only if the client was shown it on
\* a page whose commit token it then presented.
AckedOnlyIfCommitted ==
  \A m \in acked : \E p \in Page : m \in Shown(p) /\ Presented(p)

\* A commit that reports deliveries has settled every one of them, so the
\* client that drops its copy on this answer will not see them again.
CommitOkMeansAcked ==
  \A c \in got : callPc[c] = "ok" => tags[callPage[c]] \subseteq acked

\* Of the concurrent and repeated commits of one page, at most one finds the
\* page in pending_pages and reports its deliveries.
CommittedOnce ==
  \A c, d \in got : callPage[c] = callPage[d] => c = d

\* A successful commit has given the mailbox back: the next pull need not
\* wait for the lease.
CommitFreesMailbox ==
  \A c \in Call : callPc[c] = "ok" => owner # callPage[c]

\* Unacknowledged messages are never stranded: the channel that holds them
\* belongs to a page that the reaper of a connected instance can still close.
HeldIsReclaimable ==
  \A p \in Page : held[p] # {} => p \in open /\ pullInst[p] \in linked

\* acknowledge_page stamps only rows that a page handed to the client, with a
\* token the client presented.
GapAckedOnlyIfShown ==
  \A g \in gapAcked :
    \E p \in Page : pullPc[p] = "returned" /\ g \in sel[p] /\ Presented(p)

\* A live lease fences the mailbox: until it lapses, the row changes only by
\* being released by the pull or commit of the very epoch that holds it.
LeaseFencesOwner ==
  [][owner # Nil /\ leaseLive /\ owner' # owner =>
       /\ owner' = Nil
       /\ \/ pullPc[owner] = "loaded" /\ pullPc'[owner] = "empty"
          \/ \E c \in Call : /\ callPage[c] = owner
                             /\ callPc[c] \in {"release", "release2"}
                             /\ callPc'[c] \in {"gaps", "ok"}]_vars

\* No message stays in the mailbox for ever: pulls that fail, pages nobody
\* commits and instances that die only delay its ACK or its gap row.
EventuallySettled == \A m \in Message : m \in sent ~> m \in Settled

\* Contract test: an expired or delivery-limited record "must become a gap"
\* that load_for_page returns.  Every dead letter that was drained is counted
\* by a row still to be shown, or was counted by one that a page showed.
DeadLetterBecomesGap ==
  \A m \in gapped :
    \/ \E g \in GapRow \ gapAcked : m \in covers[g]
    \/ \E p \in Page : pullPc[p] = "returned" /\ m \in counted[p]

-----------------------------------------------------------------------------
(* The facts that make the invariants above inductive.                     *)

\* A page id is opened at most once: nothing is on it before.
PagesFresh ==
  \A p \in Page : pullPc[p] \in {"idle", "acquired", "swept"} =>
    p \notin open /\ tags[p] = {}

\* While its connection lives, the channel of a pending page still holds
\* every delivery of the page.
PagesHold ==
  \A p \in open : pullInst[p] \in linked => tags[p] \subseteq held[p]

\* Only confirmed messages by other authors are ever on a page.
TagsSent == \A p \in Page : tags[p] \subseteq sent \ SelfAuthored

\* Every commit request in progress or over is about a returned page.
CallsReturned ==
  \A c \in Call : callPc[c] # "idle" =>
    callPage[c] \in Page /\ pullPc[callPage[c]] = "returned"

\* A call that found its page has settled it, and the page is gone.
GotSettled ==
  \A c \in got :
    /\ callPc[c] \notin {"idle", "route", "check", "owned"}
    /\ callPage[c] \notin open /\ tags[callPage[c]] \subseteq acked

\* An epoch that was released never owns the mailbox again.
OwnerReleased ==
  \A c \in Call :
    callPc[c] = "ok" \/ (c \in got /\ callPc[c] \in {"gaps", "release2"})
      => owner # callPage[c]

\* A row is assigned only to a page whose pull selected it.
GapsSelected ==
  \A g \in GapRow : gapPage[g] # Nil =>
    /\ g \in sel[gapPage[g]]
    /\ pullPc[gapPage[g]] \in {"loaded", "returned", "empty", "failed"}

-----------------------------------------------------------------------------
(* Refinement.                                                             *)

\* To its client the mailbox is an at-least-once queue: the messages pages
\* have shown, and the ones the client has asked to commit.
Status(m) == IF m \in acked THEN "confirmed"
             ELSE IF m \in filtered THEN "filtered"
             ELSE IF m \in gapped THEN "gapped"
             ELSE IF m \in sent THEN "pending" ELSE "absent"

Mailbox == INSTANCE AtLeastOnceMailbox
             WITH status <- [m \in Message |-> Status(m)],
                  shown <- UNION {Shown(p) : p \in Page},
                  claimed <- UNION {tags[p] : p \in {q \in Page : Presented(q)}}

\* Every step of the leases, pages, crashes and recorders is a step of the
\* abstract at-least-once mailbox, or invisible to the client.
ImplementsMailbox == Mailbox!Spec

=============================================================================
