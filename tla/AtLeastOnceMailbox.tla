------------------------- MODULE AtLeastOnceMailbox -------------------------
(***************************************************************************)
(* What a mailbox promises its client.  A published message stays pending  *)
(* until it is confirmed, filtered or turned into a gap, and then for ever *)
(* stays what it became.  It may be shown any number of times, even after  *)
(* it was confirmed, and is confirmed only if the client, having been      *)
(* shown it, claimed it.                                                   *)
(***************************************************************************)
CONSTANTS Message, SelfAuthored

VARIABLES
  status,   \* what became of each message
  shown,    \* messages some response has carried
  claimed   \* messages the client has asked to commit

vars == <<status, shown, claimed>>

Pending == {m \in Message : status[m] = "pending"}
Absent  == {m \in Message : status[m] = "absent"}

Init ==
  /\ status = [m \in Message |-> "absent"]
  /\ shown = {} /\ claimed = {}

Become(S, new) ==
  /\ status' = [m \in Message |-> IF m \in S THEN new ELSE status[m]]
  /\ UNCHANGED <<shown, claimed>>

Publish(m) == m \in Absent /\ Become({m}, "pending")

Show(S) ==
  /\ S \cap Absent = {}
  /\ shown' = shown \cup S
  /\ UNCHANGED <<status, claimed>>

Claim(S) ==
  /\ S \subseteq shown
  /\ claimed' = claimed \cup S
  /\ UNCHANGED <<status, shown>>

Confirm(S) == S \subseteq Pending \cap claimed /\ Become(S, "confirmed")

Filter(S) == S \subseteq Pending \cap SelfAuthored /\ Become(S, "filtered")

Lose(m) == m \in Pending \ SelfAuthored /\ Become({m}, "gapped")

Next ==
  \/ \E m \in Message : Publish(m) \/ Lose(m)
  \/ \E S \in SUBSET Message : Show(S) \/ Claim(S) \/ Confirm(S) \/ Filter(S)

Spec == Init /\ [][Next]_vars

=============================================================================
