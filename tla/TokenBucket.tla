----------------------------- MODULE TokenBucket -----------------------------
(***************************************************************************)
(* The bucket that admits Global publishes, gateway_global_rate_buckets:   *)
(* every publish takes a token, and a bulk publish one of the bulk tokens  *)
(* too, which come more slowly, so that a rate is left to interactive      *)
(* ones.                                                                   *)
(*                                                                         *)
(* Amounts are in units, Unit to a token, and time is in ticks.  The code  *)
(* computes in doubles; this module is exact.                              *)
(***************************************************************************)
EXTENDS Naturals

CONSTANTS
  Unit,        \* a token
  TotalRate,   \* max_global_publishes_per_second, in units per tick
  BulkRate,    \* the same less global_interactive_reserved_per_second
  Burst,       \* global_publish_burst
  MaxElapsed   \* ticks between two publishes

Class == {"interactive", "bulk"}
Elapsed == 0 .. MaxElapsed

\* Config::validate, and a burst of two tokens: the default is twenty.
ASSUME BucketAssumption ==
  /\ Unit \in Nat \ {0} /\ TotalRate \in Nat /\ BulkRate \in Nat
  /\ Burst \in Nat /\ MaxElapsed \in Nat
  /\ BulkRate <= TotalRate
  /\ Burst >= 2 * Unit

VARIABLES
  total,  \* total_tokens
  bulk,   \* bulk_tokens
  used    \* what interactive publishes took and the reserved rate has not
          \* made up for, at most a burst

bucket == <<total, bulk, used>>

\* Mutant: bulk tokens fill the whole burst.
WholeBurst == Burst

\* burst.saturating_sub(1).max(1)
BulkCapacity == Burst - Unit

BucketTypeOK ==
  /\ total \in 0 .. Burst /\ bulk \in 0 .. BulkCapacity
  /\ used \in 0 .. Burst

\* ensure_bucket
BucketInit ==
  /\ total = Burst /\ bulk = BulkCapacity
  /\ used = 0

Refill(tokens, rate, capacity, e) ==
  IF tokens + e * rate < capacity THEN tokens + e * rate ELSE capacity

Allowed(class, e) ==
  /\ Refill(total, TotalRate, Burst, e) >= Unit
  /\ class = "interactive" \/ Refill(bulk, BulkRate, BulkCapacity, e) >= Unit

Repaid(e) == IF used + e * BulkRate > e * TotalRate
             THEN used + e * BulkRate - e * TotalRate ELSE 0
Owe(u) == IF u + Unit < Burst THEN u + Unit ELSE Burst

Take(amount, if) == IF if THEN amount - Unit ELSE amount

\* acquire_global_token, e ticks after the last one: the bucket is written
\* back whether or not there is a token.
Acquire(class, e) ==
  LET ok == Allowed(class, e)
  IN  /\ total' = Take(Refill(total, TotalRate, Burst, e), ok)
      /\ bulk' = Take(Refill(bulk, BulkRate, BulkCapacity, e), ok /\ class = "bulk")
      /\ used' = IF ok /\ class = "interactive" THEN Owe(Repaid(e)) ELSE Repaid(e)

BucketNext == \E class \in Class, e \in Elapsed : Acquire(class, e)

BucketSpec == BucketInit /\ [][BucketNext]_bucket

(***************************************************************************)
(* Interactive publishes that keep to the reserved rate are never refused, *)
(* whatever bulk publishes there are: when the reserve has made up for the *)
(* earlier ones, acquire_global_token has a token for the next.            *)
(***************************************************************************)
ReservedIsGranted ==
  \A e \in Elapsed : Repaid(e) = 0 => Allowed("interactive", e)
=============================================================================
