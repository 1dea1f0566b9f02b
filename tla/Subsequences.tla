---------------------------- MODULE Subsequences -----------------------------
(***************************************************************************)
(* Lists, defined by their positions, so that proofs can reason about      *)
(* them: the part of a sequence at some of its positions, which is what a  *)
(* query with a condition returns and what a delete or a rollback leaves   *)
(* (SelectSeq, with the positions as a set); a stable sort; and lists one  *)
(* after the other.                                                        *)
(***************************************************************************)
EXTENDS Naturals, Sequences, FiniteSets

\* How many positions of I come up to i.
Rank(I, i) == Cardinality({j \in I : j <= i})

\* The k-th position of I, and the first n of them.
Nth(I, k) == CHOOSE i \in I : Rank(I, i) = k
First(I, n) == {i \in I : Rank(I, i) <= n}

Subsequence(q, I) == [k \in 1 .. Cardinality(I) |-> q[Nth(I, k)]]

\* Where the position i goes when the greatest key comes first: after those
\* with a greater key, and after the earlier ones with the same.
Place(key, i) ==
  Cardinality({j \in DOMAIN key : key[j] > key[i] \/ (key[j] = key[i] /\ j <= i)})

Descending(q, key) ==
  [k \in DOMAIN q |-> q[CHOOSE i \in DOMAIN key : Place(key, i) = k]]

\* The lists of a sequence of lists, one after the other.
Joined(lists) ==
  LET upto[k \in 0 .. Len(lists)] == IF k = 0 THEN <<>> ELSE upto[k - 1] \o lists[k]
  IN  upto[Len(lists)]
=============================================================================
