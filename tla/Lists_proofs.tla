---------------------------- MODULE Lists_proofs -----------------------------
(***************************************************************************)
(* Proofs about lists, for lists of any length.                            *)
(*                                                                         *)
(* Module Subsequences: a subsequence has the elements at the positions,   *)
(* all of them, each once and in their order; a sorted list has all the    *)
(* elements in the order of their keys; joined lists have the elements of  *)
(* each.                                                                   *)
(*                                                                         *)
(* Module NodeList: the list that gateways make together is the one that a *)
(* gateway with all their reports would make.                              *)
(***************************************************************************)
EXTENDS NodeList, FiniteSetTheorems, TLAPS

(***************************************************************************)
(* Positions of a sequence are finitely many.                              *)
(***************************************************************************)
LEMMA PositionsAreFinite ==
  ASSUME NEW n \in Nat, NEW I \in SUBSET (1 .. n)
  PROVE  IsFiniteSet(I) /\ Cardinality(I) \in Nat
<1>1. IsFiniteSet(1 .. n)
  BY FS_Interval
<1>2. IsFiniteSet(I)
  BY <1>1, FS_Subset
<1>3. QED
  BY <1>2, FS_CardinalityType

(***************************************************************************)
(* A position's rank is between 1 and the number of positions, and a later *)
(* position has a greater one.                                             *)
(***************************************************************************)
LEMMA RanksGrow ==
  ASSUME NEW n \in Nat, NEW I \in SUBSET (1 .. n)
  PROVE  /\ \A i \in I : Rank(I, i) \in 1 .. Cardinality(I)
         /\ \A i, j \in I : i < j => Rank(I, i) < Rank(I, j)
<1> DEFINE Upto(i) == {j \in I : j <= i}
<1>1. IsFiniteSet(I) /\ Cardinality(I) \in Nat
  BY PositionsAreFinite
<1>2. \A i \in I : /\ Upto(i) \in SUBSET I /\ i \in Upto(i)
                   /\ IsFiniteSet(Upto(i)) /\ Cardinality(Upto(i)) \in Nat
  <2> TAKE i \in I
  <2>1. Upto(i) \in SUBSET I /\ i \in Upto(i)
    OBVIOUS
  <2>2. IsFiniteSet(Upto(i))
    BY <1>1, <2>1, FS_Subset
  <2>3. QED
    BY <2>1, <2>2, FS_CardinalityType
<1>3. ASSUME NEW i \in I
      PROVE  Cardinality(Upto(i)) \in 1 .. Cardinality(I)
  <2> HIDE DEF Upto
  <2>1. Cardinality(Upto(i)) <= Cardinality(I)
    BY <1>1, <1>2, FS_Subset
  <2>2. Cardinality(Upto(i)) # 0
    BY <1>2, FS_EmptySet
  <2>3. QED
    BY <1>1, <1>2, <2>1, <2>2
<1>4. ASSUME NEW i \in I, NEW j \in I, i < j
      PROVE  Cardinality(Upto(i)) < Cardinality(Upto(j))
  <2>0. \A x \in I : x \in Nat
    OBVIOUS
  <2>1. Upto(i) \in SUBSET Upto(j) /\ j \notin Upto(i)
    <3>1. i \in Nat /\ j \in Nat /\ i < j
      BY <1>4, <2>0
    <3>2. \A x \in Nat : x <= i => x <= j
      BY <3>1
    <3>3. ~ (j <= i)
      BY <3>1
    <3>4. QED
      BY <2>0, <3>2, <3>3
  <2> HIDE DEF Upto
  <2>2. Upto(i) # Upto(j)
    BY <1>2, <2>1
  <2>3. /\ Cardinality(Upto(i)) <= Cardinality(Upto(j))
        /\ Cardinality(Upto(i)) # Cardinality(Upto(j))
    BY <1>2, <2>1, <2>2, FS_Subset
  <2>4. QED
    BY <1>2, <2>3
<1>5. QED
  BY <1>3, <1>4 DEF Rank

(***************************************************************************)
(* For every k there is exactly one position of rank k: Nth names it.      *)
(***************************************************************************)
LEMMA NthHasRank ==
  ASSUME NEW n \in Nat, NEW I \in SUBSET (1 .. n),
         NEW k \in 1 .. Cardinality(I)
  PROVE  Nth(I, k) \in I /\ Rank(I, Nth(I, k)) = k
<1> DEFINE m == Cardinality(I)
           f == [i \in I |-> Rank(I, i)]
<1>1. IsFiniteSet(I) /\ m \in Nat
  BY PositionsAreFinite
<1>0. /\ \A i \in I : Rank(I, i) \in 1 .. m
      /\ \A i, j \in I : i < j => Rank(I, i) < Rank(I, j)
  BY RanksGrow, Zenon
<1>2. f \in [I -> 1 .. m]
  BY <1>0, Zenon
<1>3. \A i, j \in I : f[i] = f[j] => i = j
  <2> SUFFICES ASSUME NEW i \in I, NEW j \in I, i # j
               PROVE  Rank(I, i) # Rank(I, j)
    OBVIOUS
  <2>1. i < j \/ j < i
    OBVIOUS
  <2>2. Rank(I, i) < Rank(I, j) \/ Rank(I, j) < Rank(I, i)
    BY <1>0, <2>1, Zenon
  <2>3. Rank(I, i) \in 1 .. m /\ Rank(I, j) \in 1 .. m
    BY <1>0, Zenon
  <2>4. QED
    BY <1>1, <2>2, <2>3
<1>4. f \in Injection(I, 1 .. m)
  BY <1>2, <1>3 DEF Injection, IsInjective
<1>5. IsFiniteSet(1 .. m) /\ Cardinality(1 .. m) = m
  BY <1>1, FS_Interval
<1>6. f \in Surjection(I, 1 .. m)
  BY <1>4, <1>5, FS_Injection
<1>7. \E i \in I : f[i] = k
  BY <1>6 DEF Surjection
<1>8. \E i \in I : Rank(I, i) = k
  BY <1>7
<1>9. QED
  BY <1>8 DEF Nth

\* h maps the positions of s to the positions I of q, in order.
Embeds(h, s, q, I) ==
  /\ h \in [1 .. Cardinality(I) -> I]
  /\ \A j, k \in 1 .. Cardinality(I) : j < k => h[j] < h[k]
  /\ \A i \in I : \E k \in 1 .. Cardinality(I) : h[k] = i
  /\ s = [k \in 1 .. Cardinality(I) |-> q[h[k]]]

(***************************************************************************)
(* The elements of a subsequence are those of the positions, in their      *)
(* order and all of them.                                                  *)
(***************************************************************************)
THEOREM SubsequenceKeepsOrder ==
  ASSUME NEW q, NEW n \in Nat, NEW I \in SUBSET (1 .. n)
  PROVE  \E h : Embeds(h, Subsequence(q, I), q, I)
<1> DEFINE m == Cardinality(I)
           h == [k \in 1 .. m |-> Nth(I, k)]
<1>1. m \in Nat
  BY PositionsAreFinite
<1>0. /\ \A i \in I : i \in Nat /\ Rank(I, i) \in 1 .. m
      /\ \A i, j \in I : i < j => Rank(I, i) < Rank(I, j)
  <2>1. \A i \in I : i \in Nat
    OBVIOUS
  <2> HIDE DEF h
  <2>2. QED
    BY <2>1, RanksGrow
<1>2. \A k \in 1 .. m : Nth(I, k) \in I /\ Rank(I, Nth(I, k)) = k
  BY NthHasRank
<1>3. h \in [1 .. m -> I]
  BY <1>2
<1>4. ASSUME NEW j \in 1 .. m, NEW k \in 1 .. m, j < k
      PROVE  h[j] < h[k]
  <2>1. h[j] \in I /\ h[k] \in I /\ Rank(I, h[j]) = j /\ Rank(I, h[k]) = k
    BY <1>2
  <2> HIDE DEF h
  <2>2. h[j] \in Nat /\ h[k] \in Nat
    BY <1>0, <2>1
  <2>3. ~ (h[k] < h[j])
    BY <1>4, <1>0, <2>1, <2>2
  <2>4. h[k] # h[j]
    BY <1>4, <2>1, <2>2
  <2>5. QED
    BY <2>2, <2>3, <2>4
<1>5. ASSUME NEW i \in I
      PROVE  \E k \in 1 .. m : h[k] = i
  <2>1. Rank(I, i) \in 1 .. m
    BY <1>0
  <2> DEFINE k == Rank(I, i)
  <2>2. h[k] \in I /\ Rank(I, h[k]) = k
    BY <1>2, <2>1
  <2> HIDE DEF h
  <2>3. i \in Nat /\ h[k] \in Nat
    BY <1>0, <2>2
  <2>4. ~ (h[k] < i) /\ ~ (i < h[k])
    BY <1>0, <2>2, <2>3
  <2>5. h[k] = i
    BY <2>3, <2>4
  <2>6. QED
    BY <2>1, <2>5
<1>6. Subsequence(q, I) = [k \in 1 .. m |-> q[h[k]]]
  BY DEF Subsequence
<1> HIDE DEF h
<1>7. QED
  <2>1. Embeds(h, Subsequence(q, I), q, I)
    BY <1>3, <1>4, <1>5, <1>6 DEF Embeds
  <2>2. QED
    BY <2>1

(***************************************************************************)
(* A subsequence is a sequence of the same elements.                       *)
(***************************************************************************)
THEOREM SubsequenceIsSeq ==
  ASSUME NEW S, NEW q \in Seq(S), NEW I \in SUBSET DOMAIN q
  PROVE  /\ Subsequence(q, I) \in Seq(S)
         /\ Len(Subsequence(q, I)) = Cardinality(I)
         /\ Cardinality(I) \in Nat
<1>1. Len(q) \in Nat /\ DOMAIN q = 1 .. Len(q) /\ \A i \in I : q[i] \in S
  OBVIOUS
<1>2. Cardinality(I) \in Nat
  BY <1>1, PositionsAreFinite
<1>3. PICK h : Embeds(h, Subsequence(q, I), q, I)
  BY <1>1, SubsequenceKeepsOrder
<1>4. \A k \in 1 .. Cardinality(I) : q[h[k]] \in S
  BY <1>1, <1>3 DEF Embeds
<1>5. QED
  BY <1>2, <1>3, <1>4 DEF Embeds

(***************************************************************************)
(* The positions of a page are positions, and there is a last one.         *)
(***************************************************************************)
LEMMA PageHasLast ==
  ASSUME NEW n \in Nat, NEW I \in SUBSET (1 .. n), I # {}, NEW size \in Nat \ {0}
  PROVE  /\ First(I, size) \in SUBSET I
         /\ Nth(First(I, size), Cardinality(First(I, size))) \in 1 .. n
<1> DEFINE page == First(I, size)
<1>1. page \in SUBSET I
  BY DEF First
<1>2. IsFiniteSet(I) /\ Cardinality(I) \in Nat
  BY PositionsAreFinite
<1>3. 1 \in 1 .. Cardinality(I)
  <2>1. Cardinality(I) # 0
    BY <1>2, FS_EmptySet
  <2>2. QED
    BY <1>2, <2>1
<1>4. Nth(I, 1) \in I /\ Rank(I, Nth(I, 1)) = 1
  BY <1>3, NthHasRank
<1>5. page # {}
  BY <1>4 DEF First
<1> HIDE DEF page
<1>6. page \in SUBSET (1 .. n)
  BY <1>1
<1>7. IsFiniteSet(page) /\ Cardinality(page) \in Nat
  BY <1>6, PositionsAreFinite
<1>8. Cardinality(page) \in 1 .. Cardinality(page)
  <2>1. Cardinality(page) # 0
    BY <1>5, <1>7, FS_EmptySet
  <2>2. QED
    BY <1>7, <2>1
<1>9. Nth(page, Cardinality(page)) \in page
  BY <1>6, <1>8, NthHasRank
<1>10. QED
  BY <1>1, <1>6, <1>9 DEF page

(***************************************************************************)
(* Of some positions one is the first.  This is how what follows is proved *)
(* by induction: there is no first position at which it fails.             *)
(***************************************************************************)
LEMMA OneIsFirst ==
  ASSUME NEW n \in Nat, NEW I \in SUBSET (1 .. n), I # {}
  PROVE  \E i \in I : \A j \in I : i <= j
<1>1. IsFiniteSet(I) /\ Cardinality(I) \in Nat
  BY PositionsAreFinite
<1>2. 1 \in 1 .. Cardinality(I)
  <2>1. Cardinality(I) # 0
    BY <1>1, FS_EmptySet
  <2>2. QED
    BY <1>1, <2>1
<1>3. PICK i \in I : Rank(I, i) = 1
  BY <1>2, NthHasRank
<1>4. ASSUME NEW j \in I PROVE i <= j
  <2>1. Rank(I, j) \in 1 .. Cardinality(I) /\ (j < i => Rank(I, j) < Rank(I, i))
    BY RanksGrow
  <2>2. ~ (j < i)
    BY <1>1, <1>3, <2>1
  <2>3. i \in Nat /\ j \in Nat
    OBVIOUS
  <2>4. QED
    BY <2>2, <2>3
<1>5. QED
  BY <1>4

\* The positions that come no later than i in the order of the keys.
Ahead(key, i) == {j \in DOMAIN key : key[j] > key[i] \/ (key[j] = key[i] /\ j <= i)}

(***************************************************************************)
(* A place is a position.                                                  *)
(***************************************************************************)
LEMMA PlaceIsPosition ==
  ASSUME NEW n \in Nat, NEW key \in [1 .. n -> Int], NEW i \in 1 .. n
  PROVE  /\ Place(key, i) \in 1 .. n
         /\ Place(key, i) = Cardinality(Ahead(key, i)) /\ IsFiniteSet(Ahead(key, i))
         /\ i \in Ahead(key, i)
<1>1. /\ Ahead(key, i) \in SUBSET (1 .. n) /\ i \in Ahead(key, i)
      /\ Place(key, i) = Cardinality(Ahead(key, i))
  BY DEF Ahead, Place
<1>2. IsFiniteSet(1 .. n) /\ Cardinality(1 .. n) = n
  BY FS_Interval
<1>3. IsFiniteSet(Ahead(key, i)) /\ Cardinality(Ahead(key, i)) \in Nat
  BY <1>1, PositionsAreFinite, Zenon
<1>4. Cardinality(Ahead(key, i)) <= n
  BY <1>1, <1>2, FS_Subset, Zenon
<1>5. Cardinality(Ahead(key, i)) # 0
  BY <1>1, <1>3, FS_EmptySet, Zenon
<1>6. Cardinality(Ahead(key, i)) \in 1 .. n
  BY <1>3, <1>4, <1>5
<1>7. QED
  BY <1>1, <1>3, <1>6, Zenon

(***************************************************************************)
(* Of two positions one comes before the other in the order of the keys,   *)
(* and has the lower place.                                                *)
(***************************************************************************)
LEMMA PlacesGrow ==
  ASSUME NEW n \in Nat, NEW key \in [1 .. n -> Int],
         NEW i \in 1 .. n, NEW j \in 1 .. n, i # j
  PROVE  /\ i \in Ahead(key, j) \/ j \in Ahead(key, i)
         /\ i \in Ahead(key, j) => Place(key, i) < Place(key, j)
<1>1. i \in Ahead(key, j) \/ j \in Ahead(key, i)
  BY DEF Ahead
<1>2. ASSUME i \in Ahead(key, j) PROVE Place(key, i) < Place(key, j)
  <2>1. Ahead(key, i) \in SUBSET Ahead(key, j) /\ j \notin Ahead(key, i)
    BY <1>2 DEF Ahead
  <2>2. /\ Place(key, i) \in 1 .. n /\ Place(key, j) \in 1 .. n
        /\ Place(key, i) = Cardinality(Ahead(key, i)) /\ Place(key, j) = Cardinality(Ahead(key, j))
        /\ IsFiniteSet(Ahead(key, j)) /\ j \in Ahead(key, j)
    BY PlaceIsPosition, Zenon
  <2>3. Place(key, i) <= Place(key, j) /\ Place(key, i) # Place(key, j)
    BY <2>1, <2>2, FS_Subset, Zenon
  <2>4. Place(key, i) \in Nat /\ Place(key, j) \in Nat
    BY <2>2
  <2>5. QED
    BY <2>3, <2>4
<1>3. QED
  BY <1>1, <1>2, Zenon

\* h orders the positions of q by their keys, equals as they were.
Sorts(h, s, q, key, n) ==
  /\ h \in [1 .. n -> 1 .. n]
  /\ \A i \in 1 .. n : \E k \in 1 .. n : h[k] = i
  /\ \A j, k \in 1 .. n : j < k => \/ key[h[j]] > key[h[k]]
                                   \/ key[h[j]] = key[h[k]] /\ h[j] < h[k]
  /\ s = [k \in 1 .. n |-> q[h[k]]]

(***************************************************************************)
(* Descending has all elements, in the order of their keys, and keeps the  *)
(* order of equals.                                                        *)
(***************************************************************************)
THEOREM DescendingSorts ==
  ASSUME NEW n \in Nat, NEW key \in [1 .. n -> Int], NEW q, DOMAIN q = 1 .. n
  PROVE  \E h : Sorts(h, Descending(q, key), q, key, n)
<1> DEFINE f == [i \in 1 .. n |-> Place(key, i)]
           h == [k \in 1 .. n |-> CHOOSE i \in 1 .. n : Place(key, i) = k]
<1>1. \A i \in 1 .. n : Place(key, i) \in 1 .. n
  BY PlaceIsPosition, Zenon
<1>2. \A i, j \in 1 .. n : Place(key, i) = Place(key, j) => i = j
  <2> SUFFICES ASSUME NEW i \in 1 .. n, NEW j \in 1 .. n, i # j
               PROVE  Place(key, i) # Place(key, j)
    BY Zenon
  <2>1. Place(key, i) < Place(key, j) \/ Place(key, j) < Place(key, i)
    BY PlacesGrow, Zenon
  <2>2. Place(key, i) \in 1 .. n /\ Place(key, j) \in 1 .. n
    BY <1>1, Zenon
  <2>3. Place(key, i) \in Nat /\ Place(key, j) \in Nat
    BY <2>2
  <2>4. QED
    BY <2>1, <2>3
<1>3. f \in Injection(1 .. n, 1 .. n)
  <2>1. f \in [1 .. n -> 1 .. n] /\ DOMAIN f = 1 .. n
    BY <1>1, Zenon
  <2>2. \A i, j \in 1 .. n : f[i] = f[j] => i = j
    BY <1>2, Zenon
  <2> HIDE DEF f
  <2>3. QED
    BY <2>1, <2>2, Zenon DEF Injection, IsInjective
<1>4. f \in Surjection(1 .. n, 1 .. n)
  BY <1>3, FS_Interval, FS_Injection
<1>5. \A k \in 1 .. n : h[k] \in 1 .. n /\ Place(key, h[k]) = k
  <2>1. \A k \in 1 .. n : \E i \in 1 .. n : Place(key, i) = k
    BY <1>4, Zenon DEF Surjection
  <2>2. QED
    BY <2>1, Zenon
<1>6. Descending(q, key) = [k \in 1 .. n |-> q[h[k]]]
  <2>1. DOMAIN key = 1 .. n
    OBVIOUS
  <2>2. QED
    BY <2>1 DEF Descending
<1>7. h \in [1 .. n -> 1 .. n]
  BY <1>5, Zenon
<1> HIDE DEF h, f
<1>8. \A i \in 1 .. n : \E k \in 1 .. n : h[k] = i
  BY <1>1, <1>2, <1>5, Zenon
<1>9. ASSUME NEW j \in 1 .. n, NEW k \in 1 .. n, j < k
      PROVE  key[h[j]] > key[h[k]] \/ (key[h[j]] = key[h[k]] /\ h[j] < h[k])
  <2>1. /\ h[j] \in 1 .. n /\ h[k] \in 1 .. n
        /\ Place(key, h[j]) = j /\ Place(key, h[k]) = k /\ j \in Nat /\ k \in Nat
    BY <1>5
  <2>2. h[j] # h[k]
    BY <1>9, <2>1
  <2>3. ~ (Place(key, h[k]) < Place(key, h[j]))
    BY <1>9, <2>1
  <2>4. h[j] \in Ahead(key, h[k])
    BY <2>1, <2>2, <2>3, PlacesGrow, Zenon
  <2>5. key[h[j]] > key[h[k]] \/ (key[h[j]] = key[h[k]] /\ h[j] <= h[k])
    BY <2>4, Zenon DEF Ahead
  <2>6. h[j] \in Nat /\ h[k] \in Nat
    BY <2>1
  <2>7. QED
    BY <2>2, <2>5, <2>6
<1>10. QED
  BY <1>6, <1>7, <1>8, <1>9, Zenon DEF Sorts

(***************************************************************************)
(* Two lists one after the other have the elements of both.                *)
(***************************************************************************)
LEMMA RangeOfBoth ==
  ASSUME NEW S, NEW p \in Seq(S), NEW q \in Seq(S)
  PROVE  p \o q \in Seq(S) /\ Range(p \o q) = Range(p) \cup Range(q)
<1>1. /\ p \o q \in Seq(S) /\ Len(p \o q) = Len(p) + Len(q)
      /\ \A i \in 1 .. Len(p) + Len(q) : (p \o q)[i] = IF i <= Len(p) THEN p[i] ELSE q[i - Len(p)]
  OBVIOUS
<1>2. \A x \in Range(p) : x \in Range(p \o q)
  BY <1>1 DEF Range
<1>3. DOMAIN (p \o q) = 1 .. Len(p) + Len(q) /\ DOMAIN q = 1 .. Len(q)
  BY <1>1
<1>4. ASSUME NEW j \in 1 .. Len(q) PROVE q[j] \in Range(p \o q)
  <2>1. /\ j + Len(p) \in 1 .. Len(p) + Len(q) /\ ~ (j + Len(p) <= Len(p))
        /\ (j + Len(p)) - Len(p) = j
    OBVIOUS
  <2>2. (p \o q)[j + Len(p)] = q[j]
    BY <1>1, <2>1
  <2>3. QED
    BY <1>3, <2>1, <2>2, Zenon DEF Range
<1>5. ASSUME NEW i \in 1 .. Len(p) + Len(q) PROVE (p \o q)[i] \in Range(p) \cup Range(q)
  <2>1. CASE i <= Len(p)
    BY <1>1, <2>1 DEF Range
  <2>2. CASE ~ (i <= Len(p))
    <3>1. i - Len(p) \in 1 .. Len(q) /\ (p \o q)[i] = q[i - Len(p)]
      BY <1>1, <2>2
    <3>2. QED
      BY <3>1 DEF Range
  <2>3. QED
    BY <2>1, <2>2
<1>6. QED
  BY <1>1, <1>2, <1>3, <1>4, <1>5, Zenon DEF Range

\* What Joined has joined up to each list.
Joins(g, lists, m) ==
  g = [k \in 0 .. m |-> IF k = 0 THEN <<>> ELSE g[k - 1] \o lists[k]]

(***************************************************************************)
(* The recursion of Joined defines a function.                             *)
(***************************************************************************)
LEMMA JoinsExists ==
  ASSUME NEW n \in Nat, NEW lists
  PROVE  \E g : Joins(g, lists, n)
<1> DEFINE Fails == {m \in 1 .. n : ~ \E g : Joins(g, lists, m)}
<1>1. \E g : Joins(g, lists, 0)
  <2> DEFINE g == [k \in 0 .. 0 |-> <<>>]
  <2>1. Joins(g, lists, 0)
    BY DEF Joins
  <2>2. QED
    BY <2>1
<1>2. ASSUME NEW m \in Nat, NEW g, Joins(g, lists, m)
      PROVE  \E e : Joins(e, lists, m + 1)
  <2> DEFINE e == [k \in 0 .. m + 1 |-> IF k = m + 1 THEN g[m] \o lists[m + 1] ELSE g[k]]
  <2>1. \A k \in 0 .. m : g[k] = IF k = 0 THEN <<>> ELSE g[k - 1] \o lists[k]
    BY <1>2, Zenon DEF Joins
  <2>2. ASSUME NEW k \in 0 .. m + 1
        PROVE  e[k] = IF k = 0 THEN <<>> ELSE e[k - 1] \o lists[k]
    <3>1. CASE k = m + 1
      <4>1. k # 0 /\ k - 1 = m /\ m \in 0 .. m + 1 /\ m # m + 1
        BY <3>1
      <4>2. e[k] = g[m] \o lists[m + 1] /\ e[m] = g[m]
        BY <3>1, <4>1
      <4> HIDE DEF e
      <4>3. QED
        BY <3>1, <4>1, <4>2
    <3>2. CASE k # m + 1
      <4>1. k \in 0 .. m /\ (k # 0 => k - 1 \in 0 .. m + 1 /\ k - 1 # m + 1)
        BY <3>2
      <4>2. e[k] = g[k] /\ (k # 0 => e[k - 1] = g[k - 1])
        BY <3>2, <4>1
      <4> HIDE DEF e
      <4>3. QED
        BY <2>1, <4>1, <4>2
    <3>3. QED
      BY <3>1, <3>2
  <2>3. e = [k \in 0 .. m + 1 |-> e[k]]
    OBVIOUS
  <2> HIDE DEF e
  <2>4. e = [k \in 0 .. m + 1 |-> IF k = 0 THEN <<>> ELSE e[k - 1] \o lists[k]]
    BY <2>2, <2>3
  <2>5. QED
    BY <2>4 DEF Joins
<1>3. Fails = {}
  <2> SUFFICES ASSUME Fails # {} PROVE FALSE
    OBVIOUS
  <2>1. PICK m \in Fails : \A j \in Fails : m <= j
    <3>1. Fails \in SUBSET (1 .. n)
      OBVIOUS
    <3> HIDE DEF Fails
    <3>2. QED
      BY <3>1, OneIsFirst
  <2>2. m \in 1 .. n /\ m - 1 \in Nat /\ (m - 1) + 1 = m
    OBVIOUS
  <2>3. \E g : Joins(g, lists, m - 1)
    <3>1. CASE m = 1
      BY <1>1, <3>1
    <3>2. CASE m # 1
      <4>1. m - 1 \in 1 .. n /\ ~ (m <= m - 1)
        BY <2>2, <3>2
      <4>2. m - 1 \notin Fails
        BY <2>1, <4>1
      <4>3. QED
        BY <4>1, <4>2
    <3>3. QED
      BY <3>1, <3>2
  <2>4. \E g : Joins(g, lists, m)
    BY <1>2, <2>2, <2>3
  <2>5. QED
    BY <2>4
<1>4. CASE n = 0
  BY <1>1, <1>4
<1>5. CASE n # 0
  <2>1. n \in 1 .. n
    BY <1>5
  <2>2. QED
    BY <1>3, <2>1
<1>6. QED
  BY <1>4, <1>5

(***************************************************************************)
(* The positions up to k are those before k, and k.                        *)
(***************************************************************************)
LEMMA UpToTheLast == \A k \in Nat \ {0} : \A j : j \in 1 .. k <=> j \in 1 .. k - 1 \/ j = k
OBVIOUS

(***************************************************************************)
(* Joined has the elements of every list, and no others.                   *)
(***************************************************************************)
THEOREM JoinedHasAll ==
  ASSUME NEW S, NEW n \in Nat, NEW lists \in [1 .. n -> Seq(S)]
  PROVE  /\ Joined(lists) \in Seq(S)
         /\ \A x : x \in Range(Joined(lists)) <=> \E k \in 1 .. n : x \in Range(lists[k])
<1> DEFINE upto == CHOOSE g : Joins(g, lists, n)
           Of(k) == UNION {Range(lists[j]) : j \in 1 .. k}
           Fails == {k \in 1 .. n : ~ (upto[k] \in Seq(S) /\ Range(upto[k]) = Of(k))}
<1>1. Joins(upto, lists, n)
  BY JoinsExists
<1>2. Len(lists) = n
  OBVIOUS
<1>3. Joined(lists) = upto[n]
  BY <1>2 DEF Joined, Joins
<1> HIDE DEF upto
<1>4. upto[0] = <<>> /\ \A k \in 1 .. n : upto[k] = upto[k - 1] \o lists[k]
  <2>1. \A k \in 0 .. n : upto[k] = IF k = 0 THEN <<>> ELSE upto[k - 1] \o lists[k]
    BY <1>1 DEF Joins
  <2>2. 0 \in 0 .. n /\ \A k \in 1 .. n : k \in 0 .. n /\ k # 0
    OBVIOUS
  <2>3. QED
    BY <2>1, <2>2, Zenon
<1>5. upto[0] \in Seq(S) /\ Range(upto[0]) = Of(0)
  BY <1>4 DEF Range
<1>6. ASSUME NEW k \in 1 .. n, upto[k - 1] \in Seq(S), Range(upto[k - 1]) = Of(k - 1)
      PROVE  upto[k] \in Seq(S) /\ Range(upto[k]) = Of(k)
  <2>1. lists[k] \in Seq(S) /\ upto[k] = upto[k - 1] \o lists[k]
    BY <1>4
  <2>2. upto[k] \in Seq(S)
    BY <1>6, <2>1
  <2>3. Range(upto[k]) = Range(upto[k - 1]) \cup Range(lists[k])
    BY <1>6, <2>1, RangeOfBoth
  <2>4. \A j : j \in 1 .. k <=> j \in 1 .. k - 1 \/ j = k
    <3>1. k \in Nat \ {0}
      OBVIOUS
    <3>2. QED
      BY <3>1, UpToTheLast, Zenon
  <2>5. Of(k) = Of(k - 1) \cup Range(lists[k])
    BY <2>4, Zenon
  <2>6. QED
    BY <1>6, <2>2, <2>3, <2>5, Zenon
<1>7. Fails = {}
  <2> SUFFICES ASSUME Fails # {} PROVE FALSE
    OBVIOUS
  <2>1. PICK k \in Fails : \A j \in Fails : k <= j
    <3>1. Fails \in SUBSET (1 .. n)
      OBVIOUS
    <3> HIDE DEF Fails
    <3>2. QED
      BY <3>1, OneIsFirst
  <2>2. k \in 1 .. n
    BY Zenon
  <2>3. upto[k - 1] \in Seq(S) /\ Range(upto[k - 1]) = Of(k - 1)
    <3>1. CASE k = 1
      <4>1. k - 1 = 0
        BY <3>1
      <4>2. QED
        BY <1>5, <4>1, Zenon
    <3>2. CASE k # 1
      <4>1. k - 1 \in 1 .. n /\ ~ (k <= k - 1)
        BY <2>2, <3>2
      <4>2. k - 1 \notin Fails
        BY <2>1, <4>1, Zenon
      <4>3. QED
        BY <4>1, <4>2, Zenon
    <3>3. QED
      BY <3>1, <3>2
  <2>4. QED
    BY <1>6, <2>2, <2>3, Zenon
<1>8. upto[n] \in Seq(S) /\ Range(upto[n]) = Of(n)
  <2>1. CASE n = 0
    BY <1>5, <2>1
  <2>2. CASE n # 0
    <3>1. n \in 1 .. n
      BY <2>2
    <3>2. QED
      BY <1>7, <3>1, Zenon
  <2>3. QED
    BY <2>1, <2>2
<1>9. \A x : x \in Of(n) <=> \E k \in 1 .. n : x \in Range(lists[k])
  BY Zenon
<1> HIDE DEF Of
<1>10. QED
  BY <1>3, <1>8, <1>9, Zenon
-----------------------------------------------------------------------------
(***************************************************************************)
(* The list of nodes.  Every step of making a list keeps it newest first,  *)
(* so dedupe finds the newest report of an id; and what another gateway    *)
(* cuts off loses to a whole list of newer ones.                           *)
(***************************************************************************)

\* Newest first.
Falling(s) == \A i, j \in DOMAIN s : i < j => s[i].ts >= s[j].ts

\* What is asked of reports: a time, and finitely many ids among them.
AreReports(Reports) == IsFiniteSet(Ids(Reports)) /\ \A x \in Reports : x.ts \in Int

(***************************************************************************)
(* Of some reports the ids are finitely many too.                          *)
(***************************************************************************)
LEMMA ReportTypes ==
  ASSUME NEW Reports, AreReports(Reports)
  PROVE  /\ \A x \in Reports : x.ts \in Int
         /\ \A K \in SUBSET Reports : IsFiniteSet(Ids(K)) /\ Cardinality(Ids(K)) \in Nat
<1>1. ASSUME NEW K \in SUBSET Reports
      PROVE  IsFiniteSet(Ids(K)) /\ Cardinality(Ids(K)) \in Nat
  <2>1. Ids(K) \in SUBSET Ids(Reports)
    BY Zenon DEF Ids
  <2>2. IsFiniteSet(Ids(K))
    BY <2>1, FS_Subset, Zenon DEF AreReports
  <2>3. QED
    BY <2>2, FS_CardinalityType, Zenon
<1>2. QED
  BY <1>1, Zenon DEF AreReports

(***************************************************************************)
(* sort_values_desc_by_timestamp_with_fallback loses nothing and sorts.    *)
(***************************************************************************)
LEMMA NewestFirstSorts ==
  ASSUME NEW Reports, AreReports(Reports), NEW s \in Seq(Reports)
  PROVE  /\ NewestFirst(s) \in Seq(Reports) /\ Range(NewestFirst(s)) = Range(s)
         /\ Falling(NewestFirst(s))
<1> DEFINE n == Len(s)
           key == [i \in DOMAIN s |-> s[i].ts]
           q == NewestFirst(s)
<1>1. n \in Nat /\ DOMAIN s = 1 .. n /\ \A i \in 1 .. n : s[i] \in Reports
  OBVIOUS
<1>2. key \in [1 .. n -> Int]
  <2>1. \A i \in 1 .. n : s[i].ts \in Int
    BY <1>1, ReportTypes, Zenon
  <2>2. QED
    BY <1>1, <2>1
<1>3. PICK h : Sorts(h, q, s, key, n)
  BY <1>1, <1>2, DescendingSorts, Zenon DEF NewestFirst
<1>4. \A i \in 1 .. n : key[i] = s[i].ts
  BY <1>1, Zenon
<1> HIDE DEF key
<1>5. /\ h \in [1 .. n -> 1 .. n] /\ q = [k \in 1 .. n |-> s[h[k]]]
      /\ \A i \in 1 .. n : \E k \in 1 .. n : h[k] = i
      /\ \A j, k \in 1 .. n : j < k => key[h[j]] > key[h[k]] \/ key[h[j]] = key[h[k]]
  BY <1>3, Zenon DEF Sorts
<1> HIDE DEF q, n
<1>6. DOMAIN q = 1 .. n /\ \A k \in 1 .. n : h[k] \in 1 .. n /\ q[k] = s[h[k]] /\ q[k] \in Reports
  BY <1>1, <1>5, Zenon
<1>7. q \in Seq(Reports)
  <2>1. q = [k \in 1 .. n |-> q[k]]
    BY <1>5, <1>6, Zenon
  <2>2. QED
    BY <1>1, <1>6, <2>1
<1>8. Range(q) = Range(s)
  <2>1. \A i \in 1 .. n : s[i] \in Range(q)
    BY <1>5, <1>6 DEF Range
  <2>2. \A k \in 1 .. n : q[k] \in Range(s)
    BY <1>1, <1>6 DEF Range
  <2>3. QED
    BY <1>1, <1>6, <2>1, <2>2 DEF Range
<1>9. Falling(q)
  <2> SUFFICES ASSUME NEW j \in 1 .. n, NEW k \in 1 .. n, j < k PROVE q[j].ts >= q[k].ts
    BY <1>6, Zenon DEF Falling
  <2>1. key[h[j]] > key[h[k]] \/ key[h[j]] = key[h[k]]
    BY <1>5, Zenon
  <2>2. key[h[j]] = q[j].ts /\ key[h[k]] = q[k].ts
    BY <1>4, <1>6, Zenon
  <2>3. q[j].ts \in Int /\ q[k].ts \in Int
    BY <1>6, ReportTypes, Zenon
  <2>4. QED
    BY <2>1, <2>2, <2>3
<1>10. QED
  BY <1>7, <1>8, <1>9, Zenon DEF q

\* t, newest first, has the reports of s at the positions I, in their order.
Retains(Reports, t, s, I) ==
  /\ t \in Seq(Reports) /\ Falling(t)
  /\ \A x : x \in Range(t) <=> \E i \in I : x = s[i]
  /\ \A j, k \in DOMAIN t : j < k => \E a \in I : \E b \in I : a < b /\ t[j] = s[a] /\ t[k] = s[b]

(***************************************************************************)
(* What retain keeps stays in order: of two that are kept the earlier one  *)
(* was earlier.                                                            *)
(***************************************************************************)
LEMMA RetainKeepsOrder ==
  ASSUME NEW Reports, AreReports(Reports), NEW s \in Seq(Reports),
         NEW I \in SUBSET DOMAIN s, Falling(s)
  PROVE  Retains(Reports, Subsequence(s, I), s, I)
<1> DEFINE t == Subsequence(s, I)
           m == Cardinality(I)
<1>1. Len(s) \in Nat /\ DOMAIN s = 1 .. Len(s) /\ I \in SUBSET (1 .. Len(s))
  OBVIOUS
<1>2. t \in Seq(Reports) /\ Len(t) = m /\ m \in Nat
  BY SubsequenceIsSeq, Zenon
<1>3. PICK h : Embeds(h, t, s, I)
  BY <1>1, SubsequenceKeepsOrder, Zenon
<1> HIDE DEF t, m
<1>4. DOMAIN t = 1 .. m
  BY <1>2
<1>5. /\ \A k \in 1 .. m : h[k] \in I /\ t[k] = s[h[k]]
      /\ \A j, k \in 1 .. m : j < k => h[j] < h[k]
      /\ \A i \in I : \E k \in 1 .. m : h[k] = i
  BY <1>3, Zenon DEF Embeds, m
<1>6. \A x : x \in Range(t) <=> \E i \in I : x = s[i]
  BY <1>4, <1>5 DEF Range
<1>7. Falling(t)
  <2> SUFFICES ASSUME NEW j \in 1 .. m, NEW k \in 1 .. m, j < k PROVE t[j].ts >= t[k].ts
    BY <1>4, Zenon DEF Falling
  <2>1. h[j] \in DOMAIN s /\ h[k] \in DOMAIN s /\ h[j] < h[k] /\ t[j] = s[h[j]] /\ t[k] = s[h[k]]
    BY <1>5, Zenon
  <2>2. s[h[j]].ts >= s[h[k]].ts
    BY <2>1, Zenon DEF Falling
  <2>3. QED
    BY <2>1, <2>2, Zenon
<1>8. ASSUME NEW j \in DOMAIN t, NEW k \in DOMAIN t, j < k
      PROVE  \E a \in I : \E b \in I : a < b /\ t[j] = s[a] /\ t[k] = s[b]
  <2>1. j \in 1 .. m /\ k \in 1 .. m
    BY <1>4, Zenon
  <2>2. QED
    BY <1>5, <1>8, <2>1, Zenon
<1>9. Retains(Reports, t, s, I)
  BY <1>2, <1>6, <1>7, <1>8, Zenon DEF Retains
<1>10. QED
  BY <1>9, Zenon DEF t

\* d, newest first, has every id of s once, in a report of s that is as new
\* as any.
HasNewest(Reports, d, s) ==
  /\ d \in Seq(Reports) /\ Falling(d) /\ Range(d) \subseteq Range(s)
  /\ \A x \in Range(d) : x.id # NoId
  /\ \A j, k \in DOMAIN d : d[j].id = d[k].id => j = k
  /\ \A y \in Range(s) : y.id # NoId => \E x \in Range(d) : x.id = y.id /\ x.ts >= y.ts

(***************************************************************************)
(* dedupe_nodes_by_id leaves every id once, with its newest report when    *)
(* the list is sorted.                                                     *)
(***************************************************************************)
LEMMA DedupedHasNewest ==
  ASSUME NEW Reports, AreReports(Reports), NEW s \in Seq(Reports), Falling(s)
  PROVE  HasNewest(Reports, Deduped(s), s)
<1> DEFINE I == {i \in DOMAIN s :
                   s[i].id # NoId /\ \A j \in DOMAIN s : s[j].id = s[i].id => i <= j}
           d == Deduped(s)
<1>1. Len(s) \in Nat /\ DOMAIN s = 1 .. Len(s) /\ \A i \in DOMAIN s : s[i] \in Reports
  OBVIOUS
<1>2. I \in SUBSET DOMAIN s /\ d = Subsequence(s, I)
  BY Zenon DEF Deduped
<1>3. \A i \in I : s[i].id # NoId /\ \A j \in DOMAIN s : s[j].id = s[i].id => i <= j
  BY Zenon
<1>4. \A i \in DOMAIN s : s[i].id # NoId /\ (\A j \in DOMAIN s : s[j].id = s[i].id => i <= j) => i \in I
  BY Zenon
<1> HIDE DEF I, d
<1>5. Retains(Reports, d, s, I)
  BY <1>2, RetainKeepsOrder, Zenon
<1>6. \A x \in Range(d) : x \in Range(s) /\ x.id # NoId
  <2> SUFFICES ASSUME NEW x \in Range(d) PROVE x \in Range(s) /\ x.id # NoId
    BY Zenon
  <2>1. PICK i \in I : x = s[i]
    BY <1>5, Zenon DEF Retains
  <2>2. i \in DOMAIN s /\ s[i].id # NoId
    BY <1>2, <1>3, Zenon
  <2>3. QED
    BY <2>1, <2>2 DEF Range
<1>7. ASSUME NEW j \in DOMAIN d, NEW k \in DOMAIN d, j < k PROVE d[j].id # d[k].id
  <2>1. PICK a \in I, b \in I : a < b /\ d[j] = s[a] /\ d[k] = s[b]
    BY <1>5, <1>7, Zenon DEF Retains
  <2>2. a \in Nat /\ b \in Nat
    BY <1>1, <1>2
  <2>3. ~ (b <= a)
    BY <2>1, <2>2
  <2>4. QED
    BY <1>2, <1>3, <2>1, <2>3, Zenon
<1>8. ASSUME NEW j \in DOMAIN d, NEW k \in DOMAIN d, d[j].id = d[k].id PROVE j = k
  <2>1. j \in Nat /\ k \in Nat
    BY <1>5 DEF Retains
  <2>2. ~ (j < k) /\ ~ (k < j)
    BY <1>7, <1>8, Zenon
  <2>3. QED
    BY <2>1, <2>2
<1>9. ASSUME NEW i \in DOMAIN s, s[i].id # NoId
      PROVE  \E x \in Range(d) : x.id = s[i].id /\ x.ts >= s[i].ts
  <2> DEFINE J == {j \in DOMAIN s : s[j].id = s[i].id}
  <2>1. J \in SUBSET (1 .. Len(s)) /\ i \in J
    BY <1>1, Zenon
  <2>2. PICK j \in J : \A k \in J : j <= k
    BY <1>1, <2>1, OneIsFirst, Zenon
  <2>3. j \in DOMAIN s /\ s[j].id = s[i].id /\ j <= i
    BY <2>1, <2>2, Zenon
  <2>4. j \in I
    BY <1>4, <1>9, <2>2, <2>3, Zenon
  <2>5. s[j].ts >= s[i].ts
    <3>1. j \in Nat /\ i \in Nat
      BY <1>1, <2>3
    <3>2. j < i \/ j = i
      BY <2>3, <3>1
    <3>3. s[i].ts \in Int
      BY <1>1, ReportTypes, Zenon
    <3>4. s[i].ts >= s[i].ts
      BY <3>3
    <3>5. QED
      BY <2>3, <3>2, <3>4, Zenon DEF Falling
  <2>6. QED
    BY <1>5, <2>3, <2>4, <2>5, Zenon DEF Retains
<1>10. ASSUME NEW y \in Range(s), y.id # NoId
       PROVE  \E x \in Range(d) : x.id = y.id /\ x.ts >= y.ts
  <2>1. PICK i \in DOMAIN s : y = s[i]
    BY Zenon DEF Range
  <2>2. QED
    BY <1>9, <1>10, <2>1, Zenon
<1>11. HasNewest(Reports, d, s)
  BY <1>5, <1>6, <1>8, <1>10, Zenon DEF HasNewest, Retains
<1>12. QED
  BY <1>11, Zenon DEF d

(***************************************************************************)
(* A list in which no id is twice has as many ids as entries.              *)
(***************************************************************************)
LEMMA DistinctIds ==
  ASSUME NEW Reports, AreReports(Reports), NEW s \in Seq(Reports),
         \A j, k \in DOMAIN s : s[j].id = s[k].id => j = k
  PROVE  IsFiniteSet(Ids(Range(s))) /\ Cardinality(Ids(Range(s))) = Len(s)
<1> DEFINE n == Len(s)
           f == [i \in 1 .. n |-> s[i].id]
           T == Ids(Range(s))
<1>1. n \in Nat /\ DOMAIN s = 1 .. n
  OBVIOUS
<1>2. \A i \in 1 .. n : s[i].id \in T
  BY <1>1 DEF Range, Ids
<1>3. \A x \in T : \E i \in 1 .. n : s[i].id = x
  BY <1>1 DEF Range, Ids
<1> HIDE DEF T, n
<1>4. f \in Bijection(1 .. n, T)
  <2>1. f \in [1 .. n -> T] /\ \A i \in 1 .. n : f[i] = s[i].id
    BY <1>2, Zenon
  <2> HIDE DEF f
  <2>2. f \in Injection(1 .. n, T)
    BY <1>1, <2>1, Zenon DEF Injection, IsInjective
  <2>3. f \in Surjection(1 .. n, T)
    <3>1. \A x \in T : \E i \in 1 .. n : f[i] = x
      BY <1>3, <2>1, Zenon
    <3>2. QED
      BY <2>1, <3>1, Zenon DEF Surjection
  <2>4. QED
    BY <2>2, <2>3, Zenon DEF Bijection
<1>5. IsFiniteSet(1 .. n) /\ Cardinality(1 .. n) = n
  <2>1. 1 \in Int /\ n \in Int /\ ~ (1 > n /\ n # 0)
    BY <1>1
  <2>2. QED
    BY <1>1, <2>1, FS_Interval
<1>6. IsFiniteSet(T) /\ Cardinality(T) = Cardinality(1 .. n)
  <2>1. ExistsBijection(1 .. n, T)
    BY <1>4, Zenon DEF ExistsBijection
  <2>2. QED
    BY <1>5, <2>1, FS_Bijection, Zenon
<1>7. QED
  BY <1>5, <1>6, Zenon DEF T, n

(***************************************************************************)
(* truncate: the first m entries of a sequence are a sequence.             *)
(***************************************************************************)
LEMMA FirstOnes ==
  ASSUME NEW S, NEW d \in Seq(S), NEW m \in Nat, m <= Len(d)
  PROVE  LET t == SubSeq(d, 1, m)
         IN  /\ t \in Seq(S) /\ Len(t) = m /\ DOMAIN t = 1 .. m
             /\ \A i \in 1 .. m : i \in DOMAIN d /\ t[i] = d[i]
  OBVIOUS

(***************************************************************************)
(* A gateway alone answers what it should from what it has: sorting,       *)
(* retain, dedupe and truncate in this order.                              *)
(***************************************************************************)
LEMMA ListedIsNewest ==
  ASSUME NEW Reports, AreReports(Reports), NEW s \in Seq(Reports), NEW limit \in Nat
  PROVE  /\ Listed(s, limit) \in Seq(Reports)
         /\ IsNewest(Listed(s, limit), Counting(Range(s)), limit)
<1> DEFINE q == NewestFirst(s)
           g == Located(q)
           d == Deduped(g)
           t == Listed(s, limit)
           m == IF Len(d) < limit THEN Len(d) ELSE limit
           K == Counting(Range(s))
<1>1. q \in Seq(Reports) /\ Range(q) = Range(s) /\ Falling(q)
  BY NewestFirstSorts, Zenon
<1>2. Retains(Reports, g, q, {i \in DOMAIN q : q[i].geo})
  BY <1>1, RetainKeepsOrder, Zenon DEF Located
<1>3. HasNewest(Reports, d, g)
  BY <1>2, DedupedHasNewest, Zenon DEF Retains
<1>4. t = SubSeq(d, 1, m)
  BY Zenon DEF Listed, Truncate
<1> HIDE DEF t, K, q
<1>5. \A x : x \in Range(g) <=> x \in Range(s) /\ x.geo
  <2>1. \A x : x \in Range(g) <=> \E i \in {i \in DOMAIN q : q[i].geo} : x = q[i]
    BY <1>2, Zenon DEF Retains
  <2> HIDE DEF g
  <2>2. \A x : x \in Range(q) <=> \E i \in DOMAIN q : x = q[i]
    BY DEF Range
  <2>3. QED
    BY <1>1, <2>1, <2>2, Zenon
<1> HIDE DEF g, d
<1>6. /\ d \in Seq(Reports) /\ Falling(d) /\ Range(d) \subseteq Range(g)
      /\ \A x \in Range(d) : x.id # NoId
      /\ \A j, k \in DOMAIN d : d[j].id = d[k].id => j = k
      /\ \A y \in Range(g) : y.id # NoId => \E x \in Range(d) : x.id = y.id /\ x.ts >= y.ts
  BY <1>3, Zenon DEF HasNewest
<1>7. Len(d) \in Nat /\ DOMAIN d = 1 .. Len(d)
  BY <1>6
<1>8. m \in Nat /\ m <= Len(d)
  BY <1>7
<1> HIDE DEF m
<1>a. /\ t \in Seq(Reports) /\ Len(t) = m /\ DOMAIN t = 1 .. m
      /\ \A i \in 1 .. m : i \in DOMAIN d /\ t[i] = d[i]
  BY <1>4, <1>6, <1>8, FirstOnes, Zenon
<1>9. \A x \in Range(d) : x \in K
  BY <1>5, <1>6, Zenon DEF K, Counting
<1>10. \A y \in K : \E x \in Range(d) : x.id = y.id /\ x.ts >= y.ts
  BY <1>5, <1>6, Zenon DEF K, Counting
<1>11. \A x \in Range(t) : \E i \in 1 .. m : x = d[i] /\ i \in DOMAIN d
  BY <1>a DEF Range
<1>12. \A i \in 1 .. m : d[i] \in Range(t)
  BY <1>a DEF Range
<1>13. \A x \in Range(d) : \E i \in DOMAIN d : x = d[i]
  BY Zenon DEF Range
<1>14. \A i \in DOMAIN d : d[i] \in Range(d) /\ d[i].ts \in Int
  <2>1. \A i \in DOMAIN d : d[i] \in Range(d) /\ d[i] \in Reports
    BY <1>6 DEF Range
  <2>2. QED
    BY <2>1, ReportTypes, Zenon
<1>15. K \in SUBSET Reports
  BY DEF K, Counting, Range
<1>16. Len(t) = Cardinality(Ids(Range(t)))
  <2>1. ASSUME NEW j \in DOMAIN t, NEW k \in DOMAIN t, t[j].id = t[k].id PROVE j = k
    <3>1. j \in DOMAIN d /\ k \in DOMAIN d /\ t[j] = d[j] /\ t[k] = d[k]
      BY <1>a, Zenon
    <3>2. QED
      BY <1>6, <2>1, <3>1, Zenon
  <2>2. QED
    BY <1>a, <2>1, DistinctIds, Zenon
<1>17. Len(t) = IF Cardinality(Ids(K)) < limit THEN Cardinality(Ids(K)) ELSE limit
  <2>1. Ids(Range(d)) = Ids(K)
    BY <1>9, <1>10, Zenon DEF Ids
  <2>2. Cardinality(Ids(K)) = Len(d)
    BY <1>6, <2>1, DistinctIds, Zenon
  <2>3. QED
    BY <1>a, <2>2, Zenon DEF m
<1>18. \A i, j \in DOMAIN t : i < j => t[i].ts >= t[j].ts
  BY <1>6, <1>a, Zenon DEF Falling
<1>19. ASSUME NEW x \in Range(t), NEW y \in K, y.id = x.id \/ y.id \notin Ids(Range(t))
       PROVE  y.ts <= x.ts
  <2>1. PICK i \in 1 .. m : x = d[i] /\ i \in DOMAIN d
    BY <1>11, Zenon
  <2>2. PICK z \in Range(d) : z.id = y.id /\ z.ts >= y.ts
    BY <1>10, Zenon
  <2>3. PICK j \in DOMAIN d : z = d[j]
    BY <1>13, Zenon
  <2>4. x.ts >= z.ts
    <3>1. x.ts \in Int
      BY <1>14, <2>1, Zenon
    <3>2. CASE y.id = x.id
      <4>1. j = i
        BY <1>6, <2>1, <2>2, <2>3, <3>2, Zenon
      <4>2. x.ts >= x.ts
        BY <3>1
      <4>3. QED
        BY <2>1, <2>3, <4>1, <4>2, Zenon
    <3>3. CASE y.id \notin Ids(Range(t))
      <4>1. j \notin 1 .. m
        BY <1>12, <2>2, <2>3, <3>3, Zenon DEF Ids
      <4>2. i < j
        <5>1. i \in Nat /\ j \in Nat /\ 1 <= j /\ i <= m
          BY <1>7, <1>8
        <5>2. ~ (j <= m)
          BY <1>8, <4>1, <5>1
        <5>3. QED
          BY <1>8, <5>1, <5>2
      <4>3. QED
        BY <1>6, <2>1, <2>3, <4>2, Zenon DEF Falling
    <3>4. QED
      BY <1>19, <3>2, <3>3, Zenon
  <2>5. x.ts \in Int /\ z.ts \in Int /\ y.ts \in Int
    BY <1>14, <1>15, <2>1, <2>3, ReportTypes, Zenon
  <2>6. QED
    BY <2>2, <2>4, <2>5
<1>20. \A x \in Range(t) : x \in K
  BY <1>9, <1>11, <1>14, Zenon
<1>21. IsNewest(t, K, limit)
  BY <1>16, <1>17, <1>18, <1>19, <1>20, Zenon DEF IsNewest
<1>22. QED
  BY <1>a, <1>21, Zenon DEF t, K

\* a lists K, and among K is the list b of L.
Includes(Reports, limit, a, K, b, L) ==
  /\ K \in SUBSET Reports /\ L \in SUBSET Reports /\ Range(b) \subseteq K
  /\ IsNewest(a, K, limit) /\ IsNewest(b, L, limit)

(***************************************************************************)
(* Of what another gateway has, the reports that its cut list lacks change *)
(* nothing: none is newer than a listed report it competes with.           *)
(***************************************************************************)
LEMMA CutIsNoLoss ==
  ASSUME NEW Reports, AreReports(Reports), NEW limit \in Nat,
         NEW a, NEW K, NEW b, NEW L, Includes(Reports, limit, a, K, b, L),
         NEW x \in Range(a), NEW y \in L, y.id = x.id \/ y.id \notin Ids(Range(a))
  PROVE  y.ts <= x.ts
<1>0. /\ K \in SUBSET Reports /\ L \in SUBSET Reports /\ Range(b) \subseteq K
      /\ IsNewest(a, K, limit) /\ IsNewest(b, L, limit)
  BY Zenon DEF Includes
<1> DEFINE A == Ids(Range(a))
           B == Ids(Range(b))
<1>1. /\ Len(a) = Cardinality(A) /\ \A u \in Range(a) : u \in K
      /\ Len(a) = IF Cardinality(Ids(K)) < limit THEN Cardinality(Ids(K)) ELSE limit
      /\ \A u \in Range(a) : \A v \in K : v.id = u.id \/ v.id \notin A => v.ts <= u.ts
  BY <1>0, Zenon DEF IsNewest
<1>2. /\ Len(b) = Cardinality(B) /\ \A u \in Range(b) : u \in L
      /\ Len(b) = IF Cardinality(Ids(L)) < limit THEN Cardinality(Ids(L)) ELSE limit
      /\ \A u \in Range(b) : \A v \in L : v.id = u.id \/ v.id \notin B => v.ts <= u.ts
  BY <1>0, Zenon DEF IsNewest
<1>3. /\ A \subseteq Ids(K) /\ B \subseteq Ids(K) /\ B \subseteq Ids(L)
      /\ x.id \in A /\ y.id \in Ids(L)
  BY <1>0, <1>1, <1>2, Zenon DEF Ids
<1>4. /\ IsFiniteSet(Ids(K)) /\ Cardinality(Ids(K)) \in Nat
      /\ IsFiniteSet(Ids(L)) /\ Cardinality(Ids(L)) \in Nat
  BY <1>0, ReportTypes, Zenon
<1>5. /\ IsFiniteSet(A) /\ Cardinality(A) \in Nat /\ Cardinality(A) <= Cardinality(Ids(K))
      /\ IsFiniteSet(B) /\ Cardinality(B) \in Nat /\ Cardinality(B) <= Cardinality(Ids(K))
  BY <1>3, <1>4, FS_Subset, FS_CardinalityType, Zenon
<1>6. \A u \in Reports : u.ts \in Int
  BY <1>0, ReportTypes, Zenon
<1>7. \A z \in Range(b) : z \in K /\ z \in L
  BY <1>0, <1>2, Zenon
<1> HIDE DEF A, B
<1>8. ASSUME NEW z \in Range(b), z.id = x.id \/ z.id \notin A,
             y.id = z.id \/ y.id \notin B
      PROVE  y.ts <= x.ts
  <2>1. z.ts <= x.ts /\ y.ts <= z.ts
    BY <1>1, <1>2, <1>7, <1>8, Zenon
  <2>2. x.ts \in Int /\ y.ts \in Int /\ z.ts \in Int
    BY <1>0, <1>1, <1>6, <1>7, Zenon
  <2>3. QED
    BY <2>1, <2>2
<1>9. CASE y.id \in B
  <2>1. PICK z \in Range(b) : z.id = y.id
    BY <1>9, Zenon DEF B, Ids
  <2>2. QED
    BY <1>8, <2>1, Zenon DEF A
<1>10. CASE y.id \notin B
  <2>1. Cardinality(B) = limit
    <3>1. Cardinality(B) # Cardinality(Ids(L))
      BY <1>3, <1>4, <1>10, FS_Subset, Zenon
    <3>2. QED
      BY <1>2, <3>1, Zenon
  <2>2. Cardinality(A) = limit
    BY <1>1, <1>4, <1>5, <2>1
  <2>3. CASE \E z \in Range(b) : z.id \notin A
    BY <1>8, <1>10, <2>3, Zenon
  <2>4. CASE \A z \in Range(b) : z.id \in A
    <3>1. B \subseteq A
      BY <2>4, Zenon DEF B, Ids
    <3>2. A = B
      BY <1>5, <2>1, <2>2, <3>1, FS_Subset, Zenon
    <3>3. PICK z \in Range(b) : z.id = x.id
      BY <1>3, <3>2, Zenon DEF B, Ids
    <3>4. QED
      BY <1>8, <1>10, <3>3, Zenon
  <2>5. QED
    BY <2>3, <2>4, Zenon
<1>11. QED
  BY <1>9, <1>10, Zenon

(***************************************************************************)
(* The answer of gateways that each cut their list at the limit is that of *)
(* one gateway with all their reports, for any number of them, any reports *)
(* and any limit.                                                          *)
(***************************************************************************)
THEOREM FederatedListIsNewest ==
  ASSUME NEW Reports, AreReports(Reports), NEW n \in Nat,
         NEW local \in Seq(Reports), NEW remote \in [1 .. n -> Seq(Reports)],
         NEW answering \in SUBSET (1 .. n), NEW limit \in Nat
  PROVE  IsNewest(NetworkNodes(local, remote, answering, limit),
                  Counting(Available(local, remote, answering)), limit)
<1> DEFINE list == [p \in 1 .. n |-> IF p \in answering THEN Listed(remote[p], limit) ELSE <<>>]
           f == Federated(remote, answering, limit)
           all == local \o f
           a == NetworkNodes(local, remote, answering, limit)
           K == Counting(Range(all))
           V == Counting(Available(local, remote, answering))
           R(p) == Counting(Range(remote[p]))
           B(p) == Listed(remote[p], limit)
<1>1. ASSUME NEW p \in 1 .. n
      PROVE  remote[p] \in Seq(Reports) /\ B(p) \in Seq(Reports) /\ IsNewest(B(p), R(p), limit)
  <2>1. remote[p] \in Seq(Reports)
    BY Zenon
  <2>2. QED
    BY <2>1, ListedIsNewest, Zenon
<1>2. f \in Seq(Reports) /\ \A x : x \in Range(f) <=> \E p \in 1 .. n : x \in Range(list[p])
  <2>1. list \in [1 .. n -> Seq(Reports)]
    <3>1. <<>> \in Seq(Reports)
      OBVIOUS
    <3>2. QED
      BY <1>1, <3>1, Zenon
  <2>2. DOMAIN remote = 1 .. n
    BY Zenon
  <2>3. f = Joined(list)
    BY <2>2, Zenon DEF Federated
  <2> HIDE DEF list, f
  <2>4. /\ Joined(list) \in Seq(Reports)
        /\ \A x : x \in Range(Joined(list)) <=> \E p \in 1 .. n : x \in Range(list[p])
    BY <2>1, JoinedHasAll, Zenon
  <2>5. QED
    BY <2>3, <2>4, Zenon
<1>3. \A x : x \in Range(f) <=> \E p \in answering : x \in Range(B(p))
  <2>1. \A p \in 1 .. n : list[p] = IF p \in answering THEN B(p) ELSE <<>>
    BY Zenon
  <2>2. Range(<<>>) = {}
    BY DEF Range
  <2> HIDE DEF list, B, f
  <2>3. \A p \in 1 .. n : p \in answering => list[p] = B(p)
    BY <2>1, Zenon
  <2>4. \A p \in 1 .. n : p \notin answering => Range(list[p]) = {}
    BY <2>1, <2>2, Zenon
  <2>5. QED
    BY <1>2, <2>3, <2>4, Zenon
<1> HIDE DEF f, list
<1>4. all \in Seq(Reports) /\ \A x : x \in Range(all) <=> x \in Range(local) \/ x \in Range(f)
  <2>1. all \in Seq(Reports) /\ Range(all) = Range(local) \cup Range(f)
    BY <1>2, RangeOfBoth
  <2>2. QED
    BY <2>1, Zenon
<1>5. IsNewest(a, K, limit)
  BY <1>4, ListedIsNewest, Zenon DEF NetworkNodes, f
<1> HIDE DEF all, a, B
<1>6. \A y : y \in V <=> y \in Counting(Range(local)) \/ \E p \in answering : y \in R(p)
  BY Zenon DEF Counting, Available
<1>7. \A p \in answering : \A x \in Range(B(p)) : x \in R(p)
  BY <1>1, Zenon DEF IsNewest
<1>8. \A y : y \in K <=> y \in Counting(Range(local)) \/ \E p \in answering : y \in Range(B(p))
  <2>1. \A y : y \in K <=> (y \in Range(local) \/ y \in Range(f)) /\ y.geo /\ y.id # NoId
    BY <1>4, Zenon DEF Counting
  <2>2. \A p \in answering : \A y \in Range(B(p)) : y.geo /\ y.id # NoId
    BY <1>7, Zenon DEF Counting
  <2>3. QED
    BY <1>3, <2>1, <2>2, Zenon DEF Counting
<1>9. K \subseteq V
  BY <1>6, <1>7, <1>8, Zenon
<1>10. K \in SUBSET Reports /\ V \in SUBSET Reports /\ \A p \in answering : R(p) \in SUBSET Reports
  <2>1. K \in SUBSET Reports
    BY <1>4 DEF Counting, Range
  <2>2. \A x \in Range(local) : x \in Reports
    BY DEF Range
  <2>3. ASSUME NEW p \in answering PROVE R(p) \in SUBSET Reports
    <3>1. remote[p] \in Seq(Reports)
      BY <1>1, Zenon
    <3>2. QED
      BY <3>1 DEF Counting, Range
  <2>4. QED
    BY <1>6, <2>1, <2>2, <2>3, Zenon DEF Counting
<1> HIDE DEF K, V, R
<1>11. /\ Len(a) = Cardinality(Ids(Range(a)))
       /\ Len(a) = IF Cardinality(Ids(K)) < limit THEN Cardinality(Ids(K)) ELSE limit
       /\ \A i, j \in DOMAIN a : i < j => a[i].ts >= a[j].ts
       /\ \A x \in Range(a) : x \in K
       /\ \A x \in Range(a) : \A y \in K : y.id = x.id \/ y.id \notin Ids(Range(a)) => y.ts <= x.ts
  BY <1>5, Zenon DEF IsNewest
<1>12. Len(a) = IF Cardinality(Ids(V)) < limit THEN Cardinality(Ids(V)) ELSE limit
  <2>1. /\ IsFiniteSet(Ids(V)) /\ Cardinality(Ids(V)) \in Nat
        /\ IsFiniteSet(Ids(K)) /\ Cardinality(Ids(K)) \in Nat
    BY <1>10, ReportTypes, Zenon
  <2>2. Cardinality(Ids(K)) <= Cardinality(Ids(V))
    <3>1. Ids(K) \in SUBSET Ids(V)
      BY <1>9, Zenon DEF Ids
    <3>2. QED
      BY <2>1, <3>1, FS_Subset, Zenon
  <2>3. ASSUME NEW p \in answering
        PROVE  limit <= Cardinality(Ids(K)) \/ Ids(R(p)) \subseteq Ids(K)
    <3>1. /\ Len(B(p)) = Cardinality(Ids(Range(B(p))))
          /\ Len(B(p)) = IF Cardinality(Ids(R(p))) < limit THEN Cardinality(Ids(R(p))) ELSE limit
      BY <1>1, Zenon DEF IsNewest
    <3>2. Ids(Range(B(p))) \in SUBSET Ids(K) /\ Ids(Range(B(p))) \in SUBSET Ids(R(p))
      BY <1>7, <1>8, Zenon DEF Ids
    <3>3. IsFiniteSet(Ids(R(p)))
      BY <1>10, ReportTypes, Zenon
    <3>4. Cardinality(Ids(Range(B(p)))) <= Cardinality(Ids(K))
      BY <2>1, <3>2, FS_Subset, Zenon
    <3>5. CASE Cardinality(Ids(Range(B(p)))) = Cardinality(Ids(R(p)))
      BY <3>2, <3>3, <3>5, FS_Subset, Zenon
    <3>6. CASE Cardinality(Ids(Range(B(p)))) = limit
      BY <3>4, <3>6, Zenon
    <3>7. QED
      BY <3>1, <3>5, <3>6, Zenon
  <2>4. CASE limit <= Cardinality(Ids(K))
    <3>1. ~ (Cardinality(Ids(K)) < limit) /\ ~ (Cardinality(Ids(V)) < limit)
      BY <2>1, <2>2, <2>4
    <3>2. QED
      BY <1>11, <3>1, Zenon
  <2>5. CASE ~ (limit <= Cardinality(Ids(K)))
    <3>1. \A p \in answering : Ids(R(p)) \subseteq Ids(K)
      BY <2>3, <2>5, Zenon
    <3>2. ASSUME NEW y \in V PROVE y.id \in Ids(K)
      <4>1. CASE y \in Counting(Range(local))
        BY <1>8, <4>1, Zenon DEF Ids
      <4>2. CASE \E p \in answering : y \in R(p)
        BY <3>1, <4>2, Zenon DEF Ids
      <4>3. QED
        BY <1>6, <4>1, <4>2, Zenon
    <3>3. Ids(V) = Ids(K)
      BY <1>9, <3>2, Zenon DEF Ids
    <3>4. QED
      BY <1>11, <3>3, Zenon
  <2>6. QED
    BY <2>4, <2>5, Zenon
<1>13. ASSUME NEW x \in Range(a), NEW y \in V, y.id = x.id \/ y.id \notin Ids(Range(a))
       PROVE  y.ts <= x.ts
  <2>1. CASE y \in K
    BY <1>11, <1>13, <2>1, Zenon
  <2>2. CASE y \notin K
    <3>1. PICK p \in answering : y \in R(p)
      BY <1>6, <1>8, <2>2, Zenon
    <3>2. Range(B(p)) \subseteq K /\ IsNewest(B(p), R(p), limit)
      BY <1>1, <1>8, Zenon
    <3>3. Includes(Reports, limit, a, K, B(p), R(p))
      BY <1>5, <1>10, <3>2, Zenon DEF Includes
    <3>4. QED
      BY <1>13, <3>1, <3>3, CutIsNoLoss, Zenon
  <2>3. QED
    BY <2>1, <2>2, Zenon
<1>14. IsNewest(a, V, limit)
  BY <1>9, <1>11, <1>12, <1>13, Zenon DEF IsNewest
<1>15. QED
  BY <1>14, Zenon DEF a, V
=============================================================================
