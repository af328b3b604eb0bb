------------------------- MODULE SortedLists_proofs -------------------------
(***************************************************************************)
(* What Sorted and Picked hold, and in which order, for any set, relation  *)
(* and list; the least and the greatest of a set of naturals.              *)
(***************************************************************************)
EXTENDS SortedLists, Sequences, FiniteSetsExt, FiniteSetTheorems, TLAPS

-----------------------------------------------------------------------------
(* Numbers.                                                                *)

\* Every non-empty set of naturals has a least element, and Min is it.
LEMMA LeastIsMin ==
    ASSUME NEW S \in SUBSET Nat, S # {}
    PROVE  Min(S) \in S /\ \A n \in S : Min(S) <= n
<1>1. IsWellFoundedOn(OpToRel(<, Nat), Nat)
  BY NatLessThanWellFounded
<1>2. PICK m \in S : \A n \in S : ~(<<n, m>> \in OpToRel(<, Nat))
  BY <1>1, WFMin
<1>3. \A n \in S : n < m => <<n, m>> \in OpToRel(<, Nat)
  BY DEF OpToRel
<1>4. \A n \in S : ~(n < m)
  BY <1>2, <1>3, Zenon
<1>5. \A n \in S : m <= n
  BY <1>4
<1> QED BY <1>5 DEF Min

\* A finite one has a greatest, and Max is it: one with the fewest above it.
LEMMA GreatestIsMax ==
    ASSUME NEW S \in SUBSET Nat, S # {}, IsFiniteSet(S)
    PROVE  Max(S) \in S /\ \A n \in S : n <= Max(S)
<1> DEFINE Higher(n) == {m \in S : m > n}
           Counts == {Cardinality(Higher(n)) : n \in S}
<1>1. \A n \in S : IsFiniteSet(Higher(n)) /\ Cardinality(Higher(n)) \in Nat
  <2> TAKE n \in S
  <2> Higher(n) \in SUBSET S
    OBVIOUS
  <2> HIDE DEF Higher
  <2> QED BY FS_Subset, FS_CardinalityType
<1>2. Counts \in SUBSET Nat /\ Counts # {}
  BY <1>1
<1>3. PICK m \in S : \A n \in S : Cardinality(Higher(m)) <= Cardinality(Higher(n))
  <2>1. Min(Counts) \in Counts /\ \A c \in Counts : Min(Counts) <= c
    BY <1>2, LeastIsMin
  <2> QED BY <2>1
<1>4. ASSUME NEW n \in S, n > m
      PROVE  FALSE
  <2>0. \A k \in Higher(n) : k \in S /\ k > m
    BY <1>4
  <2>1. Higher(n) \in SUBSET Higher(m)
    BY <2>0
  <2>2. n \in Higher(m) /\ n \notin Higher(n)
    BY <1>4
  <2> HIDE DEF Higher
  <2>3. Cardinality(Higher(n)) <= Cardinality(Higher(m))
        /\ (Cardinality(Higher(m)) = Cardinality(Higher(n)) => Higher(m) = Higher(n))
    BY <1>1, <2>1, FS_Subset
  <2> QED BY <1>1, <1>3, <2>2, <2>3
<1>5. \A n \in S : n <= m
  BY <1>4
<1> QED BY <1>5 DEF Max

-----------------------------------------------------------------------------
(* Sets in order.                                                          *)

Orders(R, S) ==
    /\ \A e \in S : <<e, e>> \notin R
    /\ \A e, f, g \in S : <<e, f>> \in R /\ <<f, g>> \in R => <<e, g>> \in R
    /\ \A e, f \in S : e = f \/ <<e, f>> \in R \/ <<f, e>> \in R

LEMMA RankIsLess ==
    ASSUME NEW S, IsFiniteSet(S), NEW R, Orders(R, S),
           NEW e \in S, NEW f \in S, <<e, f>> \in R
    PROVE  Rank(e, S, R) < Rank(f, S, R)
<1> DEFINE Earlier(x) == {g \in S : <<g, x>> \in R}
<1>1. Earlier(e) \in SUBSET Earlier(f) /\ e \in Earlier(f) /\ e \notin Earlier(e)
  BY DEF Orders
<1>2. Earlier(f) \in SUBSET S
  OBVIOUS
<1>3. Rank(e, S, R) = Cardinality(Earlier(e)) /\ Rank(f, S, R) = Cardinality(Earlier(f))
  BY DEF Rank
<1> HIDE DEF Earlier
<1>4. IsFiniteSet(Earlier(f))
  BY <1>2, FS_Subset
<1>5. /\ IsFiniteSet(Earlier(e))
      /\ Cardinality(Earlier(e)) <= Cardinality(Earlier(f))
      /\ Cardinality(Earlier(f)) = Cardinality(Earlier(e)) => Earlier(f) = Earlier(e)
  BY <1>1, <1>4, FS_Subset
<1>6. Cardinality(Earlier(e)) \in Nat /\ Cardinality(Earlier(f)) \in Nat
  BY <1>4, <1>5, FS_CardinalityType
<1> QED BY <1>1, <1>3, <1>5, <1>6

LEMMA RanksAreCounted ==
    ASSUME NEW S, IsFiniteSet(S), NEW R, Orders(R, S), NEW e \in S
    PROVE  Rank(e, S, R) \in 0 .. Cardinality(S) - 1
<1> DEFINE Earlier == {g \in S : <<g, e>> \in R}
<1>1. Earlier \in SUBSET S /\ e \notin Earlier
  BY DEF Orders
<1>2. Rank(e, S, R) = Cardinality(Earlier)
  BY DEF Rank
<1> HIDE DEF Earlier
<1>3. /\ IsFiniteSet(Earlier)
      /\ Cardinality(Earlier) <= Cardinality(S)
      /\ Cardinality(S) = Cardinality(Earlier) => S = Earlier
  BY <1>1, FS_Subset
<1>4. Cardinality(Earlier) \in Nat /\ Cardinality(S) \in Nat
  BY <1>3, FS_CardinalityType
<1> QED BY <1>1, <1>2, <1>3, <1>4

\* Every rank below the number of members is the rank of one of them.
LEMMA RanksAreTaken ==
    ASSUME NEW S, IsFiniteSet(S), NEW R, Orders(R, S),
           NEW i \in 1 .. Cardinality(S)
    PROVE  \E e \in S : Rank(e, S, R) = i - 1
<1> DEFINE n == Cardinality(S)
           place == [e \in S |-> Rank(e, S, R) + 1]
<1>0. n \in Nat
  BY FS_CardinalityType
<1>1. \A e \in S : Rank(e, S, R) \in 0 .. n - 1
  BY RanksAreCounted
<1>2. place \in [S -> 1 .. n]
  BY <1>0, <1>1
<1>3. ASSUME NEW e \in S, NEW f \in S, place[e] = place[f]
      PROVE  e = f
  <2>1. Rank(e, S, R) = Rank(f, S, R)
    BY <1>0, <1>1, <1>3
  <2>2. <<e, f>> \notin R /\ <<f, e>> \notin R
    BY <2>1, <1>0, <1>1, RankIsLess
  <2> QED BY <2>2 DEF Orders
<1>4. place \in Injection(S, 1 .. n)
  BY <1>2, <1>3 DEF Injection, IsInjective
<1>5. IsFiniteSet(1 .. n) /\ Cardinality(1 .. n) = n
  BY <1>0, FS_Interval
<1>6. place \in Surjection(S, 1 .. n)
  BY <1>4, <1>5, FS_Injection, Zenon
<1>7. PICK e \in S : place[e] = i
  BY <1>6 DEF Surjection
<1>8. place[e] = Rank(e, S, R) + 1
  OBVIOUS
<1> QED BY <1>0, <1>1, <1>7, <1>8

\* Sorted lists what the set holds, each once and in order.
LEMMA SortedIsInOrder ==
    ASSUME NEW S, IsFiniteSet(S), NEW R, Orders(R, S)
    PROVE  /\ Sorted(S, R) \in Seq(S)
           /\ Len(Sorted(S, R)) = Cardinality(S)
           /\ DOMAIN Sorted(S, R) = 1 .. Cardinality(S)
           /\ \A e \in S : \E i \in DOMAIN Sorted(S, R) : Sorted(S, R)[i] = e
           /\ \A i, j \in DOMAIN Sorted(S, R) :
                 i < j => <<Sorted(S, R)[i], Sorted(S, R)[j]>> \in R
<1> DEFINE n == Cardinality(S)
           list == Sorted(S, R)
<1>0. n \in Nat
  BY FS_CardinalityType
<1>1. list = [i \in 1 .. n |-> CHOOSE e \in S : Rank(e, S, R) = i - 1]
  BY DEF Sorted
<1>2. \A i \in 1 .. n : list[i] \in S /\ Rank(list[i], S, R) = i - 1
  <2> TAKE i \in 1 .. n
  <2>1. \E e \in S : Rank(e, S, R) = i - 1
    BY RanksAreTaken
  <2>2. list[i] = CHOOSE e \in S : Rank(e, S, R) = i - 1
    BY <1>1
  <2> HIDE DEF list
  <2> QED BY <2>1, <2>2
<1> HIDE DEF list
<1>3. list \in [1 .. n -> S]
  BY <1>1, <1>2
<1>4. list \in Seq(S) /\ Len(list) = n
  BY <1>0, <1>3
<1>5. \A i, j \in 1 .. n : i < j => <<list[i], list[j]>> \in R
  <2> SUFFICES ASSUME NEW i \in 1 .. n, NEW j \in 1 .. n, i < j,
                      <<list[i], list[j]>> \notin R
               PROVE  FALSE
    OBVIOUS
  <2>1. list[i] \in S /\ list[j] \in S /\ Rank(list[i], S, R) < Rank(list[j], S, R)
    BY <1>0, <1>2
  <2>2. list[i] # list[j]
    BY <1>0, <1>2, <2>1
  <2>3. <<list[j], list[i]>> \in R
    BY <2>1, <2>2 DEF Orders
  <2>4. Rank(list[j], S, R) < Rank(list[i], S, R)
    BY <2>1, <2>3, RankIsLess
  <2> QED BY <1>0, <1>2, <2>4
<1>6. ASSUME NEW e \in S
      PROVE  \E i \in 1 .. n : list[i] = e
  <2>1. PICK r \in 0 .. n - 1 : Rank(e, S, R) = r
    BY RanksAreCounted
  <2>2. r + 1 \in 1 .. n /\ Rank(list[r + 1], S, R) = r /\ list[r + 1] \in S
    BY <1>0, <1>2, <2>1
  <2>3. <<e, list[r + 1]>> \notin R /\ <<list[r + 1], e>> \notin R
    BY <2>1, <2>2, RankIsLess
  <2> QED BY <2>2, <2>3 DEF Orders
<1>7. DOMAIN list = 1 .. n
  BY <1>3
<1> QED BY <1>4, <1>5, <1>6, <1>7 DEF list

\* There is one list of a set in an order.
LEMMA SortedIsTheOnly ==
    ASSUME NEW S, IsFiniteSet(S), NEW R, Orders(R, S), NEW list \in Seq(S),
           \A e \in S : \E i \in DOMAIN list : list[i] = e,
           \A i, j \in DOMAIN list : i < j => <<list[i], list[j]>> \in R
    PROVE  list = Sorted(S, R)
<1> DEFINE n == Len(list)
<1>1. n \in Nat /\ DOMAIN list = 1 .. n /\ list \in [1 .. n -> S]
  OBVIOUS
<1> HIDE DEF n
<1>2. \A i, j \in 1 .. n : <<list[i], list[j]>> \in R => i < j
  <2> SUFFICES ASSUME NEW i \in 1 .. n, NEW j \in 1 .. n,
                      <<list[i], list[j]>> \in R, ~(i < j)
               PROVE  FALSE
    OBVIOUS
  <2>1. list[i] \in S /\ list[j] \in S
    BY <1>1
  <2>2. i = j \/ <<list[j], list[i]>> \in R
    BY <1>1
  <2>3. <<list[i], list[i]>> \in R
    BY <2>1, <2>2 DEF Orders
  <2> QED BY <2>1, <2>3 DEF Orders
<1>3. \A i, j \in 1 .. n : list[i] = list[j] => i = j
  <2> SUFFICES ASSUME NEW i \in 1 .. n, NEW j \in 1 .. n, list[i] = list[j], i # j
               PROVE  FALSE
    OBVIOUS
  <2>1. i < j \/ j < i
    BY <1>1
  <2>2. list[i] \in S /\ <<list[i], list[i]>> \in R
    BY <1>1, <2>1
  <2> QED BY <2>2 DEF Orders
<1>4. Cardinality(S) = n
  <2>1. list \in Surjection(1 .. n, S)
    BY <1>1 DEF Surjection
  <2>2. list \in Injection(1 .. n, S)
    BY <1>1, <1>3 DEF Injection, IsInjective
  <2>3. IsFiniteSet(1 .. n) /\ Cardinality(1 .. n) = n
    BY <1>1, FS_Interval
  <2>4. Cardinality(S) = Cardinality(1 .. n)
    BY <2>1, <2>2, <2>3, FS_Surjection, Zenon
  <2> QED BY <2>3, <2>4
<1>5. ASSUME NEW i \in 1 .. n
      PROVE  Rank(list[i], S, R) = i - 1
  <2> DEFINE Below == {f \in S : <<f, list[i]>> \in R}
             place == [j \in 1 .. i - 1 |-> list[j]]
  <2>1. \A j \in 1 .. i - 1 : j \in 1 .. n /\ j < i
    BY <1>1
  <2>2. place \in [1 .. i - 1 -> Below]
    BY <1>1, <2>1
  <2>3. \A f \in Below : \E j \in 1 .. i - 1 : place[j] = f
    <3> TAKE f \in Below
    <3>1. PICK j \in 1 .. n : list[j] = f
      BY <1>1
    <3>2. j < i
      BY <1>2, <3>1
    <3>3. j \in 1 .. i - 1
      BY <3>2
    <3> QED BY <3>1, <3>3
  <2>4. \A j, k \in 1 .. i - 1 : place[j] = place[k] => j = k
    BY <1>3, <2>1
  <2>5. Rank(list[i], S, R) = Cardinality(Below)
    BY DEF Rank
  <2> HIDE DEF Below, place
  <2>6. place \in Surjection(1 .. i - 1, Below)
    BY <2>2, <2>3 DEF Surjection
  <2>7. place \in Injection(1 .. i - 1, Below)
    BY <2>2, <2>4 DEF Injection, IsInjective
  <2>8. IsFiniteSet(1 .. i - 1) /\ Cardinality(1 .. i - 1) = i - 1
    <3>1. i - 1 \in Nat
      OBVIOUS
    <3>2. \A m \in Nat : IsFiniteSet(1 .. m) /\ Cardinality(1 .. m) = m
      BY FS_Interval
    <3> QED BY <3>1, <3>2
  <2>9. Cardinality(Below) = Cardinality(1 .. i - 1)
    BY <2>6, <2>7, <2>8, FS_Surjection, Zenon
  <2> QED BY <2>5, <2>8, <2>9
<1>6. ASSUME NEW i \in 1 .. n
      PROVE  list[i] = CHOOSE e \in S : Rank(e, S, R) = i - 1
  <2>1. \A e \in S : Rank(e, S, R) = i - 1 => e = list[i]
    <3> SUFFICES ASSUME NEW e \in S, Rank(e, S, R) = i - 1
                 PROVE  e = list[i]
      OBVIOUS
    <3>1. PICK k \in 1 .. n : list[k] = e
      BY <1>1
    <3>2. k - 1 = i - 1
      BY <1>5, <3>1
    <3> QED BY <3>1, <3>2
  <2>2. list[i] \in S /\ Rank(list[i], S, R) = i - 1
    BY <1>1, <1>5
  <2> QED BY <2>1, <2>2
<1>7. Sorted(S, R) = [i \in 1 .. n |-> CHOOSE e \in S : Rank(e, S, R) = i - 1]
  BY <1>4 DEF Sorted
<1>8. list = [i \in 1 .. n |-> list[i]]
  BY <1>1
<1> QED BY <1>6, <1>7, <1>8

\* Picked lists what a list has at some places, in the list's order.
LEMMA PickedIsInOrder ==
    ASSUME NEW S, NEW list \in Seq(S), NEW I \in SUBSET DOMAIN list
    PROVE  /\ Picked(list, I) \in Seq(S)
           /\ \A k \in DOMAIN Picked(list, I) :
                 \E i \in I : Picked(list, I)[k] = list[i]
           /\ \A i \in I : \E k \in DOMAIN Picked(list, I) :
                 Picked(list, I)[k] = list[i]
           /\ \A k, m \in DOMAIN Picked(list, I) : k < m =>
                 \E i, j \in I : /\ i < j
                                 /\ Picked(list, I)[k] = list[i]
                                 /\ Picked(list, I)[m] = list[j]
           /\ \A i, j \in I : i < j =>
                 \E k, m \in DOMAIN Picked(list, I) :
                    /\ k < m
                    /\ Picked(list, I)[k] = list[i]
                    /\ Picked(list, I)[m] = list[j]
<1> DEFINE R == Ascending(I)
           places == Sorted(I, R)
           picked == Picked(list, I)
<1>1. I \in SUBSET Nat /\ IsFiniteSet(I)
  <2>1. DOMAIN list = 1 .. Len(list) /\ Len(list) \in Nat
    OBVIOUS
  <2>2. IsFiniteSet(1 .. Len(list))
    BY <2>1, FS_Interval
  <2> QED BY <2>1, <2>2, FS_Subset
<1>2. \A i, j \in I : <<i, j>> \in R <=> i < j
  BY DEF Ascending
<1>3. Orders(R, I)
  BY <1>1, <1>2 DEF Orders
<1>4. /\ places \in Seq(I)
      /\ \A i \in I : \E k \in DOMAIN places : places[k] = i
      /\ \A k, m \in DOMAIN places : k < m => <<places[k], places[m]>> \in R
  BY <1>1, <1>3, SortedIsInOrder
<1>5. picked = [k \in DOMAIN places |-> list[places[k]]]
  BY DEF Picked
<1> HIDE DEF places, picked, R
<1>6. \A k \in DOMAIN places : places[k] \in I /\ picked[k] = list[places[k]]
                               /\ list[places[k]] \in S
  BY <1>4, <1>5
<1>7. DOMAIN picked = DOMAIN places
  BY <1>5
<1>8. picked \in Seq(S)
  <2>1. DOMAIN places = 1 .. Len(places) /\ Len(places) \in Nat
    BY <1>4
  <2>2. picked \in [1 .. Len(places) -> S]
    BY <1>5, <1>6, <2>1
  <2> QED BY <2>1, <2>2
<1>9. \A k, m \in DOMAIN places : k < m => places[k] < places[m]
  BY <1>2, <1>4, <1>6
<1>10. \A k, m \in DOMAIN places : places[k] < places[m] => k < m
  <2> SUFFICES ASSUME NEW k \in DOMAIN places, NEW m \in DOMAIN places,
                      places[k] < places[m], ~(k < m)
               PROVE  FALSE
    OBVIOUS
  <2>1. k \in Nat /\ m \in Nat /\ places[k] \in Nat /\ places[m] \in Nat
    BY <1>1, <1>4, <1>6
  <2> QED BY <1>9, <2>1
<1>11. \A i, j \in I : i < j =>
          \E k, m \in DOMAIN picked : k < m /\ picked[k] = list[i] /\ picked[m] = list[j]
  BY <1>4, <1>6, <1>7, <1>10
<1>12. \A k, m \in DOMAIN picked : k < m =>
          \E i, j \in I : i < j /\ picked[k] = list[i] /\ picked[m] = list[j]
  BY <1>6, <1>7, <1>9
<1>13. \A i \in I : \E k \in DOMAIN picked : picked[k] = list[i]
  BY <1>4, <1>6, <1>7
<1>14. \A k \in DOMAIN picked : \E i \in I : picked[k] = list[i]
  BY <1>6, <1>7
<1> QED BY <1>8, <1>11, <1>12, <1>13, <1>14 DEF picked
=============================================================================
