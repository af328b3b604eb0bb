-------------------------- MODULE StepOrder_proofs --------------------------
(***************************************************************************)
(* Between any two ranks in order there is a rank, whatever their lengths  *)
(* and digits: an insertion or a move never fails for want of room, and    *)
(* what it writes leaves room on both sides again. And it puts the Step    *)
(* where the caller saw it go, for any Steps and ranks.                    *)
(***************************************************************************)
EXTENDS StepOrder, SortedLists_proofs

\* Half way between two digits that are not adjacent lies strictly between.
LEMMA MidpointIsBetween ==
    ASSUME NEW low \in Nat, NEW high \in Nat, high - low > 1
    PROVE  /\ Midpoint(low, high) \in Nat
           /\ low < Midpoint(low, high)
           /\ Midpoint(low, high) < high
  BY DEF Midpoint

\* Digits are numbers below the base, and there are enough of them.
LEMMA DigitsAreNumbers ==
    /\ \A d : d \in Digits <=> d \in Nat /\ d < RankBase
    /\ RankBase \in Nat /\ RankBase > 2
    /\ LowestDigit = 0 /\ LowestDigit \in Digits
  BY DEF Digits, RankBase, LowestDigit

\* The digits of a rank, padded with the lowest.
LEMMA DigitsOfRanks ==
    ASSUME NEW rank \in Seq(Digits), NEW i \in Nat \ {0}
    PROVE  /\ DigitAt(rank, i) \in Digits
           /\ DigitAt(rank, i) = IF i <= Len(rank) THEN rank[i] ELSE 0
  BY DigitsAreNumbers DEF DigitAt

\* What replaces the digit of a rank at a place by a greater one, and ends
\* there, is a rank, and comes after it.
LEMMA EndingAboveComesAfter ==
    ASSUME NEW rank \in Seq(Digits), NEW i \in Nat \ {0},
           NEW digit \in Digits, DigitAt(rank, i) < digit
    PROVE  /\ IsRank(EndingAt(rank, i, digit))
           /\ Precedes(rank, EndingAt(rank, i, digit))
<1> DEFINE new == EndingAt(rank, i, digit)
<1>1. \A k \in 1 .. i : DigitAt(rank, k) \in Digits
  BY DigitsOfRanks
<1>2. new \in Seq(Digits) /\ Len(new) = i /\ new[i] = digit
  BY <1>1 DEF EndingAt
<1>3. \A k \in 1 .. i - 1 : new[k] = DigitAt(rank, k)
  BY DEF EndingAt
<1>4. digit # LowestDigit
  BY <1>1, DigitsAreNumbers
<1>5. IsRank(new)
  BY <1>2, <1>4 DEF IsRank, NoRank
<1> HIDE DEF new
<1>6. CASE i <= Len(rank)
  <2>1. rank[i] < new[i]
    BY <1>2, <1>6 DEF DigitAt
  <2>2. \A k \in 1 .. i - 1 : rank[k] = new[k]
    BY <1>3, <1>6 DEF DigitAt
  <2>3. i \in 1 .. Len(new) /\ i <= Len(rank) + 1
    BY <1>2, <1>6
  <2>4. Precedes(rank, new)
    BY <2>1, <2>2, <2>3 DEF Precedes
  <2> QED
    BY <1>5, <2>4 DEF new
<1>7. CASE i > Len(rank)
  <2>1. \A k \in 1 .. Len(rank) : rank[k] = new[k]
    BY <1>3, <1>7 DEF DigitAt
  <2>2. Len(rank) + 1 \in 1 .. Len(new)
    BY <1>2, <1>7
  <2>3. Precedes(rank, new)
    BY <2>1, <2>2 DEF Precedes
  <2> QED
    BY <1>5, <2>3 DEF new
<1> QED
  BY <1>6, <1>7

\* The descent that nothing bounds from above ends, in a rank that comes after
\* and agrees with the one it started from before the place it started at.
LEMMA AboveComesAfter ==
    ASSUME NEW before \in Seq(Digits), NEW from \in Nat \ {0}
    PROVE  /\ IsRank(Above(before, from))
           /\ Precedes(before, Above(before, from))
           /\ Len(Above(before, from)) >= from
           /\ \A k \in 1 .. from - 1 : Above(before, from)[k] = DigitAt(before, k)
<1> DEFINE places == PlacesWithRoom(before, from)
           i == Min(places)
           low == DigitAt(before, i)
           digit == Midpoint(low, RankBase)
<1>1. from + Len(before) \in places
  BY DEF PlacesWithRoom, DigitAt, LowestDigit, RankBase
<1>2. places \in SUBSET Nat
  BY DEF PlacesWithRoom
<1>3. i \in places
  BY <1>1, <1>2, LeastIsMin
<1>4. i \in Nat \ {0} /\ i >= from /\ RankBase - low > 1
  BY <1>3 DEF PlacesWithRoom
<1>5. low \in Digits
  BY <1>4, DigitsOfRanks
<1>6. digit \in Digits /\ low < digit
  BY <1>4, <1>5, MidpointIsBetween, DigitsAreNumbers
<1>7. Above(before, from) = EndingAt(before, i, digit)
  BY DEF Above
<1>8. /\ Len(EndingAt(before, i, digit)) = i
      /\ \A k \in 1 .. from - 1 : EndingAt(before, i, digit)[k] = DigitAt(before, k)
  BY <1>4 DEF EndingAt
<1> HIDE DEF i, digit, low
<1>9. /\ IsRank(EndingAt(before, i, digit))
      /\ Precedes(before, EndingAt(before, i, digit))
  BY <1>4, <1>6, EndingAboveComesAfter DEF low
<1> QED
  BY <1>4, <1>7, <1>8, <1>9

\* Two ranks in order differ somewhere, and where they first do, the digit of
\* the first is the lower.
LEMMA FirstDifferenceDecides ==
    ASSUME NEW before \in Seq(Digits), NEW after, IsRank(after),
           Precedes(before, after),
           NEW i, i = Min(PlacesApart(before, after))
    PROVE  /\ PlacesApart(before, after) # {}
           /\ i \in 1 .. Len(after)
           /\ \A k \in 1 .. i - 1 : DigitAt(before, k) = after[k]
           /\ DigitAt(before, i) < after[i]
<1> DEFINE apart == PlacesApart(before, after)
<1>1. /\ after \in Seq(Digits) /\ Len(after) # 0 /\ after[Len(after)] # 0
      /\ \A k \in 1 .. Len(after) : after[k] \in Nat /\ DigitAt(before, k) \in Nat
  BY DigitsAreNumbers, DigitsOfRanks DEF IsRank, NoRank
<1>2. PICK p \in 1 .. Len(after) :
         /\ p <= Len(before) + 1
         /\ \A k \in 1 .. p - 1 : before[k] = after[k]
         /\ p = Len(before) + 1 \/ before[p] < after[p]
  BY DEF Precedes
<1>3. \A k \in 1 .. p - 1 : DigitAt(before, k) = after[k]
  BY <1>2 DEF DigitAt
<1>4. apart # {}
  <2>1. CASE p = Len(before) + 1
    BY <1>1, <1>2, <2>1 DEF PlacesApart, DigitAt, LowestDigit
  <2>2. CASE p <= Len(before)
    <3>1. DigitAt(before, p) < after[p]
      BY <1>2, <2>2 DEF DigitAt
    <3> QED
      BY <1>1, <3>1 DEF PlacesApart
  <2> QED
    BY <1>2, <2>1, <2>2
<1>5. i \in apart /\ \A k \in apart : i <= k
  <2>1. apart \in SUBSET Nat
    BY DEF PlacesApart
  <2> QED
    BY <1>4, <2>1, LeastIsMin
<1>6. i \in 1 .. Len(after) /\ i >= p /\ DigitAt(before, i) # after[i]
  BY <1>1, <1>3, <1>5 DEF PlacesApart
<1>7. \A k \in 1 .. i - 1 : DigitAt(before, k) = after[k]
  BY <1>1, <1>5, <1>6 DEF PlacesApart
<1>8. DigitAt(before, i) < after[i]
  <2>1. CASE i <= Len(before)
    <3>1. DigitAt(before, p) # after[p]
      <4>1. before[p] < after[p] /\ DigitAt(before, p) = before[p]
        BY <1>2, <1>6, <2>1 DEF DigitAt
      <4> QED
        BY <1>1, <4>1
    <3>2. p = i
      BY <1>1, <1>6, <1>7, <3>1
    <3> QED
      BY <1>2, <2>1, <3>2 DEF DigitAt
  <2>2. CASE i > Len(before)
    <3>1. DigitAt(before, i) = 0
      BY <1>6, <2>2 DEF DigitAt, LowestDigit
    <3> QED
      BY <1>1, <1>6, <3>1
  <2> QED
    BY <1>6, <2>1, <2>2
<1> QED
  BY <1>4, <1>6, <1>7, <1>8

\* A rank whose digit is the lower at some place, or that ends before another
\* that goes on, and that agrees up to there, comes first.
LEMMA LowerComesFirst ==
    ASSUME NEW a \in Seq(Digits), NEW b \in Seq(Digits),
           NEW i \in 1 .. Len(b), i <= Len(a) + 1,
           \A k \in 1 .. i - 1 : a[k] = b[k],
           i = Len(a) + 1 \/ a[i] < b[i]
    PROVE  Precedes(a, b)
  BY DEF Precedes

\* Between any two neighbours in order there is a rank, strictly between them,
\* that ends in no lowest digit: rankBetween (workflow.ts:63-103) never refuses
\* neighbours in order, and the next insertion into either gap finds a rank too.
THEOREM RoomIsNeverLost ==
    ASSUME NEW before \in Seq(Digits), NEW after,
           after = NoRank \/ IsRank(after)
    PROVE  RankFallsBetween(before, after)
<1> DEFINE answer == RankBetween(before, after)
<1>1. CASE after = NoRank
  <2>1. answer = Placed(Above(before, 1))
    BY <1>1 DEF RankBetween
  <2> QED
    BY <1>1, <2>1, AboveComesAfter DEF RankFallsBetween, Placed
<1>2. CASE after # NoRank /\ Precedes(before, after)
  <2> DEFINE i == Min(PlacesApart(before, after))
             low == DigitAt(before, i)
             high == after[i]
  <2>1. after \in Seq(Digits) /\ IsRank(after)
    BY <1>2 DEF IsRank
  <2>2. /\ PlacesApart(before, after) # {}
        /\ i \in 1 .. Len(after)
        /\ \A k \in 1 .. i - 1 : DigitAt(before, k) = after[k]
        /\ low < high
    BY <1>2, <2>1, FirstDifferenceDecides
  <2>3. answer = Placed(Between(before, after, i))
    BY <1>2, <2>2 DEF RankBetween
  <2> HIDE DEF i
  <2>4. low \in Digits /\ high \in Digits /\ i \in Nat \ {0}
    BY <2>1, <2>2, DigitsOfRanks
  <2> HIDE DEF low, high
  <2> SUFFICES /\ IsRank(Between(before, after, i))
               /\ Precedes(before, Between(before, after, i))
               /\ Precedes(Between(before, after, i), after)
    BY <2>3 DEF RankFallsBetween, Placed
  <2>5. CASE high - low > 1
    <3> DEFINE digit == Midpoint(low, high)
               new == EndingAt(before, i, digit)
    <3>1. Between(before, after, i) = new
      BY <2>5 DEF Between, low, high
    <3>2. digit \in Digits /\ low < digit /\ digit < high
      BY <2>4, <2>5, MidpointIsBetween, DigitsAreNumbers
    <3> HIDE DEF digit
    <3>3. IsRank(new) /\ Precedes(before, new)
      BY <2>4, <3>2, EndingAboveComesAfter DEF low
    <3>4. Len(new) = i /\ new[i] = digit /\ \A k \in 1 .. i - 1 : new[k] = after[k]
      BY <2>2, <2>4 DEF EndingAt
    <3>5. Precedes(new, after)
      BY <2>1, <2>2, <3>2, <3>3, <3>4, LowerComesFirst DEF IsRank, high
    <3> QED
      BY <3>1, <3>3, <3>5
  <2>6. CASE ~(high - low > 1) /\ Len(after) > i
    <3> DEFINE new == EndingAt(before, i, high)
    <3>1. Between(before, after, i) = new
      BY <2>6 DEF Between, low, high
    <3>2. IsRank(new) /\ Precedes(before, new)
      BY <2>2, <2>4, EndingAboveComesAfter DEF low
    <3>3. Len(new) = i /\ \A k \in 1 .. i : new[k] = after[k]
      BY <2>2, <2>4 DEF EndingAt, high
    <3>4. i + 1 \in 1 .. Len(after)
      BY <2>1, <2>4, <2>6
    <3>5. Precedes(new, after)
      BY <2>1, <2>4, <3>2, <3>3, <3>4, LowerComesFirst DEF IsRank
    <3> QED
      BY <3>1, <3>2, <3>5
  <2>7. CASE ~(high - low > 1) /\ ~(Len(after) > i)
    <3> DEFINE new == Above(before, i + 1)
    <3>1. Between(before, after, i) = new
      BY <2>7 DEF Between, low, high
    <3>2. /\ IsRank(new) /\ Precedes(before, new) /\ Len(new) >= i + 1
          /\ \A k \in 1 .. i : new[k] = DigitAt(before, k)
      BY <2>4, AboveComesAfter
    <3>3. new[i] = low /\ \A k \in 1 .. i - 1 : new[k] = after[k]
      BY <2>2, <2>4, <3>2 DEF low
    <3>4. new \in Seq(Digits) /\ i \in 1 .. Len(after) /\ i <= Len(new) + 1
      BY <2>1, <2>2, <2>4, <3>2 DEF IsRank
    <3>5. new[i] < after[i]
      BY <2>2, <3>3 DEF high
    <3> HIDE DEF new
    <3>6. Precedes(new, after)
      BY <2>1, <3>3, <3>4, <3>5, LowerComesFirst
    <3> QED
      BY <3>1, <3>2, <3>6 DEF new
  <2> QED
    BY <2>5, <2>6, <2>7
<1>3. CASE after # NoRank /\ ~Precedes(before, after)
  BY <1>3 DEF RankFallsBetween
<1> QED
  BY <1>1, <1>2, <1>3

-----------------------------------------------------------------------------
(* The order of the ranks.                                                 *)

LEMMA NoneComesBeforeItself ==
    ASSUME NEW a \in Seq(Digits)
    PROVE  ~Precedes(a, a)
<1> SUFFICES ASSUME NEW i \in 1 .. Len(a), i = Len(a) + 1 \/ a[i] < a[i]
             PROVE  FALSE
  BY DEF Precedes
<1>1. a[i] \in Nat
  BY DigitsAreNumbers
<1>2. Len(a) \in Nat
  OBVIOUS
<1> QED BY <1>1, <1>2

LEMMA OrderGoesOn ==
    ASSUME NEW a \in Seq(Digits), NEW b \in Seq(Digits), NEW c \in Seq(Digits),
           Precedes(a, b), Precedes(b, c)
    PROVE  Precedes(a, c)
<1>1. PICK i \in 1 .. Len(b) :
         /\ i <= Len(a) + 1
         /\ \A k \in 1 .. i - 1 : a[k] = b[k]
         /\ i = Len(a) + 1 \/ a[i] < b[i]
  BY DEF Precedes
<1>2. PICK j \in 1 .. Len(c) :
         /\ j <= Len(b) + 1
         /\ \A k \in 1 .. j - 1 : b[k] = c[k]
         /\ j = Len(b) + 1 \/ b[j] < c[j]
  BY DEF Precedes
<1>3. Len(a) \in Nat /\ Len(b) \in Nat /\ Len(c) \in Nat
  OBVIOUS
<1>4. /\ \A k \in 1 .. Len(a) : a[k] \in Nat
      /\ \A k \in 1 .. Len(b) : b[k] \in Nat
      /\ \A k \in 1 .. Len(c) : c[k] \in Nat
  BY DigitsAreNumbers
<1>5. CASE i < j
  <2>1. i \in 1 .. Len(c) /\ b[i] = c[i]
    BY <1>2, <1>3, <1>5
  <2>2. \A k \in 1 .. i - 1 : a[k] = c[k]
    BY <1>1, <1>2, <1>3, <1>5
  <2> QED BY <1>1, <2>1, <2>2 DEF Precedes
<1>6. CASE i = j
  <2>1. b[i] < c[i]
    BY <1>2, <1>3, <1>6
  <2>2. i = Len(a) + 1 \/ a[i] < c[i]
    <3>1. CASE i = Len(a) + 1
      BY <3>1
    <3>2. CASE i <= Len(a)
      <4>1. a[i] < b[i]
        BY <1>1, <1>3, <3>2
      <4>2. a[i] \in Nat /\ b[i] \in Nat /\ c[i] \in Nat
        BY <1>2, <1>4, <1>6, <3>2
      <4> QED BY <2>1, <4>1, <4>2
    <3> QED BY <1>1, <1>3, <3>1, <3>2
  <2>3. \A k \in 1 .. i - 1 : a[k] = c[k]
    BY <1>1, <1>2, <1>6
  <2>4. i \in 1 .. Len(c)
    BY <1>2, <1>6
  <2> QED BY <1>1, <2>2, <2>3, <2>4 DEF Precedes
<1>7. CASE i > j
  <2>1. b[j] < c[j] /\ a[j] = b[j]
    BY <1>1, <1>2, <1>3, <1>7
  <2>2. \A k \in 1 .. j - 1 : a[k] = c[k]
    BY <1>1, <1>2, <1>3, <1>7
  <2>3. j <= Len(a) + 1
    BY <1>1, <1>3, <1>7
  <2> QED BY <1>2, <2>1, <2>2, <2>3 DEF Precedes
<1> QED BY <1>5, <1>6, <1>7

LEMMA OneComesFirst ==
    ASSUME NEW a \in Seq(Digits), NEW b \in Seq(Digits), a # b
    PROVE  Precedes(a, b) \/ Precedes(b, a)
<1> DEFINE apart == {i \in 1 .. Len(a) : i <= Len(b) /\ a[i] # b[i]}
<1>1. Len(a) \in Nat /\ Len(b) \in Nat
  OBVIOUS
<1>2. /\ \A k \in 1 .. Len(a) : a[k] \in Nat
      /\ \A k \in 1 .. Len(b) : b[k] \in Nat
  BY DigitsAreNumbers
<1>3. CASE apart = {}
  <2>1. \A k \in 1 .. Len(a) : k <= Len(b) => a[k] = b[k]
    BY <1>3
  <2>2. Len(a) # Len(b)
    <3> SUFFICES ASSUME Len(a) = Len(b) PROVE FALSE
      OBVIOUS
    <3>1. \A k \in 1 .. Len(a) : a[k] = b[k]
      BY <1>1, <2>1
    <3> QED BY <3>1
  <2>3. CASE Len(a) < Len(b)
    <3>1. Len(a) + 1 \in 1 .. Len(b) /\ \A k \in 1 .. Len(a) : a[k] = b[k]
      BY <1>1, <2>1, <2>3
    <3>2. \A k \in 1 .. (Len(a) + 1) - 1 : a[k] = b[k]
      BY <1>1, <3>1
    <3> QED BY <3>1, <3>2 DEF Precedes
  <2>4. CASE Len(b) < Len(a)
    <3>1. Len(b) + 1 \in 1 .. Len(a) /\ \A k \in 1 .. Len(b) : b[k] = a[k]
      BY <1>1, <2>1, <2>4
    <3>2. \A k \in 1 .. (Len(b) + 1) - 1 : b[k] = a[k]
      BY <1>1, <3>1
    <3> QED BY <3>1, <3>2 DEF Precedes
  <2> QED BY <1>1, <2>2, <2>3, <2>4
<1>4. CASE apart # {}
  <2> DEFINE i == Min(apart)
  <2>1. apart \in SUBSET Nat
    OBVIOUS
  <2>2. i \in apart /\ \A k \in apart : i <= k
    BY <1>4, <2>1, LeastIsMin
  <2> HIDE DEF i
  <2>3. i \in 1 .. Len(a) /\ i \in 1 .. Len(b) /\ a[i] # b[i]
    BY <2>2
  <2>4. \A k \in 1 .. i - 1 : a[k] = b[k]
    <3> TAKE k \in 1 .. i - 1
    <3>1. k \in 1 .. Len(a) /\ k <= Len(b) /\ ~(i <= k)
      BY <1>1, <2>3
    <3> QED BY <2>2, <3>1
  <2>5. a[i] < b[i] \/ b[i] < a[i]
    BY <1>2, <2>3
  <2>6. i <= Len(a) + 1 /\ i <= Len(b) + 1
    BY <1>1, <2>3
  <2> QED BY <2>3, <2>4, <2>5, <2>6 DEF Precedes
<1> QED BY <1>3, <1>4

-----------------------------------------------------------------------------
(* The order of the Steps.                                                 *)

\* Steps that the database holds: finitely many, no id is null, no two ranks
\* agree.
AreSteps(rankOf, steps) ==
    /\ IsFiniteSet(steps)
    /\ NoStep \notin steps
    /\ DOMAIN rankOf = steps
    /\ WellRanked(rankOf)

\* An order holds every one of some Steps once, by rank.
IsOrderOf(order, steps, rankOf) ==
    /\ order \in Seq(steps)
    /\ \A s \in steps : \E i \in DOMAIN order : order[i] = s
    /\ \A i, j \in DOMAIN order :
          i < j => Precedes(rankOf[order[i]], rankOf[order[j]])

LEMMA StepsAreOrdered ==
    ASSUME NEW steps, NEW rankOf, DOMAIN rankOf = steps, WellRanked(rankOf)
    PROVE  /\ Orders(Earlier(rankOf), steps)
           /\ \A s, t \in steps :
                 <<s, t>> \in Earlier(rankOf) <=> Precedes(rankOf[s], rankOf[t])
<1>1. \A s \in steps : rankOf[s] \in Seq(Digits)
  BY DEF WellRanked, IsRank
<1>2. \A s, t \in steps : s # t => rankOf[s] # rankOf[t]
  BY DEF WellRanked
<1>3. \A s, t \in steps :
         <<s, t>> \in Earlier(rankOf) <=> Precedes(rankOf[s], rankOf[t])
  BY DEF Earlier
<1>4. \A s \in steps : <<s, s>> \notin Earlier(rankOf)
  BY <1>1, <1>3, NoneComesBeforeItself
<1>5. \A s, t, u \in steps :
         <<s, t>> \in Earlier(rankOf) /\ <<t, u>> \in Earlier(rankOf)
            => <<s, u>> \in Earlier(rankOf)
  BY <1>1, <1>3, OrderGoesOn
<1>6. \A s, t \in steps :
         s = t \/ <<s, t>> \in Earlier(rankOf) \/ <<t, s>> \in Earlier(rankOf)
  BY <1>1, <1>2, <1>3, OneComesFirst
<1> QED BY <1>3, <1>4, <1>5, <1>6 DEF Orders

LEMMA SortStepsIsTheOrder ==
    ASSUME NEW steps, NEW rankOf, AreSteps(rankOf, steps)
    PROVE  /\ IsOrderOf(SortSteps(rankOf), steps, rankOf)
           /\ \A order : IsOrderOf(order, steps, rankOf) => order = SortSteps(rankOf)
<1>1. /\ IsFiniteSet(steps)
      /\ Orders(Earlier(rankOf), steps)
      /\ \A s, t \in steps :
            <<s, t>> \in Earlier(rankOf) <=> Precedes(rankOf[s], rankOf[t])
  BY StepsAreOrdered DEF AreSteps
<1>2. SortSteps(rankOf) = Sorted(steps, Earlier(rankOf))
  BY DEF SortSteps, AreSteps
<1> DEFINE list == Sorted(steps, Earlier(rankOf))
<1>3. /\ list \in Seq(steps)
      /\ \A s \in steps : \E i \in DOMAIN list : list[i] = s
      /\ \A i, j \in DOMAIN list : i < j => <<list[i], list[j]>> \in Earlier(rankOf)
  BY <1>1, SortedIsInOrder
<1> HIDE DEF list
<1>4. IsOrderOf(list, steps, rankOf)
  <2>1. \A i \in DOMAIN list : list[i] \in steps
    BY <1>3
  <2> QED BY <1>1, <1>3, <2>1 DEF IsOrderOf
<1>5. ASSUME NEW order, IsOrderOf(order, steps, rankOf)
      PROVE  order = list
  <2>1. /\ order \in Seq(steps)
        /\ \A s \in steps : \E i \in DOMAIN order : order[i] = s
        /\ \A i, j \in DOMAIN order : i < j => <<order[i], order[j]>> \in Earlier(rankOf)
    <3>1. order \in Seq(steps) /\ \A i \in DOMAIN order : order[i] \in steps
      BY <1>5 DEF IsOrderOf
    <3> QED BY <1>1, <1>5, <3>1 DEF IsOrderOf
  <2> QED BY <1>1, <2>1, SortedIsTheOnly DEF list
<1> QED BY <1>2, <1>4, <1>5 DEF list

LEMMA OthersAreInOrder ==
    ASSUME NEW steps, NEW rankOf, AreSteps(rankOf, steps), NEW step
    PROVE  IsOrderOf(Others(rankOf, step), steps \ {step}, rankOf)
<1> DEFINE order == SortSteps(rankOf)
           places == {i \in DOMAIN order : order[i] # step}
           others == Picked(order, places)
<1>1. others = Others(rankOf, step)
  BY DEF Others
<1>2. IsOrderOf(order, steps, rankOf)
  BY SortStepsIsTheOrder
<1> HIDE DEF order
<1>3. order \in Seq(steps) /\ places \in SUBSET DOMAIN order
  BY <1>2 DEF IsOrderOf
<1>4. \A i \in places : order[i] \in steps /\ order[i] # step
  BY <1>3
<1>5. /\ others \in Seq(steps)
      /\ \A k \in DOMAIN others : \E i \in places : others[k] = order[i]
      /\ \A i \in places : \E k \in DOMAIN others : others[k] = order[i]
      /\ \A k, m \in DOMAIN others : k < m =>
            \E i, j \in places : i < j /\ others[k] = order[i] /\ others[m] = order[j]
  <2> HIDE DEF places
  <2> QED BY <1>3, PickedIsInOrder
<1>6. \A i, j \in places : i < j => Precedes(rankOf[order[i]], rankOf[order[j]])
  BY <1>2 DEF IsOrderOf
<1>7. \A s \in steps \ {step} : \E i \in places : order[i] = s
  BY <1>2 DEF IsOrderOf
<1> HIDE DEF others, places
<1>8. others \in Seq(steps \ {step})
  <2>1. ASSUME NEW k \in DOMAIN others
        PROVE  others[k] \in steps \ {step}
    <3>1. PICK i \in places : others[k] = order[i]
      BY <1>5
    <3> QED BY <1>4, <3>1
  <2>2. DOMAIN others = 1 .. Len(others) /\ Len(others) \in Nat
        /\ others = [k \in 1 .. Len(others) |-> others[k]]
    BY <1>5
  <2>3. others \in [1 .. Len(others) -> steps \ {step}]
    BY <2>1, <2>2
  <2> QED BY <2>2, <2>3
<1>9. \A s \in steps \ {step} : \E k \in DOMAIN others : others[k] = s
  BY <1>5, <1>7
<1>10. ASSUME NEW k \in DOMAIN others, NEW m \in DOMAIN others, k < m
       PROVE  Precedes(rankOf[others[k]], rankOf[others[m]])
  <2>1. PICK i \in places, j \in places :
           i < j /\ others[k] = order[i] /\ others[m] = order[j]
    BY <1>5, <1>10
  <2> QED BY <1>6, <2>1
<1> QED BY <1>1, <1>8, <1>9, <1>10 DEF IsOrderOf

\* The rank written into a gap comes after every Step before the gap, and before
\* every Step after it.
LEMMA GapHasRoom ==
    ASSUME NEW steps, NEW rankOf, AreSteps(rankOf, steps),
           NEW rest \in SUBSET steps, NEW order, IsOrderOf(order, rest, rankOf),
           NEW i \in 1 .. Len(order) + 1,
           NEW answer, answer = RankInGap(rankOf, order, i - 1)
    PROVE  /\ answer.error = "none"
           /\ IsRank(answer.rank)
           /\ \A k \in DOMAIN order :
                 IF k < i THEN Precedes(rankOf[order[k]], answer.rank)
                 ELSE Precedes(answer.rank, rankOf[order[k]])
<1> DEFINE left == RankAt(rankOf, order, i - 1)
           right == RankAt(rankOf, order, i)
<1>1. /\ DOMAIN order = 1 .. Len(order) /\ Len(order) \in Nat
      /\ \A k \in DOMAIN order : order[k] \in steps
      /\ \A k, m \in DOMAIN order :
            k < m => Precedes(rankOf[order[k]], rankOf[order[m]])
  BY DEF IsOrderOf
<1>2. \A k \in DOMAIN order : /\ IsRank(rankOf[order[k]])
                              /\ rankOf[order[k]] \in Seq(Digits)
                              /\ rankOf[order[k]] # NoRank
  BY <1>1 DEF AreSteps, WellRanked, IsRank
<1>3. i \in Nat \ {0} /\ (i - 1) + 1 = i
  BY <1>1
<1>4. answer = RankBetween(left, right)
  BY <1>3 DEF RankInGap
<1>5. /\ i = 1 => left = NoRank
      /\ i > 1 => i - 1 \in DOMAIN order /\ left = rankOf[order[i - 1]]
      /\ i \in DOMAIN order => right = rankOf[order[i]]
      /\ i \notin DOMAIN order => right = NoRank
  BY <1>1, <1>3 DEF RankAt
<1> HIDE DEF left, right
<1>6. left \in Seq(Digits)
  <2>1. NoRank \in Seq(Digits)
    BY DEF NoRank
  <2> QED BY <1>2, <1>3, <1>5, <2>1
<1>7. right = NoRank \/ IsRank(right)
  BY <1>2, <1>5
<1>8. right = NoRank \/ Precedes(left, right)
  <2> SUFFICES ASSUME i \in DOMAIN order PROVE Precedes(left, right)
    BY <1>5
  <2>1. CASE i = 1
    <3>1. right \in Seq(Digits) /\ Len(right) # 0
      BY <1>2, <1>5 DEF NoRank
    <3>2. 1 \in 1 .. Len(right) /\ Len(left) = 0
      BY <1>5, <2>1, <3>1 DEF NoRank
    <3> QED BY <3>2 DEF Precedes
  <2>2. CASE i > 1
    BY <1>1, <1>5, <2>2
  <2> QED BY <1>3, <2>1, <2>2
<1>9. /\ answer.error = "none"
      /\ IsRank(answer.rank)
      /\ Precedes(left, answer.rank)
      /\ right = NoRank \/ Precedes(answer.rank, right)
  BY <1>4, <1>6, <1>7, <1>8, RoomIsNeverLost DEF RankFallsBetween
<1>10. answer.rank \in Seq(Digits)
  BY <1>9 DEF IsRank
<1>11. ASSUME NEW k \in DOMAIN order, k < i
       PROVE  Precedes(rankOf[order[k]], answer.rank)
  <2>1. i > 1 /\ k \in Nat
    BY <1>1, <1>3, <1>11
  <2>2. CASE k = i - 1
    BY <1>5, <1>9, <2>1, <2>2
  <2>3. CASE k < i - 1
    <3>1. Precedes(rankOf[order[k]], left)
      BY <1>1, <1>5, <2>1, <2>3
    <3> QED BY <1>2, <1>6, <1>9, <1>10, <3>1, OrderGoesOn
  <2> QED BY <1>3, <1>11, <2>1, <2>2, <2>3
<1>12. ASSUME NEW k \in DOMAIN order, ~(k < i)
       PROVE  Precedes(answer.rank, rankOf[order[k]])
  <2>1. i \in DOMAIN order /\ k \in Nat
    BY <1>1, <1>3, <1>12
  <2>2. right = rankOf[order[i]] /\ Precedes(answer.rank, right)
    BY <1>2, <1>5, <1>9, <2>1
  <2>3. CASE k = i
    BY <2>2, <2>3
  <2>4. CASE k > i
    <3>1. Precedes(right, rankOf[order[k]])
      BY <1>1, <2>1, <2>2, <2>4
    <3> QED BY <1>2, <1>10, <2>1, <2>2, <3>1, OrderGoesOn
  <2> QED BY <1>3, <1>12, <2>1, <2>3, <2>4
<1> QED BY <1>9, <1>11, <1>12

\* Such a rank puts its Step into the gap, and is nobody else's.
LEMMA EditLands ==
    ASSUME NEW steps, NEW rankOf, AreSteps(rankOf, steps),
           NEW step, step # NoStep,
           NEW order, IsOrderOf(order, steps \ {step}, rankOf),
           NEW i \in 1 .. Len(order) + 1,
           NEW answer, answer = RankInGap(rankOf, order, i - 1)
    PROVE  /\ answer.error = "none"
           /\ WellRanked(Ranked(rankOf, step, answer.rank))
           /\ SortSteps(Ranked(rankOf, step, answer.rank)) = Inserted(order, i, step)
<1> DEFINE n == Len(order)
           new == Ranked(rankOf, step, answer.rank)
           all == steps \union {step}
           result == Inserted(order, i, step)
<1>1. /\ answer.error = "none"
      /\ IsRank(answer.rank)
      /\ \A k \in DOMAIN order :
            IF k < i THEN Precedes(rankOf[order[k]], answer.rank)
            ELSE Precedes(answer.rank, rankOf[order[k]])
  <2> steps \ {step} \in SUBSET steps
    OBVIOUS
  <2> QED BY GapHasRoom
<1>2. /\ DOMAIN order = 1 .. n /\ n \in Nat
      /\ \A k \in DOMAIN order : order[k] \in steps /\ order[k] # step
      /\ \A s \in steps \ {step} : \E k \in DOMAIN order : order[k] = s
      /\ \A k, m \in DOMAIN order :
            k < m => Precedes(rankOf[order[k]], rankOf[order[m]])
  BY DEF IsOrderOf
<1>3. /\ DOMAIN new = all
      /\ new[step] = answer.rank
      /\ \A s \in steps : s # step => new[s] = rankOf[s]
  BY DEF Ranked, AreSteps
<1>4. answer.rank \in Seq(Digits) /\ \A s \in steps : rankOf[s] \in Seq(Digits)
  BY <1>1 DEF AreSteps, WellRanked, IsRank
<1>5. ASSUME NEW s \in steps, s # step
      PROVE  rankOf[s] # answer.rank
  <2>1. PICK k \in DOMAIN order : order[k] = s
    BY <1>2, <1>5
  <2>2. Precedes(rankOf[s], answer.rank) \/ Precedes(answer.rank, rankOf[s])
    BY <1>1, <2>1
  <2> QED BY <1>4, <2>2, NoneComesBeforeItself
<1>6. WellRanked(new)
  <2>1. \A s \in all : IsRank(new[s])
    BY <1>1, <1>3 DEF AreSteps, WellRanked
  <2>2. \A s, t \in all : s # t => new[s] # new[t]
    <3> SUFFICES ASSUME NEW s \in all, NEW t \in all, s # t PROVE new[s] # new[t]
      OBVIOUS
    <3>1. CASE s = step
      BY <1>3, <1>5, <3>1
    <3>2. CASE t = step
      BY <1>3, <1>5, <3>2
    <3>3. CASE s # step /\ t # step
      BY <1>3, <3>3 DEF AreSteps, WellRanked
    <3> QED BY <3>1, <3>2, <3>3
  <2> HIDE DEF new, all
  <2> QED BY <1>3, <2>1, <2>2 DEF WellRanked
<1>7. AreSteps(new, all)
  <2>1. IsFiniteSet(all)
    BY FS_AddElement DEF AreSteps
  <2>2. NoStep \notin all
    BY DEF AreSteps
  <2> HIDE DEF new, all
  <2> QED BY <1>3, <1>6, <2>1, <2>2 DEF AreSteps
<1> HIDE DEF n, new, all
<1>8. /\ result = [k \in 1 .. n + 1 |->
                      IF k < i THEN order[k] ELSE IF k = i THEN step ELSE order[k - 1]]
      /\ i \in 1 .. n + 1
  BY DEF Inserted, n
<1> HIDE DEF result
<1>9. \A k \in 1 .. n + 1 :
         /\ k < i => k \in DOMAIN order /\ result[k] = order[k]
         /\ k = i => result[k] = step
         /\ k > i => k - 1 \in DOMAIN order /\ result[k] = order[k - 1]
  BY <1>2, <1>8
<1>10. \A k \in 1 .. n + 1 : result[k] \in all
  <2> TAKE k \in 1 .. n + 1
  <2>1. k < i \/ k = i \/ k > i
    BY <1>2, <1>8
  <2> QED BY <1>2, <1>9, <2>1 DEF all
<1>11. result \in Seq(all) /\ DOMAIN result = 1 .. n + 1
  <2>1. result \in [1 .. n + 1 -> all] /\ n + 1 \in Nat
    BY <1>2, <1>8, <1>10
  <2> QED BY <2>1
<1>12. ASSUME NEW s \in all
       PROVE  \E k \in DOMAIN result : result[k] = s
  <2>1. CASE s = step
    BY <1>8, <1>9, <1>11, <2>1
  <2>2. CASE s # step
    <3>1. PICK k \in DOMAIN order : order[k] = s
      BY <1>2, <2>2 DEF all
    <3>2. CASE k < i
      <4>1. k \in 1 .. n + 1 /\ result[k] = s
        BY <1>2, <1>9, <3>1, <3>2
      <4> QED BY <1>11, <4>1
    <3>3. CASE ~(k < i)
      <4>1. k + 1 \in 1 .. n + 1 /\ k + 1 > i /\ (k + 1) - 1 = k
        BY <1>2, <1>8, <3>3
      <4>2. result[k + 1] = s
        BY <1>9, <3>1, <4>1
      <4> QED BY <1>11, <4>1, <4>2
    <3> QED BY <3>2, <3>3
  <2> QED BY <2>1, <2>2
<1>13. ASSUME NEW k \in DOMAIN result, NEW m \in DOMAIN result, k < m
       PROVE  Precedes(new[result[k]], new[result[m]])
  <2>1. k \in 1 .. n + 1 /\ m \in 1 .. n + 1 /\ k \in Nat /\ m \in Nat /\ i \in Nat
    BY <1>2, <1>8, <1>11
  <2>2. \A j \in DOMAIN order : new[order[j]] = rankOf[order[j]]
    BY <1>2, <1>3
  <2>3. CASE m < i
    <3>1. k < i
      BY <1>13, <2>1, <2>3
    <3> QED BY <1>2, <1>9, <1>13, <2>1, <2>2, <2>3, <3>1
  <2>4. CASE m = i
    <3>1. k < i
      BY <1>13, <2>4
    <3> QED BY <1>1, <1>3, <1>9, <2>1, <2>2, <2>4, <3>1
  <2>5. CASE m > i /\ k < i
    <3>1. k < m - 1
      BY <2>1, <2>5
    <3>2. /\ k \in DOMAIN order /\ result[k] = order[k]
          /\ m - 1 \in DOMAIN order /\ result[m] = order[m - 1]
      BY <1>9, <2>1, <2>5
    <3> QED BY <1>2, <2>2, <3>1, <3>2
  <2>6. CASE m > i /\ k = i
    <3>1. ~(m - 1 < i)
      BY <2>1, <2>6
    <3> QED BY <1>1, <1>3, <1>9, <2>1, <2>2, <2>6, <3>1
  <2>7. CASE m > i /\ k > i
    <3>1. k - 1 < m - 1
      BY <1>13, <2>1
    <3> QED BY <1>2, <1>9, <2>1, <2>2, <2>7, <3>1
  <2> QED BY <2>1, <2>3, <2>4, <2>5, <2>6, <2>7
<1>14. IsOrderOf(result, all, new)
  BY <1>11, <1>12, <1>13 DEF IsOrderOf
<1>15. result = SortSteps(new)
  BY <1>7, <1>14, SortStepsIsTheOrder
<1> QED BY <1>1, <1>6, <1>15 DEF new, result

-----------------------------------------------------------------------------
(* The edits.                                                              *)

\* The place of a Step in an order is the only one it has there.
LEMMA PlacesAreFound ==
    ASSUME NEW steps, NEW rankOf, NEW order, IsOrderOf(order, steps, rankOf),
           NoStep \notin steps, \A s \in steps : rankOf[s] \in Seq(Digits),
           NEW step \in steps, NEW atEnd
    PROVE  /\ PlaceOf(order, step, atEnd) \in DOMAIN order
           /\ order[PlaceOf(order, step, atEnd)] = step
           /\ \A i \in DOMAIN order : order[i] = step => PlaceOf(order, step, atEnd) = i
<1>1. step # NoStep
  OBVIOUS
<1>2. PICK i \in DOMAIN order : order[i] = step
  BY DEF IsOrderOf
<1>3. ASSUME NEW j \in DOMAIN order, NEW k \in DOMAIN order,
             order[j] = step, order[k] = step
      PROVE  j = k
  <2>1. DOMAIN order \in SUBSET Nat
    BY DEF IsOrderOf
  <2>2. ~(j < k) /\ ~(k < j)
    BY <1>3, NoneComesBeforeItself DEF IsOrderOf
  <2> QED BY <2>1, <2>2
<1>4. PlaceOf(order, step, atEnd) = CHOOSE j \in DOMAIN order : order[j] = step
  BY <1>1 DEF PlaceOf
<1>5. /\ PlaceOf(order, step, atEnd) \in DOMAIN order
      /\ order[PlaceOf(order, step, atEnd)] = step
  BY <1>2, <1>4
<1> QED BY <1>3, <1>5

\* A move puts its Step between the two neighbours the caller saw and leaves the
\* others as they were, or is refused because no such place is left: for any
\* Steps, ranks and neighbours (rankForMove, workflow.ts:130-154).
THEOREM MovesLand ==
    ASSUME NEW steps, NEW rankOf, AreSteps(rankOf, steps),
           NEW step \in steps,
           NEW after \in steps \union {NoStep},
           NEW before \in steps \union {NoStep}
    PROVE  MoveLandsWhereMeant(rankOf, step, after, before)
<1> DEFINE others == Others(rankOf, step)
           rest == steps \ {step}
           n == Len(others)
           left == PlaceOf(others, after, 0)
           right == PlaceOf(others, before, n + 1)
           answer == RankForMove(rankOf, step, after, before)
           meant == OrdersMeant(rankOf, step, after, before)
           Meant(i) == /\ after = IF i = 1 THEN NoStep ELSE others[i - 1]
                       /\ before = IF i > n THEN NoStep ELSE others[i]
<1>1. IsOrderOf(others, rest, rankOf)
  BY OthersAreInOrder
<1>2. DOMAIN rankOf = steps /\ step # NoStep
  BY DEF AreSteps
<1>3. meant = {Inserted(others, i, step) : i \in {j \in 1 .. n + 1 : Meant(j)}}
  BY DEF OrdersMeant
<1>4. answer = IF step \notin steps \/ ~({after, before} \subseteq rest \union {NoStep})
               THEN Refused("StepNotInWorkflow")
               ELSE IF right # left + 1 THEN Refused("StaleOrder")
               ELSE RankInGap(rankOf, others, left)
  BY <1>2 DEF RankForMove
<1>5. /\ Refused("StepNotInWorkflow").error # "none"
      /\ Refused("StaleOrder").error # "none"
  BY DEF Refused
<1>6. /\ n \in Nat /\ DOMAIN others = 1 .. n
      /\ \A i \in 1 .. n : others[i] \in rest
  BY <1>1 DEF IsOrderOf
<1>7. NoStep \notin rest /\ \A s \in rest : rankOf[s] \in Seq(Digits)
  BY DEF AreSteps, WellRanked, IsRank
<1>8. /\ after = NoStep => left = 0
      /\ before = NoStep => right = n + 1
  BY DEF PlaceOf
<1> HIDE DEF others
<1>9. ASSUME NEW i \in 1 .. n + 1, NEW placed, placed = RankInGap(rankOf, others, i - 1)
       PROVE  /\ placed.error = "none"
              /\ WellRanked(Ranked(rankOf, step, placed.rank))
              /\ SortSteps(Ranked(rankOf, step, placed.rank)) = Inserted(others, i, step)
  BY <1>1, <1>2, <1>9, EditLands
<1> HIDE DEF rest, n, left, right, answer, meant
<1>10. /\ after \in rest => /\ left \in 1 .. n /\ others[left] = after
                            /\ \A i \in 1 .. n : others[i] = after => left = i
       /\ before \in rest => /\ right \in 1 .. n /\ others[right] = before
                             /\ \A i \in 1 .. n : others[i] = before => right = i
  BY <1>1, <1>6, <1>7, PlacesAreFound DEF left, right
<1>11. CASE \E i \in 1 .. n + 1 : Meant(i)
  <2>1. PICK i \in 1 .. n + 1 : Meant(i)
    BY <1>11
  <2>2. i \in Nat /\ i >= 1 /\ i <= n + 1
    BY <1>6
  <2>3. left = i - 1 /\ after \in rest \union {NoStep}
    <3>1. CASE i = 1
      BY <1>8, <2>1, <3>1
    <3>2. CASE i # 1
      <4>1. i - 1 \in 1 .. n /\ after = others[i - 1]
        BY <1>6, <2>1, <2>2, <3>2
      <4> QED BY <1>6, <1>10, <4>1
    <3> QED BY <3>1, <3>2
  <2>4. right = i /\ before \in rest \union {NoStep}
    <3>1. CASE i > n
      <4>1. before = NoStep /\ i = n + 1
        BY <1>6, <2>1, <2>2, <3>1
      <4> QED BY <1>8, <4>1
    <3>2. CASE ~(i > n)
      <4>1. i \in 1 .. n /\ before = others[i]
        BY <1>6, <2>1, <2>2, <3>2
      <4> QED BY <1>6, <1>10, <4>1
    <3> QED BY <3>1, <3>2
  <2>5. right = left + 1
    BY <2>2, <2>3, <2>4
  <2>6. answer = RankInGap(rankOf, others, i - 1)
    BY <1>4, <2>3, <2>4, <2>5
  <2>7. /\ answer.error = "none"
        /\ WellRanked(Ranked(rankOf, step, answer.rank))
        /\ SortSteps(Ranked(rankOf, step, answer.rank)) = Inserted(others, i, step)
    BY <1>9, <2>6
  <2>8. Inserted(others, i, step) \in meant
    BY <1>3, <2>1
  <2> QED BY <2>7, <2>8 DEF MoveLandsWhereMeant, answer, meant
<1>12. CASE ~ \E i \in 1 .. n + 1 : Meant(i)
  <2>1. meant = {}
    BY <1>3, <1>12
  <2>2. answer.error # "none"
    <3> SUFFICES ASSUME after \in rest \union {NoStep}, before \in rest \union {NoStep},
                        right = left + 1
                 PROVE  FALSE
      BY <1>4, <1>5
    <3>1. right \in 1 .. n + 1
      BY <1>6, <1>8, <1>10
    <3>2. after = IF right = 1 THEN NoStep ELSE others[right - 1]
      <4>1. CASE after = NoStep
        BY <1>8, <4>1
      <4>2. CASE after \in rest
        <5>1. left \in Nat /\ left >= 1 /\ right - 1 = left /\ right # 1
          BY <1>6, <1>10, <4>2
        <5> QED BY <1>10, <4>2, <5>1
      <4> QED BY <4>1, <4>2
    <3>3. before = IF right > n THEN NoStep ELSE others[right]
      <4>1. CASE before = NoStep
        <5>1. right > n
          BY <1>6, <1>8, <4>1
        <5> QED BY <4>1, <5>1
      <4>2. CASE before \in rest
        <5>1. ~(right > n)
          BY <1>6, <1>10, <4>2
        <5> QED BY <1>10, <4>2, <5>1
      <4> QED BY <4>1, <4>2
    <3> QED BY <1>12, <3>1, <3>2, <3>3
  <2> QED BY <2>1, <2>2 DEF MoveLandsWhereMeant, answer, meant
<1> QED BY <1>11, <1>12

\* A new Step comes right after the Step the caller names, or first where it says
\* so, and leaves the others as they were (addWorkflowStep, dal/workflow.ts:568-583).
THEOREM InsertionsLand ==
    ASSUME NEW steps, NEW rankOf, AreSteps(rankOf, steps),
           NEW new, new \notin steps, new # NoStep,
           NEW after \in steps \union {NoStep}
    PROVE  InsertLandsWhereMeant(rankOf, new, after)
<1> DEFINE order == SortSteps(rankOf)
           n == Len(order)
           left == PlaceOf(order, after, 0)
           answer == RankForInsert(rankOf, after)
<1>1. IsOrderOf(order, steps, rankOf)
  BY SortStepsIsTheOrder
<1>2. IsOrderOf(order, steps \ {new}, rankOf)
  <2>1. steps \ {new} = steps
    OBVIOUS
  <2> QED BY <1>1, <2>1
<1>3. DOMAIN rankOf = steps
  BY DEF AreSteps
<1>4. n \in Nat /\ DOMAIN order = 1 .. n
  BY <1>1 DEF IsOrderOf
<1>5. NoStep \notin steps /\ \A s \in steps : rankOf[s] \in Seq(Digits)
  BY DEF AreSteps, WellRanked, IsRank
<1>6. answer = RankInGap(rankOf, order, left)
  BY <1>3 DEF RankForInsert
<1>7. after = NoStep => left = 0
  BY DEF PlaceOf
<1> HIDE DEF order, n, left, answer
<1>8. left \in 0 .. n
  <2>1. CASE after = NoStep
    BY <1>4, <1>7, <2>1
  <2>2. CASE after \in steps
    <3>1. left \in 1 .. n
      BY <1>1, <1>4, <1>5, <2>2, PlacesAreFound DEF left
    <3> QED BY <1>4, <3>1
  <2> QED BY <2>1, <2>2
<1>9. left + 1 \in 1 .. n + 1 /\ (left + 1) - 1 = left
  BY <1>4, <1>8
<1>10. /\ answer.error = "none"
       /\ WellRanked(Ranked(rankOf, new, answer.rank))
       /\ SortSteps(Ranked(rankOf, new, answer.rank)) = Inserted(order, left + 1, new)
  BY <1>2, <1>6, <1>9, EditLands DEF n
<1> QED BY <1>10 DEF InsertLandsWhereMeant, order, left, answer

\* A new Step whose place nobody named comes last (addWorkflowStep,
\* dal/workflow.ts:584, appendRank).
THEOREM AppendsLand ==
    ASSUME NEW steps, NEW rankOf, AreSteps(rankOf, steps),
           NEW new, new \notin steps, new # NoStep
    PROVE  AppendLandsLast(rankOf, new)
<1> DEFINE order == SortSteps(rankOf)
           n == Len(order)
           answer == RankForAppend(rankOf)
<1>1. IsOrderOf(order, steps \ {new}, rankOf)
  <2>1. steps \ {new} = steps
    OBVIOUS
  <2> QED BY <2>1, SortStepsIsTheOrder
<1>2. n \in Nat /\ DOMAIN order = 1 .. n
  BY <1>1 DEF IsOrderOf
<1>3. answer = RankBetween(RankAt(rankOf, order, n), NoRank)
  BY DEF RankForAppend, AppendRank
<1> HIDE DEF order, n, answer
<1>4. n + 1 \notin DOMAIN order /\ n + 1 \in 1 .. n + 1 /\ (n + 1) - 1 = n
  BY <1>2
<1>5. answer = RankInGap(rankOf, order, (n + 1) - 1)
  BY <1>3, <1>4 DEF RankInGap, RankAt
<1>6. /\ answer.error = "none"
      /\ WellRanked(Ranked(rankOf, new, answer.rank))
      /\ SortSteps(Ranked(rankOf, new, answer.rank)) = Inserted(order, n + 1, new)
  BY <1>1, <1>4, <1>5, EditLands DEF n
<1> QED BY <1>6 DEF AppendLandsLast, order, n, answer
=============================================================================
