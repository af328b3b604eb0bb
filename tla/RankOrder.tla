----------------------------- MODULE RankOrder -----------------------------
(***************************************************************************)
(* The ranks that order a Workflow's Steps (packages/core/src/workflow.ts):*)
(* strings in base 62 in dictionary order, with always another one between *)
(* any two.                                                                *)
(*                                                                         *)
(* A rank is a sequence of digits. The code's null neighbour, an end of    *)
(* the list, is NoRank: it is also what the code takes a null `before`     *)
(* for.                                                                    *)
(***************************************************************************)
EXTENDS Naturals, Sequences, FiniteSetsExt

RankBase == 62
Digits == 0 .. RankBase - 1
LowestDigit == 0
NoRank == <<>>

\* No rank ends in the lowest digit.
IsRank(rank) ==
    /\ rank \in Seq(Digits) \ {NoRank}
    /\ rank[Len(rank)] # LowestDigit

Placed(rank) == [error |-> "none", rank |-> rank]
Refused(error) == [error |-> error, rank |-> NoRank]

-----------------------------------------------------------------------------
\* Dictionary order: the first difference decides, and a prefix comes first.
Precedes(a, b) ==
    \E i \in 1 .. Len(b) :
        /\ i <= Len(a) + 1
        /\ \A k \in 1 .. i - 1 : a[k] = b[k]
        /\ i = Len(a) + 1 \/ a[i] < b[i]

\* A missing digit reads as the lowest.
DigitAt(rank, i) == IF i <= Len(rank) THEN rank[i] ELSE LowestDigit
Midpoint(low, high) == (low + high + 1) \div 2

\* The digits of a rank before place i, then this one.
EndingAt(rank, i, digit) ==
    [k \in 1 .. i |-> IF k = i THEN digit ELSE DigitAt(rank, k)]

\* Where two ranks differ, and where room is left below the base from a place on.
PlacesApart(before, after) == {i \in 1 .. Len(after) : DigitAt(before, i) # after[i]}
PlacesWithRoom(before, from) ==
    {i \in from .. from + Len(before) : RankBase - DigitAt(before, i) > 1}

\* The descent once nothing bounds it from above: past the highest digits of
\* `before`, half way from the next one to the base.
Above(before, from) ==
    LET i == Min(PlacesWithRoom(before, from))
    IN EndingAt(before, i, Midpoint(DigitAt(before, i), RankBase))

\* The first round of the descent, at the place where the two differ: half way
\* between the digits; or that of `after`, if `after` goes on; or the descent.
Between(before, after, i) ==
    LET low == DigitAt(before, i)
        high == after[i] IN
    IF high - low > 1 THEN EndingAt(before, i, Midpoint(low, high))
    ELSE IF Len(after) > i THEN EndingAt(before, i, high)
    ELSE Above(before, i + 1)

\* rankBetween: a rank strictly between two neighbours.
RankBetween(before, after) ==
    IF after = NoRank THEN Placed(Above(before, 1))
    ELSE IF ~Precedes(before, after) \/ PlacesApart(before, after) = {}
    THEN Refused("StaleOrder")
    ELSE Placed(Between(before, after, Min(PlacesApart(before, after))))

\* appendRank: after the last Step there is always room.
AppendRank(last) == RankBetween(last, NoRank)

-----------------------------------------------------------------------------
\* Between any two neighbours in order there is a rank, strictly between them
\* and again one that does not end in the lowest digit, so that the next
\* insertion into the same gap finds one too (workflow.ts:38-43, 63-103).
RankFallsBetween(before, after) ==
    LET answer == RankBetween(before, after) IN
    after = NoRank \/ Precedes(before, after) =>
        /\ answer.error = "none"
        /\ IsRank(answer.rank)
        /\ Precedes(before, answer.rank)
        /\ after = NoRank \/ Precedes(answer.rank, after)
=============================================================================
