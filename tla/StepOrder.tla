----------------------------- MODULE StepOrder -----------------------------
(***************************************************************************)
(* Adding and moving the Steps of a Workflow (packages/core/src/           *)
(* workflow.ts, dal/workflow.ts): an edit writes the rank of one Step and  *)
(* no other.                                                               *)
(*                                                                         *)
(* The writes happen in immediate transactions of SQLite, so no other edit *)
(* falls between a read and its write; what a person saw and another has   *)
(* changed since is refused as stale.                                      *)
(***************************************************************************)
EXTENDS RankOrder, SortedLists

NoStep == 0

\* Steps are a function from their ids to their ranks, of which no two agree
\* (the unique index on (workflow_id, rank)).
WellRanked(rankOf) ==
    \A s \in DOMAIN rankOf :
        IsRank(rankOf[s]) /\ \A t \in DOMAIN rankOf \ {s} : rankOf[s] # rankOf[t]

\* sortSteps
Earlier(rankOf) ==
    LET steps == DOMAIN rankOf
    IN  {p \in steps \X steps : Precedes(rankOf[p[1]], rankOf[p[2]])}
SortSteps(rankOf) == Sorted(DOMAIN rankOf, Earlier(rankOf))

\* The Steps in order without one of them.
Others(rankOf, step) ==
    LET order == SortSteps(rankOf)
    IN  Picked(order, {i \in DOMAIN order : order[i] # step})

\* The ranks around the gap after place i of an order, the ends included.
RankAt(rankOf, order, i) ==
    IF i \in DOMAIN order THEN rankOf[order[i]] ELSE NoRank
RankInGap(rankOf, order, i) ==
    RankBetween(RankAt(rankOf, order, i), RankAt(rankOf, order, i + 1))

\* The place of a named Step in an order, or the one given for no Step named.
PlaceOf(order, step, atEnd) ==
    IF step = NoStep THEN atEnd ELSE CHOOSE i \in DOMAIN order : order[i] = step

\* rankForMove: both neighbours are Steps of the list without the moved one,
\* and adjacent in it now.
RankForMove(rankOf, step, after, before) ==
    LET others == Others(rankOf, step)
        known == DOMAIN rankOf \ {step}
        left == PlaceOf(others, after, 0)
        right == PlaceOf(others, before, Len(others) + 1) IN
    IF step \notin DOMAIN rankOf \/ ~({after, before} \subseteq known \union {NoStep})
    THEN Refused("StepNotInWorkflow")
    ELSE IF right # left + 1 THEN Refused("StaleOrder")
    ELSE RankInGap(rankOf, others, left)

\* The rank a new Step takes: at the head, or right after a Step.
RankForInsert(rankOf, after) ==
    LET order == SortSteps(rankOf) IN
    IF after \notin DOMAIN rankOf \union {NoStep}
    THEN Refused("StepNotInWorkflow")
    ELSE RankInGap(rankOf, order, PlaceOf(order, after, 0))

\* The rank it takes where the caller names no place: past the last.
RankForAppend(rankOf) ==
    LET order == SortSteps(rankOf)
    IN  AppendRank(RankAt(rankOf, order, Len(order)))

\* The Steps with the rank that an edit wrote.
Ranked(rankOf, step, rank) ==
    [s \in DOMAIN rankOf \union {step} |-> IF s = step THEN rank ELSE rankOf[s]]

-----------------------------------------------------------------------------
\* An order with one more Step, at place i.
Inserted(order, i, step) ==
    [k \in 1 .. Len(order) + 1 |->
        IF k < i THEN order[k] ELSE IF k = i THEN step ELSE order[k - 1]]

\* The orders a caller can mean by these neighbours: the other Steps as they
\* stand, with the Step between the two that it names.
OrdersMeant(rankOf, step, after, before) ==
    LET others == Others(rankOf, step) IN
    {Inserted(others, i, step) :
        i \in {j \in 1 .. Len(others) + 1 :
                  /\ after = IF j = 1 THEN NoStep ELSE others[j - 1]
                  /\ before = IF j > Len(others) THEN NoStep ELSE others[j]}}

\* A move lands between the neighbours it names and disturbs no other Step, or
\* is refused; and it is refused when, and only when, no order of the Steps as
\* they are now is the one the caller saw (workflow.ts:122-154).
MoveLandsWhereMeant(rankOf, step, after, before) ==
    LET answer == RankForMove(rankOf, step, after, before)
        meant == OrdersMeant(rankOf, step, after, before) IN
    IF meant = {} THEN answer.error # "none"
    ELSE /\ answer.error = "none"
         /\ WellRanked(Ranked(rankOf, step, answer.rank))
         /\ SortSteps(Ranked(rankOf, step, answer.rank)) \in meant

\* A new Step comes right after the Step it names, or first, and last where it
\* names none; the others stay as they were (dal/workflow.ts:568-585).
InsertLandsWhereMeant(rankOf, new, after) ==
    LET order == SortSteps(rankOf)
        answer == RankForInsert(rankOf, after) IN
    /\ answer.error = "none"
    /\ WellRanked(Ranked(rankOf, new, answer.rank))
    /\ SortSteps(Ranked(rankOf, new, answer.rank))
         = Inserted(order, PlaceOf(order, after, 0) + 1, new)
AppendLandsLast(rankOf, new) ==
    LET order == SortSteps(rankOf)
        answer == RankForAppend(rankOf) IN
    /\ answer.error = "none"
    /\ WellRanked(Ranked(rankOf, new, answer.rank))
    /\ SortSteps(Ranked(rankOf, new, answer.rank)) = Inserted(order, Len(order) + 1, new)
=============================================================================
