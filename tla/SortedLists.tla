---------------------------- MODULE SortedLists ----------------------------
(***************************************************************************)
(* Lists by what they hold and in which order, without recursion: a set in *)
(* the order of a relation, and the members of a list at some of its       *)
(* places.                                                                 *)
(***************************************************************************)
EXTENDS Naturals, FiniteSets

\* How many come before e.
Rank(e, S, R) == Cardinality({f \in S : <<f, e>> \in R})

\* The members of a finite set, R a strict total order of them: ORDER BY.
Sorted(S, R) == [i \in 1 .. Cardinality(S) |-> CHOOSE e \in S : Rank(e, S, R) = i - 1]

\* The members of a list at some places, in the list's own order: filter.
Ascending(I) == {p \in I \X I : p[1] < p[2]}
Picked(list, I) ==
    LET places == Sorted(I, Ascending(I))
    IN  [k \in DOMAIN places |-> list[places[k]]]
=============================================================================
