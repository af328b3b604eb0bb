----------------------------- MODULE MCTaskTree -----------------------------
(***************************************************************************)
(* An instance of TaskTree: three Tasks of one Issue and one of another.   *)
(***************************************************************************)
EXTENDS TaskTree, TLC

CONSTANTS A, B, C, D

TwoIssues == [t \in {A, B, C, D} |-> IF t = D THEN "second" ELSE "first"]

Mix(links, edges, deletes, restores, ticks) ==
    [links |-> links, edges |-> edges, deletes |-> deletes,
     restores |-> restores, ticks |-> ticks]

\* Links with restores that overtake one another; edges with a delete; an edge
\* that comes late to a restore, or to the sweep; the sweep with a restore and
\* a second delete.
FewMixes == {Mix(2, 0, 2, 2, 0), Mix(0, 2, 1, 0, 0), Mix(0, 1, 1, 1, 0),
             Mix(0, 1, 1, 0, 2), Mix(0, 0, 2, 1, 3)}

\* The Tasks of one Issue may change places.
Alike == Permutations({A, B, C})
=============================================================================
