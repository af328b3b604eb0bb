----------------------------- MODULE MCDelivery -----------------------------
(***************************************************************************)
(* An instance of Delivery: two Repositories of mixed kinds.               *)
(***************************************************************************)
EXTENDS Delivery, TLC

CONSTANTS A, B

Mix(rounds, refusals, asks, crashes) ==
    [rounds |-> rounds, refusals |-> refusals, asks |-> asks,
     crashes |-> crashes]

\* Two that are pushed, one of which the harness commits on itself; and two that
\* are not. Two rounds and a crash, or two refusals and two clicks.
FewKinds == {[r \in {A, B} |-> IF r = A THEN "cloned" ELSE "worktree"],
             [r \in {A, B} |-> IF r = A THEN "named" ELSE "local"]}
FewMixes == {Mix(2, 1, 1, 1), Mix(1, 2, 2, 1)}
=============================================================================
