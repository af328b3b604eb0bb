----------------------------- MODULE MCRunSlots -----------------------------
(***************************************************************************)
(* Instances of RunSlots. Two Tasks, one on a Workflow, compete for one    *)
(* slot; a Task can have a run asleep and another at work.                 *)
(***************************************************************************)
EXTENDS RunSlots, TLC

\* The runs of a Task differ in nothing but what they do.
RunsAlike == Permutations(Runs)

\* Enough starts for a Task to park, be retried and be decided on while the
\* other competes, and for one person to interfere.
FewBounds ==
    [starts |-> 3, overrides |-> 1, rollbacks |-> 1, redeliveries |-> 1,
     deaths |-> 1]

\* One Task: what each disagreement needs and nothing beyond it.
Nothing == [b \in Bounded |-> 0]
OneStart == [Nothing EXCEPT !["starts"] = 1]
OneRetry == [Nothing EXCEPT !["starts"] = 2]
OneRedelivery == [OneStart EXCEPT !["redeliveries"] = 1]
OneDeath == [OneStart EXCEPT !["deaths"] = 1]
=============================================================================
