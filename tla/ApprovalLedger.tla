--------------------------- MODULE ApprovalLedger ---------------------------
(***************************************************************************)
(* What the ledger of review decisions promises a Task (packages/db/src/   *)
(* workflow-run.ts): only the newest decision counts, an approval opens    *)
(* one gate, and a decision made since takes its place, spent or not. The  *)
(* code keeps rows, and the id of the approval spent last in a column of   *)
(* the Task; WorkflowRun shows that they behave like this, until a         *)
(* decision is taken back or the column is cleared.                        *)
(***************************************************************************)
EXTENDS Naturals

CONSTANT Decisions  \* their ids, 1 .. n in the order they are made

VARIABLES
    newest,    \* the newest decision, 0 before there is one
    approves,  \* whether it is an approval
    opened,    \* the gates each decision has opened
    void       \* nothing is promised any more

vars == <<newest, approves, opened, void>>

Init ==
    /\ newest = 0
    /\ approves = FALSE
    /\ opened = [d \in Decisions |-> 0]
    /\ void = FALSE

Decide ==
    /\ newest' = newest + 1
    /\ newest' \in Decisions
    /\ approves' \in BOOLEAN
    /\ UNCHANGED <<opened, void>>

OpenGate ==
    /\ approves
    /\ opened[newest] = 0
    /\ opened' = [opened EXCEPT ![newest] = 1]
    /\ UNCHANGED <<newest, approves, void>>

\* A decision is taken back, or what was spent is forgotten.
Lapse ==
    /\ void' = TRUE
    /\ UNCHANGED <<newest, approves, opened>>

Lapsed == void /\ UNCHANGED void

Next == Decide \/ OpenGate \/ Lapse \/ Lapsed

Spec == Init /\ [][Next]_vars
=============================================================================
