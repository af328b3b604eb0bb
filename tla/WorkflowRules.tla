--------------------------- MODULE WorkflowRules ---------------------------
(***************************************************************************)
(* The pure rules of a Workflow (packages/core/src/workflow.ts): what a    *)
(* Step's gate asks for, where a Step sends the Task, and what finishing a *)
(* Step does to the cursor.                                                *)
(*                                                                         *)
(* A definition is a sequence of Steps in rank order and a Step's id is    *)
(* its place in that order. The end of the pipeline, a null exit in the    *)
(* code, is End. What a harness said about its Step is an account: whether *)
(* it said anything, and its answers on the two lines the rules read       *)
(* ("DECISION: yes" takes the branch, "REVIEW: no" waives the review).     *)
(***************************************************************************)
EXTENDS Naturals, Sequences, FiniteSets

End == 0

Gates == {"human", "auto", "auto-unless-changes", "agent-decides"}
Signals == {"agent-signal", "review"}
Outcomes == {"changes_ready", "nothing_to_do", "blocked"}
Statuses == {"held", "awaiting-decision", "advanced", "completed"}

\* "next" is a Step without a branch; the other values are branch conditions,
\* an outcome standing for the condition "the declared outcome is this one".
Conditions == {"next", "agent-decides", "produced-changes"} \union Outcomes

Account == [said : BOOLEAN, yes : BOOLEAN, waives : BOOLEAN]
Silent == [said |-> FALSE, yes |-> FALSE, waives |-> FALSE]

\* What a definition may be: branch targets name a Step of it or the end, and
\* never the Step itself (checkBranchTargets refuses BranchTargetIsSelf).
StepRule == [gate : Gates, advanceOn : Signals, when : Conditions,
             then : Nat, else : Nat]
IsDefinition(steps) ==
    /\ steps \in Seq(StepRule) \ {<<>>}
    /\ \A i \in 1 .. Len(steps) :
          {steps[i].then, steps[i].else} \subseteq (0 .. Len(steps)) \ {i}

-----------------------------------------------------------------------------
\* A review forced on the Step, or decisions it asked, stop it whatever its
\* gate says; then the gate decides.
ReviewNeeded(gate, o) ==
    \/ o.forced
    \/ o.asked
    \/ gate = "human"
    \/ gate = "auto-unless-changes" /\ o.producedChanges
    \/ gate = "agent-decides" /\ ~o.account.waives

ConditionHolds(when, o) ==
    \/ when = "agent-decides" /\ o.account.yes
    \/ when = "produced-changes" /\ o.producedChanges
    \/ when \in Outcomes /\ o.outcome = when

RankSuccessor(steps, i) == IF i < Len(steps) THEN i + 1 ELSE End

StepExits(steps, i) ==
    IF steps[i].when = "next" THEN {RankSuccessor(steps, i)}
                              ELSE {steps[i].then, steps[i].else}

CanEnd(steps, i) == End \in StepExits(steps, i)

Exit(steps, i, o) ==
    IF steps[i].when = "next" THEN RankSuccessor(steps, i)
    ELSE IF ConditionHolds(steps[i].when, o) THEN steps[i].then
    ELSE steps[i].else

\* An approval is spent by the move that needed it, and by the move a review
\* triggered.
SpendsApproval(o, needed) ==
    needed \/ (o.signal = "review" /\ o.unspent)

\* The last Step never consults its gate: it completes on an approval nobody
\* has spent, or again on the one this very call spent.
CompletesOnlyUnspent(o) == o.unspent

CompletesUnasked(o) == TRUE

MayComplete(o) == o.unspent \/ o.spentHere

\* A Step that ends the Workflow keeps the cursor: a replay finds it there.
LandsOnExit(i, exit) == exit

Lands(i, exit) == IF exit = End THEN i ELSE exit

AdvanceStep(steps, i, o) ==
    LET exit   == Exit(steps, i, o)
        needed == ReviewNeeded(steps[i].gate, o)
        stay(status) == [status |-> status, step |-> i, spends |-> FALSE]
        cross(status, spends) ==
            [status |-> status, step |-> Lands(i, exit), spends |-> spends]
    IN  IF o.signal # steps[i].advanceOn THEN stay("held")
        ELSE IF exit = End
        THEN IF MayComplete(o) THEN cross("completed", o.unspent)
                               ELSE stay("awaiting-decision")
        ELSE IF needed /\ ~o.unspent
             THEN stay("awaiting-decision")
             ELSE cross("advanced", SpendsApproval(o, needed))

\* Why the round that applied a reviewer's decisions must go back to its gate
\* rather than advance: it asked new ones, or it gave up, or the Step can end
\* the Workflow and nobody has seen this round's work.
HoldAfterApplying(steps, i, outcome, asks) ==
    asks \/ outcome = "blocked" \/ CanEnd(steps, i)
=============================================================================
