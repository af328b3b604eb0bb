--------------------------- MODULE MCWorkflowRun ---------------------------
(***************************************************************************)
(* Instances of WorkflowRun: small definitions and what a harness may      *)
(* declare on them.                                                        *)
(***************************************************************************)
EXTENDS WorkflowRun, StepOrder

Step(gate, advanceOn, when, then, else) ==
    [gate |-> gate, advanceOn |-> advanceOn, when |-> when,
     then |-> then, else |-> else]

\* A Step that only a question to the reviewer stops, then one that ends the
\* Workflow, or sends the Task back when it changed files.
LoopingSteps ==
    <<Step("auto", "agent-signal", "next", End, End),
      Step("agent-decides", "agent-signal", "produced-changes", 1, End)>>

\* The same with a person at the first gate.
GatedSteps ==
    <<Step("human", "agent-signal", "next", End, End),
      Step("agent-decides", "agent-signal", "produced-changes", 1, End)>>

\* An automatic first Step that ends the Workflow unless it changed files.
BranchingSteps ==
    <<Step("auto", "agent-signal", "produced-changes", 2, End),
      Step("human", "agent-signal", "next", End, End)>>

Answers(yes, waives) == [said |-> TRUE, yes |-> yes, waives |-> waives]

\* A harness that asked the reviewer a decision, wrote files and declared
\* nothing; one that waives its review; one that gives up.
FewReports ==
    {[claim |-> [account |-> Silent, outcome |-> "none"],
      asks |-> TRUE, wrote |-> TRUE],
     [claim |-> [account |-> Answers(FALSE, TRUE), outcome |-> "nothing_to_do"],
      asks |-> FALSE, wrote |-> FALSE],
     [claim |-> [account |-> Answers(TRUE, FALSE), outcome |-> "blocked"],
      asks |-> FALSE, wrote |-> FALSE]}

\* A harness that declares nothing and writes nothing.
SilentReports ==
    {[claim |-> [account |-> Silent, outcome |-> "none"],
      asks |-> FALSE, wrote |-> FALSE]}

\* Two decisions, each able to find a gate of the other's; two rounds, so that
\* a second Step runs; a retry; one fault and one call from outside.
FewBounds == [reviews |-> 2, rounds |-> 2, starts |-> 2, faults |-> 1, calls |-> 1]

\* One decision and what each disagreement needs beyond it.
OneDecision == [reviews |-> 1, rounds |-> 2, starts |-> 1, faults |-> 0, calls |-> 0]
OneRestart == [reviews |-> 1, rounds |-> 1, starts |-> 1, faults |-> 1, calls |-> 0]

-----------------------------------------------------------------------------
\* The order of the Steps, over ranks of up to three digits from both ends of
\* the alphabet and its middle, and lists of up to three Steps whose ranks are
\* close: one digit apart, one a prefix of the other, ending in the highest.
FewDigits == {0, 1, 31, 60, 61}
FewRanks == {rank \in UNION {[1 .. n -> FewDigits] : n \in 1 .. 3} : IsRank(rank)}
CloseRanks == {<<1>>, <<1, 1>>, <<1, 0, 1>>, <<2>>, <<61>>, <<61, 61>>}
FewLists ==
    {rankOf \in UNION {[1 .. n -> CloseRanks] : n \in 0 .. 3} : WellRanked(rankOf)}

\* Every edit of the order puts its Step where the person saw it go, however
\* narrow the gap, and a gap never closes (packages/core/src/workflow.ts:63-154).
EditsLandWhereMeant ==
    /\ \A before, after \in FewRanks \union {NoRank} : RankFallsBetween(before, after)
    /\ \A rankOf \in FewLists :
          /\ \A step \in DOMAIN rankOf, after, before \in DOMAIN rankOf \union {NoStep} :
                MoveLandsWhereMeant(rankOf, step, after, before)
          /\ \A after \in DOMAIN rankOf \union {NoStep} :
                InsertLandsWhereMeant(rankOf, Len(rankOf) + 1, after)
          /\ AppendLandsLast(rankOf, Len(rankOf) + 1)

\* A fact of the constants: TLC evaluates it before the first state.
ASSUME EditsAssumption == EditsLandWhereMeant
=============================================================================
