------------------------ MODULE WorkflowRun_proofs ------------------------
(***************************************************************************)
(* Proofs about WorkflowRun, for every definition, every set of reports    *)
(* and every bound: the types, that a decision is applied by one run, that *)
(* an approval is spent on one crossing, and that a crossing is kept.      *)
(***************************************************************************)
EXTENDS WorkflowRun, WellFoundedInduction, TLAPS

USE StepsAssumption, ReportsAssumption, BoundsAssumption

-----------------------------------------------------------------------------
(* The definition.                                                         *)

LEMMA DefinitionShape ==
    /\ Len(Steps) \in Nat \ {0}
    /\ 1 \in StepIds
    /\ \A i \in StepIds : Steps[i] \in StepRule
    /\ \A i \in StepIds : {Steps[i].then, Steps[i].else} \subseteq {End} \union StepIds
  <1>1. Steps \in Seq(StepRule) /\ Steps # <<>>
    BY DEF IsDefinition
  <1>2. Len(Steps) \in Nat /\ Len(Steps) # 0
    BY <1>1
  <1>3. \A i \in StepIds : Steps[i] \in StepRule
    BY <1>1 DEF StepIds
  <1>4. \A i \in StepIds : {Steps[i].then, Steps[i].else} \subseteq 0 .. Len(Steps)
    BY DEF IsDefinition, StepIds
  <1> QED BY <1>2, <1>3, <1>4 DEF StepIds, End

LEMMA ExitIsAStep ==
    ASSUME NEW i \in StepIds, NEW o
    PROVE  Exit(Steps, i, o) \in {End} \union StepIds
  <1>1. RankSuccessor(Steps, i) \in {End} \union StepIds
    BY DefinitionShape DEF RankSuccessor, StepIds, End
  <1>2. Steps[i].then \in {End} \union StepIds /\ Steps[i].else \in {End} \union StepIds
    BY DefinitionShape
  <1> QED BY <1>1, <1>2 DEF Exit

\* What advanceWorkflowStep answers: a status, a Step of the definition, and an
\* approval spent only where there is an unspent one.
LEMMA AdvanceStepAnswers ==
    ASSUME NEW i \in StepIds, NEW o, o.unspent \in BOOLEAN
    PROVE  LET a == AdvanceStep(Steps, i, o)
           IN  /\ a.status \in Statuses
               /\ a.step \in StepIds
               /\ a.spends \in BOOLEAN
               /\ a.spends => o.unspent
               /\ a.spends => a.status \in {"advanced", "completed"}
               /\ a.status = "completed" => a.spends \/ o.spentHere
  <1>1. Exit(Steps, i, o) \in {End} \union StepIds
    BY ExitIsAStep
  <1>2. CASE o.signal # Steps[i].advanceOn
    BY <1>2 DEF AdvanceStep, Statuses
  <1>3. CASE o.signal = Steps[i].advanceOn /\ Exit(Steps, i, o) = End
    BY <1>3 DEF AdvanceStep, Lands, Statuses, MayComplete
  <1>4. CASE o.signal = Steps[i].advanceOn /\ Exit(Steps, i, o) # End
    BY <1>1, <1>4 DEF AdvanceStep, Lands, Statuses, SpendsApproval
  <1> QED BY <1>2, <1>3, <1>4

-----------------------------------------------------------------------------
(* The shared transaction.                                                 *)

\* A nonempty set of ids has a greatest one.
LEMMA MaxIsGreatest ==
    ASSUME NEW n \in Nat, NEW S \in SUBSET (1 .. n), S # {}
    PROVE  Max(S) \in S /\ \A x \in S : x <= Max(S)
  <1> DEFINE T == {n - x : x \in S}
             R == OpToRel(<, Nat)
  <1>0. \A x \in S : x \in Int /\ n - x \in Nat
    OBVIOUS
  <1>1. T \subseteq Nat /\ T # {}
    BY <1>0
  <1>2. PICK m \in T : \A y \in T : ~(<<y, m>> \in R)
    <2> HIDE DEF T, R
    <2> QED BY <1>1, WFMin, NatLessThanWellFounded DEF R
  <1>3. \A y \in Nat : y < m => <<y, m>> \in R
    <2>1. R = {ss \in Nat \X Nat : ss[1] < ss[2]}
      BY Zenon DEF OpToRel
    <2> QED BY <1>1, <2>1
  <1>4. PICK x \in S : m = n - x
    OBVIOUS
  <1>5. \A y \in S : x >= y
    <2> SUFFICES ASSUME NEW y \in S PROVE x >= y
      OBVIOUS
    <2>1. n - y \in T /\ n - y \in Nat
      BY <1>0
    <2>2. ~(n - y < m)
      <3> HIDE DEF R, T
      <3> QED BY <1>2, <1>3, <2>1
    <2> QED BY <1>0, <1>4, <2>2
  <1>6. \A y \in S : Max(S) >= y /\ Max(S) \in S
    <2> HIDE DEF T, R
    <2> QED BY <1>5 DEF Max
  <1> QED BY <1>0, <1>6

LEMMA ReviewIdsAreNumbers ==
    /\ \A r \in ReviewIds : r \in Nat /\ r > 0
    /\ \A r \in ReviewRef : r \in Nat /\ (r # NoReview => r > 0)
  BY DEF ReviewIds, ReviewRef, NoReview, Bounded

LEMMA LatestIsAReview ==
    ASSUME reviews \subseteq ReviewIds
    PROVE  /\ LatestId \in ReviewRef
           /\ LatestApproves \in BOOLEAN
           /\ LatestApproves => LatestId \in ReviewIds
           /\ \A r \in reviews : r <= LatestId
  <1>1. CASE reviews = {}
    BY <1>1 DEF LatestId, LatestApproves, ReviewRef, NoReview
  <1>2. CASE reviews # {}
    <2>1. LatestId \in reviews /\ \A r \in reviews : r <= LatestId
      BY <1>2, MaxIsGreatest DEF LatestId, ReviewIds, Bounded
    <2> QED BY <2>1 DEF LatestApproves, ReviewRef
  <1> QED BY <1>1, <1>2

\* What advanceTaskWorkflow answers, whoever calls it.
AnswerOK(a) ==
    /\ a.status \in Statuses \union {"stale"}
    /\ a.step \in StepIds
    /\ a.spends \in BOOLEAN
    /\ a.spends => UnspentApproval /\ LatestId \in ReviewIds
    /\ a.spends => a.status \in {"advanced", "completed"}

LEMMA AnswerIsOK ==
    ASSUME TypeOK, NEW from, NEW signal, NEW claim, NEW call, NEW round
    PROVE  LET a == Answer(from, signal, claim, call, round)
           IN  /\ AnswerOK(a)
               /\ a.status = "completed" =>
                     a.spends \/ AlreadySpentBy(Here(call, round))
  <1> DEFINE o == StepOutcome(signal, claim, Here(call, round))
             b == AdvanceStep(Steps, task.cursor, o)
  <1>1. /\ task.cursor \in StepIds
        /\ LatestApproves \in BOOLEAN /\ LatestApproves => LatestId \in ReviewIds
    BY LatestIsAReview DEF TypeOK, TaskRow
  <1>2. /\ o.unspent = UnspentApproval
        /\ o.spentHere = AlreadySpentBy(Here(call, round))
    BY DEF StepOutcome
  <1>3. UnspentApproval \in BOOLEAN
    BY <1>1 DEF UnspentApproval
  <1>4. /\ b.status \in Statuses
        /\ b.step \in StepIds
        /\ b.spends \in BOOLEAN
        /\ b.spends => o.unspent
        /\ b.spends => b.status \in {"advanced", "completed"}
        /\ b.status = "completed" => b.spends \/ o.spentHere
    BY <1>1, <1>2, <1>3, AdvanceStepAnswers
  <1>5. CASE NamesCursor(from)
    <2>1. Answer(from, signal, claim, call, round) = b
      BY <1>5 DEF Answer
    <2>2. b.spends => UnspentApproval /\ LatestId \in ReviewIds
      BY <1>1, <1>2, <1>4 DEF UnspentApproval
    <2> QED BY <1>2, <1>4, <2>1, <2>2 DEF AnswerOK
  <1>6. CASE ~NamesCursor(from)
    BY <1>1, <1>6 DEF Answer, AnswerOK, Statuses
  <1> QED BY <1>5, <1>6

LEMMA WriteAnswerTyped ==
    ASSUME TypeOK, NEW a, AnswerOK(a), NEW claim \in Claim,
           NEW call \in CallName, NEW round \in Nat,
           WriteAnswer(a, claim, call, round)
    PROVE  task' \in TaskRow /\ spent' \in [ReviewIds -> Nat]
  <1>1. Reported(claim) \in Account /\ Silent \in Account
    BY DEF TypeOK, TaskRow, Reported, Claim, Account, Silent
  <1>2. Here(call, round) \in SpentHere /\ a.step \in StepIds
    BY DEF AnswerOK, TypeOK, TaskRow, Here, SpentHere
  <1>3. a.spends => LatestId \in ReviewIds /\ LatestId \in ReviewRef
    BY DEF AnswerOK, ReviewRef
  <1>4. task' \in TaskRow
    BY <1>1, <1>2, <1>3 DEF WriteAnswer, TypeOK, TaskRow
  <1>5. spent' \in [ReviewIds -> Nat]
    BY <1>3 DEF WriteAnswer, TypeOK
  <1> QED BY <1>4, <1>5

-----------------------------------------------------------------------------
(* Types.                                                                  *)

LEMMA BoundSpent ==
    ASSUME TypeOK, NEW bound \in Bounded, Spend(bound)
    PROVE  /\ used' \in [Bounded -> Nat]
           /\ \A b \in Bounded : used'[b] <= Bounds[b]
           /\ DecisionsMade <= DecisionsMade'
           /\ bound = "reviews" =>
                 /\ DecisionsMade + 1 \in ReviewIds
                 /\ DecisionsMade' = DecisionsMade + 1
           /\ bound # "reviews" => DecisionsMade' = DecisionsMade
  BY DEF TypeOK, Spend, ReviewIds, DecisionsMade, Bounded

\* A run that takes a decision up was started by one.
TakingUp == run.pc \in {"take-up", "took"} => run.review # NoReview

LEMMA InitTyped == Init => TypeOK /\ TakingUp
  <1>1. Silent \in Account /\ NoClaim \in Claim /\ NotSpent \in SpentHere
    BY DEF Account, Silent, Claim, NoClaim, NotSpent, SpentHere, End, CallName
  <1>2. 1 \in StepIds
    BY DefinitionShape
  <1> SUFFICES ASSUME Init PROVE TypeOK /\ TakingUp
    OBVIOUS
  <1>3. task \in TaskRow
    BY <1>1, <1>2 DEF Init, TaskRow, ReviewRef
  <1>4. run \in Run
    BY <1>1, <1>2 DEF Init, Run, NoRun, ReviewRef, CallName, Result, NoResult
  <1>5. decided \in [ReviewIds -> Decision]
    BY DEF Init, Decision, Undecided
  <1>6. used \in [Bounded -> Nat] /\ \A b \in Bounded : used[b] <= Bounds[b]
    BY DEF Init
  <1>7. askedAt \in [StepIds -> {NoReview} \union 1 .. Bounds["reviews"] + 1]
    BY DEF Init, NoReview
  <1> QED BY <1>3, <1>4, <1>5, <1>6, <1>7 DEF Init, TypeOK, ReviewRef, TakingUp, NoRun

LEMMA NoRunTyped == NoRun \in Run /\ NoClaim \in Claim /\ NoResult \in Result
  <1>1. NoClaim \in Claim
    BY DEF Account, Silent, Claim, NoClaim
  <1>2. NoResult \in Result
    BY DefinitionShape DEF Result, NoResult
  <1> QED BY <1>1, <1>2, DefinitionShape
          DEF Run, NoRun, ReviewRef, CallName

\* The web app's actions.
LEMMA WebTyped ==
    ASSUME TypeOK,
           \/ Launch \/ Move \/ Decide \/ SendDecision \/ ForgetDecision
           \/ ForceReview \/ AdvanceFromApi \/ Rebind
    PROVE  TypeOK' /\ (TakingUp => TakingUp')
  <1> USE DEF TypeOK, TakingUp
  <1>1. CASE Launch
    <2>1. task' \in TaskRow
      BY <1>1 DEF Launch, TaskRow
    <2>2. inbox' \subseteq Event
      BY <1>1 DEF Launch, Sent, Event, ReviewRef
    <2> QED BY <1>1, <2>1, <2>2, BoundSpent DEF Bounded, Launch
  <1>2. CASE Move
    <2>1. PICK move \in Moves :
             task' = [task EXCEPT
                        !.state = move[2],
                        !.completion = IF move[2] = "ready" THEN NoClaim ELSE @]
      BY <1>2 DEF Move
    <2>2. move[2] \in {"review", "failed", "ready", "done"}
      BY DEF Moves
    <2>3. task' \in TaskRow
      BY <2>1, <2>2, NoRunTyped DEF TaskRow
    <2> QED BY <1>2, <2>3, BoundSpent DEF Bounded, Move
  <1>3. CASE Decide
    <2>1. task' \in TaskRow
      BY <1>3 DEF Decide, TaskRow
    <2>2. DecisionsMade + 1 \in ReviewIds
      BY <1>3, BoundSpent DEF Bounded, Decide
    <2>3. reviews' \subseteq ReviewIds /\ sending' \in ReviewRef
      BY <1>3, <2>2 DEF Decide, ReviewRef
    <2>4. decided' \in [ReviewIds -> Decision]
      BY <1>3, <2>2 DEF Decide
    <2> QED BY <1>3, <2>1, <2>3, <2>4, BoundSpent DEF Bounded, Decide
  <1>4. CASE SendDecision
    <2>1. inbox' \subseteq Event
      BY <1>4 DEF SendDecision, Sent, Event
    <2> QED BY <1>4, <2>1 DEF SendDecision, ReviewRef
  <1>5. CASE ForgetDecision
    <2>1. task' \in TaskRow
      BY <1>5 DEF ForgetDecision, TaskRow
    <2>2. inbox' \subseteq Event
      BY <1>5 DEF ForgetDecision, Sent, Event
    <2>3. reviews' \subseteq ReviewIds
      BY <1>5 DEF ForgetDecision
    <2>4. mishaps' \subseteq Mishaps
      BY <1>5 DEF ForgetDecision, Mishaps
    <2> QED BY <1>5, <2>1, <2>2, <2>3, <2>4 DEF ForgetDecision, ReviewRef
  <1>6. CASE ForceReview
    <2>1. forced' \subseteq StepIds
      BY <1>6 DEF ForceReview
    <2> QED BY <1>6, <2>1, BoundSpent DEF Bounded, ForceReview
  <1>7. CASE AdvanceFromApi
    <2>1. PICK from \in StepIds, signal \in Signals, o \in Outcomes :
             LET claim == [account |-> Silent, outcome |-> o]
                 a == Answer(from, signal, claim, "api", 0)
             IN  /\ WriteAnswer(a, claim, "api", 0)
                 /\ mishaps' = IF Crosses(a) THEN mishaps \union {"overtaken"}
                                             ELSE mishaps
      BY <1>7 DEF AdvanceFromApi
    <2> DEFINE claim == [account |-> Silent, outcome |-> o]
               a == Answer(from, signal, claim, "api", 0)
    <2>2. claim \in Claim
      BY DEF Claim, Account, Silent
    <2>3. AnswerOK(a)
      BY AnswerIsOK
    <2>4. task' \in TaskRow /\ spent' \in [ReviewIds -> Nat]
      <3>1. WriteAnswer(a, claim, "api", 0) /\ "api" \in CallName /\ 0 \in Nat
        BY <2>1 DEF CallName
      <3> HIDE DEF claim, a, TypeOK
      <3> QED BY <2>2, <2>3, <3>1, WriteAnswerTyped
    <2>5. mishaps' \subseteq Mishaps
      BY <2>1 DEF Mishaps
    <2> QED BY <1>7, <2>4, <2>5, BoundSpent DEF Bounded, AdvanceFromApi
  <1>8. CASE Rebind
    <2>1. task' \in TaskRow
      BY <1>8, DefinitionShape DEF Rebind, TaskRow, Silent, Account, ReviewRef
    <2>2. mishaps' \subseteq Mishaps
      BY <1>8 DEF Rebind, Mishaps
    <2> QED BY <1>8, <2>1, <2>2, BoundSpent DEF Bounded, Rebind
  <1> QED BY <1>1, <1>2, <1>3, <1>4, <1>5, <1>6, <1>7, <1>8

\* What a run goes on from when it has its answer.
LEMMA BelievedTyped ==
    ASSUME TypeOK
    PROVE  /\ Believed.status \in Statuses \union {"none"}
           /\ Believed.step \in StepIds
           /\ askedAt' = CloseQuestions =>
                 askedAt' \in [StepIds -> {NoReview} \union 1 .. Bounds["reviews"] + 1]
  <1>1. /\ run.result.status \in Statuses \union {"stale", "none"}
        /\ run.result.step \in StepIds /\ task.cursor \in StepIds
    BY DEF TypeOK, Run, Result, TaskRow
  <1>2. Believed.status \in Statuses \union {"none"} /\ Believed.step \in StepIds
    BY <1>1 DEF Believed, Statuses
  <1> QED BY <1>2 DEF TypeOK, CloseQuestions, NoReview

\* Where applying a decision leaves the run.
LEMMA AppliesTo ==
    ASSUME TypeOK, TakingUp, ApplyDecision
    PROVE  /\ run' \in Run
           /\ run'.pc \in {"round", "idle", "report"}
           /\ run'.review \in {run.review, NoReview}
  <1>0. run \in Run
    BY DEF TypeOK
  <1>1. run.review \in ReviewIds /\ decided[run.review].settles \in BOOLEAN
    BY <1>0 DEF ApplyDecision, TakingUp, TypeOK, Run, ReviewRef, Decision
  <1>2. PICK settles \in BOOLEAN : settles = decided[run.review].settles
    BY <1>1
  <1>3. \/ run' = [run EXCEPT !.pc = "round", !.applying = settles, !.claim = NoClaim]
        \/ run' = NoRun
        \/ run' = [run EXCEPT !.pc = "report", !.call = "decision"]
    BY <1>2 DEF ApplyDecision
  <1>4. CASE run' = [run EXCEPT !.pc = "round", !.applying = settles, !.claim = NoClaim]
    BY <1>0, <1>4, NoRunTyped DEF Run
  <1>5. CASE run' = NoRun
    BY <1>5, NoRunTyped DEF NoRun
  <1>6. CASE run' = [run EXCEPT !.pc = "report", !.call = "decision"]
    BY <1>0, <1>6 DEF Run, CallName
  <1> QED BY <1>3, <1>4, <1>5, <1>6

\* Where settling an answer leaves the run.
LEMMA SettlesTo ==
    ASSUME TypeOK, Settle
    PROVE  /\ run' \in Run
           /\ run'.pc \in {"idle", "gate", "integrate", "round"}
           /\ run'.review \in {run.review, NoReview}
           /\ run'.pc = "integrate" =>
                 /\ run.call = "decision"
                 /\ run.result.status = "completed"
                 /\ run'.review = run.review
  <1> DEFINE settled == [run EXCEPT !.call = "none", !.result = NoResult,
                                    !.crossed = FALSE]
             onward(n) == [settled EXCEPT !.pc = "round", !.leg = Believed.step,
                                          !.round = n, !.claim = NoClaim]
  <1>0. run \in Run
    BY DEF TypeOK
  <1>1. settled \in Run /\ settled.review = run.review
    BY <1>0, NoRunTyped DEF Run, CallName
  <1>2. \/ run' = NoRun
        \/ run' = [settled EXCEPT !.pc = "gate"]
        \/ /\ run' = [settled EXCEPT !.pc = "integrate"]
           /\ run.call = "decision" /\ Believed.status = "completed"
        \/ run' = onward(0)
        \/ run' = onward(settled.round + 1)
    BY DEF Settle
  <1>3. Believed.step \in StepIds
    BY BelievedTyped
  <1>4. Believed.status = "completed" => run.result.status = "completed"
    BY DEF Believed
  <1> HIDE DEF settled
  <1>5. CASE run' = NoRun
    BY <1>5, NoRunTyped DEF NoRun
  <1>6. CASE run' = [settled EXCEPT !.pc = "gate"]
    BY <1>1, <1>6 DEF Run
  <1>7. CASE /\ run' = [settled EXCEPT !.pc = "integrate"]
             /\ run.call = "decision" /\ Believed.status = "completed"
    BY <1>1, <1>4, <1>7 DEF Run
  <1>8. \A n \in Nat : /\ onward(n) \in Run
                       /\ onward(n).pc = "round"
                       /\ onward(n).review = run.review
    BY <1>1, <1>3, NoRunTyped DEF Run
  <1>9. settled.round + 1 \in Nat
    BY <1>1 DEF Run
  <1> HIDE DEF onward
  <1> QED BY <1>2, <1>5, <1>6, <1>7, <1>8, <1>9

\* The orchestrator's actions.
LEMMA OrchestratorTyped ==
    ASSUME TypeOK, TakingUp,
           \/ DeliverAgain \/ StartRun \/ TakeUp \/ LeaveSpentDecision
           \/ ApplyDecision \/ HarnessRound \/ HarnessFails \/ Report \/ Settle
           \/ DieAfterCommit \/ OpenGate \/ Integrate
    PROVE  TypeOK' /\ TakingUp'
  <1>0. task \in TaskRow /\ run \in Run
    BY DEF TypeOK
  <1>1. CASE DeliverAgain
    <2>1. inbox' \subseteq Event
      BY <1>1 DEF DeliverAgain, TypeOK, Event
    <2> QED BY <1>1, <2>1, BoundSpent DEF DeliverAgain, TypeOK, TakingUp, Bounded
  <1>2. CASE StartRun
    <2>1. PICK e \in inbox :
             /\ inbox' = inbox \ {e}
             /\ run' = [NoRun EXCEPT
                          !.pc = IF e.review = NoReview THEN "round" ELSE "take-up",
                          !.review = e.review,
                          !.leg = task.cursor,
                          !.claim = task.completion]
      BY <1>2 DEF StartRun
    <2>2. e.review \in ReviewRef
      BY DEF TypeOK, Event
    <2>3. task.cursor \in StepIds /\ task.completion \in Claim
      BY <1>0 DEF TaskRow
    <2>4. run' \in Run /\ TakingUp'
      BY <2>1, <2>2, <2>3, NoRunTyped DEF Run, TakingUp
    <2> QED BY <1>2, <2>1, <2>4 DEF StartRun, TypeOK
  <1>3. CASE TakeUp
    <2>1. TakesUp(run.review) \in BOOLEAN
      BY DEF TakesUp
    <2>2. run' \in Run /\ TakingUp'
      BY <1>0, <1>3, <2>1 DEF TakeUp, Run, TakingUp
    <2>3. taken' \subseteq ReviewIds
      BY <1>3 DEF TakeUp, TakesUp, TypeOK
    <2> QED BY <1>3, <2>2, <2>3 DEF TakeUp, TypeOK
  <1>4. CASE LeaveSpentDecision
    <2>1. TakingUp'
      BY <1>4 DEF LeaveSpentDecision, TakingUp, NoRun
    <2> QED BY <1>4, <2>1, NoRunTyped DEF LeaveSpentDecision, TypeOK
  <1>5. CASE ApplyDecision
    <2>1. run.review \in ReviewIds /\ decided[run.review].settles \in BOOLEAN
      BY <1>0, <1>5 DEF ApplyDecision, TakingUp, TypeOK, Run, ReviewRef, Decision
    <2>2. BackToWork \in TaskRow
      BY <1>0, NoRunTyped DEF BackToWork, TaskRow
    <2>3. Silent \in Account
      BY DEF Silent, Account
    <2>4. task' \in TaskRow
      BY <1>0, <1>5, <2>2, <2>3 DEF ApplyDecision, TaskRow
    <2>5. run' \in Run /\ TakingUp'
      BY <1>5, AppliesTo DEF TakingUp
    <2>6. applied' \in [ReviewIds -> Nat]
      BY <1>5, <2>1 DEF ApplyDecision, TypeOK
    <2> QED BY <1>5, <2>4, <2>5, <2>6 DEF ApplyDecision, TypeOK
  <1>6. CASE HarnessRound
    <2>1. PICK report \in Reports :
             LET claim == report.claim
                 next == AfterRound(claim, report.asks)
                 said == IF next = "applied"
                         THEN [claim EXCEPT !.account.said = TRUE] ELSE claim
             IN  /\ task' = [task EXCEPT !.completion =
                               IF claim.outcome = "none"
                               THEN [claim EXCEPT !.outcome = "changes_ready"]
                               ELSE claim]
                 /\ changed' = (changed \/ report.wrote)
                 /\ askedAt' = IF report.asks
                               THEN [askedAt EXCEPT ![run.leg] = DecisionsMade + 1]
                               ELSE askedAt
                 /\ run' = IF next = "gate"
                           THEN [run EXCEPT !.pc = "gate", !.applying = FALSE,
                                            !.claim = claim]
                           ELSE [run EXCEPT !.pc = "report", !.call = next,
                                            !.applying = FALSE, !.claim = said]
      BY <1>6 DEF HarnessRound
    <2> DEFINE next == AfterRound(report.claim, report.asks)
               said == [report.claim EXCEPT !.account.said = TRUE]
    <2>2. report.claim \in Claim /\ report.asks \in BOOLEAN /\ report.wrote \in BOOLEAN
      OBVIOUS
    <2>3. next \in {"gate", "applied", "signal"}
      BY DEF AfterRound
    <2>4. /\ [report.claim EXCEPT !.outcome = "changes_ready"] \in Claim
          /\ said \in Claim
      BY <2>2 DEF Claim, Outcomes, Account
    <2>5. task' \in TaskRow
      BY <1>0, <2>1, <2>2, <2>4 DEF TaskRow
    <2>6. run' \in Run /\ TakingUp'
      <3> HIDE DEF next, said
      <3>1. \/ run' = [run EXCEPT !.pc = "gate", !.applying = FALSE,
                                  !.claim = report.claim]
            \/ run' = [run EXCEPT !.pc = "report", !.call = next,
                                  !.applying = FALSE, !.claim = said]
               /\ next \in {"applied", "signal"}
            \/ run' = [run EXCEPT !.pc = "report", !.call = next,
                                  !.applying = FALSE, !.claim = report.claim]
               /\ next \in {"applied", "signal"}
        BY <2>1, <2>3 DEF next, said
      <3>2. CASE run' = [run EXCEPT !.pc = "gate", !.applying = FALSE,
                                    !.claim = report.claim]
        BY <1>0, <2>2, <3>2 DEF Run, TakingUp
      <3>3. ASSUME NEW c \in Claim, next \in {"applied", "signal"},
                   run' = [run EXCEPT !.pc = "report", !.call = next,
                                      !.applying = FALSE, !.claim = c]
            PROVE  run' \in Run /\ TakingUp'
        BY <1>0, <3>3 DEF Run, TakingUp, CallName
      <3> QED BY <2>2, <2>4, <3>1, <3>2, <3>3
    <2>7. changed' \in BOOLEAN
      BY <2>1, <2>2 DEF TypeOK
    <2>8. DecisionsMade + 1 \in 1 .. Bounds["reviews"] + 1
      BY DEF TypeOK, DecisionsMade, Bounded
    <2>9. askedAt' \in [StepIds -> {NoReview} \union 1 .. Bounds["reviews"] + 1]
      BY <2>1, <2>8 DEF TypeOK
    <2> QED BY <1>6, <2>5, <2>6, <2>7, <2>9, BoundSpent DEF HarnessRound, TypeOK, Bounded
  <1>7. CASE HarnessFails
    <2>1. task' \in TaskRow
      BY <1>0, <1>7 DEF HarnessFails, TaskRow
    <2>2. run' \in Run /\ TakingUp'
      BY <1>7, NoRunTyped DEF HarnessFails, TakingUp, NoRun
    <2> QED BY <1>7, <2>1, <2>2 DEF HarnessFails, TypeOK
  <1>8. CASE Report
    <2> DEFINE a == Answer(run.leg, Steps[run.leg].advanceOn, run.claim, run.call,
                           run.round)
    <2>1. /\ WriteAnswer(a, run.claim, run.call, run.round)
          /\ run' = [run EXCEPT
                        !.pc = "reported",
                        !.result = [status |-> a.status, step |-> a.step],
                        !.crossed = @ \/ Crosses(a)]
      BY <1>8 DEF Report
    <2>2. AnswerOK(a)
      BY AnswerIsOK
    <2>3. run.claim \in Claim /\ run.call \in CallName /\ run.round \in Nat
      BY <1>0 DEF Run
    <2> HIDE DEF a
    <2>4. task' \in TaskRow /\ spent' \in [ReviewIds -> Nat]
      BY <2>1, <2>2, <2>3, WriteAnswerTyped
    <2>5. [status |-> a.status, step |-> a.step] \in Result
      BY <2>2 DEF AnswerOK, Result
    <2>6. run' \in Run /\ TakingUp'
      <3>1. PICK c \in BOOLEAN : c = (run.crossed \/ Crosses(a))
        OBVIOUS
      <3>2. run' = [run EXCEPT
                      !.pc = "reported",
                      !.result = [status |-> a.status, step |-> a.step],
                      !.crossed = c]
        BY <2>1, <3>1, Zenon
      <3> QED BY <1>0, <2>5, <3>2 DEF Run, TakingUp
    <2> QED BY <1>8, <2>4, <2>6 DEF Report, TypeOK
  <1>9. CASE Settle
    <2>1. task' \in TaskRow
      <3>1. NoClaim \in Claim
        BY NoRunTyped
      <3> QED BY <1>0, <1>9, <3>1 DEF Settle, TaskRow
    <2>2. run' \in Run /\ TakingUp'
      BY <1>9, SettlesTo DEF TakingUp
    <2>3. askedAt' \in [StepIds -> {NoReview} \union 1 .. Bounds["reviews"] + 1]
      BY <1>9, BelievedTyped DEF Settle
    <2> QED BY <1>9, <2>1, <2>2, <2>3 DEF Settle, TypeOK
  <1>10. CASE DieAfterCommit
    <2>1. run' \in Run /\ TakingUp'
      BY <1>0, <1>10 DEF DieAfterCommit, Run, TakingUp
    <2>2. askedAt' \in [StepIds -> {NoReview} \union 1 .. Bounds["reviews"] + 1]
      <3>1. askedAt' = askedAt \/ askedAt' = CloseQuestions
        BY <1>10 DEF DieAfterCommit
      <3> QED BY <3>1, BelievedTyped DEF TypeOK
    <2> QED BY <1>10, <2>1, <2>2, BoundSpent DEF DieAfterCommit, TypeOK, Bounded
  <1>11. CASE OpenGate
    <2>1. task' \in TaskRow
      BY <1>0, <1>11 DEF OpenGate, TaskRow
    <2>2. run' \in Run /\ TakingUp'
      BY <1>11, NoRunTyped DEF OpenGate, TakingUp, NoRun
    <2> QED BY <1>11, <2>1, <2>2 DEF OpenGate, TypeOK
  <1>12. CASE Integrate
    <2>1. task' \in TaskRow
      BY <1>0, <1>12 DEF Integrate, TaskRow
    <2>2. run' \in Run /\ TakingUp'
      BY <1>12, NoRunTyped DEF Integrate, TakingUp, NoRun
    <2> QED BY <1>12, <2>1, <2>2 DEF Integrate, TypeOK
  <1> QED BY <1>1, <1>2, <1>3, <1>4, <1>5, <1>6, <1>7, <1>8, <1>9, <1>10, <1>11, <1>12

LEMMA TypedStep == TypeOK /\ TakingUp /\ [Next]_vars => (TypeOK /\ TakingUp)'
  <1> SUFFICES ASSUME TypeOK, TakingUp, [Next]_vars PROVE (TypeOK /\ TakingUp)'
    OBVIOUS
  <1>1. CASE UNCHANGED vars
    BY <1>1 DEF vars, TypeOK, TakingUp
  <1>2. CASE Next
    BY <1>2, WebTyped, OrchestratorTyped DEF Next
  <1> QED BY <1>1, <1>2

\* Every value a run, a row or an event holds is of its type, for every
\* definition: in particular the cursor never leaves the definition.
THEOREM Typing == Spec => []TypeOK
  <1>1. Spec => [](TypeOK /\ TakingUp)
    BY InitTyped, TypedStep, PTL DEF Spec
  <1> QED BY <1>1, PTL

-----------------------------------------------------------------------------
(* A decision is applied by one run.                                       *)

\* What was applied was taken up, and what a run has just taken up was not yet
\* applied.
AppliedInv ==
    /\ \A r \in ReviewIds : applied[r] <= 1 /\ (applied[r] = 1 => r \in taken)
    /\ run.pc = "took" /\ run.won =>
          run.review \in taken /\ applied[run.review] = 0

LEMMA AppliedStep ==
    TypeOK /\ TakingUp /\ AppliedInv /\ [Next]_vars => AppliedInv'
  <1> SUFFICES ASSUME TypeOK, TakingUp, AppliedInv, [Next]_vars PROVE AppliedInv'
    OBVIOUS
  <1> USE DEF AppliedInv
  <1>0. run \in Run /\ applied \in [ReviewIds -> Nat]
    BY DEF TypeOK
  <1>1. CASE TakeUp
    <2>1. run.review \in ReviewIds
      BY <1>0, <1>1 DEF TakeUp, TakingUp, Run, ReviewRef
    <2>2. run'.review = run.review /\ run'.won = TakesUp(run.review)
      BY <1>0, <1>1 DEF TakeUp, Run
    <2>3. TakesUp(run.review) => run.review \notin taken /\ applied[run.review] = 0
      BY <1>0, <2>1 DEF TakesUp
    <2> QED BY <1>1, <2>2, <2>3 DEF TakeUp
  <1>2. CASE ApplyDecision
    <2>1. run.review \in ReviewIds /\ run.review \in taken /\ applied[run.review] = 0
      BY <1>0, <1>2 DEF ApplyDecision, TakingUp, Run, ReviewRef
    <2>2. applied'[run.review] = 1
          /\ \A r \in ReviewIds : r # run.review => applied'[r] = applied[r]
      BY <1>0, <1>2, <2>1 DEF ApplyDecision
    <2>3. run'.pc # "took"
      BY <1>2, AppliesTo
    <2>4. taken' = taken
      BY <1>2 DEF ApplyDecision
    <2> QED BY <2>1, <2>2, <2>3, <2>4
  <1>3. CASE DieAfterCommit
    <2>1. run'.pc # "took"
      BY <1>0, <1>3 DEF DieAfterCommit, Run
    <2> QED BY <1>3, <2>1 DEF DieAfterCommit
  <1>4. CASE StartRun
    BY <1>4 DEF StartRun, NoRun
  <1>5. CASE LeaveSpentDecision \/ HarnessFails \/ OpenGate \/ Integrate
    BY <1>5 DEF LeaveSpentDecision, HarnessFails, OpenGate, Integrate, NoRun
  <1>6. CASE HarnessRound
    <2>1. run'.pc # "took"
      BY <1>0, <1>6 DEF HarnessRound, Run
    <2> QED BY <1>6, <2>1 DEF HarnessRound
  <1>7. CASE Report
    <2>1. run'.pc # "took"
      BY <1>0, <1>7 DEF Report, Run
    <2> QED BY <1>7, <2>1 DEF Report
  <1>8. CASE Settle
    <2>1. run'.pc # "took"
      BY <1>8, SettlesTo
    <2> QED BY <1>8, <2>1 DEF Settle
  <1>9. CASE \/ Launch \/ Move \/ Decide \/ SendDecision \/ ForgetDecision
            \/ ForceReview \/ AdvanceFromApi \/ Rebind \/ DeliverAgain
            \/ UNCHANGED vars
    <2>1. taken' = taken /\ applied' = applied /\ run' = run
      BY <1>9 DEF Launch, Move, Decide, SendDecision, ForgetDecision, ForceReview,
                  AdvanceFromApi, Rebind, DeliverAgain, vars
    <2> QED BY <2>1
  <1> QED BY <1>1, <1>2, <1>3, <1>4, <1>5, <1>6, <1>7, <1>8, <1>9 DEF Next

\* However often a decision's event is delivered and its take-up re-executed,
\* one run applies it.
THEOREM AppliesOnce == Spec => []AppliedOnce
  <1>1. Init => AppliedInv
    BY DEF Init, AppliedInv, NoRun
  <1>2. AppliedInv => AppliedOnce
    BY DEF AppliedInv, AppliedOnce
  <1> QED BY <1>1, <1>2, InitTyped, TypedStep, AppliedStep, PTL DEF Spec

-----------------------------------------------------------------------------
(* An approval is spent on one crossing.                                   *)

\* A reference to a decision that is still on record.
OnRecord(r) == r \in reviews \union {NoReview}

\* The run has been told its decision completed the Workflow.
ToldComplete == \/ run.pc = "integrate"
                \/ /\ run.pc = "reported"
                   /\ run.call = "decision"
                   /\ run.result.status = "completed"

\* While no decision was taken back and the Task stays on its Workflow: ids are
\* handed out in order, what refers to a decision refers to one on record, the
\* cursor's decision is the newest one spent, and a completed run is no newer.
Ledger ==
    /\ \A r \in reviews : r <= DecisionsMade
    /\ OnRecord(task.decisionId) /\ OnRecord(sending) /\ OnRecord(run.review)
    /\ \A e \in inbox : OnRecord(e.review)
    /\ task.decisionId # NoReview => decided[task.decisionId].kind = "approve"
    /\ \A r \in ReviewIds :
          spent[r] <= 1 /\ (spent[r] = 1 => r <= task.decisionId)
    /\ ToldComplete => task.decisionId # NoReview /\ task.decisionId >= run.review

LedgerInv == mishaps \subseteq {"overtaken"} => Ledger

\* A step that makes no decision and spends none.
LEMMA QuietStep ==
    ASSUME TypeOK, Ledger,
           reviews' = reviews, decided' = decided, spent' = spent,
           DecisionsMade' = DecisionsMade, task'.decisionId = task.decisionId,
           sending' \in {sending, NoReview},
           run'.review \in {run.review, NoReview} \union {e.review : e \in inbox},
           \A e \in inbox' :
              e.review \in {NoReview, sending} \union {f.review : f \in inbox},
           ToldComplete' => ToldComplete /\ run'.review = run.review
    PROVE  Ledger'
  <1>1. OnRecord(sending)' /\ OnRecord(run.review)' /\ OnRecord(task.decisionId)'
    BY DEF Ledger, OnRecord
  <1>2. \A e \in inbox' : e.review \in reviews' \union {NoReview}
    BY DEF Ledger, OnRecord
  <1>3. \A r \in reviews' : r <= DecisionsMade'
    BY DEF Ledger
  <1>4. (task.decisionId # NoReview => decided[task.decisionId].kind = "approve")'
    BY DEF Ledger
  <1>5. (\A r \in ReviewIds : spent[r] <= 1 /\ (spent[r] = 1 => r <= task.decisionId))'
    BY DEF Ledger
  <1>6. (ToldComplete => task.decisionId # NoReview /\ task.decisionId >= run.review)'
    BY DEF Ledger
  <1> QED BY <1>1, <1>2, <1>3, <1>4, <1>5, <1>6 DEF Ledger, OnRecord

\* The shared transaction keeps the ledger: it spends only an approval newer
\* than every one spent before, and no older than any decision.
LEMMA SpendingStep ==
    ASSUME TypeOK, Ledger, NEW a, AnswerOK(a), NEW claim \in Claim,
           NEW call \in CallName, NEW round \in Nat,
           WriteAnswer(a, claim, call, round),
           reviews' = reviews, decided' = decided
    PROVE  /\ task'.decisionId \in reviews \union {NoReview}
           /\ task'.decisionId >= task.decisionId
           /\ a.spends => task'.decisionId = LatestId /\ LatestId # NoReview
           /\ task'.decisionId # NoReview => decided'[task'.decisionId].kind = "approve"
           /\ \A r \in ReviewIds :
                 spent'[r] <= 1 /\ (spent'[r] = 1 => r <= task'.decisionId)
  <1>0. task \in TaskRow /\ task' \in TaskRow /\ spent \in [ReviewIds -> Nat]
    BY WriteAnswerTyped DEF TypeOK
  <1>1. CASE a.spends
    <2>1. LatestApproves /\ LatestId # task.decisionId /\ LatestId \in ReviewIds
      BY <1>1 DEF AnswerOK, UnspentApproval
    <2>2. LatestId \in reviews /\ \A r \in reviews : r <= LatestId
      <3>1. reviews # {}
        BY <2>1 DEF LatestApproves, LatestId
      <3> QED BY <3>1, MaxIsGreatest DEF TypeOK, ReviewIds, LatestId, Bounded
    <2>3. LatestId > task.decisionId /\ task.decisionId \in Nat
      BY <1>0, <2>1, <2>2 DEF Ledger, OnRecord, TaskRow, ReviewRef, ReviewIds, NoReview
    <2>4. a.status # "stale" => task'.decisionId = LatestId
      BY <1>0, <1>1 DEF WriteAnswer, TaskRow
    <2>5. a.status # "stale"
      BY <1>1 DEF AnswerOK
    <2>6. spent' = [spent EXCEPT ![LatestId] = @ + 1]
      BY <1>1 DEF WriteAnswer
    <2>7. spent[LatestId] = 0
      BY <1>0, <2>1, <2>3 DEF Ledger, ReviewIds
    <2>8. \A r \in ReviewIds :
             spent'[r] <= 1 /\ (spent'[r] = 1 => r <= LatestId)
      BY <1>0, <2>1, <2>3, <2>6, <2>7 DEF Ledger, ReviewIds
    <2>9. LatestId >= task.decisionId /\ LatestId # NoReview
      BY <2>1, <2>3 DEF ReviewIds, NoReview
    <2> QED BY <2>1, <2>2, <2>4, <2>5, <2>8, <2>9 DEF LatestApproves
  <1>2. CASE ~a.spends
    <2>1. task'.decisionId = task.decisionId /\ spent' = spent
      BY <1>0, <1>2 DEF WriteAnswer, TaskRow
    <2>2. task.decisionId \in Nat /\ task.decisionId \in reviews \union {NoReview}
      BY <1>0 DEF Ledger, OnRecord, TaskRow, ReviewRef, ReviewIds, NoReview
    <2> QED BY <1>2, <2>1, <2>2 DEF Ledger
  <1> QED BY <1>1, <1>2 DEF AnswerOK

LEMMA LedgerStep ==
    TypeOK /\ TakingUp /\ LedgerInv /\ [Next]_vars => LedgerInv'
  <1> SUFFICES ASSUME TypeOK, TakingUp, LedgerInv, [Next]_vars,
                      mishaps' \subseteq {"overtaken"}
               PROVE  Ledger'
    BY DEF LedgerInv
  <1>0. task \in TaskRow /\ run \in Run
    BY DEF TypeOK
  <1>1. CASE Decide
    <2>1. Ledger
      BY <1>1 DEF Decide, LedgerInv
    <2>2. /\ DecisionsMade' = DecisionsMade + 1 /\ DecisionsMade \in Nat
          /\ DecisionsMade + 1 \in ReviewIds
      BY <1>1, BoundSpent DEF Decide, Bounded, TypeOK, DecisionsMade
    <2>3. \A r \in reviews' : r <= DecisionsMade'
      BY <1>1, <2>1, <2>2 DEF Decide, Ledger, TypeOK, ReviewIds
    <2>4. task'.decisionId = task.decisionId
      BY <1>0, <1>1 DEF Decide, TaskRow
    <2>5. task.decisionId # NoReview =>
             /\ task.decisionId # DecisionsMade + 1
             /\ task.decisionId \in ReviewIds
      <3>1. task.decisionId \in reviews \union {NoReview} /\ reviews \subseteq ReviewIds
        BY <2>1 DEF Ledger, OnRecord, TypeOK
      <3>2. \A r \in reviews : r <= DecisionsMade /\ r \in Nat
        BY <2>1, <3>1 DEF Ledger, ReviewIds
      <3> QED BY <2>2, <3>1, <3>2
    <2>6. task'.decisionId # NoReview => decided'[task'.decisionId].kind = "approve"
      BY <1>1, <2>1, <2>4, <2>5 DEF Decide, Ledger, TypeOK
    <2>7. /\ OnRecord(task.decisionId)' /\ OnRecord(sending)' /\ OnRecord(run.review)'
          /\ (\A e \in inbox : OnRecord(e.review))'
      BY <1>1, <2>1, <2>4 DEF Decide, Ledger, OnRecord
    <2>8. ToldComplete' => ToldComplete /\ run' = run
      BY <1>1 DEF Decide, ToldComplete
    <2>9. spent' = spent
      BY <1>1 DEF Decide
    <2> QED BY <2>1, <2>3, <2>4, <2>6, <2>7, <2>8, <2>9 DEF Ledger
  <1>2. CASE ForgetDecision \/ Rebind
    BY <1>2 DEF ForgetDecision, Rebind
  <1>3. CASE AdvanceFromApi
    <2>1. Ledger
      BY <1>3 DEF AdvanceFromApi, LedgerInv
    <2>2. PICK from \in StepIds, signal \in Signals, o \in Outcomes :
             WriteAnswer(Answer(from, signal, [account |-> Silent, outcome |-> o],
                                "api", 0),
                         [account |-> Silent, outcome |-> o], "api", 0)
      BY <1>3 DEF AdvanceFromApi
    <2> DEFINE claim == [account |-> Silent, outcome |-> o]
               a == Answer(from, signal, claim, "api", 0)
    <2>3. claim \in Claim /\ AnswerOK(a) /\ "api" \in CallName /\ 0 \in Nat
      BY AnswerIsOK DEF Claim, Account, Silent, CallName
    <2>4. reviews' = reviews /\ decided' = decided /\ run' = run
          /\ sending' = sending /\ inbox' = inbox
      BY <1>3 DEF AdvanceFromApi
    <2> HIDE DEF claim, a
    <2>5. /\ task'.decisionId \in reviews \union {NoReview}
          /\ task'.decisionId >= task.decisionId
          /\ task'.decisionId # NoReview => decided'[task'.decisionId].kind = "approve"
          /\ \A r \in ReviewIds :
                spent'[r] <= 1 /\ (spent'[r] = 1 => r <= task'.decisionId)
      BY <2>1, <2>2, <2>3, <2>4, SpendingStep DEF a, claim
    <2>6. DecisionsMade' = DecisionsMade
      BY <1>3, BoundSpent DEF AdvanceFromApi, Bounded
    <2>7. (ToldComplete => task.decisionId # NoReview /\ task.decisionId >= run.review)'
      <3> DEFINE d == task.decisionId
                 e == task'.decisionId
      <3>1. d \in ReviewRef /\ e \in ReviewRef /\ run.review \in ReviewRef /\ e >= d
        BY <1>0, <2>5 DEF TypeOK, TaskRow, Run, ReviewRef
      <3>2. d # NoReview /\ d >= run.review => e # NoReview /\ e >= run.review
        <4> HIDE DEF d, e
        <4> QED BY <3>1, ReviewIdsAreNumbers DEF NoReview
      <3>3. ToldComplete' => ToldComplete
        BY <2>4 DEF ToldComplete
      <3> QED BY <2>1, <2>4, <3>2, <3>3 DEF Ledger
    <2> QED BY <2>1, <2>4, <2>5, <2>6, <2>7 DEF Ledger, OnRecord
  <1>4. CASE Report
    <2>1. Ledger
      BY <1>4 DEF Report, LedgerInv
    <2> DEFINE a == Answer(run.leg, Steps[run.leg].advanceOn, run.claim, run.call,
                           run.round)
    <2>2. /\ WriteAnswer(a, run.claim, run.call, run.round)
          /\ run' = [run EXCEPT
                        !.pc = "reported",
                        !.result = [status |-> a.status, step |-> a.step],
                        !.crossed = @ \/ Crosses(a)]
          /\ reviews' = reviews /\ decided' = decided
          /\ sending' = sending /\ inbox' = inbox
          /\ DecisionsMade' = DecisionsMade
      BY <1>4 DEF Report, DecisionsMade
    <2>3. /\ AnswerOK(a)
          /\ a.status = "completed" =>
                a.spends \/ (LatestApproves /\ LatestId = task.decisionId)
      BY AnswerIsOK DEF AlreadySpentBy
    <2>4. run.claim \in Claim /\ run.call \in CallName /\ run.round \in Nat
      BY <1>0 DEF Run
    <2> HIDE DEF a
    <2>5. run'.review = run.review /\ run'.pc = "reported" /\ run'.result.status = a.status
      BY <1>0, <2>2 DEF Run
    <2>6. /\ task'.decisionId \in reviews \union {NoReview}
          /\ task'.decisionId >= task.decisionId
          /\ a.spends => task'.decisionId = LatestId /\ LatestId # NoReview
          /\ task'.decisionId # NoReview => decided'[task'.decisionId].kind = "approve"
          /\ \A r \in ReviewIds :
                spent'[r] <= 1 /\ (spent'[r] = 1 => r <= task'.decisionId)
      BY <2>1, <2>2, <2>3, <2>4, SpendingStep
    <2>7. ToldComplete' => task'.decisionId # NoReview /\ task'.decisionId >= run'.review
      <3> SUFFICES ASSUME a.status = "completed"
                   PROVE  /\ task'.decisionId # NoReview
                          /\ task'.decisionId >= run.review
        BY <2>5 DEF ToldComplete
      <3> DEFINE e == task'.decisionId
      <3>1. /\ LatestId \in ReviewRef /\ LatestId # NoReview
            /\ \A r \in reviews : r <= LatestId
        BY <2>3, <2>6, LatestIsAReview DEF TypeOK, LatestApproves
      <3>2. e = LatestId \/ (task.decisionId = LatestId /\ e >= LatestId)
        BY <2>3, <2>6
      <3>3. e \in ReviewRef /\ run.review \in ReviewRef
        BY <1>0, <2>6 DEF TypeOK, Run, ReviewRef
      <3>4. run.review \in reviews \/ run.review = NoReview
        BY <2>1 DEF Ledger, OnRecord
      <3> HIDE DEF e
      <3>5. e >= LatestId /\ LatestId >= run.review /\ LatestId > 0 /\ e \in Nat
            /\ LatestId \in Nat /\ run.review \in Nat
        BY <3>1, <3>2, <3>3, <3>4, ReviewIdsAreNumbers DEF NoReview
      <3> QED BY <3>5 DEF NoReview, e
    <2> QED BY <2>1, <2>2, <2>5, <2>6, <2>7 DEF Ledger, OnRecord
  <1>5. CASE \/ Launch \/ Move \/ SendDecision \/ ForceReview \/ DeliverAgain
            \/ StartRun \/ TakeUp \/ LeaveSpentDecision \/ ApplyDecision
            \/ HarnessRound \/ HarnessFails \/ Settle \/ DieAfterCommit
            \/ OpenGate \/ Integrate \/ UNCHANGED vars
    <2>1. reviews' = reviews /\ decided' = decided /\ spent' = spent
          /\ mishaps' = mishaps
      BY <1>5 DEF Launch, Move, SendDecision, ForceReview, DeliverAgain, StartRun,
                  TakeUp, LeaveSpentDecision, ApplyDecision, HarnessRound,
                  HarnessFails, Settle, DieAfterCommit, OpenGate, Integrate, vars
    <2>2. Ledger
      BY <2>1 DEF LedgerInv
    <2>3. DecisionsMade' = DecisionsMade
      <3>1. \/ used' = used
            \/ \E bound \in Bounded \ {"reviews"} : Spend(bound)
        BY <1>5 DEF Launch, Move, SendDecision, ForceReview, DeliverAgain, StartRun,
                  TakeUp, LeaveSpentDecision, ApplyDecision, HarnessRound,
                  HarnessFails, Settle, DieAfterCommit, OpenGate, Integrate, vars, Bounded
      <3> QED BY <3>1, BoundSpent DEF DecisionsMade
    <2>4. task'.decisionId = task.decisionId
      <3>1. CASE Launch \/ Move \/ HarnessFails \/ OpenGate \/ Integrate
        BY <1>0, <3>1 DEF Launch, Move, HarnessFails, OpenGate, Integrate, TaskRow
      <3>2. CASE ApplyDecision
        BY <1>0, <3>2 DEF ApplyDecision, BackToWork, TaskRow
      <3>3. CASE HarnessRound
        BY <1>0, <3>3 DEF HarnessRound, TaskRow
      <3>4. CASE Settle
        BY <1>0, <3>4 DEF Settle, TaskRow
      <3>5. CASE \/ SendDecision \/ ForceReview \/ DeliverAgain \/ StartRun \/ TakeUp
                \/ LeaveSpentDecision \/ DieAfterCommit \/ UNCHANGED vars
        BY <3>5 DEF SendDecision, ForceReview, DeliverAgain, StartRun, TakeUp,
                    LeaveSpentDecision, DieAfterCommit, vars
      <3> QED BY <1>5, <3>1, <3>2, <3>3, <3>4, <3>5
    <2>5. sending' \in {sending, NoReview}
      BY <1>5 DEF Launch, Move, SendDecision, ForceReview, DeliverAgain, StartRun,
                  TakeUp, LeaveSpentDecision, ApplyDecision, HarnessRound,
                  HarnessFails, Settle, DieAfterCommit, OpenGate, Integrate, vars
    <2>6. /\ run'.review \in {run.review, NoReview} \union {e.review : e \in inbox}
          /\ ToldComplete' => ToldComplete /\ run'.review = run.review
      <3>1. CASE StartRun
        <4>1. PICK e \in inbox :
                 run' = [NoRun EXCEPT
                          !.pc = IF e.review = NoReview THEN "round" ELSE "take-up",
                          !.review = e.review, !.leg = task.cursor,
                          !.claim = task.completion]
          BY <3>1 DEF StartRun
        <4> QED BY <4>1 DEF NoRun, ToldComplete
      <3>2. CASE TakeUp
        BY <1>0, <3>2 DEF TakeUp, Run, ToldComplete
      <3>3. CASE ApplyDecision
        BY <3>3, AppliesTo DEF ToldComplete
      <3>4. CASE HarnessRound
        BY <1>0, <3>4 DEF HarnessRound, Run, ToldComplete
      <3>5. CASE Settle
        BY <3>5, SettlesTo DEF ToldComplete, Settle
      <3>6. CASE LeaveSpentDecision \/ HarnessFails \/ OpenGate \/ Integrate
        BY <3>6 DEF LeaveSpentDecision, HarnessFails, OpenGate, Integrate, NoRun,
                    ToldComplete
      <3>7. CASE DieAfterCommit
        BY <1>0, <3>7 DEF DieAfterCommit, Run, ToldComplete
      <3>8. CASE \/ Launch \/ Move \/ SendDecision \/ ForceReview \/ DeliverAgain
                \/ UNCHANGED vars
        <4>1. run' = run
          BY <3>8 DEF Launch, Move, SendDecision, ForceReview, DeliverAgain, vars
        <4> QED BY <4>1 DEF ToldComplete
      <3> QED BY <1>5, <3>1, <3>2, <3>3, <3>4, <3>5, <3>6, <3>7, <3>8
    <2>7. \A e \in inbox' :
             e.review \in {NoReview, sending} \union {f.review : f \in inbox}
      <3>1. CASE Launch \/ SendDecision
        BY <3>1 DEF Launch, SendDecision, Sent
      <3>2. CASE DeliverAgain
        <4>1. PICK e \in inbox : inbox' = inbox \union {[e EXCEPT !.copy = 2]}
          BY <3>2 DEF DeliverAgain
        <4>2. [e EXCEPT !.copy = 2].review = e.review
          BY DEF TypeOK, Event
        <4> QED BY <4>1, <4>2
      <3>3. CASE inbox' \subseteq inbox
        BY <3>3
      <3> QED BY <1>5, <3>1, <3>2, <3>3 DEF Move, ForceReview, StartRun,
                  TakeUp, LeaveSpentDecision, ApplyDecision, HarnessRound,
                  HarnessFails, Settle, DieAfterCommit, OpenGate, Integrate, vars
    <2> QED BY <2>1, <2>2, <2>3, <2>4, <2>5, <2>6, <2>7, QuietStep
  <1> QED BY <1>1, <1>2, <1>3, <1>4, <1>5 DEF Next

LEMMA LedgerHolds == Spec => []LedgerInv
  <1>1. Init => LedgerInv
    BY DEF Init, LedgerInv, Ledger, OnRecord, ToldComplete, NoRun
  <1> QED BY <1>1, InitTyped, TypedStep, LedgerStep, PTL DEF Spec

\* An approval opens one gate, in whatever definition, whoever calls and however
\* often a step is replayed, unless a decision was taken back or the Task was
\* put on its Workflow anew, which forgets what was spent.
THEOREM OneApprovalOneGate == Spec => []OneGatePerApproval
  <1>1. LedgerInv => OneGatePerApproval
    BY DEF LedgerInv, Ledger, OneGatePerApproval
  <1> QED BY <1>1, LedgerHolds, PTL

\* A run integrates on the strength of an approval that was spent, and that is
\* not older than the decision that started it.
THEOREM IntegrationIsApproved == Spec => []IntegratesAnApprovedGate
  <1>1. TypeOK /\ LedgerInv => IntegratesAnApprovedGate
    BY DEF TypeOK, TaskRow, ReviewRef, LedgerInv, Ledger, ToldComplete,
           IntegratesAnApprovedGate
  <1> QED BY <1>1, Typing, LedgerHolds, PTL
-----------------------------------------------------------------------------
(* A crossing that committed is kept.                                      *)

\* Where the Step the run is on goes, by what the run has reported of it.
Judged == [producedChanges |-> run.claim.outcome = "changes_ready"
                               \/ (ReadsChanges(run.leg) /\ changed),
           account |-> Reported(run.claim), outcome |-> run.claim.outcome]
Way == Exit(Steps, run.leg, Judged)

Caller == [step |-> run.leg, call |-> run.call, round |-> run.round]

\* A call that crossed either moved the cursor off the Step, for good, or spent
\* an approval into the Workflow's end, which it finds again: the Step still
\* ends the Workflow, and the approval is the newest decision and this call's
\* own, or a newer decision has been made.
Kept ==
    /\ run.pc \notin {"report", "reported"} => ~run.crossed
    /\ run.crossed /\ task.cursor = run.leg =>
          /\ task.decisionId # NoReview
          /\ Way = End
          /\ LatestId = task.decisionId => task.decisionCall = Caller
          /\ run.pc = "reported" => \/ run.result.status \in {"advanced", "completed"}
                                    \/ LatestId # task.decisionId
    /\ run.crossed /\ task.cursor # run.leg /\ run.pc = "reported" =>
          run.result.status \in {"advanced", "completed", "stale"}

KeptInv == mishaps = {} => Kept

\* The exit reads three things of an outcome.
LEMMA ExitReads ==
    ASSUME NEW i, NEW o, NEW p, o.producedChanges = p.producedChanges,
           o.account = p.account, o.outcome = p.outcome
    PROVE  Exit(Steps, i, o) = Exit(Steps, i, p)
  BY DEF Exit, ConditionHolds

\* A Step never leads to itself.
LEMMA ExitLeavesTheStep ==
    ASSUME NEW i \in StepIds, NEW o
    PROVE  Exit(Steps, i, o) # i
  <1>1. {Steps[i].then, Steps[i].else} \subseteq (0 .. Len(Steps)) \ {i}
    BY DEF IsDefinition, StepIds
  <1>2. RankSuccessor(Steps, i) # i
    BY DefinitionShape DEF RankSuccessor, StepIds, End
  <1> QED BY <1>1, <1>2 DEF Exit

\* On record, the decision the cursor is at is the newest or an older one.
LEMMA NewestIsNoOlder ==
    ASSUME TypeOK, Ledger, task.decisionId # NoReview
    PROVE  /\ LatestId \in Nat /\ task.decisionId \in Nat
           /\ LatestId >= task.decisionId
           /\ LatestId = task.decisionId => LatestApproves
  <1>1. task.decisionId \in reviews /\ reviews \subseteq ReviewIds
    BY DEF Ledger, OnRecord, TypeOK
  <1>2. LatestId \in reviews /\ \A r \in reviews : r <= LatestId
    BY <1>1, MaxIsGreatest DEF LatestId, ReviewIds, Bounded
  <1> QED BY <1>1, <1>2, ReviewIdsAreNumbers DEF Ledger, LatestApproves

\* What a run's own report answers and writes.
LEMMA ReportKeeps ==
    ASSUME TypeOK, Ledger, Kept, Report
    PROVE  Kept'
  <1> DEFINE a == Answer(run.leg, Steps[run.leg].advanceOn, run.claim, run.call,
                         run.round)
             o == StepOutcome(Steps[run.leg].advanceOn, run.claim,
                              Here(run.call, run.round))
  <1>0. /\ task \in TaskRow /\ run \in Run /\ run.pc = "report"
        /\ run.leg \in StepIds /\ task.cursor \in StepIds
    BY DEF TypeOK, Report, Run, TaskRow
  <1>1. /\ WriteAnswer(a, run.claim, run.call, run.round)
        /\ run' = [run EXCEPT !.pc = "reported",
                              !.result = [status |-> a.status, step |-> a.step],
                              !.crossed = @ \/ Crosses(a)]
        /\ reviews' = reviews /\ changed' = changed /\ decided' = decided
    BY DEF Report
  <1>2. /\ run'.pc = "reported" /\ run'.result.status = a.status
        /\ run'.crossed = (run.crossed \/ Crosses(a))
        /\ run'.leg = run.leg /\ run'.claim = run.claim
        /\ Caller' = Caller
    <2> HIDE DEF a
    <2> QED BY <1>0, <1>1 DEF Run, Result, Caller
  <1>3. LatestId' = LatestId /\ (ReadsChanges(run.leg))' = ReadsChanges(run.leg)
    BY <1>1, <1>2 DEF LatestId, ReadsChanges
  <1>4. CASE task.cursor # run.leg
    <2>1. a.status = "stale" /\ ~a.spends
      BY <1>4 DEF Answer, NamesCursor
    <2>2. task' = task
      BY <1>1, <2>1 DEF WriteAnswer
    <2> QED BY <1>2, <1>4, <2>1, <2>2 DEF Kept
  <1>5. CASE task.cursor = run.leg
    <2>1. /\ a = AdvanceStep(Steps, run.leg, o)
          /\ Exit(Steps, run.leg, o) = Way
          /\ o.signal = Steps[run.leg].advanceOn
          /\ o.unspent = UnspentApproval
          /\ o.spentHere = AlreadySpentBy(Here(run.call, run.round))
      <3>1. a = AdvanceStep(Steps, run.leg, o)
        BY <1>5 DEF Answer, NamesCursor
      <3>2. /\ o.producedChanges = Judged.producedChanges
            /\ o.account = Judged.account /\ o.outcome = Judged.outcome
        BY <1>5 DEF StepOutcome, Judged
      <3>3. Exit(Steps, run.leg, o) = Way
        BY <3>2, ExitReads DEF Way
      <3> QED BY <3>1, <3>3 DEF StepOutcome
    <2>2. Way \in {End} \union StepIds /\ Way # run.leg /\ End \notin StepIds
      BY <1>0, ExitIsAStep, ExitLeavesTheStep DEF Way, StepIds, End
    <2>3. CASE Way # End
      <3> HIDE DEF a, o
      <3>1. a.status \in {"advanced", "awaiting-decision"}
            /\ (a.status = "advanced" => a.step = Way)
            /\ (a.status = "awaiting-decision" => ~a.spends)
        BY <2>1, <2>3 DEF AdvanceStep, Lands
      <3>2. CASE a.status = "advanced"
        <4>1. task'.cursor = Way
          BY <1>0, <1>1, <3>1, <3>2 DEF WriteAnswer, TaskRow
        <4> QED BY <1>2, <2>2, <3>2, <4>1 DEF Kept
      <3>3. CASE a.status = "awaiting-decision"
        <4>1. ~run.crossed /\ ~run'.crossed
          BY <1>2, <1>5, <2>3, <3>1, <3>3 DEF Kept, Crosses
        <4> QED BY <1>2, <4>1 DEF Kept
      <3> QED BY <3>1, <3>2, <3>3
    <2>4. CASE Way = End
      <3>1. \/ a.status = "completed" /\ a.spends = UnspentApproval
               /\ (UnspentApproval \/ AlreadySpentBy(Here(run.call, run.round)))
            \/ a.status = "awaiting-decision" /\ ~a.spends /\ ~UnspentApproval
               /\ ~AlreadySpentBy(Here(run.call, run.round))
        <4> HIDE DEF a, o
        <4> QED BY <2>1, <2>4 DEF AdvanceStep, MayComplete
      <3>2. a.step = run.leg
        <4> HIDE DEF a, o
        <4> QED BY <2>1, <2>4 DEF AdvanceStep, Lands
      <3>3. AnswerOK(a)
        BY AnswerIsOK
      <3> HIDE DEF a, o
      <3>4. /\ task'.cursor = run.leg
            /\ task'.pending = Reported(run.claim)
            /\ task'.decisionId = IF a.spends THEN LatestId ELSE task.decisionId
            /\ task'.decisionCall = IF a.spends THEN Here(run.call, run.round)
                                                ELSE task.decisionCall
        BY <1>0, <1>1, <3>1, <3>2 DEF WriteAnswer, TaskRow
      <3>5. Reported(run.claim)' = Reported(run.claim)
        BY <1>2, <3>4 DEF Reported
      <3>6. Way' = Way
        BY <1>1, <1>2, <1>3, <3>5 DEF Way, Judged
      <3>7. Here(run.call, run.round) = Caller
        BY <1>5 DEF Here, Caller
      <3>8. CASE a.spends
        <4>1. UnspentApproval /\ a.status = "completed"
          BY <3>1, <3>8
        <4>2. LatestId # NoReview
          BY <4>1 DEF UnspentApproval, LatestApproves
        <4> QED BY <1>2, <1>3, <2>4, <3>4, <3>6, <3>7, <3>8, <4>1, <4>2 DEF Kept
      <3>9. CASE ~a.spends
        <4>1. ~Crosses(a)
          BY <3>1, <3>9 DEF Crosses
        <4>2. CASE ~run.crossed
          BY <1>2, <4>1, <4>2 DEF Kept
        <4>3. CASE run.crossed
          <5>1. /\ task.decisionId # NoReview
                /\ LatestId = task.decisionId => task.decisionCall = Caller
            BY <1>5, <4>3 DEF Kept
          <5>2. a.status = "completed" \/ LatestId # task.decisionId
            BY <3>1, <3>7, <5>1, NewestIsNoOlder DEF AlreadySpentBy
          <5> QED BY <1>2, <1>3, <2>4, <3>4, <3>6, <3>9, <5>1, <5>2 DEF Kept
        <4> QED BY <4>2, <4>3
      <3> QED BY <3>8, <3>9
    <2> QED BY <2>3, <2>4
  <1> QED BY <1>4, <1>5

\* What a run does other than report says nothing of a crossing.
LEMMA OthersKeepCrossed ==
    ASSUME NEW f \in Run, ~f.crossed, NEW p, NEW n, NEW b, NEW l, NEW c
    PROVE  /\ ~[f EXCEPT !.pc = p].crossed
           /\ ~[f EXCEPT !.pc = p, !.call = n].crossed
           /\ ~[f EXCEPT !.pc = p, !.applying = b, !.claim = c].crossed
           /\ ~[f EXCEPT !.pc = p, !.call = n, !.applying = b,
                         !.claim = c].crossed
           /\ ~[f EXCEPT !.pc = p, !.leg = l, !.round = n, !.claim = c].crossed
           /\ ~[f EXCEPT !.pc = p, !.review = n, !.leg = l, !.claim = c].crossed
  <1>1. "crossed" \in DOMAIN f
    BY DEF Run
  <1> QED BY <1>1

LEMMA KeptStep == TypeOK /\ LedgerInv /\ KeptInv /\ [Next]_vars => KeptInv'
  <1> SUFFICES ASSUME TypeOK, LedgerInv, KeptInv, [Next]_vars, mishaps' = {}
               PROVE  Kept'
    BY DEF KeptInv
  <1>0. task \in TaskRow /\ run \in Run
    BY DEF TypeOK
  <1>1. CASE Report
    <2>1. mishaps = {}
      BY <1>1 DEF Report
    <2> QED BY <1>1, <2>1, ReportKeeps DEF KeptInv, LedgerInv
  <1>2. CASE Decide
    <2>1. Kept /\ Ledger
      BY <1>2 DEF Decide, KeptInv, LedgerInv
    <2>2. /\ task'.cursor = task.cursor /\ task'.pending = task.pending
          /\ task'.decisionId = task.decisionId
          /\ task'.decisionCall = task.decisionCall
          /\ run' = run /\ changed' = changed
      BY <1>0, <1>2 DEF Decide, TaskRow
    <2>3. Way' = Way /\ Caller' = Caller
      BY <2>2 DEF Way, Judged, Reported, ReadsChanges, Caller
    <2>4. task.decisionId # NoReview => LatestId' # task.decisionId
      <3> SUFFICES ASSUME task.decisionId # NoReview
                   PROVE  LatestId' # task.decisionId
        OBVIOUS
      <3>1. /\ DecisionsMade + 1 \in ReviewIds
            /\ reviews' = reviews \union {DecisionsMade + 1}
        BY <1>2, BoundSpent DEF Decide, Bounded
      <3>2. LatestId' >= DecisionsMade + 1
        <4>1. reviews' \subseteq ReviewIds /\ reviews' # {}
          BY <3>1 DEF TypeOK
        <4> QED BY <3>1, <4>1, MaxIsGreatest DEF LatestId, ReviewIds, Bounded
      <3>3. task.decisionId <= DecisionsMade /\ task.decisionId \in ReviewIds
        BY <2>1 DEF Ledger, OnRecord, TypeOK
      <3> QED BY <3>1, <3>2, <3>3, ReviewIdsAreNumbers DEF DecisionsMade, TypeOK, Bounded
    <2> QED BY <2>1, <2>2, <2>3, <2>4 DEF Kept
  <1>3. CASE ForgetDecision \/ Rebind
    BY <1>3 DEF ForgetDecision, Rebind
  <1>4. CASE AdvanceFromApi
    <2>1. PICK from \in StepIds, signal \in Signals, u \in Outcomes :
             LET claim == [account |-> Silent, outcome |-> u]
                 a == Answer(from, signal, claim, "api", 0)
             IN  /\ WriteAnswer(a, claim, "api", 0)
                 /\ mishaps' = IF Crosses(a) THEN mishaps \union {"overtaken"}
                                             ELSE mishaps
      BY <1>4 DEF AdvanceFromApi
    <2> DEFINE claim == [account |-> Silent, outcome |-> u]
               a == Answer(from, signal, claim, "api", 0)
    <2>2. ~Crosses(a) /\ mishaps = {} /\ WriteAnswer(a, claim, "api", 0)
      <3> HIDE DEF a, claim
      <3> QED BY <2>1 DEF a, claim
    <2>3. Kept
      BY <2>2 DEF KeptInv
    <2>4. Reported(claim) = task.pending
      BY DEF Reported, Silent
    <2>5. a.status = "stale" \/ a.step = task.cursor
      <3> DEFINE o == StepOutcome(signal, claim, Here("api", 0))
      <3>1. CASE ~NamesCursor(from)
        BY <3>1 DEF Answer
      <3>2. CASE NamesCursor(from)
        <4>1. a = AdvanceStep(Steps, task.cursor, o)
          BY <3>2 DEF Answer
        <4> HIDE DEF a, o
        <4> QED BY <2>2, <4>1 DEF AdvanceStep, Lands, Crosses
      <3> QED BY <3>1, <3>2
    <2> HIDE DEF a, claim
    <2>6. /\ task'.cursor = task.cursor /\ task'.pending = task.pending
          /\ task'.decisionId = task.decisionId
          /\ task'.decisionCall = task.decisionCall
      BY <1>0, <2>2, <2>4, <2>5 DEF WriteAnswer, Crosses, TaskRow
    <2>7. run' = run /\ changed' = changed /\ reviews' = reviews
      BY <1>4 DEF AdvanceFromApi
    <2>8. Way' = Way /\ Caller' = Caller /\ LatestId' = LatestId
      BY <2>6, <2>7 DEF Way, Judged, Reported, ReadsChanges, Caller, LatestId
    <2> QED BY <2>3, <2>6, <2>7, <2>8 DEF Kept
  <1>5. CASE \/ StartRun \/ TakeUp \/ LeaveSpentDecision \/ ApplyDecision
            \/ HarnessRound \/ HarnessFails \/ Settle \/ OpenGate \/ Integrate
    <2>1. mishaps = {}
      BY <1>5 DEF StartRun, TakeUp, LeaveSpentDecision, ApplyDecision, HarnessRound,
                  HarnessFails, Settle, OpenGate, Integrate
    <2>2. Kept
      BY <2>1 DEF KeptInv
    <2>3. ~run'.crossed
      <3>1. CASE Settle
        <4> DEFINE settled == [run EXCEPT !.call = "none", !.result = NoResult,
                                          !.crossed = FALSE]
        <4>1. ~settled.crossed /\ settled \in Run
          BY <1>0, NoRunTyped DEF Run, CallName
        <4>2. \/ run' = NoRun
              \/ run' = [settled EXCEPT !.pc = "gate"]
              \/ run' = [settled EXCEPT !.pc = "integrate"]
              \/ run' = [settled EXCEPT !.pc = "round", !.leg = Believed.step,
                                       !.round = 0, !.claim = NoClaim]
              \/ run' = [settled EXCEPT !.pc = "round", !.leg = Believed.step,
                                       !.round = settled.round + 1,
                                       !.claim = NoClaim]
          BY <3>1 DEF Settle
        <4> HIDE DEF settled
        <4>3. ~NoRun.crossed
          BY DEF NoRun
        <4>4. \A p, l, n, c :
                 /\ ~[settled EXCEPT !.pc = p].crossed
                 /\ ~[settled EXCEPT !.pc = p, !.leg = l, !.round = n,
                                     !.claim = c].crossed
          BY <4>1, OthersKeepCrossed
        <4> QED BY <4>2, <4>3, <4>4
      <3>2. CASE ApplyDecision
        <4>1. ~run.crossed
          BY <2>2, <3>2 DEF ApplyDecision, Kept
        <4>2. \/ run' = NoRun
              \/ run' = [run EXCEPT !.pc = "round",
                                   !.applying = decided[run.review].settles,
                                   !.claim = NoClaim]
              \/ run' = [run EXCEPT !.pc = "report", !.call = "decision"]
          BY <3>2 DEF ApplyDecision
        <4>3. ~NoRun.crossed
          BY DEF NoRun
        <4>4. \A p, n, b, c :
                 /\ ~[run EXCEPT !.pc = p, !.call = n].crossed
                 /\ ~[run EXCEPT !.pc = p, !.applying = b, !.claim = c].crossed
          BY <1>0, <4>1, OthersKeepCrossed
        <4> QED BY <4>2, <4>3, <4>4
      <3>3. CASE HarnessRound
        <4>1. ~run.crossed
          BY <2>2, <3>3 DEF HarnessRound, Kept
        <4>2. \/ \E c : run' = [run EXCEPT !.pc = "gate", !.applying = FALSE,
                                          !.claim = c]
              \/ \E n, c : run' = [run EXCEPT !.pc = "report", !.call = n,
                                             !.applying = FALSE, !.claim = c]
          BY <3>3 DEF HarnessRound
        <4>3. \A p, n, b, c :
                 /\ ~[run EXCEPT !.pc = p, !.applying = b, !.claim = c].crossed
                 /\ ~[run EXCEPT !.pc = p, !.call = n, !.applying = b,
                                 !.claim = c].crossed
          BY <1>0, <4>1, OthersKeepCrossed
        <4> QED BY <4>2, <4>3
      <3>4. CASE TakeUp
        BY <1>0, <2>2, <3>4 DEF TakeUp, Run, Kept
      <3>5. CASE \/ StartRun \/ LeaveSpentDecision \/ HarnessFails \/ OpenGate
                \/ Integrate
        <4>1. CASE StartRun
          <5>1. PICK e \in inbox :
                   run' = [NoRun EXCEPT
                            !.pc = IF e.review = NoReview THEN "round" ELSE "take-up",
                            !.review = e.review, !.leg = task.cursor,
                            !.claim = task.completion]
            BY <4>1 DEF StartRun
          <5>2. ~NoRun.crossed
            BY DEF NoRun
          <5> QED BY <5>1, <5>2, NoRunTyped, OthersKeepCrossed
        <4>2. CASE run' = NoRun
          BY <4>2 DEF NoRun
        <4> QED BY <3>5, <4>1, <4>2 DEF LeaveSpentDecision, HarnessFails, OpenGate,
                                        Integrate
      <3> QED BY <1>5, <3>1, <3>2, <3>3, <3>4, <3>5
    <2> QED BY <2>3 DEF Kept
  <1>6. CASE DieAfterCommit
    <2>1. /\ Kept /\ run.pc \in {"took", "reported"}
          /\ task' = task /\ changed' = changed /\ reviews' = reviews
          /\ run' = [run EXCEPT !.pc = IF run.pc = "took" THEN "take-up"
                                                        ELSE "report"]
      BY <1>6 DEF DieAfterCommit, KeptInv
    <2>2. /\ run'.pc \in {"take-up", "report"} /\ run'.crossed = run.crossed
          /\ run'.leg = run.leg /\ run'.claim = run.claim
          /\ run.pc = "took" => ~run.crossed
          /\ Caller' = Caller
      BY <1>0, <2>1 DEF Run, Kept, Caller
    <2>3. Way' = Way /\ LatestId' = LatestId
      BY <2>1, <2>2 DEF Way, Judged, Reported, ReadsChanges, LatestId
    <2>4. run.pc = "took" => ~run'.crossed
      BY <2>2
    <2>5. run.pc = "reported" => run'.pc = "report"
      BY <1>0, <2>1 DEF Run
    <2> QED BY <2>1, <2>2, <2>3, <2>4, <2>5 DEF Kept
  <1>7. CASE \/ Launch \/ Move \/ SendDecision \/ ForceReview \/ DeliverAgain
            \/ UNCHANGED vars
    <2>1. /\ mishaps = {} /\ run' = run /\ changed' = changed /\ reviews' = reviews
      BY <1>7 DEF Launch, Move, SendDecision, ForceReview, DeliverAgain, vars
    <2>2. /\ task'.cursor = task.cursor /\ task'.pending = task.pending
          /\ task'.decisionId = task.decisionId
          /\ task'.decisionCall = task.decisionCall
      BY <1>0, <1>7 DEF Launch, Move, SendDecision, ForceReview, DeliverAgain, vars,
                        TaskRow
    <2>3. Way' = Way /\ Caller' = Caller /\ LatestId' = LatestId
      BY <2>1, <2>2 DEF Way, Judged, Reported, ReadsChanges, Caller, LatestId
    <2> QED BY <2>1, <2>2, <2>3 DEF Kept, KeptInv
  <1> QED BY <1>1, <1>2, <1>3, <1>4, <1>5, <1>6, <1>7 DEF Next

\* What a run goes on from is the crossing it committed, however often its
\* process dies before the engine hears of it, unless somebody outside the run
\* moved the Task or a newer decision was made on a Workflow that was ending.
THEOREM CrossingIsKept == Spec => []CommittedCrossingIsKept
  <1>1. Init => KeptInv
    BY DEF Init, KeptInv, Kept, NoRun
  <1>2. TypeOK /\ LedgerInv /\ KeptInv => CommittedCrossingIsKept
    <2> SUFFICES ASSUME TypeOK, LedgerInv, KeptInv, run.pc = "reported",
                        run.crossed, mishaps = {},
                        Believed.status \notin {"advanced", "completed"}
                 PROVE  task.cursor = run.leg /\ LatestId > task.decisionId
      BY DEF CommittedCrossingIsKept
    <2>1. Kept /\ Ledger
      BY DEF KeptInv, LedgerInv
    <2>2. task.cursor = run.leg
      BY <2>1 DEF Kept, Believed
    <2>3. run.result.status \notin {"advanced", "completed"}
      BY DEF Believed
    <2>4. task.decisionId # NoReview /\ LatestId # task.decisionId
      BY <2>1, <2>2, <2>3 DEF Kept
    <2> QED BY <2>1, <2>2, <2>4, NewestIsNoOlder
  <1> QED BY <1>1, <1>2, KeptStep, Typing, LedgerHolds, PTL DEF Spec
-----------------------------------------------------------------------------
(* The rows and the column behave as an abstract ledger.                   *)

\* Until a decision is taken back, the rows are the decisions made.
RowsInv == "forgotten" \notin mishaps => reviews = 1 .. DecisionsMade

\* A step that makes no decision, takes none back and calls no transaction.
Quiet == \/ Launch \/ Move \/ SendDecision \/ ForceReview \/ DeliverAgain
         \/ StartRun \/ TakeUp \/ LeaveSpentDecision \/ ApplyDecision
         \/ HarnessRound \/ HarnessFails \/ Settle \/ DieAfterCommit
         \/ OpenGate \/ Integrate \/ UNCHANGED vars

LEMMA QuietChangesNothing ==
    ASSUME TypeOK, Quiet
    PROVE  /\ reviews' = reviews /\ decided' = decided /\ spent' = spent
           /\ mishaps' = mishaps /\ DecisionsMade' = DecisionsMade
  <1>1. /\ reviews' = reviews /\ decided' = decided /\ spent' = spent
        /\ mishaps' = mishaps
    BY DEF Quiet, Launch, Move, SendDecision, ForceReview, DeliverAgain, StartRun,
           TakeUp, LeaveSpentDecision, ApplyDecision, HarnessRound, HarnessFails,
           Settle, DieAfterCommit, OpenGate, Integrate, vars
  <1>2. \/ used' = used
        \/ \E bound \in Bounded \ {"reviews"} : Spend(bound)
    BY DEF Quiet, Launch, Move, SendDecision, ForceReview, DeliverAgain, StartRun,
           TakeUp, LeaveSpentDecision, ApplyDecision, HarnessRound, HarnessFails,
           Settle, DieAfterCommit, OpenGate, Integrate, vars, Bounded
  <1>3. DecisionsMade' = DecisionsMade
    BY <1>2, BoundSpent DEF DecisionsMade
  <1> QED BY <1>1, <1>3

\* What is not quiet changes the number of decisions only by making one.
LEMMA OnlyDecideDecides ==
    ASSUME TypeOK, ForgetDecision \/ Rebind \/ AdvanceFromApi \/ Report
    PROVE  decided' = decided /\ DecisionsMade' = DecisionsMade
  <1>1. decided' = decided
    BY DEF ForgetDecision, Rebind, AdvanceFromApi, Report
  <1>2. \/ used' = used
        \/ \E bound \in Bounded \ {"reviews"} : Spend(bound)
    BY DEF ForgetDecision, Rebind, AdvanceFromApi, Report, Bounded
  <1> QED BY <1>1, <1>2, BoundSpent DEF DecisionsMade

LEMMA RowsStep == TypeOK /\ RowsInv /\ [Next]_vars => RowsInv'
  <1> SUFFICES ASSUME TypeOK, RowsInv, [Next]_vars, "forgotten" \notin mishaps'
               PROVE  reviews' = 1 .. DecisionsMade'
    BY DEF RowsInv
  <1>1. CASE Decide
    <2>1. DecisionsMade' = DecisionsMade + 1 /\ DecisionsMade \in Nat
      BY <1>1, BoundSpent DEF Decide, Bounded, TypeOK, DecisionsMade
    <2>2. reviews' = reviews \union {DecisionsMade + 1} /\ mishaps' = mishaps
      BY <1>1 DEF Decide
    <2> QED BY <2>1, <2>2 DEF RowsInv
  <1>2. CASE ForgetDecision
    BY <1>2 DEF ForgetDecision
  <1>3. CASE Rebind \/ AdvanceFromApi \/ Report
    <2>1. reviews' = reviews /\ "forgotten" \notin mishaps
      BY <1>3 DEF Rebind, AdvanceFromApi, Report
    <2> QED BY <1>3, <2>1, OnlyDecideDecides DEF RowsInv
  <1>4. CASE Quiet
    BY <1>4, QuietChangesNothing DEF RowsInv
  <1> QED BY <1>1, <1>2, <1>3, <1>4 DEF Next, Quiet

\* The newest row is the newest decision.
LEMMA NewestIsLast ==
    ASSUME TypeOK, RowsInv, "forgotten" \notin mishaps, LatestApproves
    PROVE  LatestId = DecisionsMade /\ DecisionsMade # 0
  <1>1. DecisionsMade \in Nat /\ reviews = 1 .. DecisionsMade
    BY DEF TypeOK, DecisionsMade, Bounded, RowsInv
  <1>2. reviews # {} /\ LatestId = Max(reviews)
    BY DEF LatestApproves, LatestId
  <1>3. LatestId \in 1 .. DecisionsMade /\ \A r \in 1 .. DecisionsMade : r <= LatestId
    BY <1>1, <1>2, MaxIsGreatest
  <1> QED BY <1>1, <1>3

\* The transaction opens a gate of the ledger, or none.
LEMMA AnswerOpensAtMostOne ==
    ASSUME TypeOK, LedgerInv, RowsInv, mishaps \subseteq {"overtaken"},
           NEW a, AnswerOK(a), NEW claim \in Claim, NEW call \in CallName,
           NEW round \in Nat, WriteAnswer(a, claim, call, round),
           decided' = decided, DecisionsMade' = DecisionsMade,
           mishaps' \subseteq {"overtaken"}
    PROVE  [Approvals!Next]_(Approvals!vars)
  <1>1. CASE a.spends
    <2>1. LatestApproves /\ LatestId # task.decisionId /\ LatestId \in ReviewIds
      BY <1>1 DEF AnswerOK, UnspentApproval
    <2>2. LatestId = DecisionsMade /\ DecisionsMade # 0
      BY <2>1, NewestIsLast
    <2>3. spent' = [spent EXCEPT ![DecisionsMade] = @ + 1]
      BY <1>1, <2>2 DEF WriteAnswer
    <2>4. LatestId > task.decisionId /\ task.decisionId \in Nat
      <3>1. task.decisionId \in reviews \union {NoReview} /\ reviews \subseteq ReviewIds
        BY DEF LedgerInv, Ledger, OnRecord, TypeOK
      <3>2. \A r \in reviews : r <= LatestId
        BY LatestIsAReview DEF TypeOK
      <3> QED BY <2>1, <3>1, <3>2, ReviewIdsAreNumbers DEF NoReview
    <2>5. spent[DecisionsMade] = 0 /\ spent \in [ReviewIds -> Nat]
      <3>1. spent \in [ReviewIds -> Nat]
        BY DEF TypeOK
      <3>2. \A r \in ReviewIds :
               spent[r] <= 1 /\ (spent[r] = 1 => r <= task.decisionId)
        BY DEF LedgerInv, Ledger
      <3>3. DecisionsMade \in ReviewIds /\ DecisionsMade \in Nat
        BY <2>1, <2>2, ReviewIdsAreNumbers
      <3>4. DecisionsMade > task.decisionId
        BY <2>2, <2>4
      <3>5. spent[DecisionsMade] <= 1 /\ spent[DecisionsMade] # 1
        BY <2>4, <3>2, <3>3, <3>4
      <3>6. spent[DecisionsMade] \in Nat
        BY <3>1, <3>3
      <3> QED BY <3>1, <3>5, <3>6
    <2>6. spent' = [spent EXCEPT ![DecisionsMade] = 1]
      BY <2>3, <2>5
    <2>7. Approvals!OpenGate
      BY <2>1, <2>2, <2>5, <2>6 DEF Approvals!OpenGate, LatestApproves
    <2> QED BY <2>7 DEF Approvals!Next
  <1>2. CASE ~a.spends
    <2>1. spent' = spent
      BY <1>2 DEF WriteAnswer
    <2> QED BY <2>1 DEF Approvals!vars
  <1> QED BY <1>1, <1>2 DEF AnswerOK

LEMMA StepIsALedgerStep ==
    TypeOK /\ TakingUp /\ LedgerInv /\ RowsInv /\ [Next]_vars
        => [Approvals!Next]_(Approvals!vars)
  <1> SUFFICES ASSUME TypeOK, TakingUp, LedgerInv, RowsInv, [Next]_vars
               PROVE  [Approvals!Next]_(Approvals!vars)
    OBVIOUS
  <1>1. CASE ~(mishaps \subseteq {"overtaken"})
    <2>1. mishaps \subseteq mishaps'
      <3>1. CASE Decide \/ ForgetDecision \/ Rebind \/ AdvanceFromApi \/ Report
        BY <3>1 DEF Decide, ForgetDecision, Rebind, AdvanceFromApi, Report
      <3>2. CASE Quiet
        BY <3>2, QuietChangesNothing
      <3> QED BY <3>1, <3>2 DEF Next, Quiet
    <2>2. Approvals!Lapsed
      BY <1>1, <2>1 DEF Approvals!Lapsed
    <2> QED BY <2>2 DEF Approvals!Next
  <1>2. CASE mishaps \subseteq {"overtaken"}
    <2>1. CASE Decide
      <3>1. /\ DecisionsMade' = DecisionsMade + 1
            /\ DecisionsMade + 1 \in ReviewIds
        BY <2>1, BoundSpent DEF Decide, Bounded
      <3>2. spent' = spent /\ mishaps' = mishaps
        BY <2>1 DEF Decide
      <3>3. Approvals!Decide
        BY <3>1, <3>2 DEF Approvals!Decide
      <3> QED BY <3>3 DEF Approvals!Next
    <2>2. CASE ForgetDecision \/ Rebind
      <3>1. spent' = spent /\ ~(mishaps' \subseteq {"overtaken"})
        BY <2>2 DEF ForgetDecision, Rebind
      <3>2. Approvals!Lapse
        BY <2>2, <3>1, OnlyDecideDecides DEF Approvals!Lapse
      <3> QED BY <3>2 DEF Approvals!Next
    <2>3. CASE AdvanceFromApi
      <3>1. PICK from \in StepIds, signal \in Signals, o \in Outcomes :
               WriteAnswer(Answer(from, signal, [account |-> Silent, outcome |-> o],
                                  "api", 0),
                           [account |-> Silent, outcome |-> o], "api", 0)
        BY <2>3 DEF AdvanceFromApi
      <3> DEFINE claim == [account |-> Silent, outcome |-> o]
                 a == Answer(from, signal, claim, "api", 0)
      <3>2. claim \in Claim /\ AnswerOK(a) /\ "api" \in CallName /\ 0 \in Nat
        BY AnswerIsOK DEF Claim, Account, Silent, CallName
      <3>3. mishaps' \subseteq {"overtaken"}
        BY <1>2, <2>3 DEF AdvanceFromApi
      <3>4. WriteAnswer(a, claim, "api", 0)
        BY <3>1
      <3> HIDE DEF claim, a
      <3> QED BY <1>2, <2>3, <3>2, <3>3, <3>4, OnlyDecideDecides, AnswerOpensAtMostOne
    <2>4. CASE Report
      <3> DEFINE a == Answer(run.leg, Steps[run.leg].advanceOn, run.claim, run.call,
                             run.round)
      <3>1. WriteAnswer(a, run.claim, run.call, run.round) /\ mishaps' = mishaps
        BY <2>4 DEF Report
      <3>2. AnswerOK(a)
        BY AnswerIsOK
      <3>3. run.claim \in Claim /\ run.call \in CallName /\ run.round \in Nat
        BY DEF TypeOK, Run
      <3> HIDE DEF a
      <3> QED BY <1>2, <2>4, <3>1, <3>2, <3>3, OnlyDecideDecides, AnswerOpensAtMostOne
    <2>5. CASE Quiet
      BY <2>5, QuietChangesNothing DEF Approvals!vars
    <2> QED BY <2>1, <2>2, <2>3, <2>4, <2>5 DEF Next, Quiet
  <1> QED BY <1>1, <1>2

\* Only the newest decision counts, and an approval opens one gate, for every
\* definition, every number of decisions and every order of runs and replays,
\* until a decision is taken back or what was spent is forgotten.
THEOREM RowsAreALedger == Spec => ActsAsALedger
  <1>1. Init => Approvals!Init /\ RowsInv /\ LedgerInv
    <2>1. Init => Approvals!Init
      BY DEF Init, Approvals!Init, DecisionsMade, Bounded
    <2>2. Init => RowsInv
      BY DEF Init, RowsInv, DecisionsMade, Bounded
    <2>3. Init => LedgerInv
      BY DEF Init, LedgerInv, Ledger, OnRecord, ToldComplete, NoRun
    <2> QED BY <2>1, <2>2, <2>3
  <1> QED BY <1>1, InitTyped, TypedStep, LedgerStep, RowsStep, StepIsALedgerStep,
             PTL DEF Spec, ActsAsALedger, Approvals!Spec
=============================================================================
