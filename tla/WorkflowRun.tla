---------------------------- MODULE WorkflowRun ----------------------------
(***************************************************************************)
(* One Task on a Workflow: its cursor, the ledger of review decisions made *)
(* on it, and the durable runs that move the one by spending the other     *)
(* (packages/db/src/workflow-run.ts, task-run.ts and task-run/{decision,   *)
(* finish,advance}.ts of the orchestrator, routers/review.ts and           *)
(* dal/workflow.ts of the web app).                                        *)
(*                                                                         *)
(* A durable step commits its transaction before the engine records its    *)
(* result, so a process that dies in between runs the same step body       *)
(* again: the pc values "took" and "reported" are that window. A decision  *)
(* is a row, then an event; an event may be delivered twice, and a send    *)
(* that fails takes the row back whether or not the event arrived. The     *)
(* engine lets one run work on the Task at a time and the others wait.     *)
(***************************************************************************)
EXTENDS WorkflowRules, FiniteSetsExt

CONSTANTS
    Steps,       \* the definition the Task is on
    Reports,     \* how a harness round may end
    Bounds       \* how much of each of Bounded may happen

Bounded ==
    {"reviews",  \* decisions made on the Task
     "rounds",   \* harness rounds, over all runs
     "starts",   \* launches, retries and reopenings
     "faults",   \* second deliveries, and deaths between a commit and its
                 \* recorded result
     "calls"}    \* calls of workflow.advanceTask and forceReview, rebindings

Claim == [account : Account, outcome : Outcomes \union {"none"}]
NoClaim == [account |-> Silent, outcome |-> "none"]

ASSUME StepsAssumption == IsDefinition(Steps)
ASSUME ReportsAssumption ==
    Reports \subseteq [claim : Claim, asks : BOOLEAN, wrote : BOOLEAN]
ASSUME BoundsAssumption == Bounds \in [Bounded -> Nat]

VARIABLES
    task,     \* the Task row: state, workflow columns, completion
    reviews,  \* the review rows, by id; ids grow in the order of insertion
    decided,  \* what each decision said, as its row and its event carry it
    taken,    \* the decisions with an applied_at
    changed,  \* the Session log holds a diff naming a file
    askedAt,  \* per Step: 0, or the first decision that could answer it
    forced,   \* Steps a person forced a review on
    inbox,    \* launch events the engine holds for this Task
    run,      \* the run the engine lets work on this Task
    sending,  \* the decision whose event is being sent, or NoReview
    spent,    \* history: crossings each decision was spent on
    applied,  \* history: runs that applied each decision
    mishaps,  \* history: which of Mishaps have happened
    used      \* how much of each bound is used up

vars == <<task, reviews, decided, taken, changed, askedAt, forced, inbox, run,
          sending, spent, applied, mishaps, used>>

StepIds == 1 .. Len(Steps)
ReviewIds == 1 .. Bounds["reviews"]
NoReview == 0
ReviewRef == {NoReview} \union ReviewIds

Decision == [kind : {"approve", "reject", "request_changes"},
             settles : BOOLEAN]          \* the feedback settles decisions
Undecided == [kind |-> "reject", settles |-> FALSE]

\* A durable step is named by what it does and the round it does it in.
CallName == {"none", "api", "decision", "signal", "applied"}
SpentHere == [step : {End} \union StepIds, call : CallName, round : Nat]
NotSpent == [step |-> End, call |-> "none", round |-> 0]

TaskRow ==
    [state : {"ready", "running", "review", "done", "failed"},
     cursor : StepIds,
     pending : Account,                  \* workflowPendingHandoff
     decisionId : ReviewRef,
     decisionCall : SpentHere,
     completion : Claim]                 \* completedOutcome, -Summary

Result == [status : Statuses \union {"stale", "none"}, step : StepIds]
NoResult == [status |-> "none", step |-> 1]

Run == [pc : {"idle", "take-up", "took", "round", "report", "reported",
              "gate", "integrate"},
        review : ReviewRef, won : BOOLEAN, leg : StepIds,
        round : Nat, applying : BOOLEAN, call : CallName,
        claim : Claim, result : Result,
        crossed : BOOLEAN]               \* history: this call crossed a gate
NoRun == [pc |-> "idle", review |-> NoReview, won |-> FALSE, leg |-> 1,
          round |-> 0, applying |-> FALSE, call |-> "none", claim |-> NoClaim,
          result |-> NoResult, crossed |-> FALSE]

\* A decision taken back when its event could not be sent, the Task put on its
\* Workflow anew, the cursor moved by a caller outside the run.
Mishaps == {"forgotten", "rebound", "overtaken"}

\* A launch event; copy 2 is a second delivery of it.
Event == [review : ReviewRef, copy : 1 .. 2]
Sent(r) == [review |-> r, copy |-> 1]

DecisionsMade == used["reviews"]
Spend(bound) == /\ used[bound] < Bounds[bound]
                /\ used' = [used EXCEPT ![bound] = @ + 1]

TypeOK ==
    /\ task \in TaskRow
    /\ reviews \subseteq ReviewIds
    /\ decided \in [ReviewIds -> Decision]
    /\ taken \subseteq ReviewIds
    /\ changed \in BOOLEAN
    /\ askedAt \in [StepIds -> {NoReview} \union 1 .. Bounds["reviews"] + 1]
    /\ forced \subseteq StepIds
    /\ inbox \subseteq Event
    /\ run \in Run
    /\ sending \in ReviewRef
    /\ spent \in [ReviewIds -> Nat]
    /\ applied \in [ReviewIds -> Nat]
    /\ mishaps \subseteq Mishaps
    /\ used \in [Bounded -> Nat]
    /\ \A b \in Bounded : used[b] <= Bounds[b]

Init ==
    /\ task = [state |-> "ready", cursor |-> 1, pending |-> Silent,
               decisionId |-> NoReview, decisionCall |-> NotSpent,
               completion |-> NoClaim]
    /\ reviews = {}
    /\ decided = [r \in ReviewIds |-> Undecided]
    /\ taken = {}
    /\ changed = FALSE
    /\ askedAt = [s \in StepIds |-> 0]
    /\ forced = {}
    /\ inbox = {}
    /\ run = NoRun
    /\ sending = NoReview
    /\ spent = [r \in ReviewIds |-> 0]
    /\ applied = [r \in ReviewIds |-> 0]
    /\ mishaps = {}
    /\ used = [b \in Bounded |-> 0]

-----------------------------------------------------------------------------
(* The shared transaction: report a Step finished, move the cursor.        *)

\* Mutant of LatestId: the newest approval, whatever was decided since.
LatestApprovalId ==
    LET approvals == {r \in reviews : decided[r].kind = "approve"}
    IN  IF approvals = {} THEN NoReview ELSE Max(approvals)

\* The newest decision on the Task, by insertion order, is an approval.
LatestId == IF reviews = {} THEN NoReview ELSE Max(reviews)

LatestApproves == LatestId # NoReview /\ decided[LatestId].kind = "approve"

ApprovalOnRecord == LatestApproves

UnspentApproval == LatestApproves /\ LatestId # task.decisionId

\* The same approval, spent by this same call on this same Step: a replay.
AlreadySpentBy(here) ==
    LatestApproves /\ LatestId = task.decisionId /\ task.decisionCall = here

ReadsChanges(s) == Steps[s].gate = "auto-unless-changes"
                   \/ Steps[s].when = "produced-changes"

\* What the Step reported: the caller's words, or the ones parked for it.
Reported(claim) == IF claim.account.said THEN claim.account ELSE task.pending

StepOutcome(signal, claim, here) ==
    [signal |-> signal,
     producedChanges |-> claim.outcome = "changes_ready"
                         \/ (ReadsChanges(task.cursor) /\ changed),
     unspent |-> UnspentApproval,
     spentHere |-> AlreadySpentBy(here),
     account |-> Reported(claim),
     outcome |-> claim.outcome,
     asked |-> askedAt[task.cursor] # 0,
     forced |-> task.cursor \in forced]

Here(call, round) == [step |-> task.cursor, call |-> call, round |-> round]

\* A caller names the Step it believes it is finishing.
NamesAnyStep(from) == TRUE

NamesCursor(from) == from = task.cursor

\* What advanceTaskWorkflow answers ...
Answer(from, signal, claim, call, round) ==
    IF ~NamesCursor(from)
    THEN [status |-> "stale", step |-> task.cursor, spends |-> FALSE]
    ELSE AdvanceStep(Steps, task.cursor,
                     StepOutcome(signal, claim, Here(call, round)))

\* ... and what it writes, in the same transaction.
WriteAnswer(a, claim, call, round) ==
    /\ task' = IF a.status = "stale" THEN task
               ELSE [task EXCEPT
                       !.cursor = a.step,
                       !.pending = IF a.status = "advanced"
                                   THEN Silent ELSE Reported(claim),
                       !.decisionId = IF a.spends THEN LatestId ELSE @,
                       !.decisionCall = IF a.spends THEN Here(call, round)
                                                    ELSE @]
    /\ spent' = IF a.spends THEN [spent EXCEPT ![LatestId] = @ + 1] ELSE spent

\* A gate crossed: the cursor moved, or an approval went into the Workflow's end.
Crosses(a) == a.status = "advanced" \/ a.spends

-----------------------------------------------------------------------------
(* The web app: starts, decisions, and what else a person can do.          *)

\* launch from ready, retry from failed: the claim, then the event.
Launch ==
    /\ task.state \in {"ready", "failed"}
    /\ Spend("starts")
    /\ task' = [task EXCEPT !.state = "running"]
    /\ inbox' = inbox \union {Sent(NoReview)}
    /\ UNCHANGED <<reviews, decided, taken, changed, askedAt, forced, run,
                   sending, spent, applied, mishaps>>

\* task.move, where it starts nothing: it neither stops nor consults the run.
Moves == {<<"running", "review">>, <<"running", "failed">>,
          <<"review", "ready">>, <<"review", "done">>, <<"done", "ready">>}

Move ==
    /\ Spend("starts")
    /\ \E move \in Moves :
          /\ task.state = move[1]
          /\ task' = [task EXCEPT
                        !.state = move[2],
                        !.completion = IF move[2] = "ready" THEN NoClaim ELSE @]
    /\ UNCHANGED <<reviews, decided, taken, changed, askedAt, forced, inbox,
                   run, sending, spent, applied, mishaps>>

\* review.decide: take the gate, write the row; the event is sent next.
Decide ==
    /\ task.state = "review"
    /\ sending = NoReview
    /\ Spend("reviews")
    /\ \E d \in Decision :
          /\ d.settles => d.kind = "approve"
          /\ decided' = [decided EXCEPT ![DecisionsMade + 1] = d]
    /\ reviews' = reviews \union {DecisionsMade + 1}
    /\ sending' = DecisionsMade + 1
    /\ task' = [task EXCEPT !.state = "running"]
    /\ UNCHANGED <<taken, changed, askedAt, forced, inbox, run, spent, applied,
                   mishaps>>

SendDecision ==
    /\ sending # NoReview
    /\ inbox' = inbox \union {Sent(sending)}
    /\ sending' = NoReview
    /\ UNCHANGED <<task, reviews, decided, taken, changed, askedAt, forced,
                   run, spent, applied, mishaps, used>>

\* The send threw, though the event may have arrived all the same: the row is
\* forgotten and the gate put back.
ForgetDecision ==
    /\ sending # NoReview
    /\ inbox' \in {inbox, inbox \union {Sent(sending)}}
    /\ reviews' = reviews \ {sending}
    /\ task' = [task EXCEPT !.state = "review"]
    /\ sending' = NoReview
    /\ mishaps' = mishaps \union {"forgotten"}
    /\ UNCHANGED <<decided, taken, changed, askedAt, forced, run, spent,
                   applied, used>>

\* workflow.forceReview, on or off, at any time.
ForceReview ==
    /\ Spend("calls")
    /\ \E s \in StepIds : forced' = IF s \in forced THEN forced \ {s}
                                                    ELSE forced \union {s}
    /\ UNCHANGED <<task, reviews, decided, taken, changed, askedAt, inbox, run,
                   sending, spent, applied, mishaps>>

\* workflow.advanceTask, called from outside a run and without a handoff.
AdvanceFromApi ==
    /\ Spend("calls")
    /\ \E from \in StepIds, signal \in Signals, o \in Outcomes :
          LET claim == [account |-> Silent, outcome |-> o]
              a == Answer(from, signal, claim, "api", 0)
          IN  /\ WriteAnswer(a, claim, "api", 0)
              /\ mishaps' = IF Crosses(a) THEN mishaps \union {"overtaken"}
                                          ELSE mishaps
    /\ UNCHANGED <<reviews, decided, taken, changed, askedAt, forced, inbox,
                   run, sending, applied>>

\* Detach the Task from its Workflow and attach it again: every column of the
\* binding is cleared but workflowDecisionCall.
Rebind ==
    /\ task.state = "ready"
    /\ Spend("calls")
    /\ task' = [task EXCEPT !.cursor = 1, !.pending = Silent,
                            !.decisionId = NoReview]
    /\ forced' = {}
    /\ mishaps' = mishaps \union {"rebound"}
    /\ UNCHANGED <<reviews, decided, taken, changed, askedAt, inbox, run,
                   sending, spent, applied>>

-----------------------------------------------------------------------------
(* The orchestrator: one run at a time.                                    *)

StartRun ==
    /\ run.pc = "idle"
    /\ \E e \in inbox :
          /\ inbox' = inbox \ {e}
          /\ run' = [NoRun EXCEPT
                       !.pc = IF e.review = NoReview THEN "round"
                                                     ELSE "take-up",
                       !.review = e.review,
                       !.leg = task.cursor,
                       !.claim = task.completion]
    /\ UNCHANGED <<task, reviews, decided, taken, changed, askedAt, forced,
                   sending, spent, applied, mishaps, used>>

\* The engine delivers at least once.
DeliverAgain ==
    /\ Spend("faults")
    /\ \E e \in inbox : inbox' = inbox \union {[e EXCEPT !.copy = 2]}
    /\ UNCHANGED <<task, reviews, decided, taken, changed, askedAt, forced, run,
                   sending, spent, applied, mishaps>>

\* The conditional write that takes a decision up once.
TakesUpAnyRow(r) == r \in reviews

TakesUp(r) == r \in reviews \ taken

TakeUp ==
    /\ run.pc = "take-up"
    /\ run' = [run EXCEPT !.pc = "took", !.won = TakesUp(run.review)]
    /\ taken' = IF TakesUp(run.review) THEN taken \union {run.review} ELSE taken
    /\ UNCHANGED <<task, reviews, decided, changed, askedAt, forced, inbox,
                   sending, spent, applied, mishaps, used>>

LeaveSpentDecision ==
    /\ run.pc = "took" /\ ~run.won
    /\ run' = NoRun
    /\ UNCHANGED <<task, reviews, decided, taken, changed, askedAt, forced,
                   inbox, sending, spent, applied, mishaps, used>>

BackToWork == [task EXCEPT !.state = "running", !.completion = NoClaim]

\* applyDecision, by what was decided. An approval that settles decisions goes
\* back to the harness first and stays unspent until that round has ended. The
\* run fails where the decision has nothing to act on: its worktree is gone, or
\* a predecessor of the Task was reopened.
ApplyDecision ==
    LET d == decided[run.review]
    IN  /\ run.pc = "took" /\ run.won
        /\ applied' = [applied EXCEPT ![run.review] = @ + 1]
        /\ \/ /\ d.kind = "request_changes" \/ d.settles
              /\ task' = BackToWork
              /\ run' = [run EXCEPT !.pc = "round", !.applying = d.settles,
                                    !.claim = NoClaim]
           \/ /\ d.kind = "reject"
              /\ task' = [task EXCEPT
                            !.state = "ready",
                            !.pending = IF task.cursor = run.leg
                                        THEN Silent ELSE @]
              /\ run' = NoRun
           \/ /\ d.kind = "approve" /\ ~d.settles
              /\ run' = [run EXCEPT !.pc = "report", !.call = "decision"]
              /\ UNCHANGED task
           \/ /\ task' = [task EXCEPT !.state = "failed"]
              /\ run' = NoRun
        /\ UNCHANGED <<reviews, decided, taken, changed, askedAt, forced,
                       inbox, sending, spent, mishaps, used>>

\* What finishRound does after a round: report the Step finished, or gate.
AfterRound(claim, asks) ==
    LET hold == HoldAfterApplying(Steps, run.leg, claim.outcome, asks)
    IN  IF run.applying
        THEN IF hold THEN "gate" ELSE "applied"
        ELSE IF Steps[run.leg].advanceOn = "agent-signal" THEN "signal"
        ELSE "gate"

\* A harness round that ends with a report, asking the reviewer decisions or
\* not, and the completion and diff recorded for it. No declared outcome is
\* recorded as changes_ready.
HarnessRound ==
    /\ run.pc = "round"
    /\ Spend("rounds")
    /\ \E report \in Reports :
          LET claim == report.claim
              next == AfterRound(claim, report.asks)
              said == IF next = "applied"     \* the settled decisions go along
                      THEN [claim EXCEPT !.account.said = TRUE] ELSE claim
          IN  /\ task' = [task EXCEPT !.completion =
                            IF claim.outcome = "none"
                            THEN [claim EXCEPT !.outcome = "changes_ready"]
                            ELSE claim]
              /\ changed' = (changed \/ report.wrote)
              /\ askedAt' = IF report.asks
                            THEN [askedAt EXCEPT ![run.leg] = DecisionsMade + 1]
                            ELSE askedAt
              /\ run' = IF next = "gate"
                        THEN [run EXCEPT !.pc = "gate", !.applying = FALSE,
                                         !.claim = claim]
                        ELSE [run EXCEPT !.pc = "report", !.call = next,
                                         !.applying = FALSE, !.claim = said]
    /\ UNCHANGED <<reviews, decided, taken, forced, inbox, sending, spent,
                   applied, mishaps>>

HarnessFails ==
    /\ run.pc = "round"
    /\ task' = [task EXCEPT !.state = "failed"]
    /\ run' = NoRun
    /\ UNCHANGED <<reviews, decided, taken, changed, askedAt, forced, inbox,
                   sending, spent, applied, mishaps, used>>

\* The durable step body of reportStepFinished, up to its commit.
Report ==
    /\ run.pc = "report"
    /\ LET a == Answer(run.leg, Steps[run.leg].advanceOn, run.claim, run.call,
                       run.round)
       IN  /\ WriteAnswer(a, run.claim, run.call, run.round)
           /\ run' = [run EXCEPT
                        !.pc = "reported",
                        !.result = [status |-> a.status, step |-> a.step],
                        !.crossed = @ \/ Crosses(a)]
    /\ UNCHANGED <<reviews, decided, taken, changed, askedAt, forced, inbox,
                   sending, applied, mishaps, used>>

\* What the run takes the answer to be: a stale cursor is re-read, and one that
\* still names the Step is read as held.
StaleIsFailure == run.result

Believed ==
    IF run.result.status # "stale" THEN run.result
    ELSE [status |-> IF task.cursor = run.leg THEN "held" ELSE "advanced",
          step |-> task.cursor]

\* The answer recorded in the Session log closes the Step's questions.
CloseQuestions ==
    IF run.result.status \in {"advanced", "completed"}
    THEN [askedAt EXCEPT ![run.leg] = 0] ELSE askedAt

\* The answer is recorded and the run acts on it: on to the next Step, to the
\* integration, or back to the gate.
Settle ==
    /\ run.pc = "reported"
    /\ askedAt' = CloseQuestions
    /\ LET byDecision == run.call = "decision"
           settled == [run EXCEPT !.call = "none", !.result = NoResult,
                                  !.crossed = FALSE]
       IN  \/ /\ Believed.status = "advanced"
              /\ task' = [task EXCEPT
                            !.completion = NoClaim,
                            !.state = IF byDecision \/ @ = "review"
                                      THEN "running" ELSE @]
              /\ run' = [settled EXCEPT
                           !.pc = "round", !.leg = Believed.step,
                           !.round = IF byDecision THEN 0 ELSE @ + 1,
                           !.claim = NoClaim]
           \/ /\ Believed.status # "advanced" /\ ~byDecision
              /\ run' = [settled EXCEPT !.pc = "gate"]
              /\ UNCHANGED task
           \/ /\ Believed.status = "completed" /\ byDecision
              /\ run' = [settled EXCEPT !.pc = "integrate"]
              /\ UNCHANGED task
           \/ /\ Believed.status \in {"held", "awaiting-decision"}
              /\ byDecision
              /\ task' = [task EXCEPT !.state = "review"]
              /\ run' = NoRun
    /\ UNCHANGED <<reviews, decided, taken, changed, forced, inbox, sending,
                   spent, applied, mishaps, used>>

\* The process dies after a commit and before the engine has the result: the
\* same step body runs again. The log line may or may not have been written.
DieAfterCommit ==
    /\ Spend("faults")
    /\ \/ /\ run.pc = "took"
          /\ run' = [run EXCEPT !.pc = "take-up"]
          /\ UNCHANGED askedAt
       \/ /\ run.pc = "reported"
          /\ run' = [run EXCEPT !.pc = "report"]
          /\ askedAt' \in {askedAt, CloseQuestions}
    /\ UNCHANGED <<task, reviews, decided, taken, changed, forced, inbox,
                   sending, spent, applied, mishaps>>

\* A blocked harness has not reached the gate; the Task stays as it is.
OpenGate ==
    /\ run.pc = "gate"
    /\ task' = IF run.claim.outcome = "blocked" THEN task
               ELSE [task EXCEPT !.state = "review"]
    /\ run' = NoRun
    /\ UNCHANGED <<reviews, decided, taken, changed, askedAt, forced, inbox,
                   sending, spent, applied, mishaps, used>>

\* Commit, publish and ship; a worktree that could not be shipped fails it.
Integrate ==
    /\ run.pc = "integrate"
    /\ \E state \in {"done", "failed"} : task' = [task EXCEPT !.state = state]
    /\ run' = NoRun
    /\ UNCHANGED <<reviews, decided, taken, changed, askedAt, forced, inbox,
                   sending, spent, applied, mishaps, used>>

Next ==
    \/ Launch \/ Move \/ Decide \/ SendDecision \/ ForgetDecision
    \/ ForceReview \/ AdvanceFromApi \/ Rebind
    \/ DeliverAgain \/ StartRun \/ TakeUp \/ LeaveSpentDecision \/ ApplyDecision
    \/ HarnessRound \/ HarnessFails \/ Report \/ Settle \/ DieAfterCommit
    \/ OpenGate \/ Integrate

Spec == Init /\ [][Next]_vars

-----------------------------------------------------------------------------
(* Properties.                                                             *)

\* One approval opens one gate (latestDecisionForTask, workflow_decision_id):
\* whatever the definition, the order of runs, outside calls and replays, a
\* decision is never spent on two crossings, as long as no decision was taken
\* back and the Task was not put on its Workflow anew.
OneGatePerApproval ==
    mishaps \subseteq {"overtaken"} => \A r \in ReviewIds : spent[r] <= 1

\* A decision is applied by one run, however often its event is delivered and
\* its take-up re-executed (takeUpReviewDecision).
AppliedOnce == \A r \in ReviewIds : applied[r] <= 1

\* A run integrates only on the strength of an approval the Workflow spent to
\* complete, and not one older than the decision that started the run: a
\* refusal recorded since then stops it (decision.ts, the one path to
\* integrateApproval).
IntegratesAnApprovedGate ==
    run.pc = "integrate" /\ mishaps \subseteq {"overtaken"} =>
        /\ task.decisionId \in ReviewIds
        /\ task.decisionId >= run.review
        /\ decided[task.decisionId].kind = "approve"

\* A crossing that committed is what the run goes on from, though its process
\* died before the engine heard of it: the cursor guard, the recheck of a
\* stale cursor and the terminal Step's replay rule together never turn a
\* crossing back into a closed gate, unless a caller outside the run moved the
\* Task meanwhile, or a newer decision was made on a Workflow that was ending.
CommittedCrossingIsKept ==
    run.pc = "reported" /\ run.crossed /\ mishaps = {} =>
        \/ Believed.status \in {"advanced", "completed"}
        \/ task.cursor = run.leg /\ LatestId > task.decisionId

\* The rows, the column and the runs that read them behave as a ledger in which
\* only the newest decision counts and an approval opens one gate: in particular
\* a refusal made since keeps an older approval from opening any
\* (latestDecisionForTask, advanceTaskWorkflow).
Approvals == INSTANCE ApprovalLedger WITH
    Decisions <- ReviewIds,
    newest <- DecisionsMade,
    approves <- DecisionsMade # 0 /\ decided[DecisionsMade].kind = "approve",
    opened <- spent,
    void <- ~(mishaps \subseteq {"overtaken"})
ActsAsALedger == Approvals!Spec

-----------------------------------------------------------------------------
(* What the source says and the code does not keep to.                     *)

\* "An approval buys the move it caused and no other" (workflow.ts:550): a
\* decision's own advance leaves that decision spent.
MoveSpendsItsApproval ==
    [][ run.pc = "report" /\ run'.pc = "reported" /\ run.call = "decision"
        /\ run'.result.status = "advanced" /\ LatestId = run.review
        => task'.decisionId = run.review ]_vars

\* "no engine restart can lose one" (ADR 0030): a decision that was taken up
\* is applied, or a run is still on its way to applying it.
NoDecisionLost ==
    \A r \in taken : applied[r] > 0 \/ run.review = r
=============================================================================
