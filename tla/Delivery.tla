------------------------------ MODULE Delivery ------------------------------
(***************************************************************************)
(* What an approval does with a Task's branches: integration.ts, which     *)
(* commits, publishes and ships each, delivery.ts, which pushes one and    *)
(* opens its request, redelivery.ts, which ships again what is committed,  *)
(* and the web app's ways out, Ship again and Keep local.                  *)
(*                                                                         *)
(* An approval ships each branch in its own try. One that did not commit   *)
(* leaves the Task failed as partial_integration, one that was not shipped *)
(* as delivery_failed, which Ship again may finish. Both are one durable   *)
(* step each: the engine asks for it again, from the top, when the process *)
(* dies before the step is acknowledged, whatever its writes did.          *)
(*                                                                         *)
(* Content is a version number: the harness makes versions in its          *)
(* worktree, a person approves them. A git and a provider call is an       *)
(* action; the order in which a loop takes the Repositories is left open.  *)
(* How the Task gets to its gate, and a decision to its run, is in         *)
(* WorkflowRun and RunSlots.                                               *)
(***************************************************************************)
EXTENDS Naturals, FiniteSets

CONSTANTS
    Repos,  \* the Repositories the Task is attached to
    Kinds,  \* which kinds they may be, one function of which holds
    Mixes   \* mixes of what is Bounded, one of which may happen

Bounded ==
    {"rounds",    \* rounds of the harness
     "refusals",  \* git or provider calls that fail
     "asks",      \* clicks on Ship again
     "crashes"}   \* deaths of the orchestrator

\* In a clone of its own, whose branch reaches the Repository by publish only;
\* in a worktree of the Repository, whose branch the harness commits on; there,
\* on a branch named by hand; or without a remote to ship to.
Kind == {"cloned", "worktree", "named", "local"}

ASSUME ReposAssumption == IsFiniteSet(Repos)
ASSUME KindsAssumption == Kinds \subseteq [Repos -> Kind]
ASSUME MixesAssumption == Mixes \subseteq [Bounded -> Nat]

VARIABLES
    kind,      \* the kind of each Repository
    row,       \* the Task row: state, and failure_reason
    work,      \* the version in each worktree
    tip,       \* the version of the branch in the deployment's Repository
    result,    \* which attachments name a result branch
    remote,    \* the version the provider has, 0 for none
    link,      \* which attachments link a request
    job,       \* the approval, and the shipping again, under way
    asked,     \* Ship again events the engine holds
    approved,  \* history: the version approved last
    behind,    \* history: which integrations of the last approval failed
    kept,      \* history: a person kept the last approval local
    raced,     \* history: a retry or a Ship again began while another was under
               \* way
    redone,    \* history: an approval that had settled was asked for again
    left       \* how much of each of Bounded may still happen

repository == <<tip, result, remote, link>>
history == <<approved, behind, kept, raced, redone>>
vars == <<kind, row, work, repository, job, asked, history, left>>

Row == [state : {"running", "review", "failed", "done"},
        reason : {"none", "partial_integration", "delivery_failed"}]

Jobs == {"approval", "again"}
None == "none"

\* settled is an approval whose step is not acknowledged yet.
Job == [at : {"idle", "next", "push", "request", "settled"},
        repo : {None} \union Repos, todo : SUBSET Repos,
        failed : SUBSET Repos, undelivered : SUBSET Repos]
NoJob == [at |-> "idle", repo |-> None, todo |-> {}, failed |-> {},
          undelivered |-> {}]

TypeOK ==
    /\ kind \in [Repos -> Kind]
    /\ row \in Row
    /\ work \in [Repos -> Nat]
    /\ tip \in [Repos -> Nat]
    /\ result \subseteq Repos
    /\ remote \in [Repos -> Nat]
    /\ link \subseteq Repos
    /\ job \in [Jobs -> Job]
    /\ asked \in Nat
    /\ approved \in [Repos -> Nat]
    /\ behind \subseteq Repos
    /\ kept \in BOOLEAN
    /\ raced \in BOOLEAN
    /\ redone \in BOOLEAN
    /\ left \in [Bounded -> Nat]

Init ==
    /\ kind \in Kinds
    /\ row = [state |-> "running", reason |-> "none"]
    /\ work = [r \in Repos |-> 0]
    /\ tip = [r \in Repos |-> 0]
    /\ result = {}
    /\ remote = [r \in Repos |-> 0]
    /\ link = {}
    /\ job = [j \in Jobs |-> NoJob]
    /\ asked = 0
    /\ approved = [r \in Repos |-> 0]
    /\ behind = {}
    /\ kept = FALSE
    /\ raced = FALSE
    /\ redone = FALSE
    /\ left \in Mixes

-----------------------------------------------------------------------------

Spend(bound) == /\ left[bound] > 0
                /\ left' = [left EXCEPT ![bound] = @ - 1]
Refused == Spend("refusals")

Undelivered == row = [state |-> "failed", reason |-> "delivery_failed"]
Approving == job["approval"].at \notin {"idle", "settled"}
UnderWay == \E j \in Jobs : job[j].at # "idle"

Set(state, reason) == row' = [state |-> state, reason |-> reason]

\* The harness changes some worktrees, and may commit what it did itself.
Round ==
    /\ row.state = "running" /\ ~Approving
    /\ Spend("rounds")
    /\ \E touched, committed \in SUBSET Repos :
          /\ committed \subseteq touched
          /\ work' = [r \in Repos |-> IF r \in touched THEN work[r] + 1
                                                       ELSE work[r]]
          /\ tip' = [r \in Repos |-> IF r \in committed /\ kind[r] # "cloned"
                                     THEN work[r] + 1 ELSE tip[r]]
    /\ UNCHANGED <<kind, row, result, remote, link, job, asked, history>>

\* The round ends at its gate.
OpenGate ==
    /\ row.state = "running" /\ ~Approving
    /\ Set("review", row.reason)
    /\ UNCHANGED <<kind, work, repository, job, asked, history, left>>

\* A person sends it back to work, retries it, or reopens and starts it.
Retry ==
    /\ row.state \in {"review", "failed", "done"}
    /\ left["rounds"] > 0
    /\ Set("running", "none")
    /\ raced' = (raced \/ UnderWay)
    /\ UNCHANGED <<kind, work, repository, job, asked, approved, behind, kept,
                   redone, left>>

-----------------------------------------------------------------------------
(* The approval.                                                           *)

StartApproval == [NoJob EXCEPT !.at = "next", !.todo = Repos]

\* A person approves what the worktrees hold, and the run takes it up.
Approve ==
    /\ row.state = "review"
    /\ job["approval"].at = "idle"
    /\ Set("running", row.reason)
    /\ job' = [job EXCEPT !["approval"] = StartApproval]
    /\ approved' = work
    /\ behind' = {}
    /\ kept' = FALSE
    /\ UNCHANGED <<kind, work, repository, asked, raced, redone, left>>

Done(j, r) == job[j].at = "next" /\ r \in job[j].todo

\* commit and publish: the branch in the Repository holds what the worktree
\* holds; or the branch is named as not integrated, and nothing of it ships.
Integrate(r) ==
    /\ Done("approval", r)
    /\ \/ /\ tip' = [tip EXCEPT ![r] = work[r]]
          /\ result' = result \union {r}
          /\ job' = [job EXCEPT !["approval"].at = "push",
                                !["approval"].repo = r]
          /\ behind' = behind \ {r}
          /\ UNCHANGED left
       \/ /\ Refused
          /\ job' = [job EXCEPT !["approval"].todo = @ \ {r},
                                !["approval"].failed = @ \union {r}]
          /\ behind' = behind \union {r}
          /\ UNCHANGED <<tip, result>>
    /\ UNCHANGED <<kind, row, work, remote, link, asked, approved, kept, raced,
                   redone>>

\* Mutant of Outcome: what is not delivered gets a state of its own.
OutcomeOfItsOwn ==
    CASE job["approval"].failed # {} -> Set("failed", "partial_integration")
      [] job["approval"].failed = {} /\ job["approval"].undelivered # {} ->
            Set("delivery_failed", "none")
      [] OTHER -> Set("done", row.reason)

\* The row says what came of it, whatever it says by now.
Outcome ==
    CASE job["approval"].failed # {} -> Set("failed", "partial_integration")
      [] job["approval"].failed = {} /\ job["approval"].undelivered # {} ->
            Set("failed", "delivery_failed")
      [] OTHER -> Set("done", row.reason)

SettleApproval ==
    /\ job["approval"].at = "next" /\ job["approval"].todo = {}
    /\ Outcome
    /\ job' = [job EXCEPT !["approval"] = [NoJob EXCEPT !.at = "settled"]]
    /\ UNCHANGED <<kind, work, repository, asked, history, left>>

Acknowledge ==
    /\ job["approval"].at = "settled"
    /\ job' = [job EXCEPT !["approval"] = NoJob]
    /\ UNCHANGED <<kind, row, work, repository, asked, history, left>>

-----------------------------------------------------------------------------
(* Shipping one branch.                                                    *)

\* The branch at hand is shipped, or was local, or could not be.
Passed(j) == job' = [job EXCEPT ![j].at = "next", ![j].repo = None,
                                ![j].todo = @ \ {job[j].repo}]

\* Mutant of Failed: the loop does not note what could not be shipped.
FailedUnnoted(j) == Passed(j)

Failed(j) ==
    job' = [job EXCEPT ![j].at = "next", ![j].repo = None,
                       ![j].todo = @ \ {job[j].repo},
                       ![j].undelivered = @ \union {job[j].repo}]

\* Mutant of Unlink: the request of an earlier approval stays linked.
UnlinkNot(r) == UNCHANGED link

\* What could not be shipped links no request.
Unlink(r) == link' = link \ {r}

\* A branch without a remote is the result. One named by hand is not pushed.
\* The push is forced, and takes the branch as it is by now.
Push(j) ==
    /\ job[j].at = "push"
    /\ LET r == job[j].repo
       IN  \/ /\ kind[r] = "local"
              /\ Passed(j)
              /\ UNCHANGED <<remote, link, left>>
           \/ /\ kind[r] = "named" \/ (kind[r] # "local" /\ left["refusals"] > 0)
              /\ IF kind[r] = "named" THEN UNCHANGED left ELSE Refused
              /\ Unlink(r)
              /\ Failed(j)
              /\ UNCHANGED remote
           \/ /\ kind[r] \in {"cloned", "worktree"}
              /\ remote' = [remote EXCEPT ![r] = tip[r]]
              /\ job' = [job EXCEPT ![j].at = "request"]
              /\ UNCHANGED <<link, left>>
    /\ UNCHANGED <<kind, row, work, tip, result, asked, history>>

\* upsertChangeRequest opens the request of the branch, or finds it.
OpenRequest(j) ==
    /\ job[j].at = "request"
    /\ LET r == job[j].repo
       IN  \/ /\ link' = link \union {r}
              /\ Passed(j)
              /\ UNCHANGED left
           \/ /\ Refused
              /\ Unlink(r)
              /\ Failed(j)
    /\ UNCHANGED <<kind, row, work, tip, result, remote, asked, history>>

-----------------------------------------------------------------------------
(* The ways out.                                                           *)

\* task.redeliver: an event, and nothing is claimed.
ShipAgain ==
    /\ Undelivered
    /\ Spend("asks")
    /\ asked' = asked + 1
    /\ UNCHANGED <<kind, row, work, repository, job, history>>

\* Mutant of BeginAgain: the row is not looked at again.
BeginAgainOnFaith ==
    /\ asked > 0
    /\ job["again"].at = "idle"
    /\ asked' = asked - 1
    /\ job' = [job EXCEPT !["again"] = [NoJob EXCEPT !.at = "next",
                                                    !.todo = result]]
    /\ UNCHANGED <<kind, row, work, repository, history, left>>

\* redeliverTask looks at the row once more, then takes what was committed.
BeginAgain ==
    /\ asked > 0
    /\ job["again"].at = "idle"
    /\ asked' = asked - 1
    /\ job' = IF Undelivered
              THEN [job EXCEPT !["again"] = [NoJob EXCEPT !.at = "next",
                                                          !.todo = result]]
              ELSE job
    /\ raced' = (raced \/ (Undelivered /\ job["approval"].at # "idle"))
    /\ UNCHANGED <<kind, row, work, repository, approved, behind, kept, redone,
                   left>>

TakeUp(r) ==
    /\ Done("again", r)
    /\ job' = [job EXCEPT !["again"].at = "push", !["again"].repo = r]
    /\ UNCHANGED <<kind, row, work, repository, asked, history, left>>

\* Mutant of Finish: the row is not compared before it is set.
FinishWhatever == Set("done", "none")

\* Mutant of Finish: it waits for a partial integration.
FinishPartial == row' = IF row.state = "failed"
                              /\ row.reason = "partial_integration"
                        THEN [state |-> "done", reason |-> "none"] ELSE row

\* finishRedelivery, where nothing was refused.
Finish == row' = IF Undelivered THEN [state |-> "done", reason |-> "none"]
                                ELSE row

SettleAgain ==
    /\ job["again"].at = "next" /\ job["again"].todo = {}
    /\ IF job["again"].undelivered = {} THEN Finish ELSE UNCHANGED row
    /\ job' = [job EXCEPT !["again"] = NoJob]
    /\ UNCHANGED <<kind, work, repository, asked, history, left>>

\* keepUndeliveredLocal
KeepLocal ==
    /\ Undelivered
    /\ Set("done", "none")
    /\ kept' = TRUE
    /\ UNCHANGED <<kind, work, repository, job, asked, approved, behind, raced,
                   redone, left>>

\* The orchestrator dies, and the engine asks again for the steps that it has
\* no answer to: an approval is integrated from the top, a Ship again looks at
\* the row.
Crash ==
    /\ Spend("crashes")
    /\ job' = [j \in Jobs |->
                 IF j = "approval" /\ job[j].at # "idle" THEN StartApproval
                                                         ELSE NoJob]
    /\ asked' = IF job["again"].at # "idle" THEN asked + 1 ELSE asked
    /\ redone' = (redone \/ job["approval"].at = "settled")
    /\ UNCHANGED <<kind, row, work, repository, approved, behind, kept, raced>>

-----------------------------------------------------------------------------

ApprovalStep == (\E r \in Repos : Integrate(r)) \/ SettleApproval
                   \/ Push("approval") \/ OpenRequest("approval")

AgainStep == BeginAgain \/ (\E r \in Repos : TakeUp(r)) \/ SettleAgain
                \/ Push("again") \/ OpenRequest("again")

Next ==
    \/ Round \/ OpenGate \/ Retry \/ Approve \/ Acknowledge
    \/ ApprovalStep
    \/ ShipAgain \/ AgainStep \/ KeepLocal
    \/ Crash

\* The engine goes on with a step it has begun. People need not click.
Fairness == WF_vars(ApprovalStep) /\ WF_vars(Acknowledge) /\ WF_vars(AgainStep)

Spec == Init /\ [][Next]_vars /\ Fairness

-----------------------------------------------------------------------------
(* Properties.                                                             *)

Shipped == {r \in Repos : kind[r] # "local"}

\* "Never done: a Task that says it shipped when the remote has nothing"
\* (integration.ts): a Task that is done has every approved change on its
\* remote and a request open, through refusals, crashes and Ship again, unless
\* a person kept it local, or retried it while a delivery was under way.
DoneIsDelivered ==
    row.state = "done" /\ ~Approving /\ ~kept /\ ~raced
        => \A r \in Shipped : remote[r] = approved[r] /\ r \in link

\* Nothing reaches a remote that was not approved: a Ship again sees to it that
\* no harness is at work. It does not where a retry begins while it pushes, and
\* a branch of the Repository itself is then taken as it is.
UnapprovedStaysHome ==
    ~raced => \A r \in Repos : remote[r] <= approved[r]

\* "The link says where the latest approval went" (delivery.ts): between
\* approvals, a request that is linked holds the change approved last, unless
\* that change did not integrate.
LinkIsLatest ==
    ~Approving /\ ~raced
        => \A r \in link \ behind : remote[r] = approved[r]

\* A shipping under way never finishes or fails a Task that a retry has claimed:
\* only its own approval moves a Task that is running (finishRedelivery).
RunIsNotFinished ==
    [][row.state = "running" /\ row'.state \in {"failed", "done"}
         => job["approval"].at = "next"]_row

\* What a person kept local stays done until a person starts it again, unless
\* the engine asks once more for the approval it never heard of.
KeptStaysDone ==
    [][kept /\ ~redone /\ row.state = "done" /\ row'.state # "done"
         => row'.state = "running"]_row

\* What ships settles no Task but the one its approval or its Ship again is for.
SettlesItsOwnTask == RunIsNotFinished /\ KeptStaysDone

\* Once nothing is refused any more, a Ship again that was asked for ends the
\* wait, unless a branch is named by hand: that one can only be kept local.
ShipAgainEnds ==
    (Undelivered /\ asked > 0 /\ left["refusals"] = 0
        /\ \A r \in Repos : kind[r] # "named")
      ~> ~Undelivered
=============================================================================
