------------------------------ MODULE RunSlots ------------------------------
(***************************************************************************)
(* The Tasks of one Harness Profile under its concurrency cap: who may     *)
(* start a harness, and what gives a slot back (packages/db/src/           *)
(* task-claim.ts; routers/{task,review}.ts and dal/task.ts of the web app; *)
(* task-run.ts and task-run/{round,finish,advance,decision,terminal}.ts of *)
(* the orchestrator).                                                      *)
(*                                                                         *)
(* A slot is a Task row that reads running, not a counter. The rule is     *)
(* enforced by one conditional write, the claim, while the row is also     *)
(* written without a condition by people's moves and by the runs, which    *)
(* never read it first. The engine lets one run at a time execute steps    *)
(* for a Task; a run asleep in its quota window executes none.             *)
(*                                                                         *)
(* Each request and each durable step of a run is one action. A request    *)
(* is split where it waits for the engine: its claim, then its event.      *)
(***************************************************************************)
EXTENDS Naturals, FiniteSets

CONSTANTS
    Tasks,       \* the Tasks that name this Harness Profile
    OnWorkflow,  \* those of them on a Workflow
    Runs,        \* runs a Task may have at once, asleep or not
    Cap,         \* harness_profile.concurrency_cap
    Bounds       \* how much of each of Bounded may happen

Bounded ==
    {"starts",       \* starts and decisions, over all Tasks
     "overrides",    \* moves and deletions of Tasks; what was deleted may be
                     \* restored
     "rollbacks",    \* events whose sending throws
     "redeliveries", \* launch events delivered twice
     "deaths"}       \* of the process, between a claim and its recorded result

ASSUME TasksAssumption == IsFiniteSet(Tasks) /\ OnWorkflow \subseteq Tasks
ASSUME CapAssumption == Cap \in Nat \ {0}
ASSUME BoundsAssumption == Bounds \in [Bounded -> Nat]

VARIABLES
    row,        \* the Task rows: state, completed_at set, deleted_at null
    asking,     \* the request between its claim and its event, per Task
    inbox,      \* events the engine holds for each Task
    run,        \* what each run of each Task is doing
    loose,      \* history: Tasks a run may be at work for whose slot was given
                \* away, or whose slot was taken without a claim
    early,      \* history: Tasks whose harness declared, and works on
    overslept,  \* history: sleepers whose Task a start, a move or
                \* another run has taken since
    used        \* how much of each bound is used up

vars == <<row, asking, inbox, run, loose, early, overslept, used>>

State == {"backlog", "ready", "running", "review", "parked", "failed", "done"}
Row == [state : State, finished : BOOLEAN, live : BOOLEAN]

Decisions == {"request_changes", "approve", "reject"}
Event == {"launch"} \union Decisions

NoRequest == [event |-> "none", was |-> "ready", finished |-> FALSE]
Request == {NoRequest} \union
           [event : Event, was : State, finished : BOOLEAN]

\* A run works (its harness runs), has ended a round, applies a decision, or
\* unwinds after a stop; asleep, or awake and waiting for a slot, it executes
\* nothing.
AtWork == {"working", "ended", "stopping"} \union Decisions
Pc == {"idle", "asleep", "awake"} \union AtWork

TypeOK ==
    /\ row \in [Tasks -> Row]
    /\ asking \in [Tasks -> Request]
    /\ inbox \in [Tasks -> SUBSET Event]
    /\ run \in [Tasks -> [Runs -> Pc]]
    /\ \A t \in Tasks \ OnWorkflow, r \in Runs : run[t][r] # "ended"
    /\ loose \subseteq Tasks
    /\ early \subseteq Tasks
    /\ overslept \subseteq Tasks \X Runs
    /\ used \in [Bounded -> Nat]

Init ==
    /\ row = [t \in Tasks |->
                [state |-> "ready", finished |-> FALSE, live |-> TRUE]]
    /\ asking = [t \in Tasks |-> NoRequest]
    /\ inbox = [t \in Tasks |-> {}]
    /\ run = [t \in Tasks |-> [r \in Runs |-> "idle"]]
    /\ loose = {}
    /\ early = {}
    /\ overslept = {}
    /\ used = [b \in Bounded |-> 0]

-----------------------------------------------------------------------------
(* The cap.                                                                *)

\* A finished Task on no Workflow holds no slot: its run has ended.
Holds(t) == /\ row[t].live
            /\ row[t].state = "running"
            /\ t \in OnWorkflow \/ ~row[t].finished

Holding == {t \in Tasks : Holds(t)}

\* The room the claim's own write looks for.
RoomForOneMore == Cardinality(Holding) <= Cap

Room == Cardinality(Holding) < Cap

\* A request, an event or a run is under way for the Task.
Busy(t) == \/ asking[t] # NoRequest
           \/ inbox[t] # {}
           \/ \E r \in Runs : run[t][r] \in AtWork

\* The engine's limit on steps of one Task.
MayExecute(t) == \A r \in Runs : run[t][r] \notin AtWork

Spend(bound) == /\ used[bound] < Bounds[bound]
                /\ used' = [used EXCEPT ![bound] = @ + 1]

Sleepers(t) == {r \in Runs : run[t][r] \in {"asleep", "awake"}}

\* The write of a run, which names the state and expects none.
SetStateAtGate(t, state) ==
    row' = [row EXCEPT ![t].state = IF @ = "review" THEN state ELSE @]

SetState(t, state) == row' = [row EXCEPT ![t].state = state]

\* A claim of the row with nothing else under way for it: the row and the work
\* done for it agree from here on.
AgreesAgain(t) == /\ loose' = IF Busy(t) THEN loose ELSE loose \ {t}
                  /\ early' = early \ {t}

\* claimTaskRunSlot: one conditional write, or nothing.
ClaimKeepsDeclaration(t, from) ==
    /\ row[t].live
    /\ row[t].state \in from
    /\ Room
    /\ SetState(t, "running")
    /\ AgreesAgain(t)

\* Mutant of ClaimSlot: the row is compared, the Profile's other rows are not
\* counted.
ClaimUncounted(t, from) ==
    /\ row[t].live
    /\ row[t].state \in from
    /\ row' = [row EXCEPT ![t].state = "running", ![t].finished = FALSE]
    /\ AgreesAgain(t)

ClaimSlot(t, from) ==
    /\ row[t].live
    /\ row[t].state \in from
    /\ Room
    /\ row' = [row EXCEPT ![t].state = "running", ![t].finished = FALSE]
    /\ AgreesAgain(t)

-----------------------------------------------------------------------------
(* The web app.                                                            *)

Ask(t, event) ==
    /\ asking[t] = NoRequest
    /\ asking' = [asking EXCEPT ![t] =
                    [event |-> event, was |-> row[t].state,
                     finished |-> row[t].finished]]

\* startTaskRun: launch, retry, or a move into running. A run of this Task
\* that sleeps in its quota window now has a successor.
Start(t) ==
    /\ Spend("starts")
    /\ Ask(t, "launch")
    /\ ClaimSlot(t, {"ready", "parked", "failed"})
    /\ overslept' = overslept \union ({t} \X Sleepers(t))
    /\ UNCHANGED <<inbox, run>>

\* review.decide. A decision that sends a harness to work takes a slot; one
\* that does not, takes the row only, and then the row counts all the same.
StartsHarness(t, decision) ==
    decision = "request_changes" \/ (decision = "approve" /\ t \in OnWorkflow)

Decide(t) ==
    /\ Spend("starts")
    /\ row[t].live /\ row[t].state = "review"
    /\ \E decision \in Decisions :
          /\ Ask(t, decision)
          /\ \/ /\ StartsHarness(t, decision)
                /\ ClaimSlot(t, {"review"})
             \/ /\ ~StartsHarness(t, decision)
                /\ SetState(t, "running")
                /\ loose' = loose \union {t}
                /\ UNCHANGED early
    /\ UNCHANGED <<inbox, run, overslept>>

SendEvent(t) ==
    /\ asking[t] # NoRequest
    /\ inbox' = [inbox EXCEPT ![t] = @ \union {asking[t].event}]
    /\ asking' = [asking EXCEPT ![t] = NoRequest]
    /\ UNCHANGED <<row, run, loose, early, overslept, used>>

\* The send threw: the row is put back to what the request had found, whatever
\* has happened to it since. The event may have arrived; that of a decision
\* then finds no review row and leaves.
RollBack(t) ==
    /\ Spend("rollbacks")
    /\ asking[t] # NoRequest
    /\ row' = [row EXCEPT ![t].state = asking[t].was,
                          ![t].finished = asking[t].finished]
    /\ inbox' \in {inbox} \union
                  {[inbox EXCEPT ![t] = @ \union {e}] :
                      e \in {asking[t].event} \ Decisions}
    /\ loose' = loose \union {t}
    /\ asking' = [asking EXCEPT ![t] = NoRequest]
    /\ UNCHANGED <<run, early, overslept>>

\* A person moves the Task without looking at what runs for it.
Loosens(t) == loose' = IF Busy(t) THEN loose \union {t} ELSE loose

\* task.move where it starts nothing, and task.submitForReview.
Moves == {<<"backlog", "ready">>, <<"ready", "backlog">>,
          <<"running", "review">>, <<"running", "parked">>,
          <<"running", "failed">>, <<"review", "done">>,
          <<"review", "ready">>, <<"parked", "failed">>, <<"done", "ready">>}

Move(t) ==
    /\ Spend("overrides")
    /\ row[t].live
    /\ \E move \in Moves :
          /\ row[t].state = move[1]
          /\ row' = [row EXCEPT
                       ![t].state = move[2],
                       ![t].finished = @ /\ move[2] # "ready"]
          /\ loose' = IF Busy(t) \/ move[2] = "parked"
                      THEN loose \union {t} ELSE loose
    /\ overslept' = overslept \union ({t} \X Sleepers(t))
    /\ UNCHANGED <<asking, inbox, run, early>>

\* task.delete: the stop cancels what waits and what sleeps at once and an
\* executing run at its next step, then the row is marked.
Delete(t) ==
    /\ Spend("overrides")
    /\ row[t].live
    /\ row' = [row EXCEPT ![t].live = FALSE]
    /\ run' = [run EXCEPT ![t] =
                 [r \in Runs |-> IF @[r] \in AtWork THEN "stopping" ELSE "idle"]]
    /\ inbox' = [inbox EXCEPT ![t] = {}]
    /\ overslept' = overslept \ ({t} \X Runs)
    /\ Loosens(t)
    /\ UNCHANGED <<asking, early>>

\* task.restore: the state comes back as it was, slot and all.
Restore(t) ==
    /\ ~row[t].live
    /\ row' = [row EXCEPT ![t].live = TRUE]
    /\ loose' = loose \union {t}
    /\ UNCHANGED <<asking, inbox, run, early, overslept, used>>

-----------------------------------------------------------------------------
(* The orchestrator.                                                       *)

To(t, r, pc) == run' = [run EXCEPT ![t][r] = pc]

\* The engine starts a run. What a launch starts works without looking at the
\* Task's state; what a decision starts applies it.
StartRun(t, r) ==
    /\ run[t][r] = "idle"
    /\ MayExecute(t)
    /\ \E e \in inbox[t] :
          /\ To(t, r, IF e = "launch" THEN "working" ELSE e)
          /\ \/ /\ inbox' = [inbox EXCEPT ![t] = @ \ {e}]
                /\ UNCHANGED <<loose, used>>
             \/ /\ e = "launch" /\ Spend("redeliveries")
                /\ loose' = loose \union {t}
                /\ UNCHANGED inbox
    /\ UNCHANGED <<row, asking, early, overslept>>

\* The harness declares itself finished and goes on: the grace period starts
\* again with everything more it says.
Declare(t, r) ==
    /\ run[t][r] = "working"
    /\ row' = [row EXCEPT ![t].finished = TRUE]
    /\ early' = early \union {t}
    /\ UNCHANGED <<asking, inbox, run, loose, overslept, used>>

\* to-review: the declaration is recorded. On no Workflow the run ends there.
GoesOnAlways(t) == "ended"

GoesOn(t) == IF t \in OnWorkflow THEN "ended" ELSE "idle"

EndRound(t, r) ==
    /\ run[t][r] = "working"
    /\ row' = [row EXCEPT ![t].finished = TRUE]
    /\ To(t, r, GoesOn(t))
    /\ UNCHANGED <<asking, inbox, loose, early, overslept, used>>

\* failRun, failRound: a preparation, a round, an advance or a decision that
\* cannot be carried out.
Fail(t, r) ==
    /\ run[t][r] \in AtWork \ {"stopping"}
    /\ SetState(t, "failed")
    /\ To(t, r, "idle")
    /\ UNCHANGED <<asking, inbox, loose, early, overslept, used>>

\* Under a Workflow: on to the next Step, in the same run ...
NextStep(t, r) ==
    /\ run[t][r] = "ended"
    /\ row' = [row EXCEPT ![t].state = IF @ = "review" THEN "running" ELSE @,
                          ![t].finished = FALSE]
    /\ early' = early \ {t}
    /\ To(t, r, "working")
    /\ UNCHANGED <<asking, inbox, loose, overslept, used>>

\* ... or to the gate, or for a harness that gave up nowhere.
OpenGate(t, r) ==
    /\ run[t][r] = "ended"
    /\ SetState(t, "review") \/ UNCHANGED row
    /\ To(t, r, "idle")
    /\ UNCHANGED <<asking, inbox, loose, early, overslept, used>>

\* An exhausted quota: parked, and asleep.
Park(t, r) ==
    /\ run[t][r] = "working"
    /\ SetState(t, "parked")
    /\ To(t, r, "asleep")
    /\ UNCHANGED <<asking, inbox, loose, early, overslept, used>>

\* A sleeper wakes, and stands down where the Task no longer reads parked.
StandsDown(t) == row[t].state # "parked"

Woken(t, r, pc) ==
    /\ To(t, r, pc)
    /\ overslept' = IF pc = "awake" THEN overslept ELSE overslept \ {<<t, r>>}

Wake(t, r) ==
    /\ run[t][r] = "asleep"
    /\ MayExecute(t)
    /\ Woken(t, r, IF StandsDown(t) THEN "idle" ELSE "awake")
    /\ UNCHANGED <<row, asking, inbox, loose, early, used>>

\* One attempt of claimWokenSlot: a slot and another round, or no room and
\* another attempt later, or a Task that has moved and nothing more.
LeaveWhenFull(t) == "idle"

StayWhenFull(t) == "awake"

ClaimWokenSlot(t, r) ==
    /\ run[t][r] = "awake"
    /\ MayExecute(t)
    /\ \/ /\ ClaimSlot(t, {"parked"})
          /\ To(t, r, "working")
          /\ overslept' = (overslept \union ({t} \X Sleepers(t))) \ {<<t, r>>}
       \/ /\ row[t].live /\ row[t].state = "parked" /\ ~Room
          /\ Woken(t, r, StayWhenFull(t))
          /\ UNCHANGED <<row, loose, early>>
       \/ /\ ~row[t].live \/ row[t].state # "parked"
          /\ Woken(t, r, "idle")
          /\ UNCHANGED <<row, loose, early>>
    /\ UNCHANGED <<asking, inbox, used>>

\* The claim commits and the process dies before the engine hears of it: the
\* attempt is made again, on a row that no longer reads parked.
DieAfterClaim(t, r) ==
    /\ Spend("deaths")
    /\ run[t][r] = "awake"
    /\ MayExecute(t)
    /\ ClaimSlot(t, {"parked"})
    /\ overslept' = overslept \union ({t} \X (Sleepers(t) \ {r}))
    /\ UNCHANGED <<asking, inbox, run>>

\* applyDecision, without a precondition on the row. An approval under a
\* Workflow goes on to a harness, to the gate again, or to the integration.
BackToWork(t, r) ==
    /\ row' = [row EXCEPT ![t].state = "running", ![t].finished = FALSE]
    /\ early' = early \ {t}
    /\ To(t, r, "working")

Apply(t, r) ==
    /\ \/ /\ \/ run[t][r] = "request_changes"
             \/ run[t][r] = "approve" /\ t \in OnWorkflow
          /\ BackToWork(t, r)
       \/ /\ \/ run[t][r] = "approve" /\ SetState(t, "done")
             \/ run[t][r] = "approve" /\ t \in OnWorkflow /\ SetState(t, "review")
             \/ run[t][r] = "reject" /\ SetState(t, "ready")
          /\ To(t, r, "idle")
          /\ UNCHANGED early
    /\ UNCHANGED <<asking, inbox, loose, overslept, used>>

Unwind(t, r) ==
    /\ run[t][r] = "stopping"
    /\ To(t, r, "idle")
    /\ UNCHANGED <<row, asking, inbox, loose, early, overslept, used>>

Next ==
    \E t \in Tasks :
        \/ Start(t) \/ Decide(t) \/ SendEvent(t) \/ RollBack(t)
        \/ Move(t) \/ Delete(t) \/ Restore(t)
        \/ \E r \in Runs :
              \/ StartRun(t, r) \/ Declare(t, r) \/ EndRound(t, r) \/ Fail(t, r)
              \/ NextStep(t, r) \/ OpenGate(t, r) \/ Park(t, r) \/ Wake(t, r)
              \/ ClaimWokenSlot(t, r) \/ DieAfterClaim(t, r)
              \/ Apply(t, r) \/ Unwind(t, r)

Spec == Init /\ [][Next]_vars

-----------------------------------------------------------------------------
(* Properties.                                                             *)

\* The cap holds without a counter: whatever the runs write without looking,
\* in whatever order, the Tasks that hold a slot are at most Cap, apart from
\* those on whose row a person has overruled or undone what was under way
\* (task-claim.ts: "there is nothing to release").
CapHolds == Cardinality(Holding \ loose) <= Cap

\* A harness never works for a Task that holds no slot, unless the Task was
\* moved, deleted or rolled back under it or its harness has declared itself
\* finished: no write of the runs themselves gives the slot away while they
\* have another round to run.
WorkHoldsASlot ==
    \A t \in Tasks \ (loose \union early) :
        (\E r \in Runs : run[t][r] = "working") => Holds(t)

\* A slot is never held for a Task nothing is under way for, but where its
\* harness finished and gave up under a Workflow: no way out of a run leaves
\* the row running, unless the process died under a claim or a person stepped
\* in (task-claim.ts: "no path can forget to").
SlotIsWorkedFor ==
    used["deaths"] = 0 =>
        \A t \in Tasks \ loose : Holds(t) /\ ~row[t].finished => Busy(t)

\* A Task reads parked only while a run of it sleeps or waits for a slot, or
\* is about to put it elsewhere: a sleeper that stands down, or finds the
\* Profile full, never leaves its Task parked behind it.
ParkedIsSleptOn ==
    \A t \in Tasks \ loose :
        row[t].live /\ row[t].state = "parked" => Sleepers(t) # {}

\* The Task rows that read running are a semaphore of Cap slots, though nothing
\* counts them and most writes of a row look at nothing: a step gives one Task a
\* slot only by a claim that found room, or on a row a person has stepped in on
\* (task-claim.ts: a slot is "the row itself, not a counter beside it").
Permits == INSTANCE Semaphore WITH Claimants <- Tasks, Slots <- Cap,
                                   holders <- Holding, strays <- loose

ActsAsASemaphore == Permits!Spec

-----------------------------------------------------------------------------
(* What the source says and the code does not keep to.                     *)

\* "nothing runs until a person acts" for a Task on no Workflow with its
\* completion recorded (run-engine-walkthrough.md).
NothingRunsWhenFinished ==
    \A t \in Tasks \ (OnWorkflow \union loose) :
        row[t].finished => \A r \in Runs : run[t][r] # "working"

\* "A Parked run that wakes to find its Task moved while it slept stands down"
\* (F06): a sleeper whose Task left parked never works again.
MovedSleeperStandsDown ==
    [][ \A t \in Tasks, r \in Runs :
            <<t, r>> \in overslept /\ run[t][r] = "awake"
                => run'[t][r] # "working" ]_vars

\* "a second run waits its turn and then finds out from the database that it
\* has nothing to do" (task-run.ts): no harness starts for a Task at its gate.
SecondRunFindsNothingToDo ==
    [][ \A t \in Tasks, r \in Runs :
            run[t][r] = "idle" /\ run'[t][r] = "working"
                => row[t].state # "review" ]_vars

\* A run that stands down "holds no slot to give back" (terminal.ts): it never
\* leaves its Task holding one with nothing under way.
StandsDownHoldingNothing ==
    [][ \A t \in Tasks \ loose, r \in Runs :
            run[t][r] = "awake" /\ run'[t][r] = "idle" /\ Holds(t)
                => Busy(t) ]_vars
=============================================================================
