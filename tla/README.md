# SoloW: the run engine in TLA+

SoloW puts coding agents to work on a person's Tasks. A Task names a Harness
Profile, may stand on a Workflow of Steps with review gates, and is worked on by
durable *runs*, which an engine (Inngest) executes step by step, delivers events
to at least once, and replays when a process dies. The web app and the
orchestrator share one SQLite database and talk through it and through events.

Nothing in the design holds a lock across those parts. A review gate is a column
of a row; a concurrency slot is "the row reads `running`"; an approval is "the
newest review row, unless its id is the one already spent"; whether a run is alive
is guessed from its silence. The modules here say
what keeps that correct, check it on small instances with TLC, and prove it for
every instance with TLAPS. They also show, as runs that must fail, six places
where a doc, a comment or a neighbouring function promises more than the code.

All paths below are relative to `src/`; `F/` stands for
`apps/orchestrator/src/inngest/functions/`.

## The system

| part | code | state | operations | what makes it hard |
|---|---|---|---|---|
| Workflow rules | `packages/core/src/workflow.ts` | none | gates, exits, advance | every branch of `advanceWorkflowStep` decides who looks at the code |
| Workflow transaction | `packages/db/src/workflow-run.ts` | the Task's cursor, parked handoff, spent approval | `advanceTaskWorkflow` | called by runs and by the API, replayed after crashes |
| Task run | `F/task-run.ts`, `F/task-run/*` | the loop of one run | take-up, decision, round, report, settlement, gate, integration, park, wake, failure | a commit and its recorded result are two moments |
| Run slots | `packages/db/src/task-claim.ts` | none of its own: counts rows | `claimTaskRunSlot` | other writers set the same column without a condition |
| Task operations | `apps/web/src/server/routers/task.ts`, `dal/task.ts` | Task rows | launch, retry, move, submit, delete, restore, ... | row first, event second, rollback third |
| Reviews | `routers/review.ts`, `dal/review.ts` | review rows | `decide`, forget | the same, with a row that must not outlive its event |
| Workflow operations | `routers/workflow.ts`, `dal/workflow.ts` | definitions, bindings | attach, detach, advance, force a review | act beside a run |
| Orchestrator data | `apps/orchestrator/src/data.ts` | Session log, completion record, take-up | `setTaskState`, `takeUpReviewDecision`, ... | idempotence of step bodies |
| Recovery | `reconcile.ts`, `relaunch.ts` | none of its own | reclaim, stranded parks, relaunch | guesses from silence whether a run is alive |
| Session stream | `ws/hub.ts`, `ws/replay.ts`, `use-task-stream.ts` | viewers, cursors | publish, append, attach, reconnect | live events and replayed ones must join without gap |
| Session log | `packages/core/src/session-log.ts`, `data.ts` | events by sequence number | append, compact | sequence numbers drawn by several writers |
| Delivery | `delivery.ts`, `redelivery.ts` | links per repository | push, open requests, redeliver | one repository of several fails |
| Sub-tasks, dependencies | `packages/core/src/task.ts`, `dal/task.ts`, `dal/issue.ts` | parent links, `blocked_by` edges | create, re-parent, block, unblock, delete, restore | graphs without a constraint in the schema; checks before the transaction |
| Retention, reaping | `retention.ts`, `packages/db/src/task-cascade.ts`, `executor/reap.ts` | deletion marks, containers | purge, reap | list first, remove later |
| Ranks | `packages/core/src/workflow.ts` | rank strings | reorder, insert | keys that grow |
| I/O | worktrees, executors, harness runners, ACP and Claude Code transports, forges | processes, files | | outcomes only matter to the run |
| The rest | contracts, web interface and boards, authentication, billing, CLI, observability | | | CRUD and presentation |

They interact like this. A person's click claims the Task row (`running`), writes
what it has to write (a Session, a review row) and sends an event. The engine
starts a run for the event, one executing run per Task at a time
(`F/task-run.ts:352`). The run takes a decision up, works a round with the
harness, records the completion, reports the Step finished in one transaction
(`advanceTaskWorkflow`) and goes on to the next Step, to the gate (`review`), or
to the integration. A quota that runs out parks it: it sleeps, and claims a slot
again when it wakes.

What each part must guarantee: the rules never let work through a gate nobody
opened; the transaction spends an approval once, whoever calls it and however
often; a run goes on from what was committed, not from what it remembers; the
slots never exceed the cap and none is leaked; a decision is applied once and not
lost; recovery brings every Task to its gate, to work or to a failure a person
sees; a viewer misses no event and sees each numbered one once and in order.

## Modules

| module | models |
|---|---|
| `WorkflowRules` | the pure rules of `packages/core/src/workflow.ts` |
| `RankOrder`, `StepOrder` | the ranks of a Workflow's Steps, and the edits that use them |
| `WorkflowRun` | one Task on a Workflow: cursor, ledger of decisions, runs |
| `ApprovalLedger` | what `WorkflowRun` promises of decisions; it implements this |
| `RunSlots` | all Tasks of one Harness Profile under its concurrency cap |
| `Semaphore` | what `RunSlots` promises of slots; it implements this |
| `RunRecovery` | one Task whose runs may be lost, and the sweeps that find it |
| `SessionStream` | the log of a Task's Sessions, its compaction, the pages that follow it |
| `SortedLists` | a set in an order, the members of a list at some places: what `SessionStream` and `StepOrder` use for `ORDER BY` and `filter` |
| `Delivery` | what an approval commits and ships, and ships again |
| `TaskTree` | how Tasks hang together, and their way into History and out of it |
| `X_proofs` | the theorems about `X` |
| `MCX` | the instances of `X` that TLC checks |

`WorkflowRun` uses the rules; `RunSlots`, `RunRecovery` and `Delivery` each model
the same Task row from another side, with the runs of the others abstracted to
what they may write: `WorkflowRun` follows one run through its Steps, `RunSlots`
several Tasks through one cap, `RunRecovery` one Task through its losses,
`Delivery` one approval through its Repositories. `TaskTree` is about all Tasks of a
workspace and none of their runs; what its deletes, restores and purges do to a run's
row is in `RunSlots`.

### WorkflowRules

A definition is a sequence of Steps in rank order; a Step's id is its place in
it, the end of the pipeline is 0. A Step has a gate, the signal that finishes it
and a way out: the next Step, or a branch on what the harness answered, on
whether it changed files, or on the outcome it declared. What the harness said is
an *account* with the two answers the rules read out of its text. `AdvanceStep`
is `advanceWorkflowStep`: held on a foreign signal, completed at the end of the
pipeline, stopped at a gate without an unspent approval, or advanced, with or
without spending the approval.

### WorkflowRun

The state is the Task row's workflow columns and completion record (`task`), the
review rows (`reviews`, what they say in `decided`, which were taken up in
`taken`), what the Session log contributes (`changed`, `askedAt`), the forced
Steps, the engine's events (`inbox`), the run the engine executes (`run`) and the
request between its row and its event (`sending`). `spent`, `applied`, `mishaps`
and `run.crossed` are history: no guard reads them, only properties do.

| action | code |
|---|---|
| `Launch`, `Move` | `startTaskRun`, `task.move` |
| `Decide`, `SendDecision`, `ForgetDecision` | `review.decide`, split where it waits for the engine |
| `ForceReview`, `AdvanceFromApi`, `Rebind` | `workflow.forceReview`, `workflow.advanceTask`, detach and attach |
| `StartRun`, `DeliverAgain` | the engine |
| `TakeUp`, `LeaveSpentDecision`, `ApplyDecision` | `takeUpReviewDecision` and `applyDecision` |
| `HarnessRound`, `HarnessFails` | a round up to `to-review`, with the first half of `finishRound` |
| `Report` | the durable step of `reportStepFinished`, up to its commit |
| `Settle` | what the run does with the answer: the stale-cursor recheck and `takeAdvance` |
| `OpenGate`, `Integrate` | the second half of `finishRound`, `integrateApproval` |
| `DieAfterCommit` | the process dies between a commit and its recorded result |

The step of `reportStepFinished` and what follows it are two actions because the
process can die in between; the same holds for the take-up. That window is where
the replay rules of the code (`spentHere`, the recheck of a stale cursor) earn
their keep.

### RunSlots

`row` is each Task's state, whether a completion is recorded, and whether it is
deleted. `Holding` is the count the claim's own write makes. `ClaimSlot` is that
write; `SetState` is the write of a run, which names a state and expects none.
Each Task may have several runs: one that works, and others asleep in their quota
window, of which none executes. `asking` is a request between its claim and its
event, with what `RollBack` puts back.

| action | code |
|---|---|
| `Start`, `Decide`, `SendEvent`, `RollBack` | `startTaskRun`, `review.decide` and their failed sends |
| `Move`, `Delete`, `Restore` | `task.move` and `submitForReview`, `task.delete` with its stop, `task.restore` |
| `StartRun` | the engine, also twice for one launch |
| `Declare`, `EndRound` | `task_complete` in the middle of a round; `to-review` at its end |
| `NextStep`, `OpenGate`, `Fail` | the next Step of a Workflow, the gate, `failRun` and `failRound` |
| `Park`, `Wake`, `ClaimWokenSlot`, `DieAfterClaim` | `parkRound` and `claimWokenSlot` |
| `Apply` | `applyDecision`, by decision and by whether the Task is on a Workflow |
| `Unwind` | a run that was stopped leaves at its next step |

Three history variables say what the properties must excuse, and nothing more
than that: `loose`, the Tasks whose row a person or a failed send has overruled
while something was under way (or that took `running` without a claim); `early`,
those whose harness has declared itself finished and works on; `overslept`, the
sleepers whose Task somebody has taken since. A Task leaves `loose` again at the
next claim with nothing else under way.

### RunRecovery

`row`, the Sessions `sess`, the web request between its claim and its event
(`asking`), the engine's events (`inbox`), the runs, and the passes of the reclaim
sweep. Time is one bit: `quiet`, nothing has been written of the Task for longer
than the sweep waits. Every write of the row and every line of the log resets it;
`Tick` sets it, so silence may come at any moment a run does not write, and the
sweep cannot tell a slow run from a lost one, as in the code.

| action | code |
|---|---|
| `Start`, `Decide`, `OpenSession`, `SendEvent`, `DieInRequest` | `startTaskRun` and `review.decide`, cut where the web process may die |
| `Move` | `task.move`, `submitForReview` |
| `StartRun`, `Apply`, `BeginRound`, `EndRound`, `AnotherRound`, `ToReview`, `NextStep`, `OpenGate`, `Fail`, `Park`, `Wake`, `Unwind` | a run, by what the sweep can see of it: registration, the end marker in the log, the row, the Session |
| `Lose`, `Crash` | the engine forgets a run or an event; the orchestrator dies |
| `Reclaim` | `reclaimOrphanedRuns` up to its first wait: pass over, file as finished, give up, or begin a relaunch |
| `SendStop`, `SendLaunch`, `Record`, `Refused` | `createRelauncher` and `recoverRun`, whose sends may throw and arrive all the same |
| `NameStranded` | `reportStrandedParks` |

What the model shows of the code besides its properties: an end marker of an
earlier round may file a run as finished; a Task left `running` with its Session
`awaiting_review` (a run lost between `to-review` and its gate, a web process that
died between `review.ts:87` and `:98`) is passed over by every sweep
(`reconcile.ts:138`), which the liveness properties excuse by `SessionWaits`;
giving up does not stop a run that was only silent; `Record` writes `running` over
what a person moved meanwhile; two passes that overlap relaunch twice.

### SessionStream

The log is a set of events with a Session and a number. `body` is what a round
counts and has queued, `line` the orchestrator's own line between the draw of its
number and its insert, `viewer` a page with both ends of its connection.

| action | code |
|---|---|
| `StartBody`, `Emit`, `AppendNext` | the numbers and the write chain of `runHarnessRound`, also of one asked for twice |
| `DrawLine`, `WriteLine` | `recordTransition` and every other line drawn from `nextSessionEventSeq`, published (`advance.ts:169`, `terminal.ts:227`, `budgets.ts:79`, `:136`) or not (`finish.ts:110`, `:212`, `redelivery.ts:97` and the other notices) |
| `Plan`, `Summarise` | `compactSession` |
| `Attach`, `ReadLog`, `Flush` | `attachSubscriber`: listen and buffer, read, send the replay and what it did not cover |
| `Receive`, `Disconnect` | `useEventStream` |

Every `await` is a place where others go on, though the driver that is used today
is synchronous: the buffer of `attachSubscriber` exists for that.

An event has one of three forms on the wire. A state transition, a usage record and
the harness's end have none. A diff is stored under a number like the others, but its
frame does not carry it (`replay.ts:101`, `contracts/events.ts:105`): it is *bare*. So
the hub's filter (`"seq" in msg`) never drops a buffered diff the replay has sent, and
the page's number does not move on one (`"seq" in event`). A page gets a diff twice
when it is published and stored while the page attaches, and again when the
connection breaks before a numbered frame follows it; the second copy may come after
later events. `OrderIsKept` says nothing of bare frames for that reason;
`NothingMissed` and `CatchesUp` cover them, for they are only ever sent more often. All
others are *numbered*.

Three things excuse a page that lacks an event. *Contested*: two writers drew one
number and `onConflictDoNothing` kept one. *skipped*: the event was published before
the hub listened and was not stored when the replay read; or the page's one number
stands for another Session's events (`since` is one number for all Sessions of a
Task); or the line was stored and never published, after the page had read the log
(`Withhold`). A page that is live learns of such a line only from the replay of a later
connection, and never if its number has passed it, which is less than the comment
at `attachSubscriber` promises ("a reconnect never loses or reorders terminal
history"). *failed*: an append threw.

A replay is a set put in order: `Sorted`, of `SortedLists`, gives a member the place
that as many come before it, and `Picked` keeps a list's order. Both are without
recursion, so that they can be reasoned about.

### Delivery

Content is a version number: what the harness made, what a branch holds, what the
provider has. `job` is the approval and the Ship again under way, each a loop over
the Repositories. The kinds of Repository (a clone of its own, a worktree on a
Task branch, a branch named by hand, no remote) decide who may change the branch
and whether it is pushed.

| action | code |
|---|---|
| `Round`, `OpenGate`, `Retry`, `Approve` | the run and the person around it, by what they write here |
| `Integrate`, `SettleApproval`, `Acknowledge` | `integrateApproval`: commit and publish, the outcome, the engine's record of it |
| `Push`, `OpenRequest` | `shipAttachment` and `deliverBranch`, for both jobs |
| `ShipAgain`, `BeginAgain`, `TakeUp`, `SettleAgain` | `task.redeliver`, `redeliverTask`, `finishRedelivery` |
| `KeepLocal` | `keepUndeliveredLocal` |
| `Crash` | the orchestrator dies; the engine asks for the unacknowledged step again |

What it shows besides its properties, each excused by a named history variable: a
retry during a Ship again lets the push take commits nobody approved where the
harness works on the Repository's own branch (`raced`); an approval that settled,
was not acknowledged and is executed again moves a Task that was kept local
meanwhile (`redone`); a partial integration leaves the link of the earlier request
in place (`behind`); a branch named by hand can never be shipped again, only kept
local.

### TaskTree

The rows of the Tasks, with `parent_task_id`, `deleted_at` and the edges of
`task_dependency`. Each web write is an immediate transaction, so one action; what
waits between two reads and a write is kept in `adding` (an edge being declared),
`restoring` (a restore, with the stamp and the parent it read) and `purging` (what
the sweep listed). The walks of `packages/core/src/task.ts`, loops with a stack,
are modelled by what they find: `Reaches` says that every set closed under the
edges and holding the start holds the end, which needs no recursion and is what
the proofs work with. A clock that advances with every delete gives each its own
stamp, which `restoreTask` recognises the Tasks that left together by.

| action | code |
|---|---|
| `Create`, `CreateSubtask`, `SetParent` | `createTaskRecord`, `createSubtaskRecord`, `setTaskParent` with `checkParentEdge` |
| `LookUpTask`, `LookUpBlocker`, `AddEdge` | `task.addDependency`, cut between its reads and `addTaskDependencyEdge` |
| `RemoveEdge` | `task.removeDependency` |
| `Delete` | `deleteTask`, with its live sub-tasks and the edges at them |
| `ReadToRestore`, `Restore` | `restoreTask`: the row and the checks, then the transaction |
| `ListExpired`, `Purge`, `LeaveListed` | `retentionSweep` and `cascadeDeleteTasks`, Task by Task |
| `DeleteIssue` | `deleteIssue` |
| `Tick` | time passes |

Its three history variables mark what the code leaves open, and TLC finds the
counterexample when one is taken out of its property. *overtaken*: `restoreTask`
detaches a Task from a parent in History by the parent and the stamp it read; when
another restore and a delete fall in between, it brings a live Task back under one
in History. *late*: an edge whose ends were looked up live may be written after one
was deleted, and holds a Task back by one in History. *touched*: a restore that
read a Task before it expired may bring it back after the sweep listed it, and a
delete of a Task in History, which `deleteTask` does not refuse, gives it a new
stamp that the sweep does not look at; its sub-tasks keep the old one and no longer
come back with it.

### ApprovalLedger and Semaphore

`ApprovalLedger` has decisions made one after the other, each with the gates it
has opened: only the newest may open one, and one at most, until the ledger
lapses. `WorkflowRun` implements it (`ActsAsALedger`) with review rows, one column
and no count: `opened` is the history `spent`, the newest decision is the newest
row. It lapses where a decision is taken back, or the column is cleared.

`Semaphore` takes slots one at a time where there is room and gives them up
freely; a claimant somebody interferes with *strays* until it takes a slot again.
`RunSlots` implements it (`ActsAsASemaphore`): the holders are the rows that read
`running` and are not deleted, off a Workflow only while unfinished; the strays
are `loose`. Every step of the
model changes at most one Task's holding, and takes a slot only under the cap.

### RankOrder and StepOrder

A rank is a sequence of base-62 digits in dictionary order. `RankBetween` is
`rankBetween` with its loop read as what it searches for: the place where the two
differ, and from there the first with room. `StepOrder` is `sortSteps`,
`rankForMove` and the rank an added Step takes: at the head, after a Step, or last.
They have no state: an edit runs in an immediate transaction. `MCWorkflowRun` states what an edit must do as
`EditsLandWhereMeant`, an assumption that TLC evaluates at the start of the runs
of that module, over ranks of up to three digits from both ends of the alphabet
and its middle and lists of up to three Steps with adjacent ranks.

## Runs

Passing:

| run | shows | distinct states |
|---|---|---|
| `workflow_run` | one approval opens one gate; a decision is applied once; what is integrated was approved, by an approval no older than the decision; a crossing that committed is what the run goes on from; all of it implements the ledger | 4.0 million |
| `run_slots` | the cap holds; a harness at work is counted; a slot held is worked for; a parked Task has a run that will wake; the rows implement the semaphore | 2.0 million |
| `run_recovery` | one launch at a time; the budget of relaunches; a verdict leaves with its park; a Task that reads `running` or `parked` comes to something a person sees | 0.3 million |
| `session_stream` | the log has no gaps; summaries partition it; fork points hold; a page lacks no event it could be given, has every numbered one once and in order, and catches up | 1.0 million |
| `task_tree` | a live Task hangs under live ones and the chain ends; among any live Tasks one waits for none of the others and none in History; the sweep purges nothing that is live | 0.16 million |
| `delivery` | done means delivered; nothing unapproved leaves; the link is the latest approval's; neither a run nor a Task kept local is settled by a late delivery; Ship again ends | 0.7 million |

Deadlock is not checked: the bounds stop all six.

Bounds. `workflow_run`: two Steps, an automatic one that only a question stops
and one that ends the Workflow or sends the Task back, which between them have
every kind of crossing; three reports; two decisions, so that each can meet the
other's gate; two rounds, so that a second Step runs; two starts (a launch and a
retry); one second delivery or death; one call from outside. `run_slots`: two
Tasks, one on a Workflow, one slot; two runs per Task, so that one sleeps while
another works; three starts and decisions, so that one Task parks, is retried and
competes with the other; one move, or one deletion and the restoration after it; one failed send, one
second delivery, one death. The runs of a Task are interchangeable, and the model
is checked up to that symmetry. `run_recovery`: two runs, two passes, two Sessions,
one recovery each, so that the budget runs out; instead of everything at once, one
of four mixes of starts, decisions, moves, losses and slips, each of which brings
two kinds of trouble together (all of it at once is 2.8 million states and finds
nothing else). `session_stream`: two Sessions, a round and one asked for again,
one page, events of every form, and one of five mixes of harness events, lines,
failed appends, compactions and breaks; a threshold and a tail of one make a log of three
events worth compacting twice. `delivery`: two Repositories, of kinds that differ,
two mixes of rounds, refusals, clicks and a crash, so that a second approval meets
the first's leavings and a refusal meets a second one. Its larger instances (every
combination of kinds; two of everything) pass as well. `task_tree`: four Tasks, three
of one Issue, so that a chain is longer than its two ends and one Task is foreign;
one of five mixes: links with two restores that overtake one another, two edges with
a delete, an edge late to a restore, an edge late to the sweep, the sweep with a
restore and a second delete; a window of two deletes or ticks. Tasks of one Issue may
change places, and the model, whose properties are all safety, is checked up to that
symmetry.

Fairness. `workflow_run`, `run_slots` and `task_tree` assume none, their properties are safety.
`run_recovery` assumes weak fairness of time passing, of the web requests (they go
on or die), of each run's next step as the engine executes it, of each pass of the
sweep and of the stranded-park sweep: `index.ts` runs them on a timer whatever
happened to the last pass. `session_stream`: of the write chain, of a line under
way, and of a page's connection, which `useEventStream` makes again after every
break. `delivery`: of the durable steps the engine has begun and of an event it
holds. People are owed nothing, nor is what goes wrong: no start, decision, click,
crash, loss or break ever has to happen, and each is bounded, so it stops in the
end, which is all the liveness properties need of it.

Failing, on purpose; each is the counterexample to one sentence of the
repository. PROJECT.json quotes the sentences under `findings`.

| run | shows |
|---|---|
| `approval_left_on_offer` | an approval that moves a Task out of a Step whose gate needs nothing at that moment is not spent, and opens the next gate |
| `decision_lost_on_restart` | the take-up of a decision commits, the process dies, the replay reads its own take-up as another run's and leaves: the decision is never applied |
| `slot_given_away_by_declaration` | a harness that declares itself finished and works on no longer counts |
| `sleeper_wakes_into_anothers_park` | parked, retried and parked again reads like parked: the first sleeper works in the second's place |
| `redelivered_launch_works_again` | a launch delivered twice starts a harness for a Task at its gate |
| `stood_down_holding_a_slot` | a woken run that dies between its claim and the record of it stands down and leaves its row running, until the reclaim sweep finds it |

Each property of a passing run has a mutant: a definition changed the way a
plausible bug would change it, under which TLC finds the property violated.

## Proofs

`tlapm` checks every theorem; the assumptions are those the modules name
(`StepsAssumption`: a definition is not empty and its branches lead to other
Steps of it; `CapAssumption`: the cap is positive; `TasksAssumption`: Tasks are
finite; `RunsAssumption`, `PassesAssumption`, `SessionsAssumption`, `KindsAssumption`, `MixesAssumption`,
`ReportsAssumption`, `BodiesAssumption` and `BoundsAssumption`: types and finiteness;
`CompactionAssumption`: the threshold of a compaction is positive). The theorems about
edits assume what the database keeps: finitely many Steps whose ranks are well formed
and differ (`AreSteps`).

`WorkflowRun_proofs`:

- `Typing`. Needs that a run that takes a decision up was started by one.
- `AppliesOnce`. The strengthening `AppliedInv`: what was applied was taken up,
  and a take-up that won has not been applied yet. The replay after a death loses.
- `OneApprovalOneGate` and `IntegrationIsApproved`. `OneGatePerApproval` is not
  inductive, because "spent" is remembered for one decision only, the one in the
  cursor's column. `Ledger` says why one is enough: ids grow, a spent decision is
  never newer than the cursor's, and only the newest can be spent; what refers to
  a decision (events, the run, the column) refers to one on record. A decision
  taken back (`ForgetDecision`) or a column cleared (`Rebind`) breaks exactly
  that, which is why the property excludes them: a Task detached and attached again
  (`UNBOUND`, `dal/workflow.ts:981-989`) may pass two gates on one approval.

- `CrossingIsKept`. `Kept` says what a crossing that committed leaves behind until
  the run hears of it: either the cursor has left the Step for good, so the replay
  finds it stale, or an approval was spent into the Workflow's end by this very
  call, so the replay finds it in `spentHere` and answers the same.
- `RowsAreALedger`. `RowsInv`: until a decision is taken back, the review rows are
  1 .. n, so the newest row is the newest decision. With `Ledger`, an approval that
  is spent had been spent on nothing before.

`RunSlots_proofs`:

- `Typing`.
- `OneThingAtATime`. `Settled(t)`: a request, an event or a run is under way for
  the Task, one at a time, begun by a claim, and the row still reads running, and
  holds its slot unless the harness declared early.
- `WorkIsCounted` and `CapIsKept`. The cap is not inductive: `NextStep` and
  `Apply` write `running` without asking. They may because, by `Settled`, the Task
  they write holds a slot already; so no step but a claim adds a holder outside
  `loose`, and a claim looks first.
- `ParkedHasASleeper`. A run parks the row as it falls asleep, and leaves the row
  parked only while it waits for room; a person's move to parked is in `loose`.
- `SlotsAreWorkedFor`. With `EndedIsFinished` (between a round and what follows,
  the completion is recorded): every way out of a run writes another state, or
  leaves a finished Task at a gate it did not reach. A death under a claim is the
  exception, and a failing run shows it.

- `RowsAreASemaphore`. No step changes the holding of two Tasks, and one that
  begins to hold outside `loose` is a claim that found room.

`RunRecovery_proofs`:

- `Typing`. Needs `Opening`: the Session a request is about to open is the next.
- `OneLaunch`. `Solo`: outside `loose`, what is under way (a request, an event, a
  run, a pass between its stop and its launch) is at most one thing, and nothing
  unless the row reads `running`. A run asleep is not under way.
  A relaunch cancels before it launches, which is what makes room for its own.
- `VerdictIsOfThePark`. Every way out of a park outside `loose` clears the verdict.
- `BudgetIsKept`. `Account(s)`: what was launched and what a pass is about to
  launch is at most `MaxRecoveries` and the slips, and at most what the log
  records, the slips and the one launch whose record is under way. Neither half
  is inductive without the other: the log is what the sweep reads.

`StepOrder_proofs`, of both:

- `RoomIsNeverLost`. The place a rank is cut at is the least of a set that is not
  empty; at it the midpoint lies strictly between the digits, and is not the
  lowest. The order of the two neighbours follows at that place.

- `MovesLand`, `InsertionsLand`, `AppendsLand`. The order of the ranks is strict and
  total (`NoneComesBeforeItself`, `OrderGoesOn`, `OneComesFirst`), so Steps have one
  order only (`SortStepsIsTheOrder`); with a rank in the gap (`GapHasRoom`) the list with
  the Step inserted is such an order, hence the one `sortSteps` makes (`EditLands`). The
  edit leaves ranks of which no two agree, which is what the next one starts from.

`Delivery_proofs`:

- `TypesHold`. Needs `AtHand`: the branch a job is at is one it has still to do.
- `RunIsLeftAlone`. No invariant: only `SettleApproval` writes over a row that runs.
- `KeptIsKept`, with which it is `OnlyItsOwnIsSettled`. `Claimed`: an approval that works is of a Task that reads running
  and that nobody kept local, until it is asked for again after it had settled.
- `DoneMeansDelivered`, `OnlyTheApprovedLeaves` and `LinksAreLatest`, from one
  invariant, for none of them is inductive: a Ship again pushes what the branches
  hold, so it matters that they hold what was approved (`Tips`), that the harness is
  at rest meanwhile (`Alone`), that a refused branch is noted and links nothing
  (`Delivered`, `Linked`), and that a Task that waits for Ship again has every branch
  committed (`Integrated`): otherwise it would finish a Task of which a part never
  left.

`TaskTree_proofs`:

- `TypesHold`. Needs `Marks`: a stamp is of the past, and a purged row leaves none.
- `EveryChainEnds`. Cycles are excluded without recursion: a graph is `Grounded` when
  every set of Tasks has one with no edge into the set, and an edge keeps it so when
  some set closed under the edges holds its head and not its tail
  (`EdgeKeepsGrounded`), which is what the two checks look for. `setTaskParent` walks
  among live rows only, which is enough because by `LiveUnderLive` no walk up leaves
  them (`WalksStayAmongTheLive`); a restore keeps that by `ReadHolds`, which says
  what it read is still so unless it was overtaken.
- `NoneHoldEachOtherBack`. The edges are grounded, and by `EdgesAreLive` join live
  Tasks unless late.
- `TheSweepTakesHistory`. `ListIsFinal`: what is listed is in History, past its window,
  and no restore under way has its stamp, unless it is touched.

`SortedLists_proofs`: the members of a finite set, ranked by how many come before
them, take each place once and stand in order, no other list does that
(`SortedIsTheOnly`), and what is picked from a list keeps the list's order.

`SessionStream_proofs`, all from `Invariance`, one inductive invariant in five parts;
a property of the log leans only on the first, one of the pages on nearly all:

- `Typing`.
- `DenseLog` and `ForkPoints`. Density is not inductive: an append takes the number
  its body counted, perhaps long ago. `LogInv` says what a body may rely on: its queue
  is a chain of consecutive numbers up to its next (`QueuesAreChains`), and each of
  them has a stored event right below it once those before it are appended (`Stored`).
  A number that is taken meanwhile is taken by an insert that does nothing, so the log
  of a Session only ever grows at its end, which is all a fork point needs.
- `Partition`. `Tiled`: the summaries of a Session cover its numbers from the first to
  some k, and whatever is planned begins at k, or where a summary begins that was
  inserted meanwhile and makes the insert do nothing. What a plan counted stays so
  because the log grows at its end.
- `NoEventMissed`. `PagesKeep`: whatever a page has, its wire carries or the hub holds
  for it beyond an event it is owed, it has that event too, or gets it first. A new
  event must not come to a page before an earlier one that is still to be appended:
  `BodiesCountOn` and `PendingIsNext` say that the log goes past an event that waits,
  and a body counts past one, only where another writer told of an event at the same
  place, so that it is contested. When the replay ends, what the buffer drops below the
  mark is of another Session (skipped) or was read or received already: a page's number
  is always that of an event it has (`PagesOfLog`). A bare frame is never dropped, and
  one that comes out of turn does no harm: whatever the replay has beyond an event
  sent, the replay has that event too. A line that is not published is owed only to
  the pages that have still to read the log.
- `OrderKept`, of the frames that carry a number. `PagesInOrder`: what a page has and
  its wire are each in every writer's order, numbered frames alone, and what it has
  comes before what the wire carries; the buffer has every event once and in its
  writer's order, bare ones too. The replay has only what is above the page's number,
  and what is left of the buffer's numbered frames is above the replay's.

Only model-checked: the liveness properties, the mutants and the six failing runs. Out of the
prover's reach altogether: liveness and ENABLED, and induction over data; no module
here uses a RECURSIVE operator.

## Not modelled

Parts of the system without a module, and why:

- Reaping (`executor/reap.ts`), and what retention does besides purging: the expiry
  of a Done Task's worktrees and the pruning of transcripts. Their outcomes are
  containers and directories; the race of a reaper with a container taken into use
  after it was listed is a listed hazard.
- Worktrees below commit and publish, executors, harness runners, ACP and Claude
  Code transports, forges and synchronisation: processes and protocols of others;
  the runs here keep their outcomes.
- The database's schema and maintenance, authentication, billing, CLI, observability:
  no state a run depends on but the columns the modules name.
- The web interface, by far most of the source: presentation and CRUD over the
  operations modelled here.

Within the modules:

- A Workflow definition does not change while a Task stands on it, so
  `takeAdvance` always finds its Step and `decision-advance-failed` does not occur.
- `review.decide` without a configured orchestrator.
- The gap between read and write of `task.move`, and between the stop and the
  transaction of `task.delete`; each is one action. In `WorkflowRun`, `RunRecovery`
  and `Delivery` a Task is not deleted.
- In `WorkflowRun` and `RunSlots` the web process does not die between a claim and
  its event, and no sweep relaunches: both are `RunRecovery`'s. There, rollbacks and
  second deliveries are left out: both are `RunSlots`'s.
- `RunRecovery`: what a pass listed and what it judges are read at once, and no web
  write falls between a sweep's read and its write; `reportStrandedReviews`, which
  only writes a reason on a Task at its gate; short bodies of steps of a stopped run,
  which may finish after the stop, write nothing.
- Budgets (`roundsOnStep`, quotas): a round may park or fail at any time, which
  covers each of them running out.
- Names of durable steps repeat across runs of one Task: `SpentHere` holds the
  Step, the kind of call and its round, as the code's string does, and nothing of
  the run.
- A blocked harness on a Workflow leaves its row running and its slot taken, as
  `task-claim.ts:31-33` says; `SlotIsWorkedFor` excuses a finished Task.
- `SessionStream`: a line of the orchestrator is stored and published in one action,
  and one line is under way at a time; frames of no stored event (status, ack, the
  closing diff frame of `finish.ts:127`); a page that is loaded anew is a new viewer;
  the subscription of a socket that closes during its replay.
- `Delivery`: what git does with a branch beyond holding a version; the order in
  which a loop takes the Repositories is left open.
- `TaskTree`: no two deletes have one stamp (the code's is a time in milliseconds).
  It has no runs: a delete finds none active, and a start does not ask for
  unfinished predecessors (`requireUnblocked`, one statement before the claim, is a
  listed hazard); quick Tasks and fork cursors are left out.
- Reads by runs of rows that a purge has removed.

## Plan

1. Done: the modules, runs and proofs above.
2. Starts against reopened predecessors, as a composition of `TaskTree`'s edges with
   a claim; reaping against registrations.
3. Edits of a definition under a Task: deletion of a Step the cursor names, drift,
   with `WorkflowRun`'s `Steps` a variable.
