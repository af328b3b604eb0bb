---------------------------- MODULE RunRecovery ----------------------------
(***************************************************************************)
(* One Task whose runs may be lost, and the sweep that puts them back      *)
(* (reconcile.ts, relaunch.ts and index.ts of the orchestrator, run-       *)
(* attention.ts of packages/core, with the writes of task-run/* and of the *)
(* web routers that the sweep judges by).                                  *)
(*                                                                         *)
(* Nothing tells a lost run from a silent one: the sweep has the registry  *)
(* of harnesses that work in its own process, and the age of the last sign *)
(* of life. It files a run that had finished, launches one that had not    *)
(* again, up to MaxRecoveries times per Session, and then gives up. A pass *)
(* that waits for the engine is overtaken by the next, a minute later.     *)
(*                                                                         *)
(* The database driver is synchronous, so the judgement on a Task is one   *)
(* action, but the two events of a relaunch and the record of it are       *)
(* actions of their own. A Task on no Workflow is one whose run leaves at  *)
(* its report. Failed sends of the web app and deletions are in RunSlots.  *)
(***************************************************************************)
EXTENDS Naturals, FiniteSets

CONSTANTS
    Runs,           \* runs the Task may have at once, asleep or not, 1 .. n
    Passes,         \* passes of the sweep under way at once, 1 .. n
    MaxRecoveries,  \* MAX_AUTOMATIC_RECOVERIES
    MaxSessions,    \* Sessions the Task may get
    Mixes           \* mixes of what is Bounded, one of which may happen

Bounded ==
    {"starts",     \* launches and retries; each opens a Session
     "decisions",  \* decisions at the gate
     "overrides",  \* moves by a person
     "full",       \* wake-ups refused because the Profile is full
     "losses",     \* runs or events the engine forgets, web requests that die
     "slips"}      \* crashes of the orchestrator, sends of the sweep that
                   \* throw, passes that begin while another is under way

ASSUME RunsAssumption == Runs \subseteq Nat \ {0} /\ IsFiniteSet(Runs)
ASSUME PassesAssumption == Passes \subseteq Nat \ {0} /\ IsFiniteSet(Passes)
ASSUME RecoveriesAssumption == MaxRecoveries \in Nat
ASSUME SessionsAssumption == MaxSessions \in Nat
ASSUME MixesAssumption ==
    Mixes \subseteq {m \in [Bounded -> Nat] : m["starts"] <= MaxSessions}

VARIABLES
    row,       \* the Task row: state, completed_at set, carries the verdict
               \* park_never_resumed
    sess,      \* its Sessions, in the order they were opened
    asking,    \* the request between its claim and its event
    inbox,     \* events the engine holds for the Task
    run,       \* what each run is doing
    quiet,     \* the clock: nothing was written of the Task for longer than
               \* RECLAIM_STALE_MS, or for a parked one a park window besides
    pass,      \* what each pass of the sweep is doing about the Task
    loose,     \* history: a run may be under way that the row does not know of
    launched,  \* history: relaunches the engine accepted, per Session
    left,      \* how much of each of Bounded may still happen
    slipped    \* history: how many of the slips happened

vars == <<row, sess, asking, inbox, run, quiet, pass, loose, launched,
          left, slipped>>
history == <<loose, launched>>
bounds == <<left, slipped>>

Sessions == 1 .. MaxSessions
None == 0

Row == [state : {"ready", "running", "review", "parked", "failed", "done"},
        finished : BOOLEAN, named : BOOLEAN]

\* open is active or resumable. said: the newest agent_done in the log is that
\* of a round its budget did not cut short. spent: the relaunches recorded.
Session == [state : {"none", "open", "awaiting_review", "closed"},
            said : BOOLEAN, spent : Nat]
NoSession == [state |-> "none", said |-> FALSE, spent |-> 0]

\* A launch or a decision, sent by a request or by a pass.
Event == [decided : BOOLEAN, session : Sessions, by : {None} \union Passes]

NoRequest == [at |-> "none", decided |-> FALSE, session |-> None]
Request == [at : {"none", "claimed", "opened"}, decided : BOOLEAN,
            session : {None} \union Sessions]

\* working is the span of the harness's registration.
Executing == {"deciding", "preparing", "working", "ended", "broke", "reported"}
Run == [pc : {"idle", "asleep"} \union Executing,
        session : {None} \union Sessions, stopped : BOOLEAN]
NoRun == [pc |-> "idle", session |-> None, stopped |-> FALSE]

Pass == [at : {"idle", "stop", "launch", "record"},
         session : {None} \union Sessions]
NoPass == [at |-> "idle", session |-> None]

TypeOK ==
    /\ row \in Row
    /\ sess \in [Sessions -> Session]
    /\ asking \in Request
    /\ inbox \subseteq Event
    /\ run \in [Runs -> Run]
    /\ quiet \in BOOLEAN
    /\ pass \in [Passes -> Pass]
    /\ loose \in BOOLEAN
    /\ launched \in [Sessions -> Nat]
    /\ left \in [Bounded -> Nat]
    /\ slipped \in Nat

Init ==
    /\ row = [state |-> "ready", finished |-> FALSE, named |-> FALSE]
    /\ sess = [s \in Sessions |-> NoSession]
    /\ asking = NoRequest
    /\ inbox = {}
    /\ run = [r \in Runs |-> NoRun]
    /\ quiet = FALSE
    /\ pass = [p \in Passes |-> NoPass]
    /\ loose = FALSE
    /\ launched = [s \in Sessions |-> 0]
    /\ left \in Mixes
    /\ slipped = 0

-----------------------------------------------------------------------------

Spend(bound) == /\ left[bound] > 0
                /\ left' = [left EXCEPT ![bound] = @ - 1]

Slip == Spend("slips") /\ slipped' = slipped + 1

NewestOf(S) == IF S = {} THEN None ELSE CHOOSE s \in S : \A q \in S : q <= s
Opened == {s \in Sessions : sess[s].state # "none"}
Newest == NewestOf(Opened)
LiveSession == NewestOf({s \in Opened : sess[s].state # "closed"})
SessionWaits ==
    LiveSession # None /\ sess[LiveSession].state = "awaiting_review"

AtWork(r) == run[r].pc \in Executing /\ ~run[r].stopped
Registered == \E r \in Runs : run[r].pc = "working"
MayExecute == \A r \in Runs : run[r].pc \notin Executing
InFlight(p) == pass[p].at # "idle"

\* Launches under way for the Task: a request that will send one, an event that
\* waits, a run that was not stopped, a pass that has sent its stop.
Under == {<<"request", q>> : q \in {asking} \ {NoRequest}}
         \union {<<"event", e>> : e \in inbox}
         \union {<<"run", r>> : r \in {q \in Runs : AtWork(q)}}
         \union {<<"pass", p>> : p \in {q \in Passes : pass[q].at = "launch"}}

Busy == Under # {} \/ \E p \in Passes : InFlight(p)

\* Every write of the row and every line in the log is a sign of life.
Write(change) == row' = change /\ quiet' = FALSE
Logged(s, state) == sess' = [sess EXCEPT ![s].state = state] /\ quiet' = FALSE
Append == quiet' = FALSE /\ UNCHANGED sess

\* Mutant of ClaimRow: the verdict on the sleep stays.
ClaimUnread(from) ==
    /\ row.state \in from
    /\ Write([row EXCEPT !.state = "running", !.finished = FALSE])
    /\ loose' = Busy

\* claimTaskRunSlot, where the Profile has room. With nothing else under way,
\* the row and the runs agree from here on.
ClaimRow(from) ==
    /\ row.state \in from
    /\ Write([row EXCEPT !.state = "running", !.finished = FALSE,
                         !.named = FALSE])
    /\ loose' = Busy

Sent(e) == inbox' = inbox \union {e}

\* Mutant of Cancel: only what waits or sleeps is stopped.
CancelWaiting ==
    /\ inbox' = {}
    /\ run' = [r \in Runs |-> IF run[r].pc \in Executing THEN run[r] ELSE NoRun]

\* task.stop.requested: the engine forgets what waits or sleeps, and what
\* executes ends with its step.
Cancel == /\ inbox' = {}
          /\ run' = [r \in Runs |-> IF run[r].pc \in Executing
                                    THEN [run[r] EXCEPT !.stopped = TRUE]
                                    ELSE NoRun]

\* Nothing is written for a long while.
Tick ==
    /\ ~quiet
    /\ quiet' = TRUE
    /\ UNCHANGED <<row, sess, asking, inbox, run, pass, history, bounds>>

-----------------------------------------------------------------------------
(* The web app.                                                            *)

\* startTaskRun, and review.decide: the claim, then the Session, opened or made
\* active again, then the event.
Start ==
    /\ Spend("starts")
    /\ asking = NoRequest
    /\ ClaimRow({"ready", "parked", "failed"})
    /\ asking' = [at |-> "claimed", decided |-> FALSE,
                  session |-> Cardinality(Opened) + 1]
    /\ UNCHANGED <<sess, inbox, run, pass, launched, slipped>>

Decide ==
    /\ Spend("decisions")
    /\ asking = NoRequest
    /\ ClaimRow({"review"})
    /\ \E s \in Opened :
          asking' = [at |-> "claimed", decided |-> TRUE, session |-> s]
    /\ UNCHANGED <<sess, inbox, run, pass, launched, slipped>>

OpenSession ==
    /\ asking.at = "claimed"
    /\ Logged(asking.session, "open")
    /\ asking' = [asking EXCEPT !.at = "opened"]
    /\ UNCHANGED <<row, inbox, run, pass, history, bounds>>

SendEvent ==
    /\ asking.at = "opened"
    /\ Sent([decided |-> asking.decided, session |-> asking.session,
             by |-> None])
    /\ asking' = NoRequest
    /\ UNCHANGED <<row, sess, run, quiet, pass, history, bounds>>

\* The web process dies before it opened the Session, or before it sent.
DieInRequest ==
    /\ Spend("losses")
    /\ asking # NoRequest
    /\ asking' = NoRequest
    /\ UNCHANGED <<row, sess, inbox, run, quiet, pass, loose, launched,
                   slipped>>

\* task.move where it starts nothing, and task.submitForReview.
Moves == {<<"running", "review">>, <<"running", "parked">>,
          <<"running", "failed">>, <<"review", "ready">>,
          <<"review", "done">>, <<"parked", "failed">>, <<"done", "ready">>}

Move ==
    /\ Spend("overrides")
    /\ \E move \in Moves :
          /\ row.state = move[1]
          /\ Write([row EXCEPT
                      !.state = move[2],
                      !.finished = @ /\ move[2] # "ready",
                      !.named = @ /\ move[2] = "failed"])
    /\ loose' = (loose \/ Busy)
    /\ UNCHANGED <<sess, asking, inbox, run, pass, launched, slipped>>

-----------------------------------------------------------------------------
(* The runs.                                                               *)

To(r, pc) == run' = [run EXCEPT ![r].pc = pc]
Leave(r) == run' = [run EXCEPT ![r] = NoRun]
SessionOf(r) == run[r].session

\* The engine starts a run, under the lowest free name; a launched one does not
\* ask what the row reads.
StartRun(r) ==
    /\ run[r].pc = "idle" /\ \A q \in Runs : q < r => run[q].pc # "idle"
    /\ MayExecute
    /\ \E e \in inbox :
          /\ inbox' = inbox \ {e}
          /\ run' = [run EXCEPT
                       ![r] = [pc |-> IF e.decided THEN "deciding"
                                                   ELSE "preparing",
                               session |-> e.session, stopped |-> FALSE]]
    /\ UNCHANGED <<row, sess, asking, quiet, pass, history, bounds>>

\* Mutant of Ends: an abandoned Task is left in a state it does not have.
EndsAborted == {<<"review", "open">>, <<"aborted", "closed">>}

\* applyDecision: back to work, to the gate again, or done with.
Ends == {<<"review", "open">>, <<"ready", "open">>, <<"done", "open">>,
         <<"failed", "closed">>}

Apply(r) ==
    /\ run[r].pc = "deciding" /\ AtWork(r)
    /\ \/ /\ Write([row EXCEPT !.state = "running", !.finished = FALSE])
          /\ Logged(SessionOf(r), "open")
          /\ To(r, "preparing")
       \/ /\ \E end \in Ends : /\ Write([row EXCEPT !.state = end[1]])
                               /\ Logged(SessionOf(r), end[2])
          /\ Leave(r)
    /\ UNCHANGED <<asking, inbox, pass, history, bounds>>

\* agent-run: the harness registers, works, and withdraws at its end.
BeginRound(r) ==
    /\ run[r].pc = "preparing" /\ AtWork(r)
    /\ To(r, "working")
    /\ Append
    /\ UNCHANGED <<row, asking, inbox, pass, history, bounds>>

\* The harness's process ended, cut off by its budget or not, and the log holds
\* a marker saying which; or the round failed, and it does not.
EndRound(r) ==
    /\ run[r].pc = "working"
    /\ \/ /\ \E said \in BOOLEAN :
                sess' = [sess EXCEPT ![SessionOf(r)].said = said]
          /\ quiet' = FALSE
          /\ IF run[r].stopped THEN Leave(r) ELSE To(r, "ended")
       \/ /\ Append
          /\ IF run[r].stopped THEN Leave(r) ELSE To(r, "broke")
    /\ UNCHANGED <<row, asking, inbox, pass, history, bounds>>

\* continueTruncated, and restartLostConversation: another round.
AnotherRound(r) ==
    /\ AtWork(r)
    /\ run[r].pc = "broke" \/ (run[r].pc = "ended" /\ ~sess[SessionOf(r)].said)
    /\ Append
    /\ To(r, "preparing")
    /\ UNCHANGED <<row, asking, inbox, pass, history, bounds>>

\* to-review: the declaration is recorded, the Session waits for a person.
ToReview(r) ==
    /\ run[r].pc = "ended" /\ AtWork(r)
    /\ Write([row EXCEPT !.finished = TRUE])
    /\ Logged(SessionOf(r), "awaiting_review")
    /\ To(r, "reported")
    /\ UNCHANGED <<asking, inbox, pass, history, bounds>>

\* On to the next Step in the same run and Session, ...
NextStep(r) ==
    /\ run[r].pc = "reported" /\ AtWork(r)
    /\ Write([row EXCEPT !.finished = FALSE,
                         !.state = IF @ = "review" THEN "running" ELSE @])
    /\ Logged(SessionOf(r), "open")
    /\ To(r, "preparing")
    /\ UNCHANGED <<asking, inbox, pass, history, bounds>>

\* ... or to the gate, or nowhere: a Task on no Workflow, a harness that gave up.
OpenGate(r) ==
    /\ run[r].pc = "reported" /\ AtWork(r)
    /\ \/ /\ Write([row EXCEPT !.state = "review", !.named = FALSE])
          /\ Append
       \/ UNCHANGED <<row, sess, quiet>>
    /\ Leave(r)
    /\ UNCHANGED <<asking, inbox, pass, history, bounds>>

\* failRun and failRound. The Session stays open.
Fail(r) ==
    /\ run[r].pc \in Executing \ {"working", "ended"} /\ AtWork(r)
    /\ Write([row EXCEPT !.state = "failed", !.named = FALSE])
    /\ Append
    /\ Leave(r)
    /\ UNCHANGED <<asking, inbox, pass, history, bounds>>

\* park: the row says so, and the run sleeps.
Park(r) ==
    /\ run[r].pc = "broke" /\ AtWork(r)
    /\ Write([row EXCEPT !.state = "parked", !.named = FALSE])
    /\ Append
    /\ To(r, "asleep")
    /\ UNCHANGED <<asking, inbox, pass, history, bounds>>

\* clearStrandedPark and claimWokenSlot: a slot and another round, no slot yet,
\* or a Task that has moved. The verdict on the sleep goes with the first two.
Wake(r) ==
    /\ run[r].pc = "asleep"
    /\ MayExecute
    /\ \/ /\ ClaimRow({"parked"})
          /\ Append
          /\ To(r, "preparing")
          /\ UNCHANGED left
       \/ /\ row.state = "parked"
          /\ Spend("full")
          /\ Write([row EXCEPT !.named = FALSE])
          /\ UNCHANGED <<sess, run, loose>>
       \/ /\ row.state # "parked"
          /\ Append
          /\ Leave(r)
          /\ UNCHANGED <<row, loose, left>>
    /\ UNCHANGED <<asking, inbox, pass, launched, slipped>>

\* A stopped run ends with the step it was in.
Unwind(r) ==
    /\ run[r].stopped /\ run[r].pc # "working"
    /\ Leave(r)
    /\ UNCHANGED <<row, sess, asking, inbox, quiet, pass, history, bounds>>

-----------------------------------------------------------------------------
(* What goes wrong.                                                        *)

\* The engine forgets a run, or an event it had accepted. What executes in the
\* orchestrator goes on to the end of its step.
Lose ==
    /\ Spend("losses")
    /\ \/ /\ \E e \in inbox : inbox' = inbox \ {e}
          /\ UNCHANGED run
       \/ /\ \E r \in Runs :
                /\ run[r].pc # "idle" /\ ~run[r].stopped
                /\ IF run[r].pc \in Executing
                   THEN run' = [run EXCEPT ![r].stopped = TRUE]
                   ELSE Leave(r)
          /\ UNCHANGED inbox
    /\ UNCHANGED <<row, sess, asking, quiet, pass, history, slipped>>

\* The orchestrator dies: its harnesses and its passes are gone, and the engine
\* asks for the interrupted step again.
Crash ==
    /\ Slip
    /\ run' = [r \in Runs |->
                 IF run[r].stopped THEN NoRun
                 ELSE IF run[r].pc = "working"
                      THEN [run[r] EXCEPT !.pc = "preparing"]
                      ELSE run[r]]
    /\ pass' = [p \in Passes |-> NoPass]
    /\ UNCHANGED <<row, sess, asking, inbox, quiet, history>>

-----------------------------------------------------------------------------
(* The sweep.                                                              *)

PassTo(p, at, s) == pass' = [pass EXCEPT ![p] = [at |-> at, session |-> s]]

\* Mutant of Judged: a Task without a Session is passed over as well.
JudgedWithSession == /\ row.state = "running"
                     /\ ~Registered
                     /\ LiveSession # None /\ ~SessionWaits
                     /\ quiet

\* Passed over: registered, at the gate, or not silent for long enough.
Judged == /\ row.state = "running"
          /\ ~Registered
          /\ ~SessionWaits
          /\ quiet

\* completionMarker, apart from a round its budget cut short.
Evidence == IF LiveSession # None THEN LiveSession ELSE Newest
SaysItFinished == Evidence # None /\ sess[Evidence].said

MayRelaunch == LiveSession # None /\ sess[LiveSession].spent < MaxRecoveries

\* A pass that begins while another is under way.
Begin(p) == /\ \A q \in Passes : q <= p => ~InFlight(q)
            /\ IF \E q \in Passes : InFlight(q) THEN Slip
                                                 ELSE UNCHANGED bounds

\* The last rung: work that left a diff goes back to ready, the rest has
\* failed. What still runs, though silent, is not stopped.
File(s) ==
    /\ \E state \in {"ready", "failed"} :
          Write([row EXCEPT !.state = state,
                            !.named = FALSE])
    /\ IF s = None THEN UNCHANGED sess ELSE Logged(s, "closed")

RecordFinished ==
    /\ SaysItFinished
    /\ Write([row EXCEPT !.finished = TRUE])
    /\ IF LiveSession = None THEN UNCHANGED sess
                             ELSE Logged(LiveSession, "awaiting_review")

Reclaim(p) ==
    /\ Judged
    /\ Begin(p)
    /\ \/ /\ RecordFinished
          /\ UNCHANGED <<pass, loose>>
       \/ /\ ~SaysItFinished /\ MayRelaunch
          /\ PassTo(p, "stop", LiveSession)
          /\ loose' = (loose \/ asking # NoRequest)
          /\ UNCHANGED <<row, sess, quiet>>
       \/ /\ ~SaysItFinished /\ ~MayRelaunch
          /\ File(LiveSession)
          /\ loose' = (loose \/ Busy)
          /\ UNCHANGED <<pass>>
    /\ UNCHANGED <<asking, inbox, run, launched>>

\* The stop comes first, so that what was only silent is gone when the launch
\* arrives.
SendStop(p) ==
    /\ pass[p].at = "stop"
    /\ Cancel
    /\ PassTo(p, "launch", pass[p].session)
    /\ loose' = (loose \/ row.state # "running" \/ asking # NoRequest
                       \/ \E q \in Passes \ {p} : InFlight(q))
    /\ UNCHANGED <<row, sess, asking, quiet, launched, bounds>>

Launch(p) ==
    /\ Sent([decided |-> FALSE, session |-> pass[p].session, by |-> p])
    /\ launched' = [launched EXCEPT ![pass[p].session] = @ + 1]

SendLaunch(p) ==
    /\ pass[p].at = "launch"
    /\ Launch(p)
    /\ PassTo(p, "record", pass[p].session)
    /\ UNCHANGED <<row, sess, asking, run, quiet, loose, bounds>>

\* Mutant of Record: the row is written, the relaunch is not recorded.
RecordRow(p) ==
    /\ pass[p].at = "record"
    /\ Write([row EXCEPT !.state = "running", !.named = FALSE])
    /\ PassTo(p, "idle", None)
    /\ loose' = (loose \/ row.state # "running")
    /\ UNCHANGED <<sess, asking, inbox, run, launched, bounds>>

\* The record in the Session's log, which dates it, then the row, whatever it
\* reads by now.
Record(p) ==
    /\ pass[p].at = "record"
    /\ sess' = [sess EXCEPT ![pass[p].session].spent = @ + 1]
    /\ Write([row EXCEPT !.state = "running", !.named = FALSE])
    /\ PassTo(p, "idle", None)
    /\ loose' = (loose \/ row.state # "running")
    /\ UNCHANGED <<asking, inbox, run, launched, bounds>>

\* A send threw, though it may have arrived: the Task is filed in this pass.
Refused(p) ==
    /\ Slip
    /\ \/ /\ pass[p].at = "stop"
          /\ Cancel \/ UNCHANGED <<inbox, run>>
          /\ UNCHANGED launched
       \/ /\ pass[p].at = "launch"
          /\ Launch(p) \/ UNCHANGED <<inbox, launched>>
          /\ UNCHANGED run
    /\ File(pass[p].session)
    /\ PassTo(p, "idle", None)
    /\ loose' = TRUE
    /\ UNCHANGED <<asking>>

\* reportStrandedParks: nobody woke in a whole window; the Task stays parked
\* and says so.
NameStranded ==
    /\ row.state = "parked" /\ ~row.named /\ quiet
    /\ ~Registered
    /\ Newest # None => sess[Newest].state # "awaiting_review"
    /\ Write([row EXCEPT !.named = TRUE])
    /\ UNCHANGED <<sess, asking, inbox, run, pass, history, bounds>>

-----------------------------------------------------------------------------

Person == Start \/ Decide \/ Move

Answer == OpenSession \/ SendEvent \/ DieInRequest

RunStep(r) ==
    \/ StartRun(r) \/ Apply(r) \/ BeginRound(r) \/ EndRound(r)
    \/ AnotherRound(r) \/ ToReview(r) \/ NextStep(r) \/ OpenGate(r)
    \/ Fail(r) \/ Park(r) \/ Wake(r) \/ Unwind(r)

Sweep(p) ==
    Reclaim(p) \/ SendStop(p) \/ SendLaunch(p) \/ Record(p) \/ Refused(p)

Next ==
    \/ Person \/ Answer \/ Lose \/ Crash \/ Tick \/ NameStranded
    \/ \E r \in Runs : RunStep(r)
    \/ \E p \in Passes : Sweep(p)

\* Time passes, requests are answered, the engine goes on with its runs and the
\* timer with its sweeps. People, and what goes wrong, are owed nothing.
Fairness ==
    /\ WF_vars(Tick)
    /\ WF_vars(Answer)
    /\ WF_vars(NameStranded)
    /\ \A r \in Runs : WF_vars(RunStep(r))
    /\ \A p \in Passes : WF_vars(Sweep(p))

Spec == Init /\ [][Next]_vars /\ Fairness

-----------------------------------------------------------------------------
(* Properties.                                                             *)

\* The stop before the launch (relaunch.ts): a harness is never put beside
\* another, however wrong the sweep is about a run being lost, unless a person
\* moved the Task under it, a send arrived that had thrown, the sweep gave up
\* on a run that was alive, or two passes were at it at once.
OneAtATime ==
    ~loose => \A x, y \in Under : x = y

\* The budget is kept in the log it is spent in: relaunches of one Session are
\* at most MaxRecoveries, and one more for each pass that overtook another,
\* each crash between a launch and its record, each launch that threw.
BudgetHolds ==
    \A s \in Sessions : launched[s] <= MaxRecoveries + slipped

\* The verdict on a sleep is about that sleep: no Task that runs or waits at
\* its gate carries park_never_resumed.
VerdictLeavesWithThePark ==
    ~loose /\ row.named => row.state \in {"parked", "failed"}

\* A Task comes to something a person sees: its harness works, it is finished,
\* it failed, it waits for a decision, or it is parked and named as stranded.
\* Nothing that is lost, no crash and no sleeper that never comes back leaves it
\* reading running or parked for ever, unless its Session waits for a person
\* already: such a Task is passed over.
AtRest ==
    \/ row.state \notin {"running", "parked"}
    \/ row.state = "running" /\ row.finished
    \/ row.state = "parked" /\ row.named
    \/ Registered
    \/ SessionWaits
ComesToRest == ~AtRest ~> AtRest
=============================================================================
