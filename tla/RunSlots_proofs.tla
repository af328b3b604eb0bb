-------------------------- MODULE RunSlots_proofs --------------------------
(***************************************************************************)
(* Proofs about RunSlots, for any Tasks, any cap and any bounds: the types,*)
(* the cap, and that slots and parked rows are worked for. The cap is not  *)
(* inductive: a run that applies a decision or goes on to the next Step    *)
(* writes running without asking for a slot, and the cap survives it       *)
(* because the Task holds one already. Settled says why: what is under way *)
(* for a Task is one thing at a time, begun by a claim, and the row still  *)
(* says so.                                                                *)
(***************************************************************************)
EXTENDS RunSlots, FiniteSetTheorems, TLAPS

USE TasksAssumption, CapAssumption, BoundsAssumption

\* What is under way for one Task agrees with its row.
Settled(t) ==
    /\ asking[t] # NoRequest => inbox[t] = {} /\ MayExecute(t)
    /\ inbox[t] # {} => MayExecute(t)
    /\ \A e, f \in inbox[t] : e = f
    /\ \A r, q \in Runs :
          run[t][r] \in AtWork /\ run[t][q] \in AtWork => r = q
    /\ \A r \in Runs : run[t][r] # "stopping"
    /\ Busy(t) => row[t].live /\ row[t].state = "running"
    /\ Busy(t) /\ ~Holds(t) => t \in early
    /\ Busy(t) /\ t \in early =>
          \E r \in Runs : run[t][r] \in {"working", "ended"}

SettledInv == \A t \in Tasks \ loose : Settled(t)

\* One step of Next, for the Task it is about.
StepFor(t) ==
    \/ Start(t) \/ Decide(t) \/ SendEvent(t) \/ RollBack(t)
    \/ Move(t) \/ Delete(t) \/ Restore(t)
    \/ \E r \in Runs :
          \/ StartRun(t, r) \/ Declare(t, r) \/ EndRound(t, r) \/ Fail(t, r)
          \/ NextStep(t, r) \/ OpenGate(t, r) \/ Park(t, r) \/ Wake(t, r)
          \/ ClaimWokenSlot(t, r) \/ DieAfterClaim(t, r)
          \/ Apply(t, r) \/ Unwind(t, r)

-----------------------------------------------------------------------------
(* Types.                                                                  *)

RowsTyped == row \in [Tasks -> Row]

RunsTyped == /\ run \in [Tasks -> [Runs -> Pc]]
             /\ \A t \in Tasks \ OnWorkflow, r \in Runs : run[t][r] # "ended"

LEMMA StateWritten ==
    ASSUME TypeOK, NEW t \in Tasks, NEW s \in State, SetState(t, s)
    PROVE  RowsTyped'
  BY DEF TypeOK, RowsTyped, Row, SetState

LEMMA BothWritten ==
    ASSUME TypeOK, NEW t \in Tasks, NEW s \in State, NEW b \in BOOLEAN,
           row' = [row EXCEPT ![t].state = s, ![t].finished = b]
    PROVE  RowsTyped'
  <1>1. row \in [Tasks -> Row] /\ row[t] \in Row
    BY DEF TypeOK
  <1>2. [row[t] EXCEPT !.state = s, !.finished = b] \in Row
    BY <1>1 DEF Row
  <1>3. row' = [row EXCEPT ![t] = [row[t] EXCEPT !.state = s, !.finished = b]]
    BY <1>1
  <1> QED BY <1>1, <1>2, <1>3 DEF RowsTyped

LEMMA FlagWritten ==
    ASSUME TypeOK, NEW t \in Tasks, NEW b \in BOOLEAN,
           \/ row' = [row EXCEPT ![t].finished = b]
           \/ row' = [row EXCEPT ![t].live = b]
    PROVE  RowsTyped'
  <1>1. row \in [Tasks -> Row] /\ row[t] \in Row
    BY DEF TypeOK
  <1>2. /\ [row[t] EXCEPT !.finished = b] \in Row
        /\ [row[t] EXCEPT !.live = b] \in Row
    BY <1>1 DEF Row
  <1>3. \/ row' = [row EXCEPT ![t] = [row[t] EXCEPT !.finished = b]]
        \/ row' = [row EXCEPT ![t] = [row[t] EXCEPT !.live = b]]
    BY <1>1
  <1> QED BY <1>1, <1>2, <1>3 DEF RowsTyped

LEMMA PhaseWritten ==
    ASSUME TypeOK, NEW t \in Tasks, NEW r \in Runs, NEW pc \in Pc,
           t \in OnWorkflow \/ pc # "ended", To(t, r, pc)
    PROVE  RunsTyped'
  BY DEF TypeOK, RunsTyped, To

LEMMA BoundSpent ==
    ASSUME TypeOK, NEW bound \in Bounded, Spend(bound)
    PROVE  used' \in [Bounded -> Nat]
  BY DEF TypeOK, Spend

LEMMA SlotClaimed ==
    ASSUME TypeOK, NEW t \in Tasks, NEW from, ClaimSlot(t, from)
    PROVE  /\ RowsTyped'
           /\ loose' \subseteq Tasks
           /\ early' \subseteq Tasks
  <1>1. "running" \in State
    BY DEF State
  <1>2. RowsTyped'
    BY <1>1, BothWritten DEF ClaimSlot
  <1> QED BY <1>2 DEF TypeOK, ClaimSlot, AgreesAgain

LEMMA InitTyped == Init => TypeOK
  BY DEF Init, TypeOK, Row, State, Request, Pc

LEMMA TypedStep == TypeOK /\ [Next]_vars => TypeOK'
  <1> SUFFICES ASSUME TypeOK, [Next]_vars PROVE TypeOK'
    OBVIOUS
  <1>0. SUFFICES /\ RowsTyped'
                 /\ asking' \in [Tasks -> Request]
                 /\ inbox' \in [Tasks -> SUBSET Event]
                 /\ RunsTyped'
                 /\ loose' \subseteq Tasks
                 /\ early' \subseteq Tasks
                 /\ overslept' \subseteq Tasks \X Runs
                 /\ used' \in [Bounded -> Nat]
    BY DEF TypeOK, RowsTyped, RunsTyped
  <1> DEFINE Goal == /\ RowsTyped'
                     /\ asking' \in [Tasks -> Request]
                     /\ inbox' \in [Tasks -> SUBSET Event]
                     /\ RunsTyped'
                     /\ loose' \subseteq Tasks
                     /\ early' \subseteq Tasks
                     /\ overslept' \subseteq Tasks \X Runs
                     /\ used' \in [Bounded -> Nat]
  <1>a. /\ RowsTyped
        /\ RunsTyped
        /\ UNCHANGED row => RowsTyped'
        /\ UNCHANGED run => RunsTyped'
    BY DEF TypeOK, RowsTyped, RunsTyped
  <1>b. {"starts", "overrides", "rollbacks", "redeliveries", "deaths"} \subseteq Bounded
    BY DEF Bounded
  <1>c. {"ready", "running", "review", "parked", "failed", "done"} \subseteq State
    BY DEF State
  <1>d. {"idle", "asleep", "awake", "working", "stopping"} \union Decisions \subseteq Pc
    BY DEF Pc, AtWork
  <1>e. \A t \in Tasks : /\ row[t].state \in State
                         /\ row[t].finished \in BOOLEAN
                         /\ row[t].live \in BOOLEAN
                         /\ row[t] = [state |-> row[t].state,
                                      finished |-> row[t].finished,
                                      live |-> row[t].live]
                         /\ Sleepers(t) \subseteq Runs
    BY DEF TypeOK, Row, Sleepers
  <1>1. CASE UNCHANGED vars
    BY <1>1, <1>a DEF vars, TypeOK
  <1>2. ASSUME NEW t \in Tasks, NEW e \in Event, Ask(t, e)
        PROVE  asking' \in [Tasks -> Request]
    BY <1>2, <1>e DEF TypeOK, Ask, Request
  <1>3. ASSUME NEW t \in Tasks, Start(t) PROVE Goal
    <2>1. asking' \in [Tasks -> Request]
      BY <1>2, <1>3 DEF Start, Event
    <2> QED BY <1>3, <1>a, <1>b, <1>e, <2>1, BoundSpent, SlotClaimed DEF Start, TypeOK
  <1>4. ASSUME NEW t \in Tasks, Decide(t) PROVE Goal
    <2>1. PICK decision \in Decisions :
            /\ Ask(t, decision)
            /\ \/ ClaimSlot(t, {"review"})
               \/ SetState(t, "running") /\ loose' = loose \union {t} /\ UNCHANGED early
      BY <1>4 DEF Decide
    <2>2. asking' \in [Tasks -> Request]
      BY <1>2, <2>1 DEF Event
    <2>3. RowsTyped' /\ loose' \subseteq Tasks /\ early' \subseteq Tasks
      BY <2>1, <1>c, SlotClaimed, StateWritten DEF TypeOK
    <2> QED BY <1>4, <1>a, <1>b, <2>2, <2>3, BoundSpent DEF Decide, TypeOK
  <1>5. ASSUME NEW t \in Tasks, asking[t] # NoRequest
        PROVE  asking[t].event \in Event /\ asking[t].was \in State
               /\ asking[t].finished \in BOOLEAN
    BY <1>5 DEF TypeOK, Request
  <1>6. ASSUME NEW t \in Tasks, asking' = [asking EXCEPT ![t] = NoRequest]
        PROVE  asking' \in [Tasks -> Request]
    BY <1>6 DEF TypeOK, Request
  <1>7. ASSUME NEW t \in Tasks, SendEvent(t) PROVE Goal
    BY <1>7, <1>5, <1>6, <1>a DEF SendEvent, TypeOK
  <1>8. ASSUME NEW t \in Tasks, RollBack(t) PROVE Goal
    <2>2. RowsTyped'
      BY <1>8, <1>5, BothWritten DEF RollBack
    <2>3. inbox' \in [Tasks -> SUBSET Event]
      BY <1>8, <1>5 DEF RollBack, TypeOK
    <2> QED BY <1>8, <1>6, <1>a, <1>b, <2>2, <2>3, BoundSpent DEF RollBack, TypeOK
  <1>9. ASSUME NEW t \in Tasks, Move(t) PROVE Goal
    <2>1. PICK move \in Moves :
             row' = [row EXCEPT ![t].state = move[2],
                                ![t].finished = @ /\ move[2] # "ready"]
      BY <1>9 DEF Move
    <2>2. move[2] \in State
      BY DEF Moves, State
    <2>3. PICK b \in BOOLEAN : b = (row[t].finished /\ move[2] # "ready")
      BY <1>e
    <2>4. row' = [row EXCEPT ![t].state = move[2], ![t].finished = b]
      BY <2>1, <2>3 DEF TypeOK
    <2>5. RowsTyped'
      BY <2>2, <2>4, BothWritten
    <2>6. loose' \subseteq Tasks
      BY <1>9 DEF Move, TypeOK
    <2> QED BY <1>9, <1>a, <1>b, <1>e, <2>5, <2>6, BoundSpent DEF Move, TypeOK
  <1>11. ASSUME NEW t \in Tasks, Delete(t) PROVE Goal
    <2>1. RunsTyped'
      BY <1>11, <1>a, <1>d DEF Delete, TypeOK, RunsTyped
    <2> QED BY <1>11, FlagWritten, <1>b, <2>1, BoundSpent DEF Delete, Loosens, TypeOK
  <1>12. ASSUME NEW t \in Tasks, Restore(t) PROVE Goal
    BY <1>12, FlagWritten, <1>a, <1>b, BoundSpent DEF Restore, TypeOK
  <1>15. ASSUME NEW t \in Tasks, NEW r \in Runs, StartRun(t, r) PROVE Goal
    <2>1. PICK e \in inbox[t] :
            /\ To(t, r, IF e = "launch" THEN "working" ELSE e)
            /\ \/ inbox' = [inbox EXCEPT ![t] = @ \ {e}] /\ UNCHANGED <<loose, used>>
               \/ Spend("redeliveries") /\ loose' = loose \union {t} /\ UNCHANGED inbox
      BY <1>15 DEF StartRun
    <2>2. e = "launch" \/ e \in Decisions
      BY DEF TypeOK, Event
    <2>3. "ended" \notin Decisions
      BY DEF Decisions
    <2>4. RunsTyped'
      BY <1>d, <2>1, <2>2, <2>3, PhaseWritten
    <2> QED BY <1>15, <1>a, <1>b, <2>1, <2>4, BoundSpent DEF StartRun, TypeOK
  <1>16. ASSUME NEW t \in Tasks, NEW r \in Runs, Declare(t, r) PROVE Goal
    BY <1>16, FlagWritten, <1>a DEF Declare, TypeOK
  <1>17. ASSUME NEW t \in Tasks, NEW r \in Runs, EndRound(t, r) PROVE Goal
    <2>1. GoesOn(t) \in Pc /\ (t \in OnWorkflow \/ GoesOn(t) # "ended")
      BY DEF GoesOn, Pc, AtWork
    <2>2. RunsTyped'
      BY <1>17, <2>1, PhaseWritten DEF EndRound
    <2> QED BY <1>17, FlagWritten, <2>2 DEF EndRound, TypeOK
  <1>18. ASSUME NEW t \in Tasks, NEW r \in Runs,
                Fail(t, r) \/ OpenGate(t, r) \/ Park(t, r) PROVE Goal
    <2>1. RunsTyped'
      BY <1>18, <1>d, PhaseWritten DEF Fail, OpenGate, Park
    <2>2. RowsTyped'
      BY <1>18, <1>a, <1>c, StateWritten DEF Fail, OpenGate, Park
    <2> QED BY <1>18, <2>1, <2>2 DEF Fail, OpenGate, Park, TypeOK
  <1>19. ASSUME NEW t \in Tasks, NEW r \in Runs, NextStep(t, r) PROVE Goal
    <2>1. PICK s \in State : s = IF row[t].state = "review" THEN "running"
                                                            ELSE row[t].state
      BY <1>c, <1>e
    <2>2. row' = [row EXCEPT ![t].state = s, ![t].finished = FALSE]
      BY <1>19, <2>1 DEF NextStep, TypeOK, Row
    <2>3. RowsTyped'
      BY <2>2, BothWritten
    <2>4. RunsTyped'
      BY <1>19, <1>d, PhaseWritten DEF NextStep
    <2> QED BY <1>19, <2>3, <2>4 DEF NextStep, TypeOK
  <1>20. ASSUME NEW t \in Tasks, NEW r \in Runs, NEW pc \in {"idle", "awake"},
                Woken(t, r, pc)
         PROVE  RunsTyped' /\ overslept' \subseteq Tasks \X Runs
    BY <1>20, <1>d, PhaseWritten DEF Woken, TypeOK
  <1>21. ASSUME NEW t \in Tasks, NEW r \in Runs, Wake(t, r) PROVE Goal
    BY <1>21, <1>20, <1>a DEF Wake, TypeOK
  <1>22. ASSUME NEW t \in Tasks, NEW r \in Runs, ClaimWokenSlot(t, r) PROVE Goal
    <2>1. CASE /\ ClaimSlot(t, {"parked"})
               /\ To(t, r, "working")
               /\ overslept' = (overslept \union ({t} \X Sleepers(t))) \ {<<t, r>>}
      <3>1. RunsTyped'
        BY <1>d, <2>1, PhaseWritten
      <3> QED BY <1>22, <1>e, <2>1, <3>1, SlotClaimed DEF ClaimWokenSlot, TypeOK
    <2>2. CASE /\ \/ Woken(t, r, StayWhenFull(t))
                  \/ Woken(t, r, "idle")
               /\ UNCHANGED <<row, loose, early>>
      <3>1. StayWhenFull(t) \in {"idle", "awake"}
        BY DEF StayWhenFull
      <3> QED BY <1>22, <1>20, <1>a, <2>2, <3>1 DEF ClaimWokenSlot, TypeOK
    <2> QED BY <1>22, <2>1, <2>2 DEF ClaimWokenSlot
  <1>23. ASSUME NEW t \in Tasks, NEW r \in Runs, Apply(t, r) PROVE Goal
    <2>1. CASE BackToWork(t, r)
      <3>2. RowsTyped'
        BY <1>c, <2>1, BothWritten DEF BackToWork
      <3>3. RunsTyped'
        BY <1>d, <2>1, PhaseWritten DEF BackToWork
      <3> QED BY <1>23, <2>1, <3>2, <3>3 DEF Apply, BackToWork, TypeOK
    <2>2. CASE /\ SetState(t, "done") \/ SetState(t, "review") \/ SetState(t, "ready")
               /\ To(t, r, "idle")
               /\ UNCHANGED early
      <3>1. RowsTyped' /\ RunsTyped'
        BY <1>c, <1>d, <2>2, StateWritten, PhaseWritten
      <3> QED BY <1>23, <2>2, <3>1 DEF Apply, TypeOK
    <2> QED BY <1>23, <2>1, <2>2 DEF Apply
  <1>24. ASSUME NEW t \in Tasks, NEW r \in Runs, Unwind(t, r) PROVE Goal
    <2>1. RunsTyped'
      BY <1>24, <1>d, PhaseWritten DEF Unwind
    <2> QED BY <1>24, <1>a, <2>1 DEF Unwind, TypeOK
  <1>25. ASSUME NEW t \in Tasks, NEW r \in Runs, DieAfterClaim(t, r) PROVE Goal
    BY <1>25, <1>a, <1>b, <1>e, BoundSpent, SlotClaimed DEF DieAfterClaim, TypeOK
  <1> QED BY <1>1, <1>3, <1>4, <1>7, <1>8, <1>9, <1>11, <1>12, <1>15, <1>16, <1>17,
             <1>18, <1>19, <1>21, <1>22, <1>23, <1>24, <1>25 DEF Next

\* Every variable has its type, for any Tasks and any bounds (the rows of
\* packages/db, the events of launchData, the phases of runTaskLifecycle).
THEOREM Typing == Spec => []TypeOK
  BY InitTyped, TypedStep, PTL DEF Spec

-----------------------------------------------------------------------------
(* What a step writes.                                                     *)

LEMMA PhaseRead ==
    ASSUME TypeOK, NEW t \in Tasks, NEW r \in Runs, NEW pc, To(t, r, pc)
    PROVE  /\ run'[t][r] = pc
           /\ \A q \in Runs \ {r} : run'[t][q] = run[t][q]
           /\ \A u \in Tasks \ {t} : run'[u] = run[u]
  BY DEF TypeOK, To

LEMMA RowRead ==
    ASSUME TypeOK, NEW t \in Tasks, NEW s, NEW b
    PROVE  /\ SetState(t, s) =>
                /\ row'[t].state = s
                /\ row'[t].finished = row[t].finished
                /\ row'[t].live = row[t].live
                /\ \A u \in Tasks \ {t} : row'[u] = row[u]
           /\ row' = [row EXCEPT ![t].finished = b] =>
                /\ row'[t].state = row[t].state
                /\ row'[t].finished = b
                /\ row'[t].live = row[t].live
                /\ \A u \in Tasks \ {t} : row'[u] = row[u]
           /\ row' = [row EXCEPT ![t].live = b] =>
                /\ row'[t].state = row[t].state
                /\ row'[t].finished = row[t].finished
                /\ row'[t].live = b
                /\ \A u \in Tasks \ {t} : row'[u] = row[u]
           /\ row' = [row EXCEPT ![t].state = s, ![t].finished = b] =>
                /\ row'[t].state = s
                /\ row'[t].finished = b
                /\ row'[t].live = row[t].live
                /\ \A u \in Tasks \ {t} : row'[u] = row[u]
  <1>1. /\ row \in [Tasks -> Row]
        /\ row[t] \in [state : State, finished : BOOLEAN, live : BOOLEAN]
    BY DEF TypeOK, Row
  <1>2. SetState(t, s) => /\ row'[t].state = s
                          /\ row'[t].finished = row[t].finished
                          /\ row'[t].live = row[t].live
                          /\ \A u \in Tasks \ {t} : row'[u] = row[u]
    BY <1>1 DEF SetState
  <1>3. row' = [row EXCEPT ![t].finished = b] =>
          /\ row'[t].state = row[t].state
          /\ row'[t].finished = b
          /\ row'[t].live = row[t].live
          /\ \A u \in Tasks \ {t} : row'[u] = row[u]
    BY <1>1
  <1>4. row' = [row EXCEPT ![t].live = b] =>
          /\ row'[t].state = row[t].state
          /\ row'[t].finished = row[t].finished
          /\ row'[t].live = b
          /\ \A u \in Tasks \ {t} : row'[u] = row[u]
    BY <1>1
  <1>5. row' = [row EXCEPT ![t].state = s, ![t].finished = b] =>
          /\ row'[t].state = s
          /\ row'[t].finished = b
          /\ row'[t].live = row[t].live
          /\ \A u \in Tasks \ {t} : row'[u] = row[u]
    BY <1>1
  <1> QED BY <1>2, <1>3, <1>4, <1>5

LEMMA StateRead ==
    ASSUME TypeOK, NEW t \in Tasks, NEW s, SetState(t, s)
    PROVE  row'[t].state = s
  BY RowRead

LEMMA ClaimRead ==
    ASSUME TypeOK, NEW t \in Tasks, NEW from, ClaimSlot(t, from)
    PROVE  /\ row'[t].state = "running"
           /\ row'[t].finished = FALSE
           /\ row'[t].live
           /\ t \notin early'
           /\ \A u \in Tasks \ {t} : /\ row'[u] = row[u]
                                     /\ u \in loose' <=> u \in loose
                                     /\ u \in early' <=> u \in early
  <1>1. row' = [row EXCEPT ![t].state = "running", ![t].finished = FALSE]
        /\ row[t].live
    BY DEF ClaimSlot
  <1>2. /\ row'[t].state = "running" /\ row'[t].finished = FALSE
        /\ row'[t].live
        /\ \A u \in Tasks \ {t} : row'[u] = row[u]
    BY <1>1, RowRead
  <1>3. /\ t \notin early'
        /\ \A u \in Tasks \ {t} : /\ u \in loose' <=> u \in loose
                                  /\ u \in early' <=> u \in early
    BY DEF ClaimSlot, AgreesAgain
  <1> QED BY <1>2, <1>3

LEMMA AskRead ==
    ASSUME TypeOK, NEW t \in Tasks, NEW e, Ask(t, e)
    PROVE  /\ asking[t] = NoRequest
           /\ \A u \in Tasks \ {t} : asking'[u] = asking[u]
  BY DEF TypeOK, Ask

\* A step for one Task leaves the others alone.
LEMMA Elsewhere ==
    ASSUME TypeOK, NEW t \in Tasks, StepFor(t), NEW u \in Tasks \ {t}
    PROVE  /\ row'[u] = row[u]
           /\ asking'[u] = asking[u]
           /\ inbox'[u] = inbox[u]
           /\ run'[u] = run[u]
           /\ u \in loose' <=> u \in loose
           /\ u \in early' <=> u \in early
  <1>1. /\ asking \in [Tasks -> Request]
        /\ inbox \in [Tasks -> SUBSET Event]
        /\ run \in [Tasks -> [Runs -> Pc]]
    BY DEF TypeOK
  <1>2. CASE Start(t)
    BY <1>2, ClaimRead, AskRead DEF Start
  <1>3. CASE Decide(t)
    <2>1. PICK decision \in Decisions :
            /\ Ask(t, decision)
            /\ \/ ClaimSlot(t, {"review"})
               \/ SetState(t, "running") /\ loose' = loose \union {t} /\ UNCHANGED early
      BY <1>3 DEF Decide
    <2>2. UNCHANGED <<inbox, run>>
      BY <1>3 DEF Decide
    <2>3. asking'[u] = asking[u]
      BY <2>1, AskRead
    <2>4. CASE ClaimSlot(t, {"review"})
      BY <2>2, <2>3, <2>4, ClaimRead
    <2>5. CASE SetState(t, "running") /\ loose' = loose \union {t} /\ UNCHANGED early
      <3>1. row'[u] = row[u]
        BY <2>5, RowRead
      <3> QED BY <2>2, <2>3, <2>5, <3>1
    <2> QED BY <2>1, <2>4, <2>5
  <1>4. CASE SendEvent(t)
    BY <1>1, <1>4 DEF SendEvent
  <1>5. CASE RollBack(t)
    <2>1. row'[u] = row[u]
      BY <1>5, RowRead DEF RollBack
    <2>2. inbox'[u] = inbox[u]
      BY <1>1, <1>5 DEF RollBack
    <2> QED BY <1>1, <1>5, <2>1, <2>2 DEF RollBack
  <1>6. CASE Move(t)
    <2>1. row'[u] = row[u]
      BY <1>6 DEF Move, TypeOK
    <2> QED BY <1>6, <2>1 DEF Move
  <1>7. CASE Delete(t) \/ Restore(t)
    BY <1>1, <1>7, RowRead DEF Delete, Restore, Loosens
  <1>8. ASSUME NEW r \in Runs,
               \/ StartRun(t, r) \/ Wake(t, r) \/ Unwind(t, r)
               \/ Fail(t, r) \/ OpenGate(t, r) \/ Park(t, r)
        PROVE  run'[u] = run[u] /\ row'[u] = row[u]
    BY <1>8, PhaseRead, RowRead
       DEF StartRun, Wake, Woken, Unwind, Fail, OpenGate, Park
  <1>9. CASE \E r \in Runs : StartRun(t, r)
    BY <1>1, <1>8, <1>9 DEF StartRun
  <1>10. CASE \E r \in Runs : \/ Wake(t, r) \/ Unwind(t, r)
                              \/ Fail(t, r) \/ OpenGate(t, r) \/ Park(t, r)
    BY <1>8, <1>10 DEF Wake, Unwind, Fail, OpenGate, Park
  <1>11. CASE \E r \in Runs : Declare(t, r) \/ EndRound(t, r)
    BY <1>11, PhaseRead, RowRead DEF Declare, EndRound
  <1>12. CASE \E r \in Runs : NextStep(t, r)
    <2>1. row'[u] = row[u]
      BY <1>12 DEF NextStep, TypeOK
    <2> QED BY <1>12, <2>1, PhaseRead DEF NextStep
  <1>13. CASE \E r \in Runs : ClaimWokenSlot(t, r)
    BY <1>13, ClaimRead, PhaseRead DEF ClaimWokenSlot, Woken
  <1>14. CASE \E r \in Runs : Apply(t, r)
    <2>1. PICK r \in Runs : Apply(t, r)
      BY <1>14
    <2>2. CASE BackToWork(t, r)
      <3>1. row'[u] = row[u] /\ UNCHANGED <<asking, inbox, loose>>
            /\ (u \in early' <=> u \in early)
        BY <2>1, <2>2 DEF Apply, BackToWork, TypeOK
      <3>2. run'[u] = run[u]
        BY <2>2, PhaseRead DEF BackToWork
      <3> QED BY <3>1, <3>2
    <2>3. CASE /\ SetState(t, "done") \/ SetState(t, "review") \/ SetState(t, "ready")
               /\ To(t, r, "idle")
               /\ UNCHANGED early
      <3>1. row'[u] = row[u] /\ run'[u] = run[u]
        BY <2>3, PhaseRead, RowRead
      <3> QED BY <2>1, <2>3, <3>1 DEF Apply
    <2> QED BY <2>1, <2>2, <2>3 DEF Apply
  <1>15. CASE \E r \in Runs : DieAfterClaim(t, r)
    BY <1>15, ClaimRead DEF DieAfterClaim
  <1> QED BY <1>2, <1>3, <1>4, <1>5, <1>6, <1>7, <1>9, <1>10, <1>11, <1>12, <1>13,
             <1>14, <1>15 DEF StepFor

-----------------------------------------------------------------------------
(* What is under way for a Task is one thing at a time.                    *)

LEMMA IdleIsSettled ==
    ASSUME NEW t \in Tasks, ~Busy(t)
    PROVE  Settled(t)
  BY DEF Settled, Busy, MayExecute, AtWork

\* A run at work is all there is under way for its Task, which reads running.
LEMMA AtWorkAlone ==
    ASSUME NEW t \in Tasks, NEW r \in Runs, Settled(t), run[t][r] \in AtWork
    PROVE  /\ asking[t] = NoRequest
           /\ inbox[t] = {}
           /\ \A q \in Runs \ {r} : run[t][q] \notin AtWork
           /\ row[t].live
           /\ row[t].state = "running"
           /\ ~Holds(t) => t \in early
           /\ t \in early => run[t][r] \in {"working", "ended"}
  <1>1. \A q \in Runs : run[t][q] \in {"working", "ended"} => q = r
    BY DEF Settled, AtWork
  <1> QED BY <1>1 DEF Settled, Busy, MayExecute

\* A claim finds nothing under way for its Task.
LEMMA ClaimFindsItIdle ==
    ASSUME SettledInv, NEW t \in Tasks, NEW from, ClaimSlot(t, from),
           "running" \notin from, t \notin loose'
    PROVE  ~Busy(t)
  <1> SUFFICES ASSUME Busy(t) PROVE FALSE
    OBVIOUS
  <1>1. t \notin loose
    BY DEF ClaimSlot, AgreesAgain
  <1> QED BY <1>1 DEF ClaimSlot, SettledInv, Settled

LEMMA ClaimIsSettled ==
    ASSUME TypeOK, SettledInv, NEW t \in Tasks, NEW e, Ask(t, e), NEW from,
           ClaimSlot(t, from), "running" \notin from, t \notin loose',
           UNCHANGED <<inbox, run>>
    PROVE  Settled(t)'
  <1>1. ~Busy(t)
    BY ClaimFindsItIdle
  <1>2. inbox'[t] = {} /\ \A r \in Runs : run'[t][r] \notin AtWork
    BY <1>1 DEF Busy
  <1>3. /\ row'[t].state = "running" /\ row'[t].live /\ row'[t].finished = FALSE
        /\ t \notin early'
    BY ClaimRead
  <1>4. Holds(t)'
    BY <1>3 DEF Holds
  <1> QED BY <1>2, <1>3, <1>4 DEF Settled, MayExecute, AtWork

\* A run at work that goes idle or to sleep leaves nothing under way.
LEMMA LeavesNothing ==
    ASSUME TypeOK, NEW t \in Tasks, NEW r \in Runs, Settled(t),
           run[t][r] \in AtWork, NEW pc \in Pc \ AtWork, To(t, r, pc),
           UNCHANGED <<asking, inbox>>
    PROVE  Settled(t)'
  <1>1. /\ asking'[t] = NoRequest
        /\ inbox'[t] = {}
        /\ \A q \in Runs : run'[t][q] \notin AtWork
    BY AtWorkAlone, PhaseRead
  <1>2. ~Busy(t)'
    BY <1>1 DEF Busy
  <1> QED BY <1>2, IdleIsSettled DEF Settled, Busy, MayExecute, Holds, AtWork

\* A run at work, alone, that goes on working while its row reads running.
LEMMA GoesOnAlone ==
    ASSUME TypeOK, NEW t \in Tasks, NEW r \in Runs,
           NEW pc \in AtWork \ {"stopping"}, To(t, r, pc),
           asking'[t] = NoRequest, inbox'[t] = {},
           \A q \in Runs \ {r} : run[t][q] \notin AtWork,
           row'[t].live, row'[t].state = "running",
           t \in OnWorkflow \/ ~row'[t].finished \/ t \in early',
           t \in early' => pc \in {"working", "ended"}
    PROVE  Settled(t)'
  <1>1. /\ run'[t][r] = pc
        /\ \A q \in Runs \ {r} : run'[t][q] \notin AtWork
    BY PhaseRead
  <1>2. \A q \in Runs : run'[t][q] # "stopping"
    BY <1>1 DEF AtWork
  <1>3. Holds(t)' \/ t \in early'
    BY DEF Holds
  <1> QED BY <1>1, <1>2, <1>3 DEF Settled, MayExecute

\* A step of a run that is asleep, or awake without a slot.
LEMMA SleeperStirs ==
    ASSUME TypeOK, NEW t \in Tasks, NEW r \in Runs, Settled(t),
           run[t][r] \in {"asleep", "awake"}, NEW pc \in Pc \ AtWork, To(t, r, pc),
           UNCHANGED <<row, asking, inbox, early>>
    PROVE  Settled(t)'
  <1>1. /\ run'[t][r] = pc /\ \A q \in Runs \ {r} : run'[t][q] = run[t][q]
        /\ run[t][r] \notin AtWork
        /\ Holds(t)' = Holds(t)
    BY PhaseRead DEF AtWork, Decisions, Holds
  <1>2. \A q \in Runs : run'[t][q] \in AtWork <=> run[t][q] \in AtWork
    BY <1>1
  <1>3. \A q \in Runs : run[t][q] \in AtWork => run'[t][q] = run[t][q]
    BY <1>1
  <1>4. Busy(t)' <=> Busy(t)
    BY <1>2 DEF Busy
  <1>5. MayExecute(t)' <=> MayExecute(t)
    BY <1>2 DEF MayExecute
  <1>6. "working" \in AtWork /\ "ended" \in AtWork /\ "stopping" \in AtWork
    BY DEF AtWork
  <1>7. \A q, w \in Runs : run'[t][q] \in AtWork /\ run'[t][w] \in AtWork => q = w
    BY <1>2 DEF Settled
  <1>8. \A q \in Runs : run'[t][q] # "stopping"
    BY <1>2, <1>3, <1>6 DEF Settled
  <1>9. Busy(t)' /\ t \in early' => \E q \in Runs : run'[t][q] \in {"working", "ended"}
    BY <1>3, <1>4, <1>6 DEF Settled
  <1> QED BY <1>1, <1>4, <1>5, <1>7, <1>8, <1>9 DEF Settled

LEMMA SettledHere ==
    ASSUME TypeOK, SettledInv, NEW t \in Tasks, StepFor(t), t \notin loose'
    PROVE  Settled(t)'
  <1>a. t \notin loose => Settled(t)
    BY DEF SettledInv
  <1>b. /\ asking \in [Tasks -> Request]
        /\ inbox \in [Tasks -> SUBSET Event]
        /\ run \in [Tasks -> [Runs -> Pc]]
    BY DEF TypeOK
  <1>c. /\ {"working", "ended"} \subseteq AtWork \ {"stopping"}
        /\ Decisions \subseteq AtWork \ {"stopping"}
        /\ {"idle", "asleep", "awake"} \subseteq Pc \ AtWork
    BY DEF Pc, AtWork, Decisions
  <1>1. CASE Start(t)
    BY <1>1, ClaimIsSettled DEF Start
  <1>2. CASE Decide(t)
    BY <1>2, ClaimIsSettled DEF Decide
  <1>3. CASE SendEvent(t)
    <2>1. /\ Settled(t) /\ asking[t] # NoRequest
          /\ asking'[t] = NoRequest
          /\ inbox'[t] = inbox[t] \union {asking[t].event}
          /\ UNCHANGED <<row, run, early>>
      BY <1>a, <1>b, <1>3 DEF SendEvent
    <2>2. inbox[t] = {} /\ MayExecute(t) /\ Busy(t)
      BY <2>1 DEF Settled, Busy
    <2>3. t \notin early
      BY <2>1, <2>2, <1>c DEF Settled, MayExecute
    <2>4. /\ row[t].live /\ row[t].state = "running" /\ Holds(t)
      BY <2>1, <2>2, <2>3 DEF Settled
    <2>5. /\ Holds(t)' /\ MayExecute(t)'
          /\ \A r \in Runs : run'[t][r] = run[t][r]
          /\ \A e, f \in inbox'[t] : e = f
      BY <2>1, <2>2, <2>4 DEF Holds, MayExecute
    <2> QED BY <2>1, <2>2, <2>3, <2>4, <2>5 DEF Settled, MayExecute
  <1>4. CASE RollBack(t) \/ Restore(t)
    BY <1>4 DEF RollBack, Restore
  <1>5. CASE Move(t)
    <2>1. ~Busy(t) /\ UNCHANGED <<asking, inbox, run>>
      BY <1>5 DEF Move
    <2>2. ~Busy(t)'
      BY <2>1 DEF Busy
    <2> QED BY <2>2 DEF Settled, Busy, MayExecute, AtWork
  <1>6. CASE Delete(t)
    <2>1. ~Busy(t) /\ UNCHANGED asking /\ inbox'[t] = {}
      BY <1>b, <1>6 DEF Delete, Loosens
    <2>2. \A r \in Runs : run'[t][r] = IF run[t][r] \in AtWork THEN "stopping" ELSE "idle"
      BY <1>b, <1>6 DEF Delete
    <2>3. \A r \in Runs : run'[t][r] \notin AtWork
      BY <2>1, <2>2, <1>c DEF Busy
    <2>4. ~Busy(t)'
      BY <2>1, <2>3 DEF Busy
    <2> QED BY <2>4 DEF Settled, Busy, MayExecute, AtWork
  <1>7. ASSUME NEW r \in Runs, StartRun(t, r) PROVE Settled(t)'
    <2>1. PICK e \in inbox[t] : /\ To(t, r, IF e = "launch" THEN "working" ELSE e)
                                /\ inbox' = [inbox EXCEPT ![t] = @ \ {e}]
                                /\ UNCHANGED loose
      BY <1>7 DEF StartRun
    <2>2. Settled(t) /\ Busy(t) /\ MayExecute(t) /\ asking[t] = NoRequest
      BY <1>a, <2>1 DEF Settled, Busy
    <2>3. t \notin early
      BY <1>c, <2>2 DEF Settled, MayExecute
    <2>4. row[t].live /\ row[t].state = "running" /\ Holds(t)
      BY <2>2, <2>3 DEF Settled
    <2>5. inbox'[t] = {} /\ UNCHANGED <<row, asking, early>>
      BY <1>b, <1>7, <2>1, <2>2 DEF StartRun, Settled
    <2>6. (IF e = "launch" THEN "working" ELSE e) \in AtWork \ {"stopping"}
      BY <1>b, <1>c DEF Event
    <2> QED BY <2>1, <2>2, <2>3, <2>4, <2>5, <2>6, GoesOnAlone DEF Holds, MayExecute
  <1>8. ASSUME NEW r \in Runs, Declare(t, r) PROVE Settled(t)'
    <2>1. Settled(t) /\ run[t][r] = "working" /\ run[t][r] \in AtWork
      BY <1>a, <1>c, <1>8 DEF Declare
    <2>2. /\ row'[t].live /\ row'[t].state = "running"
          /\ t \in early' /\ UNCHANGED <<asking, inbox, run>>
      BY <1>8, <2>1, AtWorkAlone, RowRead DEF Declare
    <2> QED BY <2>1, <2>2 DEF Settled, Busy, MayExecute
  <1>9. ASSUME NEW r \in Runs, EndRound(t, r) PROVE Settled(t)'
    <2>1. Settled(t) /\ run[t][r] = "working" /\ run[t][r] \in AtWork
      BY <1>a, <1>c, <1>9 DEF EndRound
    <2>2. CASE t \in OnWorkflow
      <3>1. To(t, r, "ended")
        BY <1>9, <2>2 DEF EndRound, GoesOn
      <3>2. /\ row'[t].live /\ row'[t].state = "running"
            /\ UNCHANGED <<asking, inbox, early>>
        BY <1>9, <2>1, AtWorkAlone, RowRead DEF EndRound
      <3>3. /\ asking[t] = NoRequest /\ inbox[t] = {}
            /\ \A q \in Runs \ {r} : run[t][q] \notin AtWork
        BY <2>1, AtWorkAlone
      <3> QED BY <1>c, <2>2, <3>1, <3>2, <3>3, GoesOnAlone
    <2>3. CASE t \notin OnWorkflow
      <3>1. To(t, r, "idle") /\ UNCHANGED <<asking, inbox>>
        BY <1>9, <2>3 DEF EndRound, GoesOn
      <3> QED BY <1>c, <2>1, <3>1, LeavesNothing
    <2> QED BY <2>2, <2>3
  <1>10. ASSUME NEW r \in Runs, Fail(t, r) \/ OpenGate(t, r) \/ Park(t, r)
         PROVE  Settled(t)'
    <2>1. /\ Settled(t) /\ run[t][r] \in AtWork
          /\ To(t, r, "idle") \/ To(t, r, "asleep")
          /\ UNCHANGED <<asking, inbox>>
      BY <1>a, <1>c, <1>10 DEF Fail, OpenGate, Park
    <2> QED BY <1>c, <2>1, LeavesNothing
  <1>11. ASSUME NEW r \in Runs, NextStep(t, r) PROVE Settled(t)'
    <2>1. Settled(t) /\ run[t][r] = "ended" /\ run[t][r] \in AtWork
      BY <1>a, <1>c, <1>11 DEF NextStep
    <2>2. /\ asking[t] = NoRequest /\ inbox[t] = {}
          /\ \A q \in Runs \ {r} : run[t][q] \notin AtWork
          /\ row[t].live /\ row[t].state = "running"
      BY <2>1, AtWorkAlone
    <2>3. row' = [row EXCEPT ![t].state = "running", ![t].finished = FALSE]
      BY <1>11, <2>2 DEF NextStep, TypeOK
    <2>4. row'[t].live /\ row'[t].state = "running" /\ row'[t].finished = FALSE
      <3>1. t \in DOMAIN row /\ row[t] \in Row
        BY DEF TypeOK
      <3>2. row'[t] = [row[t] EXCEPT !.state = "running", !.finished = FALSE]
        BY <2>3, <3>1
      <3> QED BY <2>2, <3>1, <3>2 DEF Row
    <2>5. To(t, r, "working") /\ UNCHANGED <<asking, inbox>>
      BY <1>11 DEF NextStep
    <2> QED BY <1>c, <2>2, <2>4, <2>5, GoesOnAlone
  <1>12. ASSUME NEW r \in Runs, Wake(t, r) PROVE Settled(t)'
    <2>1. /\ Settled(t) /\ run[t][r] \in {"asleep", "awake"}
          /\ To(t, r, "idle") \/ To(t, r, "awake")
          /\ UNCHANGED <<row, asking, inbox, early>>
      BY <1>a, <1>12 DEF Wake, Woken
    <2> QED BY <1>c, <2>1, SleeperStirs
  <1>13. ASSUME NEW r \in Runs, ClaimWokenSlot(t, r) PROVE Settled(t)'
    <2>1. CASE ClaimSlot(t, {"parked"}) /\ To(t, r, "working")
      <3>1. ~Busy(t)
        BY <2>1, ClaimFindsItIdle
      <3>2. /\ row'[t].state = "running" /\ row'[t].live
            /\ row'[t].finished = FALSE /\ t \notin early'
        BY <2>1, ClaimRead
      <3>3. UNCHANGED <<asking, inbox>>
        BY <1>13 DEF ClaimWokenSlot
      <3> QED BY <1>c, <2>1, <3>1, <3>2, <3>3, GoesOnAlone DEF Busy
    <2>2. CASE /\ To(t, r, "idle") \/ To(t, r, "awake")
               /\ UNCHANGED <<row, loose, early>>
      <3>1. Settled(t) /\ run[t][r] \in {"asleep", "awake"}
            /\ UNCHANGED <<asking, inbox>>
        BY <1>a, <1>13, <2>2 DEF ClaimWokenSlot
      <3> QED BY <1>c, <2>2, <3>1, SleeperStirs
    <2> QED BY <1>13, <2>1, <2>2 DEF ClaimWokenSlot, Woken, StayWhenFull
  <1>14. ASSUME NEW r \in Runs, Apply(t, r) PROVE Settled(t)'
    <2>1. Settled(t) /\ run[t][r] \in Decisions /\ UNCHANGED <<asking, inbox>>
      BY <1>a, <1>14 DEF Apply, Decisions
    <2>2. /\ asking[t] = NoRequest /\ inbox[t] = {}
          /\ \A q \in Runs \ {r} : run[t][q] \notin AtWork
          /\ row[t].live /\ run[t][r] \in AtWork
      BY <1>c, <2>1, AtWorkAlone
    <2>3. CASE BackToWork(t, r)
      <3>1. /\ row'[t].live /\ row'[t].state = "running"
            /\ row'[t].finished = FALSE
        BY <2>2, <2>3, RowRead DEF BackToWork
      <3> QED BY <1>c, <2>1, <2>2, <2>3, <3>1, GoesOnAlone DEF BackToWork
    <2>4. CASE To(t, r, "idle")
      BY <1>c, <2>1, <2>2, <2>4, LeavesNothing
    <2> QED BY <1>14, <2>3, <2>4 DEF Apply
  <1>15. CASE \E r \in Runs : Unwind(t, r)
    BY <1>a, <1>15 DEF Unwind, Settled
  <1>16. CASE \E r \in Runs : DieAfterClaim(t, r)
    <2>1. ~Busy(t) /\ UNCHANGED <<asking, inbox, run>>
      BY <1>16, ClaimFindsItIdle DEF DieAfterClaim
    <2>2. ~Busy(t)'
      BY <2>1 DEF Busy
    <2> QED BY <2>2 DEF Settled, Busy, MayExecute, AtWork
  <1> QED BY <1>1, <1>2, <1>3, <1>4, <1>5, <1>6, <1>7, <1>8, <1>9, <1>10, <1>11,
             <1>12, <1>13, <1>14, <1>15, <1>16 DEF StepFor

LEMMA NextIsAStepForOne == Next => \E t \in Tasks : StepFor(t)
  BY DEF Next, StepFor

LEMMA SettledElsewhere ==
    ASSUME TypeOK, NEW t \in Tasks, StepFor(t), NEW u \in Tasks \ {t}, Settled(u)
    PROVE  Settled(u)'
  <1>1. /\ row'[u] = row[u]
        /\ asking'[u] = asking[u]
        /\ inbox'[u] = inbox[u]
        /\ run'[u] = run[u]
        /\ u \in early' <=> u \in early
    BY Elsewhere
  <1> QED BY <1>1 DEF Settled, Busy, MayExecute, Holds

LEMMA SettledStep == TypeOK /\ SettledInv /\ [Next]_vars => SettledInv'
  <1> SUFFICES ASSUME TypeOK, SettledInv, [Next]_vars PROVE SettledInv'
    OBVIOUS
  <1>1. CASE UNCHANGED vars
    BY <1>1 DEF vars, SettledInv, Settled, Busy, MayExecute, Holds
  <1>2. ASSUME NEW t \in Tasks, StepFor(t) PROVE SettledInv'
    <2> SUFFICES ASSUME NEW u \in Tasks, u \notin loose' PROVE Settled(u)'
      BY DEF SettledInv
    <2>1. CASE u = t
      BY <1>2, <2>1, SettledHere
    <2>2. CASE u # t
      BY <1>2, <2>2, Elsewhere, SettledElsewhere DEF SettledInv
    <2> QED BY <2>1, <2>2
  <1> QED BY <1>1, <1>2, NextIsAStepForOne

LEMMA InitSettled == Init => SettledInv
  BY DEF Init, SettledInv, Settled, Busy, MayExecute, AtWork, Decisions

\* What is under way for a Task no one has interfered with is one thing at a
\* time, and its row reads running (claimTaskRunSlot, the engine's limit).
THEOREM OneThingAtATime == Spec => []SettledInv
  BY InitSettled, InitTyped, SettledStep, TypedStep, PTL DEF Spec

\* No write of a run takes the slot away from a harness that works on
\* (setTaskState, recordTaskCompletion, clearTaskCompletion).
THEOREM WorkIsCounted == Spec => []WorkHoldsASlot
  <1>1. SettledInv => WorkHoldsASlot
    BY DEF SettledInv, Settled, WorkHoldsASlot, Busy, AtWork
  <1> QED BY <1>1, OneThingAtATime, PTL

-----------------------------------------------------------------------------
(* The cap.                                                                *)

LEMMA HoldingIsFinite == IsFiniteSet(Holding) /\ Cardinality(Holding) \in Nat
  BY FS_Subset, FS_CardinalityType DEF Holding

\* A claim adds one Task to the holders, and finds room for it.
LEMMA ClaimFits ==
    ASSUME TypeOK, NEW t \in Tasks, NEW from, ClaimSlot(t, from)
    PROVE  CapHolds'
  <1>1. Holding' \subseteq Holding \union {t}
    BY ClaimRead DEF Holding, Holds
  <1>2. /\ IsFiniteSet(Holding \union {t})
        /\ Cardinality(Holding \union {t}) <= Cardinality(Holding) + 1
    <2>1. Cardinality(Holding \union {t}) =
            IF t \in Holding THEN Cardinality(Holding) ELSE Cardinality(Holding) + 1
      BY HoldingIsFinite, FS_AddElement
    <2> QED BY <2>1, HoldingIsFinite, FS_AddElement
  <1>3. (Holding \ loose)' \subseteq Holding \union {t}
    BY <1>1
  <1>4. /\ Cardinality((Holding \ loose)') <= Cardinality(Holding \union {t})
        /\ Cardinality((Holding \ loose)') \in Nat
        /\ Cardinality(Holding \union {t}) \in Nat
    BY <1>2, <1>3, FS_Subset, FS_CardinalityType
  <1>5. Cardinality(Holding) < Cap
    BY DEF ClaimSlot, Room
  <1> QED BY <1>2, <1>4, <1>5, HoldingIsFinite DEF CapHolds

\* Whatever else is done for a Task, it holds a slot after only if it did
\* before, or is one on whose row a person has stepped in.
LEMMA OnlyClaimsTake ==
    ASSUME TypeOK, SettledInv, NEW t \in Tasks, StepFor(t),
           \A from : ~ClaimSlot(t, from), Holds(t)', t \notin loose'
    PROVE  Holds(t) /\ t \notin loose
  <1>a. t \notin loose => Settled(t)
    BY DEF SettledInv
  <1>b. {"working", "ended"} \subseteq AtWork /\ Decisions \subseteq AtWork
    BY DEF AtWork, Decisions
  <1>1. CASE Start(t)
    BY <1>1 DEF Start
  <1>2. CASE Decide(t) \/ RollBack(t) \/ Restore(t)
    BY <1>2 DEF Decide, RollBack, Restore
  <1>3. CASE SendEvent(t)
    BY <1>3 DEF SendEvent, Holds
  <1>4. CASE Move(t)
    <2>1. PICK move \in Moves :
            row' = [row EXCEPT ![t].state = move[2],
                               ![t].finished = @ /\ move[2] # "ready"]
      BY <1>4 DEF Move
    <2>2. row'[t].state = move[2] /\ move[2] # "running"
      BY <2>1 DEF TypeOK, Row, Moves
    <2> QED BY <2>2 DEF Holds
  <1>5. CASE Delete(t)
    BY <1>5, RowRead DEF Delete, Holds
  <1>6. ASSUME NEW r \in Runs, StartRun(t, r) PROVE Holds(t) /\ t \notin loose
    BY <1>6 DEF StartRun, Holds
  <1>7. ASSUME NEW r \in Runs, Declare(t, r) \/ EndRound(t, r)
        PROVE  Holds(t) /\ t \notin loose
    BY <1>7, RowRead DEF Declare, EndRound, Holds
  <1>8. ASSUME NEW r \in Runs, Fail(t, r) \/ OpenGate(t, r) \/ Park(t, r)
        PROVE  Holds(t) /\ t \notin loose
    <2>1. CASE OpenGate(t, r) /\ UNCHANGED row
      BY <2>1 DEF OpenGate, Holds
    <2>2. CASE \E s \in State \ {"running"} : SetState(t, s)
      BY <2>2, StateRead DEF Holds
    <2> QED BY <1>8, <2>1, <2>2 DEF Fail, OpenGate, Park, State
  <1>9. ASSUME NEW r \in Runs, NextStep(t, r) PROVE Holds(t) /\ t \notin loose
    <2>1. t \notin loose /\ run[t][r] = "ended" /\ t \in OnWorkflow
      BY <1>9 DEF NextStep, TypeOK
    <2>2. row[t].live /\ row[t].state = "running"
      BY <1>a, <1>b, <2>1, AtWorkAlone
    <2> QED BY <2>1, <2>2 DEF Holds
  <1>10. ASSUME NEW r \in Runs, Wake(t, r) \/ Unwind(t, r)
         PROVE  Holds(t) /\ t \notin loose
    BY <1>10 DEF Wake, Unwind, Holds
  <1>11. ASSUME NEW r \in Runs, ClaimWokenSlot(t, r) PROVE Holds(t) /\ t \notin loose
    BY <1>11 DEF ClaimWokenSlot, Holds
  <1>12. ASSUME NEW r \in Runs, Apply(t, r) PROVE Holds(t) /\ t \notin loose
    <2>1. t \notin loose /\ run[t][r] \in Decisions
      BY <1>12 DEF Apply, Decisions
    <2>2. t \notin early \/ run[t][r] \in {"working", "ended"}
      BY <1>a, <1>b, <2>1, AtWorkAlone
    <2>3. Holds(t)
      BY <1>a, <1>b, <2>1, <2>2, AtWorkAlone DEF Decisions
    <2> QED BY <2>1, <2>3
  <1>13. CASE \E r \in Runs : DieAfterClaim(t, r)
    BY <1>13 DEF DieAfterClaim
  <1> QED BY <1>1, <1>2, <1>3, <1>4, <1>5, <1>6, <1>7, <1>8, <1>9, <1>10, <1>11,
             <1>12, <1>13 DEF StepFor

LEMMA CapStep == TypeOK /\ SettledInv /\ CapHolds /\ [Next]_vars => CapHolds'
  <1> SUFFICES ASSUME TypeOK, SettledInv, CapHolds, [Next]_vars PROVE CapHolds'
    OBVIOUS
  <1>1. CASE UNCHANGED vars
    BY <1>1 DEF vars, CapHolds, Holding, Holds
  <1>2. ASSUME NEW t \in Tasks, StepFor(t) PROVE CapHolds'
    <2>1. CASE \E from : ClaimSlot(t, from)
      BY <2>1, ClaimFits
    <2>2. CASE \A from : ~ClaimSlot(t, from)
      <3>1. ASSUME NEW u \in Tasks, Holds(u)', u \notin loose'
            PROVE  u \in Holding \ loose
        <4>1. CASE u = t
          BY <1>2, <2>2, <3>1, <4>1, OnlyClaimsTake DEF Holding
        <4>2. CASE u # t
          BY <1>2, <3>1, <4>2, Elsewhere DEF Holding, Holds
        <4> QED BY <4>1, <4>2
      <3>2. (Holding \ loose)' \subseteq Holding \ loose
        BY <3>1 DEF Holding
      <3>3. IsFiniteSet(Holding \ loose)
        BY HoldingIsFinite, FS_Subset
      <3>4. /\ Cardinality((Holding \ loose)') <= Cardinality(Holding \ loose)
            /\ Cardinality((Holding \ loose)') \in Nat
            /\ Cardinality(Holding \ loose) \in Nat
        BY <3>2, <3>3, FS_Subset, FS_CardinalityType
      <3> QED BY <3>4 DEF CapHolds
    <2> QED BY <2>1, <2>2
  <1> QED BY <1>1, <1>2, NextIsAStepForOne

LEMMA InitCap == Init => CapHolds
  <1> SUFFICES ASSUME Init PROVE CapHolds
    OBVIOUS
  <1>1. Holding \ loose = {}
    BY DEF Init, Holding, Holds
  <1> QED BY <1>1, FS_EmptySet DEF CapHolds

\* The Tasks that hold a slot are at most the cap, however requests and runs
\* interleave (claimTaskRunSlot, and every write of a run after it).
THEOREM CapIsKept == Spec => []CapHolds
  BY InitCap, CapStep, Typing, OneThingAtATime, PTL DEF Spec

-----------------------------------------------------------------------------
(* The rows as a semaphore.                                                *)

\* The room a claim found is the semaphore's.
LEMMA ClaimTakes ==
    ASSUME TypeOK, NEW t \in Tasks, NEW from, ClaimSlot(t, from)
    PROVE  Permits!Take(t)
  <1>1. Cardinality(Holding) < Cap
    BY DEF ClaimSlot, Room
  <1>2. Holds(t)' /\ \A u \in Tasks \ {t} : Holds(u)' <=> Holds(u)
    BY ClaimRead DEF Holds
  <1>3. Holding' = Holding \union {t}
    BY <1>2 DEF Holding
  <1>4. loose' \in {loose, loose \ {t}}
    BY DEF ClaimSlot, AgreesAgain
  <1>5. Permits!Cardinality(Holding) = Cardinality(Holding)
    BY Zenon DEF Permits!Cardinality, Cardinality
  <1> QED BY <1>1, <1>3, <1>4, <1>5 DEF Permits!Take

\* Only a claim trusts a row again.
LEMMA StrayingStays ==
    ASSUME NEW t \in Tasks, StepFor(t), \A from : ~ClaimSlot(t, from)
    PROVE  loose' \in {loose, loose \union {t}}
  BY DEF StepFor, Start, Decide, SendEvent, RollBack, Move, Delete, Restore,
         Loosens, StartRun, Declare, EndRound, Fail, NextStep, OpenGate, Park,
         Wake, ClaimWokenSlot, DieAfterClaim, Apply, Unwind

LEMMA OthersGive ==
    ASSUME TypeOK, SettledInv, NEW t \in Tasks, StepFor(t),
           \A from : ~ClaimSlot(t, from)
    PROVE  Permits!Give(t) \/ Permits!Stray(t) \/ UNCHANGED Permits!vars
  <1>1. \A u \in Tasks \ {t} : Holds(u)' <=> Holds(u)
    BY Elsewhere DEF Holds
  <1>2. loose' \in {loose, loose \union {t}}
    BY StrayingStays
  <1>3. \/ Holds(t)' /\ Holding' = Holding \union {t}
        \/ ~Holds(t)' /\ Holding' = Holding \ {t}
    BY <1>1 DEF Holding
  <1>4. CASE t \in loose'
    <2>1. loose' = loose \union {t}
      BY <1>2, <1>4
    <2> QED BY <1>3, <2>1 DEF Permits!Stray
  <1>5. CASE t \notin loose'
    <2>1. loose' = loose
      BY <1>2, <1>5
    <2>2. CASE Holds(t)'
      <3>1. Holds(t)
        BY <1>5, <2>2, OnlyClaimsTake
      <3>2. Holding' = Holding
        BY <1>3, <2>2, <3>1 DEF Holding
      <3> QED BY <2>1, <3>2 DEF Permits!vars
    <2>3. CASE ~Holds(t)'
      BY <1>3, <2>1, <2>3 DEF Permits!Give
    <2> QED BY <2>2, <2>3
  <1> QED BY <1>4, <1>5

\* The rows that read running implement a semaphore of Cap slots, with neither
\* a counter nor a release (task-claim.ts): every step takes one slot where
\* there was room, gives up at most one, or is a person's.
THEOREM RowsAreASemaphore == Spec => ActsAsASemaphore
  <1>1. Init => Permits!Init
    BY DEF Init, Permits!Init, Holding, Holds
  <1>2. TypeOK /\ SettledInv /\ [Next]_vars => [Permits!Next]_(Permits!vars)
    <2> SUFFICES ASSUME TypeOK, SettledInv, [Next]_vars
                 PROVE  [Permits!Next]_(Permits!vars)
      OBVIOUS
    <2>1. CASE UNCHANGED vars
      BY <2>1 DEF vars, Permits!vars, Holding, Holds
    <2>2. ASSUME NEW t \in Tasks, StepFor(t) PROVE [Permits!Next]_(Permits!vars)
      <3>1. CASE \E from : ClaimSlot(t, from)
        BY <3>1, ClaimTakes DEF Permits!Next
      <3>2. CASE \A from : ~ClaimSlot(t, from)
        BY <2>2, <3>2, OthersGive DEF Permits!Next
      <3> QED BY <3>1, <3>2
    <2> QED BY <2>1, <2>2, NextIsAStepForOne
  <1> QED BY <1>1, <1>2, Typing, OneThingAtATime, PTL
          DEF Spec, ActsAsASemaphore, Permits!Spec

-----------------------------------------------------------------------------
(* Sleepers.                                                               *)

LEMMA ParkedHere ==
    ASSUME TypeOK, ParkedIsSleptOn, NEW t \in Tasks, StepFor(t), t \notin loose',
           row'[t].live, row'[t].state = "parked"
    PROVE  Sleepers(t)' # {}
  <1>a. t \notin loose /\ row[t].live /\ row[t].state = "parked" =>
          \E q \in Runs : run[t][q] \in {"asleep", "awake"}
    BY DEF ParkedIsSleptOn, Sleepers
  <1>b. SUFFICES \E q \in Runs : run'[t][q] \in {"asleep", "awake"}
    BY DEF Sleepers
  <1>c. ASSUME NEW r \in Runs, NEW pc, To(t, r, pc), UNCHANGED <<row, loose>>,
               pc = "awake" \/ run[t][r] \notin {"asleep", "awake"}
        PROVE  \E q \in Runs : run'[t][q] \in {"asleep", "awake"}
    BY <1>a, <1>c, PhaseRead
  <1>d. {"asleep", "awake"} \intersect AtWork = {}
    BY DEF AtWork, Decisions
  <1>1. CASE Start(t)
    BY <1>1, ClaimRead DEF Start
  <1>2. CASE Decide(t) \/ RollBack(t) \/ Restore(t)
    BY <1>2, ClaimRead DEF Decide, RollBack, Restore
  <1>3. CASE SendEvent(t)
    BY <1>3, <1>a DEF SendEvent
  <1>4. CASE Move(t)
    <2>1. PICK move \in Moves :
            /\ row' = [row EXCEPT ![t].state = move[2],
                                  ![t].finished = @ /\ move[2] # "ready"]
            /\ loose' = IF Busy(t) \/ move[2] = "parked"
                        THEN loose \union {t} ELSE loose
      BY <1>4 DEF Move
    <2>2. row'[t].state = move[2]
      BY <2>1 DEF TypeOK, Row, Moves
    <2> QED BY <2>1, <2>2
  <1>5. CASE Delete(t)
    BY <1>5, RowRead DEF Delete
  <1>6. ASSUME NEW r \in Runs, StartRun(t, r)
        PROVE  \E q \in Runs : run'[t][q] \in {"asleep", "awake"}
    <2>1. \E pc : To(t, r, pc)
      BY <1>6 DEF StartRun
    <2>2. run[t][r] = "idle" /\ UNCHANGED <<row, loose>>
      BY <1>6 DEF StartRun
    <2> QED BY <1>c, <2>1, <2>2
  <1>7. ASSUME NEW r \in Runs, Declare(t, r)
        PROVE  \E q \in Runs : run'[t][q] \in {"asleep", "awake"}
    BY <1>7, <1>a, RowRead DEF Declare
  <1>8. ASSUME NEW r \in Runs, EndRound(t, r)
        PROVE  \E q \in Runs : run'[t][q] \in {"asleep", "awake"}
    BY <1>8, <1>a, RowRead, PhaseRead DEF EndRound
  <1>9. ASSUME NEW r \in Runs, Park(t, r)
        PROVE  \E q \in Runs : run'[t][q] \in {"asleep", "awake"}
    BY <1>9, PhaseRead DEF Park
  <1>10. ASSUME NEW r \in Runs, Fail(t, r) \/ Unwind(t, r)
         PROVE  \E q \in Runs : run'[t][q] \in {"asleep", "awake"}
    BY <1>10, <1>c, <1>d, StateRead DEF Fail, Unwind
  <1>11. ASSUME NEW r \in Runs, OpenGate(t, r)
         PROVE  \E q \in Runs : run'[t][q] \in {"asleep", "awake"}
    BY <1>11, <1>c, StateRead DEF OpenGate
  <1>12. ASSUME NEW r \in Runs, NextStep(t, r)
         PROVE  \E q \in Runs : run'[t][q] \in {"asleep", "awake"}
    <2>1. row[t].live /\ row[t].state = "parked" /\ t \notin loose
      BY <1>12 DEF NextStep, TypeOK, Row
    <2> QED BY <1>12, <1>a, <2>1, PhaseRead DEF NextStep
  <1>13. ASSUME NEW r \in Runs, Wake(t, r)
         PROVE  \E q \in Runs : run'[t][q] \in {"asleep", "awake"}
    BY <1>13, <1>c DEF Wake, Woken, StandsDown
  <1>14. ASSUME NEW r \in Runs, ClaimWokenSlot(t, r)
         PROVE  \E q \in Runs : run'[t][q] \in {"asleep", "awake"}
    BY <1>14, <1>c, ClaimRead DEF ClaimWokenSlot, Woken, StayWhenFull
  <1>15. ASSUME NEW r \in Runs, Apply(t, r)
         PROVE  \E q \in Runs : run'[t][q] \in {"asleep", "awake"}
    <2>1. CASE \E s \in State \ {"parked"} : SetState(t, s)
      BY <2>1, StateRead
    <2>2. CASE BackToWork(t, r)
      <3>1. row'[t].state = "running"
        BY <2>2, RowRead DEF BackToWork
      <3> QED BY <3>1
    <2>3. {"done", "review", "ready"} \subseteq State \ {"parked"}
      BY DEF State
    <2> QED BY <1>15, <2>1, <2>2, <2>3 DEF Apply
  <1>16. CASE \E r \in Runs : DieAfterClaim(t, r)
    BY <1>16, ClaimRead DEF DieAfterClaim
  <1> QED BY <1>1, <1>2, <1>3, <1>4, <1>5, <1>6, <1>7, <1>8, <1>9, <1>10, <1>11,
             <1>12, <1>13, <1>14, <1>15, <1>16 DEF StepFor

LEMMA ParkedStep == TypeOK /\ ParkedIsSleptOn /\ [Next]_vars => ParkedIsSleptOn'
  <1> SUFFICES ASSUME TypeOK, ParkedIsSleptOn, [Next]_vars PROVE ParkedIsSleptOn'
    OBVIOUS
  <1>1. CASE UNCHANGED vars
    BY <1>1 DEF vars, ParkedIsSleptOn, Sleepers
  <1>2. ASSUME NEW t \in Tasks, StepFor(t) PROVE ParkedIsSleptOn'
    <2> SUFFICES ASSUME NEW u \in Tasks, u \notin loose', row'[u].live,
                        row'[u].state = "parked"
                 PROVE  Sleepers(u)' # {}
      BY DEF ParkedIsSleptOn
    <2>1. CASE u = t
      BY <1>2, <2>1, ParkedHere
    <2>2. CASE u # t
      BY <1>2, <2>2, Elsewhere DEF ParkedIsSleptOn, Sleepers
    <2> QED BY <2>1, <2>2
  <1> QED BY <1>1, <1>2, NextIsAStepForOne

\* A Task reads parked only while a run of it sleeps or waits for a slot
\* (parkRound, claimWokenSlot).
THEOREM ParkedHasASleeper == Spec => []ParkedIsSleptOn
  <1>1. Init => ParkedIsSleptOn
    BY DEF Init, ParkedIsSleptOn
  <1> QED BY <1>1, ParkedStep, Typing, PTL DEF Spec

-----------------------------------------------------------------------------
(* Slots without work.                                                     *)

\* A run between its round and what follows has recorded the completion.
EndedIsFinished ==
    \A t \in Tasks \ loose, r \in Runs :
        run[t][r] = "ended" => row[t].finished

LEMMA EndedHere ==
    ASSUME TypeOK, SettledInv, EndedIsFinished, NEW t \in Tasks, StepFor(t),
           t \notin loose', NEW q \in Runs, run'[t][q] = "ended"
    PROVE  row'[t].finished
  <1>a. t \notin loose /\ run[t][q] = "ended" => Settled(t) /\ row[t].finished
    BY DEF SettledInv, EndedIsFinished
  <1>b. "ended" \in AtWork
    BY DEF AtWork
  <1>c. ASSUME NEW from, ClaimSlot(t, from), "running" \notin from
        PROVE  run[t][q] # "ended"
    BY <1>b, <1>c, ClaimFindsItIdle DEF Busy
  <1>d. ASSUME NEW r \in Runs, NEW pc, To(t, r, pc), pc # "ended"
        PROVE  run[t][q] = "ended" /\ q # r
    BY <1>d, PhaseRead
  <1>1. CASE Start(t) \/ Decide(t)
    BY <1>1, <1>c DEF Start, Decide
  <1>2. CASE SendEvent(t)
    BY <1>2, <1>a DEF SendEvent
  <1>3. CASE RollBack(t) \/ Restore(t)
    BY <1>3 DEF RollBack, Restore
  <1>4. CASE Move(t)
    BY <1>4, <1>b DEF Move, Busy
  <1>5. CASE Delete(t)
    BY <1>5 DEF Delete, TypeOK
  <1>6. ASSUME NEW r \in Runs, StartRun(t, r) PROVE row'[t].finished
    <2>1. PICK e \in inbox[t] : To(t, r, IF e = "launch" THEN "working" ELSE e)
      BY <1>6 DEF StartRun
    <2>2. (IF e = "launch" THEN "working" ELSE e) # "ended"
      BY DEF TypeOK, Event, Decisions
    <2> QED BY <1>6, <1>b, <1>d, <2>1, <2>2 DEF StartRun, MayExecute
  <1>7. ASSUME NEW r \in Runs, Declare(t, r) \/ EndRound(t, r)
        PROVE  row'[t].finished
    <2>1. row' = [row EXCEPT ![t].finished = TRUE]
      BY <1>7 DEF Declare, EndRound
    <2> QED BY <2>1, RowRead
  <1>8. ASSUME NEW r \in Runs, run[t][r] \in AtWork, NEW pc, To(t, r, pc),
               pc # "ended", UNCHANGED loose
        PROVE  FALSE
    <2>1. Settled(t) /\ run[t][q] = "ended" /\ q # r
      BY <1>8, <1>d, <1>a
    <2> QED BY <1>8, <1>b, <2>1 DEF Settled
  <1>9. ASSUME NEW r \in Runs,
               \/ Fail(t, r) \/ OpenGate(t, r) \/ Park(t, r) \/ NextStep(t, r)
               \/ Unwind(t, r) \/ Apply(t, r)
        PROVE  row'[t].finished
    <2>1. /\ run[t][r] \in AtWork /\ UNCHANGED loose
          /\ \E pc \in {"idle", "asleep", "working"} : To(t, r, pc)
      BY <1>9 DEF Fail, OpenGate, Park, NextStep, Unwind, Apply, BackToWork,
                  AtWork, Decisions
    <2> QED BY <1>8, <2>1
  <1>10. ASSUME NEW r \in Runs, Wake(t, r) PROVE row'[t].finished
    BY <1>10, <1>a, <1>d DEF Wake, Woken
  <1>11. ASSUME NEW r \in Runs, ClaimWokenSlot(t, r) PROVE row'[t].finished
    <2>1. CASE ClaimSlot(t, {"parked"}) /\ To(t, r, "working")
      BY <1>c, <1>d, <2>1
    <2>2. CASE /\ To(t, r, "idle") \/ To(t, r, "awake")
               /\ UNCHANGED <<row, loose>>
      BY <1>a, <1>d, <2>2
    <2> QED BY <1>11, <2>1, <2>2 DEF ClaimWokenSlot, Woken, StayWhenFull
  <1>12. CASE \E r \in Runs : DieAfterClaim(t, r)
    BY <1>12, <1>c DEF DieAfterClaim
  <1> QED BY <1>1, <1>2, <1>3, <1>4, <1>5, <1>6, <1>7, <1>9, <1>10, <1>11,
             <1>12 DEF StepFor

\* A step that leaves its Task a slot leaves something under way for it.
LEMMA WorkedForHere ==
    ASSUME TypeOK, SettledInv, EndedIsFinished, NEW t \in Tasks, StepFor(t),
           t \notin loose', \A r \in Runs : ~DieAfterClaim(t, r),
           t \notin loose /\ Holds(t) /\ ~row[t].finished => Busy(t),
           Holds(t)', ~row'[t].finished
    PROVE  Busy(t)'
  <1>a. t \notin loose => Settled(t)
    BY DEF SettledInv
  <1>b. /\ asking \in [Tasks -> Request]
        /\ inbox \in [Tasks -> SUBSET Event]
        /\ NoRequest.event \notin Event
    BY DEF TypeOK, NoRequest, Event, Decisions
  <1>c. {"working", "ended"} \subseteq AtWork /\ Decisions \subseteq AtWork
    BY DEF AtWork, Decisions
  <1>d. row'[t].live /\ row'[t].state = "running"
    BY DEF Holds
  <1>e. ASSUME NEW r \in Runs, To(t, r, "working") PROVE Busy(t)'
    BY <1>c, <1>e, PhaseRead DEF Busy
  <1>f. ASSUME NEW e \in Event, Ask(t, e) PROVE Busy(t)'
    BY <1>b, <1>f DEF Ask, Busy
  <1>g. ASSUME NEW r \in Runs, run[t][r] \in {"asleep", "awake"}, NEW pc,
               To(t, r, pc), UNCHANGED <<row, asking, inbox, loose>>
        PROVE  Busy(t)'
    <2>1. Busy(t)
      BY <1>g DEF Holds
    <2>2. run[t][r] \notin AtWork
      BY <1>g DEF AtWork, Decisions
    <2> QED BY <1>g, <2>1, <2>2, PhaseRead DEF Busy
  <1>1. CASE Start(t)
    BY <1>1, <1>f DEF Start, Event
  <1>2. CASE Decide(t)
    BY <1>2, <1>f DEF Decide, Event
  <1>3. CASE SendEvent(t)
    BY <1>b, <1>3 DEF SendEvent, Busy
  <1>4. CASE RollBack(t) \/ Restore(t)
    BY <1>4 DEF RollBack, Restore
  <1>5. CASE Move(t)
    <2>1. PICK move \in Moves :
            row' = [row EXCEPT ![t].state = move[2],
                               ![t].finished = @ /\ move[2] # "ready"]
      BY <1>5 DEF Move
    <2>2. row'[t].state = move[2] /\ move[2] # "running"
      BY <2>1 DEF TypeOK, Row, Moves
    <2> QED BY <1>d, <2>2
  <1>6. CASE Delete(t)
    BY <1>6, <1>d, RowRead DEF Delete
  <1>7. ASSUME NEW r \in Runs, StartRun(t, r) PROVE Busy(t)'
    <2>1. PICK e \in inbox[t] : To(t, r, IF e = "launch" THEN "working" ELSE e)
      BY <1>7 DEF StartRun
    <2>2. (IF e = "launch" THEN "working" ELSE e) \in AtWork
      BY <1>b, <1>c DEF Event
    <2> QED BY <2>1, <2>2, PhaseRead DEF Busy
  <1>8. ASSUME NEW r \in Runs, Declare(t, r) \/ EndRound(t, r) PROVE Busy(t)'
    BY <1>8, RowRead DEF Declare, EndRound
  <1>9. ASSUME NEW r \in Runs, Fail(t, r) \/ Park(t, r) PROVE Busy(t)'
    BY <1>9, <1>d, StateRead DEF Fail, Park
  <1>10. ASSUME NEW r \in Runs, NextStep(t, r) PROVE Busy(t)'
    BY <1>10, <1>e DEF NextStep
  <1>11. ASSUME NEW r \in Runs, OpenGate(t, r) PROVE Busy(t)'
    BY <1>11, <1>d, StateRead DEF OpenGate, EndedIsFinished
  <1>12. ASSUME NEW r \in Runs, Wake(t, r) PROVE Busy(t)'
    BY <1>12, <1>g DEF Wake, Woken
  <1>13. ASSUME NEW r \in Runs, ClaimWokenSlot(t, r) PROVE Busy(t)'
    BY <1>13, <1>e, <1>g DEF ClaimWokenSlot, Woken
  <1>14. ASSUME NEW r \in Runs, Apply(t, r) PROVE Busy(t)'
    BY <1>14, <1>d, <1>e, StateRead DEF Apply, BackToWork
  <1>15. CASE \E r \in Runs : Unwind(t, r)
    BY <1>15, <1>a DEF Unwind, Settled
  <1> QED BY <1>1, <1>2, <1>3, <1>4, <1>5, <1>6, <1>7, <1>8, <1>9, <1>10, <1>11,
             <1>12, <1>13, <1>14, <1>15 DEF StepFor

\* A process that has not died had not died before.
LEMMA DeathsAreCounted ==
    ASSUME TypeOK, NEW t \in Tasks, StepFor(t), used'["deaths"] = 0
    PROVE  used["deaths"] = 0 /\ \A r \in Runs : ~DieAfterClaim(t, r)
  <1>1. used \in [Bounded -> Nat] /\ "deaths" \in Bounded
    BY DEF TypeOK, Bounded
  <1>2. ASSUME NEW b, Spend(b)
        PROVE  used["deaths"] = 0 /\ b # "deaths"
    BY <1>1, <1>2 DEF Spend
  <1>3. \A r \in Runs : ~DieAfterClaim(t, r)
    BY <1>2 DEF DieAfterClaim
  <1>4. (\E b : Spend(b)) \/ UNCHANGED used
    BY DEF StepFor, Start, Decide, SendEvent, RollBack, Move, Delete, Restore,
           StartRun, Declare, EndRound, Fail, NextStep, OpenGate, Park, Wake,
           ClaimWokenSlot, DieAfterClaim, Apply, Unwind
  <1> QED BY <1>2, <1>3, <1>4

WorkedForInv == EndedIsFinished /\ SlotIsWorkedFor

LEMMA WorkedForStep ==
    TypeOK /\ SettledInv /\ WorkedForInv /\ [Next]_vars => WorkedForInv'
  <1> SUFFICES ASSUME TypeOK, SettledInv, WorkedForInv, [Next]_vars
               PROVE  WorkedForInv'
    OBVIOUS
  <1>1. CASE UNCHANGED vars
    BY <1>1 DEF vars, WorkedForInv, EndedIsFinished, SlotIsWorkedFor, Busy, Holds
  <1>2. ASSUME NEW t \in Tasks, StepFor(t) PROVE WorkedForInv'
    <2>1. ASSUME NEW u \in Tasks, u \notin loose', NEW r \in Runs,
                 run'[u][r] = "ended"
          PROVE  row'[u].finished
      <3>1. CASE u = t
        BY <1>2, <2>1, <3>1, EndedHere DEF WorkedForInv
      <3>2. CASE u # t
        BY <1>2, <2>1, <3>2, Elsewhere DEF WorkedForInv, EndedIsFinished
      <3> QED BY <3>1, <3>2
    <2>2. ASSUME used'["deaths"] = 0, NEW u \in Tasks, u \notin loose',
                 Holds(u)', ~row'[u].finished
          PROVE  Busy(u)'
      <3>a. used["deaths"] = 0 /\ \A r \in Runs : ~DieAfterClaim(t, r)
        BY <1>2, <2>2, DeathsAreCounted
      <3>1. CASE u = t
        BY <1>2, <2>2, <3>a, <3>1, WorkedForHere DEF WorkedForInv, SlotIsWorkedFor
      <3>2. CASE u # t
        BY <1>2, <2>2, <3>a, <3>2, Elsewhere
           DEF WorkedForInv, SlotIsWorkedFor, Holds, Busy
      <3> QED BY <3>1, <3>2
    <2>3. EndedIsFinished'
      BY <2>1 DEF EndedIsFinished
    <2>4. SlotIsWorkedFor'
      BY <2>2 DEF SlotIsWorkedFor
    <2> QED BY <2>3, <2>4 DEF WorkedForInv
  <1> QED BY <1>1, <1>2, NextIsAStepForOne

\* No way out of a run leaves its Task a slot with nothing under way, unless
\* the process died under a claim or a person stepped in (failRun, parkRound,
\* finishRound, applyDecision).
THEOREM SlotsAreWorkedFor == Spec => []SlotIsWorkedFor
  <1>1. Init => WorkedForInv
    BY DEF Init, WorkedForInv, EndedIsFinished, SlotIsWorkedFor, Holds
  <1>2. WorkedForInv => SlotIsWorkedFor
    BY DEF WorkedForInv
  <1> QED BY <1>1, <1>2, WorkedForStep, Typing, OneThingAtATime, PTL DEF Spec

=============================================================================
