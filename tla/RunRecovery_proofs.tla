------------------------- MODULE RunRecovery_proofs -------------------------
(***************************************************************************)
(* Proofs about RunRecovery, for any number of runs and of passes, any     *)
(* budget and any mix of what may go wrong: the types; that one launch at  *)
(* a time is under way for a Task; that the budget of relaunches holds;    *)
(* and that a verdict on a sleep leaves with it.                           *)
(*                                                                         *)
(* The first of these is inductive with one thing more: a Task that does   *)
(* not read running has nothing under way, so that the claims of the web   *)
(* app and of a sleeper, which look at the row alone, are safe. The budget *)
(* is inductive as an account of each Session: every launch is recorded,   *)
(* is in the hands of the one pass it needs no excuse for, or was paid for *)
(* by a slip.                                                              *)
(***************************************************************************)
EXTENDS RunRecovery, FiniteSetTheorems, WellFoundedInduction, TLAPS

USE RunsAssumption, PassesAssumption, RecoveriesAssumption, SessionsAssumption,
    MixesAssumption

-----------------------------------------------------------------------------
(* Sessions.                                                               *)

LEMMA SessionsAreNumbers ==
    /\ \A s \in Sessions : s \in Nat /\ s # None /\ s <= MaxSessions
    /\ IsFiniteSet(Sessions)
  <1>1. IsFiniteSet(1 .. MaxSessions)
    BY FS_Interval
  <1> QED BY <1>1 DEF Sessions, None

\* A nonempty set of Sessions has a newest one.
LEMMA NewestIsOne ==
    ASSUME NEW S \in SUBSET Sessions, S # {}
    PROVE  NewestOf(S) \in S
  <1> DEFINE T == {MaxSessions - x : x \in S}
             R == OpToRel(<, Nat)
  <1>0. \A x \in S : x \in Nat /\ MaxSessions - x \in Nat
    BY SessionsAreNumbers
  <1>1. T \subseteq Nat /\ T # {}
    BY <1>0
  <1>2. PICK m \in T : \A y \in T : ~(<<y, m>> \in R)
    <2> HIDE DEF T, R
    <2> QED BY <1>1, WFMin, NatLessThanWellFounded DEF R
  <1>3. \A y \in Nat : y < m => <<y, m>> \in R
    <2>1. R = {ss \in Nat \X Nat : ss[1] < ss[2]}
      BY Zenon DEF OpToRel
    <2> QED BY <1>1, <2>1
  <1>4. PICK x \in S : m = MaxSessions - x
    OBVIOUS
  <1>5. \A y \in S : y <= x
    <2> SUFFICES ASSUME NEW y \in S PROVE y <= x
      OBVIOUS
    <2>1. MaxSessions - y \in T /\ MaxSessions - y \in Nat
      BY <1>0
    <2>2. ~(MaxSessions - y < m)
      <3> HIDE DEF R, T
      <3> QED BY <1>2, <1>3, <2>1
    <2> QED BY <1>0, <1>4, <2>2
  <1> QED BY <1>5 DEF NewestOf

LEMMA LiveIsOpened ==
    LiveSession # None => LiveSession \in Opened /\ LiveSession \in Sessions
  <1>1. {s \in Opened : sess[s].state # "closed"} \subseteq Sessions
    BY DEF Opened
  <1> QED BY <1>1, NewestIsOne DEF LiveSession, NewestOf, None, Opened

LEMMA OpenedIsFinite ==
    /\ Opened \subseteq Sessions
    /\ IsFiniteSet(Opened)
    /\ Cardinality(Opened) \in Nat
  BY SessionsAreNumbers, FS_Subset, FS_CardinalityType DEF Opened

-----------------------------------------------------------------------------
(* Types.                                                                  *)

\* What is under way names a Session that is open, or that a request is to open;
\* every launch still allowed, and every such request, has one left to open.
Opening ==
    /\ asking # NoRequest => /\ asking.session \in Sessions
                             /\ \/ asking.at = "claimed" /\ ~asking.decided
                                \/ asking.session \in Opened
    /\ \A e \in inbox : e.session \in Opened
    /\ \A r \in Runs : run[r].pc # "idle" => SessionOf(r) \in Opened
    /\ \A p \in Passes : InFlight(p) => pass[p].session \in Opened
    /\ Cardinality(Opened) + left["starts"]
         + (IF asking.at = "claimed" /\ ~asking.decided THEN 1 ELSE 0)
         <= MaxSessions

Typed == TypeOK /\ Opening

LEMMA Spent ==
    ASSUME TypeOK, NEW bound \in Bounded, Spend(bound)
    PROVE  /\ left' \in [Bounded -> Nat]
           /\ left'["starts"] <= left["starts"]
           /\ bound = "starts" => left'["starts"] + 1 = left["starts"]
  <1>1. "starts" \in Bounded
    BY DEF Bounded
  <1> QED BY <1>1 DEF TypeOK, Spend

LEMMA Slipped ==
    ASSUME TypeOK, Slip
    PROVE  /\ left' \in [Bounded -> Nat] /\ left'["starts"] <= left["starts"]
           /\ slipped' = slipped + 1 /\ slipped' \in Nat
  <1>1. "slips" \in Bounded
    BY DEF Bounded
  <1> QED BY <1>1, Spent DEF Slip, TypeOK

\* Whatever is logged of a Session, the ones that were opened stay so.
LEMMA SessionLogged ==
    ASSUME TypeOK, NEW s,
           NEW state \in {"open", "awaiting_review", "closed"}, Logged(s, state)
    PROVE  /\ sess' \in [Sessions -> Session]
           /\ Opened \subseteq Opened' /\ Opened' \subseteq Opened \union {s}
           /\ s \in Sessions => s \in Opened'
           /\ s \in Opened => Opened' = Opened
           /\ quiet' = FALSE
  <1>1. sess' = [sess EXCEPT ![s].state = state] /\ quiet' = FALSE
    BY DEF Logged
  <1>2. sess' \in [Sessions -> Session]
    BY <1>1 DEF TypeOK, Session
  <1>3. \A q \in Sessions : sess'[q].state = IF q = s THEN state ELSE sess[q].state
    BY <1>1 DEF TypeOK, Session
  <1> QED BY <1>1, <1>2, <1>3 DEF Opened

LEMMA SaidLogged ==
    ASSUME TypeOK, NEW s, NEW said \in BOOLEAN,
           sess' = [sess EXCEPT ![s].said = said]
    PROVE  sess' \in [Sessions -> Session] /\ Opened' = Opened
  <1>1. sess' \in [Sessions -> Session]
    BY DEF TypeOK, Session
  <1>2. \A q \in Sessions : sess'[q].state = sess[q].state
    BY DEF TypeOK, Session
  <1> QED BY <1>1, <1>2 DEF Opened

LEMMA SpentLogged ==
    ASSUME TypeOK, NEW s \in Sessions, sess' = [sess EXCEPT ![s].spent = @ + 1]
    PROVE  sess' \in [Sessions -> Session] /\ Opened' = Opened
  <1> DEFINE rec == [sess[s] EXCEPT !.spent = @ + 1]
  <1>1. sess \in [Sessions -> Session] /\ sess[s] \in Session
    BY DEF TypeOK
  <1>2. rec \in Session /\ rec.state = sess[s].state
    BY <1>1 DEF Session
  <1>3. sess' = [sess EXCEPT ![s] = rec]
    OBVIOUS
  <1> HIDE DEF rec
  <1>4. sess' \in [Sessions -> Session]
    BY <1>1, <1>2, <1>3
  <1>5. \A q \in Sessions : sess'[q].state = sess[q].state
    BY <1>1, <1>2, <1>3
  <1> QED BY <1>4, <1>5 DEF Opened

LEMMA RowClaimed ==
    ASSUME TypeOK, NEW from, ClaimRow(from)
    PROVE  /\ row' \in Row /\ quiet' = FALSE /\ loose' \in BOOLEAN
           /\ row'.state = "running" /\ row'.named = FALSE
           /\ loose' = Busy
  BY DEF TypeOK, ClaimRow, Write, Row, Busy

LEMMA RowWritten ==
    ASSUME TypeOK, NEW st \in {"ready", "running", "review", "parked", "failed", "done"},
           NEW f \in BOOLEAN, NEW n \in BOOLEAN
    PROVE  /\ [row EXCEPT !.state = st] \in Row
           /\ [row EXCEPT !.finished = f] \in Row
           /\ [row EXCEPT !.named = n] \in Row
           /\ [row EXCEPT !.state = st, !.finished = f] \in Row
           /\ [row EXCEPT !.finished = f, !.state = st] \in Row
           /\ [row EXCEPT !.state = st, !.named = n] \in Row
           /\ [row EXCEPT !.state = st, !.finished = f, !.named = n] \in Row
  BY DEF TypeOK, Row

LEMMA RunWritten ==
    ASSUME TypeOK, NEW r \in Runs, NEW pc \in {"idle", "asleep"} \union Executing
    PROVE  /\ [run EXCEPT ![r].pc = pc] \in [Runs -> Run]
           /\ [run EXCEPT ![r] = NoRun] \in [Runs -> Run]
           /\ [run EXCEPT ![r].stopped = TRUE] \in [Runs -> Run]
  BY DEF TypeOK, Run, NoRun

LEMMA Cancelled ==
    ASSUME TypeOK, Cancel
    PROVE  inbox' \subseteq Event /\ run' \in [Runs -> Run]
  BY DEF TypeOK, Cancel, Run, NoRun

LEMMA Filed ==
    ASSUME TypeOK, NEW s, File(s)
    PROVE  /\ row' \in Row /\ quiet' = FALSE
           /\ sess' \in [Sessions -> Session]
           /\ s \in Opened \union {None} => Opened' = Opened
           /\ row'.named = FALSE /\ row'.state \in {"ready", "failed"}
  <1>1. row' \in Row /\ quiet' = FALSE
        /\ row'.named = FALSE /\ row'.state \in {"ready", "failed"}
    BY DEF File, Write, TypeOK, Row
  <1>2. CASE s = None
    BY <1>1, <1>2 DEF File, TypeOK, Opened
  <1>3. CASE s # None
    <2>1. Logged(s, "closed")
      BY <1>3 DEF File
    <2>2. /\ sess' \in [Sessions -> Session]
          /\ s \in Opened => Opened' = Opened
      BY <2>1, SessionLogged
    <2> QED BY <1>1, <1>3, <2>2
  <1> QED BY <1>2, <1>3

LEMMA InitTyped == Init => Typed
  <1> SUFFICES ASSUME Init PROVE Typed
    OBVIOUS
  <1>1. TypeOK
    BY DEF Init, TypeOK, Row, Session, NoSession, Request, NoRequest, Run, NoRun,
           Pass, NoPass
  <1>2. Opened = {}
    BY DEF Init, Opened, NoSession
  <1>3. left["starts"] <= MaxSessions /\ left["starts"] \in Nat
    BY DEF Init, Bounded
  <1> QED BY <1>1, <1>2, <1>3, FS_EmptySet
          DEF Init, Typed, Opening, NoRequest, InFlight, NoPass, NoRun

\* What no Session is opened by, and no request is begun.
LEMMA CountKept ==
    ASSUME Typed, Opened' = Opened,
           left'["starts"] \in Nat, left'["starts"] <= left["starts"],
           asking' = asking
    PROVE  (Cardinality(Opened) + left["starts"]
              + (IF asking.at = "claimed" /\ ~asking.decided THEN 1 ELSE 0)
              <= MaxSessions)'
  <1>1. left["starts"] \in Nat /\ Cardinality(Opened) \in Nat
    BY OpenedIsFinite DEF Typed, TypeOK, Bounded
  <1> QED BY <1>1 DEF Typed, Opening

\* The requests.
LEMMA WebTyped ==
    ASSUME Typed, Person \/ Answer
    PROVE  Typed'
  <1> USE DEF Typed
  <1>0. /\ row \in Row /\ left["starts"] \in Nat /\ Cardinality(Opened) \in Nat
        /\ asking \in Request
    BY OpenedIsFinite DEF TypeOK, Bounded
  <1>a. {"starts", "decisions", "overrides", "losses"} \subseteq Bounded
    BY DEF Bounded
  <1>1. CASE Start
    <2> DEFINE s == Cardinality(Opened) + 1
    <2>1. left' \in [Bounded -> Nat] /\ left'["starts"] + 1 = left["starts"]
      BY <1>1, <1>a, Spent DEF Start
    <2>2. left'["starts"] \in Nat
      BY <2>1, <1>a
    <2>3. s \in Sessions /\ asking.at # "claimed"
      BY <1>0, <1>1, <2>1, <2>2 DEF Start, Opening, Sessions, NoRequest
    <2>4. asking' = [at |-> "claimed", decided |-> FALSE, session |-> s]
      BY <1>1 DEF Start
    <2> HIDE DEF s
    <2>5. /\ asking' \in Request /\ asking'.session \in Sessions
          /\ asking'.at = "claimed" /\ ~asking'.decided
      BY <2>3, <2>4 DEF Request
    <2>6. /\ row' \in Row /\ quiet' = FALSE /\ loose' \in BOOLEAN
          /\ sess' = sess /\ inbox' = inbox /\ run' = run /\ pass' = pass
          /\ launched' = launched /\ slipped' = slipped
      BY <1>1, RowClaimed DEF Start
    <2>7. TypeOK'
      BY <2>1, <2>5, <2>6 DEF TypeOK
    <2>8. Opened' = Opened
      BY <2>6 DEF Opened
    <2>9. Cardinality(Opened) + left'["starts"] + 1 <= MaxSessions
      BY <1>0, <2>1, <2>2, <2>3 DEF Opening
    <2> QED BY <2>5, <2>6, <2>7, <2>8, <2>9 DEF Opening, InFlight, SessionOf
  <1>2. CASE Decide
    <2>1. left' \in [Bounded -> Nat] /\ left'["starts"] <= left["starts"]
      BY <1>2, <1>a, Spent DEF Decide
    <2>2. PICK s \in Opened :
             asking' = [at |-> "claimed", decided |-> TRUE, session |-> s]
      BY <1>2 DEF Decide
    <2>3. /\ asking' \in Request /\ asking'.session = s /\ s \in Sessions
          /\ asking'.decided
      BY <2>2, OpenedIsFinite DEF Request
    <2>4. /\ row' \in Row /\ quiet' = FALSE /\ loose' \in BOOLEAN
          /\ sess' = sess /\ inbox' = inbox /\ run' = run /\ pass' = pass
          /\ launched' = launched /\ slipped' = slipped /\ asking = NoRequest
      BY <1>2, RowClaimed DEF Decide
    <2>5. TypeOK'
      BY <2>1, <2>3, <2>4 DEF TypeOK
    <2>6. Opened' = Opened
      BY <2>4 DEF Opened
    <2>7. Cardinality(Opened) + left'["starts"] <= MaxSessions
      <3>1. Cardinality(Opened) + left["starts"] <= MaxSessions
        BY <2>4, <1>0 DEF Opening, NoRequest
      <3>2. left'["starts"] \in Nat
        BY <2>1, <1>a
      <3> QED BY <1>0, <2>1, <3>1, <3>2
    <2>8. left'["starts"] \in Nat
      BY <2>1, <1>a
    <2> QED BY <1>0, <2>2, <2>3, <2>4, <2>5, <2>6, <2>7, <2>8 DEF Opening, InFlight, SessionOf
  <1>3. CASE Move
    <2>1. left' \in [Bounded -> Nat] /\ left'["starts"] <= left["starts"]
      BY <1>3, <1>a, Spent DEF Move
    <2>2. row' \in Row
      <3>1. PICK move \in Moves :
               row' = [row EXCEPT !.state = move[2],
                                  !.finished = @ /\ move[2] # "ready",
                                  !.named = @ /\ move[2] = "failed"]
        BY <1>3 DEF Move, Write
      <3>2. PICK f \in BOOLEAN, n \in BOOLEAN :
               /\ f = (row.finished /\ move[2] # "ready")
               /\ n = (row.named /\ move[2] = "failed")
        BY <1>0 DEF Row
      <3>3. row' = [row EXCEPT !.state = move[2], !.finished = f, !.named = n]
        BY <1>0, <3>1, <3>2 DEF Row
      <3>4. move[2] \in {"ready", "review", "parked", "failed", "done"}
        BY DEF Moves
      <3> QED BY <3>3, <3>4, RowWritten
    <2>3. /\ quiet' = FALSE /\ loose' \in BOOLEAN
          /\ sess' = sess /\ asking' = asking /\ inbox' = inbox /\ run' = run
          /\ pass' = pass /\ launched' = launched /\ slipped' = slipped
      BY <1>3 DEF Move, Write, Busy, TypeOK
    <2>4. Opened' = Opened
      BY <2>3 DEF Opened
    <2>5. left'["starts"] \in Nat
      BY <2>1, <1>a
    <2> QED BY <2>1, <2>2, <2>3, <2>4, <2>5, CountKept DEF Opening, InFlight, SessionOf, TypeOK
  <1>4. CASE OpenSession
    <2> DEFINE s == asking.session
    <2>1. s \in Sessions /\ asking # NoRequest
      BY <1>4 DEF OpenSession, Opening, NoRequest
    <2>2. /\ sess' \in [Sessions -> Session] /\ quiet' = FALSE
          /\ Opened \subseteq Opened' /\ Opened' \subseteq Opened \union {s}
      BY <1>4, SessionLogged DEF OpenSession
    <2>3. /\ asking' = [asking EXCEPT !.at = "opened"]
          /\ row' = row /\ inbox' = inbox /\ run' = run /\ pass' = pass
          /\ loose' = loose /\ launched' = launched
          /\ left' = left /\ slipped' = slipped
      BY <1>4 DEF OpenSession, history, bounds
    <2>4. /\ asking' \in Request /\ asking'.session = s /\ asking'.at = "opened"
          /\ asking'.decided = asking.decided
      BY <1>0, <2>3 DEF Request
    <2>5. TypeOK'
      BY <2>2, <2>3, <2>4 DEF TypeOK
    <2>6. Cardinality(Opened') + left["starts"] <= MaxSessions
      <3>1. CASE asking.decided
        <4>1. Opened' = Opened
          BY <2>1, <2>2, <3>1 DEF Opening
        <4> QED BY <1>0, <3>1, <4>1 DEF Opening
      <3>2. CASE ~asking.decided
        <4>1. Cardinality(Opened') <= Cardinality(Opened) + 1
          <5>1. /\ IsFiniteSet(Opened \union {s})
                /\ Cardinality(Opened \union {s}) <= Cardinality(Opened) + 1
                /\ Cardinality(Opened \union {s}) \in Nat
            <6> HIDE DEF s
            <6>1. IsFiniteSet(Opened \union {s})
              BY OpenedIsFinite, FS_AddElement
            <6>2. Cardinality(Opened \union {s}) =
                    IF s \in Opened THEN Cardinality(Opened)
                                    ELSE Cardinality(Opened) + 1
              BY OpenedIsFinite, FS_AddElement
            <6> QED BY <1>0, <6>1, <6>2
          <5>2. /\ Cardinality(Opened') <= Cardinality(Opened \union {s})
                /\ Cardinality(Opened') \in Nat
            <6> HIDE DEF s
            <6> QED BY <2>2, <5>1, FS_Subset, FS_CardinalityType
          <5> QED BY <1>0, <5>1, <5>2
        <4>2. Cardinality(Opened') \in Nat
          BY OpenedIsFinite, <2>5, FS_Subset, FS_CardinalityType, SessionsAreNumbers
             DEF Opened
        <4>3. Cardinality(Opened) + left["starts"] + 1 <= MaxSessions
          BY <1>4, <3>2 DEF OpenSession, Opening
        <4> QED BY <1>0, <4>1, <4>2, <4>3
      <3> QED BY <3>1, <3>2
    <2>7. Cardinality(Opened') \in Nat
      BY <2>5, FS_Subset, FS_CardinalityType, SessionsAreNumbers DEF Opened
    <2>8. s \in Opened'
      BY <1>4, <2>1, SessionLogged DEF OpenSession
    <2> HIDE DEF s
    <2>9. /\ \A e \in inbox' : e.session \in Opened'
          /\ \A r \in Runs : run'[r].pc # "idle" => run'[r].session \in Opened'
          /\ \A p \in Passes : pass'[p].at # "idle" => pass'[p].session \in Opened'
      BY <2>2, <2>3 DEF Opening, InFlight, SessionOf
    <2> QED BY <1>0, <2>1, <2>3, <2>4, <2>5, <2>6, <2>7, <2>8, <2>9
            DEF Opening, InFlight, SessionOf
  <1>5. CASE SendEvent
    <2>1. asking.session \in Sessions /\ asking # NoRequest
      BY <1>5 DEF SendEvent, Opening, NoRequest
    <2>2. inbox' \subseteq Event /\ \A e \in inbox' : e.session \in Opened
      BY <1>0, <1>5, <2>1 DEF SendEvent, Sent, Event, Request, TypeOK, Opening
    <2>3. /\ asking' = NoRequest
          /\ row' = row /\ sess' = sess /\ run' = run /\ pass' = pass
          /\ quiet' = quiet /\ loose' = loose /\ launched' = launched
          /\ left' = left /\ slipped' = slipped
      BY <1>5 DEF SendEvent, history, bounds
    <2>4. TypeOK'
      BY <2>2, <2>3 DEF TypeOK, Request, NoRequest
    <2>5. Opened' = Opened
      BY <2>3 DEF Opened
    <2> QED BY <1>0, <2>2, <2>3, <2>4, <2>5 DEF Opening, InFlight, SessionOf, NoRequest
  <1>6. CASE DieInRequest
    <2>1. left' \in [Bounded -> Nat] /\ left'["starts"] <= left["starts"]
      BY <1>6, <1>a, Spent DEF DieInRequest
    <2>3. /\ asking' = NoRequest
          /\ row' = row /\ sess' = sess /\ inbox' = inbox /\ run' = run
          /\ pass' = pass /\ quiet' = quiet /\ loose' = loose
          /\ launched' = launched /\ slipped' = slipped
      BY <1>6 DEF DieInRequest
    <2>4. TypeOK'
      BY <2>1, <2>3 DEF TypeOK, Request, NoRequest
    <2>5. Opened' = Opened
      BY <2>3 DEF Opened
    <2>6. left'["starts"] \in Nat
      BY <2>1, <1>a
    <2> QED BY <1>0, <2>1, <2>3, <2>4, <2>5, <2>6 DEF Opening, InFlight, SessionOf, NoRequest
  <1> QED BY <1>1, <1>2, <1>3, <1>4, <1>5, <1>6 DEF Person, Answer

\* The runs, in the Sessions they were started in.
RunsTyped == /\ run \in [Runs -> Run]
             /\ \A r \in Runs : run[r].pc # "idle" => SessionOf(r) \in Opened

LEMMA RunMoved ==
    ASSUME Typed, NEW r \in Runs, run[r].pc # "idle", Opened' = Opened,
           \/ \E pc \in Executing \union {"asleep"} : To(r, pc)
           \/ Leave(r)
    PROVE  RunsTyped'
  <1>0. run \in [Runs -> Run] /\ run[r] \in Run
    BY DEF Typed, TypeOK
  <1>1. \A q \in Runs : run[q].pc # "idle" => run[q].session \in Opened
    BY DEF Typed, Opening, SessionOf
  <1>2. CASE Leave(r)
    BY <1>0, <1>1, <1>2, RunWritten DEF Leave, RunsTyped, SessionOf, NoRun, Typed
  <1>3. ASSUME NEW pc \in Executing \union {"asleep"}, To(r, pc) PROVE RunsTyped'
    <2>1. run' = [run EXCEPT ![r].pc = pc] /\ run' \in [Runs -> Run]
      BY <1>3, RunWritten DEF To, Typed
    <2>2. \A q \in Runs : /\ run'[q].session = run[q].session
                          /\ q # r => run'[q].pc = run[q].pc
      BY <1>0, <2>1 DEF Run
    <2> QED BY <1>1, <2>1, <2>2 DEF RunsTyped, SessionOf
  <1> QED BY <1>2, <1>3

\* The engine's and the harness's steps.
LEMMA RunTyped ==
    ASSUME Typed, \/ \E r \in Runs : RunStep(r)
                  \/ Lose \/ Crash \/ Tick \/ NameStranded
    PROVE  Typed'
  <1> DEFINE Kept == /\ asking' = asking /\ launched' = launched
                     /\ row' \in Row /\ quiet' \in BOOLEAN /\ loose' \in BOOLEAN
                     /\ sess' \in [Sessions -> Session] /\ Opened' = Opened
                     /\ inbox' \subseteq inbox
             Counted == /\ left' \in [Bounded -> Nat]
                        /\ left'["starts"] <= left["starts"]
                        /\ slipped' \in Nat
  <1>0. /\ row \in Row /\ run \in [Runs -> Run] /\ inbox \subseteq Event
        /\ sess \in [Sessions -> Session] /\ quiet \in BOOLEAN /\ loose \in BOOLEAN
        /\ RunsTyped /\ TypeOK
        /\ \A r \in Runs : run[r] \in Run /\ run[r].stopped \in BOOLEAN
    BY DEF Typed, TypeOK, Opening, RunsTyped, Run
  <1>a. {"full", "losses", "slips"} \subseteq Bounded /\ "starts" \in Bounded
    BY DEF Bounded
  <1>1. ASSUME Kept, Counted, RunsTyped',
               \A p \in Passes : pass'[p] \in {pass[p], NoPass},
               pass' \in [Passes -> Pass]
        PROVE  Typed'
    <2>1. TypeOK'
      BY <1>0, <1>1 DEF TypeOK, RunsTyped
    <2>2. left'["starts"] \in Nat
      BY <1>1, <1>a
    <2>3. \A p \in Passes : InFlight(p)' => pass'[p].session \in Opened
      BY <1>1 DEF Typed, Opening, InFlight, NoPass
    <2> QED BY <1>1, <2>1, <2>2, <2>3, CountKept DEF Typed, Opening, RunsTyped
  <1>2. UNCHANGED bounds => Counted
    BY <1>0, <1>a DEF TypeOK, bounds
  <1>3. UNCHANGED sess => sess' \in [Sessions -> Session] /\ Opened' = Opened
    BY <1>0 DEF Opened
  <1>4. pass' = pass => /\ \A p \in Passes : pass'[p] \in {pass[p], NoPass}
                        /\ pass' \in [Passes -> Pass]
    BY <1>0 DEF TypeOK
  <1>5. UNCHANGED run /\ Opened' = Opened => RunsTyped'
    BY <1>0 DEF RunsTyped, SessionOf
  <1>7. ASSUME NEW r \in Runs, run[r].pc # "idle",
               NEW st \in {"open", "awaiting_review", "closed"},
               Logged(SessionOf(r), st)
        PROVE  sess' \in [Sessions -> Session] /\ Opened' = Opened /\ quiet' = FALSE
    <2>1. SessionOf(r) \in Opened
      BY <1>0, <1>7 DEF RunsTyped
    <2> QED BY <1>0, <1>7, <2>1, SessionLogged
  <1>8. ASSUME NEW r \in Runs, RunStep(r) PROVE Typed'
    <2>1. CASE StartRun(r)
      <3>1. PICK e \in inbox :
              /\ inbox' = inbox \ {e}
              /\ run' = [run EXCEPT
                           ![r] = [pc |-> IF e.decided THEN "deciding"
                                                       ELSE "preparing",
                                   session |-> e.session, stopped |-> FALSE]]
        BY <2>1 DEF StartRun
      <3>2. e.session \in Opened /\ e.session \in Sessions
        BY OpenedIsFinite DEF Typed, Opening
      <3>3. UNCHANGED <<row, sess, asking, quiet, pass, loose, launched>>
            /\ UNCHANGED bounds
        BY <2>1 DEF StartRun, history
      <3>4. RunsTyped'
        <4>1. run' \in [Runs -> Run]
          BY <1>0, <3>1, <3>2 DEF Run, Executing
        <4>2. \A q \in Runs : run'[q].pc # "idle" => run'[q].session \in Opened
          BY <1>0, <3>1, <3>2 DEF RunsTyped, SessionOf
        <4> QED BY <1>3, <3>3, <4>1, <4>2 DEF RunsTyped, SessionOf
      <3> QED BY <1>0, <1>1, <1>2, <1>3, <1>4, <3>1, <3>3, <3>4
    <2>2. CASE Apply(r)
      <3>1. /\ run[r].pc # "idle"
            /\ row' \in Row
            /\ sess' \in [Sessions -> Session] /\ Opened' = Opened /\ quiet' = FALSE
            /\ (\E pc \in Executing \union {"asleep"} : To(r, pc)) \/ Leave(r)
        <4>0. run[r].pc # "idle"
          BY <2>2 DEF Apply
        <4>1. CASE /\ Write([row EXCEPT !.state = "running", !.finished = FALSE])
                   /\ Logged(SessionOf(r), "open")
                   /\ To(r, "preparing")
          <5>1. row' \in Row
            BY <1>0, <4>1, RowWritten DEF Write
          <5>2. "preparing" \in Executing
            BY DEF Executing
          <5> QED BY <1>7, <4>0, <4>1, <5>1, <5>2
        <4>2. CASE /\ \E end \in Ends : /\ Write([row EXCEPT !.state = end[1]])
                                        /\ Logged(SessionOf(r), end[2])
                   /\ Leave(r)
          <5>1. PICK end \in Ends : /\ Write([row EXCEPT !.state = end[1]])
                                    /\ Logged(SessionOf(r), end[2])
            BY <4>2
          <5>2. /\ end[1] \in {"ready", "review", "failed", "done"}
                /\ end[2] \in {"open", "closed"}
            BY DEF Ends
          <5>3. row' \in Row
            BY <1>0, <5>1, <5>2, RowWritten DEF Write
          <5> QED BY <1>7, <4>0, <4>2, <5>1, <5>2, <5>3
        <4> QED BY <2>2, <4>0, <4>1, <4>2 DEF Apply
      <3>2. UNCHANGED <<asking, inbox, pass, loose, launched>> /\ UNCHANGED bounds
        BY <2>2 DEF Apply, history
      <3>3. RunsTyped'
        BY <3>1, RunMoved
      <3> QED BY <1>0, <1>1, <1>2, <1>4, <3>1, <3>2, <3>3
    <2>3. CASE BeginRound(r) \/ AnotherRound(r)
      <3>1. /\ run[r].pc # "idle"
            /\ \E pc \in Executing \union {"asleep"} : To(r, pc)
            /\ UNCHANGED <<row, sess, asking, inbox, pass, loose, launched>>
            /\ UNCHANGED bounds /\ quiet' = FALSE
        BY <2>3 DEF BeginRound, AnotherRound, Append, history, Executing
      <3> QED BY <1>0, <1>1, <1>2, <1>3, <1>4, <3>1, RunMoved
    <2>4. CASE EndRound(r)
      <3>1. /\ run[r].pc # "idle"
            /\ (\E pc \in Executing \union {"asleep"} : To(r, pc)) \/ Leave(r)
            /\ UNCHANGED <<row, asking, inbox, pass, loose, launched>>
            /\ UNCHANGED bounds /\ quiet' = FALSE
            /\ \/ \E said \in BOOLEAN : sess' = [sess EXCEPT ![SessionOf(r)].said = said]
               \/ UNCHANGED sess
        BY <2>4 DEF EndRound, Append, history, Executing
      <3>2. sess' \in [Sessions -> Session] /\ Opened' = Opened
        BY <1>0, <1>3, <3>1, SaidLogged
      <3> QED BY <1>0, <1>1, <1>2, <1>4, <3>1, <3>2, RunMoved
    <2>5. CASE ToReview(r)
      <3>1. /\ run[r].pc # "idle"
            /\ row' = [row EXCEPT !.finished = TRUE]
            /\ Logged(SessionOf(r), "awaiting_review")
            /\ \E pc \in Executing \union {"asleep"} : To(r, pc)
            /\ UNCHANGED <<asking, inbox, pass, loose, launched>> /\ UNCHANGED bounds
        BY <2>5 DEF ToReview, Write, history, Executing
      <3>2. row' \in Row
        BY <1>0, <3>1, RowWritten
      <3> QED BY <1>0, <1>1, <1>2, <1>4, <1>7, <3>1, <3>2, RunMoved
    <2>6. CASE NextStep(r)
      <3>1. /\ run[r].pc # "idle"
            /\ row' = [row EXCEPT !.finished = FALSE,
                         !.state = IF @ = "review" THEN "running" ELSE @]
            /\ Logged(SessionOf(r), "open")
            /\ \E pc \in Executing \union {"asleep"} : To(r, pc)
            /\ UNCHANGED <<asking, inbox, pass, loose, launched>> /\ UNCHANGED bounds
        BY <2>6 DEF NextStep, Write, history, Executing
      <3>2. row' \in Row
        BY <1>0, <3>1 DEF Row
      <3> QED BY <1>0, <1>1, <1>2, <1>4, <1>7, <3>1, <3>2, RunMoved
    <2>7. CASE OpenGate(r)
      <3>1. /\ run[r].pc # "idle" /\ Leave(r) /\ UNCHANGED sess
            /\ row' = [row EXCEPT !.state = "review", !.named = FALSE] \/ row' = row
            /\ quiet' \in {FALSE, quiet}
            /\ UNCHANGED <<asking, inbox, pass, loose, launched>> /\ UNCHANGED bounds
        BY <2>7 DEF OpenGate, Write, Append, history
      <3>2. row' \in Row
        BY <1>0, <3>1, RowWritten
      <3> QED BY <1>0, <1>1, <1>2, <1>3, <1>4, <3>1, <3>2, RunMoved
    <2>8. CASE Fail(r) \/ Park(r)
      <3>1. /\ run[r].pc # "idle" /\ UNCHANGED sess /\ quiet' = FALSE
            /\ (\E pc \in Executing \union {"asleep"} : To(r, pc)) \/ Leave(r)
            /\ \/ row' = [row EXCEPT !.state = "failed", !.named = FALSE]
               \/ row' = [row EXCEPT !.state = "parked", !.named = FALSE]
            /\ UNCHANGED <<asking, inbox, pass, loose, launched>> /\ UNCHANGED bounds
        BY <2>8 DEF Fail, Park, Write, Append, history, Executing
      <3>2. row' \in Row
        BY <1>0, <3>1, RowWritten
      <3> QED BY <1>0, <1>1, <1>2, <1>3, <1>4, <3>1, <3>2, RunMoved
    <2>9. CASE Wake(r)
      <3>1. /\ run[r].pc # "idle" /\ UNCHANGED sess
            /\ (\E pc \in Executing \union {"asleep"} : To(r, pc)) \/ Leave(r) \/ UNCHANGED run
            /\ \/ ClaimRow({"parked"}) /\ UNCHANGED left
               \/ /\ row' = [row EXCEPT !.named = FALSE] /\ quiet' = FALSE
                  /\ UNCHANGED loose /\ Spend("full")
               \/ UNCHANGED <<row, loose, left>> /\ quiet' = FALSE
            /\ UNCHANGED <<asking, inbox, pass, launched, slipped>>
        BY <2>9 DEF Wake, Write, Append, Executing
      <3>2. row' \in Row /\ quiet' = FALSE /\ loose' \in BOOLEAN
        BY <1>0, <3>1, RowWritten, RowClaimed
      <3>3. left' \in [Bounded -> Nat] /\ left'["starts"] <= left["starts"]
        BY <1>0, <1>2, <1>a, <3>1, Spent DEF bounds, TypeOK
      <3>4. RunsTyped'
        BY <1>3, <1>5, <3>1, RunMoved
      <3> QED BY <1>0, <1>1, <1>3, <1>4, <3>1, <3>2, <3>3, <3>4 DEF TypeOK
    <2>10. CASE Unwind(r)
      <3>1. /\ Leave(r)
            /\ UNCHANGED <<row, sess, asking, inbox, quiet, pass, loose, launched>>
            /\ UNCHANGED bounds
        BY <2>10 DEF Unwind, history
      <3>2. RunsTyped'
        <4>1. CASE run[r].pc # "idle"
          BY <1>3, <3>1, <4>1, RunMoved
        <4>2. CASE run[r].pc = "idle"
          BY <1>0, <1>3, <3>1, <4>2, RunWritten
             DEF RunsTyped, SessionOf, Leave, NoRun, Executing
        <4> QED BY <4>1, <4>2
      <3> QED BY <1>0, <1>1, <1>2, <1>3, <1>4, <3>1, <3>2
    <2> QED BY <1>8, <2>1, <2>2, <2>3, <2>4, <2>5, <2>6, <2>7, <2>8, <2>9, <2>10
            DEF RunStep
  <1>9. CASE Lose
    <2>1. /\ inbox' \subseteq inbox
          /\ \/ UNCHANGED run
             \/ \E r \in Runs : /\ run[r].pc # "idle"
                                /\ \/ run' = [run EXCEPT ![r].stopped = TRUE]
                                   \/ Leave(r)
          /\ UNCHANGED <<row, sess, asking, quiet, pass, loose, launched, slipped>>
      BY <1>9 DEF Lose, history
    <2>2. left' \in [Bounded -> Nat] /\ left'["starts"] <= left["starts"]
      BY <1>0, <1>9, <1>a, Spent DEF Lose
    <2>3. RunsTyped'
      <3>1. ASSUME NEW r \in Runs, run' = [run EXCEPT ![r].stopped = TRUE]
            PROVE  RunsTyped'
        <4>1. run' \in [Runs -> Run]
          BY <1>0, <3>1 DEF Run
        <4>2. \A q \in Runs : run'[q].session = run[q].session /\ run'[q].pc = run[q].pc
          BY <1>0, <3>1 DEF Run
        <4> QED BY <1>0, <1>3, <2>1, <4>1, <4>2 DEF RunsTyped, SessionOf
      <3> QED BY <1>3, <1>5, <2>1, <3>1, RunMoved
    <2> QED BY <1>0, <1>1, <1>3, <1>4, <2>1, <2>2, <2>3 DEF TypeOK
  <1>10. CASE Crash
    <2>1. /\ run' = [r \in Runs |->
                       IF run[r].stopped THEN NoRun
                       ELSE IF run[r].pc = "working"
                            THEN [run[r] EXCEPT !.pc = "preparing"]
                            ELSE run[r]]
          /\ pass' = [p \in Passes |-> NoPass]
          /\ UNCHANGED <<row, sess, asking, inbox, quiet, loose, launched>>
      BY <1>10 DEF Crash, history
    <2>2. left' \in [Bounded -> Nat] /\ left'["starts"] <= left["starts"]
          /\ slipped' \in Nat
      BY <1>0, <1>10, Slipped DEF Crash
    <2>3. RunsTyped'
      <3>1. \A r \in Runs : run'[r] \in Run
                            /\ run'[r].session \in {run[r].session, None}
                            /\ (run'[r].session = None => run[r].session = None
                                                          \/ run'[r].pc = "idle")
                            /\ (run'[r].pc # "idle" => run[r].pc # "idle")
        BY <1>0, <2>1 DEF Run, NoRun, Executing
      <3>2. run' \in [Runs -> Run]
        BY <2>1, <3>1
      <3> QED BY <1>0, <1>3, <2>1, <3>1, <3>2 DEF RunsTyped, SessionOf
    <2>4. pass' \in [Passes -> Pass]
      BY <2>1 DEF Pass, NoPass
    <2> QED BY <1>0, <1>1, <1>3, <2>1, <2>2, <2>3, <2>4
  <1>11. CASE Tick \/ NameStranded
    <2>1. /\ UNCHANGED <<sess, asking, inbox, run, pass, loose, launched>>
          /\ UNCHANGED bounds
          /\ quiet' \in BOOLEAN
          /\ UNCHANGED row \/ row' = [row EXCEPT !.named = TRUE]
      BY <1>11 DEF Tick, NameStranded, Write, history
    <2>2. row' \in Row
      BY <1>0, <2>1, RowWritten
    <2> QED BY <1>0, <1>1, <1>2, <1>3, <1>4, <1>5, <2>1, <2>2
  <1> QED BY <1>8, <1>9, <1>10, <1>11

LEMMA PassMoved ==
    ASSUME TypeOK, NEW p \in Passes, NEW at \in {"idle", "stop", "launch", "record"},
           NEW s \in {None} \union Sessions, PassTo(p, at, s)
    PROVE  /\ pass' \in [Passes -> Pass]
           /\ pass'[p] = [at |-> at, session |-> s]
           /\ \A q \in Passes : q # p => pass'[q] = pass[q]
  BY DEF TypeOK, PassTo, Pass

\* The sweep.
LEMMA SweepTyped ==
    ASSUME Typed, NEW p \in Passes, Sweep(p)
    PROVE  Typed'
  <1>0. /\ row \in Row /\ run \in [Runs -> Run] /\ inbox \subseteq Event
        /\ sess \in [Sessions -> Session] /\ quiet \in BOOLEAN /\ loose \in BOOLEAN
        /\ launched \in [Sessions -> Nat] /\ left \in [Bounded -> Nat]
        /\ slipped \in Nat /\ asking \in Request /\ pass[p] \in Pass
        /\ TypeOK
    BY DEF Typed, TypeOK
  <1>a. "starts" \in Bounded
    BY DEF Bounded
  <1> DEFINE Counted == /\ left' \in [Bounded -> Nat]
                        /\ left'["starts"] <= left["starts"]
                        /\ slipped' \in Nat
  <1>1. ASSUME row' \in Row, quiet' \in BOOLEAN, loose' \in BOOLEAN,
               sess' \in [Sessions -> Session], Opened' = Opened,
               asking' = asking, inbox' \subseteq Event,
               \A e \in inbox' : e.session \in Opened,
               run' \in [Runs -> Run],
               \A r \in Runs : run'[r].pc # "idle" =>
                                 /\ run[r].pc # "idle"
                                 /\ run'[r].session = run[r].session,
               launched' \in [Sessions -> Nat], Counted,
               pass' \in [Passes -> Pass],
               \A q \in Passes : pass'[q].at # "idle" => pass'[q].session \in Opened
        PROVE  Typed'
    <2>1. TypeOK'
      BY <1>0, <1>1 DEF TypeOK
    <2>2. left'["starts"] \in Nat
      BY <1>1, <1>a
    <2> QED BY <1>1, <2>1, <2>2, CountKept DEF Typed, Opening, SessionOf, InFlight
  <1>2. UNCHANGED bounds => Counted
    BY <1>0, <1>a DEF bounds
  <1>3. UNCHANGED sess => sess' \in [Sessions -> Session] /\ Opened' = Opened
    BY <1>0 DEF Opened
  <1>4. \A e \in inbox : e.session \in Opened
    BY DEF Typed, Opening
  <1>5. \A q \in Passes : pass[q].at # "idle" => pass[q].session \in Opened
                                                /\ pass[q].session \in Sessions
    BY OpenedIsFinite DEF Typed, Opening, InFlight
  <1>6. LiveSession \in Opened \union {None} /\ LiveSession \in Sessions \union {None}
    BY LiveIsOpened
  <1>7. Busy \in BOOLEAN
    BY DEF Busy
  <1>8. ASSUME NEW at \in {"stop", "launch", "record"}, NEW s \in Opened, PassTo(p, at, s)
        PROVE  /\ pass' \in [Passes -> Pass]
               /\ \A q \in Passes : pass'[q].at # "idle" => pass'[q].session \in Opened
    <2>1. s \in Sessions
      BY OpenedIsFinite
    <2>2. /\ pass' \in [Passes -> Pass]
          /\ pass'[p] = [at |-> at, session |-> s]
          /\ \A q \in Passes : q # p => pass'[q] = pass[q]
      BY <1>0, <1>8, <2>1, PassMoved
    <2> QED BY <1>5, <2>2
  <1>9. ASSUME PassTo(p, "idle", None)
        PROVE  /\ pass' \in [Passes -> Pass]
               /\ \A q \in Passes : pass'[q].at # "idle" => pass'[q].session \in Opened
    <2>1. /\ pass' \in [Passes -> Pass]
          /\ pass'[p] = [at |-> "idle", session |-> None]
          /\ \A q \in Passes : q # p => pass'[q] = pass[q]
      BY <1>0, <1>9, PassMoved DEF None
    <2>2. \A q \in Passes : pass'[q].at # "idle" => q # p
      BY <2>1
    <2> QED BY <1>5, <2>1, <2>2
  <1>10. ASSUME Launch(p), pass[p].session \in Opened, pass[p].session \in Sessions
         PROVE  /\ inbox' \subseteq Event
                /\ \A e \in inbox' : e.session \in Opened
                /\ launched' \in [Sessions -> Nat]
    <2>1. [decided |-> FALSE, session |-> pass[p].session, by |-> p] \in Event
      BY <1>10 DEF Event
    <2>2. inbox' = inbox \union {[decided |-> FALSE, session |-> pass[p].session,
                                  by |-> p]}
      BY <1>10 DEF Launch, Sent
    <2>3. launched' = [launched EXCEPT ![pass[p].session] = @ + 1]
      BY <1>10 DEF Launch
    <2>4. launched' \in [Sessions -> Nat]
      BY <1>0, <1>10, <2>3
    <2>5. \A e \in inbox' : e.session \in Opened
      BY <1>4, <1>10, <2>2
    <2> QED BY <1>0, <2>1, <2>2, <2>4, <2>5
  <1>11. ASSUME Cancel
         PROVE  /\ inbox' \subseteq Event /\ run' \in [Runs -> Run]
                /\ \A e \in inbox' : e.session \in Opened
                /\ \A r \in Runs : run'[r].pc # "idle" =>
                                 /\ run[r].pc # "idle"
                                 /\ run'[r].session = run[r].session
    <2>1. inbox' = {} /\ \A r \in Runs : run'[r] = IF run[r].pc \in Executing
                                    THEN [run[r] EXCEPT !.stopped = TRUE]
                                    ELSE NoRun
      BY <1>11 DEF Cancel
    <2> QED BY <1>0, <1>11, <2>1, Cancelled DEF Run, NoRun
  <1>12. CASE Reclaim(p)
    <2>1. Counted
      BY <1>0, <1>2, <1>12, Slipped DEF Reclaim, Begin
    <2>2. UNCHANGED <<asking, inbox, run, launched>>
      BY <1>12 DEF Reclaim
    <2>3. CASE RecordFinished /\ UNCHANGED <<pass, loose>>
      <3>1. row' \in Row /\ quiet' = FALSE
        BY <1>0, <2>3, RowWritten DEF RecordFinished, Write
      <3>2. sess' \in [Sessions -> Session] /\ Opened' = Opened
        <4>1. CASE LiveSession = None
          BY <1>3, <2>3, <4>1 DEF RecordFinished
        <4>2. CASE LiveSession # None
          BY <1>0, <1>6, <2>3, <4>2, SessionLogged DEF RecordFinished
        <4> QED BY <4>1, <4>2
      <3> QED BY <1>0, <1>1, <1>4, <1>5, <2>1, <2>2, <2>3, <3>1, <3>2 DEF TypeOK
    <2>4. CASE /\ ~SaysItFinished /\ MayRelaunch
               /\ PassTo(p, "stop", LiveSession)
               /\ loose' = (loose \/ asking # NoRequest)
               /\ UNCHANGED <<row, sess, quiet>>
      <3>1. LiveSession \in Opened
        BY <1>6, <2>4 DEF MayRelaunch
      <3> QED BY <1>0, <1>1, <1>3, <1>4, <1>8, <2>1, <2>2, <2>4, <3>1
    <2>5. CASE /\ ~SaysItFinished /\ ~MayRelaunch
               /\ File(LiveSession)
               /\ loose' = (loose \/ Busy)
               /\ UNCHANGED <<pass>>
      BY <1>0, <1>1, <1>4, <1>5, <1>6, <1>7, <2>1, <2>2, <2>5, Filed DEF TypeOK
    <2> QED BY <1>12, <2>3, <2>4, <2>5 DEF Reclaim
  <1>13. CASE SendStop(p)
    <2>1. /\ pass[p].at = "stop" /\ Cancel /\ PassTo(p, "launch", pass[p].session)
          /\ UNCHANGED <<row, sess, asking, quiet, launched>> /\ UNCHANGED bounds
          /\ loose' \in BOOLEAN
      BY <1>0, <1>13 DEF SendStop, InFlight
    <2> QED BY <1>0, <1>1, <1>2, <1>3, <1>5, <1>8, <1>11, <2>1
  <1>14. CASE SendLaunch(p)
    <2>1. /\ pass[p].at = "launch" /\ Launch(p)
          /\ PassTo(p, "record", pass[p].session)
          /\ UNCHANGED <<row, sess, asking, run, quiet, loose>> /\ UNCHANGED bounds
      BY <1>14 DEF SendLaunch
    <2> QED BY <1>0, <1>1, <1>2, <1>3, <1>5, <1>8, <1>10, <2>1
  <1>15. CASE Record(p)
    <2>1. /\ pass[p].at = "record"
          /\ sess' = [sess EXCEPT ![pass[p].session].spent = @ + 1]
          /\ row' = [row EXCEPT !.state = "running", !.named = FALSE]
          /\ quiet' = FALSE /\ PassTo(p, "idle", None) /\ loose' \in BOOLEAN
          /\ UNCHANGED <<asking, inbox, run, launched>> /\ UNCHANGED bounds
      BY <1>0, <1>15 DEF Record, Write
    <2>2. sess' \in [Sessions -> Session] /\ Opened' = Opened
      BY <1>0, <1>5, <2>1, SpentLogged
    <2>3. row' \in Row
      BY <1>0, <2>1, RowWritten
    <2> QED BY <1>0, <1>1, <1>2, <1>4, <1>9, <2>1, <2>2, <2>3
  <1>16. CASE Refused(p)
    <2>1. /\ pass[p].at \in {"stop", "launch"} /\ Slip
          /\ \/ Cancel /\ UNCHANGED launched
             \/ Launch(p) /\ UNCHANGED run
             \/ UNCHANGED <<inbox, run, launched>>
          /\ File(pass[p].session) /\ PassTo(p, "idle", None)
          /\ loose' = TRUE /\ asking' = asking
      BY <1>16 DEF Refused
    <2>2. pass[p].session \in Opened /\ pass[p].session \in Sessions
      BY <1>5, <2>1
    <2>3. /\ row' \in Row /\ quiet' = FALSE
          /\ sess' \in [Sessions -> Session] /\ Opened' = Opened
      BY <1>0, <2>1, <2>2, Filed
    <2>4. Counted
      BY <1>0, <2>1, Slipped
    <2>5. CASE Cancel /\ UNCHANGED launched
      BY <1>0, <1>1, <1>9, <1>11, <2>1, <2>3, <2>4, <2>5
    <2>6. CASE Launch(p) /\ UNCHANGED run
      BY <1>0, <1>1, <1>9, <1>10, <2>1, <2>2, <2>3, <2>4, <2>6
    <2>7. CASE UNCHANGED <<inbox, run, launched>>
      BY <1>0, <1>1, <1>4, <1>9, <2>1, <2>3, <2>4, <2>7
    <2> QED BY <2>1, <2>5, <2>6, <2>7
  <1> QED BY <1>12, <1>13, <1>14, <1>15, <1>16 DEF Sweep

LEMMA StepTyped == Typed /\ [Next]_vars => Typed'
  <1> SUFFICES ASSUME Typed, [Next]_vars PROVE Typed'
    OBVIOUS
  <1>1. CASE UNCHANGED vars
    BY <1>1 DEF Typed, TypeOK, Opening, Opened, InFlight, SessionOf, vars,
                history, bounds
  <1> QED BY <1>1, WebTyped, RunTyped, SweepTyped DEF Next

LEMMA AlwaysTyped == Spec => []Typed
  <1> QED BY InitTyped, StepTyped, PTL DEF Spec

\* Every reachable state is one the program's types allow: what a request, an
\* event, a run or a pass of the sweep names is a Session there is.
THEOREM Typing == Spec => []TypeOK
  <1>1. Typed => TypeOK
    BY DEF Typed
  <1> QED BY <1>1, AlwaysTyped, PTL

-----------------------------------------------------------------------------
(* One at a time.                                                          *)

\* Under a row that can be trusted at most one launch is under way, and none
\* unless the Task reads running.
Single == \A x, y \in Under : x = y
Solo == ~loose => /\ Single
                  /\ row.state # "running" => Under = {}

LEMMA UnderEnds ==
    ASSUME asking' \in {asking, NoRequest}, inbox' \subseteq inbox,
           \A r \in Runs : AtWork(r)' => AtWork(r),
           \A p \in Passes : pass'[p].at = "launch" => pass[p].at = "launch"
    PROVE  Under' \subseteq Under
  <1>1. {asking'} \ {NoRequest} \subseteq {asking} \ {NoRequest}
    OBVIOUS
  <1> QED BY <1>1 DEF Under

\* A step that adds nothing, and leaves the row running or ends the launch.
LEMMA SoloKept ==
    ASSUME Solo, Under' \subseteq Under, loose' = loose,
           row'.state \in {row.state, "running"} \/ Under' = {}
    PROVE  Solo'
  BY DEF Solo, Single

\* A step that makes one launch out of another, with the row left alone.
LEMMA SoloPassedOn ==
    ASSUME Solo, NEW x \in Under, NEW y, Under' \subseteq (Under \ {x}) \union {y},
           loose' = loose, row' = row
    PROVE  Solo'
  BY DEF Solo, Single

\* A step that begins the only one.
LEMMA SoloBegun ==
    ASSUME ~loose' => \E y : Under' \subseteq {y}, row'.state = "running"
    PROVE  Solo'
  BY DEF Solo, Single

LEMMA UnderWays ==
    /\ asking # NoRequest => <<"request", asking>> \in Under
    /\ \A e \in inbox : <<"event", e>> \in Under
    /\ \A r \in Runs : AtWork(r) => <<"run", r>> \in Under
    /\ \A p \in Passes : pass[p].at = "launch" => <<"pass", p>> \in Under
  BY DEF Under

LEMMA NothingUnder ==
    ASSUME Under = {}
    PROVE  /\ asking = NoRequest /\ inbox = {}
           /\ \A r \in Runs : ~AtWork(r)
           /\ \A p \in Passes : pass[p].at # "launch"
  BY UnderWays

LEMMA WebAlone ==
    ASSUME Typed, Solo, Person \/ Answer
    PROVE  Solo'
  <1>1. CASE Start \/ Decide
    <2>1. /\ asking = NoRequest /\ UNCHANGED <<inbox, run, pass>>
          /\ row'.state = "running" /\ loose' = Busy
      BY <1>1, RowClaimed DEF Typed, Start, Decide
    <2>2. ASSUME ~loose' PROVE Under' \subseteq {<<"request", asking'>>}
      <3>1. /\ inbox' = {} /\ \A r \in Runs : ~AtWork(r)'
            /\ \A p \in Passes : pass'[p].at # "launch"
        BY <2>1, <2>2, NothingUnder DEF Busy, AtWork
      <3> QED BY <3>1 DEF Under
    <2> QED BY <2>1, <2>2, SoloBegun
  <1>2. CASE Move
    <2>1. UNCHANGED <<asking, inbox, run, pass>> /\ loose' = (loose \/ Busy)
      BY <1>2 DEF Move
    <2>2. Under' = Under
      BY <2>1 DEF Under, AtWork
    <2> QED BY <2>1, <2>2 DEF Solo, Single, Busy
  <1>3. CASE OpenSession
    <2>1. /\ asking # NoRequest /\ UNCHANGED <<row, inbox, run, pass, loose>>
      BY <1>3 DEF OpenSession, NoRequest, history
    <2>2. Under' \subseteq (Under \ {<<"request", asking>>})
                             \union {<<"request", asking'>>}
      BY <2>1 DEF Under, AtWork
    <2> QED BY <2>1, <2>2, UnderWays, SoloPassedOn
  <1>4. CASE SendEvent
    <2>1. PICK e : inbox' = inbox \union {e}
      BY <1>4 DEF SendEvent, Sent
    <2>2. /\ asking # NoRequest /\ asking' = NoRequest
          /\ UNCHANGED <<row, run, pass, loose>>
      BY <1>4 DEF SendEvent, NoRequest, history
    <2>3. Under' \subseteq (Under \ {<<"request", asking>>})
                             \union {<<"event", e>>}
      BY <2>1, <2>2 DEF Under, AtWork
    <2> QED BY <2>2, <2>3, UnderWays, SoloPassedOn
  <1>5. CASE DieInRequest
    <2>1. /\ asking' = NoRequest /\ UNCHANGED <<row, inbox, run, pass, loose>>
      BY <1>5 DEF DieInRequest
    <2> QED BY <2>1, UnderEnds, SoloKept DEF AtWork
  <1> QED BY <1>1, <1>2, <1>3, <1>4, <1>5 DEF Person, Answer

\* What a step of one run does to the launches under way.
LEMMA OneRunMoves ==
    ASSUME Typed, NEW r \in Runs, UNCHANGED <<asking, inbox, pass>>,
           \/ Leave(r)
           \/ AtWork(r) /\ \E pc : To(r, pc)
           \/ run' = [run EXCEPT ![r].stopped = TRUE]
    PROVE  Under' \subseteq Under
  <1>1. run \in [Runs -> Run]
    BY DEF Typed, TypeOK
  <1>2. \A q \in Runs : AtWork(q)' => AtWork(q)
    <2>1. CASE Leave(r)
      BY <1>1, <2>1 DEF Leave, NoRun, AtWork, Executing
    <2>2. CASE AtWork(r) /\ \E pc : To(r, pc)
      BY <1>1, <2>2 DEF To, AtWork, Run
    <2>3. CASE run' = [run EXCEPT ![r].stopped = TRUE]
      BY <1>1, <2>3 DEF AtWork, Run
    <2> QED BY <2>1, <2>2, <2>3
  <1> QED BY <1>2, UnderEnds

\* A run that leaves, or falls asleep, takes the only launch with it.
LEMMA OneRunLeaves ==
    ASSUME Typed, Single, NEW r \in Runs, AtWork(r),
           UNCHANGED <<asking, inbox, pass>>,
           Leave(r) \/ To(r, "asleep")
    PROVE  Under' = {}
  <1>1. run \in [Runs -> Run]
    BY DEF Typed, TypeOK
  <1>2. Under = {<<"run", r>>}
    <2>1. <<"run", r>> \in Under
      BY UnderWays
    <2>2. \A x \in Under : x = <<"run", r>>
      BY <2>1, Zenon DEF Single
    <2> QED BY <2>1, <2>2
  <1>3. Under' \subseteq Under
    BY OneRunMoves
  <1>4. ~AtWork(r)'
    BY <1>1 DEF Leave, To, NoRun, AtWork, Executing, Run
  <1>5. <<"run", r>> \notin Under'
    BY <1>4 DEF Under
  <1> QED BY <1>2, <1>3, <1>5

LEMMA RunsAlone ==
    ASSUME Typed, Solo, NEW r \in Runs, RunStep(r)
    PROVE  Solo'
  <1>0. run \in [Runs -> Run] /\ inbox \subseteq Event /\ row \in Row
    BY DEF Typed, TypeOK
  <1>1. CASE StartRun(r)
    <2>1. PICK e \in inbox :
            /\ inbox' = inbox \ {e}
            /\ run' = [run EXCEPT
                         ![r] = [pc |-> IF e.decided THEN "deciding"
                                                     ELSE "preparing",
                                 session |-> e.session, stopped |-> FALSE]]
      BY <1>1 DEF StartRun
    <2>2. UNCHANGED <<row, asking, pass, loose>>
      BY <1>1 DEF StartRun, history
    <2>3. \A q \in Runs : q # r => run'[q] = run[q]
      BY <2>1
    <2>4. Under' \subseteq (Under \ {<<"event", e>>}) \union {<<"run", r>>}
      BY <2>1, <2>2, <2>3 DEF Under, AtWork
    <2> QED BY <2>1, <2>2, <2>4, UnderWays, SoloPassedOn
  <1>2. CASE Apply(r)
    <2>1. /\ AtWork(r) /\ UNCHANGED <<asking, inbox, pass, loose>>
          /\ \/ row' = [row EXCEPT !.state = "running", !.finished = FALSE]
                /\ To(r, "preparing")
             \/ Leave(r)
      BY <1>2 DEF Apply, Write, history
    <2>2. CASE row' = [row EXCEPT !.state = "running", !.finished = FALSE]
               /\ To(r, "preparing")
      BY <1>0, <2>1, <2>2, OneRunMoves, SoloKept DEF Row
    <2>3. CASE Leave(r)
      BY <2>1, <2>3, OneRunLeaves DEF Solo, Single
    <2> QED BY <2>1, <2>2, <2>3
  <1>3. CASE BeginRound(r) \/ AnotherRound(r)
    <2>1. /\ AtWork(r) /\ UNCHANGED <<row, asking, inbox, pass, loose>>
          /\ To(r, "preparing") \/ To(r, "working")
      BY <1>3 DEF BeginRound, AnotherRound, history
    <2> QED BY <2>1, OneRunMoves, SoloKept
  <1>4. CASE EndRound(r)
    <2>1. /\ UNCHANGED <<row, asking, inbox, pass, loose>>
          /\ \/ Leave(r)
             \/ AtWork(r) /\ \E pc : To(r, pc)
      BY <1>4 DEF EndRound, AtWork, Executing, history
    <2> QED BY <2>1, OneRunMoves, SoloKept
  <1>5. CASE ToReview(r)
    <2>1. /\ AtWork(r) /\ UNCHANGED <<asking, inbox, pass, loose>>
          /\ row' = [row EXCEPT !.finished = TRUE] /\ To(r, "reported")
      BY <1>5 DEF ToReview, Write, history
    <2>2. row'.state = row.state
      BY <1>0, <2>1 DEF Row
    <2> QED BY <2>1, <2>2, OneRunMoves, SoloKept
  <1>6. CASE NextStep(r)
    <2>1. /\ AtWork(r) /\ UNCHANGED <<asking, inbox, pass, loose>>
          /\ row' = [row EXCEPT !.finished = FALSE,
                        !.state = IF @ = "review" THEN "running" ELSE @]
          /\ To(r, "preparing")
      BY <1>6 DEF NextStep, Write, history
    <2>2. row'.state \in {row.state, "running"}
      BY <1>0, <2>1 DEF Row
    <2> QED BY <2>1, <2>2, OneRunMoves, SoloKept
  <1>7. CASE OpenGate(r) \/ Fail(r)
    <2>1. /\ AtWork(r) /\ UNCHANGED <<asking, inbox, pass, loose>> /\ Leave(r)
      BY <1>7 DEF OpenGate, Fail, history
    <2> QED BY <2>1, OneRunLeaves DEF Solo, Single
  <1>8. CASE Park(r)
    <2>1. /\ AtWork(r) /\ UNCHANGED <<asking, inbox, pass, loose>>
          /\ To(r, "asleep")
      BY <1>8 DEF Park, history
    <2> QED BY <2>1, OneRunLeaves DEF Solo, Single
  <1>9. CASE Wake(r)
    <2>1. UNCHANGED <<asking, inbox, pass>>
      BY <1>9 DEF Wake
    <2>2. CASE ClaimRow({"parked"}) /\ To(r, "preparing")
      <3>1. row'.state = "running" /\ loose' = Busy
        BY <2>2, RowClaimed DEF Typed
      <3>2. ASSUME ~loose' PROVE Under' \subseteq {<<"run", r>>}
        <4>1. asking = NoRequest /\ inbox = {} /\ (\A q \in Runs : ~AtWork(q))
              /\ \A p \in Passes : pass[p].at # "launch"
          BY <3>1, <3>2, NothingUnder DEF Busy
        <4>2. \A q \in Runs : q # r => ~AtWork(q)'
          BY <1>0, <2>2, <4>1 DEF To, AtWork
        <4> QED BY <2>1, <4>1, <4>2 DEF Under
      <3> QED BY <3>1, <3>2, SoloBegun
    <2>3. CASE row' = [row EXCEPT !.named = FALSE] /\ UNCHANGED <<run, loose>>
      <3>1. row'.state = row.state
        BY <1>0, <2>3 DEF Row
      <3>2. Under' = Under
        BY <2>1, <2>3 DEF Under, AtWork
      <3> QED BY <2>3, <3>1, <3>2, SoloKept
    <2>4. CASE Leave(r) /\ UNCHANGED <<row, loose>>
      BY <2>1, <2>4, OneRunMoves, SoloKept
    <2> QED BY <1>9, <2>2, <2>3, <2>4 DEF Wake, Write
  <1>10. CASE Unwind(r)
    <2>1. UNCHANGED <<row, asking, inbox, pass, loose>> /\ Leave(r)
      BY <1>10 DEF Unwind, history
    <2> QED BY <2>1, OneRunMoves, SoloKept
  <1> QED BY <1>1, <1>2, <1>3, <1>4, <1>5, <1>6, <1>7, <1>8, <1>9, <1>10 DEF RunStep

LEMMA FaultsAlone ==
    ASSUME Typed, Solo, Lose \/ Crash \/ Tick \/ NameStranded \/ UNCHANGED vars
    PROVE  Solo'
  <1>0. run \in [Runs -> Run] /\ row \in Row
    BY DEF Typed, TypeOK
  <1>1. CASE Lose
    <2>1. UNCHANGED <<row, asking, pass, loose>>
      BY <1>1 DEF Lose, history
    <2>2. CASE inbox' \subseteq inbox /\ UNCHANGED run
      BY <2>1, <2>2, UnderEnds, SoloKept DEF AtWork
    <2>3. CASE UNCHANGED inbox /\ \E r \in Runs : run' = [run EXCEPT ![r].stopped = TRUE]
                                                \/ Leave(r)
      BY <2>1, <2>3, OneRunMoves, SoloKept
    <2> QED BY <1>1, <2>2, <2>3 DEF Lose
  <1>2. CASE Crash
    <2>1. /\ UNCHANGED <<row, asking, inbox, loose>>
          /\ run' = [r \in Runs |->
                       IF run[r].stopped THEN NoRun
                       ELSE IF run[r].pc = "working"
                            THEN [run[r] EXCEPT !.pc = "preparing"]
                            ELSE run[r]]
          /\ pass' = [p \in Passes |-> NoPass]
      BY <1>2 DEF Crash, history
    <2>2. \A r \in Runs : AtWork(r)' => AtWork(r)
      BY <1>0, <2>1 DEF AtWork, Executing, NoRun, Run
    <2> QED BY <2>1, <2>2, UnderEnds, SoloKept DEF NoPass
  <1>3. CASE Tick \/ NameStranded \/ UNCHANGED vars
    <2>1. UNCHANGED <<asking, inbox, run, pass, loose>>
          /\ (row' = row \/ row' = [row EXCEPT !.named = TRUE])
      BY <1>3 DEF Tick, NameStranded, Write, vars, history
    <2>2. row'.state = row.state
      BY <1>0, <2>1 DEF Row
    <2>3. Under' = Under
      BY <2>1 DEF Under, AtWork
    <2> QED BY <2>1, <2>2, <2>3, SoloKept
  <1> QED BY <1>1, <1>2, <1>3

LEMMA SweepAlone ==
    ASSUME Typed, Solo, NEW p \in Passes, Sweep(p)
    PROVE  Solo'
  <1>0. /\ run \in [Runs -> Run] /\ row \in Row /\ pass \in [Passes -> Pass]
        /\ inbox \subseteq Event
    BY DEF Typed, TypeOK
  <1>1. CASE Reclaim(p)
    <2>1. UNCHANGED <<asking, inbox, run>> /\ row.state = "running"
      BY <1>1 DEF Reclaim, Judged
    <2>2. CASE RecordFinished /\ UNCHANGED <<pass, loose>>
      <3>1. row'.state = row.state
        BY <1>0, <2>2 DEF RecordFinished, Write, Row
      <3>2. Under' = Under
        BY <2>1, <2>2 DEF Under, AtWork
      <3> QED BY <2>2, <3>1, <3>2, SoloKept
    <2>3. CASE /\ PassTo(p, "stop", LiveSession)
               /\ loose' = (loose \/ asking # NoRequest)
               /\ UNCHANGED row
      <3>1. \A q \in Passes : pass'[q].at = "launch" => pass[q].at = "launch"
        BY <1>0, <2>3 DEF PassTo
      <3>2. Under' \subseteq Under
        BY <2>1, <3>1, UnderEnds DEF AtWork
      <3> QED BY <2>1, <2>3, <3>2 DEF Solo, Single
    <2>4. CASE loose' = (loose \/ Busy) /\ UNCHANGED pass
      <3>1. Under' = Under
        BY <2>1, <2>4 DEF Under, AtWork
      <3> QED BY <2>4, <3>1 DEF Solo, Single, Busy
    <2> QED BY <1>1, <2>2, <2>3, <2>4 DEF Reclaim
  <1>2. CASE SendStop(p)
    <2>1. /\ Cancel /\ PassTo(p, "launch", pass[p].session)
          /\ UNCHANGED <<row, asking>>
          /\ loose' = (loose \/ row.state # "running" \/ asking # NoRequest
                             \/ \E q \in Passes \ {p} : InFlight(q))
      BY <1>2 DEF SendStop
    <2>2. inbox' = {} /\ \A r \in Runs : ~AtWork(r)'
      BY <1>0, <2>1 DEF Cancel, AtWork, NoRun, Executing, Run
    <2>3. \A q \in Passes \ {p} : pass'[q] = pass[q]
      BY <1>0, <2>1 DEF PassTo
    <2>4. ASSUME ~loose' PROVE Under' \subseteq {<<"pass", p>>}
      <3>1. \A q \in Passes : pass'[q].at = "launch" => q = p
        BY <2>1, <2>3, <2>4 DEF InFlight
      <3>2. asking' = NoRequest
        BY <2>1, <2>4
      <3> QED BY <2>2, <3>1, <3>2 DEF Under
    <2>5. CASE row.state = "running"
      BY <2>1, <2>4, <2>5, SoloBegun
    <2>6. CASE row.state # "running"
      BY <2>1, <2>6 DEF Solo
    <2> QED BY <2>5, <2>6
  <1>3. CASE SendLaunch(p)
    <2>1. PICK e : inbox' = inbox \union {e}
      BY <1>3 DEF SendLaunch, Launch, Sent
    <2>2. /\ pass[p].at = "launch" /\ PassTo(p, "record", pass[p].session)
          /\ UNCHANGED <<row, asking, run, loose>>
      BY <1>3 DEF SendLaunch
    <2>3. \A q \in Passes : pass'[q].at = "launch" => q # p /\ pass[q].at = "launch"
      BY <1>0, <2>2 DEF PassTo
    <2>4. Under' \subseteq (Under \ {<<"pass", p>>}) \union {<<"event", e>>}
      BY <2>1, <2>2, <2>3 DEF Under, AtWork
    <2> QED BY <2>2, <2>4, UnderWays, SoloPassedOn
  <1>4. CASE Record(p)
    <2>1. /\ UNCHANGED <<asking, inbox, run>> /\ PassTo(p, "idle", None)
          /\ row'.state = "running" /\ loose' = (loose \/ row.state # "running")
      BY <1>0, <1>4 DEF Record, Write, Row
    <2>2. \A q \in Passes : pass'[q].at = "launch" => pass[q].at = "launch"
      BY <1>0, <2>1 DEF PassTo
    <2>3. Under' \subseteq Under
      BY <2>1, <2>2, UnderEnds DEF AtWork
    <2> QED BY <2>1, <2>3 DEF Solo, Single
  <1>5. CASE Refused(p)
    BY <1>5 DEF Refused, Solo
  <1> QED BY <1>1, <1>2, <1>3, <1>4, <1>5 DEF Sweep

LEMMA AlwaysSolo == Spec => [](Typed /\ Solo)
  <1>1. Init => Solo
    BY DEF Init, Solo, Single, Under, AtWork, Executing, NoRun, NoPass
  <1>2. Typed /\ Solo /\ [Next]_vars => Solo'
    BY WebAlone, RunsAlone, FaultsAlone, SweepAlone DEF Next
  <1> QED BY <1>1, <1>2, InitTyped, StepTyped, PTL DEF Spec

\* A harness is never put beside another: while the row can be trusted, at most
\* one launch of the Task is under way, from the claim to the end of its run.
THEOREM OneLaunch == Spec => []OneAtATime
  <1>1. Solo => OneAtATime
    BY DEF Solo, Single, OneAtATime
  <1> QED BY <1>1, AlwaysSolo, PTL

-----------------------------------------------------------------------------
(* The verdict on a sleep.                                                 *)

LEMMA VerdictKept ==
    ASSUME VerdictLeavesWithThePark,
           \/ loose' /\ loose' = TRUE
           \/ row'.named = FALSE
           \/ row'.state \in {"parked", "failed"}
           \/ row'.state = row.state /\ row'.named = row.named /\ loose' = loose
    PROVE  VerdictLeavesWithThePark'
  BY DEF VerdictLeavesWithThePark

\* Where a run works under a row that can be trusted, the Task reads running.
LEMMA WorkingReadsRunning ==
    ASSUME Solo, VerdictLeavesWithThePark, NEW r \in Runs, AtWork(r), ~loose
    PROVE  row.state = "running" /\ ~row.named
  BY UnderWays DEF Solo, VerdictLeavesWithThePark

LEMMA VerdictStep ==
    ASSUME Typed, Solo, VerdictLeavesWithThePark, [Next]_vars
    PROVE  VerdictLeavesWithThePark'
  <1>0. row \in Row /\ TypeOK
    BY DEF Typed, TypeOK
  <1>1. CASE Start \/ Decide
    BY <1>0, <1>1, RowClaimed, VerdictKept DEF Start, Decide
  <1>2. CASE Move
    <2>1. PICK move \in Moves :
             row' = [row EXCEPT !.state = move[2],
                                !.finished = @ /\ move[2] # "ready",
                                !.named = @ /\ move[2] = "failed"]
      BY <1>2 DEF Move, Write
    <2>2. row'.state = move[2] /\ row'.named = (row.named /\ move[2] = "failed")
      BY <1>0, <2>1 DEF Row
    <2> QED BY <2>2 DEF VerdictLeavesWithThePark
  <1>3. ASSUME NEW r \in Runs, RunStep(r) PROVE VerdictLeavesWithThePark'
    <2>1. CASE \/ StartRun(r) \/ BeginRound(r) \/ EndRound(r) \/ AnotherRound(r)
               \/ Unwind(r)
      BY <2>1, VerdictKept
         DEF StartRun, BeginRound, EndRound, AnotherRound, Unwind, history
    <2>2. CASE Apply(r)
      <3>1. AtWork(r) /\ loose' = loose
        BY <2>2 DEF Apply, history
      <3>2. row'.named = row.named
        BY <1>0, <2>2 DEF Apply, Write, Row
      <3> QED BY <3>1, <3>2, WorkingReadsRunning DEF VerdictLeavesWithThePark
    <2>3. CASE ToReview(r)
      BY <1>0, <2>3, VerdictKept DEF ToReview, Write, Row, history
    <2>4. CASE NextStep(r)
      <3>1. AtWork(r) /\ loose' = loose
        BY <2>4 DEF NextStep, history
      <3>2. row'.named = row.named
        BY <1>0, <2>4 DEF NextStep, Write, Row
      <3> QED BY <3>1, <3>2, WorkingReadsRunning DEF VerdictLeavesWithThePark
    <2>5. CASE OpenGate(r) \/ Fail(r) \/ Park(r)
      <3>1. loose' = loose /\ (row' = row \/ row'.named = FALSE)
        BY <1>0, <2>5 DEF OpenGate, Fail, Park, Write, Row, history
      <3> QED BY <3>1, VerdictKept
    <2>6. CASE Wake(r)
      <3>1. CASE ClaimRow({"parked"})
        BY <1>0, <3>1, RowClaimed, VerdictKept
      <3>2. CASE row' = [row EXCEPT !.named = FALSE]
        BY <1>0, <3>2, VerdictKept DEF Row
      <3>3. CASE UNCHANGED <<row, loose>>
        BY <3>3, VerdictKept
      <3> QED BY <2>6, <3>1, <3>2, <3>3 DEF Wake, Write
    <2> QED BY <1>3, <2>1, <2>2, <2>3, <2>4, <2>5, <2>6 DEF RunStep
  <1>4. ASSUME NEW p \in Passes, Sweep(p) PROVE VerdictLeavesWithThePark'
    <2>1. CASE \E s : File(s)
      BY <1>0, <2>1, Filed, VerdictKept
    <2>2. CASE RecordFinished /\ UNCHANGED loose
      BY <1>0, <2>2, VerdictKept DEF RecordFinished, Write, Row
    <2>3. CASE /\ row.state = "running" \/ SendStop(p)
               /\ UNCHANGED row /\ (loose => loose') /\ loose' \in BOOLEAN
      BY <2>3 DEF VerdictLeavesWithThePark
    <2>4. CASE SendLaunch(p)
      BY <2>4, VerdictKept DEF SendLaunch
    <2>5. CASE Record(p)
      <3>1. row'.named = FALSE
        BY <1>0, <2>5 DEF Record, Write, Row
      <3> QED BY <3>1, VerdictKept
    <2>6. CASE Reclaim(p)
      BY <2>1, <2>2, <2>3, <2>6 DEF Reclaim, Judged, Typed, TypeOK
    <2>7. CASE SendStop(p)
      BY <2>3, <2>7 DEF SendStop, Typed, TypeOK
    <2> QED BY <1>4, <2>1, <2>4, <2>5, <2>6, <2>7 DEF Sweep, Refused
  <1>5. CASE NameStranded
    <2>1. row'.state = "parked"
      BY <1>0, <1>5 DEF NameStranded, Write, Row
    <2> QED BY <2>1, VerdictKept
  <1>6. CASE \/ Answer \/ Lose \/ Crash \/ Tick \/ UNCHANGED vars
    BY <1>6, VerdictKept DEF Answer, OpenSession, SendEvent, DieInRequest, Lose,
                             Crash, Tick, vars, history
  <1> QED BY <1>1, <1>2, <1>3, <1>4, <1>5, <1>6 DEF Next, Person

\* The verdict park_never_resumed is about the sleep it was written for: no
\* Task that runs, or waits at its gate, carries it.
THEOREM VerdictIsOfThePark == Spec => []VerdictLeavesWithThePark
  <1>1. Init => VerdictLeavesWithThePark
    BY DEF Init, VerdictLeavesWithThePark
  <1> QED BY <1>1, VerdictStep, AlwaysSolo, PTL DEF Spec

-----------------------------------------------------------------------------
(* The budget.                                                             *)

\* The passes that are to launch a run in this Session, and those at it at all.
Pending(s) == {p \in Passes : pass[p].at \in {"stop", "launch"}
                                /\ pass[p].session = s}
Flying(s) == {p \in Passes : InFlight(p) /\ pass[p].session = s}
Due(s) == Cardinality(Pending(s))

\* Launches made and to be made keep to the budget. Each is recorded, was paid
\* for by a slip, or is the one that a pass under way is about to record.
Account(s) ==
    /\ launched[s] + Due(s) <= MaxRecoveries + slipped
    /\ launched[s] + Due(s)
         <= sess[s].spent + slipped + (IF Flying(s) = {} THEN 0 ELSE 1)
Accounts == \A s \in Sessions : Account(s)

LEMMA DueIsCounted ==
    ASSUME NEW s
    PROVE  IsFiniteSet(Pending(s)) /\ Due(s) \in Nat
  <1>1. Pending(s) \subseteq Passes
    BY DEF Pending
  <1> QED BY <1>1, FS_Subset, FS_CardinalityType DEF Due

LEMMA NothingSpent ==
    ASSUME TypeOK, NEW q, NEW state, Logged(q, state) \/ UNCHANGED sess
    PROVE  \A s \in Sessions : sess'[s].spent = sess[s].spent
  BY DEF TypeOK, Logged, Session

LEMMA FileSpends ==
    ASSUME TypeOK, NEW q, File(q)
    PROVE  \A s \in Sessions : sess'[s].spent = sess[s].spent
  BY NothingSpent DEF File

\* What no launch and no record is made by.
LEMMA AccountsKept ==
    ASSUME Typed, Accounts, UNCHANGED <<launched, pass>>,
           slipped' \in {slipped, slipped + 1},
           \A s \in Sessions : sess'[s].spent = sess[s].spent
    PROVE  Accounts'
  <1> SUFFICES ASSUME NEW s \in Sessions PROVE Account(s)'
    BY DEF Accounts
  <1>1. Due(s)' = Due(s) /\ Flying(s)' = Flying(s)
    <2>1. Pending(s)' = Pending(s) /\ Flying(s)' = Flying(s)
      BY DEF Pending, Flying, InFlight
    <2> QED BY <2>1 DEF Due
  <1>2. /\ Due(s) \in Nat /\ launched[s] \in Nat
        /\ slipped \in Nat /\ sess[s].spent \in Nat
    BY DueIsCounted DEF Typed, TypeOK, Session
  <1> QED BY <1>1, <1>2 DEF Accounts, Account

\* The steps that are not the sweep's.
LEMMA OthersAccount ==
    ASSUME Typed, Accounts,
           \/ Person \/ Answer \/ Lose \/ Tick \/ NameStranded \/ UNCHANGED vars
           \/ \E r \in Runs : RunStep(r)
    PROVE  Accounts'
  <1>0. TypeOK
    BY DEF Typed
  <1>1. CASE Person \/ Answer \/ Lose \/ Tick \/ NameStranded \/ UNCHANGED vars
    <2>1. /\ UNCHANGED <<launched, pass, slipped>>
          /\ UNCHANGED sess \/ Logged(asking.session, "open")
      BY <1>1 DEF Person, Start, Decide, Move, Answer, OpenSession, SendEvent,
                  DieInRequest, Lose, Tick, NameStranded, vars, history, bounds
    <2> QED BY <1>0, <2>1, NothingSpent, AccountsKept
  <1>2. ASSUME NEW r \in Runs, RunStep(r) PROVE Accounts'
    <2>1. UNCHANGED <<launched, pass, slipped>>
      BY <1>2 DEF RunStep, StartRun, Apply, BeginRound, EndRound, AnotherRound,
                  ToReview, NextStep, OpenGate, Fail, Park, Wake, Unwind,
                  history, bounds
    <2>2. \/ UNCHANGED sess
          \/ \E state : Logged(SessionOf(r), state)
          \/ \E said : sess' = [sess EXCEPT ![SessionOf(r)].said = said]
      BY <1>2 DEF RunStep, StartRun, Apply, BeginRound, EndRound, AnotherRound,
                  ToReview, NextStep, OpenGate, Fail, Park, Wake, Unwind, Append
    <2>3. \A s \in Sessions : sess'[s].spent = sess[s].spent
      <3>1. ASSUME NEW said, sess' = [sess EXCEPT ![SessionOf(r)].said = said]
            PROVE  \A s \in Sessions : sess'[s].spent = sess[s].spent
        BY <1>0, <3>1 DEF TypeOK, Session
      <3> QED BY <1>0, <2>2, <3>1, NothingSpent
    <2> QED BY <2>1, <2>3, AccountsKept
  <1> QED BY <1>1, <1>2

\* A pass goes from one point to another, all in one Session: what is due there
\* is one more, one less, or as it was.
LEMMA PendingMoves ==
    ASSUME Typed, NEW p \in Passes, NEW q \in Sessions,
           NEW at \in {"idle", "stop", "launch", "record"},
           \/ PassTo(p, at, q) /\ at # "idle"
              /\ (InFlight(p) => pass[p].session = q)
           \/ PassTo(p, at, None) /\ at = "idle" /\ pass[p].session = q
    PROVE  /\ \A s \in Sessions \ {q} : Due(s)' = Due(s) /\ Flying(s)' = Flying(s)
           /\ at # "idle" => Flying(q)' # {}
           /\ pass[p].at \in {"stop", "launch"} =>
                Due(q)' = IF at \in {"stop", "launch"} THEN Due(q) ELSE Due(q) - 1
           /\ pass[p].at \notin {"stop", "launch"} =>
                Due(q)' = IF at \in {"stop", "launch"} THEN Due(q) + 1 ELSE Due(q)
  <1>1. pass \in [Passes -> Pass] /\ q # None
    BY SessionsAreNumbers DEF Typed, TypeOK
  <1>2. PICK t \in {None, q} :
           /\ pass' = [pass EXCEPT ![p] = [at |-> at, session |-> t]]
           /\ at # "idle" => t = q
           /\ at = "idle" => t = None
           /\ InFlight(p) => pass[p].session = q
    BY DEF PassTo
  <1>3. /\ pass'[p].at = at /\ pass'[p].session = t
        /\ \A o \in Passes : o # p => pass'[o] = pass[o]
    BY <1>1, <1>2
  <1>4. \A s \in Sessions \ {q} : Pending(s)' = Pending(s) /\ Flying(s)' = Flying(s)
    BY <1>1, <1>2, <1>3 DEF Pending, Flying, InFlight
  <1>5. at # "idle" => p \in Flying(q)'
    BY <1>2, <1>3 DEF Flying, InFlight
  <1>6. p \in Pending(q) <=> pass[p].at \in {"stop", "launch"}
    BY <1>1, <1>2 DEF Pending, InFlight
  <1>7. Pending(q)' = IF at \in {"stop", "launch"} THEN Pending(q) \union {p}
                                                   ELSE Pending(q) \ {p}
    BY <1>1, <1>2, <1>3 DEF Pending
  <1>8. IsFiniteSet(Pending(q))
    BY DueIsCounted
  <1>9. /\ p \in Pending(q) => Pending(q) \union {p} = Pending(q)
        /\ p \notin Pending(q) => Pending(q) \ {p} = Pending(q)
    OBVIOUS
  <1>10. p \in Pending(q) =>
           Cardinality(Pending(q) \ {p}) = Cardinality(Pending(q)) - 1
    BY <1>8, FS_RemoveElement
  <1>11. p \notin Pending(q) =>
           Cardinality(Pending(q) \union {p}) = Cardinality(Pending(q)) + 1
    BY <1>8, FS_AddElement
  <1> QED BY <1>4, <1>5, <1>6, <1>7, <1>9, <1>10, <1>11 DEF Due

\* The accounts follow, where a pass moves in its Session.
LEMMA AccountsMove ==
    ASSUME Typed, Accounts, NEW q \in Sessions,
           \A s \in Sessions \ {q} : /\ Due(s)' = Due(s) /\ Flying(s)' = Flying(s)
                                     /\ launched'[s] = launched[s]
                                     /\ sess'[s].spent = sess[s].spent,
           slipped' \in {slipped, slipped + 1},
           Account(q)'
    PROVE  Accounts'
  <1> SUFFICES ASSUME NEW s \in Sessions, s # q PROVE Account(s)'
    BY DEF Accounts
  <1>1. /\ Due(s) \in Nat /\ launched[s] \in Nat
        /\ slipped \in Nat /\ sess[s].spent \in Nat /\ Account(s)
    BY DueIsCounted DEF Typed, TypeOK, Session, Accounts
  <1> QED BY <1>1 DEF Account

LEMMA SweepAccounts ==
    ASSUME Typed, Accounts, NEW p \in Passes, Sweep(p)
    PROVE  Accounts'
  <1>0. /\ TypeOK /\ pass \in [Passes -> Pass] /\ slipped \in Nat
        /\ launched \in [Sessions -> Nat] /\ MaxRecoveries \in Nat
    BY DEF Typed, TypeOK
  <1>a. ASSUME NEW s \in Sessions
        PROVE  /\ Due(s) \in Nat /\ launched[s] \in Nat /\ sess[s].spent \in Nat
               /\ launched[s] + Due(s) <= MaxRecoveries + slipped
               /\ launched[s] + Due(s) <= sess[s].spent + slipped + 1
               /\ Flying(s) = {} => launched[s] + Due(s) <= sess[s].spent + slipped
    <2>1. Account(s) /\ Due(s) \in Nat /\ launched[s] \in Nat /\ sess[s].spent \in Nat
      BY DueIsCounted DEF Typed, TypeOK, Session, Accounts
    <2> QED BY <1>0, <2>1 DEF Account
  <1>1. InFlight(p) => pass[p].session \in Sessions
    BY OpenedIsFinite DEF Typed, Opening
  <1>2. CASE Reclaim(p)
    <2>1. UNCHANGED launched
      BY <1>2 DEF Reclaim
    <2>2. slipped' \in {slipped, slipped + 1}
      BY <1>2 DEF Reclaim, Begin, Slip, bounds
    <2>3. CASE UNCHANGED pass /\ (RecordFinished \/ File(LiveSession))
      <3>1. \A s \in Sessions : sess'[s].spent = sess[s].spent
        BY <1>0, <2>3, NothingSpent, FileSpends DEF RecordFinished
      <3> QED BY <2>1, <2>2, <2>3, <3>1, AccountsKept
    <2>4. CASE MayRelaunch /\ PassTo(p, "stop", LiveSession) /\ UNCHANGED sess
      <3>1. PICK q \in Sessions : q = LiveSession /\ sess[q].spent < MaxRecoveries
        BY <2>4, LiveIsOpened DEF MayRelaunch
      <3>2. /\ ~InFlight(p)
            /\ (\E o \in Passes : InFlight(o)) => slipped' = slipped + 1
        BY <1>0, <1>2 DEF Reclaim, Begin, Slip
      <3>3. PassTo(p, "stop", q)
        BY <2>4, <3>1
      <3>4. pass[p].at \notin {"stop", "launch"}
        BY <3>2 DEF InFlight
      <3>5. /\ \A s \in Sessions \ {q} : Due(s)' = Due(s) /\ Flying(s)' = Flying(s)
            /\ Due(q)' = Due(q) + 1 /\ Flying(q)' # {}
        BY <3>1, <3>2, <3>3, <3>4, PendingMoves
      <3>6. Flying(q) # {} => slipped' = slipped + 1
        BY <3>2 DEF Flying
      <3>7. Account(q)'
        BY <1>0, <1>a, <2>1, <2>2, <2>4, <3>1, <3>5, <3>6 DEF Account
      <3> QED BY <2>1, <2>2, <2>4, <3>1, <3>5, <3>7, AccountsMove
    <2> QED BY <1>2, <2>3, <2>4 DEF Reclaim
  <1>3. CASE SendStop(p)
    <2>1. PICK q \in Sessions : q = pass[p].session
      BY <1>1, <1>3 DEF InFlight, SendStop
    <2>2. /\ pass[p].at = "stop" /\ PassTo(p, "launch", q)
          /\ UNCHANGED <<sess, launched, slipped>>
      BY <1>3, <2>1 DEF SendStop, bounds
    <2>3. /\ \A s \in Sessions \ {q} : Due(s)' = Due(s) /\ Flying(s)' = Flying(s)
          /\ Due(q)' = Due(q) /\ Flying(q)' # {}
      BY <2>1, <2>2, PendingMoves
    <2>4. Account(q)'
      BY <1>0, <1>a, <2>1, <2>2, <2>3 DEF Account
    <2> QED BY <2>1, <2>2, <2>3, <2>4, AccountsMove
  <1>4. CASE SendLaunch(p)
    <2>1. PICK q \in Sessions : q = pass[p].session
      BY <1>1, <1>4 DEF InFlight, SendLaunch
    <2>2. /\ pass[p].at = "launch" /\ PassTo(p, "record", q)
          /\ launched' = [launched EXCEPT ![q] = @ + 1]
          /\ UNCHANGED <<sess, slipped>>
      BY <1>4, <2>1 DEF SendLaunch, Launch, bounds
    <2>3. /\ \A s \in Sessions \ {q} : Due(s)' = Due(s) /\ Flying(s)' = Flying(s)
          /\ Due(q)' = Due(q) - 1 /\ Flying(q)' # {}
      BY <2>1, <2>2, PendingMoves
    <2>4. launched'[q] = launched[q] + 1
          /\ \A s \in Sessions \ {q} : launched'[s] = launched[s]
      BY <1>0, <2>1, <2>2
    <2>5. Account(q)'
      BY <1>0, <1>a, <2>1, <2>2, <2>3, <2>4 DEF Account
    <2> QED BY <2>1, <2>2, <2>3, <2>4, <2>5, AccountsMove
  <1>5. CASE Record(p)
    <2>1. PICK q \in Sessions : q = pass[p].session
      BY <1>1, <1>5 DEF InFlight, Record
    <2>2. /\ pass[p].at = "record" /\ PassTo(p, "idle", None)
          /\ sess' = [sess EXCEPT ![q].spent = @ + 1]
          /\ UNCHANGED <<launched, slipped>>
      BY <1>5, <2>1 DEF Record, bounds
    <2>3. /\ sess'[q].spent = sess[q].spent + 1
          /\ \A s \in Sessions \ {q} : sess'[s].spent = sess[s].spent
      BY <1>0, <2>1, <2>2 DEF TypeOK, Session
    <2>4. /\ \A s \in Sessions \ {q} : Due(s)' = Due(s) /\ Flying(s)' = Flying(s)
          /\ Due(q)' = Due(q)
      BY <2>1, <2>2, PendingMoves
    <2>5. Account(q)'
      BY <1>0, <1>a, <2>1, <2>2, <2>3, <2>4 DEF Account
    <2> QED BY <2>1, <2>2, <2>3, <2>4, <2>5, AccountsMove
  <1>6. CASE Refused(p)
    <2>1. PICK q \in Sessions : q = pass[p].session
      BY <1>1, <1>6 DEF InFlight, Refused
    <2>2. /\ pass[p].at \in {"stop", "launch"} /\ PassTo(p, "idle", None)
          /\ slipped' = slipped + 1
          /\ \/ UNCHANGED launched
             \/ launched' = [launched EXCEPT ![q] = @ + 1]
      BY <1>0, <1>6, <2>1 DEF Refused, Slip, Launch
    <2>3. \A s \in Sessions : sess'[s].spent = sess[s].spent
      BY <1>0, <1>6, FileSpends DEF Refused
    <2>4. /\ \A s \in Sessions \ {q} : Due(s)' = Due(s) /\ Flying(s)' = Flying(s)
          /\ Due(q)' = Due(q) - 1
      BY <2>1, <2>2, PendingMoves
    <2>5. /\ launched'[q] \in {launched[q], launched[q] + 1}
          /\ \A s \in Sessions \ {q} : launched'[s] = launched[s]
      BY <1>0, <2>1, <2>2
    <2>6. Account(q)'
      BY <1>0, <1>a, <2>1, <2>2, <2>3, <2>4, <2>5 DEF Account
    <2> QED BY <2>1, <2>2, <2>3, <2>4, <2>5, <2>6, AccountsMove
  <1> QED BY <1>2, <1>3, <1>4, <1>5, <1>6 DEF Sweep

LEMMA CrashAccounts ==
    ASSUME Typed, Accounts, Crash
    PROVE  Accounts'
  <1> SUFFICES ASSUME NEW s \in Sessions PROVE Account(s)'
    BY DEF Accounts
  <1>1. /\ Due(s) \in Nat /\ launched[s] \in Nat
        /\ slipped \in Nat /\ sess[s].spent \in Nat /\ Account(s)
    BY DueIsCounted DEF Typed, TypeOK, Session, Accounts
  <1>2. /\ UNCHANGED <<sess, launched>> /\ slipped' = slipped + 1
        /\ pass' = [p \in Passes |-> NoPass]
    BY DEF Crash, Slip, history
  <1>3. Due(s)' = 0 /\ Flying(s)' = {}
    <2>1. Pending(s)' = {} /\ Flying(s)' = {}
      BY <1>2 DEF Pending, Flying, InFlight, NoPass
    <2> QED BY <2>1, FS_EmptySet DEF Due
  <1> QED BY <1>1, <1>2, <1>3 DEF Account

\* A Session's relaunches keep to the budget its own log accounts for, but for
\* one with each slip: a pass that overtook another, a crash before the record,
\* a launch that threw and arrived all the same.
THEOREM BudgetIsKept == Spec => []BudgetHolds
  <1>1. Init => Accounts
    <2> SUFFICES ASSUME Init PROVE Accounts
      OBVIOUS
    <2>1. \A s \in Sessions : Pending(s) = {} /\ Flying(s) = {}
      BY DEF Init, Pending, Flying, InFlight, NoPass
    <2>2. \A s \in Sessions : Due(s) = 0
      BY <2>1, FS_EmptySet DEF Due
    <2> QED BY <2>1, <2>2 DEF Init, Accounts, Account, NoSession
  <1>2. Typed /\ Accounts /\ [Next]_vars => Accounts'
    BY OthersAccount, SweepAccounts, CrashAccounts DEF Next
  <1>3. Typed /\ Accounts => BudgetHolds
    <2> SUFFICES ASSUME Typed, Accounts, NEW s \in Sessions
                 PROVE  launched[s] <= MaxRecoveries + slipped
      BY DEF BudgetHolds
    <2>1. /\ Due(s) \in Nat /\ launched[s] \in Nat
          /\ slipped \in Nat /\ Account(s)
      BY DueIsCounted DEF Typed, TypeOK, Accounts
    <2> QED BY <2>1 DEF Account
  <1> QED BY <1>1, <1>2, <1>3, AlwaysTyped, InitTyped, StepTyped, PTL DEF Spec
=============================================================================
