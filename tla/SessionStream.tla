--------------------------- MODULE SessionStream ---------------------------
(***************************************************************************)
(* The log of a Task's Sessions and the browsers that follow it: round.ts, *)
(* scope.ts and data.ts, which write the log, ws/hub.ts and ws/replay.ts,  *)
(* which stream and replay it, use-task-stream.ts, which reconnects, and   *)
(* session-log.ts, which summarises what is old.                           *)
(*                                                                         *)
(* A round draws its first sequence number from the log and counts on in   *)
(* memory; each event is published at once and appended behind the ones    *)
(* before it. Everybody else draws the number next to the highest stored.  *)
(* An insert at a number that is taken does nothing. An engine that asks   *)
(* for a round again while the first body still runs makes two of them.    *)
(*                                                                         *)
(* Each await is a place where others go on, whatever the driver does: the *)
(* buffer of attachSubscriber is there for that. What an event says is     *)
(* left out, but for its form on the wire: none, a frame that carries the  *)
(* event's number, or a bare frame (a diff), which the hub and the page    *)
(* cannot place. Frames of no stored event (status, ack) are left out.     *)
(***************************************************************************)
EXTENDS Integers, Sequences, FiniteSetsExt, SortedLists

CONSTANTS
    Sessions,   \* the Task's Sessions, 1 .. n in the order they are opened
    Bodies,     \* bodies of agent-run, asked for again or not, 1 .. n
    Viewers,    \* open Task pages
    Threshold,  \* SESSION_COMPACTION_THRESHOLD
    KeptTail,   \* SESSION_COMPACTION_TAIL
    Mixes       \* mixes of what is Bounded, one of which may happen

Bounded ==
    {"emits",     \* events of a harness
     "lines",     \* lines the orchestrator writes itself
     "failures",  \* appends that throw
     "plans",     \* compactions
     "drops"}     \* connections that break

ASSUME SessionsAssumption == Sessions \subseteq Nat \ {0} /\ IsFiniteSet(Sessions)
ASSUME BodiesAssumption == Bodies \subseteq Nat \ {0} /\ IsFiniteSet(Bodies)
ASSUME CompactionAssumption == Threshold \in Nat \ {0} /\ KeptTail \in Nat
ASSUME MixesAssumption == Mixes \subseteq [Bounded -> Nat]

VARIABLES
    log,        \* session_event, a set of events
    body,       \* what each body of a round counts and has not yet appended
    line,       \* the line the orchestrator is writing
    summaries,  \* session_summary
    planned,    \* summaries planned and not yet inserted
    viewer,     \* each page's connection, and the hub's end of it
    told,       \* history: every event that was published or stored
    skipped,    \* history: what neither wire nor replay could give a page
    failed,     \* history: an append threw
    left        \* how much of each of Bounded may still happen

vars == <<log, body, line, summaries, planned, viewer, told, skipped, failed,
          left>>

None == 0

\* The writer tells two events of one number apart: a body, or None for the
\* orchestrator's own line.
Forms == {"none", "numbered", "bare"}
Event == [session : Sessions, seq : Nat, by : {None} \union Bodies, form : Forms]
Numbered(e) == e.form = "numbered"

Body == [session : {None} \union Sessions, next : Nat, queue : Seq(Event)]
NoBody == [session |-> None, next |-> 0, queue |-> <<>>]

Line == [session : {None} \union Sessions, seq : Nat]
NoLine == [session |-> None, seq |-> 0]

Summary == [session : Sessions, from : Nat, to : Nat, count : Nat]

\* A number and the Session it is of, which the code does not keep beside it.
Mark == [seq : Int, session : {None} \union Sessions]

\* wire is what the hub sent, got what arrived, held the buffer of an attach,
\* read its replay.
Viewer == [at : {"away", "subscribed", "read", "live"}, cursor : Mark,
           held : Seq(Event), read : SUBSET Event, wire : Seq(Event),
           got : Seq(Event)]
NewViewer == [at |-> "away", cursor |-> [seq |-> -1, session |-> None],
              held |-> <<>>, read |-> {}, wire |-> <<>>, got |-> <<>>]

TypeOK ==
    /\ log \subseteq Event
    /\ body \in [Bodies -> Body]
    /\ line \in Line
    /\ summaries \subseteq Summary
    /\ planned \subseteq Summary
    /\ viewer \in [Viewers -> Viewer]
    /\ told \subseteq Event
    /\ skipped \in [Viewers -> SUBSET Event]
    /\ failed \in BOOLEAN
    /\ left \in [Bounded -> Nat]

Init ==
    /\ log = {}
    /\ body = [b \in Bodies |-> NoBody]
    /\ line = NoLine
    /\ summaries = {}
    /\ planned = {}
    /\ viewer = [v \in Viewers |-> NewViewer]
    /\ told = {}
    /\ skipped = [v \in Viewers |-> {}]
    /\ failed = FALSE
    /\ left \in Mixes

-----------------------------------------------------------------------------
(* The log.                                                                *)

Spend(bound) == /\ left[bound] > 0
                /\ left' = [left EXCEPT ![bound] = @ - 1]

LogOf(s) == {e \in log : e.session = s}
Seqs(S) == {e.seq : e \in S}

\* Mutants of NextSeq: the highest stored, and numbers that begin at one.
HighestSeq(s) == IF LogOf(s) = {} THEN -1 ELSE Max(Seqs(LogOf(s)))
SeqFromOne(s) == IF LogOf(s) = {} THEN 1 ELSE Max(Seqs(LogOf(s))) + 1

\* nextSessionEventSeq
NextSeq(s) == IF LogOf(s) = {} THEN 0 ELSE Max(Seqs(LogOf(s))) + 1

SamePlace(e, f) == e.session = f.session /\ e.seq = f.seq

\* Mutant of Insert: the later of two events of one number stays.
Upsert(e) == log' = {f \in log : ~SamePlace(e, f)} \union {e}

\* appendSessionEvent: onConflictDoNothing.
Insert(e) ==
    log' = IF \E f \in log : SamePlace(e, f) THEN log ELSE log \union {e}

Pending == UNION {Range(body[b].queue) : b \in Bodies}

\* Where the Task's newest Session is open, and the one that comes after it.
Current == {s \in Sessions : \A q \in Sessions :
               q < s => (LogOf(q) # {} \/ \E b \in Bodies : body[b].session = q)}

-----------------------------------------------------------------------------
(* The hub.                                                                *)

\* Mutant of Heard: nothing is buffered.
HeardAtOnce(v, e) ==
    IF viewer[v].at = "away" THEN viewer[v]
    ELSE [viewer[v] EXCEPT !.wire = Append(@, e)]

\* EventHub.publish, and the listener of attachSubscriber.
Heard(v, e) ==
    CASE viewer[v].at = "live" ->
            [viewer[v] EXCEPT !.wire = Append(@, e)]
      [] viewer[v].at \in {"subscribed", "read"} ->
            [viewer[v] EXCEPT !.held = Append(@, e)]
      [] OTHER -> viewer[v]

Publish(e) ==
    /\ viewer' = IF e.form = "none" THEN viewer
                 ELSE [v \in Viewers |-> Heard(v, e)]
    /\ told' = told \union {e}

\* Most notices of the orchestrator are stored and never published: a page that
\* has read the log already is not told of them.
Withhold(e) ==
    /\ e.form # "none"
    /\ skipped' = [v \in Viewers |->
                     skipped[v] \union IF viewer[v].at \in {"read", "live"}
                                       THEN {e} ELSE {}]
    /\ told' = told \union {e}
    /\ UNCHANGED viewer

-----------------------------------------------------------------------------
(* The writers.                                                            *)

\* A round begins, or is asked for again while its first body still runs.
StartBody(b) ==
    /\ body[b].session = None /\ \A q \in Bodies : q < b => body[q].session # None
    /\ \E s \in Current :
          body' = [body EXCEPT ![b] = [session |-> s, next |-> NextSeq(s),
                                       queue |-> <<>>]]
    /\ UNCHANGED <<log, line, summaries, planned, viewer, told, skipped,
                   failed, left>>

\* emit: published at once, appended behind what the body wrote before.
Emit(b) ==
    /\ body[b].session # None
    /\ Spend("emits")
    /\ \E form \in Forms :
          LET e == [session |-> body[b].session, seq |-> body[b].next,
                    by |-> b, form |-> form]
          IN  /\ Publish(e)
              /\ body' = [body EXCEPT ![b].next = @ + 1,
                                      ![b].queue = Append(@, e)]
    /\ UNCHANGED <<log, line, summaries, planned, skipped, failed>>

\* The next link of the chain; one that throws is reported and passed over.
AppendNext(b) ==
    /\ body[b].queue # <<>>
    /\ body' = [body EXCEPT ![b].queue = Tail(@)]
    /\ \/ Insert(Head(body[b].queue)) /\ UNCHANGED <<failed, left>>
       \/ Spend("failures") /\ failed' = TRUE /\ UNCHANGED log
    /\ UNCHANGED <<line, summaries, planned, viewer, told, skipped>>

\* A transition, a decision, a notice, a diff: the number is drawn, the line
\* stored, and published or not.
DrawLine ==
    /\ line = NoLine
    /\ Spend("lines")
    /\ \E s \in Current : line' = [session |-> s, seq |-> NextSeq(s)]
    /\ UNCHANGED <<log, body, summaries, planned, viewer, told, skipped,
                   failed>>

WriteLine ==
    /\ line # NoLine
    /\ \E form \in Forms :
          LET e == [session |-> line.session, seq |-> line.seq,
                    by |-> None, form |-> form]
          IN  /\ Insert(e)
              /\ \/ Publish(e) /\ UNCHANGED skipped
                 \/ Withhold(e)
    /\ line' = NoLine
    /\ UNCHANGED <<body, summaries, planned, failed, left>>

-----------------------------------------------------------------------------
(* Compaction.                                                             *)

Covers(r, e) == r.session = e.session /\ r.from <= e.seq /\ e.seq <= r.to

\* The head of the log that is not summarised yet, up to the tail that is left
\* alone and to the summary that comes next.
Old(s) == {e \in LogOf(s) : Cardinality({f \in LogOf(s) : f.seq > e.seq}) >= KeptTail}
Uncovered(s) == {e \in Old(s) : \A r \in summaries : ~Covers(r, e)}
Candidates(s) ==
    {e \in Uncovered(s) :
        \A r \in summaries :
            r.session = s /\ r.from > Min(Seqs(Uncovered(s))) => e.seq < r.from}

\* compactSession reads the log and the summaries, ...
Plan(s) ==
    /\ Spend("plans")
    /\ Cardinality(Candidates(s)) >= Threshold
    /\ planned' = planned \union
         {[session |-> s, from |-> Min(Seqs(Candidates(s))),
           to |-> Max(Seqs(Candidates(s))), count |-> Cardinality(Candidates(s))]}
    /\ UNCHANGED <<log, body, line, summaries, viewer, told, skipped, failed>>

\* Mutant of Summarise: planned by two, inserted twice.
SummariseAgain(r) ==
    /\ planned' = planned \ {r}
    /\ summaries' = summaries \union {r}
    /\ UNCHANGED <<log, body, line, viewer, told, skipped, failed, left>>

\* ... and inserts what it planned, unless one begins there already.
Summarise(r) ==
    /\ planned' = planned \ {r}
    /\ summaries' =
         IF \E q \in summaries : q.session = r.session /\ q.from = r.from
         THEN summaries ELSE summaries \union {r}
    /\ UNCHANGED <<log, body, line, viewer, told, skipped, failed, left>>

-----------------------------------------------------------------------------
(* The viewers.                                                            *)

\* Mutant of Attach: a connection that broke is not made again.
AttachOnce(v) ==
    /\ viewer[v].at = "away" /\ viewer[v].cursor.seq = -1
    /\ viewer' = [viewer EXCEPT ![v].at = "subscribed"]
    /\ UNCHANGED <<log, body, line, summaries, planned, told, skipped, failed,
                   left>>

\* The page connects with the highest number it has seen; the hub listens on
\* its behalf from here on.
Attach(v) ==
    /\ viewer[v].at = "away"
    /\ viewer' = [viewer EXCEPT ![v].at = "subscribed"]
    /\ UNCHANGED <<log, body, line, summaries, planned, told, skipped, failed,
                   left>>

Above(seq) == {e \in log : e.seq > seq}

\* An event of another Session is not what the mark is about.
Foreign(mark) == {e \in told : e.seq <= mark.seq /\ e.session # mark.session}

\* listTaskEventsSince. What it cannot give: an event that was published before
\* the hub listened and is not stored yet, and one that the number of another
\* Session stands for.
ReadLog(v) ==
    /\ viewer[v].at = "subscribed"
    /\ viewer' = [viewer EXCEPT ![v].at = "read",
                                ![v].read = Above(viewer[v].cursor.seq)]
    /\ skipped' = [skipped EXCEPT ![v] =
                     @ \union (Pending \ Range(viewer[v].held))
                       \union (Foreign(viewer[v].cursor) \intersect log)]
    /\ UNCHANGED <<log, body, line, summaries, planned, told, failed, left>>

Before(e, f) == e.seq < f.seq \/ (e.seq = f.seq /\ e.session < f.session)
InOrder(S) == Sorted(S, {p \in S \X S : Before(p[1], p[2])})

\* The highest number so far, and the Session of the first event that has it.
MarkOf(e) == [seq |-> e.seq, session |-> e.session]
Furthest(mark, S) ==
    LET further == {e \in S : e.seq > mark.seq}
    IN  IF further = {} THEN mark
        ELSE MarkOf(CHOOSE e \in further : \A f \in further :
                       f.seq < e.seq \/ (f.seq = e.seq /\ e.session <= f.session))

\* highestReplayed
Replayed(v) == Furthest(viewer[v].cursor, viewer[v].read)

Shown(S) == {e \in S : e.form # "none"}

\* Mutant of Sent: the buffer is dropped.
SentReplay(v) == InOrder(Shown(viewer[v].read))

Sent(v) ==
    LET held == viewer[v].held
        later == {i \in DOMAIN held :
                     Numbered(held[i]) => held[i].seq > Replayed(v).seq}
    IN  InOrder(Shown(viewer[v].read)) \o Picked(held, later)

\* The replay, then what was buffered meanwhile, but for what it covered; of a
\* bare frame the hub cannot tell that.
Flush(v) ==
    /\ viewer[v].at = "read"
    /\ viewer' = [viewer EXCEPT ![v].at = "live", ![v].wire = @ \o Sent(v),
                                ![v].read = {}, ![v].held = <<>>]
    /\ skipped' = [skipped EXCEPT ![v] =
                     @ \union {e \in Range(viewer[v].held)
                                   \intersect Foreign(Replayed(v)) : Numbered(e)}]
    /\ UNCHANGED <<log, body, line, summaries, planned, told, failed, left>>

\* onEvent: a bare frame leaves the page's number where it is.
Receive(v) ==
    /\ viewer[v].wire # <<>>
    /\ LET e == Head(viewer[v].wire)
       IN  viewer' = [viewer EXCEPT ![v].wire = Tail(@),
                                    ![v].got = Append(@, e),
                                    ![v].cursor = IF Numbered(e)
                                                  THEN Furthest(@, {e}) ELSE @]
    /\ UNCHANGED <<log, body, line, summaries, planned, told, skipped, failed,
                   left>>

\* The socket closes; what was on the wire is lost.
Disconnect(v) ==
    /\ viewer[v].at # "away"
    /\ Spend("drops")
    /\ viewer' = [viewer EXCEPT ![v] = [NewViewer EXCEPT !.cursor = viewer[v].cursor,
                                                         !.got = viewer[v].got]]
    /\ UNCHANGED <<log, body, line, summaries, planned, told, skipped, failed>>

-----------------------------------------------------------------------------

Connection(v) == Attach(v) \/ ReadLog(v) \/ Flush(v) \/ Receive(v)

Next ==
    \/ \E b \in Bodies : StartBody(b) \/ Emit(b) \/ AppendNext(b)
    \/ DrawLine \/ WriteLine
    \/ \E s \in Sessions : Plan(s)
    \/ \E r \in planned : Summarise(r)
    \/ \E v \in Viewers : Connection(v) \/ Disconnect(v)

\* The chain of a body's writes and the line under way go on; a page connects
\* again after every break. No harness has to say anything.
Fairness ==
    /\ \A b \in Bodies : WF_vars(AppendNext(b))
    /\ WF_vars(WriteLine)
    /\ \A v \in Viewers : WF_vars(Connection(v))

Spec == Init /\ [][Next]_vars /\ Fairness

-----------------------------------------------------------------------------
(* Properties.                                                             *)

\* Two events drew the same number: only one of them is in the log.
Contested(e) == \E f \in told \ {e} : SamePlace(e, f)

\* The numbers of a Session have no gap (nextSessionEventSeq draws the next one,
\* the chain keeps the order), whoever else writes, unless an append threw.
LogIsDense ==
    ~failed => \A s \in Sessions : Seqs(LogOf(s)) = 0 .. Cardinality(LogOf(s)) - 1

\* A summary stands for a closed range that no other summary overlaps and whose
\* events are counted; the range stays as it was when it was planned, however
\* late an append or another compaction is (session-log.ts).
SummariesArePartition ==
    ~failed => \A r \in summaries :
        /\ Cardinality({e \in log : Covers(r, e)}) = r.count
        /\ \A q \in summaries \ {r} :
              q.session = r.session => q.to < r.from \/ r.to < q.from

\* "a reconnect never loses ... terminal history" (replay.ts): below the highest
\* number a page has seen of a Session, it has every stored event with a form on
\* the wire, or will have it from the wire it listens to, but for the events
\* two writers contest and those that neither replay nor wire could give.
Reached(v, s) == {e \in Range(viewer[v].got) : e.session = s}
NothingMissed ==
    \A v \in Viewers : \A e \in log :
        e.form # "none" /\ ~Contested(e) /\ e \notin skipped[v]
            /\ (\E f \in Reached(v, e.session) : f.seq > e.seq)
        => e \in Range(viewer[v].got)

\* "or reorders": the numbered events of one writer arrive in the order it wrote
\* them, and none of them twice, though a page's replay and its buffer overlap.
\* A bare one may come twice, and late: neither the hub's filter nor the page's
\* number knows of it (replay.ts, use-task-stream.ts).
OrderIsKept ==
    \A v \in Viewers : \A i, j \in DOMAIN viewer[v].got :
        LET e == viewer[v].got[i]
            f == viewer[v].got[j]
        IN  i < j /\ Numbered(e) /\ Numbered(f)
                /\ e.by = f.by /\ e.session = f.session
            => e.seq < f.seq

\* A fork point stays the point it was minted at (verifySessionCursor): what the
\* log holds up to its highest number never changes, unless an append threw and
\* left a number for a later writer.
ForkPointsHold ==
    [][~failed' => \A s \in Sessions :
          {e \in log' : e.session = s /\ e.seq < NextSeq(s)} = LogOf(s)]_log

\* Whatever is stored reaches every page in the end, through whatever breaks: a
\* page that lacks an event it could be given catches up.
UpToDate(v) ==
    \A e \in log : e.form # "none" /\ ~Contested(e) /\ e \notin skipped[v]
        => e \in Range(viewer[v].got)
CatchesUp == \A v \in Viewers : []<>UpToDate(v)
=============================================================================
