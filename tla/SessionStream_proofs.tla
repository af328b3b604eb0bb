------------------------ MODULE SessionStream_proofs ------------------------
(***************************************************************************)
(* Proofs about SessionStream: its types, the log and its numbers, the     *)
(* summaries, and what a page receives, for any Sessions, bodies, pages    *)
(* and bounds.                                                             *)
(***************************************************************************)
EXTENDS SessionStream, SortedLists_proofs

USE SessionsAssumption, BodiesAssumption, CompactionAssumption, MixesAssumption

-----------------------------------------------------------------------------
(* Lists.                                                                  *)

LEMMA RangeMembers ==
    ASSUME NEW S, NEW q \in Seq(S)
    PROVE  /\ \A i \in DOMAIN q : q[i] \in Range(q) /\ q[i] \in S
           /\ \A e \in Range(q) : e \in S /\ \E i \in DOMAIN q : q[i] = e
           /\ Range(q) \in SUBSET S
<1>1. /\ \A i \in DOMAIN q : q[i] \in Range(q) /\ q[i] \in S
      /\ \A e \in Range(q) : e \in S /\ \E i \in DOMAIN q : q[i] = e
  BY DEF Range
<1>2. \A e \in Range(q) : e \in S
  BY <1>1
<1> QED BY <1>1, <1>2, Zenon

LEMMA RangeOfEmpty == Range(<<>>) = {}
  BY DEF Range

LEMMA AppendAdds ==
    ASSUME NEW S, NEW q \in Seq(S), NEW e \in S
    PROVE  /\ Append(q, e) \in Seq(S)
           /\ Len(Append(q, e)) = Len(q) + 1
           /\ \A i \in DOMAIN q : Append(q, e)[i] = q[i]
           /\ Append(q, e)[Len(q) + 1] = e
           /\ DOMAIN Append(q, e) = 1 .. Len(q) + 1
           /\ DOMAIN q = 1 .. Len(q)
           /\ Range(Append(q, e)) = Range(q) \union {e}
<1>1. /\ Append(q, e) \in Seq(S)
      /\ Len(Append(q, e)) = Len(q) + 1
      /\ \A i \in DOMAIN q : Append(q, e)[i] = q[i]
      /\ Append(q, e)[Len(q) + 1] = e
      /\ DOMAIN Append(q, e) = 1 .. Len(q) + 1
      /\ DOMAIN q = 1 .. Len(q)
      /\ Len(q) \in Nat
  OBVIOUS
<1>2. \A x \in Range(Append(q, e)) : x \in Range(q) \union {e}
  <2> TAKE x \in Range(Append(q, e))
  <2>1. PICK i \in 1 .. Len(q) + 1 : Append(q, e)[i] = x
    BY <1>1 DEF Range
  <2>2. CASE i = Len(q) + 1
    BY <1>1, <2>1, <2>2
  <2>3. CASE i # Len(q) + 1
    <3>1. i \in DOMAIN q
      BY <1>1, <2>3
    <3> QED BY <1>1, <2>1, <3>1 DEF Range
  <2> QED BY <2>2, <2>3
<1>3. \A x \in Range(q) \union {e} : x \in Range(Append(q, e))
  <2> TAKE x \in Range(q) \union {e}
  <2>1. CASE x = e
    BY <1>1, <2>1 DEF Range
  <2>2. CASE x \in Range(q)
    <3>1. PICK i \in DOMAIN q : q[i] = x
      BY <2>2 DEF Range
    <3>2. i \in DOMAIN Append(q, e) /\ Append(q, e)[i] = x
      BY <1>1, <3>1
    <3> QED BY <3>2 DEF Range
  <2> QED BY <2>1, <2>2
<1> QED BY <1>1, <1>2, <1>3

LEMMA TailRemoves ==
    ASSUME NEW S, NEW q \in Seq(S), q # <<>>
    PROVE  /\ Tail(q) \in Seq(S)
           /\ Len(Tail(q)) = Len(q) - 1
           /\ Len(q) \in Nat \ {0}
           /\ Head(q) = q[1] /\ Head(q) \in S
           /\ DOMAIN q = 1 .. Len(q)
           /\ DOMAIN Tail(q) = 1 .. Len(q) - 1
           /\ \A i \in DOMAIN Tail(q) : Tail(q)[i] = q[i + 1] /\ i + 1 \in DOMAIN q
           /\ Range(q) = {Head(q)} \union Range(Tail(q))
<1>1. /\ Tail(q) \in Seq(S)
      /\ Len(Tail(q)) = Len(q) - 1
      /\ Len(q) \in Nat \ {0}
      /\ Head(q) = q[1] /\ Head(q) \in S
      /\ DOMAIN q = 1 .. Len(q)
      /\ DOMAIN Tail(q) = 1 .. Len(q) - 1
      /\ \A i \in DOMAIN Tail(q) : Tail(q)[i] = q[i + 1] /\ i + 1 \in DOMAIN q
  OBVIOUS
<1>2. \A x \in Range(q) : x \in {Head(q)} \union Range(Tail(q))
  <2> TAKE x \in Range(q)
  <2>1. PICK i \in 1 .. Len(q) : q[i] = x
    BY <1>1 DEF Range
  <2>2. CASE i = 1
    BY <1>1, <2>1, <2>2
  <2>3. CASE i # 1
    <3>1. i - 1 \in DOMAIN Tail(q) /\ Tail(q)[i - 1] = x
      BY <1>1, <2>1, <2>3
    <3> QED BY <3>1 DEF Range
  <2> QED BY <2>2, <2>3
<1>3. \A x \in {Head(q)} \union Range(Tail(q)) : x \in Range(q)
  <2> TAKE x \in {Head(q)} \union Range(Tail(q))
  <2>1. CASE x = Head(q)
    BY <1>1, <2>1 DEF Range
  <2>2. CASE x \in Range(Tail(q))
    <3>1. PICK i \in DOMAIN Tail(q) : Tail(q)[i] = x
      BY <2>2 DEF Range
    <3> QED BY <1>1, <3>1 DEF Range
  <2> QED BY <2>1, <2>2
<1> QED BY <1>1, <1>2, <1>3

LEMMA ConcatJoins ==
    ASSUME NEW S, NEW p \in Seq(S), NEW q \in Seq(S)
    PROVE  /\ p \o q \in Seq(S)
           /\ Len(p) \in Nat /\ Len(q) \in Nat
           /\ DOMAIN p = 1 .. Len(p) /\ DOMAIN q = 1 .. Len(q)
           /\ DOMAIN (p \o q) = 1 .. Len(p) + Len(q)
           /\ \A i \in 1 .. Len(p) : (p \o q)[i] = p[i]
           /\ \A i \in 1 .. Len(q) : (p \o q)[Len(p) + i] = q[i]
           /\ \A i \in DOMAIN (p \o q) :
                 i \in DOMAIN p \/ \E j \in DOMAIN q : i = Len(p) + j
           /\ Range(p \o q) = Range(p) \union Range(q)
<1>1. /\ p \o q \in Seq(S)
      /\ Len(p) \in Nat /\ Len(q) \in Nat
      /\ DOMAIN p = 1 .. Len(p) /\ DOMAIN q = 1 .. Len(q)
      /\ DOMAIN (p \o q) = 1 .. Len(p) + Len(q)
      /\ \A i \in 1 .. Len(p) : (p \o q)[i] = p[i]
      /\ \A i \in 1 .. Len(q) : (p \o q)[Len(p) + i] = q[i]
  OBVIOUS
<1>2. \A i \in DOMAIN (p \o q) :
         i \in DOMAIN p \/ \E j \in DOMAIN q : i = Len(p) + j
  <2> TAKE i \in DOMAIN (p \o q)
  <2>1. i \in DOMAIN p \/ (i - Len(p) \in DOMAIN q /\ i = Len(p) + (i - Len(p)))
    BY <1>1
  <2> QED BY <2>1
<1>3. \A x \in Range(p \o q) : x \in Range(p) \union Range(q)
  <2> TAKE x \in Range(p \o q)
  <2>1. PICK i \in DOMAIN (p \o q) : (p \o q)[i] = x
    BY DEF Range
  <2> QED BY <1>1, <1>2, <2>1 DEF Range
<1>4. \A x \in Range(p) : x \in Range(p \o q)
  <2> TAKE x \in Range(p)
  <2>1. PICK i \in DOMAIN p : p[i] = x
    BY DEF Range
  <2>2. i \in DOMAIN (p \o q) /\ (p \o q)[i] = x
    BY <1>1, <2>1
  <2> QED BY <2>2 DEF Range
<1>5. \A x \in Range(q) : x \in Range(p \o q)
  <2> TAKE x \in Range(q)
  <2>1. PICK i \in DOMAIN q : q[i] = x
    BY DEF Range
  <2>2. Len(p) + i \in DOMAIN (p \o q) /\ (p \o q)[Len(p) + i] = x
    BY <1>1, <2>1
  <2> QED BY <2>2 DEF Range
<1> QED BY <1>1, <1>2, <1>3, <1>4, <1>5

-----------------------------------------------------------------------------
(* Numbers.                                                                *)

LEMMA SeqsAreNumbers ==
    ASSUME NEW S \in SUBSET Event, IsFiniteSet(S), S # {}
    PROVE  /\ Seqs(S) \in SUBSET Nat /\ Seqs(S) # {} /\ IsFiniteSet(Seqs(S))
           /\ \E e \in S : e.seq = Min(Seqs(S))
           /\ \E e \in S : e.seq = Max(Seqs(S))
           /\ \A e \in S : Min(Seqs(S)) <= e.seq /\ e.seq <= Max(Seqs(S))
<1>1. Seqs(S) \in SUBSET Nat /\ Seqs(S) # {}
  BY DEF Seqs, Event
<1>2. IsFiniteSet(Seqs(S))
  <2> DEFINE number == [e \in S |-> e.seq]
  <2>1. number \in Surjection(S, Seqs(S))
    BY DEF Surjection, Seqs
  <2> QED BY <2>1, FS_Surjection
<1>3. /\ Min(Seqs(S)) \in Seqs(S) /\ \A n \in Seqs(S) : Min(Seqs(S)) <= n
      /\ Max(Seqs(S)) \in Seqs(S) /\ \A n \in Seqs(S) : n <= Max(Seqs(S))
  BY <1>1, <1>2, LeastIsMin, GreatestIsMax
<1>4. \A e \in S : e.seq \in Seqs(S)
  BY DEF Seqs
<1>5. \A n \in Seqs(S) : \E e \in S : e.seq = n
  BY DEF Seqs
<1> QED BY <1>1, <1>2, <1>3, <1>4, <1>5

LEMMA LogOfIsFinite ==
    ASSUME log \subseteq Event, IsFiniteSet(log), NEW s
    PROVE  LogOf(s) \in SUBSET Event /\ IsFiniteSet(LogOf(s))
<1>1. LogOf(s) \in SUBSET log
  BY DEF LogOf
<1> QED BY <1>1, FS_Subset

LEMMA NextSeqIsNext ==
    ASSUME log \subseteq Event, IsFiniteSet(log), NEW s
    PROVE  /\ NextSeq(s) \in Nat
           /\ \A e \in log : e.session = s => e.seq < NextSeq(s)
           /\ NextSeq(s) # 0 => \E g \in log : g.session = s /\ g.seq = NextSeq(s) - 1
<1>1. LogOf(s) \in SUBSET Event /\ IsFiniteSet(LogOf(s))
  BY LogOfIsFinite
<1>2. \A e \in log : e.session = s <=> e \in LogOf(s)
  BY DEF LogOf
<1>3. CASE LogOf(s) = {}
  BY <1>2, <1>3 DEF NextSeq
<1>4. CASE LogOf(s) # {}
  <2>1. /\ Seqs(LogOf(s)) \in SUBSET Nat
        /\ \E e \in LogOf(s) : e.seq = Max(Seqs(LogOf(s)))
        /\ \A e \in LogOf(s) : e.seq <= Max(Seqs(LogOf(s)))
    BY <1>1, <1>4, SeqsAreNumbers
  <2>2. \A e \in LogOf(s) : e.seq \in Nat /\ e \in log /\ e.session = s
    BY <1>1 DEF Event, LogOf
  <2>3. NextSeq(s) = Max(Seqs(LogOf(s))) + 1
    BY <1>4 DEF NextSeq
  <2> QED BY <1>2, <2>1, <2>2, <2>3
<1> QED BY <1>3, <1>4

\* The mark moves to an event it is below, or stays.
LEMMA FurthestIsReached ==
    ASSUME NEW mark \in Mark, NEW S \in SUBSET Event, IsFiniteSet(S)
    PROVE  /\ Furthest(mark, S) \in Mark
           /\ mark.seq <= Furthest(mark, S).seq
           /\ \A e \in S : e.seq <= Furthest(mark, S).seq
           /\ \/ Furthest(mark, S) = mark
              \/ \E e \in S : Furthest(mark, S) = MarkOf(e)
<1> DEFINE further == {e \in S : e.seq > mark.seq}
           top == {e \in further : e.seq = Max(Seqs(further))}
           sessions == {e.session : e \in top}
<1>1. CASE further = {}
  BY <1>1 DEF Furthest, Mark, Event
<1>2. CASE further # {}
  <2>1. further \in SUBSET Event /\ further \in SUBSET S
    OBVIOUS
  <2>2. IsFiniteSet(further)
    BY <2>1, FS_Subset
  <2>3. /\ \E e \in further : e.seq = Max(Seqs(further))
        /\ \A e \in further : e.seq <= Max(Seqs(further))
    BY <1>2, <2>1, <2>2, SeqsAreNumbers
  <2>4. sessions \in SUBSET Nat /\ sessions # {}
    <3>1. \A e \in top : e.session \in Nat
      BY DEF Event
    <3> QED BY <2>3, <3>1
  <2>5. /\ Min(sessions) \in sessions /\ \A s \in sessions : Min(sessions) <= s
    BY <2>4, LeastIsMin
  <2>6. PICK e \in top : e.session = Min(sessions)
    BY <2>5
  <2>7. \A f \in further : f.seq < e.seq \/ (f.seq = e.seq /\ e.session <= f.session)
    <3> TAKE f \in further
    <3>1. f.seq \in Nat /\ e.seq \in Nat /\ f.seq <= e.seq
      BY <2>3 DEF Event
    <3>2. f.seq = e.seq => f \in top
      BY <2>6
    <3>3. f \in top => e.session <= f.session
      BY <2>5, <2>6
    <3> QED BY <3>1, <3>2, <3>3
  <2> DEFINE far == CHOOSE x \in further : \A f \in further :
                       f.seq < x.seq \/ (f.seq = x.seq /\ x.session <= f.session)
  <2>8. far \in further /\ \A f \in further :
           f.seq < far.seq \/ (f.seq = far.seq /\ far.session <= f.session)
    <3> HIDE DEF further
    <3> QED BY <2>6, <2>7
  <2>9. Furthest(mark, S) = MarkOf(far)
    BY <1>2 DEF Furthest
  <2> HIDE DEF far
  <2>10. /\ far \in S /\ far \in Event /\ far.seq > mark.seq
         /\ MarkOf(far) \in Mark /\ MarkOf(far).seq = far.seq
    BY <2>8 DEF Event, Mark, MarkOf
  <2>11. \A e1 \in S : e1.seq <= far.seq
    <3> TAKE e1 \in S
    <3>1. e1.seq \in Nat /\ mark.seq \in Int /\ far.seq \in Nat
      BY <2>10 DEF Event, Mark
    <3>2. e1.seq <= mark.seq \/ e1 \in further
      BY <3>1
    <3> QED BY <2>8, <2>10, <3>1, <3>2
  <2>12. mark.seq \in Int /\ far.seq \in Int
    BY <2>10 DEF Event, Mark
  <2> QED BY <2>9, <2>10, <2>11, <2>12
<1> QED BY <1>1, <1>2

\* The order of the replay, for events of which no two have one place.
LEMMA ReplayIsInOrder ==
    ASSUME NEW S \in SUBSET Event, IsFiniteSet(S),
           \A e, f \in S : SamePlace(e, f) => e = f
    PROVE  /\ InOrder(S) \in Seq(S)
           /\ \A e \in S : \E i \in DOMAIN InOrder(S) : InOrder(S)[i] = e
           /\ \A i, j \in DOMAIN InOrder(S) :
                 i < j => Before(InOrder(S)[i], InOrder(S)[j])
<1> DEFINE R == {p \in S \X S : Before(p[1], p[2])}
<1>1. \A e \in S : e.seq \in Nat /\ e.session \in Nat
  BY DEF Event
<1>2. \A e, f \in S : <<e, f>> \in R <=> Before(e, f)
  OBVIOUS
<1>3. Orders(R, S)
  <2> HIDE DEF R
  <2>1. \A e \in S : <<e, e>> \notin R
    BY <1>1, <1>2 DEF Before
  <2>2. \A e, f, g \in S : <<e, f>> \in R /\ <<f, g>> \in R => <<e, g>> \in R
    BY <1>1, <1>2 DEF Before
  <2>3. \A e, f \in S : e = f \/ <<e, f>> \in R \/ <<f, e>> \in R
    <3> TAKE e, f \in S
    <3>1. e = f \/ e.session # f.session \/ e.seq # f.seq
      BY DEF SamePlace
    <3>2. e.seq \in Nat /\ e.session \in Nat /\ f.seq \in Nat /\ f.session \in Nat
      BY <1>1
    <3>3. e = f \/ Before(e, f) \/ Before(f, e)
      BY <3>1, <3>2 DEF Before
    <3> QED BY <1>2, <3>3
  <2> QED BY <2>1, <2>2, <2>3 DEF Orders
<1>4. InOrder(S) = Sorted(S, R)
  BY DEF InOrder
<1> HIDE DEF R
<1>5. /\ InOrder(S) \in Seq(S)
      /\ \A e \in S : \E i \in DOMAIN InOrder(S) : InOrder(S)[i] = e
      /\ \A i, j \in DOMAIN InOrder(S) :
            i < j => <<InOrder(S)[i], InOrder(S)[j]>> \in R
  BY <1>3, <1>4, SortedIsInOrder
<1>6. \A i \in DOMAIN InOrder(S) : InOrder(S)[i] \in S
  BY <1>5
<1> QED BY <1>2, <1>5, <1>6

-----------------------------------------------------------------------------
(* Types. What a page replays is a part of the log, and no two events of   *)
(* the log are at one place, so that the replay can be put in order.       *)

LogIsSet == \A e, f \in log : SamePlace(e, f) => e = f

Types ==
    /\ TypeOK
    /\ IsFiniteSet(log)
    /\ LogIsSet
    /\ \A v \in Viewers : viewer[v].read \subseteq log
    /\ line # NoLine => line.session \in Sessions

\* What a page is sent when its replay ends, and in which order.
OfReplay(v, e) == e \in Shown(viewer[v].read)
OfBuffer(v, e, x) == /\ x \in DOMAIN viewer[v].held
                     /\ viewer[v].held[x] = e
                     /\ Numbered(e) => e.seq > Replayed(v).seq

LEMMA SentIsReplayThenBuffer ==
    ASSUME Types, NEW v \in Viewers
    PROVE  /\ Replayed(v) \in Mark
           /\ Sent(v) \in Seq(Event)
           /\ \A i \in DOMAIN Sent(v) :
                 OfReplay(v, Sent(v)[i]) \/ \E x : OfBuffer(v, Sent(v)[i], x)
           /\ \A e : OfReplay(v, e) => \E i \in DOMAIN Sent(v) : Sent(v)[i] = e
           /\ \A e, x : OfBuffer(v, e, x) => \E i \in DOMAIN Sent(v) : Sent(v)[i] = e
           /\ \A i, j \in DOMAIN Sent(v) : i < j =>
                 \/ /\ OfReplay(v, Sent(v)[i]) /\ OfReplay(v, Sent(v)[j])
                    /\ Before(Sent(v)[i], Sent(v)[j])
                 \/ OfReplay(v, Sent(v)[i]) /\ \E y : OfBuffer(v, Sent(v)[j], y)
                 \/ \E x, y : x < y /\ OfBuffer(v, Sent(v)[i], x) /\ OfBuffer(v, Sent(v)[j], y)
           /\ \A e, j : j \in DOMAIN Sent(v) /\ OfReplay(v, e)
                          /\ OfReplay(v, Sent(v)[j]) /\ Before(e, Sent(v)[j])
                        => \E i \in DOMAIN Sent(v) : i < j /\ Sent(v)[i] = e
<1> DEFINE p == viewer[v]
           later == {i \in DOMAIN p.held :
                        Numbered(p.held[i]) => p.held[i].seq > Replayed(v).seq}
           replay == InOrder(Shown(p.read))
           buffer == Picked(p.held, later)
<1>1. p \in Viewer /\ p.read \subseteq log
  BY DEF Types, TypeOK
<1>2. p.held \in Seq(Event) /\ p.cursor \in Mark /\ p.read \in SUBSET Event
  BY <1>1 DEF Viewer
<1>3. IsFiniteSet(p.read)
  <2>1. p.read \in SUBSET log
    BY <1>1
  <2> QED BY <2>1, FS_Subset DEF Types
<1>4. Replayed(v) \in Mark
  BY <1>2, <1>3, FurthestIsReached DEF Replayed
<1>5. Shown(p.read) \in SUBSET p.read /\ Shown(p.read) \in SUBSET Event
  BY <1>2 DEF Shown
<1>6. IsFiniteSet(Shown(p.read))
  BY <1>3, <1>5, FS_Subset
<1>7. \A e, f \in Shown(p.read) : SamePlace(e, f) => e = f
  BY <1>1, <1>5 DEF Types, LogIsSet
<1>8. /\ replay \in Seq(Shown(p.read))
      /\ \A e \in Shown(p.read) : \E i \in DOMAIN replay : replay[i] = e
      /\ \A i, j \in DOMAIN replay : i < j => Before(replay[i], replay[j])
  BY <1>5, <1>6, <1>7, ReplayIsInOrder
<1>9. later \in SUBSET DOMAIN p.held
  OBVIOUS
<1>10. \A i : i \in later <=> OfBuffer(v, p.held[i], i)
  BY DEF OfBuffer
<1>11. \A e, x : OfBuffer(v, e, x) => x \in later /\ e = p.held[x]
  BY <1>10 DEF OfBuffer
<1> HIDE DEF later
<1>12. /\ buffer \in Seq(Event)
       /\ \A k \in DOMAIN buffer : \E i \in later : buffer[k] = p.held[i]
       /\ \A i \in later : \E k \in DOMAIN buffer : buffer[k] = p.held[i]
       /\ \A k, m \in DOMAIN buffer : k < m =>
             \E i, j \in later : i < j /\ buffer[k] = p.held[i] /\ buffer[m] = p.held[j]
  <2> DEFINE held == p.held
  <2>1. held \in Seq(Event) /\ later \in SUBSET DOMAIN held
    BY <1>2, <1>9
  <2> HIDE DEF held
  <2>2. /\ Picked(held, later) \in Seq(Event)
        /\ \A k \in DOMAIN Picked(held, later) :
              \E i \in later : Picked(held, later)[k] = held[i]
        /\ \A i \in later : \E k \in DOMAIN Picked(held, later) :
              Picked(held, later)[k] = held[i]
        /\ \A k, m \in DOMAIN Picked(held, later) : k < m =>
              \E i, j \in later : /\ i < j
                                  /\ Picked(held, later)[k] = held[i]
                                  /\ Picked(held, later)[m] = held[j]
    BY <2>1, PickedIsInOrder
  <2> QED BY <2>2 DEF held
<1>13. Sent(v) = replay \o buffer
  BY DEF Sent, later
<1>14. /\ replay \in Seq(Event)
       /\ \A i \in DOMAIN replay : OfReplay(v, replay[i])
  BY <1>5, <1>8 DEF OfReplay
<1>15. \A k \in DOMAIN buffer : \E x : OfBuffer(v, buffer[k], x)
  BY <1>10, <1>12
<1> HIDE DEF replay, buffer
<1>16. /\ Sent(v) \in Seq(Event)
       /\ Len(replay) \in Nat /\ Len(buffer) \in Nat
       /\ DOMAIN replay = 1 .. Len(replay) /\ DOMAIN buffer = 1 .. Len(buffer)
       /\ DOMAIN Sent(v) = 1 .. Len(replay) + Len(buffer)
       /\ \A i \in 1 .. Len(replay) : Sent(v)[i] = replay[i]
       /\ \A i \in 1 .. Len(buffer) : Sent(v)[Len(replay) + i] = buffer[i]
       /\ \A i \in DOMAIN Sent(v) :
             i \in DOMAIN replay \/ \E j \in DOMAIN buffer : i = Len(replay) + j
  BY <1>12, <1>13, <1>14, ConcatJoins
<1>17. \A i \in DOMAIN Sent(v) :
          OfReplay(v, Sent(v)[i]) \/ \E x : OfBuffer(v, Sent(v)[i], x)
  BY <1>14, <1>15, <1>16
<1>18. \A e : OfReplay(v, e) => \E i \in DOMAIN Sent(v) : Sent(v)[i] = e
  BY <1>8, <1>16 DEF OfReplay
<1>19. \A e, x : OfBuffer(v, e, x) => \E i \in DOMAIN Sent(v) : Sent(v)[i] = e
  <2> TAKE e, x
  <2> HAVE OfBuffer(v, e, x)
  <2>1. PICK k \in DOMAIN buffer : buffer[k] = e
    BY <1>11, <1>12
  <2>2. Len(replay) + k \in DOMAIN Sent(v) /\ Sent(v)[Len(replay) + k] = e
    BY <1>16, <2>1
  <2> QED BY <2>2
<1>20. ASSUME NEW i \in DOMAIN Sent(v), NEW j \in DOMAIN Sent(v), i < j
       PROVE  \/ /\ OfReplay(v, Sent(v)[i]) /\ OfReplay(v, Sent(v)[j])
                 /\ Before(Sent(v)[i], Sent(v)[j])
              \/ OfReplay(v, Sent(v)[i]) /\ \E y : OfBuffer(v, Sent(v)[j], y)
              \/ \E x, y : x < y /\ OfBuffer(v, Sent(v)[i], x) /\ OfBuffer(v, Sent(v)[j], y)
  <2>1. CASE j \in DOMAIN replay
    <3>1. i \in DOMAIN replay
      BY <1>16, <1>20, <2>1
    <3> QED BY <1>8, <1>14, <1>16, <1>20, <2>1, <3>1
  <2>2. CASE j \notin DOMAIN replay
    <3>1. PICK m \in DOMAIN buffer : j = Len(replay) + m
      BY <1>16, <2>2
    <3>2. CASE i \in DOMAIN replay
      BY <1>14, <1>15, <1>16, <3>1, <3>2
    <3>3. CASE i \notin DOMAIN replay
      <4>1. PICK k \in DOMAIN buffer : i = Len(replay) + k
        BY <1>16, <3>3
      <4>2. k < m
        BY <1>16, <1>20, <3>1, <4>1
      <4>3. PICK x, y \in later : x < y /\ buffer[k] = p.held[x] /\ buffer[m] = p.held[y]
        BY <1>12, <4>2
      <4>4. Sent(v)[i] = p.held[x] /\ Sent(v)[j] = p.held[y]
        BY <1>16, <3>1, <4>1, <4>3
      <4> QED BY <1>10, <4>3, <4>4
    <3> QED BY <3>2, <3>3
  <2> QED BY <2>1, <2>2
<1>21. ASSUME NEW e, NEW j \in DOMAIN Sent(v),
              OfReplay(v, e), OfReplay(v, Sent(v)[j]), Before(e, Sent(v)[j])
       PROVE  \E i \in DOMAIN Sent(v) : i < j /\ Sent(v)[i] = e
  <2>1. PICK i \in DOMAIN replay : replay[i] = e
    BY <1>8, <1>21 DEF OfReplay
  <2>2. i \in DOMAIN Sent(v) /\ Sent(v)[i] = e /\ i \in Nat /\ j \in Nat
    BY <1>16, <2>1
  <2>3. CASE j \in DOMAIN replay
    <3>1. Sent(v)[j] = replay[j]
      BY <1>16, <2>3
    <3>2. e \in Event /\ Sent(v)[j] \in Event
      BY <1>5, <1>16, <1>21 DEF OfReplay
    <3>3. ~Before(Sent(v)[j], e) /\ Sent(v)[j] # e
      <4> DEFINE f == Sent(v)[j]
      <4>1. /\ e.seq \in Nat /\ f.seq \in Nat
            /\ e.session \in Nat /\ f.session \in Nat
        BY <3>2 DEF Event
      <4>2. Before(e, f)
        BY <1>21
      <4> HIDE DEF f
      <4>3. ~Before(f, e) /\ f # e
        BY <4>1, <4>2 DEF Before
      <4> QED BY <4>3 DEF f
    <3>4. ~ (j < i) /\ j # i
      BY <1>8, <2>1, <2>3, <3>1, <3>3
    <3> QED BY <2>2, <3>4
  <2>4. CASE j \notin DOMAIN replay
    <3>1. PICK k \in DOMAIN buffer : j = Len(replay) + k
      BY <1>16, <2>4
    <3>2. i < j
      BY <1>16, <2>1, <3>1
    <3> QED BY <2>2, <3>2
  <2> QED BY <2>3, <2>4
<1> QED BY <1>4, <1>16, <1>17, <1>18, <1>19, <1>20, <1>21

LEMMA BodyFields ==
    ASSUME TypeOK, NEW b \in Bodies
    PROVE  /\ body[b].session \in {None} \union Sessions
           /\ body[b].next \in Nat
           /\ body[b].queue \in Seq(Event)
           /\ Len(body[b].queue) \in Nat
           /\ DOMAIN body[b].queue = 1 .. Len(body[b].queue)
<1>1. body[b] \in Body
  BY DEF TypeOK
<1>2. body[b].queue \in Seq(Event)
  BY <1>1 DEF Body
<1> QED BY <1>1, <1>2 DEF Body

LEMMA PageFields ==
    ASSUME TypeOK, NEW v \in Viewers
    PROVE  /\ viewer[v].at \in {"away", "subscribed", "read", "live"}
           /\ viewer[v].cursor \in Mark
           /\ viewer[v].cursor.seq \in Int
           /\ viewer[v].held \in Seq(Event)
           /\ viewer[v].read \in SUBSET Event
           /\ viewer[v].wire \in Seq(Event)
           /\ viewer[v].got \in Seq(Event)
           /\ viewer[v] \in Viewer
<1>1. viewer[v] \in Viewer
  BY DEF TypeOK
<1> QED BY <1>1 DEF Viewer, Mark

LEMMA EventFields ==
    ASSUME NEW e \in Event
    PROVE  /\ e.session \in Sessions /\ e.session \in Nat /\ e.session # None
           /\ e.seq \in Nat
           /\ e.by \in {None} \union Bodies
           /\ e.form \in Forms
  BY DEF Event, None

LEMMA BodyIsNobody == None \notin Bodies /\ None \notin Sessions
  BY DEF None

LEMMA SpendKeepsTypes ==
    ASSUME TypeOK, NEW bound \in Bounded, Spend(bound)
    PROVE  left' \in [Bounded -> Nat]
  BY DEF TypeOK, Spend

LEMMA InsertGrows ==
    ASSUME Types, NEW e \in Event, Insert(e)
    PROVE  /\ log \subseteq log'
           /\ \A f \in log' : f \in log \/ f = e
           /\ \E f \in log' : SamePlace(f, e)
           /\ (log' # log) => \A f \in log : ~SamePlace(f, e)
           /\ log' \subseteq Event
           /\ IsFiniteSet(log')
           /\ LogIsSet'
<1>1. CASE \E f \in log : SamePlace(e, f)
  <2>1. log' = log
    BY <1>1 DEF Insert
  <2>2. \E f \in log' : SamePlace(f, e)
    BY <1>1, <2>1 DEF SamePlace
  <2> QED BY <2>1, <2>2 DEF Types, TypeOK, LogIsSet, SamePlace
<1>2. CASE ~ \E f \in log : SamePlace(e, f)
  <2>1. log' = log \union {e}
    BY <1>2 DEF Insert
  <2>2. IsFiniteSet(log')
    BY <2>1, FS_AddElement DEF Types
  <2>3. LogIsSet'
    BY <1>2, <2>1 DEF Types, LogIsSet, SamePlace
  <2>4. \A f \in log : ~SamePlace(f, e)
    BY <1>2 DEF SamePlace
  <2>5. SamePlace(e, e)
    BY DEF SamePlace
  <2> QED BY <2>1, <2>2, <2>3, <2>4, <2>5 DEF Types, TypeOK
<1> QED BY <1>1, <1>2

\* A page that listens hears of an event that has a form on the wire.
Hears(e, p, q) ==
    /\ q.at = p.at /\ q.cursor = p.cursor /\ q.got = p.got /\ q.read = p.read
    /\ q.wire = IF e.form # "none" /\ p.at = "live" THEN Append(p.wire, e) ELSE p.wire
    /\ q.held = IF e.form # "none" /\ p.at \in {"subscribed", "read"}
                THEN Append(p.held, e) ELSE p.held

LEMMA PublishIsHeard ==
    ASSUME TypeOK, NEW e \in Event, Publish(e)
    PROVE  /\ viewer' \in [Viewers -> Viewer]
           /\ \A v \in Viewers : Hears(e, viewer[v], viewer'[v])
           /\ told' = told \union {e}
           /\ told' \subseteq Event
<1>1. told' = told \union {e} /\ told' \subseteq Event
  BY DEF Publish, TypeOK
<1>2. CASE e.form # "none"
  <2>1. viewer' = [v \in Viewers |-> Heard(v, e)]
    BY <1>2 DEF Publish
  <2>2. ASSUME NEW v \in Viewers
        PROVE  Heard(v, e) \in Viewer /\ Hears(e, viewer[v], Heard(v, e))
    <3>1. viewer[v] \in Viewer
      BY DEF TypeOK
    <3>2. /\ Append(viewer[v].wire, e) \in Seq(Event)
          /\ Append(viewer[v].held, e) \in Seq(Event)
      BY PageFields, AppendAdds
    <3>3. CASE viewer[v].at = "live"
      <4>1. Heard(v, e) = [viewer[v] EXCEPT !.wire = Append(@, e)]
        BY <3>3 DEF Heard
      <4> QED BY <1>2, <3>1, <3>2, <3>3, <4>1 DEF Viewer, Hears
    <3>4. CASE viewer[v].at \in {"subscribed", "read"}
      <4>1. Heard(v, e) = [viewer[v] EXCEPT !.held = Append(@, e)]
        BY <3>4 DEF Heard
      <4> QED BY <1>2, <3>1, <3>2, <3>4, <4>1 DEF Viewer, Hears
    <3>5. CASE viewer[v].at = "away"
      <4>1. Heard(v, e) = viewer[v]
        BY <3>5 DEF Heard
      <4> QED BY <3>1, <3>5, <4>1 DEF Hears
    <3> QED BY <3>3, <3>4, <3>5, PageFields
  <2> QED BY <1>1, <2>1, <2>2
<1>3. CASE e.form = "none"
  <2>1. viewer' = viewer
    BY <1>3 DEF Publish
  <2>2. \A v \in Viewers : Hears(e, viewer[v], viewer[v])
    BY <1>3 DEF Hears
  <2> QED BY <1>1, <2>1, <2>2 DEF TypeOK
<1> QED BY <1>2, <1>3

\* The events two of the actions make.
EmittedBy(b, form) == [session |-> body[b].session, seq |-> body[b].next,
                       by |-> b, form |-> form]
WrittenAs(form) == [session |-> line.session, seq |-> line.seq,
                    by |-> None, form |-> form]

LEMMA EmitEffect ==
    ASSUME TypeOK, NEW b \in Bodies, Emit(b)
    PROVE  \E e \in Event :
              /\ e.session = body[b].session /\ e.seq = body[b].next /\ e.by = b
              /\ Publish(e)
              /\ body' \in [Bodies -> Body]
              /\ body'[b].session = body[b].session
              /\ body'[b].next = body[b].next + 1
              /\ body'[b].queue = Append(body[b].queue, e)
              /\ \A c \in Bodies : c # b => body'[c] = body[c]
              /\ body[b].session # None
<1>1. PICK form \in Forms :
         /\ Publish(EmittedBy(b, form))
         /\ body' = [body EXCEPT ![b].next = @ + 1,
                                 ![b].queue = Append(@, EmittedBy(b, form))]
  BY DEF Emit, EmittedBy
<1> DEFINE e == EmittedBy(b, form)
<1>2. body[b].session # None
  BY DEF Emit
<1>3. /\ e \in Event
      /\ e.session = body[b].session /\ e.seq = body[b].next /\ e.by = b
  BY <1>2, BodyFields DEF Event, EmittedBy
<1> HIDE DEF e
<1>4. Append(body[b].queue, e) \in Seq(Event)
  BY <1>3, BodyFields, AppendAdds
<1>5. body' = [body EXCEPT ![b].next = @ + 1, ![b].queue = Append(@, e)]
  BY <1>1 DEF e
<1>6. body \in [Bodies -> Body]
  BY DEF TypeOK
<1>7. body'[b] = [body[b] EXCEPT !.next = @ + 1, !.queue = Append(@, e)]
  BY <1>5, <1>6
<1>8. /\ body'[b].session = body[b].session
      /\ body'[b].next = body[b].next + 1
      /\ body'[b].queue = Append(body[b].queue, e)
      /\ body'[b] \in Body
  <2>1. body[b] \in Body /\ body[b].next + 1 \in Nat
    BY <1>6, BodyFields
  <2> QED BY <1>4, <1>7, <2>1 DEF Body
<1>9. body' \in [Bodies -> Body] /\ \A c \in Bodies : c # b => body'[c] = body[c]
  BY <1>5, <1>6, <1>8
<1>10. Publish(e)
  BY <1>1 DEF e
<1> QED BY <1>2, <1>3, <1>8, <1>9, <1>10

LEMMA AppendNextEffect ==
    ASSUME TypeOK, NEW b \in Bodies, AppendNext(b)
    PROVE  /\ body[b].queue # <<>>
           /\ Head(body[b].queue) \in Event
           /\ body' \in [Bodies -> Body]
           /\ body'[b].session = body[b].session
           /\ body'[b].next = body[b].next
           /\ body'[b].queue = Tail(body[b].queue)
           /\ \A c \in Bodies : c # b => body'[c] = body[c]
<1>1. body[b].queue # <<>> /\ body' = [body EXCEPT ![b].queue = Tail(@)]
  BY DEF AppendNext
<1>2. Tail(body[b].queue) \in Seq(Event) /\ Head(body[b].queue) \in Event
  BY <1>1, BodyFields, TailRemoves
<1>3. body \in [Bodies -> Body]
  BY DEF TypeOK
<1>4. body'[b] = [body[b] EXCEPT !.queue = Tail(@)]
  BY <1>1, <1>3
<1>5. /\ body'[b].session = body[b].session
      /\ body'[b].next = body[b].next
      /\ body'[b].queue = Tail(body[b].queue)
      /\ body'[b] \in Body
  BY <1>2, <1>3, <1>4 DEF Body
<1> QED BY <1>1, <1>2, <1>3, <1>5

LEMMA StartBodyEffect ==
    ASSUME Types, NEW b \in Bodies, StartBody(b)
    PROVE  /\ body[b].session = None
           /\ body' \in [Bodies -> Body]
           /\ body'[b].session \in Sessions
           /\ body'[b].next = NextSeq(body'[b].session)
           /\ body'[b].queue = <<>>
           /\ \A c \in Bodies : c # b => body'[c] = body[c]
<1>1. PICK s \in Current :
         body' = [body EXCEPT ![b] = [session |-> s, next |-> NextSeq(s),
                                      queue |-> <<>>]]
  BY DEF StartBody
<1>2. s \in Sessions /\ NextSeq(s) \in Nat
  BY NextSeqIsNext DEF Current, Types, TypeOK
<1>3. body \in [Bodies -> Body] /\ <<>> \in Seq(Event)
  BY DEF Types, TypeOK
<1>4. body'[b] = [session |-> s, next |-> NextSeq(s), queue |-> <<>>]
  BY <1>1, <1>3
<1>5. body'[b] \in Body
  BY <1>2, <1>3, <1>4 DEF Body
<1> QED BY <1>1, <1>2, <1>3, <1>4, <1>5 DEF StartBody

LEMMA WriteLineEffect ==
    ASSUME TypeOK, line # NoLine => line.session \in Sessions, WriteLine
    PROVE  \E e \in Event :
              /\ e.session = line.session /\ e.seq = line.seq /\ e.by = None
              /\ Insert(e)
              /\ (Publish(e) /\ UNCHANGED skipped) \/ Withhold(e)
              /\ told' = told \union {e}
              /\ line # NoLine
<1>1. PICK form \in Forms :
         /\ Insert(WrittenAs(form))
         /\ (Publish(WrittenAs(form)) /\ UNCHANGED skipped) \/ Withhold(WrittenAs(form))
  BY DEF WriteLine, WrittenAs
<1> DEFINE e == WrittenAs(form)
<1>2. line # NoLine /\ line \in Line
  BY DEF WriteLine, TypeOK
<1>3. e \in Event /\ e.session = line.session /\ e.seq = line.seq /\ e.by = None
  BY <1>2 DEF Event, WrittenAs, Line
<1>4. told' = told \union {e}
  BY <1>1 DEF Publish, Withhold
<1> QED BY <1>1, <1>2, <1>3, <1>4

\* What each action of a page makes of it; the other pages are left alone.
Becomes(v, at, cursor, held, read, wire, got) ==
    /\ viewer' \in [Viewers -> Viewer]
    /\ \A u \in Viewers : u # v => viewer'[u] = viewer[u]
    /\ viewer'[v].at = at /\ viewer'[v].cursor = cursor
    /\ viewer'[v].held = held /\ viewer'[v].read = read
    /\ viewer'[v].wire = wire /\ viewer'[v].got = got

LEMMA AttachEffect ==
    ASSUME TypeOK, NEW v \in Viewers, Attach(v)
    PROVE  /\ viewer[v].at = "away"
           /\ Becomes(v, "subscribed", viewer[v].cursor, viewer[v].held,
                      viewer[v].read, viewer[v].wire, viewer[v].got)
<1>1. viewer[v].at = "away" /\ viewer' = [viewer EXCEPT ![v].at = "subscribed"]
  BY DEF Attach
<1>2. viewer \in [Viewers -> Viewer] /\ viewer[v] \in Viewer
  BY DEF TypeOK
<1>3. viewer'[v] = [viewer[v] EXCEPT !.at = "subscribed"]
  BY <1>1, <1>2
<1>4. viewer'[v] \in Viewer
  BY <1>2, <1>3 DEF Viewer
<1> QED BY <1>1, <1>2, <1>3, <1>4 DEF Becomes, Viewer

LEMMA ReadLogEffect ==
    ASSUME TypeOK, NEW v \in Viewers, ReadLog(v)
    PROVE  /\ viewer[v].at = "subscribed"
           /\ Becomes(v, "read", viewer[v].cursor, viewer[v].held,
                      Above(viewer[v].cursor.seq), viewer[v].wire, viewer[v].got)
<1> DEFINE read == Above(viewer[v].cursor.seq)
<1>1. viewer[v].at = "subscribed"
      /\ viewer' = [viewer EXCEPT ![v].at = "read", ![v].read = read]
  BY DEF ReadLog
<1>2. viewer \in [Viewers -> Viewer] /\ viewer[v] \in Viewer
  BY DEF TypeOK
<1>3. read \in SUBSET Event
  BY DEF Above, TypeOK
<1> HIDE DEF read
<1>4. viewer'[v] = [viewer[v] EXCEPT !.at = "read", !.read = read]
  BY <1>1, <1>2
<1>5. viewer'[v] \in Viewer
  BY <1>2, <1>3, <1>4 DEF Viewer
<1>6. \A u \in Viewers : u # v => viewer'[u] = viewer[u]
  BY <1>1, <1>2
<1>7. viewer' \in [Viewers -> Viewer]
  BY <1>1, <1>2, <1>5, <1>6
<1>8. Becomes(v, "read", viewer[v].cursor, viewer[v].held, read,
              viewer[v].wire, viewer[v].got)
  BY <1>2, <1>4, <1>6, <1>7 DEF Becomes, Viewer
<1> QED BY <1>1, <1>8 DEF read

LEMMA FlushEffect ==
    ASSUME Types, NEW v \in Viewers, Flush(v)
    PROVE  /\ viewer[v].at = "read"
           /\ Becomes(v, "live", viewer[v].cursor, <<>>, {},
                      viewer[v].wire \o Sent(v), viewer[v].got)
<1> DEFINE wire == viewer[v].wire \o Sent(v)
<1>1. viewer[v].at = "read"
      /\ viewer' = [viewer EXCEPT ![v].at = "live", ![v].wire = wire,
                                  ![v].read = {}, ![v].held = <<>>]
  BY DEF Flush
<1>2. viewer \in [Viewers -> Viewer] /\ viewer[v] \in Viewer
  BY DEF Types, TypeOK
<1>3. wire \in Seq(Event) /\ <<>> \in Seq(Event)
  BY SentIsReplayThenBuffer, PageFields, ConcatJoins DEF Types
<1> HIDE DEF wire
<1>4. viewer'[v] = [viewer[v] EXCEPT !.at = "live", !.wire = wire, !.read = {},
                                     !.held = <<>>]
  BY <1>1, <1>2
<1>5. viewer'[v] \in Viewer
  BY <1>2, <1>3, <1>4 DEF Viewer
<1>6. \A u \in Viewers : u # v => viewer'[u] = viewer[u]
  BY <1>1, <1>2
<1>7. viewer' \in [Viewers -> Viewer]
  BY <1>1, <1>2, <1>5, <1>6
<1>8. Becomes(v, "live", viewer[v].cursor, <<>>, {}, wire, viewer[v].got)
  BY <1>2, <1>4, <1>6, <1>7 DEF Becomes, Viewer
<1> QED BY <1>1, <1>8 DEF wire

\* Where a page's number is when it has received an event.
Moved(mark, e) == IF Numbered(e) THEN Furthest(mark, {e}) ELSE mark

LEMMA ReceiveEffect ==
    ASSUME TypeOK, NEW v \in Viewers, Receive(v)
    PROVE  /\ viewer[v].wire # <<>>
           /\ Becomes(v, viewer[v].at,
                      Moved(viewer[v].cursor, Head(viewer[v].wire)),
                      viewer[v].held, viewer[v].read, Tail(viewer[v].wire),
                      Append(viewer[v].got, Head(viewer[v].wire)))
<1> DEFINE e == Head(viewer[v].wire)
           cursor == Moved(viewer[v].cursor, e)
           wire == Tail(viewer[v].wire)
           got == Append(viewer[v].got, e)
<1>1. viewer[v].wire # <<>>
      /\ viewer' = [viewer EXCEPT ![v].wire = Tail(@), ![v].got = Append(@, e),
                                  ![v].cursor = Moved(@, e)]
  BY DEF Receive, Moved
<1>2. viewer \in [Viewers -> Viewer] /\ viewer[v] \in Viewer
  BY DEF TypeOK
<1>3. e \in Event /\ wire \in Seq(Event)
  BY <1>1, PageFields, TailRemoves
<1>4. got \in Seq(Event)
  BY <1>3, PageFields, AppendAdds
<1>5. cursor \in Mark
  <2>1. {e} \in SUBSET Event /\ IsFiniteSet({e})
    BY <1>3, FS_Singleton
  <2> QED BY <2>1, PageFields, FurthestIsReached DEF Moved
<1>6. viewer'[v] = [viewer[v] EXCEPT !.wire = wire, !.got = got, !.cursor = cursor]
  BY <1>1, <1>2
<1> HIDE DEF e, cursor, wire, got
<1>7. viewer'[v] \in Viewer
  BY <1>2, <1>3, <1>4, <1>5, <1>6 DEF Viewer
<1>8. \A u \in Viewers : u # v => viewer'[u] = viewer[u]
  BY <1>1, <1>2
<1>9. viewer' \in [Viewers -> Viewer]
  BY <1>1, <1>2, <1>7, <1>8
<1>10. Becomes(v, viewer[v].at, cursor, viewer[v].held, viewer[v].read, wire, got)
  BY <1>2, <1>6, <1>8, <1>9 DEF Becomes, Viewer
<1> QED BY <1>1, <1>10 DEF e, cursor, wire, got

LEMMA DisconnectEffect ==
    ASSUME TypeOK, NEW v \in Viewers, Disconnect(v)
    PROVE  Becomes(v, "away", viewer[v].cursor, <<>>, {}, <<>>, viewer[v].got)
<1>1. viewer' = [viewer EXCEPT ![v] = [NewViewer EXCEPT !.cursor = viewer[v].cursor,
                                                        !.got = viewer[v].got]]
  BY DEF Disconnect
<1>2. viewer \in [Viewers -> Viewer] /\ viewer[v] \in Viewer
  BY DEF TypeOK
<1>3. viewer'[v] = [at |-> "away", cursor |-> viewer[v].cursor, held |-> <<>>,
                    read |-> {}, wire |-> <<>>, got |-> viewer[v].got]
  BY <1>1, <1>2 DEF NewViewer
<1>4. <<>> \in Seq(Event)
  OBVIOUS
<1>5. viewer'[v] \in Viewer
  BY <1>2, <1>3, <1>4, PageFields DEF Viewer
<1>6. \A u \in Viewers : u # v => viewer'[u] = viewer[u]
  BY <1>1, <1>2
<1>7. viewer' \in [Viewers -> Viewer]
  BY <1>1, <1>2, <1>5, <1>6
<1> QED BY <1>3, <1>6, <1>7 DEF Becomes

LEMMA CandidatesAreEvents ==
    ASSUME Types, NEW s \in Sessions, Cardinality(Candidates(s)) >= Threshold
    PROVE  /\ Candidates(s) \in SUBSET Uncovered(s)
           /\ Uncovered(s) \in SUBSET Old(s)
           /\ Old(s) \in SUBSET LogOf(s)
           /\ LogOf(s) \in SUBSET Event
           /\ IsFiniteSet(Uncovered(s))
           /\ IsFiniteSet(Candidates(s))
           /\ Candidates(s) # {}
           /\ [session |-> s, from |-> Min(Seqs(Candidates(s))),
               to |-> Max(Seqs(Candidates(s))),
               count |-> Cardinality(Candidates(s))] \in Summary
<1>1. LogOf(s) \in SUBSET Event /\ IsFiniteSet(LogOf(s))
  BY LogOfIsFinite DEF Types, TypeOK
<1>2. Old(s) \in SUBSET LogOf(s)
  BY DEF Old
<1>3. Uncovered(s) \in SUBSET Old(s)
  BY DEF Uncovered
<1>4. Candidates(s) \in SUBSET Uncovered(s)
  BY DEF Candidates
<1>5. IsFiniteSet(Old(s))
  BY <1>1, <1>2, FS_Subset
<1>6. IsFiniteSet(Uncovered(s))
  BY <1>3, <1>5, FS_Subset
<1>7. IsFiniteSet(Candidates(s)) /\ Cardinality(Candidates(s)) \in Nat
  BY <1>4, <1>6, FS_Subset, FS_CardinalityType
<1>8. Candidates(s) # {}
  BY <1>7, FS_EmptySet
<1>9. Candidates(s) \in SUBSET Event
  BY <1>1, <1>2, <1>3, <1>4
<1>10. /\ Min(Seqs(Candidates(s))) \in Nat
       /\ Max(Seqs(Candidates(s))) \in Nat
  BY <1>7, <1>8, <1>9, SeqsAreNumbers, EventFields
<1> HIDE DEF Candidates, Uncovered, Old
<1> QED BY <1>1, <1>2, <1>3, <1>4, <1>6, <1>7, <1>8, <1>10 DEF Summary

LEMMA TypesInitially == Init => Types
<1> SUFFICES ASSUME Init PROVE Types
  OBVIOUS
<1> USE DEF Init
<1>1. NoBody \in Body /\ NoLine \in Line
  BY DEF NoBody, Body, NoLine, Line
<1>2. NewViewer \in Viewer /\ NewViewer.read = {}
  BY DEF NewViewer, Viewer, Mark
<1>3. TypeOK
  BY <1>1, <1>2 DEF TypeOK
<1>4. IsFiniteSet(log) /\ LogIsSet
  BY FS_EmptySet DEF LogIsSet
<1> QED BY <1>2, <1>3, <1>4 DEF Types

\* An action that leaves the log and the line as they are, and the pages' types.
LEMMA TypesOfQuiet ==
    ASSUME Types, TypeOK', UNCHANGED <<log, line>>,
           \A v \in Viewers : viewer'[v].read \subseteq log
    PROVE  Types'
  BY DEF Types, LogIsSet

LEMMA TypesOfPage ==
    ASSUME Types, NEW v \in Viewers,
           NEW at, NEW cursor, NEW held, NEW read, NEW wire, NEW got,
           Becomes(v, at, cursor, held, read, wire, got), read \subseteq log,
           skipped' \in [Viewers -> SUBSET Event],
           left' \in [Bounded -> Nat],
           UNCHANGED <<log, body, line, summaries, planned, told, failed>>
    PROVE  Types'
<1>1. TypeOK'
  BY DEF Types, TypeOK, Becomes
<1>2. \A u \in Viewers : viewer'[u].read \subseteq log
  BY DEF Types, Becomes
<1> QED BY <1>1, <1>2, TypesOfQuiet

LEMMA TypesOfPublish ==
    ASSUME Types, NEW e \in Event, Publish(e),
           log \subseteq log', log' \subseteq Event, IsFiniteSet(log'), LogIsSet',
           body' \in [Bodies -> Body], line' \in Line,
           line' # NoLine => line'.session \in Sessions,
           left' \in [Bounded -> Nat],
           UNCHANGED <<summaries, planned, skipped, failed>>
    PROVE  Types'
<1>1. /\ viewer' \in [Viewers -> Viewer]
      /\ \A v \in Viewers : viewer'[v].read = viewer[v].read
      /\ told' \subseteq Event
  BY PublishIsHeard DEF Types, Hears
<1>2. TypeOK'
  BY <1>1 DEF Types, TypeOK
<1>3. \A v \in Viewers : viewer'[v].read \subseteq log'
  BY <1>1 DEF Types
<1> QED BY <1>2, <1>3 DEF Types

LEMMA TypesOfWithheld ==
    ASSUME Types, NEW e \in Event, Withhold(e),
           log \subseteq log', log' \subseteq Event, IsFiniteSet(log'), LogIsSet',
           line' \in Line, line' # NoLine => line'.session \in Sessions,
           UNCHANGED <<body, summaries, planned, failed, left>>
    PROVE  Types'
<1>1. viewer' = viewer /\ told' = told \union {e}
  BY DEF Withhold
<1>2. skipped' \in [Viewers -> SUBSET Event]
  BY DEF Withhold, Types, TypeOK
<1>3. TypeOK'
  BY <1>1, <1>2 DEF Types, TypeOK
<1>4. \A v \in Viewers : viewer'[v].read \subseteq log'
  BY <1>1 DEF Types
<1> QED BY <1>3, <1>4 DEF Types

LEMMA TypesStep == Types /\ [Next]_vars => Types'
<1> SUFFICES ASSUME Types, [Next]_vars PROVE Types'
  OBVIOUS
<1>0. TypeOK
  BY DEF Types
<1>1. ASSUME NEW b \in Bodies, StartBody(b)
      PROVE  Types'
  <2>1. TypeOK'
    BY <1>0, <1>1, StartBodyEffect DEF TypeOK, StartBody
  <2> QED BY <1>1, <2>1, TypesOfQuiet DEF StartBody, Types
<1>2. ASSUME NEW b \in Bodies, Emit(b)
      PROVE  Types'
  <2>1. PICK e \in Event : Publish(e) /\ body' \in [Bodies -> Body]
    BY <1>0, <1>2, EmitEffect
  <2>2. left' \in [Bounded -> Nat]
    BY <1>0, <1>2, SpendKeepsTypes DEF Emit, Bounded
  <2>3. UNCHANGED <<log, line, summaries, planned, skipped, failed>>
    BY <1>2 DEF Emit
  <2>4. LogIsSet'
    BY <2>3 DEF Types, LogIsSet
  <2> QED BY <2>1, <2>2, <2>3, <2>4, TypesOfPublish DEF Types, TypeOK
<1>3. ASSUME NEW b \in Bodies, AppendNext(b)
      PROVE  Types'
  <2>1. Head(body[b].queue) \in Event /\ body' \in [Bodies -> Body]
    BY <1>0, <1>3, AppendNextEffect
  <2>2. UNCHANGED <<line, summaries, planned, viewer, told, skipped>>
    BY <1>3 DEF AppendNext
  <2>3. CASE Insert(Head(body[b].queue)) /\ UNCHANGED <<failed, left>>
    <3>1. log \subseteq log' /\ log' \subseteq Event /\ IsFiniteSet(log') /\ LogIsSet'
      BY <2>1, <2>3, InsertGrows
    <3>2. TypeOK'
      BY <2>1, <2>2, <2>3, <3>1 DEF Types, TypeOK
    <3> QED BY <2>2, <3>1, <3>2 DEF Types
  <2>4. CASE Spend("failures") /\ failed' = TRUE /\ UNCHANGED log
    <3>1. left' \in [Bounded -> Nat]
      BY <1>0, <2>4, SpendKeepsTypes DEF Bounded
    <3>2. TypeOK'
      BY <2>1, <2>2, <2>4, <3>1 DEF Types, TypeOK
    <3> QED BY <2>2, <2>4, <3>2, TypesOfQuiet DEF Types
  <2> QED BY <1>3, <2>3, <2>4 DEF AppendNext
<1>4. CASE DrawLine
  <2>1. PICK s \in Current : line' = [session |-> s, seq |-> NextSeq(s)]
    BY <1>4 DEF DrawLine
  <2>2. s \in Sessions /\ NextSeq(s) \in Nat
    BY NextSeqIsNext DEF Current, Types, TypeOK
  <2>3. line' \in Line /\ line'.session \in Sessions
    BY <2>1, <2>2 DEF Line
  <2>4. left' \in [Bounded -> Nat]
    BY <1>0, <1>4, SpendKeepsTypes DEF DrawLine, Bounded
  <2>5. UNCHANGED <<log, body, summaries, planned, viewer, told, skipped, failed>>
    BY <1>4 DEF DrawLine
  <2>6. TypeOK' /\ LogIsSet'
    BY <2>3, <2>4, <2>5 DEF Types, TypeOK, LogIsSet
  <2> QED BY <2>3, <2>5, <2>6 DEF Types
<1>5. CASE WriteLine
  <2>1. PICK e \in Event :
           Insert(e) /\ ((Publish(e) /\ UNCHANGED skipped) \/ Withhold(e))
    BY <1>0, <1>5, WriteLineEffect DEF Types
  <2>2. log \subseteq log' /\ log' \subseteq Event /\ IsFiniteSet(log') /\ LogIsSet'
    BY <2>1, InsertGrows
  <2>3. line' = NoLine /\ line' \in Line
    BY <1>5 DEF WriteLine, NoLine, Line
  <2>4. UNCHANGED <<body, summaries, planned, failed, left>>
    BY <1>5 DEF WriteLine
  <2>5. CASE Publish(e) /\ UNCHANGED skipped
    BY <2>2, <2>3, <2>4, <2>5, TypesOfPublish DEF Types, TypeOK
  <2>6. CASE Withhold(e)
    BY <2>2, <2>3, <2>4, <2>6, TypesOfWithheld
  <2> QED BY <2>1, <2>5, <2>6
<1>6. ASSUME NEW s \in Sessions, Plan(s)
      PROVE  Types'
  <2>1. planned' \subseteq Summary
    BY <1>0, <1>6, CandidatesAreEvents DEF Plan, TypeOK
  <2>2. left' \in [Bounded -> Nat]
    BY <1>0, <1>6, SpendKeepsTypes DEF Plan, Bounded
  <2>3. UNCHANGED <<log, body, line, summaries, viewer, told, skipped, failed>>
    BY <1>6 DEF Plan
  <2>4. TypeOK'
    BY <1>0, <2>1, <2>2, <2>3 DEF TypeOK
  <2> QED BY <2>3, <2>4, TypesOfQuiet DEF Types
<1>7. ASSUME NEW r \in planned, Summarise(r)
      PROVE  Types'
  <2>1. TypeOK'
    BY <1>0, <1>7 DEF TypeOK, Summarise
  <2> QED BY <1>7, <2>1, TypesOfQuiet DEF Types, Summarise
<1>8. ASSUME NEW v \in Viewers, Attach(v)
      PROVE  Types'
  <2>1. Becomes(v, "subscribed", viewer[v].cursor, viewer[v].held,
                viewer[v].read, viewer[v].wire, viewer[v].got)
    BY <1>0, <1>8, AttachEffect
  <2> QED BY <1>8, <2>1, TypesOfPage DEF Attach, Types, TypeOK
<1>9. ASSUME NEW v \in Viewers, ReadLog(v)
      PROVE  Types'
  <2>1. Becomes(v, "read", viewer[v].cursor, viewer[v].held,
                Above(viewer[v].cursor.seq), viewer[v].wire, viewer[v].got)
    BY <1>0, <1>9, ReadLogEffect
  <2>2. Above(viewer[v].cursor.seq) \subseteq log
    BY DEF Above
  <2>3. Pending \in SUBSET Event
    <3>1. \A b \in Bodies : Range(body[b].queue) \in SUBSET Event
      <4> TAKE b \in Bodies
      <4>1. body[b].queue \in Seq(Event)
        BY <1>0, BodyFields
      <4>2. \A e \in Range(body[b].queue) : e \in Event
        BY <4>1, RangeMembers
      <4> QED BY <4>2
    <3> QED BY <3>1 DEF Pending
  <2>4. skipped' \in [Viewers -> SUBSET Event]
    <3>1. skipped \in [Viewers -> SUBSET Event] /\ log \subseteq Event
      BY <1>0 DEF TypeOK
    <3>2. skipped' = [skipped EXCEPT ![v] =
                        @ \union (Pending \ Range(viewer[v].held))
                          \union (Foreign(viewer[v].cursor) \intersect log)]
      BY <1>9 DEF ReadLog
    <3> QED BY <2>3, <3>1, <3>2
  <2> QED BY <1>9, <2>1, <2>2, <2>4, TypesOfPage DEF ReadLog, Types, TypeOK
<1>10. ASSUME NEW v \in Viewers, Flush(v)
       PROVE  Types'
  <2>1. Becomes(v, "live", viewer[v].cursor, <<>>, {},
                viewer[v].wire \o Sent(v), viewer[v].got)
    BY <1>10, FlushEffect
  <2>2. skipped' \in [Viewers -> SUBSET Event]
    <3>1. skipped \in [Viewers -> SUBSET Event]
      BY <1>0 DEF TypeOK
    <3>2. Range(viewer[v].held) \in SUBSET Event
      BY <1>0, PageFields, RangeMembers
    <3>3. skipped' = [skipped EXCEPT ![v] =
                        @ \union {e \in Range(viewer[v].held)
                                      \intersect Foreign(Replayed(v)) : Numbered(e)}]
      BY <1>10 DEF Flush
    <3> QED BY <3>1, <3>2, <3>3
  <2>3. {} \subseteq log
    OBVIOUS
  <2>4. UNCHANGED <<log, body, line, summaries, planned, told, failed, left>>
        /\ left' \in [Bounded -> Nat]
    BY <1>0, <1>10 DEF Flush, TypeOK
  <2> QED BY <2>1, <2>2, <2>3, <2>4, TypesOfPage
<1>11. ASSUME NEW v \in Viewers, Receive(v)
       PROVE  Types'
  <2>1. Becomes(v, viewer[v].at, Moved(viewer[v].cursor, Head(viewer[v].wire)),
                viewer[v].held, viewer[v].read, Tail(viewer[v].wire),
                Append(viewer[v].got, Head(viewer[v].wire)))
    BY <1>0, <1>11, ReceiveEffect
  <2> QED BY <1>11, <2>1, TypesOfPage DEF Receive, Types, TypeOK
<1>12. ASSUME NEW v \in Viewers, Disconnect(v)
       PROVE  Types'
  <2>1. Becomes(v, "away", viewer[v].cursor, <<>>, {}, <<>>, viewer[v].got)
    BY <1>0, <1>12, DisconnectEffect
  <2>2. left' \in [Bounded -> Nat]
    BY <1>0, <1>12, SpendKeepsTypes DEF Disconnect, Bounded
  <2>3. {} \subseteq log
    OBVIOUS
  <2>4. UNCHANGED <<log, body, line, summaries, planned, told, skipped, failed>>
        /\ skipped' \in [Viewers -> SUBSET Event]
    BY <1>0, <1>12 DEF Disconnect, TypeOK
  <2> QED BY <2>1, <2>2, <2>3, <2>4, TypesOfPage
<1>13. CASE UNCHANGED vars
  <2>1. TypeOK'
    BY <1>0, <1>13 DEF vars, TypeOK
  <2> QED BY <1>13, <2>1, TypesOfQuiet DEF vars, Types
<1> QED BY <1>1, <1>2, <1>3, <1>4, <1>5, <1>6, <1>7, <1>8, <1>9, <1>10, <1>11,
           <1>12, <1>13 DEF Next, Connection

-----------------------------------------------------------------------------
(* The log. Every number a writer draws has a told event of its Session    *)
(* right below it, and unless an append threw a stored one.                *)

At(S, s, n) == \E g \in S : g.session = s /\ g.seq = n
Dense(S, s, n) == \A m \in Nat : m < n => At(S, s, m)

\* The number of the first event of a body that is not appended yet.
Start(b) == body[b].next - Len(body[b].queue)

QueuesAreChains ==
    \A b \in Bodies :
        /\ body[b].session = None => body[b].next = 0 /\ body[b].queue = <<>>
        /\ Len(body[b].queue) <= body[b].next
        /\ \A i \in DOMAIN body[b].queue :
              /\ body[b].queue[i] \in told
              /\ body[b].queue[i].by = b
              /\ body[b].queue[i].session = body[b].session
              /\ body[b].queue[i].seq = Start(b) + i - 1

LineIsDrawn ==
    line # NoLine =>
        /\ line.seq # 0 => At(log, line.session, line.seq - 1)
        /\ \A e \in told : e.by = None /\ e.session = line.session => e.seq < line.seq

\* Who told an event: a body that counted past it, or a line that found its
\* place taken or took it. What a body has stored comes before what it queues.
ToldByWriters ==
    /\ log \subseteq told
    /\ \A e \in told : e.by # None =>
          e.session = body[e.by].session /\ e.seq < body[e.by].next
    /\ \A e \in told : e.by = None => At(log, e.session, e.seq)
    /\ \A e \in log : e.by # None => e.seq < Start(e.by)

ToldIsDense ==
    /\ \A f \in told : Dense(told, f.session, f.seq)
    /\ \A b \in Bodies : Dense(told, body[b].session, body[b].next)

\* A body told of every number below its next one itself, or drew its first
\* number above an event of the log.
BodiesCountOn ==
    \A b \in Bodies : \A n \in Nat : n < body[b].next =>
        \/ \E e \in told : e.by = b /\ e.session = body[b].session /\ e.seq = n
        \/ \E g \in log : g.session = body[b].session /\ g.seq >= n

\* The log went past an event that waits only where another writer told of an
\* event at the same place.
PendingIsNext ==
    \A e \in Pending : \A g \in log :
        g.session = e.session /\ g.seq > e.seq => Contested(e)

Stored ==
    ~failed =>
        /\ \A f \in log : Dense(log, f.session, f.seq)
        /\ \A b \in Bodies : Dense(log, body[b].session, Start(b))

LogInv ==
    /\ Types
    /\ QueuesAreChains
    /\ LineIsDrawn
    /\ ToldByWriters
    /\ ToldIsDense
    /\ BodiesCountOn
    /\ PendingIsNext
    /\ Stored

LEMMA DenseGrows ==
    ASSUME NEW S, NEW T, S \subseteq T, NEW s, NEW n, Dense(S, s, n)
    PROVE  Dense(T, s, n)
  BY DEF Dense, At

LEMMA DenseThrough ==
    ASSUME NEW S, NEW s, NEW n \in Nat, Dense(S, s, n), At(S, s, n)
    PROVE  Dense(S, s, n + 1)
<1> SUFFICES ASSUME NEW m \in Nat, m < n + 1 PROVE At(S, s, m)
  BY DEF Dense
<1>1. m < n \/ m = n
  OBVIOUS
<1> QED BY <1>1 DEF Dense

LEMMA Queued ==
    ASSUME NEW B, NEW x
    PROVE  x \in UNION {Range(B[b].queue) : b \in Bodies}
           <=> \E b \in Bodies : \E i \in DOMAIN B[b].queue : B[b].queue[i] = x
  BY DEF Range

LEMMA PendingQueued ==
    /\ \A x : x \in Pending <=>
          \E b \in Bodies : \E i \in DOMAIN body[b].queue : body[b].queue[i] = x
    /\ \A x : x \in Pending' <=>
          \E b \in Bodies : \E i \in DOMAIN body'[b].queue : body'[b].queue[i] = x
  BY Queued DEF Pending

\* What waits in a queue is told, typed, and not in the log.
LEMMA PendingIsTold ==
    ASSUME TypeOK, QueuesAreChains, ToldByWriters, NEW e \in Pending
    PROVE  /\ e \in Event /\ e \in told /\ e \notin log
           /\ e.by \in Bodies /\ e.by # None
           /\ body[e.by].session # None
<1>1. PICK b \in Bodies : \E i \in DOMAIN body[b].queue : body[b].queue[i] = e
  BY PendingQueued
<1>2. PICK i \in DOMAIN body[b].queue : body[b].queue[i] = e
  BY <1>1
<1>3. e \in told /\ e.by = b /\ e.session = body[b].session /\ e.seq = Start(b) + i - 1
  BY <1>2 DEF QueuesAreChains
<1>4. e \in Event
  BY <1>3 DEF TypeOK
<1>5. /\ body[b].next \in Nat
      /\ Len(body[b].queue) \in Nat
      /\ i \in 1 .. Len(body[b].queue)
  BY <1>2, BodyFields
<1>6. e.seq >= Start(b) /\ e.seq \in Int
  BY <1>3, <1>5 DEF Start
<1>7. e \notin log
  <2>1. ASSUME e \in log PROVE FALSE
    <3>1. e.seq < Start(b)
      BY <1>3, <2>1, BodyIsNobody DEF ToldByWriters
    <3> QED BY <1>5, <1>6, <3>1 DEF Start
  <2> QED BY <2>1
<1>8. e.session \in Sessions
  BY <1>4, EventFields
<1> QED BY <1>3, <1>4, <1>7, <1>8, BodyIsNobody

LEMMA LogInvInitially == Init => LogInv
<1> SUFFICES ASSUME Init PROVE LogInv
  OBVIOUS
<1>1. Types
  BY TypesInitially
<1>2. \A b \in Bodies : body[b].next = 0 /\ body[b].queue = <<>>
  BY DEF Init, NoBody
<1>3. \A b \in Bodies : Start(b) = 0
  BY <1>2 DEF Start
<1>4. log = {} /\ told = {} /\ line = NoLine
  BY DEF Init
<1>5. Pending = {}
  BY <1>2, PendingQueued
<1>6. QueuesAreChains
  <2>1. Len(<<>>) = 0 /\ DOMAIN <<>> = {}
    OBVIOUS
  <2>2. \A b \in Bodies : Len(body[b].queue) <= body[b].next
                         /\ DOMAIN body[b].queue = {}
    BY <1>2, <2>1
  <2> QED BY <1>2, <2>2 DEF QueuesAreChains
<1>7. LineIsDrawn /\ ToldByWriters /\ PendingIsNext
  BY <1>4, <1>5 DEF LineIsDrawn, ToldByWriters, PendingIsNext
<1>8. ToldIsDense
  BY <1>2, <1>4 DEF ToldIsDense, Dense
<1>9. BodiesCountOn
  BY <1>2, <1>4 DEF BodiesCountOn
<1>10. Stored
  BY <1>3, <1>4 DEF Stored, Dense
<1> QED BY <1>1, <1>6, <1>7, <1>8, <1>9, <1>10 DEF LogInv

LEMMA LogInvOfQuiet ==
    ASSUME LogInv, Types', UNCHANGED <<log, body, line, told, failed>>
    PROVE  LogInv'
<1> USE DEF LogInv
<1>1. \A b \in Bodies : Start(b)' = Start(b)
  BY DEF Start
<1>2. QueuesAreChains'
  BY <1>1 DEF QueuesAreChains
<1>3. LineIsDrawn'
  BY DEF LineIsDrawn
<1>4. ToldByWriters'
  BY DEF ToldByWriters, Start
<1>5. ToldIsDense'
  BY DEF ToldIsDense
<1>6. BodiesCountOn'
  BY DEF BodiesCountOn
<1>7. PendingIsNext'
  BY DEF PendingIsNext, Pending, Contested
<1>8. Stored'
  BY <1>1 DEF Stored
<1> QED BY <1>2, <1>3, <1>4, <1>5, <1>6, <1>7, <1>8

\* Below the number that is drawn next, every number is told of, or stored.
LEMMA DenseToNext ==
    ASSUME Types, NEW S, log \subseteq S, NEW s,
           \A f \in S : Dense(S, f.session, f.seq)
    PROVE  Dense(S, s, NextSeq(s))
<1>1. /\ NextSeq(s) \in Nat
      /\ NextSeq(s) # 0 => \E g \in log : g.session = s /\ g.seq = NextSeq(s) - 1
  BY NextSeqIsNext DEF Types, TypeOK
<1>2. CASE NextSeq(s) = 0
  BY <1>2 DEF Dense
<1>3. CASE NextSeq(s) # 0
  <2>1. PICK g \in log : g.session = s /\ g.seq = NextSeq(s) - 1
    BY <1>1, <1>3
  <2>2. Dense(S, s, g.seq) /\ At(S, s, g.seq)
    BY <2>1 DEF At
  <2>3. g.seq \in Nat /\ g.seq + 1 = NextSeq(s)
    BY <1>1, <1>3, <2>1
  <2> QED BY <2>2, <2>3, DenseThrough
<1> QED BY <1>2, <1>3

LEMMA LogInvOfStartBody ==
    ASSUME LogInv, Types', NEW b \in Bodies, StartBody(b)
    PROVE  LogInv'
<1> DEFINE s == body'[b].session
           n == NextSeq(s)
<1>0. /\ Types /\ TypeOK /\ TypeOK'
      /\ QueuesAreChains /\ LineIsDrawn /\ ToldByWriters /\ ToldIsDense
      /\ BodiesCountOn /\ PendingIsNext /\ Stored
  BY DEF LogInv, Types
<1>1. /\ body[b].session = None
      /\ s \in Sessions
      /\ body'[b].next = n
      /\ body'[b].queue = <<>>
      /\ \A c \in Bodies : c # b => body'[c] = body[c]
  BY <1>0, StartBodyEffect
<1>2. log' = log /\ told' = told /\ line' = line /\ failed' = failed
  BY DEF StartBody
<1>3. /\ n \in Nat
      /\ n # 0 => \E g \in log : g.session = s /\ g.seq = n - 1
  BY <1>0, NextSeqIsNext DEF Types, TypeOK
<1>4. body[b].next = 0 /\ body[b].queue = <<>>
  BY <1>0, <1>1 DEF QueuesAreChains
<1>5. Len(<<>>) = 0 /\ DOMAIN <<>> = {}
  OBVIOUS
<1> HIDE DEF s, n
<1>6. /\ \A c \in Bodies : c # b => Start(c)' = Start(c)
      /\ Start(b)' = n
  <2>1. Start(b)' = n - 0
    BY <1>1, <1>5 DEF Start
  <2>2. n - 0 = n
    BY <1>3
  <2>3. \A c \in Bodies : c # b => Start(c)' = Start(c)
    BY <1>1 DEF Start
  <2> QED BY <2>1, <2>2, <2>3
<1>7. \A e \in told : e.by # b
  <2> TAKE e \in told
  <2>1. e \in Event
    BY <1>0 DEF TypeOK
  <2>2. e.by = b => e.seq < 0
    BY <1>0, <1>4, BodyIsNobody DEF ToldByWriters
  <2> QED BY <2>1, <2>2, EventFields
<1>8. QueuesAreChains'
  <2>1. ASSUME NEW c \in Bodies, c # b
        PROVE  /\ body'[c].session = None => body'[c].next = 0 /\ body'[c].queue = <<>>
               /\ Len(body'[c].queue) <= body'[c].next
               /\ \A i \in DOMAIN body'[c].queue :
                     /\ body'[c].queue[i] \in told'
                     /\ body'[c].queue[i].by = c
                     /\ body'[c].queue[i].session = body'[c].session
                     /\ body'[c].queue[i].seq = Start(c)' + i - 1
    BY <1>0, <1>1, <1>2, <1>6, <2>1 DEF QueuesAreChains
  <2>2. /\ body'[b].session # None
        /\ Len(body'[b].queue) <= body'[b].next
        /\ DOMAIN body'[b].queue = {}
    BY <1>1, <1>3, <1>5, BodyIsNobody DEF s
  <2> QED BY <2>1, <2>2 DEF QueuesAreChains
<1>9. LineIsDrawn'
  BY <1>0, <1>2 DEF LineIsDrawn
<1>10. ToldByWriters'
  <2>1. \A e \in told : e.by # None =>
           e.session = body'[e.by].session /\ e.seq < body'[e.by].next
    <3> TAKE e \in told
    <3> HAVE e.by # None
    <3>1. e.by \in Bodies /\ e.by # b
      BY <1>0, <1>7, EventFields DEF TypeOK
    <3> QED BY <1>0, <1>1, <3>1 DEF ToldByWriters
  <2>2. \A e \in log : e.by # None => e.seq < Start(e.by)'
    <3> TAKE e \in log
    <3> HAVE e.by # None
    <3>1. e \in told
      BY <1>0 DEF ToldByWriters
    <3>2. e.by \in Bodies /\ e.by # b
      BY <1>0, <1>7, <3>1, EventFields DEF TypeOK
    <3> QED BY <1>0, <1>6, <3>2 DEF ToldByWriters
  <2>3. log' \subseteq told' /\ \A e \in told' : e.by = None => At(log', e.session, e.seq)
    BY <1>0, <1>2 DEF ToldByWriters
  <2> QED BY <1>2, <2>1, <2>2, <2>3 DEF ToldByWriters
<1>11. ToldIsDense'
  <2>1. Dense(told, s, n)
    BY <1>0, DenseToNext DEF ToldByWriters, ToldIsDense, n
  <2>2. \A c \in Bodies : Dense(told, body'[c].session, body'[c].next)
    BY <1>0, <1>1, <2>1 DEF ToldIsDense, s
  <2> QED BY <1>0, <1>2, <2>2 DEF ToldIsDense
<1>12. BodiesCountOn'
  <2> SUFFICES ASSUME NEW c \in Bodies, NEW m \in Nat, m < body'[c].next
               PROVE  \/ \E e \in told : e.by = c /\ e.session = body'[c].session /\ e.seq = m
                      \/ \E g \in log : g.session = body'[c].session /\ g.seq >= m
    BY <1>2 DEF BodiesCountOn
  <2>1. CASE c = b
    <3>1. n # 0 /\ m <= n - 1
      BY <1>1, <1>3, <2>1
    <3> QED BY <1>1, <1>3, <2>1, <3>1 DEF s
  <2>2. CASE c # b
    BY <1>0, <1>1, <2>2 DEF BodiesCountOn
  <2> QED BY <2>1, <2>2
<1>13. PendingIsNext'
  <2>1. \A e \in Pending' : e \in Pending
    <3> TAKE e \in Pending'
    <3>1. PICK c \in Bodies : \E i \in DOMAIN body'[c].queue : body'[c].queue[i] = e
      BY PendingQueued
    <3>2. c # b
      BY <1>1, <1>5, <3>1
    <3> QED BY <1>1, <3>1, <3>2, PendingQueued
  <2> QED BY <1>0, <1>2, <2>1 DEF PendingIsNext, Contested
<1>14. Stored'
  <2> SUFFICES ASSUME ~failed
               PROVE  /\ \A f \in log : Dense(log, f.session, f.seq)
                      /\ \A c \in Bodies : Dense(log, body'[c].session, Start(c)')
    BY <1>2 DEF Stored
  <2>1. \A f \in log : Dense(log, f.session, f.seq)
    BY <1>0 DEF Stored
  <2>2. Dense(log, s, n)
    BY <1>0, <2>1, DenseToNext DEF n
  <2> QED BY <1>0, <1>1, <1>6, <2>1, <2>2 DEF Stored, s
<1> QED BY <1>8, <1>9, <1>10, <1>11, <1>12, <1>13, <1>14 DEF LogInv

LEMMA LogInvOfDrawLine ==
    ASSUME LogInv, Types', DrawLine
    PROVE  LogInv'
<1>0. /\ Types /\ TypeOK
      /\ QueuesAreChains /\ LineIsDrawn /\ ToldByWriters /\ ToldIsDense
      /\ BodiesCountOn /\ PendingIsNext /\ Stored
  BY DEF LogInv, Types
<1>1. PICK s \in Current : line' = [session |-> s, seq |-> NextSeq(s)]
  BY DEF DrawLine
<1>2. log' = log /\ told' = told /\ body' = body /\ failed' = failed
  BY DEF DrawLine
<1>3. /\ NextSeq(s) \in Nat
      /\ \A e \in log : e.session = s => e.seq < NextSeq(s)
      /\ NextSeq(s) # 0 => \E g \in log : g.session = s /\ g.seq = NextSeq(s) - 1
  BY <1>0, NextSeqIsNext DEF Types, TypeOK
<1>4. line'.session = s /\ line'.seq = NextSeq(s)
  BY <1>1
<1>5. LineIsDrawn'
  <2>1. line'.seq # 0 => At(log, line'.session, line'.seq - 1)
    BY <1>3, <1>4 DEF At
  <2>2. \A e \in told : e.by = None /\ e.session = line'.session => e.seq < line'.seq
    BY <1>0, <1>3, <1>4 DEF ToldByWriters, At
  <2> QED BY <1>2, <2>1, <2>2 DEF LineIsDrawn
<1>6. \A b \in Bodies : Start(b)' = Start(b)
  BY <1>2 DEF Start
<1>7. QueuesAreChains'
  BY <1>0, <1>2, <1>6 DEF QueuesAreChains
<1>8. ToldByWriters'
  BY <1>0, <1>2 DEF ToldByWriters, Start
<1>9. ToldIsDense'
  BY <1>0, <1>2 DEF ToldIsDense
<1>10. BodiesCountOn'
  BY <1>0, <1>2 DEF BodiesCountOn
<1>11. PendingIsNext'
  BY <1>0, <1>2 DEF PendingIsNext, Pending, Contested
<1>12. Stored'
  BY <1>0, <1>2, <1>6 DEF Stored
<1> QED BY <1>5, <1>7, <1>8, <1>9, <1>10, <1>11, <1>12 DEF LogInv

\* An event as it is told: new, the latest of its writer, and told too late only
\* where its place was told of before.
SameWriter(e, f) == e.by = f.by /\ e.session = f.session
Beyond(e, f) == f.session = e.session /\ f.seq > e.seq
Fresh(e) ==
    /\ e \notin told
    /\ \A f \in told : SameWriter(e, f) => f.seq < e.seq
    /\ (\E f \in told : Beyond(e, f)) => \E g \in told : SamePlace(g, e)

LEMMA EmitIsFresh ==
    ASSUME LogInv, NEW b \in Bodies, NEW e \in Event,
           e.session = body[b].session, e.seq = body[b].next, e.by = b
    PROVE  Fresh(e)
<1>0. TypeOK /\ ToldByWriters /\ ToldIsDense
  BY DEF LogInv, Types
<1>1. \A f \in told : f.by = b => f.seq < e.seq
  BY <1>0, BodyIsNobody DEF ToldByWriters
<1>2. e.seq \in Nat
  BY EventFields
<1>3. e \notin told
  BY <1>1, <1>2
<1>4. ASSUME NEW f \in told, Beyond(e, f)
      PROVE  \E g \in told : SamePlace(g, e)
  <2>1. Dense(told, f.session, f.seq) /\ e.seq < f.seq /\ f.session = e.session
    <3>1. f \in Event
      BY <1>0 DEF TypeOK
    <3>2. f.seq \in Nat /\ f.seq > e.seq /\ f.session = e.session
      BY <1>4, <3>1, EventFields DEF Beyond
    <3> QED BY <1>0, <1>2, <3>2 DEF ToldIsDense
  <2> QED BY <1>2, <2>1 DEF Dense, At, SamePlace
<1> QED BY <1>1, <1>3, <1>4 DEF Fresh, SameWriter

LEMMA WriteIsFresh ==
    ASSUME LogInv, NEW e \in Event, line # NoLine,
           e.session = line.session, e.seq = line.seq, e.by = None
    PROVE  Fresh(e)
<1>0. TypeOK /\ LineIsDrawn /\ ToldByWriters /\ ToldIsDense
  BY DEF LogInv, Types
<1>1. \A f \in told : SameWriter(e, f) => f.seq < e.seq
  BY <1>0 DEF LineIsDrawn, SameWriter
<1>2. e.seq \in Nat
  BY EventFields
<1>3. e \notin told
  BY <1>1, <1>2 DEF SameWriter
<1>4. ASSUME NEW f \in told, Beyond(e, f)
      PROVE  \E g \in told : SamePlace(g, e)
  <2>1. Dense(told, f.session, f.seq) /\ e.seq < f.seq /\ f.session = e.session
    <3>1. f \in Event
      BY <1>0 DEF TypeOK
    <3>2. f.seq \in Nat /\ f.seq > e.seq /\ f.session = e.session
      BY <1>4, <3>1, EventFields DEF Beyond
    <3> QED BY <1>0, <1>2, <3>2 DEF ToldIsDense
  <2> QED BY <1>2, <2>1 DEF Dense, At, SamePlace
<1> QED BY <1>1, <1>3, <1>4 DEF Fresh

LEMMA ContestedStays ==
    ASSUME told \subseteq told', NEW e, Contested(e)
    PROVE  Contested(e)'
  BY DEF Contested

LEMMA LogInvOfEmit ==
    ASSUME LogInv, Types', NEW b \in Bodies, Emit(b)
    PROVE  LogInv'
<1>0. /\ Types /\ TypeOK /\ TypeOK'
      /\ QueuesAreChains /\ LineIsDrawn /\ ToldByWriters /\ ToldIsDense
      /\ BodiesCountOn /\ PendingIsNext /\ Stored
  BY DEF LogInv, Types
<1>1. PICK e \in Event :
         /\ e.session = body[b].session /\ e.seq = body[b].next /\ e.by = b
         /\ Publish(e)
         /\ body'[b].session = body[b].session
         /\ body'[b].next = body[b].next + 1
         /\ body'[b].queue = Append(body[b].queue, e)
         /\ \A c \in Bodies : c # b => body'[c] = body[c]
         /\ body[b].session # None
  BY <1>0, EmitEffect
<1>2. told' = told \union {e}
  BY <1>1 DEF Publish
<1>3. log' = log /\ line' = line /\ failed' = failed
  BY DEF Emit
<1>4. Fresh(e)
  BY <1>1, EmitIsFresh
<1>5. /\ body[b].queue \in Seq(Event)
      /\ body[b].next \in Nat
      /\ Len(body[b].queue) \in Nat
      /\ DOMAIN body[b].queue = 1 .. Len(body[b].queue)
  BY <1>0, BodyFields
<1>6. /\ Len(body'[b].queue) = Len(body[b].queue) + 1
      /\ \A i \in DOMAIN body[b].queue : body'[b].queue[i] = body[b].queue[i]
      /\ body'[b].queue[Len(body[b].queue) + 1] = e
      /\ DOMAIN body'[b].queue = 1 .. Len(body[b].queue) + 1
  BY <1>1, <1>5, AppendAdds
<1>7. \A c \in Bodies : Start(c)' = Start(c)
  <2>1. \A c \in Bodies : c # b => Start(c)' = Start(c)
    BY <1>1 DEF Start
  <2>2. body'[b].next - Len(body'[b].queue) = body[b].next - Len(body[b].queue)
    <3>1. \A n, l \in Nat : (n + 1) - (l + 1) = n - l
      OBVIOUS
    <3>2. body'[b].next = body[b].next + 1
          /\ Len(body'[b].queue) = Len(body[b].queue) + 1
      BY <1>1, <1>6
    <3> QED BY <1>5, <3>1, <3>2
  <2> QED BY <2>1, <2>2 DEF Start
<1>8. told \subseteq told' /\ e \in told'
  BY <1>2
<1>9. QueuesAreChains'
  <2> SUFFICES ASSUME NEW c \in Bodies
               PROVE  /\ body'[c].session = None =>
                            body'[c].next = 0 /\ body'[c].queue = <<>>
                      /\ Len(body'[c].queue) <= body'[c].next
                      /\ \A i \in DOMAIN body'[c].queue :
                            /\ body'[c].queue[i] \in told'
                            /\ body'[c].queue[i].by = c
                            /\ body'[c].queue[i].session = body'[c].session
                            /\ body'[c].queue[i].seq = Start(c) + i - 1
    BY <1>7 DEF QueuesAreChains
  <2>1. CASE c # b
    BY <1>0, <1>1, <1>8, <2>1 DEF QueuesAreChains
  <2>2. CASE c = b
    <3>1. Len(body[b].queue) <= body[b].next
      BY <1>0 DEF QueuesAreChains
    <3>2. Len(body'[b].queue) <= body'[b].next
      BY <1>1, <1>5, <1>6, <3>1
    <3>3. ASSUME NEW i \in DOMAIN body'[b].queue
          PROVE  /\ body'[b].queue[i] \in told'
                 /\ body'[b].queue[i].by = b
                 /\ body'[b].queue[i].session = body'[b].session
                 /\ body'[b].queue[i].seq = Start(b) + i - 1
      <4>1. CASE i \in DOMAIN body[b].queue
        BY <1>0, <1>1, <1>6, <1>8, <4>1 DEF QueuesAreChains
      <4>2. CASE i \notin DOMAIN body[b].queue
        <5>1. i = Len(body[b].queue) + 1
          <6>1. i \in 1 .. Len(body[b].queue) + 1 /\ i \notin 1 .. Len(body[b].queue)
            BY <1>5, <1>6, <3>3, <4>2
          <6>2. \A l \in Nat : \A k \in 1 .. l + 1 : k \in 1 .. l \/ k = l + 1
            OBVIOUS
          <6> QED BY <1>5, <6>1, <6>2
        <5>2. e.seq = Start(b) + i - 1
          BY <1>1, <1>5, <5>1 DEF Start
        <5> QED BY <1>1, <1>6, <1>8, <5>1, <5>2
      <4> QED BY <4>1, <4>2
    <3> QED BY <1>1, <2>2, <3>2, <3>3
  <2> QED BY <2>1, <2>2
<1>10. LineIsDrawn'
  BY <1>0, <1>1, <1>2, <1>3, BodyIsNobody DEF LineIsDrawn
<1>11. ToldByWriters'
  <2>1. ASSUME NEW f \in told', f.by # None
        PROVE  f.session = body'[f.by].session /\ f.seq < body'[f.by].next
    <3>1. CASE f = e
      BY <1>1, <1>5, <3>1
    <3>2. CASE f # e
      <4>1. f \in told
        BY <1>2, <3>2
      <4>2. f \in Event
        BY <1>0, <4>1 DEF TypeOK
      <4>3. f.session = body[f.by].session /\ f.seq < body[f.by].next
            /\ f.by \in Bodies /\ f.seq \in Nat
        BY <1>0, <2>1, <4>1, <4>2, EventFields DEF ToldByWriters
      <4>4. CASE f.by = b
        BY <1>1, <1>5, <4>3, <4>4
      <4>5. CASE f.by # b
        BY <1>1, <4>3, <4>5
      <4> QED BY <4>4, <4>5
    <3> QED BY <3>1, <3>2
  <2>2. \A f \in told' : f.by = None => At(log, f.session, f.seq)
    BY <1>0, <1>1, <1>2, BodyIsNobody DEF ToldByWriters
  <2>3. \A f \in log : f.by # None => f.seq < Start(f.by)'
    <3> TAKE f \in log
    <3> HAVE f.by # None
    <3>1. f.by \in Bodies /\ f.seq < Start(f.by)
      BY <1>0, EventFields DEF ToldByWriters, TypeOK
    <3> QED BY <1>7, <3>1
  <2>4. log' \subseteq told'
    BY <1>0, <1>3, <1>8 DEF ToldByWriters
  <2> QED BY <1>3, <2>1, <2>2, <2>3, <2>4 DEF ToldByWriters
<1>12. ToldIsDense'
  <2>1. \A f \in told : Dense(told', f.session, f.seq)
    BY <1>0, <1>8, DenseGrows DEF ToldIsDense
  <2>2. \A c \in Bodies : Dense(told', body[c].session, body[c].next)
    BY <1>0, <1>8, DenseGrows DEF ToldIsDense
  <2>3. Dense(told', e.session, e.seq)
    BY <1>1, <2>2
  <2>4. At(told', e.session, e.seq)
    BY <1>8 DEF At
  <2>5. Dense(told', e.session, e.seq + 1)
    BY <2>3, <2>4, DenseThrough, EventFields
  <2>6. \A f \in told' : Dense(told', f.session, f.seq)
    BY <1>2, <2>1, <2>3
  <2>7. \A c \in Bodies : Dense(told', body'[c].session, body'[c].next)
    BY <1>1, <2>2, <2>5
  <2> QED BY <2>6, <2>7 DEF ToldIsDense
<1>13. BodiesCountOn'
  <2> SUFFICES ASSUME NEW c \in Bodies, NEW m \in Nat, m < body'[c].next
               PROVE  \/ \E f \in told' : f.by = c /\ f.session = body'[c].session /\ f.seq = m
                      \/ \E g \in log : g.session = body'[c].session /\ g.seq >= m
    BY <1>3 DEF BodiesCountOn
  <2>1. CASE c = b /\ m = body[b].next
    BY <1>1, <1>8, <2>1
  <2>2. CASE ~(c = b /\ m = body[b].next)
    <3>1. m < body[c].next /\ body'[c].session = body[c].session
      <4>1. CASE c # b
        BY <1>1, <4>1
      <4>2. CASE c = b
        <5>1. m < body[b].next + 1 /\ m # body[b].next
          BY <1>1, <2>2, <4>2
        <5>2. m < body[b].next
          BY <1>5, <5>1
        <5> QED BY <1>1, <4>2, <5>2
      <4> QED BY <4>1, <4>2
    <3>2. \/ \E f \in told : f.by = c /\ f.session = body[c].session /\ f.seq = m
          \/ \E g \in log : g.session = body[c].session /\ g.seq >= m
      BY <1>0, <3>1 DEF BodiesCountOn
    <3> QED BY <1>8, <3>1, <3>2
  <2> QED BY <2>1, <2>2
<1>14. PendingIsNext'
  <2> SUFFICES ASSUME NEW d \in Pending', NEW g \in log,
                      g.session = d.session, g.seq > d.seq
               PROVE  Contested(d)'
    BY <1>3 DEF PendingIsNext
  <2>1. CASE d = e
    <3>1. g \in told
      BY <1>0 DEF ToldByWriters
    <3>2. PICK f \in told : SamePlace(f, e)
      BY <1>4, <2>1, <3>1 DEF Fresh, Beyond
    <3>3. f # e
      BY <1>4 DEF Fresh
    <3>4. f \in told' \ {e} /\ SamePlace(e, f)
      BY <1>8, <3>2, <3>3 DEF SamePlace
    <3> QED BY <2>1, <3>4 DEF Contested
  <2>2. CASE d # e
    <3>1. d \in Pending
      <4>1. PICK c \in Bodies : \E i \in DOMAIN body'[c].queue : body'[c].queue[i] = d
        BY PendingQueued
      <4>2. PICK i \in DOMAIN body'[c].queue : body'[c].queue[i] = d
        BY <4>1
      <4>3. CASE c = b
        <5>1. i \in DOMAIN body[b].queue
          <6>1. i \in 1 .. Len(body[b].queue) + 1
            BY <1>6, <4>2, <4>3
          <6>2. i # Len(body[b].queue) + 1
            BY <1>6, <2>2, <4>2, <4>3
          <6> QED BY <1>5, <6>1, <6>2
        <5> QED BY <1>6, <4>2, <4>3, <5>1, PendingQueued
      <4>4. CASE c # b
        BY <1>1, <4>2, <4>4, PendingQueued
      <4> QED BY <4>3, <4>4
    <3>2. Contested(d)
      BY <1>0, <3>1 DEF PendingIsNext
    <3> QED BY <1>8, <3>2, ContestedStays
  <2> QED BY <2>1, <2>2
<1>15. Stored'
  <2>1. \A c \in Bodies : body'[c].session = body[c].session
    BY <1>1
  <2> QED BY <1>0, <1>3, <1>7, <2>1 DEF Stored
<1> QED BY <1>9, <1>10, <1>11, <1>12, <1>13, <1>14, <1>15 DEF LogInv

\* An event that waits, and one of the log at its place or above it.
LEMMA PendingIsContested ==
    ASSUME LogInv, NEW d \in Pending, NEW g \in log,
           g.session = d.session, g.seq >= d.seq
    PROVE  Contested(d)
<1>0. TypeOK /\ QueuesAreChains /\ ToldByWriters /\ PendingIsNext
  BY DEF LogInv, Types
<1>1. d \in Event /\ d \notin log /\ g \in Event /\ g \in told
  BY <1>0, PendingIsTold DEF TypeOK, ToldByWriters
<1>2. d.seq \in Nat /\ g.seq \in Nat
  BY <1>1, EventFields
<1>3. CASE g.seq > d.seq
  BY <1>0, <1>3 DEF PendingIsNext
<1>4. CASE g.seq = d.seq
  <2>1. g \in told \ {d} /\ SamePlace(d, g)
    BY <1>1, <1>4 DEF SamePlace
  <2> QED BY <2>1 DEF Contested
<1> QED BY <1>2, <1>3, <1>4

LEMMA LogInvOfAppendNext ==
    ASSUME LogInv, Types', NEW b \in Bodies, AppendNext(b)
    PROVE  LogInv'
<1> DEFINE h == Head(body[b].queue)
<1>0. /\ Types /\ TypeOK /\ TypeOK'
      /\ QueuesAreChains /\ LineIsDrawn /\ ToldByWriters /\ ToldIsDense
      /\ BodiesCountOn /\ PendingIsNext /\ Stored
  BY DEF LogInv, Types
<1>1. /\ body[b].queue # <<>>
      /\ h \in Event
      /\ body'[b].session = body[b].session
      /\ body'[b].next = body[b].next
      /\ body'[b].queue = Tail(body[b].queue)
      /\ \A c \in Bodies : c # b => body'[c] = body[c]
  BY <1>0, AppendNextEffect
<1>2. line' = line /\ told' = told
  BY DEF AppendNext
<1>3. \/ Insert(h) /\ failed' = failed
      \/ failed' = TRUE /\ log' = log
  BY DEF AppendNext
<1>4. /\ log \subseteq log'
      /\ \A f \in log' : f \in log \/ f = h
      /\ ~failed' => ~failed /\ \E f \in log' : SamePlace(f, h)
  <2>1. CASE Insert(h) /\ failed' = failed
    BY <1>0, <1>1, <2>1, InsertGrows
  <2>2. CASE failed' = TRUE /\ log' = log
    BY <2>2
  <2> QED BY <1>3, <2>1, <2>2
<1>5. /\ body[b].queue \in Seq(Event)
      /\ body[b].next \in Nat
  BY <1>0, BodyFields
<1>6. /\ Len(body[b].queue) \in Nat \ {0}
      /\ Len(body'[b].queue) = Len(body[b].queue) - 1
      /\ h = body[b].queue[1]
      /\ DOMAIN body[b].queue = 1 .. Len(body[b].queue)
      /\ DOMAIN body'[b].queue = 1 .. Len(body[b].queue) - 1
      /\ \A i \in DOMAIN body'[b].queue :
            body'[b].queue[i] = body[b].queue[i + 1] /\ i + 1 \in DOMAIN body[b].queue
  BY <1>1, <1>5, TailRemoves
<1> HIDE DEF h
<1>7. /\ h \in told /\ h.by = b /\ h.session = body[b].session /\ h.seq = Start(b)
      /\ Start(b) \in Nat
  <2>1. 1 \in DOMAIN body[b].queue
    BY <1>6
  <2>2. Start(b) + 1 - 1 = Start(b)
    BY <1>5, <1>6 DEF Start
  <2>3. h \in told /\ h.by = b /\ h.session = body[b].session /\ h.seq = Start(b)
    BY <1>0, <1>6, <2>1, <2>2 DEF QueuesAreChains
  <2> QED BY <1>1, <2>3, EventFields
<1>8. /\ \A c \in Bodies : c # b => Start(c)' = Start(c)
      /\ Start(b)' = Start(b) + 1
  <2>1. \A n \in Nat, l \in Nat \ {0} : n - (l - 1) = (n - l) + 1
    OBVIOUS
  <2>2. body[b].next - (Len(body[b].queue) - 1)
        = (body[b].next - Len(body[b].queue)) + 1
    BY <1>5, <1>6, <2>1
  <2>3. body[b].next - Len(body'[b].queue) = Start(b) + 1
    BY <1>6, <2>2 DEF Start
  <2> QED BY <1>1, <2>3 DEF Start
<1>9. QueuesAreChains'
  <2> SUFFICES ASSUME NEW c \in Bodies
               PROVE  /\ body'[c].session = None =>
                            body'[c].next = 0 /\ body'[c].queue = <<>>
                      /\ Len(body'[c].queue) <= body'[c].next
                      /\ \A i \in DOMAIN body'[c].queue :
                            /\ body'[c].queue[i] \in told'
                            /\ body'[c].queue[i].by = c
                            /\ body'[c].queue[i].session = body'[c].session
                            /\ body'[c].queue[i].seq = Start(c)' + i - 1
    BY DEF QueuesAreChains
  <2>1. CASE c # b
    BY <1>0, <1>1, <1>2, <1>8, <2>1 DEF QueuesAreChains
  <2>2. CASE c = b
    <3>1. Len(body'[b].queue) <= body'[b].next
      BY <1>0, <1>1, <1>5, <1>6 DEF QueuesAreChains
    <3>2. ASSUME NEW i \in DOMAIN body'[b].queue
          PROVE  /\ body'[b].queue[i] \in told'
                 /\ body'[b].queue[i].by = b
                 /\ body'[b].queue[i].session = body'[b].session
                 /\ body'[b].queue[i].seq = Start(b)' + i - 1
      <4>1. i \in Nat /\ Start(b) + (i + 1) - 1 = Start(b) + 1 + i - 1
        BY <1>5, <1>6, <1>7
      <4>2. body[b].queue[i + 1].seq = Start(b) + (i + 1) - 1
        BY <1>0, <1>6 DEF QueuesAreChains
      <4> QED BY <1>0, <1>1, <1>2, <1>6, <1>8, <4>1, <4>2 DEF QueuesAreChains
    <3>3. body'[b].session # None
      BY <1>0, <1>1 DEF QueuesAreChains
    <3> QED BY <2>2, <3>1, <3>2, <3>3
  <2> QED BY <2>1, <2>2
<1>10. LineIsDrawn'
  BY <1>0, <1>2, <1>4 DEF LineIsDrawn, At
<1>11. ToldByWriters'
  <2>1. \A e \in told : e.by # None =>
           e.session = body'[e.by].session /\ e.seq < body'[e.by].next
    <3> TAKE e \in told
    <3> HAVE e.by # None
    <3>1. e.by \in Bodies
      BY <1>0, EventFields DEF TypeOK
    <3> QED BY <1>0, <1>1, <3>1 DEF ToldByWriters
  <2>2. ASSUME NEW e \in log', e.by # None
        PROVE  e.seq < Start(e.by)'
    <3>1. CASE e = h
      BY <1>7, <1>8, <3>1
    <3>2. CASE e # h
      <4>1. e \in log /\ e \in Event
        BY <1>0, <1>4, <3>2 DEF TypeOK
      <4>2. e.by \in Bodies /\ e.seq < Start(e.by) /\ e.seq \in Nat
        BY <1>0, <2>2, <4>1, EventFields DEF ToldByWriters
      <4>3. CASE e.by = b
        BY <1>7, <1>8, <4>2, <4>3
      <4>4. CASE e.by # b
        BY <1>8, <4>2, <4>4
      <4> QED BY <4>3, <4>4
    <3> QED BY <3>1, <3>2
  <2>3. \A e \in told : e.by = None => At(log', e.session, e.seq)
    BY <1>0, <1>4 DEF ToldByWriters, At
  <2>4. log' \subseteq told
    BY <1>0, <1>4, <1>7 DEF ToldByWriters
  <2> QED BY <1>2, <2>1, <2>2, <2>3, <2>4 DEF ToldByWriters
<1>12. ToldIsDense'
  <2>1. \A c \in Bodies : body'[c].session = body[c].session /\ body'[c].next = body[c].next
    BY <1>1
  <2> QED BY <1>0, <1>2, <2>1 DEF ToldIsDense
<1>13. BodiesCountOn'
  <2>1. \A c \in Bodies : body'[c].session = body[c].session /\ body'[c].next = body[c].next
    BY <1>1
  <2> QED BY <1>0, <1>2, <1>4, <2>1 DEF BodiesCountOn
<1>14. PendingIsNext'
  <2> SUFFICES ASSUME NEW d \in Pending', NEW g \in log',
                      g.session = d.session, g.seq > d.seq
               PROVE  Contested(d)
    BY <1>2 DEF PendingIsNext, Contested
  <2>1. PICK c \in Bodies : \E i \in DOMAIN body'[c].queue : body'[c].queue[i] = d
    BY PendingQueued
  <2>2. PICK i \in DOMAIN body'[c].queue : body'[c].queue[i] = d
    BY <2>1
  <2>3. /\ d \in Pending
        /\ c = b => d.seq > h.seq
        /\ d.session = body[c].session /\ d.by = c
    <3>1. CASE c = b
      <4>0. i \in DOMAIN body'[b].queue
        BY <2>2, <3>1
      <4>1. body[b].queue[i + 1] = d /\ i + 1 \in DOMAIN body[b].queue /\ i \in Nat /\ i >= 1
        BY <1>6, <2>2, <3>1, <4>0
      <4>2. d \in Pending
        BY <4>1, PendingQueued
      <4>3. d.seq = Start(b) + (i + 1) - 1 /\ d.session = body[b].session /\ d.by = b
        BY <1>0, <4>1 DEF QueuesAreChains
      <4>4. d.seq > h.seq
        BY <1>7, <4>1, <4>3
      <4> QED BY <3>1, <4>2, <4>3, <4>4
    <3>2. CASE c # b
      <4>1. body[c].queue[i] = d /\ i \in DOMAIN body[c].queue
        BY <1>1, <2>2, <3>2
      <4>2. d \in Pending
        BY <4>1, PendingQueued
      <4>3. d.session = body[c].session /\ d.by = c
        BY <1>0, <4>1 DEF QueuesAreChains
      <4> QED BY <3>2, <4>2, <4>3
    <3> QED BY <3>1, <3>2
  <2>4. d \in Event /\ d.seq \in Nat /\ h.seq \in Nat
    BY <1>0, <1>1, <2>3, PendingIsTold, EventFields
  <2>5. CASE g \in log
    BY <1>0, <2>3, <2>5 DEF PendingIsNext
  <2>6. CASE g \notin log
    <3>1. g = h
      BY <1>4, <2>6
    <3>2. c # b
      BY <2>3, <2>4, <3>1
    <3>3. h.seq < body[b].next /\ d.seq < body[b].next /\ d.session = body[b].session
      <4>1. h.seq < body[b].next
        BY <1>5, <1>6, <1>7 DEF Start
      <4> QED BY <1>5, <1>7, <2>4, <3>1, <4>1
    <3>4. \/ \E e \in told : e.by = b /\ e.session = body[b].session /\ e.seq = d.seq
          \/ \E e \in log : e.session = body[b].session /\ e.seq >= d.seq
      BY <1>0, <2>4, <3>3 DEF BodiesCountOn
    <3>5. CASE \E e \in told : e.by = b /\ e.session = body[b].session /\ e.seq = d.seq
      <4>1. PICK e \in told : e.by = b /\ e.session = body[b].session /\ e.seq = d.seq
        BY <3>5
      <4>2. e \in told \ {d} /\ SamePlace(d, e)
        BY <2>3, <3>2, <3>3, <4>1 DEF SamePlace
      <4> QED BY <4>2 DEF Contested
    <3>6. CASE \E e \in log : e.session = body[b].session /\ e.seq >= d.seq
      BY <2>3, <3>3, <3>6, PendingIsContested
    <3> QED BY <3>4, <3>5, <3>6
  <2> QED BY <2>5, <2>6
<1>15. Stored'
  <2> SUFFICES ASSUME ~failed'
               PROVE  /\ \A f \in log' : Dense(log', f.session, f.seq)
                      /\ \A c \in Bodies : Dense(log', body'[c].session, Start(c)')
    BY DEF Stored
  <2>1. /\ \A f \in log : Dense(log', f.session, f.seq)
        /\ \A c \in Bodies : Dense(log', body[c].session, Start(c))
    <3>1. ~failed
      BY <1>4
    <3> QED BY <1>0, <1>4, <3>1, DenseGrows DEF Stored
  <2>2. Dense(log', h.session, h.seq)
    BY <1>7, <2>1
  <2>3. At(log', h.session, h.seq)
    BY <1>4 DEF At, SamePlace
  <2>4. Dense(log', body[b].session, Start(b) + 1)
    BY <1>7, <2>2, <2>3, DenseThrough
  <2> QED BY <1>1, <1>4, <1>8, <2>1, <2>2, <2>4
<1> QED BY <1>9, <1>10, <1>11, <1>12, <1>13, <1>14, <1>15 DEF LogInv

LEMMA LogInvOfWriteLine ==
    ASSUME LogInv, Types', WriteLine
    PROVE  LogInv'
<1>0. /\ Types /\ TypeOK /\ TypeOK'
      /\ QueuesAreChains /\ LineIsDrawn /\ ToldByWriters /\ ToldIsDense
      /\ BodiesCountOn /\ PendingIsNext /\ Stored
  BY DEF LogInv, Types
<1>1. PICK e \in Event :
         /\ e.session = line.session /\ e.seq = line.seq /\ e.by = None
         /\ Insert(e)
         /\ told' = told \union {e}
         /\ line # NoLine
  BY <1>0, WriteLineEffect DEF Types
<1>2. /\ log \subseteq log'
      /\ \A f \in log' : f \in log \/ f = e
      /\ \E f \in log' : SamePlace(f, e)
  BY <1>0, <1>1, InsertGrows
<1>3. told' = told \union {e}
  BY <1>1
<1>4. body' = body /\ failed' = failed /\ line' = NoLine
  BY DEF WriteLine
<1>5. told \subseteq told' /\ e \in told'
  BY <1>3
<1>6. \A b \in Bodies : Start(b)' = Start(b)
  BY <1>4 DEF Start
<1>7. e.seq \in Nat /\ (e.seq # 0 => At(log, e.session, e.seq - 1))
  BY <1>0, <1>1, EventFields DEF LineIsDrawn
<1>8. QueuesAreChains'
  BY <1>0, <1>4, <1>5, <1>6 DEF QueuesAreChains
<1>9. LineIsDrawn'
  BY <1>4 DEF LineIsDrawn
<1>10. ToldByWriters'
  <2>1. \A f \in told' : f.by # None => f \in told
    BY <1>1, <1>3
  <2>2. \A f \in log' : f.by # None => f \in log
    BY <1>1, <1>2
  <2>3. \A f \in told' : f.by = None => At(log', f.session, f.seq)
    BY <1>0, <1>2, <1>3 DEF ToldByWriters, At, SamePlace
  <2>4. log' \subseteq told'
    BY <1>0, <1>2, <1>5 DEF ToldByWriters
  <2>5. \A f \in log : f.by # None => f.seq < Start(f.by)'
    <3> TAKE f \in log
    <3> HAVE f.by # None
    <3>1. f.by \in Bodies /\ f.seq < Start(f.by)
      BY <1>0, EventFields DEF ToldByWriters, TypeOK
    <3> QED BY <1>6, <3>1
  <2> QED BY <1>0, <1>4, <2>1, <2>2, <2>3, <2>4, <2>5 DEF ToldByWriters
<1>11. ToldIsDense'
  <2>1. \A f \in told : Dense(told', f.session, f.seq)
    BY <1>0, <1>5, DenseGrows DEF ToldIsDense
  <2>2. \A c \in Bodies : Dense(told', body[c].session, body[c].next)
    BY <1>0, <1>5, DenseGrows DEF ToldIsDense
  <2>3. Dense(told', e.session, e.seq)
    <3>1. CASE e.seq = 0
      BY <3>1 DEF Dense
    <3>2. CASE e.seq # 0
      <4>1. PICK g \in log : g.session = e.session /\ g.seq = e.seq - 1
        BY <1>7, <3>2 DEF At
      <4>2. g \in told /\ g \in told' /\ g.seq \in Nat /\ g.seq + 1 = e.seq
        BY <1>0, <1>5, <1>7, <3>2, <4>1 DEF ToldByWriters
      <4>3. Dense(told', e.session, g.seq) /\ At(told', e.session, g.seq)
        BY <2>1, <4>1, <4>2 DEF At
      <4> QED BY <4>2, <4>3, DenseThrough
    <3> QED BY <3>1, <3>2
  <2> QED BY <1>3, <1>4, <2>1, <2>2, <2>3 DEF ToldIsDense
<1>12. BodiesCountOn'
  BY <1>0, <1>2, <1>4, <1>5 DEF BodiesCountOn
<1>13. PendingIsNext'
  <2> SUFFICES ASSUME NEW d \in Pending', NEW g \in log',
                      g.session = d.session, g.seq > d.seq
               PROVE  Contested(d)'
    BY DEF PendingIsNext
  <2>1. d \in Pending
    BY <1>4 DEF Pending
  <2>2. Contested(d)
    <3>1. CASE g \in log
      BY <1>0, <2>1, <3>1 DEF PendingIsNext
    <3>2. CASE g \notin log
      <4>1. g = e
        BY <1>2, <3>2
      <4>2. d.seq \in Nat /\ e.seq > d.seq
        BY <1>0, <2>1, <4>1, PendingIsTold, EventFields
      <4>3. PICK f \in log : f.session = e.session /\ f.seq = e.seq - 1
        BY <1>7, <4>2 DEF At
      <4>4. f.seq >= d.seq /\ f.session = d.session
        BY <1>7, <4>1, <4>2, <4>3
      <4> QED BY <2>1, <4>4, PendingIsContested
    <3> QED BY <3>1, <3>2
  <2> QED BY <1>5, <2>2, ContestedStays
<1>14. Stored'
  <2> SUFFICES ASSUME ~failed
               PROVE  /\ \A f \in log' : Dense(log', f.session, f.seq)
                      /\ \A c \in Bodies : Dense(log', body[c].session, Start(c))
    BY <1>4, <1>6 DEF Stored
  <2>1. /\ \A f \in log : Dense(log', f.session, f.seq)
        /\ \A c \in Bodies : Dense(log', body[c].session, Start(c))
    BY <1>0, <1>2, DenseGrows DEF Stored
  <2>2. Dense(log', e.session, e.seq)
    <3>1. CASE e.seq = 0
      BY <3>1 DEF Dense
    <3>2. CASE e.seq # 0
      <4>1. PICK g \in log : g.session = e.session /\ g.seq = e.seq - 1
        BY <1>7, <3>2 DEF At
      <4>2. g \in log' /\ g.seq \in Nat /\ g.seq + 1 = e.seq
        BY <1>2, <1>7, <3>2, <4>1
      <4>3. Dense(log', e.session, g.seq) /\ At(log', e.session, g.seq)
        BY <2>1, <4>1, <4>2 DEF At
      <4> QED BY <4>2, <4>3, DenseThrough
    <3> QED BY <3>1, <3>2
  <2> QED BY <1>2, <2>1, <2>2
<1> QED BY <1>8, <1>9, <1>10, <1>11, <1>12, <1>13, <1>14 DEF LogInv

LEMMA LogInvStep == LogInv /\ [Next]_vars => LogInv'
<1> SUFFICES ASSUME LogInv, [Next]_vars PROVE LogInv'
  OBVIOUS
<1>0. Types'
  BY TypesStep DEF LogInv
<1>1. ASSUME NEW b \in Bodies, StartBody(b)
      PROVE  LogInv'
  BY <1>0, <1>1, LogInvOfStartBody
<1>2. ASSUME NEW b \in Bodies, Emit(b)
      PROVE  LogInv'
  BY <1>0, <1>2, LogInvOfEmit
<1>3. ASSUME NEW b \in Bodies, AppendNext(b)
      PROVE  LogInv'
  BY <1>0, <1>3, LogInvOfAppendNext
<1>4. CASE DrawLine
  BY <1>0, <1>4, LogInvOfDrawLine
<1>5. CASE WriteLine
  BY <1>0, <1>5, LogInvOfWriteLine
<1>6. CASE \E s \in Sessions : Plan(s)
  BY <1>0, <1>6, LogInvOfQuiet DEF Plan
<1>7. CASE \E r \in planned : Summarise(r)
  BY <1>0, <1>7, LogInvOfQuiet DEF Summarise
<1>8. CASE \E v \in Viewers : Connection(v) \/ Disconnect(v)
  BY <1>0, <1>8, LogInvOfQuiet
     DEF Connection, Attach, ReadLog, Flush, Receive, Disconnect
<1>9. CASE UNCHANGED vars
  BY <1>0, <1>9, LogInvOfQuiet DEF vars
<1> QED BY <1>1, <1>2, <1>3, <1>4, <1>5, <1>6, <1>7, <1>8, <1>9 DEF Next

\* The log only grows, and while no append throws it grows at its end.
LEMMA LogGrowsAtEnd ==
    ASSUME LogInv, [Next]_vars
    PROVE  /\ log \subseteq log'
           /\ failed => failed'
           /\ ~failed' => \A e \in log' \ log : \A f \in log :
                 f.session = e.session => f.seq < e.seq
<1>0. /\ Types /\ TypeOK /\ Stored
  BY DEF LogInv, Types
<1>1. ASSUME NEW e \in Event, Insert(e), ~failed, NEW g \in log' \ log, NEW f \in log,
             f.session = g.session
      PROVE  f.seq < g.seq
  <2>1. /\ \A x \in log' : x \in log \/ x = e
        /\ log' # log => \A x \in log : ~SamePlace(x, e)
    BY <1>0, <1>1, InsertGrows
  <2>2. g = e /\ \A x \in log : ~SamePlace(x, e)
    BY <1>1, <2>1
  <2>3. f \in Event /\ f.seq \in Nat /\ e.seq \in Nat
    BY <1>0, <1>1, EventFields DEF TypeOK
  <2>4. f.seq # e.seq
    BY <1>1, <2>2 DEF SamePlace
  <2>5. ~ (e.seq < f.seq)
    <3>1. ASSUME e.seq < f.seq PROVE FALSE
      <4>1. Dense(log, f.session, f.seq)
        BY <1>0, <1>1 DEF Stored
      <4>2. At(log, e.session, e.seq)
        BY <1>1, <2>2, <2>3, <3>1, <4>1 DEF Dense
      <4> QED BY <2>2, <4>2 DEF At, SamePlace
    <3> QED BY <3>1
  <2> QED BY <2>2, <2>3, <2>4, <2>5
<1>2. CASE \E b \in Bodies : AppendNext(b)
  <2>1. PICK b \in Bodies : AppendNext(b)
    BY <1>2
  <2>2. Head(body[b].queue) \in Event
    BY <1>0, <2>1, AppendNextEffect
  <2>3. CASE Insert(Head(body[b].queue)) /\ UNCHANGED <<failed, left>>
    <3>1. log \subseteq log'
      BY <1>0, <2>2, <2>3, InsertGrows
    <3> QED BY <1>1, <2>2, <2>3, <3>1
  <2>4. CASE failed' = TRUE /\ UNCHANGED log
    BY <2>4
  <2> QED BY <2>1, <2>3, <2>4 DEF AppendNext
<1>3. CASE WriteLine
  <2>1. PICK e \in Event : Insert(e)
    BY <1>0, <1>3, WriteLineEffect DEF Types
  <2>2. log \subseteq log'
    BY <1>0, <2>1, InsertGrows
  <2>3. failed' = failed
    BY <1>3 DEF WriteLine
  <2> QED BY <1>1, <2>1, <2>2, <2>3
<1>4. CASE UNCHANGED <<log, failed>>
  BY <1>4
<1>5. CASE \E b \in Bodies : StartBody(b) \/ Emit(b)
  BY <1>4, <1>5 DEF StartBody, Emit
<1>6. CASE DrawLine \/ \E s \in Sessions : Plan(s)
  BY <1>4, <1>6 DEF DrawLine, Plan
<1>7. CASE \E r \in planned : Summarise(r)
  BY <1>4, <1>7 DEF Summarise
<1>8. CASE \E v \in Viewers : Connection(v) \/ Disconnect(v)
  BY <1>4, <1>8 DEF Connection, Attach, ReadLog, Flush, Receive, Disconnect
<1>9. CASE UNCHANGED vars
  BY <1>4, <1>9 DEF vars
<1> QED BY <1>2, <1>3, <1>5, <1>6, <1>7, <1>8, <1>9 DEF Next

LEMMA NumbersAreDense == LogInv => LogIsDense
<1> SUFFICES ASSUME LogInv, ~failed, NEW s \in Sessions
             PROVE  Seqs(LogOf(s)) = 0 .. Cardinality(LogOf(s)) - 1
  BY DEF LogIsDense
<1> DEFINE S == LogOf(s)
           n == NextSeq(s)
<1>0. Types /\ TypeOK /\ Stored /\ LogIsSet
  BY DEF LogInv, Types
<1>1. S \in SUBSET Event /\ IsFiniteSet(S)
  BY <1>0, LogOfIsFinite DEF Types, TypeOK
<1>2. n \in Nat /\ \A e \in log : e.session = s => e.seq < n
  BY <1>0, NextSeqIsNext DEF Types, TypeOK
<1>3. Dense(log, s, n)
  BY <1>0, DenseToNext DEF Stored
<1>4. \A k : k \in Seqs(S) <=> \E e \in log : e.session = s /\ e.seq = k
  BY DEF Seqs, LogOf
<1>5. \A k \in Seqs(S) : k \in 0 .. n - 1
  <2> TAKE k \in Seqs(S)
  <2>1. PICK e \in log : e.session = s /\ e.seq = k
    BY <1>4
  <2>2. e.seq \in Nat /\ e.seq < n
    BY <1>0, <1>2, <2>1, EventFields DEF TypeOK
  <2> QED BY <1>2, <2>1, <2>2
<1>6. \A k \in 0 .. n - 1 : k \in Seqs(S)
  BY <1>2, <1>3, <1>4 DEF Dense, At
<1>7. Seqs(S) = 0 .. n - 1
  BY <1>5, <1>6
<1> DEFINE number == [e \in S |-> e.seq]
<1>8. number \in Surjection(S, Seqs(S))
  BY DEF Surjection, Seqs
<1>9. number \in Injection(S, Seqs(S))
  <2>1. \A e, f \in S : e.seq = f.seq => e = f
    BY <1>0 DEF LogIsSet, SamePlace, LogOf
  <2>2. number \in [S -> Seqs(S)]
    BY DEF Seqs
  <2>3. \A e, f \in S : number[e] = number[f] => e = f
    BY <2>1
  <2> HIDE DEF number, S
  <2> QED BY <2>2, <2>3 DEF Injection, IsInjective
<1>10. Cardinality(Seqs(S)) = Cardinality(S)
  BY <1>1, <1>8, <1>9, FS_Surjection
<1>11. Cardinality(0 .. n - 1) = n
  BY <1>2, FS_Interval
<1> QED BY <1>7, <1>10, <1>11

LEMMA ForkPointsStep ==
    ASSUME LogInv, [Next]_vars, ~failed', NEW s \in Sessions
    PROVE  {e \in log' : e.session = s /\ e.seq < NextSeq(s)} = LogOf(s)
<1>0. TypeOK
  BY DEF LogInv, Types
<1>1. /\ NextSeq(s) \in Nat
      /\ \A e \in log : e.session = s => e.seq < NextSeq(s)
      /\ NextSeq(s) # 0 => \E g \in log : g.session = s /\ g.seq = NextSeq(s) - 1
  BY NextSeqIsNext DEF LogInv, Types, TypeOK
<1>2. /\ log \subseteq log'
      /\ \A e \in log' \ log : \A f \in log : f.session = e.session => f.seq < e.seq
  BY LogGrowsAtEnd
<1>3. log' \subseteq Event
  BY TypesStep DEF LogInv, Types, TypeOK
<1>4. ASSUME NEW e \in log' \ log, e.session = s
      PROVE  ~ (e.seq < NextSeq(s))
  <2>1. e.seq \in Nat
    BY <1>3, EventFields
  <2>2. CASE NextSeq(s) = 0
    BY <2>1, <2>2
  <2>3. CASE NextSeq(s) # 0
    <3>1. PICK g \in log : g.session = s /\ g.seq = NextSeq(s) - 1
      BY <1>1, <2>3
    <3>2. g.seq < e.seq
      BY <1>2, <1>4, <3>1
    <3> QED BY <1>1, <2>1, <3>1, <3>2
  <2> QED BY <2>2, <2>3
<1> QED BY <1>1, <1>2, <1>4 DEF LogOf

-----------------------------------------------------------------------------
(* The summaries. Those of a Session cover its numbers from the first to   *)
(* some k, and whatever is planned begins at k, or where a summary begins  *)
(* that was inserted meanwhile.                                            *)

TiledTo(s, k) ==
    /\ \A n \in Nat :
          n < k <=> \E r \in summaries : r.session = s /\ r.from <= n /\ n <= r.to
    /\ \A p \in planned : p.session = s =>
          p.from = k \/ \E q \in summaries : q.session = s /\ q.from = p.from

Counted(r) ==
    /\ r.from <= r.to
    /\ At(log, r.session, r.to)
    /\ Cardinality({e \in log : Covers(r, e)}) = r.count

Apart(r, q) == q.session = r.session => q.to < r.from \/ r.to < q.from

Tiled ==
    ~failed =>
        /\ \A s \in Sessions : \E k \in Nat : TiledTo(s, k)
        /\ \A r \in summaries \union planned : Counted(r)
        /\ \A r \in summaries : \A q \in summaries \ {r} : Apart(r, q)

LEMMA SummaryFields ==
    ASSUME NEW r \in Summary
    PROVE  r.session \in Sessions /\ r.from \in Nat /\ r.to \in Nat /\ r.count \in Nat
  BY DEF Summary

\* What a summary counts stays as it is, however the log grows.
LEMMA CountStays ==
    ASSUME TypeOK, TypeOK', NEW r \in Summary, Counted(r),
           log \subseteq log',
           \A e \in log' \ log : \A f \in log : f.session = e.session => f.seq < e.seq
    PROVE  Counted(r)'
<1>1. PICK g \in log : g.session = r.session /\ g.seq = r.to
  BY DEF Counted, At
<1>2. \A e \in log' : Covers(r, e) => e \in log
  <2> SUFFICES ASSUME NEW e \in log', Covers(r, e), e \notin log
               PROVE  FALSE
    OBVIOUS
  <2>1. e.seq \in Nat /\ g.seq \in Nat /\ r.to \in Nat
    BY EventFields, SummaryFields DEF TypeOK
  <2>2. g.seq < e.seq /\ e.seq <= r.to
    BY <1>1 DEF Covers
  <2> QED BY <1>1, <2>1, <2>2
<1>3. {e \in log' : Covers(r, e)} = {e \in log : Covers(r, e)}
  BY <1>2
<1>4. At(log', r.session, r.to)
  BY <1>1 DEF At
<1> QED BY <1>3, <1>4 DEF Counted, Covers

LEMMA TiledOfGrowth ==
    ASSUME LogInv, Tiled, [Next]_vars, UNCHANGED <<summaries, planned>>
    PROVE  Tiled'
<1> SUFFICES ASSUME ~failed'
             PROVE  /\ \A s \in Sessions : \E k \in Nat : TiledTo(s, k)'
                    /\ \A r \in summaries \union planned : Counted(r)'
                    /\ \A r \in summaries : \A q \in summaries \ {r} : Apart(r, q)
  BY DEF Tiled, Apart
<1>1. /\ log \subseteq log'
      /\ ~failed
      /\ \A e \in log' \ log : \A f \in log : f.session = e.session => f.seq < e.seq
  BY LogGrowsAtEnd
<1>2. TypeOK /\ TypeOK'
  BY TypesStep DEF LogInv, Types
<1>3. \A s \in Sessions : \E k \in Nat : TiledTo(s, k)'
  <2>1. \A s \in Sessions, k \in Nat : TiledTo(s, k) => TiledTo(s, k)'
    BY DEF TiledTo
  <2> QED BY <1>1, <2>1 DEF Tiled
<1>4. \A r \in summaries \union planned : Counted(r)'
  <2> TAKE r \in summaries \union planned
  <2>1. r \in Summary /\ Counted(r)
    BY <1>1, <1>2 DEF Tiled, TypeOK
  <2> QED BY <1>1, <1>2, <2>1, CountStays
<1> QED BY <1>1, <1>3, <1>4 DEF Tiled

\* What is old has a number below that of everything else, so what is old and
\* not covered begins at k.
LEMMA OldIsBelow ==
    ASSUME Types, NEW s \in Sessions, NEW f \in Old(s), NEW e \in LogOf(s),
           e.seq <= f.seq
    PROVE  e \in Old(s)
<1> DEFINE Newer(x) == {g \in LogOf(s) : g.seq > x.seq}
<1>1. LogOf(s) \in SUBSET Event /\ IsFiniteSet(LogOf(s))
  BY LogOfIsFinite DEF Types, TypeOK
<1>2. f \in LogOf(s) /\ Cardinality(Newer(f)) >= KeptTail
  BY DEF Old
<1>3. \A g \in Newer(f) : g \in Newer(e)
  <2> TAKE g \in Newer(f)
  <2>1. g \in LogOf(s) /\ g.seq > f.seq
    OBVIOUS
  <2>2. g.seq \in Nat /\ f.seq \in Nat /\ e.seq \in Nat
    BY <1>1, <1>2, <2>1, EventFields
  <2> QED BY <2>1, <2>2
<1>4. Newer(e) \in SUBSET LogOf(s) /\ Newer(f) \in SUBSET Newer(e)
  BY <1>3
<1> HIDE DEF Newer
<1>5. IsFiniteSet(Newer(e))
  BY <1>1, <1>4, FS_Subset
<1>6. /\ IsFiniteSet(Newer(f))
      /\ Cardinality(Newer(f)) <= Cardinality(Newer(e))
  BY <1>4, <1>5, FS_Subset
<1>7. Cardinality(Newer(e)) \in Nat /\ Cardinality(Newer(f)) \in Nat
  BY <1>5, <1>6, FS_CardinalityType
<1>8. Cardinality(Newer(e)) >= KeptTail
  BY <1>2, <1>6, <1>7
<1> QED BY <1>8 DEF Old, Newer

LEMMA TiledOfPlan ==
    ASSUME LogInv, Tiled, NEW s \in Sessions, Plan(s), Types'
    PROVE  Tiled'
<1> SUFFICES ASSUME ~failed PROVE Tiled'
  BY DEF Tiled, Plan
<1> DEFINE C == Candidates(s)
           U == Uncovered(s)
           p == [session |-> s, from |-> Min(Seqs(C)), to |-> Max(Seqs(C)),
                 count |-> Cardinality(C)]
<1>0. Types /\ TypeOK /\ Stored
  BY DEF LogInv, Types
<1>1. /\ planned' = planned \union {p}
      /\ UNCHANGED <<log, summaries, failed>>
      /\ Cardinality(C) >= Threshold
  BY DEF Plan
<1>2. /\ C \in SUBSET U /\ U \in SUBSET Old(s) /\ Old(s) \in SUBSET LogOf(s)
      /\ LogOf(s) \in SUBSET Event
      /\ IsFiniteSet(U) /\ IsFiniteSet(C) /\ C # {}
      /\ p \in Summary
  BY <1>0, <1>1, CandidatesAreEvents
<1>3. PICK k \in Nat : TiledTo(s, k)
  BY DEF Tiled
<1>4. \A e \in Old(s) : e \in U <=> e.seq >= k
  <2> TAKE e \in Old(s)
  <2>1. e \in LogOf(s) /\ e.session = s /\ e.seq \in Nat
    BY <1>2, EventFields DEF LogOf
  <2>2. e.seq < k <=> \E r \in summaries : Covers(r, e)
    BY <1>3, <2>1 DEF TiledTo, Covers
  <2> QED BY <1>3, <2>1, <2>2 DEF Uncovered
<1>5. U # {} /\ U \in SUBSET Event
  BY <1>2
<1>6. /\ Seqs(U) \in SUBSET Nat
      /\ \E e \in U : e.seq = Min(Seqs(U))
      /\ \A e \in U : Min(Seqs(U)) <= e.seq
  BY <1>2, <1>5, SeqsAreNumbers
<1>7. Min(Seqs(U)) = k
  <2>1. PICK e \in U : e.seq = Min(Seqs(U))
    BY <1>6
  <2>2. e \in Old(s) /\ e \in log /\ e.session = s /\ e.seq \in Nat /\ e.seq >= k
    BY <1>2, <1>4, <2>1, EventFields DEF LogOf
  <2>3. Dense(log, s, e.seq)
    BY <1>0, <2>2 DEF Stored
  <2>4. ASSUME k < e.seq PROVE FALSE
    <3>1. PICK f \in log : f.session = s /\ f.seq = k
      BY <1>3, <2>3, <2>4 DEF Dense, At
    <3>2. f \in LogOf(s) /\ f.seq <= e.seq
      BY <2>2, <2>4, <3>1 DEF LogOf
    <3>3. f \in Old(s)
      BY <1>0, <2>2, <3>2, OldIsBelow
    <3>4. f \in U
      BY <1>3, <1>4, <3>1, <3>3
    <3> QED BY <1>3, <1>6, <2>1, <2>2, <2>4, <3>1, <3>4
  <2> QED BY <1>3, <2>1, <2>2, <2>4
<1>8. \A e \in U : e \in C
  <2>1. \A r \in summaries : r.session = s => ~ (r.from > k)
    <3> SUFFICES ASSUME NEW r \in summaries, r.session = s, r.from > k PROVE FALSE
      OBVIOUS
    <3>1. r \in Summary /\ r.from <= r.to
      BY <1>0 DEF TypeOK, Tiled, Counted
    <3>2. r.from < k
      BY <1>3, <3>1, SummaryFields DEF TiledTo
    <3> QED BY <1>3, <3>1, <3>2, SummaryFields
  <2> QED BY <1>7, <2>1 DEF Candidates
<1>9. C = U
  BY <1>2, <1>8
<1>10. p.from = k /\ p.session = s /\ p.to = Max(Seqs(C)) /\ p.count = Cardinality(C)
  BY <1>7, <1>9
<1>11. /\ \E e \in C : e.seq = p.to
       /\ \A e \in C : k <= e.seq /\ e.seq <= p.to
  BY <1>2, <1>5, <1>7, <1>9, <1>10, SeqsAreNumbers
<1>12. PICK last \in C : last.seq = p.to
  BY <1>11
<1> HIDE DEF C, U, p
<1>13. last \in Old(s) /\ last \in log /\ last.session = s /\ p.to \in Nat
  BY <1>2, <1>12, SummaryFields DEF LogOf
<1>14. \A e \in log : Covers(p, e) <=> e \in C
  <2> TAKE e \in log
  <2>1. ASSUME Covers(p, e) PROVE e \in C
    <3>1. e.session = s /\ k <= e.seq /\ e.seq <= last.seq
      BY <1>10, <1>12, <2>1 DEF Covers
    <3>2. e \in LogOf(s)
      BY <3>1 DEF LogOf
    <3>3. e \in Old(s)
      BY <1>0, <1>13, <3>1, <3>2, OldIsBelow
    <3>4. e.seq \in Nat
      BY <1>2, <3>2, EventFields
    <3> QED BY <1>3, <1>4, <1>9, <3>1, <3>3, <3>4
  <2>2. ASSUME e \in C PROVE Covers(p, e)
    BY <1>2, <1>10, <1>11, <2>2 DEF Covers, LogOf
  <2> QED BY <2>1, <2>2
<1>15. {e \in log : Covers(p, e)} = C
  BY <1>2, <1>14 DEF LogOf
<1>16. Counted(p)
  BY <1>10, <1>11, <1>12, <1>13, <1>15 DEF Counted, At
<1>17. \A t \in Sessions : \E n \in Nat : TiledTo(t, n)'
  <2> TAKE t \in Sessions
  <2>1. CASE t = s
    <3>1. TiledTo(s, k)'
      BY <1>1, <1>3, <1>10 DEF TiledTo
    <3> QED BY <1>3, <2>1, <3>1
  <2>2. CASE t # s
    <3>1. PICK n \in Nat : TiledTo(t, n)
      BY DEF Tiled
    <3>2. TiledTo(t, n)'
      BY <1>1, <1>10, <2>2, <3>1 DEF TiledTo
    <3> QED BY <3>2
  <2> QED BY <2>1, <2>2
<1>18. \A r \in summaries' \union planned' : Counted(r)'
  <2>1. \A r : Counted(r) => Counted(r)'
    BY <1>1 DEF Counted
  <2>2. \A r \in summaries \union planned : Counted(r)
    BY DEF Tiled
  <2> QED BY <1>1, <1>16, <2>1, <2>2
<1> QED BY <1>1, <1>17, <1>18 DEF Tiled, Apart

LEMMA TiledOfSummarise ==
    ASSUME LogInv, Tiled, NEW r \in planned, Summarise(r)
    PROVE  Tiled'
<1> SUFFICES ASSUME ~failed PROVE Tiled'
  BY DEF Tiled, Summarise
<1>0. TypeOK
  BY DEF LogInv, Types
<1>1. planned' = planned \ {r} /\ UNCHANGED <<log, failed>>
  BY DEF Summarise
<1>2. /\ r \in Summary /\ Counted(r)
      /\ r.session \in Sessions /\ r.from \in Nat /\ r.to \in Nat /\ r.from <= r.to
  BY <1>0, SummaryFields DEF TypeOK, Tiled, Counted
<1>3. \A q \in summaries : q \in Summary /\ q.from \in Nat /\ q.to \in Nat /\ q.from <= q.to
  BY <1>0, SummaryFields DEF TypeOK, Tiled, Counted
<1>4. CASE \E q \in summaries : q.session = r.session /\ q.from = r.from
  <2>1. summaries' = summaries
    BY <1>4 DEF Summarise
  <2>2. \A s \in Sessions, k \in Nat : TiledTo(s, k) => TiledTo(s, k)'
    BY <1>1, <2>1 DEF TiledTo
  <2>3. \A s \in Sessions : \E k \in Nat : TiledTo(s, k)'
    BY <2>2 DEF Tiled
  <2> QED BY <1>1, <2>1, <2>3 DEF Tiled, Counted, Apart
<1>5. CASE ~ \E q \in summaries : q.session = r.session /\ q.from = r.from
  <2>1. summaries' = summaries \union {r}
    BY <1>5 DEF Summarise
  <2>2. PICK k \in Nat : TiledTo(r.session, k)
    BY <1>2 DEF Tiled
  <2>3. r.from = k
    BY <1>5, <2>2 DEF TiledTo
  <2>4. \A q \in summaries : q.session = r.session => q.to < r.from
    BY <1>3, <2>2, <2>3 DEF TiledTo
  <2>5. TiledTo(r.session, r.to + 1)'
    <3>1. ASSUME NEW n \in Nat
          PROVE  n < r.to + 1 <=>
                 \E q \in summaries' : q.session = r.session /\ q.from <= n /\ n <= q.to
      <4>1. CASE n < k
        <5>1. \E q \in summaries : q.session = r.session /\ q.from <= n /\ n <= q.to
          BY <2>2, <4>1 DEF TiledTo
        <5>2. n < r.to + 1
          BY <1>2, <2>3, <4>1
        <5> QED BY <2>1, <5>1, <5>2
      <4>2. CASE ~ (n < k)
        <5>1. ~ \E q \in summaries : q.session = r.session /\ q.from <= n /\ n <= q.to
          BY <2>2, <4>2 DEF TiledTo
        <5>2. n < r.to + 1 <=> (r.from <= n /\ n <= r.to)
          BY <1>2, <2>2, <2>3, <4>2
        <5> QED BY <2>1, <5>1, <5>2
      <4> QED BY <4>1, <4>2
    <3>2. \A p \in planned' : p.session = r.session =>
             \E q \in summaries' : q.session = r.session /\ q.from = p.from
      BY <1>1, <2>1, <2>2, <2>3 DEF TiledTo
    <3> QED BY <3>1, <3>2 DEF TiledTo
  <2>6. \A s \in Sessions : \E n \in Nat : TiledTo(s, n)'
    <3> TAKE s \in Sessions
    <3>1. CASE s = r.session
      <4>1. r.to + 1 \in Nat
        BY <1>2
      <4> QED BY <2>5, <3>1, <4>1
    <3>2. CASE s # r.session
      <4>1. PICK n \in Nat : TiledTo(s, n)
        BY DEF Tiled
      <4>2. TiledTo(s, n)'
        BY <1>1, <2>1, <3>2, <4>1 DEF TiledTo
      <4> QED BY <4>2
    <3> QED BY <3>1, <3>2
  <2>7. \A q \in summaries' \union planned' : Counted(q)'
    BY <1>1, <1>2, <2>1 DEF Tiled, Counted
  <2>8. \A q \in summaries' : \A x \in summaries' \ {q} : Apart(q, x)
    BY <2>1, <2>4 DEF Tiled, Apart
  <2> QED BY <1>1, <2>6, <2>7, <2>8 DEF Tiled, Apart
<1> QED BY <1>4, <1>5

LEMMA TiledStep == LogInv /\ Tiled /\ [Next]_vars => Tiled'
<1> SUFFICES ASSUME LogInv, Tiled, [Next]_vars PROVE Tiled'
  OBVIOUS
<1>0. Types'
  BY TypesStep DEF LogInv
<1>1. CASE \E s \in Sessions : Plan(s)
  BY <1>0, <1>1, TiledOfPlan
<1>2. CASE \E r \in planned : Summarise(r)
  BY <1>2, TiledOfSummarise
<1>3. CASE UNCHANGED <<summaries, planned>>
  BY <1>3, TiledOfGrowth
<1>4. CASE \E b \in Bodies : StartBody(b) \/ Emit(b) \/ AppendNext(b)
  BY <1>3, <1>4 DEF StartBody, Emit, AppendNext
<1>5. CASE DrawLine \/ WriteLine
  BY <1>3, <1>5 DEF DrawLine, WriteLine
<1>6. CASE \E v \in Viewers : Connection(v) \/ Disconnect(v)
  BY <1>3, <1>6 DEF Connection, Attach, ReadLog, Flush, Receive, Disconnect
<1>7. CASE UNCHANGED vars
  BY <1>3, <1>7 DEF vars
<1> QED BY <1>1, <1>2, <1>4, <1>5, <1>6, <1>7 DEF Next

-----------------------------------------------------------------------------
(* The pages. An event is owed to a page while it is in the log or about   *)
(* to be, has a form on the wire, and is neither contested nor skipped.    *)
(* Whatever the page has, or the hub holds for it, beyond an event that it *)
(* is owed, it has that event too, or gets it first.                       *)

PageIsOfLog(p) ==
    /\ Range(p.got) \subseteq told
    /\ Range(p.wire) \subseteq told
    /\ Range(p.held) \subseteq told
    /\ p.at # "live" => p.wire = <<>>
    /\ p.at # "read" => p.read = {}
    /\ p.at \notin {"subscribed", "read"} => p.held = <<>>
    /\ \A e \in p.read : e.seq > p.cursor.seq
    /\ \A e \in Range(p.got) : Numbered(e) => e.seq <= p.cursor.seq
    /\ p.cursor.seq = -1 \/ \E e \in Range(p.got) : SamePlace(e, p.cursor)

\* The buffer has every event once, in its writer's order; what a page is sent,
\* only those with a number.
AsWritten(q) ==
    \A i, j \in DOMAIN q : i < j /\ SameWriter(q[i], q[j]) => q[i].seq < q[j].seq
Ranked(e, f) == Numbered(e) /\ Numbered(f) /\ SameWriter(e, f)
Ordered(q) ==
    \A i, j \in DOMAIN q : i < j /\ Ranked(q[i], q[j]) => q[i].seq < q[j].seq
InTurn(S, T) == \A e \in S, f \in T : Ranked(e, f) => e.seq < f.seq

PageIsInOrder(p) ==
    /\ Ordered(p.got)
    /\ Ordered(p.wire)
    /\ AsWritten(p.held)
    /\ InTurn(Range(p.got), Range(p.wire))

Owed(v) ==
    {e \in log \union Pending :
        e.form # "none" /\ ~Contested(e) /\ e \notin skipped[v]}

Passed(e, S) == \E f \in S : Beyond(e, f)
EarlierIn(e, q, j) == \E i \in DOMAIN q : i < j /\ q[i] = e

PageKeeps(p, e) ==
    /\ Passed(e, Range(p.got)) => e \in Range(p.got)
    /\ p.at = "read" => e \in Range(p.got) \union p.read \union Range(p.held)
    /\ Passed(e, p.read) => e \in Range(p.got) \union p.read
    /\ p.at = "live" => e \in Range(p.got) \union Range(p.wire)
    /\ \A j \in DOMAIN p.wire : Beyond(e, p.wire[j]) =>
          e \in Range(p.got) \/ EarlierIn(e, p.wire, j)
    /\ \A j \in DOMAIN p.held : Beyond(e, p.held[j]) /\ e \in Range(p.held) =>
          EarlierIn(e, p.held, j)

PagesOfLog == \A v \in Viewers : PageIsOfLog(viewer[v])
PagesInOrder == \A v \in Viewers : PageIsInOrder(viewer[v])
PagesKeep == \A v \in Viewers : \A e \in Owed(v) : PageKeeps(viewer[v], e)

Inv ==
    /\ LogInv
    /\ Tiled
    /\ PagesOfLog
    /\ PagesInOrder
    /\ PagesKeep

\* What is owed is told, and is not both waiting and overtaken by the log.
LEMMA OwedIsTold ==
    ASSUME LogInv, NEW v \in Viewers, NEW e \in Owed(v)
    PROVE  /\ e \in told /\ e \in Event /\ e.seq \in Nat
           /\ e.form # "none" /\ ~Contested(e)
           /\ \A f \in told : SamePlace(f, e) => f = e
           /\ Passed(e, log) => e \in log
<1>0. TypeOK /\ QueuesAreChains /\ ToldByWriters /\ PendingIsNext
  BY DEF LogInv, Types
<1>1. e \in log \/ e \in Pending
  BY DEF Owed
<1>2. e \in told /\ e \in Event
  BY <1>0, <1>1, PendingIsTold DEF ToldByWriters, TypeOK
<1>3. e.form # "none" /\ ~Contested(e)
  BY DEF Owed
<1>4. \A f \in told : SamePlace(f, e) => f = e
  BY <1>3 DEF Contested, SamePlace
<1>5. Passed(e, log) => e \in log
  BY <1>0, <1>1, <1>3 DEF Passed, Beyond, PendingIsNext
<1> QED BY <1>2, <1>3, <1>4, <1>5, EventFields

\* Nothing more is owed than before, and nobody heard anything.
LEMMA PagesKeepStill ==
    ASSUME PagesKeep,
           UNCHANGED <<viewer, told, skipped>>,
           \A e \in log' : e \in log \union Pending,
           \A e \in Pending' : e \in Pending
    PROVE  PagesKeep'
<1> SUFFICES ASSUME NEW v \in Viewers, NEW e \in Owed(v)'
             PROVE  PageKeeps(viewer[v], e)
  BY DEF PagesKeep, PageKeeps, EarlierIn, Passed, Beyond
<1>1. e \in Owed(v)
  BY DEF Owed, Contested
<1> QED BY <1>1 DEF PagesKeep

LEMMA PagesStill ==
    ASSUME PagesOfLog, PagesInOrder, UNCHANGED <<viewer, told>>
    PROVE  PagesOfLog' /\ PagesInOrder'
  BY DEF PagesOfLog, PagesInOrder, PageIsOfLog, PageIsInOrder, Ordered, AsWritten,
         InTurn

-----------------------------------------------------------------------------
(* An event is published.                                                  *)

\* A list to which a fresh event is appended, where the page had nothing of it.
LEMMA AppendFresh ==
    ASSUME TypeOK, NEW e \in Event, Fresh(e),
           NEW q \in Seq(Event), Range(q) \subseteq told
    PROVE  /\ AsWritten(q) => AsWritten(Append(q, e))
           /\ Ordered(q) => Ordered(Append(q, e))
<1> DEFINE r == Append(q, e)
<1>1. /\ \A i \in DOMAIN q : r[i] = q[i]
      /\ r[Len(q) + 1] = e
      /\ DOMAIN r = 1 .. Len(q) + 1
      /\ DOMAIN q = 1 .. Len(q)
      /\ Len(q) \in Nat
  BY AppendAdds
<1>2. \A i \in DOMAIN q : q[i] \in told
  BY DEF Range
<1> HIDE DEF r
<1>3. ASSUME NEW i \in DOMAIN r, NEW j \in DOMAIN r, i < j, SameWriter(r[i], r[j])
      PROVE  /\ r[i].seq < r[j].seq
             \/ /\ i \in DOMAIN q /\ j \in DOMAIN q
                /\ r[i] = q[i] /\ r[j] = q[j]
  <2>1. i \in DOMAIN q
    BY <1>1, <1>3
  <2>2. CASE j \in DOMAIN q
    BY <1>1, <2>1, <2>2
  <2>3. CASE j \notin DOMAIN q
    <3>1. r[j] = e /\ r[i] = q[i] /\ q[i] \in told
      BY <1>1, <1>2, <2>1, <2>3
    <3> QED BY <1>3, <3>1 DEF Fresh, SameWriter
  <2> QED BY <2>2, <2>3
<1>4. AsWritten(q) => AsWritten(r)
  BY <1>3 DEF AsWritten
<1>5. Ordered(q) => Ordered(r)
  BY <1>3 DEF Ordered, Ranked
<1> QED BY <1>4, <1>5 DEF r

LEMMA PagesOfPublish ==
    ASSUME TypeOK, PagesOfLog, PagesInOrder, NEW e \in Event, Fresh(e), Publish(e)
    PROVE  PagesOfLog' /\ PagesInOrder'
<1>1. /\ \A v \in Viewers : Hears(e, viewer[v], viewer'[v])
      /\ told' = told \union {e}
  BY PublishIsHeard
<1> SUFFICES ASSUME NEW v \in Viewers
             PROVE  PageIsOfLog(viewer[v])' /\ PageIsInOrder(viewer[v])'
  BY DEF PagesOfLog, PagesInOrder
<1> DEFINE p == viewer[v]
           q == viewer'[v]
<1>2. /\ p.at \in {"away", "subscribed", "read", "live"}
      /\ p.held \in Seq(Event) /\ p.wire \in Seq(Event)
      /\ PageIsOfLog(p) /\ PageIsInOrder(p)
      /\ Hears(e, p, q)
  BY <1>1, PageFields DEF PagesOfLog, PagesInOrder
<1>3. PageIsOfLog(viewer[v])' <=>
        /\ Range(q.got) \subseteq told'
        /\ Range(q.wire) \subseteq told'
        /\ Range(q.held) \subseteq told'
        /\ q.at # "live" => q.wire = <<>>
        /\ q.at # "read" => q.read = {}
        /\ q.at \notin {"subscribed", "read"} => q.held = <<>>
        /\ \A f \in q.read : f.seq > q.cursor.seq
        /\ \A f \in Range(q.got) : Numbered(f) => f.seq <= q.cursor.seq
        /\ q.cursor.seq = -1 \/ \E f \in Range(q.got) : SamePlace(f, q.cursor)
  BY DEF PageIsOfLog
<1>4. PageIsInOrder(viewer[v])' <=>
        /\ Ordered(q.got) /\ Ordered(q.wire) /\ AsWritten(q.held)
        /\ InTurn(Range(q.got), Range(q.wire))
  BY DEF PageIsInOrder, Ordered, AsWritten, InTurn
<1> HIDE DEF p, q
<1>5. /\ Range(Append(p.wire, e)) = Range(p.wire) \union {e}
      /\ Range(Append(p.held, e)) = Range(p.held) \union {e}
  BY <1>2, AppendAdds
<1>6. /\ Range(q.wire) \subseteq Range(p.wire) \union {e}
      /\ Range(q.held) \subseteq Range(p.held) \union {e}
      /\ q.got = p.got /\ q.read = p.read /\ q.cursor = p.cursor /\ q.at = p.at
      /\ q.at # "live" => q.wire = p.wire
      /\ q.at \notin {"subscribed", "read"} => q.held = p.held
  BY <1>2, <1>5 DEF Hears
<1>7. Ordered(Append(p.wire, e)) /\ AsWritten(Append(p.held, e))
  BY <1>2, AppendFresh DEF PageIsOfLog, PageIsInOrder
<1>8. Ordered(q.wire) /\ AsWritten(q.held)
  BY <1>2, <1>7 DEF Hears, PageIsInOrder
<1>9. InTurn(Range(q.got), Range(q.wire))
  BY <1>2, <1>6 DEF PageIsOfLog, PageIsInOrder, InTurn, Ranked, Fresh, SameWriter
<1>10. PageIsOfLog(viewer[v])'
  BY <1>1, <1>2, <1>3, <1>6 DEF PageIsOfLog
<1>11. PageIsInOrder(viewer[v])'
  BY <1>2, <1>4, <1>6, <1>8, <1>9 DEF PageIsInOrder
<1> QED BY <1>10, <1>11

LEMMA PagesKeepPublished ==
    ASSUME LogInv, PagesOfLog, PagesKeep, NEW e \in Event, Fresh(e), Publish(e),
           UNCHANGED skipped,
           \A x \in log' : x \in log \/ x = e,
           \A x \in Pending' : x \in Pending \/ x = e
    PROVE  PagesKeep'
<1>0. TypeOK /\ log \subseteq told
  BY DEF LogInv, Types, ToldByWriters
<1>1. /\ \A v \in Viewers : Hears(e, viewer[v], viewer'[v])
      /\ told' = told \union {e}
  BY <1>0, PublishIsHeard
<1> SUFFICES ASSUME NEW v \in Viewers, NEW d \in Owed(v)'
             PROVE  PageKeeps(viewer'[v], d)
  BY DEF PagesKeep, PageKeeps, EarlierIn, Passed, Beyond
<1> DEFINE p == viewer[v]
           q == viewer'[v]
<1>2. /\ p.at \in {"away", "subscribed", "read", "live"}
      /\ p.held \in Seq(Event) /\ p.wire \in Seq(Event) /\ p.got \in Seq(Event)
      /\ PageIsOfLog(p)
      /\ Hears(e, p, q)
  BY <1>0, <1>1, PageFields DEF PagesOfLog
<1>3. d \in Owed(v) \/ d = e
  <2>1. d \in log' \union Pending' /\ d.form # "none" /\ ~Contested(d)' /\ d \notin skipped[v]
    BY DEF Owed
  <2>2. Contested(d) => Contested(d)'
    BY <1>1, ContestedStays
  <2> QED BY <2>1, <2>2 DEF Owed
<1>4. p.read \subseteq told
  BY <1>0 DEF LogInv, Types
<1> HIDE DEF p, q
<1>5. /\ \A i \in DOMAIN p.wire : Append(p.wire, e)[i] = p.wire[i]
      /\ Append(p.wire, e)[Len(p.wire) + 1] = e
      /\ DOMAIN Append(p.wire, e) = 1 .. Len(p.wire) + 1
      /\ DOMAIN p.wire = 1 .. Len(p.wire)
      /\ Len(p.wire) \in Nat
      /\ Range(Append(p.wire, e)) = Range(p.wire) \union {e}
  BY <1>2, AppendAdds
<1>6. /\ \A i \in DOMAIN p.held : Append(p.held, e)[i] = p.held[i]
      /\ Append(p.held, e)[Len(p.held) + 1] = e
      /\ DOMAIN Append(p.held, e) = 1 .. Len(p.held) + 1
      /\ DOMAIN p.held = 1 .. Len(p.held)
      /\ Len(p.held) \in Nat
      /\ Range(Append(p.held, e)) = Range(p.held) \union {e}
  BY <1>2, AppendAdds
<1>7. q.at = p.at /\ q.cursor = p.cursor /\ q.got = p.got /\ q.read = p.read
  BY <1>2 DEF Hears
<1>8. Range(p.wire) \subseteq Range(q.wire) /\ Range(p.held) \subseteq Range(q.held)
  BY <1>2, <1>5, <1>6 DEF Hears
<1>9. /\ DOMAIN p.wire \subseteq DOMAIN q.wire /\ DOMAIN p.held \subseteq DOMAIN q.held
      /\ \A i \in DOMAIN p.wire : q.wire[i] = p.wire[i]
      /\ \A i \in DOMAIN p.held : q.held[i] = p.held[i]
      /\ \A j \in DOMAIN q.wire : j \in DOMAIN p.wire \/
            (q.wire[j] = e /\ p.at = "live" /\ \A i \in DOMAIN p.wire : i < j)
      /\ \A j \in DOMAIN q.held : j \in DOMAIN p.held \/
            (q.held[j] = e /\ \A i \in DOMAIN p.held : i < j)
  <2>1. q.wire = p.wire \/ (q.wire = Append(p.wire, e) /\ p.at = "live")
    BY <1>2 DEF Hears
  <2>2. q.held = p.held \/ q.held = Append(p.held, e)
    BY <1>2 DEF Hears
  <2>3. \A j \in DOMAIN Append(p.wire, e) : j \in DOMAIN p.wire \/ j = Len(p.wire) + 1
    BY <1>5
  <2>4. \A i \in DOMAIN p.wire : i < Len(p.wire) + 1
    BY <1>5
  <2>5. \A j \in DOMAIN Append(p.held, e) : j \in DOMAIN p.held \/ j = Len(p.held) + 1
    BY <1>6
  <2>6. \A i \in DOMAIN p.held : i < Len(p.held) + 1
    BY <1>6
  <2>7. DOMAIN p.wire \subseteq DOMAIN Append(p.wire, e)
        /\ DOMAIN p.held \subseteq DOMAIN Append(p.held, e)
    BY <1>5, <1>6
  <2>8. CASE q.wire = p.wire
    <3>1. /\ DOMAIN p.wire \subseteq DOMAIN q.wire
          /\ \A i \in DOMAIN p.wire : q.wire[i] = p.wire[i]
          /\ \A j \in DOMAIN q.wire : j \in DOMAIN p.wire
      BY <2>8
    <3> QED BY <1>6, <2>2, <2>5, <2>6, <2>7, <3>1
  <2>9. CASE q.wire = Append(p.wire, e) /\ p.at = "live"
    <3>1. /\ DOMAIN p.wire \subseteq DOMAIN q.wire
          /\ \A i \in DOMAIN p.wire : q.wire[i] = p.wire[i]
          /\ \A j \in DOMAIN q.wire : j \in DOMAIN p.wire \/
                (q.wire[j] = e /\ p.at = "live" /\ \A i \in DOMAIN p.wire : i < j)
      BY <1>5, <2>3, <2>4, <2>7, <2>9
    <3> QED BY <1>6, <2>2, <2>5, <2>6, <2>7, <3>1
  <2> QED BY <2>1, <2>8, <2>9
<1>10. CASE d \in Owed(v)
  <2>1. PageKeeps(p, d) /\ d \in told
    BY <1>10, OwedIsTold DEF PagesKeep, p
  <2>2. d # e
    BY <2>1 DEF Fresh
  <2>3. ASSUME NEW j \in DOMAIN q.wire, Beyond(d, q.wire[j])
        PROVE  d \in Range(q.got) \/ EarlierIn(d, q.wire, j)
    <3>1. CASE j \in DOMAIN p.wire
      <4>1. d \in Range(p.got) \/ EarlierIn(d, p.wire, j)
        BY <1>9, <2>1, <2>3, <3>1 DEF PageKeeps
      <4> QED BY <1>7, <1>9, <4>1 DEF EarlierIn
    <3>2. CASE j \notin DOMAIN p.wire
      <4>1. p.at = "live" /\ \A i \in DOMAIN p.wire : i < j
        BY <1>9, <2>3, <3>2
      <4>2. d \in Range(p.got) \/ d \in Range(p.wire)
        BY <2>1, <4>1 DEF PageKeeps
      <4>3. d \in Range(p.wire) => \E i \in DOMAIN p.wire : p.wire[i] = d
        BY DEF Range
      <4> QED BY <1>7, <1>9, <4>1, <4>2, <4>3 DEF EarlierIn
    <3> QED BY <3>1, <3>2
  <2>4. ASSUME NEW j \in DOMAIN q.held, Beyond(d, q.held[j]), d \in Range(q.held)
        PROVE  EarlierIn(d, q.held, j)
    <3>1. PICK x \in DOMAIN q.held : q.held[x] = d
      BY <2>4 DEF Range
    <3>2. x \in DOMAIN p.held /\ p.held[x] = d
      BY <1>9, <2>2, <3>1
    <3>3. d \in Range(p.held)
      BY <3>2 DEF Range
    <3>4. CASE j \in DOMAIN p.held
      <4>1. EarlierIn(d, p.held, j)
        BY <1>9, <2>1, <2>4, <3>3, <3>4 DEF PageKeeps
      <4> QED BY <1>9, <4>1 DEF EarlierIn
    <3>5. CASE j \notin DOMAIN p.held
      <4>1. x < j
        BY <1>9, <3>2, <3>5
      <4> QED BY <3>1, <4>1 DEF EarlierIn
    <3> QED BY <3>4, <3>5
  <2>5. /\ Passed(d, Range(q.got)) => d \in Range(q.got)
        /\ q.at = "read" => d \in Range(q.got) \union q.read \union Range(q.held)
        /\ Passed(d, q.read) => d \in Range(q.got) \union q.read
        /\ q.at = "live" => d \in Range(q.got) \union Range(q.wire)
    BY <1>7, <1>8, <2>1 DEF PageKeeps
  <2>6. PageKeeps(q, d)
    BY <2>3, <2>4, <2>5 DEF PageKeeps
  <2> QED BY <2>6 DEF q
<1>11. CASE d = e
  <2>1. e.form # "none" /\ ~Contested(e)'
    BY <1>11 DEF Owed
  <2>2. \A f \in told : ~Beyond(e, f)
    <3> SUFFICES ASSUME NEW f \in told, Beyond(e, f) PROVE FALSE
      OBVIOUS
    <3>1. PICK g \in told : SamePlace(g, e)
      BY DEF Fresh
    <3>2. g \in told' \ {e} /\ SamePlace(e, g)
      BY <1>1, <3>1 DEF Fresh, SamePlace
    <3> QED BY <2>1, <3>2 DEF Contested
  <2>3. ~Beyond(e, e)
    BY EventFields DEF Beyond
  <2>4. /\ ~Passed(e, Range(q.got)) /\ ~Passed(e, q.read)
    BY <1>2, <1>4, <1>7, <2>2 DEF Passed, PageIsOfLog
  <2>5. /\ \A j \in DOMAIN q.wire : ~Beyond(e, q.wire[j])
        /\ \A j \in DOMAIN q.held : ~Beyond(e, q.held[j])
    <3>1. /\ \A j \in DOMAIN p.wire : p.wire[j] \in told
          /\ \A j \in DOMAIN p.held : p.held[j] \in told
      BY <1>2 DEF PageIsOfLog, Range
    <3> QED BY <1>9, <2>2, <2>3, <3>1
  <2>6. /\ q.at = "live" => e \in Range(q.wire)
        /\ q.at = "read" => e \in Range(q.held)
    BY <1>2, <1>5, <1>6, <2>1 DEF Hears
  <2>7. PageKeeps(q, e)
    BY <2>4, <2>5, <2>6 DEF PageKeeps
  <2> QED BY <1>11, <2>7 DEF q
<1> QED BY <1>3, <1>10, <1>11

\* A line is stored and not published: the pages that still have to read the log
\* find it there.
LEMMA PagesKeepWithheld ==
    ASSUME LogInv, PagesOfLog, PagesKeep, NEW e \in Event, Fresh(e), Withhold(e),
           UNCHANGED body,
           \A x \in log' : x \in log \/ x = e
    PROVE  PagesOfLog' /\ PagesKeep'
<1>0. TypeOK /\ log \subseteq told
  BY DEF LogInv, Types, ToldByWriters
<1>1. viewer' = viewer /\ told' = told \union {e}
  BY DEF Withhold
<1>2. \A v \in Viewers :
         /\ skipped[v] \subseteq skipped'[v]
         /\ viewer[v].at \in {"read", "live"} => e \in skipped'[v]
  BY <1>0 DEF Withhold, TypeOK
<1>3. PagesOfLog'
  BY <1>1 DEF PagesOfLog, PageIsOfLog
<1>4. PagesKeep'
  <2> SUFFICES ASSUME NEW v \in Viewers, NEW d \in Owed(v)'
               PROVE  PageKeeps(viewer[v], d)
    BY <1>1 DEF PagesKeep, PageKeeps, EarlierIn, Passed, Beyond
  <2> DEFINE p == viewer[v]
  <2>1. /\ d \in log' \union Pending' /\ d.form # "none" /\ ~Contested(d)'
        /\ d \notin skipped'[v]
    BY DEF Owed
  <2>2. Pending' = Pending
    BY DEF Pending
  <2>3. ~Contested(d)
    BY <1>1, <2>1, ContestedStays
  <2>4. d \in Owed(v) \/ d = e
    BY <1>2, <2>1, <2>2, <2>3 DEF Owed
  <2>5. CASE d \in Owed(v)
    BY <2>5 DEF PagesKeep
  <2>6. CASE d = e
    <3>1. p.at \notin {"read", "live"}
      BY <1>2, <2>1, <2>6
    <3>2. \A f \in told : ~Beyond(e, f)
      <4> SUFFICES ASSUME NEW f \in told, Beyond(e, f) PROVE FALSE
        OBVIOUS
      <4>1. PICK g \in told : SamePlace(g, e)
        BY DEF Fresh
      <4>2. g \in told' \ {e} /\ SamePlace(e, g)
        BY <1>1, <4>1 DEF Fresh, SamePlace
      <4> QED BY <2>1, <2>6, <4>2 DEF Contested
    <3>3. PageIsOfLog(p) /\ p.read \subseteq told
      BY <1>0 DEF PagesOfLog, LogInv, Types
    <3> HIDE DEF p
    <3>4. ~Passed(e, Range(p.got)) /\ ~Passed(e, p.read)
      BY <3>2, <3>3 DEF Passed, PageIsOfLog
    <3>5. /\ \A j \in DOMAIN p.wire : ~Beyond(e, p.wire[j])
          /\ \A j \in DOMAIN p.held : ~Beyond(e, p.held[j])
      BY <3>2, <3>3 DEF PageIsOfLog, Range
    <3>6. PageKeeps(p, e)
      BY <3>1, <3>4, <3>5 DEF PageKeeps
    <3> QED BY <2>6, <3>6 DEF p
  <2> QED BY <2>4, <2>5, <2>6
<1> QED BY <1>3, <1>4

-----------------------------------------------------------------------------
(* A page or its connection moves.                                         *)

OwedStill(v) == {e \in Owed(v) : e \notin skipped'[v]}

\* The others stay as they are, so it is enough to look at the one that moves.
LEMMA PageMoves ==
    ASSUME PagesOfLog, PagesInOrder, PagesKeep, NEW v \in Viewers,
           UNCHANGED <<log, body, told>>,
           \A u \in Viewers : skipped[u] \subseteq skipped'[u],
           \A u \in Viewers : u # v => viewer'[u] = viewer[u],
           PageIsOfLog(viewer'[v]), PageIsInOrder(viewer'[v]),
           \A e \in OwedStill(v) : PageKeeps(viewer'[v], e)
    PROVE  PagesOfLog' /\ PagesInOrder' /\ PagesKeep'
<1>1. \A u \in Viewers : PageIsOfLog(viewer'[u]) /\ PageIsInOrder(viewer'[u])
  BY DEF PagesOfLog, PagesInOrder
<1>2. PagesOfLog'
  BY <1>1 DEF PagesOfLog, PageIsOfLog
<1>3. PagesInOrder'
  BY <1>1 DEF PagesInOrder, PageIsInOrder, Ordered, AsWritten, InTurn
<1>4. \A u \in Viewers : \A e \in Owed(u)' : e \in OwedStill(u)
  BY DEF Owed, OwedStill, Contested, Pending
<1>5. \A u \in Viewers : \A e \in OwedStill(u) : PageKeeps(viewer'[u], e)
  BY DEF PagesKeep, OwedStill
<1>6. PagesKeep'
  BY <1>4, <1>5 DEF PagesKeep, PageKeeps, EarlierIn, Passed, Beyond
<1> QED BY <1>2, <1>3, <1>6

LEMMA EmptyIsInOrder ==
    Ordered(<<>>) /\ AsWritten(<<>>) /\ \A S : InTurn(S, Range(<<>>))
  BY RangeOfEmpty DEF Ordered, AsWritten, InTurn

LEMMA PagesOfAttach ==
    ASSUME Inv, NEW v \in Viewers, Attach(v)
    PROVE  PagesOfLog' /\ PagesInOrder' /\ PagesKeep'
<1> DEFINE p == viewer[v]
           q == viewer'[v]
<1>0. TypeOK /\ PagesOfLog /\ PagesInOrder /\ PagesKeep
  BY DEF Inv, LogInv, Types
<1>1. p.at = "away" /\ Becomes(v, "subscribed", p.cursor, p.held, p.read, p.wire, p.got)
  BY <1>0, AttachEffect
<1>2. UNCHANGED <<log, body, told, skipped>>
  BY DEF Attach
<1>3. /\ q.at = "subscribed" /\ q.cursor = p.cursor /\ q.held = p.held
      /\ q.read = p.read /\ q.wire = p.wire /\ q.got = p.got
      /\ \A u \in Viewers : u # v => viewer'[u] = viewer[u]
  BY <1>1 DEF Becomes
<1>4. PageIsOfLog(p) /\ PageIsInOrder(p)
  BY <1>0 DEF PagesOfLog, PagesInOrder
<1>5. \A e \in OwedStill(v) : PageKeeps(p, e)
  BY <1>0 DEF OwedStill, PagesKeep
<1> HIDE DEF p, q
<1>6. PageIsOfLog(q)
  BY <1>1, <1>3, <1>4 DEF PageIsOfLog
<1>7. PageIsInOrder(q)
  BY <1>3, <1>4 DEF PageIsInOrder
<1>8. \A e \in OwedStill(v) : PageKeeps(q, e)
  BY <1>3, <1>5 DEF PageKeeps
<1> QED BY <1>0, <1>2, <1>3, <1>6, <1>7, <1>8, PageMoves DEF q

LEMMA PagesOfDisconnect ==
    ASSUME Inv, NEW v \in Viewers, Disconnect(v)
    PROVE  PagesOfLog' /\ PagesInOrder' /\ PagesKeep'
<1> DEFINE p == viewer[v]
           q == viewer'[v]
<1>0. TypeOK /\ PagesOfLog /\ PagesInOrder /\ PagesKeep
  BY DEF Inv, LogInv, Types
<1>1. Becomes(v, "away", p.cursor, <<>>, {}, <<>>, p.got)
  BY <1>0, DisconnectEffect
<1>2. UNCHANGED <<log, body, told, skipped>>
  BY DEF Disconnect
<1>3. /\ q.at = "away" /\ q.cursor = p.cursor /\ q.held = <<>>
      /\ q.read = {} /\ q.wire = <<>> /\ q.got = p.got
      /\ \A u \in Viewers : u # v => viewer'[u] = viewer[u]
  BY <1>1 DEF Becomes
<1>4. PageIsOfLog(p) /\ PageIsInOrder(p)
  BY <1>0 DEF PagesOfLog, PagesInOrder
<1>5. \A e \in OwedStill(v) : PageKeeps(p, e)
  BY <1>0 DEF OwedStill, PagesKeep
<1> HIDE DEF p, q
<1>6. PageIsOfLog(q)
  BY <1>3, <1>4, RangeOfEmpty DEF PageIsOfLog
<1>7. PageIsInOrder(q)
  BY <1>3, <1>4, EmptyIsInOrder DEF PageIsInOrder
<1>8. \A e \in OwedStill(v) : PageKeeps(q, e)
  <2>1. DOMAIN <<>> = {}
    OBVIOUS
  <2> QED BY <1>3, <1>5, <2>1 DEF PageKeeps, Passed
<1> QED BY <1>0, <1>2, <1>3, <1>6, <1>7, <1>8, PageMoves DEF q

\* A page that lacks nothing below what it has of a Session lacks nothing that
\* is owed to it at or below its cursor, in the Session the cursor is of.
LEMMA CursorCovers ==
    ASSUME Inv, NEW v \in Viewers, NEW e \in Owed(v),
           e.session = viewer[v].cursor.session, e.seq <= viewer[v].cursor.seq
    PROVE  e \in Range(viewer[v].got)
<1> DEFINE p == viewer[v]
<1>0. TypeOK /\ LogInv /\ PageIsOfLog(p) /\ PageKeeps(p, e)
  BY DEF Inv, LogInv, Types, PagesOfLog, PagesKeep
<1>1. e.seq \in Nat /\ \A f \in told : SamePlace(f, e) => f = e
  BY <1>0, OwedIsTold
<1>2. p.cursor.seq \in Int /\ p.cursor.seq # -1
  BY <1>0, <1>1, PageFields
<1>3. PICK f \in Range(p.got) : SamePlace(f, p.cursor)
  BY <1>0, <1>2 DEF PageIsOfLog
<1>4. CASE f.seq = e.seq
  <2>1. SamePlace(f, e) /\ f \in told
    BY <1>0, <1>3, <1>4 DEF SamePlace, PageIsOfLog
  <2> QED BY <1>1, <1>3, <2>1
<1>5. CASE f.seq # e.seq
  <2>1. f.session = e.session /\ f.seq = p.cursor.seq
    BY <1>3 DEF SamePlace
  <2>2. f.seq > e.seq
    BY <1>1, <1>2, <1>5, <2>1
  <2>3. Beyond(e, f)
    BY <2>1, <2>2 DEF Beyond
  <2> QED BY <1>0, <1>3, <2>3 DEF PageKeeps, Passed
<1> QED BY <1>4, <1>5

LEMMA PagesOfReadLog ==
    ASSUME Inv, NEW v \in Viewers, ReadLog(v)
    PROVE  PagesOfLog' /\ PagesInOrder' /\ PagesKeep'
<1> DEFINE p == viewer[v]
           q == viewer'[v]
<1>0. /\ TypeOK /\ LogInv /\ PagesOfLog /\ PagesInOrder /\ PagesKeep
      /\ log \subseteq told
  BY DEF Inv, LogInv, Types, ToldByWriters
<1>1. /\ p.at = "subscribed"
      /\ Becomes(v, "read", p.cursor, p.held, Above(p.cursor.seq), p.wire, p.got)
  BY <1>0, ReadLogEffect
<1>2. UNCHANGED <<log, body, told>>
  BY DEF ReadLog
<1>3. /\ q.at = "read" /\ q.cursor = p.cursor /\ q.held = p.held
      /\ q.read = Above(p.cursor.seq) /\ q.wire = p.wire /\ q.got = p.got
      /\ \A u \in Viewers : u # v => viewer'[u] = viewer[u]
  BY <1>1 DEF Becomes
<1>4. PageIsOfLog(p) /\ PageIsInOrder(p)
  BY <1>0 DEF PagesOfLog, PagesInOrder
<1>5. \A e \in OwedStill(v) : PageKeeps(p, e) /\ e \in Owed(v)
  BY <1>0 DEF OwedStill, PagesKeep
<1>6. skipped \in [Viewers -> SUBSET Event]
      /\ skipped' = [skipped EXCEPT ![v] =
                       @ \union (Pending \ Range(p.held))
                         \union (Foreign(p.cursor) \intersect log)]
  BY <1>0 DEF ReadLog, TypeOK
<1>7. /\ \A u \in Viewers : skipped[u] \subseteq skipped'[u]
      /\ Pending \ Range(p.held) \subseteq skipped'[v]
      /\ Foreign(p.cursor) \intersect log \subseteq skipped'[v]
  BY <1>6
<1>8. ASSUME NEW e \in OwedStill(v), e \in log
      PROVE  e \in Range(p.got) \/ e \in q.read
  <2>1. e \in Owed(v) /\ e \notin skipped'[v] /\ e \in told /\ e.seq \in Nat
    BY <1>0, <1>5, OwedIsTold DEF OwedStill
  <2>2. p.cursor.seq \in Int
    BY <1>0, PageFields
  <2>3. CASE e.seq > p.cursor.seq
    BY <1>3, <1>8, <2>3 DEF Above
  <2>4. CASE e.seq <= p.cursor.seq
    <3>1. e.session = p.cursor.session
      BY <1>7, <1>8, <2>1, <2>4 DEF Foreign
    <3> QED BY <2>1, <2>4, <3>1, CursorCovers
  <2> QED BY <2>1, <2>2, <2>3, <2>4
<1>9. ASSUME NEW e \in OwedStill(v), e \notin log
      PROVE  e \in Range(p.held) /\ ~Passed(e, log)
  <2>1. e \in Pending /\ e \notin skipped'[v]
    BY <1>5, <1>9 DEF OwedStill, Owed
  <2>2. ~Passed(e, log)
    BY <1>0, <1>5, <1>9, OwedIsTold
  <2> QED BY <1>7, <2>1, <2>2
<1> HIDE DEF p, q
<1>10. PageIsOfLog(q)
  BY <1>1, <1>3, <1>4 DEF PageIsOfLog, Above
<1>11. PageIsInOrder(q)
  BY <1>3, <1>4 DEF PageIsInOrder
<1>12. ASSUME NEW e \in OwedStill(v)
       PROVE  PageKeeps(q, e)
  <2>1. PageKeeps(p, e)
    BY <1>5
  <2>2. e \in Range(q.got) \union q.read \union Range(q.held)
    BY <1>3, <1>8, <1>9
  <2>3. Passed(e, q.read) => e \in Range(q.got) \union q.read
    <3>1. q.read \subseteq log
      BY <1>3 DEF Above
    <3>2. Passed(e, q.read) => Passed(e, log)
      BY <3>1 DEF Passed
    <3> QED BY <1>3, <1>8, <1>9, <3>2
  <2> QED BY <1>3, <2>1, <2>2, <2>3 DEF PageKeeps
<1> QED BY <1>0, <1>2, <1>3, <1>7, <1>10, <1>11, <1>12, PageMoves DEF q

LEMMA PagesOfReceive ==
    ASSUME Inv, NEW v \in Viewers, Receive(v)
    PROVE  PagesOfLog' /\ PagesInOrder' /\ PagesKeep'
<1> DEFINE p == viewer[v]
           q == viewer'[v]
           e == Head(p.wire)
<1>0. TypeOK /\ LogInv /\ PagesOfLog /\ PagesInOrder /\ PagesKeep
  BY DEF Inv, LogInv, Types
<1>1. /\ p.wire # <<>>
      /\ Becomes(v, p.at, Moved(p.cursor, e), p.held, p.read, Tail(p.wire),
                 Append(p.got, e))
  BY <1>0, ReceiveEffect
<1>2. UNCHANGED <<log, body, told, skipped>>
  BY DEF Receive
<1>3. /\ q.at = p.at /\ q.cursor = Moved(p.cursor, e) /\ q.held = p.held
      /\ q.read = p.read /\ q.wire = Tail(p.wire) /\ q.got = Append(p.got, e)
      /\ \A u \in Viewers : u # v => viewer'[u] = viewer[u]
  BY <1>1 DEF Becomes
<1>4. PageIsOfLog(p) /\ PageIsInOrder(p)
  BY <1>0 DEF PagesOfLog, PagesInOrder
<1>5. \A d \in OwedStill(v) : PageKeeps(p, d)
  BY <1>0 DEF OwedStill, PagesKeep
<1>6. p.wire \in Seq(Event) /\ p.got \in Seq(Event) /\ p.cursor \in Mark
      /\ p.cursor.seq \in Int
  BY <1>0, PageFields
<1>7. /\ e = p.wire[1] /\ e \in Event
      /\ Len(p.wire) \in Nat \ {0}
      /\ DOMAIN p.wire = 1 .. Len(p.wire)
      /\ DOMAIN q.wire = 1 .. Len(p.wire) - 1
      /\ \A i \in DOMAIN q.wire : q.wire[i] = p.wire[i + 1] /\ i + 1 \in DOMAIN p.wire
      /\ Range(p.wire) = {e} \union Range(q.wire)
  BY <1>1, <1>3, <1>6, TailRemoves
<1>8. /\ \A i \in DOMAIN p.got : q.got[i] = p.got[i]
      /\ q.got[Len(p.got) + 1] = e
      /\ DOMAIN q.got = 1 .. Len(p.got) + 1
      /\ DOMAIN p.got = 1 .. Len(p.got)
      /\ Len(p.got) \in Nat
      /\ Range(q.got) = Range(p.got) \union {e}
  <2>1. p.got \in Seq(Event) /\ e \in Event /\ q.got = Append(p.got, e)
    BY <1>3, <1>6, <1>7
  <2> HIDE DEF p, q, e
  <2> QED BY <2>1, AppendAdds
<1>9. /\ q.cursor \in Mark
      /\ p.cursor.seq <= q.cursor.seq
      /\ Numbered(e) => e.seq <= q.cursor.seq
      /\ q.cursor = p.cursor \/ q.cursor = MarkOf(e)
  <2>1. {e} \in SUBSET Event /\ IsFiniteSet({e})
    BY <1>7, FS_Singleton
  <2>2. CASE Numbered(e)
    BY <1>3, <1>6, <2>1, <2>2, FurthestIsReached DEF Moved
  <2>3. CASE ~Numbered(e)
    BY <1>3, <1>6, <2>3 DEF Moved
  <2> QED BY <2>2, <2>3
<1> HIDE DEF p, q, e
<1>10. p.at = "live" /\ p.read = {}
  BY <1>1, <1>4 DEF PageIsOfLog
<1>11. PageIsOfLog(q)
  <2>1. q.cursor.seq \in Int
    BY <1>9 DEF Mark
  <2>2. \A f \in Range(q.got) : Numbered(f) => f.seq <= q.cursor.seq
    <3> TAKE f \in Range(q.got)
    <3> HAVE Numbered(f)
    <3>1. CASE f = e
      BY <1>9, <3>1
    <3>2. CASE f # e
      <4>1. f \in Range(p.got)
        BY <1>8, <3>2
      <4>2. f.seq <= p.cursor.seq /\ f.seq \in Nat
        BY <1>4, <1>6, <4>1, RangeMembers, EventFields DEF PageIsOfLog
      <4> QED BY <1>6, <1>9, <2>1, <4>2
    <3> QED BY <3>1, <3>2
  <2>3. q.cursor.seq = -1 \/ \E f \in Range(q.got) : SamePlace(f, q.cursor)
    <3>1. CASE q.cursor = p.cursor
      BY <1>4, <1>8, <3>1 DEF PageIsOfLog
    <3>2. CASE q.cursor = MarkOf(e)
      BY <1>8, <3>2 DEF MarkOf, SamePlace
    <3> QED BY <1>9, <3>1, <3>2
  <2>4. Range(q.got) \subseteq told /\ Range(q.wire) \subseteq told
    BY <1>4, <1>7, <1>8 DEF PageIsOfLog
  <2> QED BY <1>3, <1>4, <1>10, <2>2, <2>3, <2>4 DEF PageIsOfLog
<1>12. PageIsInOrder(q)
  <2>1. Ordered(q.got)
    <3> SUFFICES ASSUME NEW i \in DOMAIN q.got, NEW j \in DOMAIN q.got, i < j,
                        Ranked(q.got[i], q.got[j])
                 PROVE  q.got[i].seq < q.got[j].seq
      BY DEF Ordered
    <3>1. i \in DOMAIN p.got
      BY <1>8
    <3>2. CASE j \in DOMAIN p.got
      BY <1>4, <1>8, <3>1, <3>2 DEF PageIsInOrder, Ordered
    <3>3. CASE j \notin DOMAIN p.got
      <4>1. j = Len(p.got) + 1
        BY <1>8, <3>3
      <4>2. q.got[j] = e /\ q.got[i] = p.got[i] /\ p.got[i] \in Range(p.got)
        BY <1>8, <3>1, <4>1 DEF Range
      <4>3. e \in Range(p.wire)
        BY <1>7
      <4> QED BY <1>4, <4>2, <4>3 DEF PageIsInOrder, InTurn
    <3> QED BY <3>2, <3>3
  <2>2. Ordered(q.wire)
    <3> SUFFICES ASSUME NEW i \in DOMAIN q.wire, NEW j \in DOMAIN q.wire, i < j,
                        Ranked(q.wire[i], q.wire[j])
                 PROVE  q.wire[i].seq < q.wire[j].seq
      BY DEF Ordered
    <3>1. i + 1 < j + 1 /\ i + 1 \in DOMAIN p.wire /\ j + 1 \in DOMAIN p.wire
      BY <1>7
    <3>2. q.wire[i] = p.wire[i + 1] /\ q.wire[j] = p.wire[j + 1]
      BY <1>7
    <3> QED BY <1>4, <3>1, <3>2 DEF PageIsInOrder, Ordered
  <2>3. \A f \in Range(q.wire) : Ranked(e, f) => e.seq < f.seq
    <3> SUFFICES ASSUME NEW f \in Range(q.wire), Ranked(e, f)
                 PROVE  e.seq < f.seq
      OBVIOUS
    <3>1. PICK j \in DOMAIN q.wire : q.wire[j] = f
      BY DEF Range
    <3>2. p.wire[j + 1] = f /\ j + 1 \in DOMAIN p.wire /\ 1 \in DOMAIN p.wire /\ 1 < j + 1
      BY <1>7, <3>1
    <3> QED BY <1>4, <1>7, <3>2 DEF PageIsInOrder, Ordered
  <2>4. InTurn(Range(q.got), Range(q.wire))
    BY <1>4, <1>7, <1>8, <2>3 DEF PageIsInOrder, InTurn
  <2> QED BY <1>3, <1>4, <2>1, <2>2, <2>4 DEF PageIsInOrder
<1>13. ASSUME NEW d \in OwedStill(v)
       PROVE  PageKeeps(q, d)
  <2>1. PageKeeps(p, d)
    BY <1>5
  <2>2. Range(p.got) \subseteq Range(q.got)
    BY <1>8
  <2>3. Passed(d, Range(q.got)) => d \in Range(q.got)
    <3>1. ASSUME Beyond(d, e) PROVE d \in Range(p.got)
      <4>1. 1 \in DOMAIN p.wire /\ p.wire[1] = e
        BY <1>7
      <4>2. ~EarlierIn(d, p.wire, 1)
        BY <1>7 DEF EarlierIn
      <4> QED BY <2>1, <3>1, <4>1, <4>2 DEF PageKeeps
    <3>2. Passed(d, Range(q.got)) => Passed(d, Range(p.got)) \/ Beyond(d, e)
      BY <1>8 DEF Passed
    <3> QED BY <2>1, <2>2, <3>1, <3>2 DEF PageKeeps
  <2>4. d \in Range(q.got) \union Range(q.wire)
    BY <1>7, <1>8, <1>10, <2>1 DEF PageKeeps
  <2>5. ASSUME NEW j \in DOMAIN q.wire, Beyond(d, q.wire[j])
        PROVE  d \in Range(q.got) \/ EarlierIn(d, q.wire, j)
    <3>1. p.wire[j + 1] = q.wire[j] /\ j + 1 \in DOMAIN p.wire /\ j \in Nat
      BY <1>7
    <3>2. d \in Range(p.got) \/ EarlierIn(d, p.wire, j + 1)
      BY <2>1, <2>5, <3>1 DEF PageKeeps
    <3>3. CASE EarlierIn(d, p.wire, j + 1)
      <4>1. PICK i \in DOMAIN p.wire : i < j + 1 /\ p.wire[i] = d
        BY <3>3 DEF EarlierIn
      <4>2. CASE i = 1
        BY <1>7, <1>8, <4>1, <4>2
      <4>3. CASE i # 1
        <5>1. i - 1 \in DOMAIN q.wire /\ i - 1 < j /\ (i - 1) + 1 = i
          BY <1>7, <3>1, <4>1, <4>3
        <5>2. q.wire[i - 1] = d
          BY <1>7, <4>1, <5>1
        <5> QED BY <5>1, <5>2 DEF EarlierIn
      <4> QED BY <4>2, <4>3
    <3> QED BY <2>2, <3>2, <3>3
  <2>6. ~Passed(d, q.read) /\ q.at # "read"
    BY <1>3, <1>10 DEF Passed
  <2> QED BY <1>3, <2>1, <2>3, <2>4, <2>5, <2>6 DEF PageKeeps
<1>14. \A u \in Viewers : skipped[u] \subseteq skipped'[u]
  BY <1>2
<1> QED BY <1>0, <1>2, <1>3, <1>11, <1>12, <1>13, <1>14, PageMoves DEF q

\* What a replay ends with: the events of the log, up to the mark, then those of
\* the buffer that lie above it, and no event at two places.
LEMMA SentIsInOrder ==
    ASSUME Inv, NEW v \in Viewers
    PROVE  /\ \A e : OfReplay(v, e) =>
                 /\ e \in viewer[v].read /\ e \in Event /\ e \in told
                 /\ e.seq \in Nat /\ e.seq <= Replayed(v).seq
           /\ \A e, x : OfBuffer(v, e, x) =>
                 /\ e \in Range(viewer[v].held) /\ e \in Event /\ e \in told
                 /\ e.seq \in Nat /\ (Numbered(e) => e.seq > Replayed(v).seq)
           /\ Replayed(v).seq \in Int
           /\ viewer[v].cursor.seq <= Replayed(v).seq
           /\ Replayed(v) = viewer[v].cursor
              \/ \E e \in viewer[v].read : Replayed(v) = MarkOf(e)
           /\ Ordered(Sent(v))
<1> DEFINE p == viewer[v]
<1>0. Types /\ TypeOK /\ log \subseteq told /\ PageIsOfLog(p) /\ PageIsInOrder(p)
  BY DEF Inv, LogInv, Types, ToldByWriters, PagesOfLog, PagesInOrder
<1>1. p.held \in Seq(Event) /\ p.cursor \in Mark /\ p.read \in SUBSET Event
  BY <1>0, PageFields
<1>2. p.read \in SUBSET log
  BY <1>0 DEF Types
<1>3. IsFiniteSet(p.read)
  BY <1>0, <1>2, FS_Subset DEF Types
<1>4. /\ Replayed(v) \in Mark
      /\ p.cursor.seq <= Replayed(v).seq
      /\ \A e \in p.read : e.seq <= Replayed(v).seq
      /\ Replayed(v) = p.cursor \/ \E e \in p.read : Replayed(v) = MarkOf(e)
  BY <1>1, <1>3, FurthestIsReached DEF Replayed
<1>5. \A e : OfReplay(v, e) =>
         /\ e \in p.read /\ e \in Event /\ e \in told
         /\ e.seq \in Nat /\ e.seq <= Replayed(v).seq
  <2> SUFFICES ASSUME NEW e, OfReplay(v, e)
               PROVE  /\ e \in p.read /\ e \in Event /\ e \in told
                      /\ e.seq \in Nat /\ e.seq <= Replayed(v).seq
    OBVIOUS
  <2>1. e \in p.read
    BY DEF OfReplay, Shown
  <2> QED BY <1>0, <1>1, <1>2, <1>4, <2>1, EventFields
<1>6. \A e, x : OfBuffer(v, e, x) =>
         /\ e \in Range(p.held) /\ e \in Event /\ e \in told
         /\ e.seq \in Nat /\ (Numbered(e) => e.seq > Replayed(v).seq)
  <2> SUFFICES ASSUME NEW e, NEW x, OfBuffer(v, e, x)
               PROVE  /\ e \in Range(p.held) /\ e \in Event /\ e \in told
                      /\ e.seq \in Nat /\ (Numbered(e) => e.seq > Replayed(v).seq)
    OBVIOUS
  <2>1. x \in DOMAIN p.held /\ p.held[x] = e
        /\ (Numbered(e) => e.seq > Replayed(v).seq)
    BY DEF OfBuffer
  <2>2. e \in Range(p.held) /\ e \in Event
    BY <1>1, <2>1, RangeMembers
  <2> QED BY <1>0, <2>1, <2>2, EventFields DEF PageIsOfLog
<1>7. Replayed(v).seq \in Int
  BY <1>4 DEF Mark
<1>8. Ordered(Sent(v))
  <2> SUFFICES ASSUME NEW i \in DOMAIN Sent(v), NEW j \in DOMAIN Sent(v), i < j,
                      Ranked(Sent(v)[i], Sent(v)[j])
               PROVE  Sent(v)[i].seq < Sent(v)[j].seq
    BY DEF Ordered
  <2> DEFINE e == Sent(v)[i]
             f == Sent(v)[j]
  <2>1. \/ OfReplay(v, e) /\ OfReplay(v, f) /\ Before(e, f)
        \/ OfReplay(v, e) /\ \E y : OfBuffer(v, f, y)
        \/ \E x, y : x < y /\ OfBuffer(v, e, x) /\ OfBuffer(v, f, y)
    BY <1>0, SentIsReplayThenBuffer
  <2>2. Numbered(e) /\ Numbered(f) /\ SameWriter(e, f)
    BY DEF Ranked
  <2> HIDE DEF e, f
  <2>3. CASE OfReplay(v, e) /\ OfReplay(v, f) /\ Before(e, f)
    <3>1. e \in Event /\ f \in Event /\ e.session = f.session
      BY <1>5, <2>2, <2>3 DEF SameWriter
    <3>2. e.session \in Nat /\ ~ (e.session < f.session)
      BY <3>1, EventFields
    <3>3. e.seq < f.seq
      BY <2>3, <3>2 DEF Before
    <3> QED BY <3>3 DEF e, f
  <2>4. CASE OfReplay(v, e) /\ \E y : OfBuffer(v, f, y)
    <3>1. /\ e.seq \in Nat /\ e.seq <= Replayed(v).seq
          /\ f.seq \in Nat /\ f.seq > Replayed(v).seq
      BY <1>5, <1>6, <2>2, <2>4
    <3>2. e.seq < f.seq
      BY <1>7, <3>1
    <3> QED BY <3>2 DEF e, f
  <2>5. CASE \E x, y : x < y /\ OfBuffer(v, e, x) /\ OfBuffer(v, f, y)
    <3>1. PICK x, y : x < y /\ OfBuffer(v, e, x) /\ OfBuffer(v, f, y)
      BY <2>5
    <3>2. /\ x \in DOMAIN p.held /\ p.held[x] = e
          /\ y \in DOMAIN p.held /\ p.held[y] = f
      BY <3>1 DEF OfBuffer
    <3>3. e.seq < f.seq
      BY <1>0, <2>2, <3>1, <3>2 DEF PageIsInOrder, AsWritten
    <3> QED BY <3>3 DEF e, f
  <2> QED BY <2>1, <2>3, <2>4, <2>5
<1> QED BY <1>4, <1>5, <1>6, <1>7, <1>8

LEMMA PagesOfFlush ==
    ASSUME Inv, NEW v \in Viewers, Flush(v)
    PROVE  PagesOfLog' /\ PagesInOrder' /\ PagesKeep'
<1> DEFINE p == viewer[v]
           q == viewer'[v]
           mark == Replayed(v)
<1>0. /\ Types /\ TypeOK /\ LogInv /\ PagesOfLog /\ PagesInOrder /\ PagesKeep
  BY DEF Inv, LogInv, Types
<1>1. /\ p.at = "read"
      /\ Becomes(v, "live", p.cursor, <<>>, {}, p.wire \o Sent(v), p.got)
  BY <1>0, FlushEffect
<1>2. UNCHANGED <<log, body, told>>
  BY DEF Flush
<1>3. PageIsOfLog(p) /\ PageIsInOrder(p)
  BY <1>0 DEF PagesOfLog, PagesInOrder
<1>4. /\ Sent(v) \in Seq(Event)
      /\ \A i \in DOMAIN Sent(v) :
            OfReplay(v, Sent(v)[i]) \/ \E x : OfBuffer(v, Sent(v)[i], x)
      /\ \A e : OfReplay(v, e) => \E i \in DOMAIN Sent(v) : Sent(v)[i] = e
      /\ \A e, x : OfBuffer(v, e, x) => \E i \in DOMAIN Sent(v) : Sent(v)[i] = e
      /\ \A i, j \in DOMAIN Sent(v) : i < j =>
            \/ /\ OfReplay(v, Sent(v)[i]) /\ OfReplay(v, Sent(v)[j])
               /\ Before(Sent(v)[i], Sent(v)[j])
            \/ OfReplay(v, Sent(v)[i]) /\ \E y : OfBuffer(v, Sent(v)[j], y)
            \/ \E x, y : x < y /\ OfBuffer(v, Sent(v)[i], x) /\ OfBuffer(v, Sent(v)[j], y)
      /\ \A e, j : j \in DOMAIN Sent(v) /\ OfReplay(v, e)
                     /\ OfReplay(v, Sent(v)[j]) /\ Before(e, Sent(v)[j])
                   => \E i \in DOMAIN Sent(v) : i < j /\ Sent(v)[i] = e
  BY <1>0, SentIsReplayThenBuffer
<1>5. p.wire \o Sent(v) = Sent(v)
  <2>1. p.wire = <<>>
    BY <1>1, <1>3 DEF PageIsOfLog
  <2> QED BY <1>4, <2>1
<1>6. /\ q.at = "live" /\ q.cursor = p.cursor /\ q.held = <<>>
      /\ q.read = {} /\ q.wire = Sent(v) /\ q.got = p.got
      /\ \A u \in Viewers : u # v => viewer'[u] = viewer[u]
  BY <1>1, <1>5 DEF Becomes
<1>7. /\ \A e : OfReplay(v, e) =>
            /\ e \in p.read /\ e \in Event /\ e \in told
            /\ e.seq \in Nat /\ e.seq <= mark.seq
      /\ \A e, x : OfBuffer(v, e, x) =>
            /\ e \in Range(p.held) /\ e \in Event /\ e \in told
            /\ e.seq \in Nat /\ (Numbered(e) => e.seq > mark.seq)
      /\ mark.seq \in Int
      /\ p.cursor.seq <= mark.seq
      /\ mark = p.cursor \/ \E e \in p.read : mark = MarkOf(e)
      /\ Ordered(Sent(v))
  BY SentIsInOrder
<1>8. /\ \A u \in Viewers : skipped[u] \subseteq skipped'[u]
      /\ \A e \in Range(p.held) \intersect Foreign(mark) :
            Numbered(e) => e \in skipped'[v]
  <2>1. skipped \in [Viewers -> SUBSET Event]
        /\ skipped' = [skipped EXCEPT ![v] =
                         @ \union {e \in Range(p.held) \intersect Foreign(mark) :
                                       Numbered(e)}]
    BY <1>0 DEF Flush, TypeOK
  <2> QED BY <2>1
<1>9. \A e \in OwedStill(v) : /\ PageKeeps(p, e) /\ e \in Owed(v) /\ e \notin skipped'[v]
                              /\ e \in told /\ e \in Event /\ e.seq \in Nat
                              /\ e.form # "none"
                              /\ \A f \in told : SamePlace(f, e) => f = e
  BY <1>0, OwedIsTold DEF OwedStill, PagesKeep
<1>10. /\ p.cursor.seq \in Int /\ p.held \in Seq(Event) /\ p.got \in Seq(Event)
       /\ p.read \in SUBSET Event
  BY <1>0, PageFields
<1>11. p.read \subseteq told
  BY <1>0 DEF LogInv, Types, ToldByWriters
\* The buffer's events that the mark covers are there already.
<1>12. ASSUME NEW d \in OwedStill(v), d \in Range(p.held), Numbered(d),
              ~ (d.seq > mark.seq)
       PROVE  d \in Range(p.got) \union p.read
  <2>1. d.seq <= mark.seq
    BY <1>7, <1>9, <1>12
  <2>2. d.session = mark.session
    BY <1>8, <1>9, <1>12, <2>1 DEF Foreign
  <2>3. CASE mark = p.cursor
    BY <1>9, <2>1, <2>2, <2>3, CursorCovers
  <2>4. CASE \E e \in p.read : mark = MarkOf(e)
    <3>1. PICK e \in p.read : mark = MarkOf(e)
      BY <2>4
    <3>2. e.seq = mark.seq /\ e.session = mark.session /\ e.seq \in Nat /\ e \in told
      BY <1>10, <1>11, <3>1, EventFields DEF MarkOf
    <3>3. CASE e.seq = d.seq
      BY <1>9, <2>2, <3>1, <3>2, <3>3 DEF SamePlace
    <3>4. CASE e.seq # d.seq
      <4>1. Beyond(d, e)
        BY <1>9, <2>1, <2>2, <3>2, <3>4 DEF Beyond
      <4> QED BY <1>9, <3>1, <4>1 DEF PageKeeps, Passed
    <3> QED BY <3>3, <3>4
  <2> QED BY <1>7, <2>3, <2>4
<1> HIDE DEF p, q, mark
<1>13. \A d \in OwedStill(v) : d \in p.read => OfReplay(v, d)
  BY <1>9 DEF OfReplay, Shown, p
<1>14. \A x : \A d \in OwedStill(v) :
          x \in DOMAIN p.held /\ p.held[x] = d /\ (Numbered(d) => d.seq > mark.seq)
            => OfBuffer(v, d, x)
  BY DEF OfBuffer, p, mark
<1>15. \A e, x : OfBuffer(v, e, x) => x \in DOMAIN p.held /\ p.held[x] = e
  BY DEF OfBuffer, p
<1>16. ASSUME NEW d \in OwedStill(v)
       PROVE  d \in Range(p.got) \/ OfReplay(v, d) \/ \E x : OfBuffer(v, d, x)
  <2>1. d \in Range(p.got) \union p.read \union Range(p.held)
    BY <1>1, <1>9 DEF PageKeeps
  <2>2. ASSUME d \in Range(p.held), Numbered(d) => d.seq > mark.seq
        PROVE  \E x : OfBuffer(v, d, x)
    <3>1. PICK x \in DOMAIN p.held : p.held[x] = d
      BY <2>2 DEF Range
    <3> QED BY <1>14, <2>2, <3>1
  <2> QED BY <1>12, <1>13, <2>1, <2>2
<1>17. \A i, j \in DOMAIN p.held : p.held[i] = p.held[j] => i = j
  <2> SUFFICES ASSUME NEW i \in DOMAIN p.held, NEW j \in DOMAIN p.held,
                      p.held[i] = p.held[j], i < j
               PROVE  FALSE
    <3>1. DOMAIN p.held \subseteq Nat
      BY <1>10
    <3> QED BY <3>1
  <2>1. SameWriter(p.held[i], p.held[j]) /\ p.held[i].seq \in Nat
    BY <1>10, EventFields DEF SameWriter
  <2> QED BY <1>3, <2>1 DEF PageIsInOrder, AsWritten
<1>18. PageIsOfLog(q)
  <2>1. Range(q.wire) \subseteq told
    <3> SUFFICES ASSUME NEW e \in Range(q.wire) PROVE e \in told
      OBVIOUS
    <3>1. PICK i \in DOMAIN Sent(v) : Sent(v)[i] = e
      BY <1>6 DEF Range
    <3> QED BY <1>4, <1>7, <3>1
  <2> QED BY <1>3, <1>6, <2>1, RangeOfEmpty DEF PageIsOfLog
<1>19. PageIsInOrder(q)
  <2>1. InTurn(Range(q.got), Range(q.wire))
    <3> SUFFICES ASSUME NEW e \in Range(p.got), NEW f \in Range(q.wire), Ranked(e, f)
                 PROVE  e.seq < f.seq
      BY <1>6 DEF InTurn
    <3>0. Numbered(e) /\ Numbered(f)
      BY DEF Ranked
    <3>1. PICK i \in DOMAIN Sent(v) : Sent(v)[i] = f
      BY <1>6 DEF Range
    <3>2. OfReplay(v, f) \/ \E x : OfBuffer(v, f, x)
      BY <1>4, <3>1
    <3>3. e.seq \in Nat /\ e.seq <= p.cursor.seq
      BY <1>3, <1>10, <3>0, RangeMembers, EventFields DEF PageIsOfLog
    <3>4. CASE OfReplay(v, f)
      <4>1. f.seq \in Nat /\ f.seq > p.cursor.seq
        BY <1>3, <1>7, <3>4 DEF PageIsOfLog
      <4> QED BY <1>10, <3>3, <4>1
    <3>5. CASE \E x : OfBuffer(v, f, x)
      <4>1. f.seq \in Nat /\ f.seq > mark.seq
        BY <1>7, <3>0, <3>5
      <4> QED BY <1>7, <1>10, <3>3, <4>1
    <3> QED BY <3>2, <3>4, <3>5
  <2> QED BY <1>3, <1>6, <1>7, <2>1, EmptyIsInOrder DEF PageIsInOrder
<1>20. ASSUME NEW d \in OwedStill(v), NEW j \in DOMAIN Sent(v), Beyond(d, Sent(v)[j]),
              d \notin Range(p.got)
       PROVE  EarlierIn(d, Sent(v), j)
  <2> DEFINE f == Sent(v)[j]
  <2>1. f.seq > d.seq /\ d.seq \in Nat
    BY <1>9, <1>20 DEF Beyond
  <2>2. OfReplay(v, f) \/ \E y : OfBuffer(v, f, y)
    BY <1>4
  <2>3. Beyond(d, f)
    BY <1>20
  <2>4. PICK i \in DOMAIN Sent(v) : Sent(v)[i] = d
    BY <1>4, <1>16, <1>20
  <2>5. i \in Nat /\ j \in Nat
    BY <1>4
  <2>6. ASSUME j < i
        PROVE  \/ OfReplay(v, f) /\ OfReplay(v, d) /\ Before(f, d)
               \/ OfReplay(v, f) /\ \E y : OfBuffer(v, d, y)
               \/ \E x, y : x < y /\ OfBuffer(v, f, x) /\ OfBuffer(v, d, y)
    BY <1>4, <2>4, <2>6
  <2> HIDE DEF f
  <2>7. f.seq \in Nat /\ i # j
    <3>1. f.seq \in Nat
      BY <1>7, <2>2
    <3>2. ASSUME i = j PROVE FALSE
      BY <2>1, <2>4, <3>1, <3>2 DEF f
    <3> QED BY <3>1, <3>2
  <2>8. CASE OfReplay(v, f)
    <3>1. Passed(d, p.read)
      BY <1>7, <2>3, <2>8 DEF Passed
    <3>2. d \in p.read
      BY <1>9, <1>20, <3>1 DEF PageKeeps
    <3>3. OfReplay(v, d) /\ Before(d, f)
      BY <1>13, <2>1, <3>2 DEF Before
    <3> QED BY <1>4, <1>20, <2>8, <3>3 DEF EarlierIn, f
  <2>9. CASE ~OfReplay(v, f)
    <3>1. ASSUME j < i PROVE FALSE
      <4>1. PICK x, y : x < y /\ OfBuffer(v, f, x) /\ OfBuffer(v, d, y)
        BY <2>6, <2>9, <3>1
      <4>2. /\ x \in DOMAIN p.held /\ p.held[x] = f
            /\ y \in DOMAIN p.held /\ p.held[y] = d
        BY <1>15, <4>1
      <4>3. d \in Range(p.held)
        BY <4>2 DEF Range
      <4>4. EarlierIn(d, p.held, x)
        BY <1>9, <2>3, <4>2, <4>3 DEF PageKeeps
      <4>5. PICK z \in DOMAIN p.held : z < x /\ p.held[z] = d
        BY <4>4 DEF EarlierIn
      <4>6. z = y
        BY <1>17, <4>2, <4>5
      <4>7. x \in Nat /\ y \in Nat
        BY <1>10, <4>2
      <4> QED BY <4>1, <4>5, <4>6, <4>7
    <3> QED BY <2>4, <2>5, <2>7, <3>1 DEF EarlierIn
  <2> QED BY <2>8, <2>9
<1>21. ASSUME NEW d \in OwedStill(v)
       PROVE  PageKeeps(q, d)
  <2>1. Passed(d, Range(q.got)) => d \in Range(q.got)
    BY <1>6, <1>9 DEF PageKeeps
  <2>2. d \in Range(q.got) \/ d \in Range(q.wire)
    BY <1>4, <1>6, <1>16 DEF Range
  <2>3. \A j \in DOMAIN q.wire : Beyond(d, q.wire[j]) =>
           d \in Range(q.got) \/ EarlierIn(d, q.wire, j)
    BY <1>6, <1>20
  <2>4. ~Passed(d, q.read) /\ DOMAIN q.held = {}
    BY <1>6 DEF Passed
  <2> QED BY <1>6, <2>1, <2>2, <2>3, <2>4 DEF PageKeeps
<1> QED BY <1>0, <1>2, <1>6, <1>8, <1>18, <1>19, <1>21, PageMoves DEF q

-----------------------------------------------------------------------------
(* Every step.                                                             *)

LEMMA PagesStep ==
    ASSUME Inv, [Next]_vars
    PROVE  PagesOfLog' /\ PagesInOrder' /\ PagesKeep'
<1>0. /\ Types /\ TypeOK /\ LogInv /\ PagesOfLog /\ PagesInOrder /\ PagesKeep
      /\ QueuesAreChains
  BY DEF Inv, LogInv, Types
<1>1. ASSUME UNCHANGED <<log, body, viewer, told, skipped>>
      PROVE  PagesOfLog' /\ PagesInOrder' /\ PagesKeep'
  <2>1. \A e \in Pending' : e \in Pending
    BY <1>1 DEF Pending
  <2> QED BY <1>0, <1>1, <2>1, PagesStill, PagesKeepStill
<1>2. ASSUME NEW b \in Bodies, StartBody(b)
      PROVE  PagesOfLog' /\ PagesInOrder' /\ PagesKeep'
  <2>1. UNCHANGED <<log, viewer, told, skipped>>
    BY <1>2 DEF StartBody
  <2>2. /\ body'[b].queue = <<>>
        /\ \A c \in Bodies : c # b => body'[c] = body[c]
    BY <1>0, <1>2, StartBodyEffect
  <2>3. DOMAIN <<>> = {}
    OBVIOUS
  <2>4. \A e \in Pending' : e \in Pending
    <3> TAKE e \in Pending'
    <3>1. PICK c \in Bodies : \E i \in DOMAIN body'[c].queue : body'[c].queue[i] = e
      BY PendingQueued
    <3>2. c # b
      BY <2>2, <2>3, <3>1
    <3> QED BY <2>2, <3>1, <3>2, PendingQueued
  <2> QED BY <1>0, <2>1, <2>4, PagesStill, PagesKeepStill
<1>3. ASSUME NEW b \in Bodies, Emit(b)
      PROVE  PagesOfLog' /\ PagesInOrder' /\ PagesKeep'
  <2>1. PICK e \in Event :
           /\ e.session = body[b].session /\ e.seq = body[b].next /\ e.by = b
           /\ Publish(e)
           /\ body'[b].queue = Append(body[b].queue, e)
           /\ \A c \in Bodies : c # b => body'[c] = body[c]
    BY <1>0, <1>3, EmitEffect
  <2>2. Fresh(e)
    BY <1>0, <2>1, EmitIsFresh
  <2>3. body[b].queue \in Seq(Event)
    BY <1>0, BodyFields
  <2>4. Range(body'[b].queue) = Range(body[b].queue) \union {e}
    BY <2>1, <2>3, AppendAdds
  <2>5. \A x \in Pending' : x \in Pending \/ x = e
    <3> TAKE x \in Pending'
    <3>1. PICK c \in Bodies : x \in Range(body'[c].queue)
      BY DEF Pending
    <3>2. x = e \/ x \in Range(body[c].queue)
      BY <2>1, <2>4, <3>1
    <3> QED BY <3>2 DEF Pending
  <2>6. UNCHANGED <<log, skipped>>
    BY <1>3 DEF Emit
  <2> QED BY <1>0, <2>1, <2>2, <2>5, <2>6, PagesOfPublish, PagesKeepPublished
<1>4. ASSUME NEW b \in Bodies, AppendNext(b)
      PROVE  PagesOfLog' /\ PagesInOrder' /\ PagesKeep'
  <2> DEFINE h == Head(body[b].queue)
  <2>1. /\ body[b].queue # <<>> /\ h \in Event
        /\ body'[b].queue = Tail(body[b].queue)
        /\ \A c \in Bodies : c # b => body'[c] = body[c]
    BY <1>0, <1>4, AppendNextEffect
  <2>2. body[b].queue \in Seq(Event)
    BY <1>0, BodyFields
  <2>3. Range(body[b].queue) = {h} \union Range(body'[b].queue)
    BY <2>1, <2>2, TailRemoves
  <2>4. h \in Pending
    BY <2>3 DEF Pending
  <2>5. \A x \in Pending' : x \in Pending
    <3> TAKE x \in Pending'
    <3>1. PICK c \in Bodies : x \in Range(body'[c].queue)
      BY DEF Pending
    <3>2. x \in Range(body[c].queue)
      BY <2>1, <2>3, <3>1
    <3> QED BY <3>2 DEF Pending
  <2>6. UNCHANGED <<viewer, told, skipped>>
    BY <1>4 DEF AppendNext
  <2>7. \A e \in log' : e \in log \/ e = h
    BY <1>0, <1>4, <2>1, InsertGrows DEF AppendNext
  <2> QED BY <1>0, <2>4, <2>5, <2>6, <2>7, PagesStill, PagesKeepStill
<1>5. CASE DrawLine
  BY <1>1, <1>5 DEF DrawLine
<1>6. CASE WriteLine
  <2>1. PICK e \in Event :
           /\ e.session = line.session /\ e.seq = line.seq /\ e.by = None
           /\ Insert(e) /\ line # NoLine /\ told' = told \union {e}
           /\ (Publish(e) /\ UNCHANGED skipped) \/ Withhold(e)
    BY <1>0, <1>6, WriteLineEffect DEF Types
  <2>2. Fresh(e)
    BY <1>0, <2>1, WriteIsFresh
  <2>3. \A x \in log' : x \in log \/ x = e
    BY <1>0, <2>1, InsertGrows
  <2>4. UNCHANGED body
    BY <1>6 DEF WriteLine
  <2>5. \A x \in Pending' : x \in Pending \/ x = e
    BY <2>4 DEF Pending
  <2>6. CASE Publish(e) /\ UNCHANGED skipped
    BY <1>0, <2>2, <2>3, <2>4, <2>5, <2>6, PagesOfPublish, PagesKeepPublished
  <2>7. CASE Withhold(e)
    <3>1. PagesOfLog' /\ PagesKeep'
      BY <1>0, <2>2, <2>3, <2>4, <2>7, PagesKeepWithheld
    <3>2. PagesInOrder'
      BY <1>0, <2>7 DEF Withhold, PagesInOrder, PageIsInOrder, Ordered, AsWritten, InTurn
    <3> QED BY <3>1, <3>2
  <2> QED BY <2>1, <2>6, <2>7
<1>7. CASE \E s \in Sessions : Plan(s)
  BY <1>1, <1>7 DEF Plan
<1>8. CASE \E r \in planned : Summarise(r)
  BY <1>1, <1>8 DEF Summarise
<1>9. ASSUME NEW v \in Viewers, Attach(v)
      PROVE  PagesOfLog' /\ PagesInOrder' /\ PagesKeep'
  BY <1>9, PagesOfAttach
<1>10. ASSUME NEW v \in Viewers, ReadLog(v)
       PROVE  PagesOfLog' /\ PagesInOrder' /\ PagesKeep'
  BY <1>10, PagesOfReadLog
<1>11. ASSUME NEW v \in Viewers, Flush(v)
       PROVE  PagesOfLog' /\ PagesInOrder' /\ PagesKeep'
  BY <1>11, PagesOfFlush
<1>12. ASSUME NEW v \in Viewers, Receive(v)
       PROVE  PagesOfLog' /\ PagesInOrder' /\ PagesKeep'
  BY <1>12, PagesOfReceive
<1>13. ASSUME NEW v \in Viewers, Disconnect(v)
       PROVE  PagesOfLog' /\ PagesInOrder' /\ PagesKeep'
  BY <1>13, PagesOfDisconnect
<1>14. CASE UNCHANGED vars
  BY <1>1, <1>14 DEF vars
<1> QED BY <1>2, <1>3, <1>4, <1>5, <1>6, <1>7, <1>8, <1>9, <1>10, <1>11, <1>12,
           <1>13, <1>14 DEF Next, Connection

LEMMA InvInitially == Init => Inv
<1> SUFFICES ASSUME Init PROVE Inv
  OBVIOUS
<1>1. LogInv
  BY LogInvInitially
<1>2. summaries = {} /\ planned = {} /\ log = {}
  BY DEF Init
<1>3. Tiled
  <2>1. \A s \in Sessions : TiledTo(s, 0)
    BY <1>2 DEF TiledTo
  <2> QED BY <1>2, <2>1 DEF Tiled
<1>4. \A v \in Viewers : viewer[v] = NewViewer
  BY DEF Init
<1>5. PageIsOfLog(NewViewer)
  BY RangeOfEmpty DEF PageIsOfLog, NewViewer
<1>6. PageIsInOrder(NewViewer)
  BY EmptyIsInOrder DEF PageIsInOrder, NewViewer
<1>7. Pending = {}
  <2>1. \A b \in Bodies : body[b].queue = <<>>
    BY DEF Init, NoBody
  <2> QED BY <2>1, RangeOfEmpty DEF Pending
<1>8. \A v \in Viewers : Owed(v) = {}
  BY <1>2, <1>7 DEF Owed
<1> QED BY <1>1, <1>3, <1>4, <1>5, <1>6, <1>8
        DEF Inv, PagesOfLog, PagesInOrder, PagesKeep

LEMMA InvStep == Inv /\ [Next]_vars => Inv'
<1> SUFFICES ASSUME Inv, [Next]_vars PROVE Inv'
  OBVIOUS
<1>1. LogInv'
  BY LogInvStep DEF Inv
<1>2. Tiled'
  BY TiledStep DEF Inv
<1> QED BY <1>1, <1>2, PagesStep DEF Inv

\* In every reachable state the log, the bodies, the summaries and the pages
\* are as Inv says: whatever round.ts, scope.ts, ws/replay.ts and session-log.ts
\* did, and in which order.
THEOREM Invariance == Spec => []Inv
<1>1. Init => Inv
  BY InvInitially
<1>2. Inv /\ [Next]_vars => Inv'
  BY InvStep
<1> QED BY <1>1, <1>2, PTL DEF Spec

-----------------------------------------------------------------------------
(* The properties.                                                         *)

\* The variables keep their types.
THEOREM Typing == Spec => []TypeOK
<1>1. Inv => TypeOK
  BY DEF Inv, LogInv, Types
<1> QED BY <1>1, Invariance, PTL

\* The numbers of a Session run from 0 without a gap, whichever bodies and lines
\* draw and append them at once, unless an append threw (nextSessionEventSeq,
\* appendSessionEvent).
THEOREM DenseLog == Spec => []LogIsDense
<1>1. Inv => LogIsDense
  BY NumbersAreDense DEF Inv
<1> QED BY <1>1, Invariance, PTL

\* No two summaries of a Session overlap, and each counts what it covers, however
\* many compactions run at once and whatever is appended meanwhile
\* (compactSession).
THEOREM Partition == Spec => []SummariesArePartition
<1>1. Inv => SummariesArePartition
  <2> SUFFICES ASSUME Tiled, ~failed, NEW r \in summaries
               PROVE  /\ Cardinality({e \in log : Covers(r, e)}) = r.count
                      /\ \A q \in summaries \ {r} :
                            q.session = r.session => q.to < r.from \/ r.to < q.from
    BY DEF Inv, SummariesArePartition
  <2> QED BY DEF Tiled, Counted, Apart
<1> QED BY <1>1, Invariance, PTL

\* A page that has an event of a Session has every earlier stored one with a
\* form on the wire, however its connections, replays and buffers fell between
\* the writers' steps, but for the contested and the skipped (attachSubscriber).
THEOREM NoEventMissed == Spec => []NothingMissed
<1>1. Inv => NothingMissed
  <2> SUFFICES ASSUME Inv, NEW v \in Viewers, NEW e \in log,
                      e.form # "none", ~Contested(e), e \notin skipped[v],
                      NEW f \in Reached(v, e.session), f.seq > e.seq
               PROVE  e \in Range(viewer[v].got)
    BY DEF NothingMissed
  <2>1. e \in Owed(v)
    BY DEF Owed
  <2>2. PageKeeps(viewer[v], e)
    BY <2>1 DEF Inv, PagesKeep
  <2>3. f \in Range(viewer[v].got) /\ Beyond(e, f)
    BY DEF Reached, Beyond
  <2> QED BY <2>2, <2>3 DEF PageKeeps, Passed
<1> QED BY <1>1, Invariance, PTL

\* A page gets the events of one writer whose frames carry a number in the order
\* they were written and none of them twice, though its replay and its buffer
\* overlap and the connection breaks (attachSubscriber, useEventStream). Of bare
\* frames it says nothing: those may come again.
THEOREM OrderKept == Spec => []OrderIsKept
<1>1. Inv => OrderIsKept
  <2> SUFFICES ASSUME Inv, NEW v \in Viewers,
                      NEW i \in DOMAIN viewer[v].got, NEW j \in DOMAIN viewer[v].got,
                      i < j, Ranked(viewer[v].got[i], viewer[v].got[j])
               PROVE  viewer[v].got[i].seq < viewer[v].got[j].seq
    BY DEF OrderIsKept, Ranked, SameWriter
  <2> QED BY DEF Inv, PagesInOrder, PageIsInOrder, Ordered
<1> QED BY <1>1, Invariance, PTL

\* What the log holds of a Session up to its highest number never changes, so a
\* fork point stays what it was minted at (verifySessionCursor), unless an append
\* threw.
THEOREM ForkPoints == Spec => ForkPointsHold
<1>1. Inv /\ [Next]_vars =>
         [~failed' => \A s \in Sessions :
             {e \in log' : e.session = s /\ e.seq < NextSeq(s)} = LogOf(s)]_log
  BY ForkPointsStep DEF Inv
<1> QED BY <1>1, Invariance, PTL DEF Spec, ForkPointsHold
=============================================================================
