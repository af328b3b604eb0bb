--------------------------- MODULE TaskTree_proofs ---------------------------
(***************************************************************************)
(* Proofs about TaskTree, for any Tasks on any Issues, any window and any  *)
(* bounds. Walks are reasoned about by the sets they cannot leave: an edge *)
(* keeps a graph grounded when a set that holds its head and is left by no *)
(* edge does not hold its tail.                                            *)
(***************************************************************************)
EXTENDS TaskTree, TLAPS

USE TasksAssumption, WindowAssumption, MixesAssumption

-----------------------------------------------------------------------------
(* Graphs.                                                                 *)

LEMMA NoEdgesAreGrounded ==
    ASSUME NEW E, E = {}
    PROVE  Grounded(E)
<1> SUFFICES ASSUME NEW S \in (SUBSET Tasks) \ {{}}
             PROVE  \E a \in S : \A e \in E : e[1] = a => e[2] \notin S
  BY DEF Grounded
<1>1. PICK a \in S : TRUE
  OBVIOUS
<1> QED BY <1>1

LEMMA FewerEdgesStayGrounded ==
    ASSUME NEW E, NEW F \in SUBSET E, Grounded(E)
    PROVE  Grounded(F)
  BY DEF Grounded

\* What checkDependencyEdge and checkParentEdge are for.
LEMMA EdgeKeepsGrounded ==
    ASSUME NEW E, Grounded(E), NEW a \in Tasks, NEW b \in Tasks,
           ~Reaches(E, b, a)
    PROVE  Grounded(E \union {<<a, b>>})
<1>1. PICK C \in SUBSET Tasks : b \in C /\ Closed(C, E) /\ a \notin C
  BY DEF Reaches
<1> SUFFICES ASSUME NEW S \in (SUBSET Tasks) \ {{}}
             PROVE  \E x \in S : \A e \in E \union {<<a, b>>} :
                       e[1] = x => e[2] \notin S
  BY DEF Grounded
<1>2. CASE S \intersect C = {}
  <2>1. PICK x \in S : \A e \in E : e[1] = x => e[2] \notin S
    BY DEF Grounded
  <2>2. b \notin S
    BY <1>1, <1>2
  <2> QED BY <2>1, <2>2
<1>3. CASE S \intersect C # {}
  <2>1. S \intersect C \in (SUBSET Tasks) \ {{}}
    BY <1>3
  <2>2. PICK x \in S \intersect C :
             \A e \in E : e[1] = x => e[2] \notin S \intersect C
    BY <2>1 DEF Grounded
  <2>3. \A e \in E : e[1] = x => e[2] \in C
    BY <1>1 DEF Closed
  <2>4. x # a
    BY <1>1
  <2> QED BY <2>2, <2>3, <2>4
<1> QED BY <1>2, <1>3

\* What a walk finds, it finds from one edge further down as well.
LEMMA SubtreeGoesDown ==
    ASSUME NEW S, NEW id, NEW t \in S, t \in Tasks,
           parent[t] \in Subtree(S, id)
    PROVE  t \in Subtree(S, id)
<1>1. <<t, parent[t]>> \in UpFrom(S)
  BY DEF UpFrom, Subtree
<1>2. ASSUME NEW C \in SUBSET Tasks, t \in C, Closed(C, UpFrom(S))
      PROVE  id \in C
  BY <1>1, <1>2 DEF Closed, Subtree, Reaches
<1> QED BY <1>2 DEF Subtree, Reaches

\* A Task in a subtree is its root, or below one that is in it.
LEMMA SubtreeHangsTogether ==
    ASSUME NEW S, NEW id, NEW t \in Subtree(S, id), t # id
    PROVE  t \in S /\ parent[t] \in Subtree(S, id)
<1>0. t \in Tasks /\ Reaches(UpFrom(S), t, id)
  BY DEF Subtree
<1>1. t \in S /\ parent[t] \in Tasks
  <2> SUFFICES ASSUME t \notin S \/ parent[t] \notin Tasks PROVE FALSE
    OBVIOUS
  <2>1. Closed({t}, UpFrom(S))
    BY DEF Closed, UpFrom
  <2> QED BY <1>0, <2>1 DEF Reaches
<1>2. ASSUME NEW C \in SUBSET Tasks, parent[t] \in C, Closed(C, UpFrom(S))
      PROVE  id \in C
  <2>1. Closed(C \union {t}, UpFrom(S))
    BY <1>2 DEF Closed, UpFrom
  <2> QED BY <1>0, <2>1 DEF Reaches
<1> QED BY <1>1, <1>2 DEF Subtree, Reaches

-----------------------------------------------------------------------------
(* The inductive invariant.                                                *)

\* Marks: none on an id without a row, and none from the future.
Marks == /\ \A t \in Tasks \ rows : deletedAt[t] = 0
         /\ \A t \in Tasks : deletedAt[t] < clock
         /\ \A r \in restoring : r.stamp < clock

\* What a restore read of its parent still holds while its mark does, but that
\* the parent may have been purged.
ReadHolds == \A r \in restoring :
    deletedAt[r.id] = r.stamp => parent[r.id] \in {r.parent, NoTask}

LiveUnderLive == ~overtaken => \A t \in Live : parent[t] \in Live \union {NoTask}

EdgesAreLive == \A e \in blocked \ late : e[1] \in Live /\ e[2] \in Live

\* What is listed can be restored no more, and no restore is on its way to it.
ListIsFinal ==
    /\ purging \intersect unused = {}
    /\ \A t \in (purging \intersect rows) \ touched :
          /\ deletedAt[t] # 0
          /\ deletedAt[t] + Window < clock
          /\ \A r \in restoring : r.id # t /\ r.stamp # deletedAt[t]

LEMMA SpendIsTyped ==
    ASSUME TypeOK, NEW b \in Bounded, Spend(b)
    PROVE  left' \in [Bounded -> Nat]
  BY DEF TypeOK, Spend

LEMMA DropsEdges ==
    ASSUME TypeOK, NEW S \in SUBSET Tasks, DropEdges(S)
    PROVE  /\ blocked' \subseteq blocked
           /\ late' \subseteq blocked'
           /\ \A e \in blocked' : e[1] \notin S /\ e[2] \notin S
           /\ blocked' \ late' \subseteq blocked \ late
<1>1. late \subseteq blocked
  BY DEF TypeOK
<1>2. \A e : e \in blocked' <=> e \in blocked /\ ~(e[1] \in S \/ e[2] \in S)
  BY DEF DropEdges, Touching
<1>3. \A e : e \in late' <=> e \in late /\ ~(e[1] \in S \/ e[2] \in S)
  BY DEF DropEdges, Touching
<1> QED BY <1>1, <1>2, <1>3

LEMMA CascadeDoes ==
    ASSUME TypeOK, Marks, NEW S \in SUBSET Tasks, Cascade(S)
    PROVE  /\ rows' = rows \ S
           /\ parent' \in [Tasks -> rows' \union {NoTask}]
           /\ \A t \in Tasks : parent'[t] \in {parent[t], NoTask}
           /\ deletedAt' \in [Tasks -> Nat]
           /\ \A t \in Tasks : t \in S => deletedAt'[t] = 0
           /\ \A t \in Tasks : t \notin S => deletedAt'[t] = deletedAt[t]
           /\ blocked' \subseteq rows' \X rows'
           /\ blocked' \subseteq blocked
           /\ late' \subseteq blocked'
           /\ blocked' \ late' \subseteq blocked \ late
           /\ Live' = Live \ S
           /\ \A e \in blocked' : e[1] \notin S /\ e[2] \notin S
  BY DropsEdges DEF TypeOK, Cascade, Live

LEMMA Initially ==
    Init => /\ TypeOK /\ Marks /\ ReadHolds /\ LiveUnderLive /\ EdgesAreLive
            /\ ListIsFinal /\ Grounded(blocked) /\ Grounded(UpFrom(rows))
<1> SUFFICES ASSUME Init
             PROVE  /\ TypeOK /\ Marks /\ ReadHolds /\ LiveUnderLive
                    /\ EdgesAreLive /\ ListIsFinal
                    /\ Grounded(blocked) /\ Grounded(UpFrom(rows))
  OBVIOUS
<1>1. TypeOK
  <2>1. left \in [Bounded -> Nat]
    BY DEF Init
  <2>2. parent \in [Tasks -> rows \union {NoTask}] /\ deletedAt \in [Tasks -> Nat]
    BY DEF Init
  <2>3. /\ blocked = {} /\ late = {} /\ adding = {} /\ restoring = {}
        /\ purging = {} /\ touched = {} /\ rows = {} /\ unused = Tasks
    BY DEF Init
  <2>4. overtaken \in BOOLEAN
    BY Zenon DEF Init
  <2>5. clock \in Nat \ {0}
    BY SMT DEF Init
  <2> QED BY <2>1, <2>2, <2>3, <2>4, <2>5 DEF TypeOK
<1>2. Marks /\ ReadHolds /\ LiveUnderLive /\ EdgesAreLive /\ ListIsFinal
  BY DEF Init, Marks, ReadHolds, LiveUnderLive, EdgesAreLive, ListIsFinal, Live
<1>3. blocked = {} /\ UpFrom(rows) = {}
  BY DEF Init, UpFrom
<1>4. Grounded(blocked) /\ Grounded(UpFrom(rows))
  BY <1>3, NoEdgesAreGrounded
<1> QED BY <1>1, <1>2, <1>4

\* The types of the tree after a delete and after a restore.
LEMMA DeleteIsTyped ==
    ASSUME TypeOK, NEW id \in Tasks, NEW force \in BOOLEAN, Delete(id, force)
    PROVE  TypeOK'
<1>1. Subtree(Live, id) \in SUBSET Tasks
  BY DEF Subtree
<1>2. DropEdges(Subtree(Live, id))
  BY DEF Delete
<1>3. left' \in [Bounded -> Nat]
  BY SpendIsTyped DEF Delete, Bounded
<1>4. deletedAt' \in [Tasks -> Nat] /\ touched' \subseteq Tasks
  BY <1>1 DEF Delete, TypeOK
<1>5. blocked' \subseteq blocked /\ late' \subseteq blocked'
  BY <1>1, <1>2, DropsEdges
<1>6. UNCHANGED <<rows, unused, parent, adding, restoring, purging, overtaken>>
  BY DEF Delete, flights
<1>7. clock' \in Nat \ {0}
  BY DEF Delete, TypeOK
<1> QED BY <1>3, <1>4, <1>5, <1>6, <1>7 DEF TypeOK

LEMMA RestoreIsTyped ==
    ASSUME TypeOK, NEW r \in restoring, Restore(r)
    PROVE  TypeOK'
  BY DEF Restore, TypeOK, Reading

LEMMA TypesKept == TypeOK /\ Marks /\ [Next]_vars => TypeOK'
<1> SUFFICES ASSUME TypeOK, Marks, [Next]_vars PROVE TypeOK'
  OBVIOUS
<1>1. ASSUME NEW t \in Tasks, Create(t) PROVE TypeOK'
  BY <1>1 DEF Create, Insert, TypeOK, flights, history
<1>2. ASSUME NEW t \in Tasks, NEW p \in Tasks, CreateSubtask(t, p) PROVE TypeOK'
  BY <1>2 DEF CreateSubtask, Insert, TypeOK, flights, history, Live
<1>3. ASSUME NEW t \in Tasks, NEW p \in Tasks \union {NoTask}, SetParent(t, p)
      PROVE  TypeOK'
  <2>1. left' \in [Bounded -> Nat]
    BY <1>3, SpendIsTyped DEF SetParent, Bounded
  <2> QED BY <1>3, <2>1 DEF SetParent, TypeOK, flights, history, Live
<1>4. ASSUME NEW t \in Tasks, NEW b \in Tasks, LookUpTask(t, b) PROVE TypeOK'
  <2>1. left' \in [Bounded -> Nat]
    BY <1>4, SpendIsTyped DEF LookUpTask, Bounded
  <2>2. [task |-> t, blocker |-> b, looked |-> FALSE] \in Declaration
    BY DEF Declaration
  <2>3. adding' \subseteq Declaration
    BY <1>4, <2>2 DEF LookUpTask, TypeOK
  <2> QED BY <1>4, <2>1, <2>3 DEF LookUpTask, TypeOK, tree, history
<1>5. ASSUME NEW a \in adding, LookUpBlocker(a) PROVE TypeOK'
  <2>0. a \in [task : Tasks, blocker : Tasks, looked : BOOLEAN]
    BY DEF TypeOK, Declaration
  <2>1. [a EXCEPT !.looked = TRUE] \in Declaration
    BY <2>0 DEF Declaration
  <2> QED BY <1>5, <2>1 DEF LookUpBlocker, TypeOK, tree, history
<1>6. ASSUME NEW a \in adding, AddEdge(a) PROVE TypeOK'
  BY <1>6 DEF AddEdge, TypeOK, tree, Declaration
<1>7. ASSUME NEW t \in Tasks, NEW b \in Tasks, RemoveEdge(t, b) PROVE TypeOK'
  BY <1>7 DEF RemoveEdge, TypeOK, tree, flights
<1>8. ASSUME NEW t \in Tasks, NEW force \in BOOLEAN, Delete(t, force)
      PROVE  TypeOK'
  BY <1>8, DeleteIsTyped
<1>9. ASSUME NEW t \in Tasks, ReadToRestore(t) PROVE TypeOK'
  <2>1. left' \in [Bounded -> Nat]
    BY <1>9, SpendIsTyped DEF ReadToRestore, Bounded
  <2>2. [id |-> t, stamp |-> deletedAt[t], parent |-> parent[t]] \in Reading
    BY <1>9 DEF ReadToRestore, TypeOK, Reading, History, Live
  <2> QED BY <1>9, <2>1, <2>2 DEF ReadToRestore, TypeOK, tree, history
<1>10. ASSUME NEW r \in restoring, Restore(r) PROVE TypeOK'
  BY <1>10, RestoreIsTyped
<1>11. CASE ListExpired
  BY <1>11 DEF ListExpired, Expired, History, TypeOK, tree
<1>12. ASSUME NEW t \in Tasks, Purge(t) PROVE TypeOK'
  <2>1. Cascade({t}) /\ {t} \in SUBSET Tasks
    BY <1>12 DEF Purge
  <2> QED BY <1>12, <2>1, CascadeDoes DEF Purge, TypeOK
<1>13. ASSUME NEW t \in Tasks, LeaveListed(t) PROVE TypeOK'
  BY <1>13 DEF LeaveListed, TypeOK, tree, history
<1>14. ASSUME NEW t \in Tasks, DeleteIssue(t) PROVE TypeOK'
  <2> DEFINE its == {u \in Tasks : IssueOf[u] = IssueOf[t]}
  <2>1. Cascade(its) /\ its \in SUBSET Tasks
    BY <1>14 DEF DeleteIssue
  <2> QED BY <1>14, <2>1, CascadeDoes DEF DeleteIssue, TypeOK, flights
<1>15. CASE Tick
  <2>1. left' \in [Bounded -> Nat]
    BY <1>15, SpendIsTyped DEF Tick, Bounded
  <2> QED BY <1>15, <2>1 DEF Tick, TypeOK, flights, history
<1>16. CASE UNCHANGED vars
  BY <1>16 DEF vars, tree, flights, history, TypeOK
<1> QED BY <1>1, <1>2, <1>3, <1>4, <1>5, <1>6, <1>7, <1>8, <1>9, <1>10, <1>11,
           <1>12, <1>13, <1>14, <1>15, <1>16
        DEF Next

-----------------------------------------------------------------------------
(* The tree.                                                               *)

\* What a step may do to marks, readings and links, whichever it is.
LEMMA MarksKept ==
    TypeOK /\ Marks /\ ReadHolds /\ [Next]_vars => Marks' /\ ReadHolds'
<1> SUFFICES ASSUME TypeOK, Marks, ReadHolds, [Next]_vars
             PROVE  Marks' /\ ReadHolds'
  OBVIOUS
<1> USE DEF Marks, ReadHolds
<1>0. \A r \in restoring : r.stamp # 0 /\ r.id \in Tasks
  BY DEF TypeOK, Reading
<1>1. ASSUME NEW t \in Tasks, NEW p, Insert(t, p) PROVE Marks' /\ ReadHolds'
  BY <1>0, <1>1 DEF Insert, TypeOK, flights
<1>2. ASSUME NEW t \in Tasks, NEW p, SetParent(t, p) PROVE Marks' /\ ReadHolds'
  BY <1>0, <1>2 DEF SetParent, TypeOK, flights, Live
<1>3. ASSUME NEW t \in Tasks, NEW b, LookUpTask(t, b) \/ RemoveEdge(t, b)
      PROVE  Marks' /\ ReadHolds'
  BY <1>3 DEF LookUpTask, RemoveEdge, tree, flights
<1>4. ASSUME NEW a \in adding, LookUpBlocker(a) \/ AddEdge(a)
      PROVE  Marks' /\ ReadHolds'
  BY <1>4 DEF LookUpBlocker, AddEdge, tree
<1>5. ASSUME NEW t \in Tasks, NEW force, Delete(t, force)
      PROVE  Marks' /\ ReadHolds'
  <2>1. \A u \in Tasks \ rows : u \notin Subtree(Live, t)
    BY <1>5, SubtreeHangsTogether DEF Subtree, Live, Delete
  <2> DEFINE going == Subtree(Live, t)
  <2>2. /\ rows' = rows /\ parent' = parent /\ restoring' = restoring
        /\ clock' = clock + 1
        /\ deletedAt' = [u \in Tasks |-> IF u \in going THEN clock
                                                        ELSE deletedAt[u]]
    BY <1>5 DEF Delete, flights
  <2>3. clock \in Nat /\ deletedAt \in [Tasks -> Nat]
        /\ \A r \in restoring : r.stamp \in Nat
    BY DEF TypeOK, Reading
  <2> HIDE DEF going
  <2>4. Marks'
    BY <2>1, <2>2, <2>3 DEF going
  <2>5. \A u \in Tasks : deletedAt'[u] = clock \/ deletedAt'[u] = deletedAt[u]
    BY <2>2
  <2>6. \A r \in restoring : r.stamp # clock
    BY <2>3
  <2>7. ReadHolds'
    BY <1>0, <2>2, <2>5, <2>6
  <2> QED BY <2>4, <2>7
<1>6. ASSUME NEW t \in Tasks, ReadToRestore(t) PROVE Marks' /\ ReadHolds'
  BY <1>6 DEF ReadToRestore, tree, TypeOK
<1>7. ASSUME NEW r \in restoring, Restore(r) PROVE Marks' /\ ReadHolds'
  <2>1. /\ rows' = rows /\ clock' = clock /\ restoring' \subseteq restoring
        /\ \A u \in Tasks : deletedAt'[u] \in {0, deletedAt[u]}
        /\ \A u \in Tasks : parent'[u] \in {parent[u], NoTask}
    BY <1>7 DEF Restore, TypeOK
  <2>2. clock \in Nat \ {0}
    BY DEF TypeOK
  <2> QED BY <1>0, <2>1, <2>2
<1>8. ASSUME NEW S \in SUBSET Tasks, Cascade(S), UNCHANGED <<clock, restoring>>
      PROVE  Marks' /\ ReadHolds'
  <2>1. clock \in Nat \ {0}
    BY DEF TypeOK
  <2> QED BY <1>0, <1>8, <2>1, CascadeDoes
<1>9. ASSUME NEW t \in Tasks, Purge(t) PROVE Marks' /\ ReadHolds'
  BY <1>8, <1>9 DEF Purge
<1>10. ASSUME NEW t \in Tasks, DeleteIssue(t) PROVE Marks' /\ ReadHolds'
  BY <1>8, <1>10 DEF DeleteIssue, flights
<1>11. CASE Tick
  BY <1>11 DEF Tick, TypeOK, Reading, flights
<1>12. CASE ListExpired \/ (\E t \in Tasks : LeaveListed(t)) \/ UNCHANGED vars
  BY <1>12 DEF ListExpired, LeaveListed, vars, tree, flights
<1> QED BY <1>1, <1>2, <1>3, <1>4, <1>5, <1>6, <1>7, <1>9, <1>10, <1>11, <1>12
        DEF Next, Create, CreateSubtask

\* What a restore brings back hangs under what it brings back; the Task that was
\* named is detached unless its parent is live.
LEMMA RestoreKeepsLiveUnderLive ==
    ASSUME TypeOK, Marks, ReadHolds, LiveUnderLive,
           NEW r \in restoring, Restore(r)
    PROVE  LiveUnderLive'
<1> DEFINE T == {t \in rows : deletedAt[t] = r.stamp}
           together == Subtree(T, r.id)
           back == [t \in Tasks |-> IF t \in together THEN 0 ELSE deletedAt[t]]
<1>0. r \in Reading /\ r.id \in Tasks /\ r.stamp # 0
  BY DEF TypeOK, Reading
<1>1. /\ rows' = rows /\ deletedAt' = back
      /\ parent' = IF r.parent # NoTask /\ (r.parent \notin rows \/ back[r.parent] # 0)
                   THEN [parent EXCEPT ![r.id] = NoTask] ELSE parent
      /\ overtaken' = (overtaken \/ (r.id \in rows /\ deletedAt[r.id] # r.stamp))
  BY DEF Restore
<1>2. \A t \in together : t # r.id => t \in T /\ parent[t] \in together
  BY SubtreeHangsTogether
<1>3. parent \in [Tasks -> rows \union {NoTask}] /\ rows \subseteq Tasks
      /\ together \subseteq Tasks
  BY DEF TypeOK, Subtree
<1> HIDE DEF together
<1>4. \A t \in Live : t \in Live'
  BY <1>1, <1>3 DEF Live
<1>5. \A t \in together \intersect rows : t \in Live'
  BY <1>1, <1>3 DEF Live
<1>6. \A t \in Tasks : parent'[t] \in {parent[t], NoTask}
  BY <1>1, <1>3
<1> SUFFICES ASSUME ~overtaken', NEW t \in Live'
             PROVE  parent'[t] \in Live' \union {NoTask}
  BY DEF LiveUnderLive
<1>7. ~overtaken /\ (r.id \in rows => deletedAt[r.id] = r.stamp)
  BY <1>1
<1>8. t \in rows /\ t \in Tasks /\ (t \in Live \/ t \in together)
  BY <1>1, <1>3 DEF Live
<1>9. CASE t = r.id
  <2>1. parent[t] \in {r.parent, NoTask}
    BY <1>0, <1>7, <1>8, <1>9 DEF ReadHolds
  <2>2. parent'[t] = NoTask \/ (parent'[t] = parent[t]
            /\ (r.parent = NoTask \/ (r.parent \in rows /\ back[r.parent] = 0)))
    BY <1>1, <1>3, <1>9, <1>8
  <2>3. r.parent \in rows /\ back[r.parent] = 0 => r.parent \in Live'
    BY <1>1 DEF Live
  <2> QED BY <2>1, <2>2, <2>3
<1>10. CASE t # r.id /\ t \in together
  <2>1. parent[t] \in together
    BY <1>2, <1>10
  <2>2. parent[t] \in rows
    BY <2>1, <1>3, <1>8
  <2>3. parent[t] \in Live'
    BY <2>1, <2>2, <1>5
  <2> QED BY <2>3, <1>6, <1>8
<1>11. CASE t # r.id /\ t \notin together
  <2>1. parent[t] \in Live \union {NoTask}
    BY <1>7, <1>8, <1>11 DEF LiveUnderLive
  <2> QED BY <2>1, <1>4, <1>6, <1>8
<1> QED BY <1>9, <1>10, <1>11

LEMMA LiveUnderLiveKept ==
    TypeOK /\ Marks /\ ReadHolds /\ LiveUnderLive /\ [Next]_vars => LiveUnderLive'
<1> SUFFICES ASSUME TypeOK, Marks, ReadHolds, LiveUnderLive, [Next]_vars
             PROVE  LiveUnderLive'
  OBVIOUS
<1>1. ASSUME NEW t \in Tasks, NEW p \in Live \union {NoTask}, Insert(t, p)
      PROVE  LiveUnderLive'
  <2>1. /\ rows' = rows \union {t} /\ deletedAt' = deletedAt
        /\ parent' = [parent EXCEPT ![t] = p]
        /\ overtaken' = overtaken
    BY <1>1 DEF Insert, history
  <2>2. Live \subseteq Live' /\ Live' \subseteq Live \union {t}
    BY <2>1 DEF Live
  <2>3. parent \in [Tasks -> rows \union {NoTask}] /\ rows \subseteq Tasks
    BY DEF TypeOK
  <2>4. \A u \in Live' : parent'[u] = p \/ (u \in Live /\ parent'[u] = parent[u])
    BY <2>1, <2>2, <2>3 DEF Live
  <2> QED BY <2>1, <2>2, <2>4 DEF LiveUnderLive
<1>2. ASSUME NEW t \in Tasks, NEW p, SetParent(t, p) PROVE LiveUnderLive'
  <2>1. /\ rows' = rows /\ deletedAt' = deletedAt /\ overtaken' = overtaken
        /\ parent' = [parent EXCEPT ![t] = p]
        /\ p \in Live \union {NoTask}
    BY <1>2 DEF SetParent, history
  <2>2. Live' = Live
    BY <2>1 DEF Live
  <2>3. \A u \in Tasks : parent'[u] \in {parent[u], p}
    BY <2>1 DEF TypeOK
  <2> QED BY <2>1, <2>2, <2>3 DEF LiveUnderLive, Live, TypeOK
<1>3. ASSUME NEW t \in Tasks, NEW force, Delete(t, force) PROVE LiveUnderLive'
  <2> DEFINE going == Subtree(Live, t)
  <2>1. /\ rows' = rows /\ parent' = parent /\ overtaken' = overtaken
        /\ deletedAt' = [u \in Tasks |-> IF u \in going THEN clock
                                                        ELSE deletedAt[u]]
    BY <1>3 DEF Delete
  <2>2. \A u \in Live : parent[u] \in going => u \in going
    BY SubtreeGoesDown DEF Live, TypeOK
  <2> HIDE DEF going
  <2>3. \A u : u \in Live' <=> u \in Live /\ u \notin going
    BY <2>1 DEF Live, TypeOK
  <2> QED BY <2>1, <2>2, <2>3 DEF LiveUnderLive
<1>4. ASSUME NEW r \in restoring, Restore(r) PROVE LiveUnderLive'
  BY <1>4, RestoreKeepsLiveUnderLive
<1>5. ASSUME NEW S \in SUBSET Tasks, Cascade(S), overtaken' = overtaken
      PROVE  LiveUnderLive'
  <2>1. /\ Live' = Live \ S
        /\ parent' \in [Tasks -> rows' \union {NoTask}] /\ rows' = rows \ S
        /\ \A t \in Tasks : parent'[t] \in {parent[t], NoTask}
    BY <1>5, CascadeDoes
  <2>2. Live \subseteq Tasks
    BY DEF Live, TypeOK
  <2>3. \A t \in Live' : parent'[t] \notin S \/ parent'[t] = NoTask
    BY <2>1, <2>2
  <2> QED BY <1>5, <2>1, <2>2, <2>3 DEF LiveUnderLive
<1>6. ASSUME NEW t \in Tasks, Purge(t) PROVE LiveUnderLive'
  BY <1>5, <1>6 DEF Purge
<1>7. ASSUME NEW t \in Tasks, DeleteIssue(t) PROVE LiveUnderLive'
  BY <1>5, <1>7 DEF DeleteIssue
<1>8. CASE UNCHANGED <<rows, parent, deletedAt, overtaken>>
  BY <1>8 DEF LiveUnderLive, Live
<1>9. ASSUME NEW t \in Tasks, NEW b, LookUpTask(t, b) \/ RemoveEdge(t, b)
      PROVE  LiveUnderLive'
  BY <1>8, <1>9 DEF LookUpTask, RemoveEdge, tree, history
<1>10. ASSUME NEW a \in adding, LookUpBlocker(a) \/ AddEdge(a)
       PROVE  LiveUnderLive'
  BY <1>8, <1>10 DEF LookUpBlocker, AddEdge, tree, history
<1>11. ASSUME NEW t \in Tasks, ReadToRestore(t) \/ LeaveListed(t)
       PROVE  LiveUnderLive'
  BY <1>8, <1>11 DEF ReadToRestore, LeaveListed, tree, history
<1>12. CASE Tick \/ ListExpired \/ UNCHANGED vars
  BY <1>8, <1>12 DEF Tick, ListExpired, vars, tree, history
<1> QED BY <1>1, <1>2, <1>3, <1>4, <1>6, <1>7, <1>9, <1>10, <1>11, <1>12
        DEF Next, Create, CreateSubtask

\* Parent links that only go leave the tree grounded.
LEMMA FewerLinksStayGrounded ==
    ASSUME Grounded(UpFrom(rows)), UpFrom(rows)' \subseteq UpFrom(rows)
    PROVE  Grounded(UpFrom(rows))'
<1>1. Grounded(UpFrom(rows)')
  BY FewerEdgesStayGrounded
<1> QED BY <1>1 DEF Grounded

LEMMA LinkKeepsGrounded ==
    ASSUME Grounded(UpFrom(rows)), NEW t \in Tasks, NEW p \in Tasks,
           ~Reaches(UpFrom(rows), p, t),
           UpFrom(rows)' \subseteq UpFrom(rows) \union {<<t, p>>}
    PROVE  Grounded(UpFrom(rows))'
<1> DEFINE more == UpFrom(rows) \union {<<t, p>>}
<1>1. Grounded(more)
  BY EdgeKeepsGrounded
<1>2. Grounded(UpFrom(rows)')
  BY <1>1, FewerEdgesStayGrounded
<1> QED BY <1>2 DEF Grounded

\* A walk up among all Tasks stays among the live ones, so checkParentEdge,
\* which looks at those only, sees every chain a link would close.
LEMMA WalksStayAmongTheLive ==
    ASSUME TypeOK, ~overtaken, LiveUnderLive, NEW p \in Live, NEW t \in Live,
           ~Reaches(UpFrom(Live), p, t)
    PROVE  ~Reaches(UpFrom(rows), p, t)
<1>1. PICK C \in SUBSET Tasks : p \in C /\ Closed(C, UpFrom(Live)) /\ t \notin C
  BY DEF Reaches
<1>2. Closed(C \intersect Live, UpFrom(rows))
  <2> SUFFICES ASSUME NEW e \in UpFrom(rows), e[1] \in C \intersect Live
               PROVE  e[2] \in C \intersect Live
    BY DEF Closed
  <2>1. e = <<e[1], e[2]>> /\ e[2] \in Tasks /\ parent[e[1]] = e[2]
    BY DEF UpFrom
  <2>2. e[2] \in Live
    BY <2>1 DEF LiveUnderLive
  <2>3. e \in UpFrom(Live)
    BY <2>1 DEF UpFrom
  <2> QED BY <1>1, <2>2, <2>3 DEF Closed
<1> QED BY <1>1, <1>2 DEF Reaches

LEMMA TreeStaysGrounded ==
    /\ TypeOK /\ Marks /\ LiveUnderLive /\ [Next]_vars
    /\ ~overtaken => Grounded(UpFrom(rows))
    => (~overtaken' => Grounded(UpFrom(rows))')
<1> SUFFICES ASSUME TypeOK, Marks, LiveUnderLive, [Next]_vars, ~overtaken',
                    ~overtaken => Grounded(UpFrom(rows))
             PROVE  Grounded(UpFrom(rows))'
  OBVIOUS
<1>0. CASE ~overtaken
  <2>0. parent \in [Tasks -> rows \union {NoTask}] /\ rows \subseteq Tasks
        /\ unused \subseteq Tasks \ rows
    BY DEF TypeOK
  <2>g. Grounded(UpFrom(rows))
    BY <1>0
  <2>1. ASSUME NEW t \in Tasks, NEW p \in rows \union {NoTask}, Insert(t, p)
        PROVE  Grounded(UpFrom(rows))'
    <3>1. /\ rows' = rows \union {t} /\ parent' = [parent EXCEPT ![t] = p]
          /\ t \notin rows
      BY <2>0, <2>1 DEF Insert
    <3>2. CASE p = NoTask
      <4>1. UpFrom(rows)' \subseteq UpFrom(rows)
        BY <2>0, <3>1, <3>2 DEF UpFrom
      <4> QED BY <4>1, <2>g, FewerLinksStayGrounded
    <3>3. CASE p \in rows
      <4>1. UpFrom(rows)' \subseteq UpFrom(rows) \union {<<t, p>>}
        BY <2>0, <3>1, <3>3 DEF UpFrom
      <4>2. Closed(rows, UpFrom(rows))
        BY <2>0 DEF Closed, UpFrom
      <4>3. ~Reaches(UpFrom(rows), p, t)
        BY <2>0, <3>1, <3>3, <4>2 DEF Reaches
      <4> QED BY <2>0, <2>g, <3>3, <4>1, <4>3, LinkKeepsGrounded
    <3> QED BY <3>2, <3>3
  <2>2. ASSUME NEW t \in Tasks, NEW p \in Tasks \union {NoTask}, SetParent(t, p)
        PROVE  Grounded(UpFrom(rows))'
    <3>1. rows' = rows /\ parent' = [parent EXCEPT ![t] = p]
      BY <2>2 DEF SetParent
    <3>2. CASE p = NoTask
      <4>1. UpFrom(rows)' \subseteq UpFrom(rows)
        BY <2>0, <3>1, <3>2 DEF UpFrom
      <4> QED BY <4>1, <2>g, FewerLinksStayGrounded
    <3>3. CASE p # NoTask
      <4>1. UpFrom(rows)' \subseteq UpFrom(rows) \union {<<t, p>>}
        BY <2>0, <3>1 DEF UpFrom
      <4>2. t \in Live /\ p \in Live /\ ~Reaches(UpFrom(Live), p, t)
        BY <2>2, <3>3 DEF SetParent, ClosesAChain
      <4>3. ~Reaches(UpFrom(rows), p, t)
        BY <1>0, <4>2, WalksStayAmongTheLive
      <4> QED BY <2>g, <2>2, <3>3, <4>1, <4>3, LinkKeepsGrounded
    <3> QED BY <3>2, <3>3
  <2>3. ASSUME rows' \subseteq rows,
               \A t \in Tasks : parent'[t] \in {parent[t], NoTask}
        PROVE  Grounded(UpFrom(rows))'
    <3>1. UpFrom(rows)' \subseteq UpFrom(rows)
      BY <2>0, <2>3 DEF UpFrom
    <3> QED BY <3>1, <2>g, FewerLinksStayGrounded
  <2>4. ASSUME NEW r \in restoring, Restore(r) PROVE Grounded(UpFrom(rows))'
    <3>1. rows' = rows /\ \A t \in Tasks : parent'[t] \in {parent[t], NoTask}
      BY <2>0, <2>4 DEF Restore
    <3> QED BY <3>1, <2>3
  <2>5. ASSUME NEW t \in Tasks, Purge(t) PROVE Grounded(UpFrom(rows))'
    <3>1. Cascade({t}) /\ {t} \in SUBSET Tasks
      BY <2>5 DEF Purge
    <3> QED BY <3>1, <2>3, CascadeDoes
  <2>6. ASSUME NEW t \in Tasks, DeleteIssue(t) PROVE Grounded(UpFrom(rows))'
    <3> DEFINE its == {u \in Tasks : IssueOf[u] = IssueOf[t]}
    <3>1. Cascade(its) /\ its \in SUBSET Tasks
      BY <2>6 DEF DeleteIssue
    <3> QED BY <3>1, <2>3, CascadeDoes
  <2>7. CASE UNCHANGED <<rows, parent>>
    BY <2>7, <2>3
  <2>8. ASSUME NEW t \in Tasks, NEW b, LookUpTask(t, b) \/ RemoveEdge(t, b)
        PROVE  Grounded(UpFrom(rows))'
    BY <2>7, <2>8 DEF LookUpTask, RemoveEdge, tree
  <2>9. ASSUME NEW a \in adding, LookUpBlocker(a) \/ AddEdge(a)
        PROVE  Grounded(UpFrom(rows))'
    BY <2>7, <2>9 DEF LookUpBlocker, AddEdge, tree
  <2>10. ASSUME NEW t \in Tasks, ReadToRestore(t) \/ LeaveListed(t)
         PROVE  Grounded(UpFrom(rows))'
    BY <2>7, <2>10 DEF ReadToRestore, LeaveListed, tree
  <2>11. ASSUME NEW t \in Tasks, NEW force, Delete(t, force)
         PROVE  Grounded(UpFrom(rows))'
    BY <2>7, <2>11 DEF Delete
  <2>12. CASE Tick \/ ListExpired \/ UNCHANGED vars
    BY <2>7, <2>12 DEF Tick, ListExpired, vars, tree
  <2> QED BY <2>1, <2>2, <2>4, <2>5, <2>6, <2>8, <2>9, <2>10, <2>11, <2>12
          DEF Next, Create, CreateSubtask, Live
<1>1. CASE overtaken
  <2>1. overtaken' = TRUE \/ overtaken' = overtaken
    BY <1>1 DEF Next, Create, CreateSubtask, Insert, SetParent, LookUpTask,
       LookUpBlocker, AddEdge, RemoveEdge, Delete, ReadToRestore, Restore,
       ListExpired, Purge, LeaveListed, DeleteIssue, Tick, vars, history
  <2> QED BY <1>1, <2>1
<1> QED BY <1>0, <1>1

-----------------------------------------------------------------------------
(* The edges, and the list of the sweep.                                   *)

\* Edges that only go leave what is on them as it is, where no end leaves the
\* live Tasks without its edges.
LEMMA EdgesKept ==
    TypeOK /\ Marks /\ EdgesAreLive /\ Grounded(blocked) /\ [Next]_vars
        => EdgesAreLive' /\ Grounded(blocked)'
<1> SUFFICES ASSUME TypeOK, Marks, EdgesAreLive, Grounded(blocked), [Next]_vars
             PROVE  EdgesAreLive' /\ Grounded(blocked)'
  OBVIOUS
<1>1. ASSUME blocked' \subseteq blocked PROVE Grounded(blocked)'
  <2>1. Grounded(blocked')
    BY <1>1, FewerEdgesStayGrounded
  <2> QED BY <2>1 DEF Grounded
<1>2. ASSUME blocked' = blocked, late' = late, Live \subseteq Live'
      PROVE  EdgesAreLive' /\ Grounded(blocked)'
  BY <1>1, <1>2 DEF EdgesAreLive
<1>3. ASSUME NEW t \in Tasks, NEW p, Insert(t, p)
      PROVE  EdgesAreLive' /\ Grounded(blocked)'
  BY <1>2, <1>3 DEF Insert, history, Live
<1>4. ASSUME NEW t \in Tasks, NEW p, SetParent(t, p)
      PROVE  EdgesAreLive' /\ Grounded(blocked)'
  BY <1>2, <1>4 DEF SetParent, history, Live
<1>5. ASSUME NEW t \in Tasks, NEW b, LookUpTask(t, b)
      PROVE  EdgesAreLive' /\ Grounded(blocked)'
  BY <1>2, <1>5 DEF LookUpTask, tree, history, Live
<1>6. ASSUME NEW a \in adding, LookUpBlocker(a)
      PROVE  EdgesAreLive' /\ Grounded(blocked)'
  BY <1>2, <1>6 DEF LookUpBlocker, tree, history, Live
<1>7. ASSUME NEW a \in adding, AddEdge(a)
      PROVE  EdgesAreLive' /\ Grounded(blocked)'
  <2>0. a.task \in Tasks /\ a.blocker \in Tasks /\ Live' = Live
    BY <1>7 DEF AddEdge, TypeOK, Declaration, tree, Live
  <2>1. CASE blocked' = blocked /\ late' = late
    BY <1>2, <2>0, <2>1
  <2>2. CASE ~(blocked' = blocked /\ late' = late)
    <3>1. /\ ~Reaches(blocked, a.blocker, a.task)
          /\ blocked' = blocked \union {<<a.task, a.blocker>>}
          /\ late' = IF {a.task, a.blocker} \subseteq Live
                     THEN late ELSE late \union {<<a.task, a.blocker>>}
      BY <1>7, <2>2 DEF AddEdge, ClosesACycle
    <3>2. Grounded(blocked')
      BY <2>0, <3>1, EdgeKeepsGrounded
    <3>3. Grounded(blocked)'
      BY <3>2 DEF Grounded
    <3>4. ASSUME NEW e \in blocked' \ late' PROVE e[1] \in Live /\ e[2] \in Live
      <4>1. CASE e \in blocked \ late
        BY <4>1 DEF EdgesAreLive
      <4>2. CASE e = <<a.task, a.blocker>>
        BY <3>1, <3>4, <4>2
      <4> QED BY <3>1, <3>4, <4>1, <4>2
    <3> QED BY <2>0, <3>3, <3>4 DEF EdgesAreLive
  <2> QED BY <2>1, <2>2
<1>8. ASSUME NEW t \in Tasks, NEW b, RemoveEdge(t, b)
      PROVE  EdgesAreLive' /\ Grounded(blocked)'
  <2>1. blocked' \subseteq blocked /\ blocked' \ late' \subseteq blocked \ late
        /\ Live' = Live
    BY <1>8 DEF RemoveEdge, tree, Live
  <2> QED BY <1>1, <2>1 DEF EdgesAreLive
<1>9. ASSUME NEW t \in Tasks, NEW force, Delete(t, force)
      PROVE  EdgesAreLive' /\ Grounded(blocked)'
  <2> DEFINE going == Subtree(Live, t)
  <2>1. going \in SUBSET Tasks
    BY DEF Subtree
  <2>2. DropEdges(going)
    BY <1>9 DEF Delete
  <2>3. /\ blocked' \subseteq blocked
        /\ \A e \in blocked' : e[1] \notin going /\ e[2] \notin going
        /\ blocked' \ late' \subseteq blocked \ late
    BY <2>1, <2>2, DropsEdges
  <2>4. \A u \in Live : u \notin going => u \in Live'
    BY <1>9 DEF Delete, Live, TypeOK
  <2> HIDE DEF going
  <2> QED BY <1>1, <2>3, <2>4 DEF EdgesAreLive
<1>10. ASSUME NEW r \in restoring, Restore(r)
       PROVE  EdgesAreLive' /\ Grounded(blocked)'
  <2>1. /\ rows' = rows /\ blocked' = blocked /\ late' = late
        /\ \A u \in Tasks : deletedAt'[u] \in {0, deletedAt[u]}
    BY <1>10 DEF Restore, TypeOK
  <2>2. Live \subseteq Live'
    BY <2>1 DEF Live, TypeOK
  <2> QED BY <1>2, <2>1, <2>2
<1>11. ASSUME NEW S \in SUBSET Tasks, Cascade(S)
       PROVE  EdgesAreLive' /\ Grounded(blocked)'
  <2>1. /\ blocked' \subseteq blocked
        /\ \A e \in blocked' : e[1] \notin S /\ e[2] \notin S
        /\ blocked' \ late' \subseteq blocked \ late
        /\ Live' = Live \ S
    BY <1>11, CascadeDoes
  <2> QED BY <1>1, <2>1 DEF EdgesAreLive
<1>12. ASSUME NEW t \in Tasks, Purge(t) \/ DeleteIssue(t)
       PROVE  EdgesAreLive' /\ Grounded(blocked)'
  BY <1>11, <1>12 DEF Purge, DeleteIssue
<1>13. ASSUME NEW t \in Tasks, ReadToRestore(t) \/ LeaveListed(t)
       PROVE  EdgesAreLive' /\ Grounded(blocked)'
  BY <1>2, <1>13 DEF ReadToRestore, LeaveListed, tree, history, Live
<1>14. CASE Tick \/ ListExpired \/ UNCHANGED vars
  BY <1>2, <1>14 DEF Tick, ListExpired, vars, tree, history, Live
<1> QED BY <1>3, <1>4, <1>5, <1>6, <1>7, <1>8, <1>9, <1>10, <1>12, <1>13, <1>14
        DEF Next, Create, CreateSubtask

LEMMA ListStaysFinal ==
    TypeOK /\ Marks /\ ListIsFinal /\ [Next]_vars => ListIsFinal'
<1> SUFFICES ASSUME TypeOK, Marks, ListIsFinal, [Next]_vars PROVE ListIsFinal'
  OBVIOUS
<1> USE DEF ListIsFinal
<1>0. /\ clock \in Nat /\ deletedAt \in [Tasks -> Nat] /\ unused \subseteq Tasks \ rows
      /\ rows \subseteq Tasks /\ purging \subseteq Tasks
      /\ \A r \in restoring : r.id \in Tasks /\ r.stamp \in Nat \ {0}
  BY DEF TypeOK, Reading
<1>1. ASSUME NEW t \in Tasks, NEW p, Insert(t, p) PROVE ListIsFinal'
  BY <1>0, <1>1 DEF Insert, flights, history
<1>2. ASSUME UNCHANGED <<rows, unused, deletedAt, clock, purging, restoring, touched>>
      PROVE  ListIsFinal'
  BY <1>2
<1>3. ASSUME NEW t \in Tasks, NEW p, SetParent(t, p) PROVE ListIsFinal'
  BY <1>2, <1>3 DEF SetParent, flights, history
<1>4. ASSUME NEW t \in Tasks, NEW b, LookUpTask(t, b) \/ RemoveEdge(t, b)
      PROVE  ListIsFinal'
  BY <1>2, <1>4 DEF LookUpTask, RemoveEdge, tree, flights, history
<1>5. ASSUME NEW a \in adding, LookUpBlocker(a) \/ AddEdge(a)
      PROVE  ListIsFinal'
  BY <1>2, <1>5 DEF LookUpBlocker, AddEdge, tree, history
<1>6. ASSUME NEW t \in Tasks, NEW force, Delete(t, force) PROVE ListIsFinal'
  <2> DEFINE going == Subtree(Live, t)
  <2>1. /\ rows' = rows /\ unused' = unused /\ purging' = purging
        /\ restoring' = restoring /\ clock' = clock + 1
        /\ touched' = touched \union (purging \intersect going)
        /\ \A u \in Tasks : u \notin going => deletedAt'[u] = deletedAt[u]
    BY <1>6 DEF Delete, flights
  <2> HIDE DEF going
  <2> QED BY <1>0, <2>1
<1>7. ASSUME NEW t \in Tasks, ReadToRestore(t) PROVE ListIsFinal'
  <2>1. /\ UNCHANGED <<rows, unused, deletedAt, clock, purging, touched>>
        /\ deletedAt[t] + Window > clock
        /\ \A r \in restoring' : r \in restoring
                                 \/ (r.id = t /\ r.stamp = deletedAt[t])
    BY <1>7 DEF ReadToRestore, tree, history
  <2> QED BY <1>0, <2>1
<1>8. ASSUME NEW r \in restoring, Restore(r) PROVE ListIsFinal'
  <2>1. /\ rows' = rows /\ unused' = unused /\ purging' = purging
        /\ touched' = touched /\ clock' = clock /\ restoring' \subseteq restoring
    BY <1>8 DEF Restore
  <2>2. ASSUME NEW u \in Tasks, u # r.id, deletedAt[u] # r.stamp
        PROVE  deletedAt'[u] = deletedAt[u]
    <3> DEFINE together == Subtree({t \in rows : deletedAt[t] = r.stamp}, r.id)
    <3>1. u \notin together
      BY <2>2, SubtreeHangsTogether
    <3>2. deletedAt' = [t \in Tasks |-> IF t \in together THEN 0 ELSE deletedAt[t]]
      BY <1>8 DEF Restore
    <3> HIDE DEF together
    <3> QED BY <3>1, <3>2
  <2> QED BY <1>0, <2>1, <2>2
<1>9. CASE ListExpired
  <2>1. /\ UNCHANGED <<rows, unused, deletedAt, clock, restoring>>
        /\ purging' = Expired
        /\ touched' = {t \in Expired :
                          \E r \in restoring : r.id = t \/ r.stamp = deletedAt[t]}
    BY <1>9 DEF ListExpired, tree
  <2> QED BY <1>0, <2>1 DEF Expired, History, Live
<1>10. ASSUME NEW S \in SUBSET Tasks, Cascade(S), purging' \subseteq purging,
              unused' \subseteq unused, UNCHANGED <<clock, restoring, touched>>
       PROVE  ListIsFinal'
  BY <1>0, <1>10, CascadeDoes
<1>11. ASSUME NEW t \in Tasks, Purge(t) PROVE ListIsFinal'
  BY <1>10, <1>11 DEF Purge
<1>12. ASSUME NEW t \in Tasks, DeleteIssue(t) PROVE ListIsFinal'
  BY <1>10, <1>12 DEF DeleteIssue, flights
<1>13. ASSUME NEW t \in Tasks, LeaveListed(t) PROVE ListIsFinal'
  BY <1>13 DEF LeaveListed, tree, history
<1>14. CASE Tick
  BY <1>0, <1>14 DEF Tick, flights, history
<1>15. CASE UNCHANGED vars
  BY <1>2, <1>15 DEF vars, tree, flights, history
<1> QED BY <1>1, <1>3, <1>4, <1>5, <1>6, <1>7, <1>8, <1>9, <1>11, <1>12, <1>13,
           <1>14, <1>15
        DEF Next, Create, CreateSubtask

-----------------------------------------------------------------------------
(* The theorems.                                                           *)

TreeInv == /\ TypeOK /\ Marks /\ ReadHolds /\ LiveUnderLive
           /\ ~overtaken => Grounded(UpFrom(rows))
           /\ EdgesAreLive /\ Grounded(blocked)
           /\ ListIsFinal

LEMMA TreeHolds == Spec => []TreeInv
<1>1. Init => TreeInv
  BY Initially DEF TreeInv
<1>2. TreeInv /\ [Next]_vars => TreeInv'
  BY TypesKept, MarksKept, LiveUnderLiveKept, TreeStaysGrounded, EdgesKept,
     ListStaysFinal
     DEF TreeInv
<1> QED BY <1>1, <1>2, PTL DEF Spec

\* The types hold, so no edge and no parent link names a Task that is gone.
THEOREM TypesHold == Spec => []TypeOK
<1>1. TreeInv => TypeOK
  BY DEF TreeInv
<1> QED BY <1>1, TreeHolds, PTL

\* Every chain of parents ends, and a live Task's parent is live, whatever is
\* put under what, deleted, restored and purged, unless a restore was overtaken.
THEOREM EveryChainEnds == Spec => []ChainsEnd
<1>1. TreeInv => ChainsEnd
  BY DEF TreeInv, LiveUnderLive, ChainsEnd
<1> QED BY <1>1, TreeHolds, PTL

\* Among any live Tasks there is one that none of them holds back, nor a Task in
\* History, however declarations, deletes and restores interleave.
THEOREM NoneHoldEachOtherBack == Spec => []SomethingCanStart
<1>1. TreeInv => SomethingCanStart
  <2> SUFFICES ASSUME TreeInv, NEW S \in (SUBSET Live) \ {{}}
               PROVE  \E t \in S : \A b \in rows :
                         <<t, b>> \in blocked =>
                             b \notin S /\ (<<t, b>> \notin late => b \in Live)
    BY DEF SomethingCanStart
  <2>1. S \in (SUBSET Tasks) \ {{}}
    BY DEF TreeInv, TypeOK, Live
  <2>2. PICK t \in S : \A e \in blocked : e[1] = t => e[2] \notin S
    BY <2>1 DEF TreeInv, Grounded
  <2>3. \A b \in rows : <<t, b>> \in blocked => b \notin S
    BY <2>2
  <2>4. \A b \in rows : <<t, b>> \in blocked \ late => b \in Live
    BY DEF TreeInv, EdgesAreLive
  <2> QED BY <2>3, <2>4
<1> QED BY <1>1, TreeHolds, PTL

\* The sweep purges no live Task, though it reads no mark after its list, unless
\* a restore had read the Task before or it was deleted once more.
THEOREM TheSweepTakesHistory == Spec => OnlyHistoryIsPurged
<1>1. TreeInv /\ [Next]_vars
        => [\A t \in (purging \ purging') \ touched :
               t \in rows \ rows' => t \in History]_vars
  BY DEF TreeInv, ListIsFinal, History, Live, TypeOK
<1> QED BY <1>1, TreeHolds, PTL DEF Spec, OnlyHistoryIsPurged
=============================================================================
