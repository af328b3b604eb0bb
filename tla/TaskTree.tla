------------------------------ MODULE TaskTree ------------------------------
(***************************************************************************)
(* How Tasks hang together: sub-tasks under their parents, blocked_by      *)
(* edges between Tasks, and a Task's way into History and back or out      *)
(* (dal/task.ts, dal/issue.ts, packages/core/src/task.ts, task-cascade.ts, *)
(* retention.ts).                                                          *)
(*                                                                         *)
(* A transaction is one action. What reads the rows before its transaction *)
(* is more: the declaration of an edge, the restore of a Task, and the     *)
(* sweep, which lists what has expired and then purges Task by Task.       *)
(*                                                                         *)
(* The walks over the rows are modelled by what they compute: who reaches  *)
(* whom. Time is a counter that every delete advances, so that no two      *)
(* deletes carry one stamp. Runs are not modelled: a Task is deleted when  *)
(* none is active.                                                         *)
(***************************************************************************)
EXTENDS Naturals, FiniteSets

CONSTANTS
    Tasks,    \* the ids a Task may be given
    NoTask,   \* the parent of a Task at the top
    IssueOf,  \* the Issue each id is minted on, which never changes
    Window,   \* how long a Task stays in History (TASK_RETENTION_MS)
    Mixes     \* mixes of what is Bounded, one of which may happen

Bounded ==
    {"links",     \* sub-tasks put under another parent
     "edges",     \* declarations of an edge
     "deletes",   \* deletes of a Task
     "restores",  \* requests to restore one
     "ticks"}     \* how much time passes besides

ASSUME TasksAssumption == IsFiniteSet(Tasks) /\ NoTask \notin Tasks
ASSUME WindowAssumption == Window \in Nat
ASSUME MixesAssumption == Mixes \subseteq [Bounded -> Nat]

VARIABLES
    rows,       \* the Tasks that have a row
    unused,     \* the ids that may still be minted
    parent,     \* parent_task_id
    deletedAt,  \* deleted_at, 0 for a Task that is live
    blocked,    \* the rows of task_dependency: Task and blocker
    clock,
    adding,     \* declarations of an edge on their way to the transaction
    restoring,  \* restores on their way to theirs, with the row they read
    purging,    \* what the sweep listed and has not come to yet
    late,       \* history: edges declared with an end in History
    overtaken,  \* history: a restore wrote a row that had left History, and
                \* gone there again, since it was read
    touched,    \* history: listed Tasks a restore had read already, or that
                \* were deleted again
    left        \* how much of each of Bounded may still happen

tree == <<rows, unused, parent, deletedAt, clock>>
flights == <<adding, restoring, purging>>
history == <<late, overtaken, touched>>
vars == <<tree, blocked, flights, history, left>>

Live == {t \in rows : deletedAt[t] = 0}
History == rows \ Live

Declaration == [task : Tasks, blocker : Tasks, looked : BOOLEAN]
Reading == [id : Tasks, stamp : Nat \ {0}, parent : Tasks \union {NoTask}]

TypeOK ==
    /\ rows \subseteq Tasks
    /\ unused \subseteq Tasks \ rows
    /\ parent \in [Tasks -> rows \union {NoTask}]
    /\ deletedAt \in [Tasks -> Nat]
    /\ blocked \subseteq rows \X rows
    /\ clock \in Nat \ {0}
    /\ adding \subseteq Declaration
    /\ restoring \subseteq Reading
    /\ purging \subseteq Tasks
    /\ late \subseteq blocked
    /\ overtaken \in BOOLEAN
    /\ touched \subseteq Tasks
    /\ left \in [Bounded -> Nat]

Init ==
    /\ rows = {}
    /\ unused = Tasks
    /\ parent = [t \in Tasks |-> NoTask]
    /\ deletedAt = [t \in Tasks |-> 0]
    /\ blocked = {}
    /\ clock = 1
    /\ adding = {}
    /\ restoring = {}
    /\ purging = {}
    /\ late = {}
    /\ overtaken = FALSE
    /\ touched = {}
    /\ left \in Mixes

-----------------------------------------------------------------------------
(* Walks over edges, which are pairs of Tasks.                             *)

Closed(S, E) == \A e \in E : e[1] \in S => e[2] \in S

\* b is found by a walk from a.
Reaches(E, a, b) ==
    \A S \in SUBSET Tasks : a \in S /\ Closed(S, E) => b \in S

\* No walk comes back to where it was: every set has a Task with no edge into it.
Grounded(E) ==
    \A S \in (SUBSET Tasks) \ {{}} :
        \E a \in S : \A e \in E : e[1] = a => e[2] \notin S

\* The parent links of some Tasks.
UpFrom(S) == {e \in S \X Tasks : parent[e[1]] = e[2]}

\* taskSubtree: a Task with its descendants among some.
Subtree(S, id) == {t \in Tasks : Reaches(UpFrom(S), t, id)}

\* A mutant that drops the edges of a Task and leaves those that wait for it.
EdgesOf(S, E) == {e \in E : e[1] \in S}

Touching(S, E) == {e \in E : e[1] \in S \/ e[2] \in S}

Spend(bound) == /\ left[bound] > 0
                /\ left' = [left EXCEPT ![bound] = @ - 1]

Insert(t, p) ==
    /\ t \in unused
    /\ rows' = rows \union {t}
    /\ unused' = unused \ {t}
    /\ parent' = [parent EXCEPT ![t] = p]
    /\ UNCHANGED <<deletedAt, clock, blocked, flights, history, left>>

Create(t) == Insert(t, NoTask)

\* The parent is read in the transaction that writes the sub-task.
CreateSubtask(t, p) ==
    /\ p \in Live
    /\ IssueOf[t] = IssueOf[p]
    /\ Insert(t, p)

\* A mutant that looks no further than the parent's parent.
ClosesAPair(id, p) == id = p \/ parent[p] = id

\* checkParentEdge walks up among the live Tasks.
ClosesAChain(id, p) == id = p \/ Reaches(UpFrom(Live), p, id)

SetParent(id, p) ==
    /\ id \in Live
    /\ p # NoTask => /\ p \in Live
                     /\ IssueOf[p] = IssueOf[id]
                     /\ ~ClosesAChain(id, p)
    /\ Spend("links")
    /\ parent' = [parent EXCEPT ![id] = p]
    /\ UNCHANGED <<rows, unused, deletedAt, clock, blocked, flights, history>>

-----------------------------------------------------------------------------
(* Dependencies. Both ends are looked up, each by itself, and then one     *)
(* transaction reads all edges and writes.                                 *)

LookUpTask(t, b) ==
    /\ t \in Live
    /\ Spend("edges")
    /\ adding' = adding \union {[task |-> t, blocker |-> b, looked |-> FALSE]}
    /\ UNCHANGED <<tree, blocked, restoring, purging, history>>

LookUpBlocker(a) ==
    /\ a \in adding /\ ~a.looked
    /\ adding' = (adding \ {a}) \union
                 (IF a.blocker \in Live THEN {[a EXCEPT !.looked = TRUE]} ELSE {})
    /\ UNCHANGED <<tree, blocked, restoring, purging, history, left>>

\* checkDependencyEdge: the blocker waits for the Task already.
ClosesACycle(t, b) == t = b \/ Reaches(blocked, b, t)

\* The insert is refused by its foreign keys when an end is gone.
AddEdge(a) ==
    /\ a \in adding /\ a.looked
    /\ adding' = adding \ {a}
    /\ LET edge == <<a.task, a.blocker>>
       IN  IF ClosesACycle(a.task, a.blocker) \/ ~({a.task, a.blocker} \subseteq rows)
           THEN UNCHANGED <<blocked, late>>
           ELSE /\ blocked' = blocked \union {edge}
                /\ late' = IF {a.task, a.blocker} \subseteq Live
                           THEN late ELSE late \union {edge}
    /\ UNCHANGED <<tree, restoring, purging, overtaken, touched, left>>

\* The lookup and the delete of the row are taken as one.
RemoveEdge(t, b) ==
    /\ t \in Live /\ <<t, b>> \in blocked
    /\ blocked' = blocked \ {<<t, b>>}
    /\ late' = late \ {<<t, b>>}
    /\ UNCHANGED <<tree, flights, overtaken, touched, left>>

DropEdges(S) ==
    /\ blocked' = blocked \ Touching(S, blocked)
    /\ late' = late \ Touching(S, late)

-----------------------------------------------------------------------------
(* Into History, back, and out of it.                                      *)

\* deleteTask: a Task with its live sub-tasks, under one stamp. It asks for the
\* row only, so one that is in History already is stamped anew.
HasDependents(S) == \E e \in blocked : e[2] \in S /\ e[1] \notin S

Delete(id, force) ==
    /\ id \in rows
    /\ LET going == Subtree(Live, id)
       IN  /\ force \/ ~HasDependents(going)
           /\ deletedAt' = [t \in Tasks |-> IF t \in going THEN clock
                                                           ELSE deletedAt[t]]
           /\ DropEdges(going)
           /\ touched' = touched \union (purging \intersect going)
    /\ clock' = clock + 1
    /\ Spend("deletes")
    /\ UNCHANGED <<rows, unused, parent, flights, overtaken>>

\* restoreTask reads its row; the checks are made on what it read.
ReadToRestore(id) ==
    /\ id \in History
    /\ deletedAt[id] + Window > clock
    /\ Spend("restores")
    /\ restoring' = restoring \union
          {[id |-> id, stamp |-> deletedAt[id], parent |-> parent[id]]}
    /\ UNCHANGED <<tree, blocked, adding, purging, history>>

\* What carries the stamp that was read comes back, and the row that was read
\* does whatever it carries now. It is detached from a parent that stays.
Restore(r) ==
    /\ r \in restoring
    /\ restoring' = restoring \ {r}
    /\ LET together == Subtree({t \in rows : deletedAt[t] = r.stamp}, r.id)
           back == [t \in Tasks |-> IF t \in together THEN 0 ELSE deletedAt[t]]
       IN  /\ deletedAt' = back
           /\ parent' =
                 IF r.parent # NoTask /\ (r.parent \notin rows \/ back[r.parent] # 0)
                 THEN [parent EXCEPT ![r.id] = NoTask] ELSE parent
    /\ overtaken' = (overtaken \/ (r.id \in rows /\ deletedAt[r.id] # r.stamp))
    /\ UNCHANGED <<rows, unused, clock, blocked, adding, purging, late, touched,
                   left>>

\* A mutant that leaves sub-tasks with the link to a parent that is gone.
CascadeLeavesLinks(S) ==
    /\ rows' = rows \ S
    /\ parent' = [t \in Tasks |-> IF t \in S THEN NoTask ELSE parent[t]]
    /\ deletedAt' = [t \in Tasks |-> IF t \in S THEN 0 ELSE deletedAt[t]]
    /\ DropEdges(S)

\* cascadeDeleteTasks: the rows go, with the edges and the parent links to them.
Cascade(S) ==
    /\ rows' = rows \ S
    /\ parent' = [t \in Tasks |-> IF t \in S \/ parent[t] \in S THEN NoTask
                                                                ELSE parent[t]]
    /\ deletedAt' = [t \in Tasks |-> IF t \in S THEN 0 ELSE deletedAt[t]]
    /\ DropEdges(S)

\* A mutant whose window is shorter than the one a restore is granted.
ExpiredEarly == {t \in History : deletedAt[t] + Window <= clock + 1}

Expired == {t \in History : deletedAt[t] + Window < clock}

\* One sweep at a time lists what it will purge.
ListExpired ==
    /\ purging = {} /\ Expired # {}
    /\ purging' = Expired
    /\ touched' = {t \in Expired :
                      \E r \in restoring : r.id = t \/ r.stamp = deletedAt[t]}
    /\ UNCHANGED <<tree, blocked, adding, restoring, late, overtaken, left>>

\* A Task of the list is purged, with no look at its mark; or left for the next
\* sweep: its worktrees were not removed, or the process died.
Purge(t) ==
    /\ t \in purging
    /\ purging' = purging \ {t}
    /\ Cascade({t})
    /\ UNCHANGED <<unused, clock, adding, restoring, overtaken, touched, left>>

LeaveListed(t) ==
    /\ t \in purging
    /\ purging' = purging \ {t}
    /\ UNCHANGED <<tree, blocked, adding, restoring, history, left>>

\* deleteIssue takes every Task of the Issue, live or in History; no other is
\* made on it.
DeleteIssue(t) ==
    LET its == {u \in Tasks : IssueOf[u] = IssueOf[t]}
    IN  /\ its \intersect rows # {}
        /\ Cascade(its)
        /\ unused' = unused \ its
        /\ UNCHANGED <<clock, flights, overtaken, touched, left>>

Tick ==
    /\ Spend("ticks")
    /\ clock' = clock + 1
    /\ UNCHANGED <<rows, unused, parent, deletedAt, blocked, flights, history>>

-----------------------------------------------------------------------------

Next ==
    \/ \E t \in Tasks :
          \/ Create(t) \/ ReadToRestore(t)
          \/ Purge(t) \/ LeaveListed(t) \/ DeleteIssue(t)
          \/ \E force \in BOOLEAN : Delete(t, force)
          \/ \E u \in Tasks : \/ CreateSubtask(t, u)
                              \/ LookUpTask(t, u) \/ RemoveEdge(t, u)
          \/ \E p \in Tasks \union {NoTask} : SetParent(t, p)
    \/ \E a \in adding : LookUpBlocker(a) \/ AddEdge(a)
    \/ \E r \in restoring : Restore(r)
    \/ ListExpired
    \/ Tick

Spec == Init /\ [][Next]_vars

-----------------------------------------------------------------------------
(* Properties.                                                             *)

\* A live Task's breadcrumb ends: its parent is live as well, and no walk up
\* comes back (checkParentEdge, and restoreTask's detaching), whatever is
\* deleted, restored and purged in between. The one exception is a restore that
\* was overtaken: it judges the parent its Task had when it was read.
ChainsEnd ==
    ~overtaken => /\ Grounded(UpFrom(rows))
                  /\ \A t \in Live : parent[t] \in Live \union {NoTask}

\* "leaving two Tasks that can never start" is what addTaskDependencyEdge must
\* not do, "a Task in History must not hold another back" what deleteTask
\* promises: among any live Tasks there is one that waits for none of them and
\* for none that is in History, but for edges whose ends were looked up before
\* a delete.
SomethingCanStart ==
    \A S \in (SUBSET Live) \ {{}} :
        \E t \in S : \A b \in rows :
            <<t, b>> \in blocked =>
                b \notin S /\ (<<t, b>> \notin late => b \in Live)

\* The sweep purges nothing that is live, though it looks no further than its
\* list: what it lists can be restored no more, unless a restore had read it
\* before, or it was deleted once more.
OnlyHistoryIsPurged ==
    [][\A t \in (purging \ purging') \ touched : t \in rows \ rows' => t \in History]_vars
=============================================================================
