-------------------------- MODULE Delivery_proofs --------------------------
(***************************************************************************)
(* Theorems about Delivery, for any Repositories of any kinds, and any     *)
(* number of rounds, refusals, clicks and crashes: the types; that a       *)
(* shipping under way does not settle a Task that runs, nor one kept       *)
(* local; and that done means delivered, that nothing unapproved leaves,   *)
(* and that a link is the latest approval's.                               *)
(*                                                                         *)
(* The last three share one invariant. While nothing raced there is one    *)
(* job at a time, and what is under way or at rest is of what was          *)
(* approved; the branches hold it and the remotes have it, but for those   *)
(* the job has still to do, or has noted as refused or as not integrated.  *)
(***************************************************************************)
EXTENDS Delivery, TLAPS

-----------------------------------------------------------------------------
(* Types.                                                                  *)

LEMMA BoundSpent ==
    ASSUME TypeOK, NEW b \in Bounded, Spend(b)
    PROVE  left' \in [Bounded -> Nat]
  BY DEF TypeOK, Spend

LEMMA JobTyped ==
    ASSUME TypeOK, NEW j \in Jobs
    PROVE  /\ job \in [Jobs -> Job] /\ job[j] \in Job
           /\ job[j].todo \subseteq Repos /\ job[j].failed \subseteq Repos
           /\ job[j].undelivered \subseteq Repos
           /\ job[j].repo \in {None} \union Repos
  BY DEF TypeOK, Job

LEMMA FreshJobs == NoJob \in Job /\ StartApproval \in Job
  BY DEF NoJob, StartApproval, Job, None

\* What each way out of a branch changes of a job: its fields, one by one.
LEMMA PassedDoes ==
    ASSUME TypeOK, NEW j \in Jobs, Passed(j)
    PROVE  /\ job' \in [Jobs -> Job]
           /\ \A i \in Jobs : i # j => job'[i] = job[i]
           /\ job'[j].at = "next"
           /\ job'[j].todo = job[j].todo \ {job[j].repo}
           /\ job'[j].failed = job[j].failed
           /\ job'[j].undelivered = job[j].undelivered
  <1> DEFINE rest == job[j].todo \ {job[j].repo}
             new == [job[j] EXCEPT !.at = "next", !.repo = None, !.todo = rest]
  <1>1. job \in [Jobs -> Job] /\ job[j] \in Job /\ rest \subseteq Repos
    BY JobTyped
  <1>2. job' = [job EXCEPT ![j] = new]
    BY <1>1 DEF Passed, Job
  <1> HIDE DEF rest
  <1>3. /\ new \in Job /\ new.at = "next" /\ new.todo = rest
        /\ new.failed = job[j].failed
        /\ new.undelivered = job[j].undelivered
    BY <1>1 DEF Job, None
  <1> HIDE DEF new
  <1> QED BY <1>1, <1>2, <1>3 DEF rest

LEMMA FailedDoes ==
    ASSUME TypeOK, NEW j \in Jobs, Failed(j), job[j].repo \in Repos
    PROVE  /\ job' \in [Jobs -> Job]
           /\ \A i \in Jobs : i # j => job'[i] = job[i]
           /\ job'[j].at = "next"
           /\ job'[j].todo = job[j].todo \ {job[j].repo}
           /\ job'[j].failed = job[j].failed
           /\ job'[j].undelivered = job[j].undelivered \union {job[j].repo}
  <1> DEFINE done == job[j].undelivered \union {job[j].repo}
             rest == job[j].todo \ {job[j].repo}
             new == [job[j] EXCEPT !.at = "next", !.repo = None,
                                   !.todo = rest, !.undelivered = done]
  <1>1. job \in [Jobs -> Job] /\ job[j] \in Job
    BY JobTyped
  <1>2. done \subseteq Repos /\ rest \subseteq Repos
    BY JobTyped
  <1>3. job' = [job EXCEPT ![j] = new]
    BY <1>1 DEF Failed, Job
  <1> HIDE DEF done, rest
  <1>4. /\ new \in Job /\ new.at = "next" /\ new.todo = rest
        /\ new.failed = job[j].failed /\ new.undelivered = done
    BY <1>1, <1>2 DEF Job, None
  <1> HIDE DEF new
  <1> QED BY <1>1, <1>3, <1>4 DEF done, rest

LEMMA RequestDoes ==
    ASSUME TypeOK, NEW j \in Jobs, job' = [job EXCEPT ![j].at = "request"]
    PROVE  /\ job' \in [Jobs -> Job]
           /\ \A i \in Jobs : i # j => job'[i] = job[i]
           /\ job'[j].at = "request"
           /\ job'[j].repo = job[j].repo
           /\ job'[j].todo = job[j].todo
           /\ job'[j].failed = job[j].failed
           /\ job'[j].undelivered = job[j].undelivered
  <1> DEFINE new == [job[j] EXCEPT !.at = "request"]
  <1>1. job \in [Jobs -> Job] /\ job[j] \in Job
    BY JobTyped
  <1>2. job' = [job EXCEPT ![j] = new]
    OBVIOUS
  <1>3. /\ new \in Job /\ new.at = "request" /\ new.repo = job[j].repo
        /\ new.todo = job[j].todo /\ new.failed = job[j].failed
        /\ new.undelivered = job[j].undelivered
    BY <1>1 DEF Job
  <1> HIDE DEF new
  <1> QED BY <1>1, <1>2, <1>3

LEMMA TakenUp ==
    ASSUME TypeOK, NEW j \in Jobs, NEW r \in Repos,
           job' = [job EXCEPT ![j].at = "push", ![j].repo = r]
    PROVE  /\ job' \in [Jobs -> Job]
           /\ \A i \in Jobs : i # j => job'[i] = job[i]
           /\ job'[j].at = "push"
           /\ job'[j].repo = r
           /\ job'[j].todo = job[j].todo
           /\ job'[j].failed = job[j].failed
           /\ job'[j].undelivered = job[j].undelivered
  <1> DEFINE new == [job[j] EXCEPT !.at = "push", !.repo = r]
  <1>1. job \in [Jobs -> Job] /\ job[j] \in Job
    BY JobTyped
  <1>2. job' = [job EXCEPT ![j] = new]
    BY <1>1 DEF Job
  <1>3. /\ new \in Job /\ new.at = "push" /\ new.repo = r
        /\ new.todo = job[j].todo /\ new.failed = job[j].failed
        /\ new.undelivered = job[j].undelivered
    BY <1>1 DEF Job
  <1> HIDE DEF new
  <1> QED BY <1>1, <1>2, <1>3

LEMMA LeftOut ==
    ASSUME TypeOK, NEW j \in Jobs, NEW r \in Repos,
           job' = [job EXCEPT ![j].todo = @ \ {r}, ![j].failed = @ \union {r}]
    PROVE  /\ job' \in [Jobs -> Job]
           /\ \A i \in Jobs : i # j => job'[i] = job[i]
           /\ job'[j].at = job[j].at
           /\ job'[j].repo = job[j].repo
           /\ job'[j].todo = job[j].todo \ {r}
           /\ job'[j].failed = job[j].failed \union {r}
           /\ job'[j].undelivered = job[j].undelivered
  <1> DEFINE rest == job[j].todo \ {r}
             out == job[j].failed \union {r}
             new == [job[j] EXCEPT !.todo = rest, !.failed = out]
  <1>1. job \in [Jobs -> Job] /\ job[j] \in Job
        /\ rest \subseteq Repos /\ out \subseteq Repos
    BY JobTyped
  <1>2. job' = [job EXCEPT ![j] = new]
    BY <1>1 DEF Job
  <1> HIDE DEF rest, out
  <1>3. /\ new \in Job /\ new.at = job[j].at /\ new.repo = job[j].repo
        /\ new.todo = rest /\ new.failed = out
        /\ new.undelivered = job[j].undelivered
    BY <1>1 DEF Job
  <1> HIDE DEF new
  <1> QED BY <1>1, <1>2, <1>3 DEF rest, out

\* A job that is replaced as a whole.
LEMMA Replaced ==
    ASSUME TypeOK, NEW j \in Jobs, NEW new \in Job, job' = [job EXCEPT ![j] = new]
    PROVE  /\ job' \in [Jobs -> Job]
           /\ \A i \in Jobs : i # j => job'[i] = job[i]
           /\ job'[j] = new
  BY DEF TypeOK

\* A branch at hand is one of the branches still to be shipped.
AtHand == \A j \in Jobs :
    job[j].at \in {"push", "request"} => job[j].repo \in job[j].todo

Typed == TypeOK /\ AtHand

LEMMA RepoAtHand ==
    ASSUME Typed, NEW j \in Jobs, job[j].at \in {"push", "request"}
    PROVE  job[j].repo \in Repos
  BY JobTyped DEF Typed, AtHand

LEMMA TypesHoldInitially == Init => Typed
  <1> SUFFICES ASSUME Init PROVE Typed
    OBVIOUS
  <1>1. kind \in [Repos -> Kind]
    BY KindsAssumption DEF Init
  <1>2. left \in [Bounded -> Nat]
    BY MixesAssumption DEF Init
  <1>3. job \in [Jobs -> Job]
    BY FreshJobs DEF Init
  <1>4. AtHand
    BY DEF Init, AtHand, NoJob
  <1> QED BY <1>1, <1>2, <1>3, <1>4 DEF Init, Typed, TypeOK, Row

\* A step that leaves the jobs alone, or changes them as one of the lemmas above
\* says, leaves the branch at hand among those still to be shipped.
LEMMA SameJobs ==
    ASSUME AtHand, job' = job
    PROVE  AtHand'
  BY DEF AtHand

LEMMA JobAtHand ==
    ASSUME Typed, NEW j \in Jobs, job' \in [Jobs -> Job],
           \A i \in Jobs : i # j => job'[i] = job[i],
           job'[j].at \in {"push", "request"} => job'[j].repo \in job'[j].todo
    PROVE  AtHand'
  BY DEF Typed, AtHand

LEMMA TypesKept == Typed /\ [Next]_vars => Typed'
  <1> SUFFICES ASSUME Typed, [Next]_vars PROVE Typed'
    OBVIOUS
  <1> USE DEF Typed
  <1>1. CASE UNCHANGED vars
    BY <1>1, SameJobs DEF TypeOK, vars, repository, history
  <1>2. CASE Round
    <2>1. left' \in [Bounded -> Nat]
      BY <1>2, BoundSpent DEF Round, Bounded
    <2>2. work' \in [Repos -> Nat] /\ tip' \in [Repos -> Nat]
      BY <1>2 DEF Round, TypeOK
    <2> QED BY <1>2, <2>1, <2>2, SameJobs DEF Round, TypeOK, history
  <1>3. CASE OpenGate
    BY <1>3, SameJobs DEF OpenGate, Set, TypeOK, Row, repository, history
  <1>4. CASE Retry
    BY <1>4, SameJobs DEF Retry, Set, TypeOK, Row, repository, UnderWay
  <1>5. CASE Approve
    <2>1. job' = [job EXCEPT !["approval"] = StartApproval]
      BY <1>5 DEF Approve
    <2>2. job' \in [Jobs -> Job] /\ AtHand'
      BY <2>1, FreshJobs, Replaced, JobAtHand DEF Jobs, StartApproval, NoJob
    <2> QED BY <1>5, <2>2 DEF Approve, Set, TypeOK, Row, repository
  <1>6. CASE Acknowledge
    <2>1. job' = [job EXCEPT !["approval"] = NoJob]
      BY <1>6 DEF Acknowledge
    <2>2. job' \in [Jobs -> Job] /\ AtHand'
      BY <2>1, FreshJobs, Replaced, JobAtHand DEF Jobs, NoJob
    <2> QED BY <1>6, <2>2 DEF Acknowledge, TypeOK, repository, history
  <1>7. ASSUME NEW r \in Repos, Integrate(r) PROVE Typed'
    <2>1. job["approval"].at = "next" /\ r \in job["approval"].todo
      BY <1>7 DEF Integrate, Done
    <2>2. CASE job' = [job EXCEPT !["approval"].at = "push",
                                  !["approval"].repo = r]
               /\ tip' = [tip EXCEPT ![r] = work[r]]
               /\ result' = result \union {r}
               /\ behind' = behind \ {r} /\ UNCHANGED left
      <3>1. job' \in [Jobs -> Job] /\ AtHand'
        BY <2>1, <2>2, TakenUp, JobAtHand DEF Jobs
      <3> QED BY <1>7, <2>2, <3>1 DEF Integrate, TypeOK
    <2>3. CASE Refused
               /\ job' = [job EXCEPT !["approval"].todo = @ \ {r},
                                     !["approval"].failed = @ \union {r}]
               /\ behind' = behind \union {r} /\ UNCHANGED <<tip, result>>
      <3>1. job' \in [Jobs -> Job] /\ AtHand'
        BY <2>1, <2>3, LeftOut, JobAtHand DEF Jobs
      <3>2. left' \in [Bounded -> Nat]
        BY <2>3, BoundSpent DEF Refused, Bounded
      <3> QED BY <1>7, <2>3, <3>1, <3>2 DEF Integrate, TypeOK
    <2> QED BY <1>7, <2>2, <2>3 DEF Integrate
  <1>8. CASE SettleApproval
    <2>1. [NoJob EXCEPT !.at = "settled"] \in Job
      BY DEF NoJob, Job
    <2>2. job' \in [Jobs -> Job] /\ AtHand'
      BY <1>8, <2>1, Replaced, JobAtHand DEF SettleApproval, Jobs, NoJob
    <2> QED BY <1>8, <2>2
            DEF SettleApproval, Outcome, Set, TypeOK, Row, repository, history
  <1>9. ASSUME NEW j \in Jobs, Push(j) PROVE Typed'
    <2>1. job[j].repo \in Repos
      BY <1>9, RepoAtHand DEF Push
    <2>2. left' \in [Bounded -> Nat]
      BY <1>9, BoundSpent DEF Push, Refused, Bounded, TypeOK
    <2>3. job' \in [Jobs -> Job] /\ AtHand'
      <3>1. CASE Passed(j)
        BY <3>1, PassedDoes, JobAtHand
      <3>2. CASE Failed(j)
        BY <2>1, <3>2, FailedDoes, JobAtHand
      <3>3. CASE job' = [job EXCEPT ![j].at = "request"]
        <4>1. job[j].repo \in job[j].todo
          BY <1>9 DEF Push, AtHand
        <4> QED BY <3>3, <4>1, RequestDoes, JobAtHand
      <3> QED BY <1>9, <3>1, <3>2, <3>3 DEF Push
    <2>4. remote' \in [Repos -> Nat] /\ link' \subseteq Repos
      BY <1>9, <2>1 DEF Push, Unlink, TypeOK
    <2> QED BY <1>9, <2>2, <2>3, <2>4 DEF Push, TypeOK, history
  <1>10. ASSUME NEW j \in Jobs, OpenRequest(j) PROVE Typed'
    <2>1. job[j].repo \in Repos
      BY <1>10, RepoAtHand DEF OpenRequest
    <2>2. left' \in [Bounded -> Nat]
      BY <1>10, BoundSpent DEF OpenRequest, Refused, Bounded, TypeOK
    <2>3. job' \in [Jobs -> Job] /\ AtHand'
      <3>1. CASE Passed(j)
        BY <3>1, PassedDoes, JobAtHand
      <3>2. CASE Failed(j)
        BY <2>1, <3>2, FailedDoes, JobAtHand
      <3> QED BY <1>10, <3>1, <3>2 DEF OpenRequest
    <2>4. link' \subseteq Repos
      BY <1>10, <2>1 DEF OpenRequest, Unlink, TypeOK
    <2> QED BY <1>10, <2>2, <2>3, <2>4 DEF OpenRequest, TypeOK, history
  <1>11. CASE ShipAgain
    <2>1. left' \in [Bounded -> Nat]
      BY <1>11, BoundSpent DEF ShipAgain, Bounded
    <2> QED BY <1>11, <2>1, SameJobs DEF ShipAgain, TypeOK, repository, history
  <1>12. CASE BeginAgain
    <2>1. [NoJob EXCEPT !.at = "next", !.todo = result] \in Job
      BY DEF NoJob, Job, TypeOK
    <2>2. job' \in [Jobs -> Job] /\ AtHand'
      <3>1. CASE Undelivered
        BY <1>12, <2>1, <3>1, Replaced, JobAtHand DEF BeginAgain, Jobs, NoJob
      <3>2. CASE ~Undelivered
        BY <1>12, <3>2, SameJobs DEF BeginAgain, TypeOK
      <3> QED BY <3>1, <3>2
    <2> QED BY <1>12, <2>2 DEF BeginAgain, TypeOK, repository, Undelivered
  <1>13. ASSUME NEW r \in Repos, TakeUp(r) PROVE Typed'
    <2>1. job' \in [Jobs -> Job] /\ AtHand'
      BY <1>13, TakenUp, JobAtHand DEF TakeUp, Done, Jobs
    <2> QED BY <1>13, <2>1 DEF TakeUp, TypeOK, repository, history
  <1>14. CASE SettleAgain
    <2>1. job' \in [Jobs -> Job] /\ AtHand'
      BY <1>14, FreshJobs, Replaced, JobAtHand DEF SettleAgain, Jobs, NoJob
    <2> QED BY <1>14, <2>1
            DEF SettleAgain, Finish, TypeOK, Row, repository, history
  <1>15. CASE KeepLocal
    BY <1>15, SameJobs DEF KeepLocal, Set, TypeOK, Row, repository
  <1>16. CASE Crash
    <2>1. left' \in [Bounded -> Nat]
      BY <1>16, BoundSpent DEF Crash, Bounded
    <2>2. job' \in [Jobs -> Job]
      BY <1>16, FreshJobs DEF Crash
    <2>3. AtHand'
      BY <1>16 DEF Crash, AtHand, StartApproval, NoJob
    <2> QED BY <1>16, <2>1, <2>2, <2>3 DEF Crash, TypeOK, repository
  <1> QED BY <1>1, <1>2, <1>3, <1>4, <1>5, <1>6, <1>7, <1>8, <1>9, <1>10, <1>11,
             <1>12, <1>13, <1>14, <1>15, <1>16
          DEF Next, ApprovalStep, AgainStep, Jobs

\* The types hold: what is at hand is a branch of the Task's, in every state a
\* delivery can be in.
THEOREM TypesHold == Spec => []TypeOK
  <1>1. Typed => TypeOK
    BY DEF Typed
  <1> QED BY <1>1, TypesHoldInitially, TypesKept, PTL DEF Spec

-----------------------------------------------------------------------------
(* Who moves a Task.                                                       *)

Approval == job["approval"]
Again == job["again"]

\* A shipping takes its branch away, or goes on to its request; it touches no
\* version of the Task's own, and nothing of the other job.
LEMMA PushDoes ==
    ASSUME Typed, NEW j \in Jobs, Push(j)
    PROVE  /\ job[j].at = "push"
           /\ job[j].repo \in Repos /\ job[j].repo \in job[j].todo
           /\ UNCHANGED <<kind, row, work, tip, result, asked, approved, behind,
                          kept, raced, redone>>
           /\ \A i \in Jobs : i # j => job'[i] = job[i]
           /\ job'[j].failed = job[j].failed
           /\ \/ /\ kind[job[j].repo] = "local"
                 /\ job'[j].at = "next"
                 /\ job'[j].todo = job[j].todo \ {job[j].repo}
                 /\ job'[j].undelivered = job[j].undelivered
                 /\ UNCHANGED <<remote, link>>
              \/ /\ job'[j].at = "next"
                 /\ job'[j].todo = job[j].todo \ {job[j].repo}
                 /\ job'[j].undelivered
                      = job[j].undelivered \union {job[j].repo}
                 /\ link' = link \ {job[j].repo} /\ UNCHANGED remote
              \/ /\ kind[job[j].repo] \in {"cloned", "worktree"}
                 /\ job'[j].at = "request"
                 /\ job'[j].repo = job[j].repo
                 /\ job'[j].todo = job[j].todo
                 /\ job'[j].undelivered = job[j].undelivered
                 /\ remote' = [remote EXCEPT ![job[j].repo] = tip[job[j].repo]]
                 /\ UNCHANGED link
  <1>1. /\ job[j].at = "push"
        /\ job[j].repo \in Repos /\ job[j].repo \in job[j].todo
    BY RepoAtHand DEF Push, Typed, AtHand
  <1>2. UNCHANGED <<kind, row, work, tip, result, asked, approved, behind, kept,
                    raced, redone>>
    BY DEF Push, history
  <1>3. CASE kind[job[j].repo] = "local" /\ Passed(j)
             /\ UNCHANGED <<remote, link>>
    BY <1>1, <1>2, <1>3, PassedDoes DEF Typed
  <1>4. CASE Unlink(job[j].repo) /\ Failed(j) /\ UNCHANGED remote
    BY <1>1, <1>2, <1>4, FailedDoes DEF Typed, Unlink
  <1>5. CASE /\ kind[job[j].repo] \in {"cloned", "worktree"}
             /\ remote' = [remote EXCEPT ![job[j].repo] = tip[job[j].repo]]
             /\ job' = [job EXCEPT ![j].at = "request"]
             /\ UNCHANGED link
    BY <1>1, <1>2, <1>5, RequestDoes DEF Typed
  <1> QED BY <1>3, <1>4, <1>5 DEF Push

LEMMA OpenRequestDoes ==
    ASSUME Typed, NEW j \in Jobs, OpenRequest(j)
    PROVE  /\ job[j].at = "request"
           /\ job[j].repo \in Repos /\ job[j].repo \in job[j].todo
           /\ UNCHANGED <<kind, row, work, tip, result, remote, asked, approved,
                          behind, kept, raced, redone>>
           /\ \A i \in Jobs : i # j => job'[i] = job[i]
           /\ job'[j].at = "next"
           /\ job'[j].todo = job[j].todo \ {job[j].repo}
           /\ job'[j].failed = job[j].failed
           /\ \/ /\ job'[j].undelivered = job[j].undelivered
                 /\ link' = link \union {job[j].repo}
              \/ /\ job'[j].undelivered
                      = job[j].undelivered \union {job[j].repo}
                 /\ link' = link \ {job[j].repo}
  <1>1. /\ job[j].at = "request"
        /\ job[j].repo \in Repos /\ job[j].repo \in job[j].todo
    BY RepoAtHand DEF OpenRequest, Typed, AtHand
  <1>2. UNCHANGED <<kind, row, work, tip, result, remote, asked, approved,
                    behind, kept, raced, redone>>
    BY DEF OpenRequest, history
  <1>3. CASE link' = link \union {job[j].repo} /\ Passed(j)
    BY <1>1, <1>2, <1>3, PassedDoes DEF Typed
  <1>4. CASE Unlink(job[j].repo) /\ Failed(j)
    BY <1>1, <1>2, <1>4, FailedDoes DEF Typed, Unlink
  <1> QED BY <1>3, <1>4 DEF OpenRequest

\* Integrating a branch takes it up, or leaves it out of the shipping.
LEMMA IntegrateDoes ==
    ASSUME Typed, NEW r \in Repos, Integrate(r)
    PROVE  /\ Approval.at = "next" /\ r \in Approval.todo
           /\ UNCHANGED <<kind, row, work, remote, link, asked, approved, kept,
                          raced, redone>>
           /\ Again' = Again
           /\ Approval'.undelivered = Approval.undelivered
           /\ \/ /\ tip' = [tip EXCEPT ![r] = work[r]]
                 /\ result' = result \union {r}
                 /\ behind' = behind \ {r}
                 /\ Approval'.at = "push" /\ Approval'.repo = r
                 /\ Approval'.todo = Approval.todo
                 /\ Approval'.failed = Approval.failed
              \/ /\ UNCHANGED <<tip, result>>
                 /\ behind' = behind \union {r}
                 /\ Approval'.at = "next"
                 /\ Approval'.todo = Approval.todo \ {r}
                 /\ Approval'.failed = Approval.failed \union {r}
  <1> USE DEF Approval, Again
  <1>0. "approval" \in Jobs /\ "again" \in Jobs /\ "again" # "approval"
    BY DEF Jobs
  <1>1. /\ Approval.at = "next" /\ r \in Approval.todo
        /\ UNCHANGED <<kind, row, work, remote, link, asked, approved, kept,
                       raced, redone>>
    BY DEF Integrate, Done
  <1>2. CASE /\ tip' = [tip EXCEPT ![r] = work[r]]
             /\ result' = result \union {r}
             /\ job' = [job EXCEPT !["approval"].at = "push",
                                   !["approval"].repo = r]
             /\ behind' = behind \ {r}
    <2>1. /\ job'["again"] = job["again"]
          /\ job'["approval"].at = "push" /\ job'["approval"].repo = r
          /\ job'["approval"].todo = job["approval"].todo
          /\ job'["approval"].failed = job["approval"].failed
          /\ job'["approval"].undelivered = job["approval"].undelivered
      BY <1>0, <1>2, TakenUp DEF Typed
    <2> QED BY <1>1, <1>2, <2>1
  <1>3. CASE /\ job' = [job EXCEPT !["approval"].todo = @ \ {r},
                                   !["approval"].failed = @ \union {r}]
             /\ behind' = behind \union {r}
             /\ UNCHANGED <<tip, result>>
    <2>1. /\ job'["again"] = job["again"]
          /\ job'["approval"].at = job["approval"].at
          /\ job'["approval"].todo = job["approval"].todo \ {r}
          /\ job'["approval"].failed = job["approval"].failed \union {r}
          /\ job'["approval"].undelivered = job["approval"].undelivered
      BY <1>0, <1>3, LeftOut DEF Typed
    <2> QED BY <1>1, <1>3, <2>1
  <1> QED BY <1>2, <1>3 DEF Integrate

\* A shipping under way never finishes or fails a Task that a retry has claimed.
THEOREM RunIsLeftAlone == Spec => RunIsNotFinished
  <1>1. Typed /\ [Next]_vars
          => [row.state = "running" /\ row'.state \in {"failed", "done"}
                => job["approval"].at = "next"]_row
    <2> SUFFICES ASSUME Typed, [Next]_vars,
                        row.state = "running", row'.state \in {"failed", "done"}
                 PROVE  job["approval"].at = "next"
      OBVIOUS
    <2>1. row' # row
      OBVIOUS
    <2>2. CASE SettleApproval
      BY <2>2 DEF SettleApproval
    <2>3. CASE \/ Round \/ Acknowledge \/ ShipAgain \/ BeginAgain \/ Crash
               \/ UNCHANGED vars
      BY <2>1, <2>3 DEF Round, Acknowledge, ShipAgain, BeginAgain, Crash, vars
    <2>4. CASE \/ OpenGate \/ Retry \/ Approve \/ KeepLocal \/ SettleAgain
      BY <2>1, <2>4 DEF OpenGate, Retry, Approve, KeepLocal, SettleAgain, Set,
                        Finish, Undelivered
    <2>5. ASSUME NEW r \in Repos, Integrate(r) \/ TakeUp(r) PROVE FALSE
      BY <2>1, <2>5 DEF Integrate, TakeUp
    <2>6. ASSUME NEW j \in Jobs, Push(j) \/ OpenRequest(j) PROVE FALSE
      BY <2>1, <2>6 DEF Push, OpenRequest
    <2> QED BY <2>2, <2>3, <2>4, <2>5, <2>6
            DEF Next, ApprovalStep, AgainStep, Jobs
  <1> QED BY <1>1, TypesHoldInitially, TypesKept, PTL
          DEF Spec, RunIsNotFinished

\* An approval that works is of a Task that reads running, and that nobody kept
\* local, until the engine asks once more for one that had settled.
Claimed == Approving /\ ~redone => row.state = "running" /\ ~kept

LEMMA ClaimedKept == Typed /\ Claimed /\ [Next]_vars => Claimed'
  <1> SUFFICES ASSUME Typed, Claimed, [Next]_vars PROVE Claimed'
    OBVIOUS
  <1> USE DEF Claimed, Approving
  <1>0. "approval" \in Jobs /\ "again" \in Jobs /\ "again" # "approval"
        /\ job \in [Jobs -> Job]
    BY DEF Jobs, Typed, TypeOK
  <1>1. CASE UNCHANGED vars
    BY <1>1 DEF vars, history
  <1>2. CASE Round \/ ShipAgain
    BY <1>2 DEF Round, ShipAgain, history
  <1>3. CASE OpenGate \/ Retry \/ KeepLocal
    BY <1>3 DEF OpenGate, Retry, KeepLocal, Set, Undelivered, history
  <1>4. CASE Approve
    BY <1>4 DEF Approve, Set
  <1>5. CASE Acknowledge
    BY <1>0, <1>5 DEF Acknowledge, NoJob
  <1>6. ASSUME NEW r \in Repos, Integrate(r) PROVE Claimed'
    BY <1>6, IntegrateDoes DEF Approval
  <1>7. CASE SettleApproval
    BY <1>0, <1>7 DEF SettleApproval, NoJob
  <1>8. ASSUME NEW j \in Jobs, Push(j) PROVE Claimed'
    BY <1>0, <1>8, PushDoes
  <1>9. ASSUME NEW j \in Jobs, OpenRequest(j) PROVE Claimed'
    BY <1>0, <1>9, OpenRequestDoes
  <1>10. CASE BeginAgain
    BY <1>0, <1>10 DEF BeginAgain
  <1>11. ASSUME NEW r \in Repos, TakeUp(r) PROVE Claimed'
    BY <1>0, <1>11 DEF TakeUp, history
  <1>12. CASE SettleAgain
    BY <1>0, <1>12 DEF SettleAgain, Finish, Undelivered, history
  <1>13. CASE Crash
    BY <1>0, <1>13 DEF Crash, NoJob
  <1> QED BY <1>1, <1>2, <1>3, <1>4, <1>5, <1>6, <1>7, <1>8, <1>9, <1>10, <1>11,
             <1>12, <1>13
          DEF Next, ApprovalStep, AgainStep, Jobs

\* What a person kept local stays done until a person starts it again, unless
\* the engine asks once more for an approval that had settled.
THEOREM KeptIsKept == Spec => KeptStaysDone
  <1>1. Init => Claimed
    BY DEF Init, Claimed, Approving, Jobs, NoJob
  <1>2. Typed /\ Claimed /\ [Next]_vars
          => [kept /\ ~redone /\ row.state = "done" /\ row'.state # "done"
                => row'.state = "running"]_row
    <2> SUFFICES ASSUME Typed, Claimed, [Next]_vars, kept, ~redone,
                        row.state = "done", row'.state # "done"
                 PROVE  row'.state = "running"
      OBVIOUS
    <2>1. row' # row
      OBVIOUS
    <2>2. ~SettleApproval
      BY DEF SettleApproval, Claimed, Approving
    <2>3. CASE \/ Round \/ Acknowledge \/ ShipAgain \/ BeginAgain \/ Crash
               \/ UNCHANGED vars
      BY <2>1, <2>3 DEF Round, Acknowledge, ShipAgain, BeginAgain, Crash, vars
    <2>4. CASE \/ OpenGate \/ Retry \/ Approve \/ KeepLocal \/ SettleAgain
      <3>1. ~OpenGate /\ ~Approve
        BY DEF OpenGate, Approve
      <3>2. ~KeepLocal /\ ~SettleAgain
        BY <2>1 DEF KeepLocal, SettleAgain, Finish, Undelivered
      <3>3. Retry => row'.state = "running"
        BY DEF Retry, Set
      <3> QED BY <2>4, <3>1, <3>2, <3>3
    <2>5. ASSUME NEW r \in Repos, Integrate(r) \/ TakeUp(r) PROVE FALSE
      BY <2>1, <2>5 DEF Integrate, TakeUp
    <2>6. ASSUME NEW j \in Jobs, Push(j) \/ OpenRequest(j) PROVE FALSE
      BY <2>1, <2>6 DEF Push, OpenRequest
    <2> QED BY <2>2, <2>3, <2>4, <2>5, <2>6
            DEF Next, ApprovalStep, AgainStep, Jobs
  <1> QED BY <1>1, <1>2, TypesHoldInitially, TypesKept, ClaimedKept, PTL
          DEF Spec, KeptStaysDone

\* What ships settles only the Task its approval or its Ship again is for: one
\* that a retry claimed, or a person kept local, is left alone.
THEOREM OnlyItsOwnIsSettled == Spec => SettlesItsOwnTask
  BY RunIsLeftAlone, KeptIsKept DEF SettlesItsOwnTask

-----------------------------------------------------------------------------
(* What an approval leaves in the Repositories and on the remotes.          *)

\* No version is approved, and no branch holds one, that no worktree has held;
\* what is linked, or about to be, is a branch that is pushed.
Versions ==
    /\ \A r \in Repos : tip[r] <= work[r] /\ approved[r] <= work[r]
    /\ \A r \in link : kind[r] \in {"cloned", "worktree"}
    /\ \A j \in Jobs :
          job[j].at = "request" => kind[job[j].repo] \in {"cloned", "worktree"}

\* An approval has every branch still to do, not integrated, or committed.
Integrated ==
    /\ Approving =>
          /\ behind \subseteq Approval.failed \union Approval.todo
          /\ Repos \ (Approval.failed \union Approval.todo) \subseteq result
          /\ Approval.at \in {"push", "request"}
                => Approval.repo \in result \ behind
    /\ Undelivered => result = Repos

\* While nothing raced: what is under way, or at rest, is of what was approved,
\* and a Ship again is alone.
AtRest == row.state \in {"failed", "done"}
Alone ==
    /\ UnderWay \/ AtRest => work = approved
    /\ Again.at # "idle" => Approval.at = "idle" /\ AtRest
    /\ Approval.at = "settled" => AtRest

\* While nothing raced: the branches hold what was approved, but for those that
\* failed or are still to do; so do the remotes, where a request is linked.
Pending == IF Approving THEN Approval.todo ELSE {}
Tips ==
    /\ UnderWay \/ AtRest
         => \A r \in Repos \ (behind \union Pending) : tip[r] = work[r]
    /\ Approval.at \in {"push", "request"}
         => tip[Approval.repo] = work[Approval.repo]
    /\ \A j \in Jobs :
          job[j].at = "request" => remote[job[j].repo] = tip[job[j].repo]
Linked == \A r \in link \ (behind \union Pending) : remote[r] = approved[r]
AtHome == \A r \in Repos : remote[r] <= approved[r]

\* While nothing raced: but for some branches, what was approved is shipped.
ShippedBut(some) ==
    \A r \in Shipped \ some : remote[r] = approved[r] /\ r \in link
Delivered ==
    /\ Again.at # "idle" => behind = {} /\ (row.state = "done" => kept)
    /\ Undelivered /\ ~Approving => behind = {}
    /\ Approving => ShippedBut(Approval.failed \union Approval.todo
                                 \union Approval.undelivered)
    /\ Again.at # "idle" => ShippedBut(Again.todo \union Again.undelivered)
    /\ row.state = "done" /\ ~Approving /\ ~kept => ShippedBut({})

Settled == ~raced => Alone /\ Tips /\ Linked /\ AtHome /\ Delivered
Inv == Typed /\ Versions /\ Integrated /\ Settled

LEMMA InvHoldsInitially == Init => Inv
  <1> SUFFICES ASSUME Init PROVE Inv
    OBVIOUS
  <1>1. Typed
    BY TypesHoldInitially
  <1>2. \A j \in Jobs : job[j] = NoJob
    BY DEF Init
  <1>3. ~UnderWay /\ ~Approving /\ ~AtRest /\ ~Undelivered
    BY <1>2 DEF Init, UnderWay, Approving, AtRest, Undelivered, NoJob, Jobs
  <1>4. Again.at = "idle" /\ Approval.at = "idle"
    BY <1>2 DEF Again, Approval, Jobs, NoJob
  <1>5. Versions
    BY <1>2 DEF Init, Versions, NoJob
  <1>6. Integrated
    BY <1>3 DEF Integrated
  <1>7. Alone /\ Tips /\ Linked /\ AtHome
    BY <1>2, <1>3, <1>4 DEF Init, Alone, Tips, Linked, AtHome, NoJob
  <1>8. Delivered
    BY <1>3, <1>4 DEF Init, Delivered
  <1> QED BY <1>1, <1>5, <1>6, <1>7, <1>8 DEF Inv, Settled

\* The jobs, by name.
LEMMA ByName ==
    ASSUME Typed
    PROVE  /\ job["approval"] \in Job /\ job["again"] \in Job
           /\ "approval" \in Jobs /\ "again" \in Jobs
           /\ UnderWay <=> Approval.at # "idle" \/ Again.at # "idle"
           /\ Approving <=> Approval.at \in {"next", "push", "request"}
  BY JobTyped DEF Typed, Jobs, UnderWay, Approving, Job, Approval, Again

\* A person's or the harness's own steps: the jobs are as they were.
LEMMA RoundKeepsInv == ASSUME Inv, Typed', Round PROVE Inv'
  <1> USE DEF Approval, Again
  <1>1. Typed /\ Versions /\ Integrated /\ Settled
    BY DEF Inv
  <1>2. /\ row.state = "running" /\ ~Approving /\ job' = job /\ row' = row
        /\ UNCHANGED <<kind, result, remote, link, approved, behind, kept, raced>>
    BY DEF Round, history
  <1>3. Versions'
    <2>1. /\ \A r \in Repos : work[r] \in Nat /\ tip[r] \in Nat
                             /\ approved[r] \in Nat
          /\ \A r \in Repos : tip[r] <= work[r] /\ approved[r] <= work[r]
      BY <1>1 DEF Versions, Typed, TypeOK
    <2>2. PICK touched, committed \in SUBSET Repos :
            /\ committed \subseteq touched
            /\ work' = [r \in Repos |-> IF r \in touched THEN work[r] + 1
                                                         ELSE work[r]]
            /\ tip' = [r \in Repos |->
                          IF r \in committed /\ kind[r] # "cloned"
                          THEN work[r] + 1 ELSE tip[r]]
      BY DEF Round
    <2>3. \A r \in Repos : tip'[r] <= work'[r] /\ approved'[r] <= work'[r]
      BY <1>2, <2>1, <2>2
    <2> QED BY <1>1, <1>2, <2>3 DEF Versions
  <1>4. Integrated'
    BY <1>1, <1>2 DEF Integrated, Approving, Undelivered
  <1>5. ASSUME ~raced PROVE ~UnderWay
    BY <1>1, <1>2, <1>5, ByName DEF Settled, Alone, AtRest, Approving
  <1>6. Settled'
    <2> SUFFICES ASSUME ~raced
                 PROVE  (Alone /\ Tips /\ Linked /\ AtHome /\ Delivered)'
      BY <1>2 DEF Settled
    <2>1. ~UnderWay /\ ~UnderWay' /\ ~AtRest' /\ ~Approving'
          /\ Alone /\ Tips /\ Linked /\ AtHome /\ Delivered
      BY <1>1, <1>2, <1>5 DEF Settled, UnderWay, AtRest, Approving
    <2>2. \A j \in Jobs : job'[j].at = "idle"
      BY <1>2, <2>1 DEF UnderWay
    <2>3. Alone' /\ Tips'
      BY <2>1, <2>2 DEF Alone, Tips, Jobs
    <2>4. Linked' /\ AtHome'
      BY <1>2, <2>1 DEF Linked, AtHome, Pending
    <2>5. Delivered'
      BY <1>2, <2>1, <2>2 DEF Delivered, Undelivered, Jobs
    <2> QED BY <2>3, <2>4, <2>5
  <1> QED BY <1>3, <1>4, <1>6 DEF Inv

LEMMA OpenGateKeepsInv == ASSUME Inv, Typed', OpenGate PROVE Inv'
  <1> USE DEF Approval, Again
  <1>1. Typed /\ Versions /\ Integrated /\ Settled
    BY DEF Inv
  <1>2. /\ row.state = "running" /\ ~Approving /\ job' = job
        /\ row'.state = "review"
        /\ UNCHANGED <<kind, work, tip, result, remote, link, approved, behind,
                       kept, raced>>
    BY DEF OpenGate, Set, repository, history
  <1>3. Versions'
    BY <1>1, <1>2 DEF Versions
  <1>4. Integrated'
    BY <1>1, <1>2 DEF Integrated, Approving, Undelivered
  <1>5. Settled'
    <2> SUFFICES ASSUME ~raced
                 PROVE  (Alone /\ Tips /\ Linked /\ AtHome /\ Delivered)'
      BY <1>2 DEF Settled
    <2>1. Alone /\ Tips /\ Linked /\ AtHome /\ Delivered
      BY <1>1 DEF Settled
    <2>2. ~UnderWay
      BY <1>1, <1>2, <2>1, ByName DEF Alone, AtRest, Approving
    <2>3. ~UnderWay' /\ ~AtRest' /\ ~Approving'
          /\ \A j \in Jobs : job'[j].at = "idle"
      BY <1>2, <2>2 DEF UnderWay, AtRest, Approving
    <2>4. Alone' /\ Tips'
      BY <2>3 DEF Alone, Tips, Jobs
    <2>5. Linked' /\ AtHome'
      BY <1>2, <2>1, <2>3 DEF Linked, AtHome, Pending
    <2>6. Delivered'
      BY <1>2, <2>3 DEF Delivered, Undelivered, Jobs
    <2> QED BY <2>4, <2>5, <2>6
  <1> QED BY <1>3, <1>4, <1>5 DEF Inv

LEMMA RetryKeepsInv == ASSUME Inv, Typed', Retry PROVE Inv'
  <1> USE DEF Approval, Again
  <1>1. Typed /\ Versions /\ Integrated /\ Settled
    BY DEF Inv
  <1>2. /\ job' = job /\ row'.state = "running" /\ raced' = (raced \/ UnderWay)
        /\ UNCHANGED <<kind, work, tip, result, remote, link, approved, behind,
                       kept>>
    BY DEF Retry, Set, repository
  <1>3. Versions'
    BY <1>1, <1>2 DEF Versions
  <1>4. Integrated'
    BY <1>1, <1>2 DEF Integrated, Approving, Undelivered
  <1>5. Settled'
    <2> SUFFICES ASSUME ~raced, ~UnderWay
                 PROVE  (Alone /\ Tips /\ Linked /\ AtHome /\ Delivered)'
      BY <1>2 DEF Settled
    <2>1. Alone /\ Tips /\ Linked /\ AtHome /\ Delivered
      BY <1>1 DEF Settled
    <2>2. ~Approving
      BY <1>1, ByName
    <2>3. ~UnderWay' /\ ~AtRest' /\ ~Approving'
          /\ \A j \in Jobs : job'[j].at = "idle"
      BY <1>2, <2>2 DEF UnderWay, AtRest, Approving
    <2>4. Alone' /\ Tips'
      BY <2>3 DEF Alone, Tips, Jobs
    <2>5. Linked' /\ AtHome'
      BY <1>2, <2>1, <2>2, <2>3 DEF Linked, AtHome, Pending
    <2>6. Delivered'
      BY <1>2, <2>3 DEF Delivered, Undelivered, Jobs
    <2> QED BY <2>4, <2>5, <2>6
  <1> QED BY <1>3, <1>4, <1>5 DEF Inv

LEMMA ShipAgainKeepsInv == ASSUME Inv, Typed', ShipAgain \/ UNCHANGED vars PROVE Inv'
  <1>1. UNCHANGED <<kind, row, work, tip, result, remote, link, job, approved,
                    behind, kept, raced>>
    BY DEF ShipAgain, vars, repository, history
  <1>2. Versions' /\ Integrated'
    BY <1>1 DEF Inv, Versions, Integrated, Approving, Approval, Undelivered
  <1>3. /\ UnderWay' <=> UnderWay
        /\ Approving' <=> Approving
        /\ AtRest' <=> AtRest
        /\ Undelivered' <=> Undelivered
        /\ Approval' = Approval /\ Again' = Again /\ Pending' = Pending
        /\ Shipped' = Shipped
    BY <1>1 DEF UnderWay, Approving, AtRest, Undelivered, Approval, Again,
                Pending, Shipped
  <1>4. Settled'
    BY <1>1, <1>3 DEF Inv, Settled, Alone, Tips, Linked, AtHome, Delivered,
                      ShippedBut
  <1> QED BY <1>2, <1>4 DEF Inv

\* What a person kept local is at rest.
LEMMA KeepLocalKeepsInv == ASSUME Inv, Typed', KeepLocal PROVE Inv'
  <1> USE DEF Approval, Again
  <1>1. Typed /\ Versions /\ Integrated /\ Settled
    BY DEF Inv
  <1>2. /\ Undelivered /\ row'.state = "done" /\ kept' /\ job' = job
        /\ UNCHANGED <<kind, work, tip, result, remote, link, approved, behind,
                       raced>>
    BY DEF KeepLocal, Set, repository
  <1>3. Versions'
    BY <1>1, <1>2 DEF Versions
  <1>4. Integrated'
    BY <1>1, <1>2 DEF Integrated, Approving, Undelivered
  <1>5. Settled'
    <2> SUFFICES ASSUME ~raced
                 PROVE  (Alone /\ Tips /\ Linked /\ AtHome /\ Delivered)'
      BY <1>2 DEF Settled
    <2>1. Alone /\ Tips /\ Linked /\ AtHome /\ Delivered
      BY <1>1 DEF Settled
    <2>2. AtRest /\ AtRest' /\ ~Undelivered' /\ (Approving' <=> Approving)
          /\ (UnderWay' <=> UnderWay) /\ Pending' = Pending /\ Shipped' = Shipped
      BY <1>2 DEF AtRest, Undelivered, Approving, UnderWay, Pending, Shipped
    <2>3. Alone' /\ Tips'
      BY <1>2, <2>1, <2>2 DEF Alone, Tips
    <2>4. Linked' /\ AtHome'
      BY <1>2, <2>1, <2>2 DEF Linked, AtHome
    <2>5. Delivered'
      BY <1>2, <2>1, <2>2 DEF Delivered, ShippedBut
    <2> QED BY <2>3, <2>4, <2>5
  <1> QED BY <1>3, <1>4, <1>5 DEF Inv

-----------------------------------------------------------------------------
(* The steps of an approval.                                               *)

LEMMA ApproveKeepsInv == ASSUME Inv, Typed', Approve PROVE Inv'
  <1> USE DEF Approval, Again
  <1>1. Typed /\ Versions /\ Integrated /\ Settled
    BY DEF Inv
  <1>2. /\ row.state = "review" /\ row'.state = "running"
        /\ Approval.at = "idle"
        /\ approved' = work /\ behind' = {} /\ ~kept'
        /\ UNCHANGED <<kind, work, tip, result, remote, link, raced>>
    BY DEF Approve, Set, repository
  <1>3. /\ Approval' = StartApproval /\ Again' = Again
        /\ \A j \in Jobs : job'[j].at = "request" => job'[j] = job[j]
    <2>1. job' = [job EXCEPT !["approval"] = StartApproval]
      BY DEF Approve
    <2> QED BY <1>1, <2>1, FreshJobs, Replaced DEF Jobs, Typed, StartApproval, NoJob
  <1>4. Approval'.at = "next" /\ Approval'.todo = Repos
    BY <1>3 DEF StartApproval, NoJob
  <1>5. Approving' /\ Pending' = Repos /\ ~AtRest' /\ ~Undelivered'
    BY <1>2, <1>4 DEF Approving, Pending, AtRest, Undelivered
  <1>6. \A r \in Repos : approved[r] <= work[r] /\ work[r] \in Nat
                         /\ approved[r] \in Nat /\ remote[r] \in Nat
    BY <1>1 DEF Versions, Typed, TypeOK
  <1>7. Versions'
    BY <1>1, <1>2, <1>3, <1>6 DEF Versions
  <1>8. Integrated'
    BY <1>2, <1>4, <1>5 DEF Integrated
  <1>9. Settled'
    <2> SUFFICES ASSUME ~raced
                 PROVE  (Alone /\ Tips /\ Linked /\ AtHome /\ Delivered)'
      BY <1>2 DEF Settled
    <2>1. Alone /\ Tips /\ Linked /\ AtHome /\ Delivered
      BY <1>1 DEF Settled
    <2>2. Again.at = "idle" /\ Again'.at = "idle"
      BY <1>2, <1>3, <2>1 DEF Alone, AtRest
    <2>3. \A j \in Jobs : job'[j].at # "request"
      BY <1>4, <2>2 DEF Jobs
    <2>4. Alone'
      BY <1>2, <1>4, <2>2 DEF Alone
    <2>5. Tips'
      BY <1>4, <1>5, <2>3 DEF Tips
    <2>6. Linked'
      BY <1>1, <1>2, <1>5 DEF Linked, Typed, TypeOK
    <2>7. AtHome'
      BY <1>2, <1>6, <2>1 DEF AtHome
    <2>8. Delivered'
      BY <1>4, <1>5, <2>2 DEF Delivered, ShippedBut, Shipped
    <2> QED BY <2>4, <2>5, <2>6, <2>7, <2>8
  <1> QED BY <1>7, <1>8, <1>9 DEF Inv

LEMMA IntegrateKeepsInv ==
    ASSUME Inv, Typed', NEW r \in Repos, Integrate(r)
    PROVE  Inv'
  <1> USE DEF Approval, Again
  <1>1. Typed /\ Versions /\ Integrated /\ Settled
    BY DEF Inv
  <1>2. /\ Approval.at = "next" /\ r \in Approval.todo
        /\ UNCHANGED <<kind, row, work, remote, link, asked, approved, kept,
                       raced, redone>>
        /\ Again' = Again
        /\ Approval'.undelivered = Approval.undelivered
        /\ \/ /\ tip' = [tip EXCEPT ![r] = work[r]]
              /\ result' = result \union {r}
              /\ behind' = behind \ {r}
              /\ Approval'.at = "push" /\ Approval'.repo = r
              /\ Approval'.todo = Approval.todo
              /\ Approval'.failed = Approval.failed
           \/ /\ UNCHANGED <<tip, result>>
              /\ behind' = behind \union {r}
              /\ Approval'.at = "next"
              /\ Approval'.todo = Approval.todo \ {r}
              /\ Approval'.failed = Approval.failed \union {r}
    BY <1>1, IntegrateDoes
  <1>3. /\ Approving /\ Approving' /\ UnderWay
        /\ Approval'.at \in {"next", "push"}
        /\ Undelivered' <=> Undelivered
        /\ AtRest' <=> AtRest
        /\ Shipped' = Shipped
    BY <1>1, <1>2, ByName DEF Approving, Undelivered, AtRest, Shipped
  <1>4. /\ tip \in [Repos -> Nat] /\ work \in [Repos -> Nat]
        /\ result \subseteq Repos /\ result' \subseteq Repos
        /\ link \subseteq Repos /\ Approval.todo \subseteq Repos
    BY <1>1, JobTyped DEF Typed, TypeOK, Jobs
  <1>5. Versions'
    <2>1. \A q \in Repos : tip'[q] <= work'[q] /\ approved'[q] <= work'[q]
      BY <1>1, <1>2, <1>4 DEF Versions
    <2>2. \A j \in Jobs : job'[j].at = "request" => job'[j] = job[j]
      BY <1>2, <1>3 DEF Jobs
    <2> QED BY <1>1, <1>2, <2>1, <2>2 DEF Versions
  <1>6. Integrated'
    BY <1>1, <1>2, <1>3, <1>4 DEF Integrated
  <1>7. Settled'
    <2> SUFFICES ASSUME ~raced
                 PROVE  (Alone /\ Tips /\ Linked /\ AtHome /\ Delivered)'
      BY <1>2 DEF Settled
    <2>1. Alone /\ Tips /\ Linked /\ AtHome /\ Delivered
      BY <1>1 DEF Settled
    <2>2. Again.at = "idle" /\ Again'.at = "idle" /\ work = approved
      BY <1>2, <1>3, <2>1 DEF Alone
    <2>3. \A j \in Jobs : job'[j].at # "request"
      BY <1>3, <2>2 DEF Jobs
    <2>4. Alone'
      BY <1>2, <1>3, <2>2 DEF Alone
    <2>5. /\ Pending = Approval.todo /\ Pending' = Approval'.todo
          /\ Approval'.failed \union Approval'.todo
               = Approval.failed \union Approval.todo
          /\ behind' \union Pending' = behind \union Pending
      BY <1>2, <1>3 DEF Pending
    <2>6. Tips'
      <3>1. \A q \in Repos \ (behind \union Pending) : tip[q] = work[q]
        BY <1>3, <2>1 DEF Tips
      <3>2. \A q \in Repos \ (behind \union Pending) : q # r /\ tip'[q] = work'[q]
        BY <1>2, <1>4, <2>5, <3>1
      <3>3. Approval'.at \in {"push", "request"}
              => tip'[Approval'.repo] = work'[Approval'.repo]
        BY <1>2, <1>4
      <3> QED BY <2>3, <2>5, <3>2, <3>3 DEF Tips
    <2>7. Linked' /\ AtHome'
      BY <1>2, <2>1, <2>5 DEF Linked, AtHome
    <2>8. Delivered'
      BY <1>2, <1>3, <2>1, <2>2, <2>5 DEF Delivered, ShippedBut
    <2> QED BY <2>4, <2>6, <2>7, <2>8
  <1> QED BY <1>5, <1>6, <1>7 DEF Inv

LEMMA SettleApprovalKeepsInv == ASSUME Inv, Typed', SettleApproval PROVE Inv'
  <1> USE DEF Approval, Again
  <1>1. Typed /\ Versions /\ Integrated /\ Settled
    BY DEF Inv
  <1>2. /\ Approval.at = "next" /\ Approval.todo = {}
        /\ UNCHANGED <<kind, work, tip, result, remote, link, approved, behind,
                       kept, raced>>
    BY DEF SettleApproval, repository, history
  <1>3. /\ Approval'.at = "settled" /\ Again' = Again
        /\ \A j \in Jobs : job'[j].at = "request" => job'[j] = job[j]
    <2>1. job' = [job EXCEPT !["approval"] = [NoJob EXCEPT !.at = "settled"]]
      BY DEF SettleApproval
    <2>2. [NoJob EXCEPT !.at = "settled"] \in Job
      BY DEF NoJob, Job
    <2> QED BY <1>1, <2>1, <2>2, Replaced DEF Jobs, Typed, NoJob
  <1>4. /\ AtRest'
        /\ Undelivered' => Approval.failed = {}
        /\ row'.state = "done"
             => Approval.failed = {} /\ Approval.undelivered = {}
    BY DEF SettleApproval, Outcome, Set, AtRest, Undelivered
  <1>5. Approving /\ ~Approving' /\ UnderWay /\ Pending = {} /\ Pending' = {}
        /\ Shipped' = Shipped
    BY <1>1, <1>2, <1>3, ByName DEF Approving, Pending, Shipped
  <1>6. /\ behind \subseteq Approval.failed
        /\ Repos \ Approval.failed \subseteq result /\ result \subseteq Repos
    BY <1>1, <1>2, <1>5 DEF Integrated, Typed, TypeOK
  <1>7. Versions'
    BY <1>1, <1>2, <1>3 DEF Versions
  <1>8. Integrated'
    BY <1>2, <1>4, <1>5, <1>6 DEF Integrated
  <1>9. Settled'
    <2> SUFFICES ASSUME ~raced
                 PROVE  (Alone /\ Tips /\ Linked /\ AtHome /\ Delivered)'
      BY <1>2 DEF Settled
    <2>1. Alone /\ Tips /\ Linked /\ AtHome /\ Delivered
      BY <1>1 DEF Settled
    <2>2. Again'.at = "idle"
      BY <1>2, <1>3, <2>1 DEF Alone
    <2>3. \A j \in Jobs : job'[j].at # "request"
      BY <1>3, <2>2 DEF Jobs
    <2>4. Alone'
      BY <1>2, <1>4, <1>5, <2>1, <2>2 DEF Alone
    <2>5. Tips'
      BY <1>2, <1>3, <1>5, <2>1, <2>3 DEF Tips
    <2>6. Linked' /\ AtHome'
      BY <1>2, <1>5, <2>1 DEF Linked, AtHome
    <2>7. row'.state = "done" => ShippedBut({})'
      BY <1>2, <1>4, <1>5, <2>1 DEF Delivered, ShippedBut
    <2>8. Undelivered' => behind' = {}
      BY <1>2, <1>4, <1>6
    <2> QED BY <1>5, <2>2, <2>4, <2>5, <2>6, <2>7, <2>8 DEF Delivered
  <1> QED BY <1>7, <1>8, <1>9 DEF Inv

LEMMA AcknowledgeKeepsInv == ASSUME Inv, Typed', Acknowledge PROVE Inv'
  <1> USE DEF Approval, Again
  <1>1. Typed /\ Versions /\ Integrated /\ Settled
    BY DEF Inv
  <1>2. /\ Approval.at = "settled"
        /\ UNCHANGED <<kind, row, work, tip, result, remote, link, approved,
                       behind, kept, raced>>
    BY DEF Acknowledge, repository, history
  <1>3. /\ Approval'.at = "idle" /\ Again' = Again
        /\ \A j \in Jobs : job'[j].at = "request" => job'[j] = job[j]
    BY <1>1, FreshJobs, Replaced DEF Acknowledge, Jobs, Typed, NoJob
  <1>4. /\ ~Approving /\ ~Approving' /\ UnderWay
        /\ Pending' = Pending /\ Shipped' = Shipped
        /\ AtRest' <=> AtRest
        /\ Undelivered' <=> Undelivered
    BY <1>1, <1>2, <1>3, ByName
       DEF Approving, Pending, AtRest, Undelivered, Shipped
  <1>5. Versions'
    BY <1>1, <1>2, <1>3 DEF Versions
  <1>6. Integrated'
    BY <1>1, <1>2, <1>4 DEF Integrated
  <1>7. Settled'
    <2> SUFFICES ASSUME ~raced
                 PROVE  (Alone /\ Tips /\ Linked /\ AtHome /\ Delivered)'
      BY <1>2 DEF Settled
    <2>1. Alone /\ Tips /\ Linked /\ AtHome /\ Delivered
      BY <1>1 DEF Settled
    <2>2. Again'.at = "idle"
      BY <1>2, <1>3, <2>1 DEF Alone
    <2>3. \A j \in Jobs : job'[j].at # "request"
      BY <1>3, <2>2 DEF Jobs
    <2>4. Alone'
      BY <1>2, <1>3, <1>4, <2>1, <2>2 DEF Alone
    <2>5. Tips'
      BY <1>2, <1>3, <1>4, <2>1, <2>3 DEF Tips
    <2>6. Linked' /\ AtHome'
      BY <1>2, <1>4, <2>1 DEF Linked, AtHome
    <2>7. Delivered'
      BY <1>2, <1>4, <2>1, <2>2 DEF Delivered, ShippedBut
    <2> QED BY <2>4, <2>5, <2>6, <2>7
  <1> QED BY <1>5, <1>6, <1>7 DEF Inv

-----------------------------------------------------------------------------
(* The steps of a shipping, of either job.                                 *)

\* A shipping under way, while nothing raced, is the only one; its branch holds
\* what was approved, and nothing but an approval leaves a branch to do.
LEMMA TheShipping ==
    ASSUME Inv, ~raced, NEW j \in Jobs, job[j].at \in {"push", "request"}
    PROVE  /\ \A i \in Jobs : i # j => job[i].at = "idle"
           /\ j = "approval" => Approving
           /\ j = "again" => ~Approving /\ behind = {} /\ AtRest
           /\ Pending = IF j = "approval" THEN job[j].todo ELSE {}
           /\ tip[job[j].repo] = approved[job[j].repo]
           /\ work = approved
  <1> USE DEF Approval, Again
  <1>1. Typed /\ Alone /\ Tips /\ Delivered
    BY DEF Inv, Settled
  <1>2. job[j].repo \in Repos
    BY <1>1, RepoAtHand
  <1>3. UnderWay /\ work = approved
    BY <1>1 DEF UnderWay, Alone
  <1>4. CASE j = "approval"
    <2>1. Approving /\ Again.at = "idle"
      BY <1>1, <1>4 DEF Alone, Approving
    <2>2. tip[job[j].repo] = work[job[j].repo]
      BY <1>1, <1>4 DEF Tips
    <2> QED BY <1>3, <1>4, <2>1, <2>2 DEF Jobs, Pending
  <1>5. CASE j = "again"
    <2>1. Approval.at = "idle" /\ ~Approving /\ behind = {} /\ Pending = {}
          /\ AtRest
      BY <1>1, <1>5 DEF Alone, Approving, Delivered, Pending
    <2>2. tip[job[j].repo] = work[job[j].repo]
      BY <1>1, <1>2, <1>3, <2>1 DEF Tips
    <2> QED BY <1>3, <1>5, <2>1, <2>2 DEF Jobs
  <1> QED BY <1>4, <1>5 DEF Jobs

LEMMA PushKeepsInv == ASSUME Inv, Typed', NEW j \in Jobs, Push(j) PROVE Inv'
  <1> USE DEF Approval, Again
  <1> DEFINE r == job[j].repo
             todo == job[j].todo
             out == job[j].todo \union job[j].undelivered
  <1>1. Typed /\ Versions /\ Integrated /\ Settled
    BY DEF Inv
  <1>2. /\ job[j].at = "push" /\ r \in Repos /\ r \in todo
        /\ UNCHANGED <<kind, row, work, tip, result, asked, approved, behind,
                       kept, raced, redone>>
        /\ \A i \in Jobs : i # j => job'[i] = job[i]
        /\ job'[j].failed = job[j].failed
    BY <1>1, PushDoes
  <1>3. \/ /\ kind[r] = "local" /\ job'[j].at = "next"
           /\ job'[j].todo = todo \ {r}
           /\ job'[j].undelivered = job[j].undelivered
           /\ UNCHANGED <<remote, link>>
        \/ /\ job'[j].at = "next"
           /\ job'[j].todo = todo \ {r}
           /\ job'[j].undelivered = job[j].undelivered \union {r}
           /\ link' = link \ {r} /\ UNCHANGED remote
        \/ /\ kind[r] \in {"cloned", "worktree"}
           /\ job'[j].at = "request" /\ job'[j].repo = r
           /\ job'[j].todo = todo
           /\ job'[j].undelivered = job[j].undelivered
           /\ remote' = [remote EXCEPT ![r] = tip[r]]
           /\ UNCHANGED link
    BY <1>1, PushDoes
  <1> DEFINE out1 == job'[j].todo \union job'[j].undelivered
  <1>4. /\ "approval" \in Jobs /\ "again" \in Jobs /\ "again" # "approval"
        /\ \A i \in Jobs : i = "approval" \/ i = "again"
        /\ remote \in [Repos -> Nat] /\ tip \in [Repos -> Nat]
        /\ link \subseteq Repos /\ todo \subseteq Repos
    BY <1>1, JobTyped DEF Jobs, Typed, TypeOK
  <1>5. /\ UnderWay
        /\ Approving' <=> Approving
        /\ AtRest' <=> AtRest
        /\ Undelivered' <=> Undelivered
        /\ Shipped' = Shipped
    BY <1>2, <1>3, <1>4 DEF UnderWay, Approving, AtRest, Undelivered, Shipped
  <1>6. Versions'
    <2>1. \A q \in link' : q \in link
      BY <1>3
    <2>2. \A i \in Jobs : job'[i].at = "request"
                           => kind[job'[i].repo] \in {"cloned", "worktree"}
      <3>1. ASSUME NEW i \in Jobs, job'[i].at = "request", i # j
            PROVE  kind[job'[i].repo] \in {"cloned", "worktree"}
        BY <1>1, <1>2, <3>1 DEF Versions
      <3>2. job'[j].at = "request" => kind[job'[j].repo] \in {"cloned", "worktree"}
        BY <1>3
      <3> QED BY <3>1, <3>2
    <2> QED BY <1>1, <1>2, <2>1, <2>2 DEF Versions
  <1>7. Integrated'
    <2>1. CASE j = "approval"
      <3>1. /\ Approving /\ r \in result \ behind
            /\ behind \subseteq Approval.failed \union todo
            /\ Repos \ (Approval.failed \union todo) \subseteq result
        BY <1>1, <1>2, <2>1 DEF Integrated, Approving
      <3>2. Approval'.failed = Approval.failed
            /\ Approval'.todo \in {todo, todo \ {r}}
            /\ (Approval'.at \in {"push", "request"} => Approval'.repo = r)
        BY <1>2, <1>3, <2>1
      <3> QED BY <1>1, <1>2, <1>5, <3>1, <3>2 DEF Integrated
    <2>2. CASE j = "again"
      BY <1>1, <1>2, <1>4, <1>5, <2>2 DEF Integrated
    <2> QED BY <1>4, <2>1, <2>2
  <1>8. Settled'
    <2> SUFFICES ASSUME ~raced
                 PROVE  (Alone /\ Tips /\ Linked /\ AtHome /\ Delivered)'
      BY <1>2 DEF Settled
    <2>1. Alone /\ Tips /\ Linked /\ AtHome /\ Delivered
      BY <1>1 DEF Settled
    <2>2. /\ \A i \in Jobs : i # j => job[i].at = "idle"
          /\ j = "approval" => Approving
          /\ j = "again" => ~Approving /\ behind = {} /\ AtRest
          /\ Pending = IF j = "approval" THEN todo ELSE {}
          /\ tip[r] = approved[r]
          /\ work = approved
      BY <1>2, TheShipping
    <2>3. /\ \A q \in Repos : q # r => remote'[q] = remote[q]
          /\ remote'[r] \in {remote[r], approved[r]}
          /\ \A q \in link' : q \in link
          /\ \A q \in link : q # r => q \in link'
      BY <1>2, <1>3, <1>4, <2>2
    <2>4. Alone'
      BY <1>2, <1>3, <1>4, <1>5, <2>1, <2>2 DEF Alone
    <2>5. Pending' = IF j = "approval" THEN job'[j].todo ELSE {}
      BY <1>4, <1>5, <2>2 DEF Pending
    <2>6. \A q \in Repos : q # r /\ q \notin Pending' => q \notin Pending
      BY <1>3, <2>2, <2>5
    <2>7. Tips'
      <3>1. \A q \in Repos \ (behind \union Pending') : tip[q] = work[q]
        BY <1>5, <2>1, <2>2, <2>6 DEF Tips
      <3>2. Approval'.at \in {"push", "request"}
              => tip[Approval'.repo] = work[Approval'.repo]
        BY <1>2, <1>3, <1>4, <2>2
      <3>3. \A i \in Jobs : job'[i].at = "request"
                             => i = j /\ job'[i].repo = r /\ remote'[r] = tip[r]
        BY <1>2, <1>3, <1>4, <2>2
      <3> QED BY <1>2, <3>1, <3>2, <3>3 DEF Tips
    <2>8. Linked'
      <3> SUFFICES ASSUME NEW q \in link', q \notin behind, q \notin Pending'
                   PROVE  remote'[q] = approved[q]
        BY <1>2 DEF Linked
      <3>0. q \in link /\ q \in Repos
        BY <1>4, <2>3
      <3>1. CASE q # r
        BY <2>1, <2>3, <2>6, <3>0, <3>1 DEF Linked
      <3>2. CASE q = r
        <4>1. kind[r] # "local" /\ r \in link'
          BY <1>1, <3>0, <3>2 DEF Versions
        <4> QED BY <1>2, <1>3, <1>4, <2>2, <3>2, <4>1
      <3> QED BY <3>1, <3>2
    <2>9. AtHome'
      <3>1. \A q \in Repos : remote'[q] = remote[q] \/ remote'[q] = approved[q]
        BY <2>3
      <3>2. \A q \in Repos : approved[q] \in Nat
        BY <1>1 DEF Typed, TypeOK
      <3> QED BY <1>2, <2>1, <3>1, <3>2 DEF AtHome
    <2>10. \A q \in Shipped : q \notin out1
             => q # r /\ q \notin out
      BY <1>2, <1>3, <1>4 DEF Shipped
    <2>11. \A q \in Shipped : q # r /\ remote[q] = approved[q] /\ q \in link
             => remote'[q] = approved'[q] /\ q \in link'
      BY <1>2, <2>3 DEF Shipped
    <2>12. Delivered'
      <3>1. CASE j = "approval"
        <4>1. Approving /\ Again'.at = "idle" /\ Again.at = "idle"
          BY <1>2, <1>4, <2>2, <3>1
        <4>2. ShippedBut(Approval.failed \union Approval.todo
                           \union Approval.undelivered)
          BY <2>1, <4>1 DEF Delivered
        <4>3. ShippedBut(Approval.failed \union Approval.todo
                           \union Approval.undelivered)'
          BY <1>2, <1>5, <2>10, <2>11, <3>1, <4>2 DEF ShippedBut
        <4> QED BY <1>5, <4>1, <4>3 DEF Delivered
      <3>2. CASE j = "again"
        <4>1. ~Approving /\ Again.at # "idle" /\ Again'.at # "idle"
          BY <1>2, <1>3, <2>2, <3>2
        <4>2. ShippedBut(Again.todo \union Again.undelivered)
          BY <2>1, <4>1 DEF Delivered
        <4>3. ShippedBut(Again.todo \union Again.undelivered)'
          BY <1>2, <1>5, <2>10, <2>11, <3>2, <4>2 DEF ShippedBut
        <4> QED BY <1>2, <1>5, <2>1, <4>1, <4>3 DEF Delivered
      <3> QED BY <1>4, <3>1, <3>2
    <2> QED BY <2>4, <2>7, <2>8, <2>9, <2>12
  <1> QED BY <1>6, <1>7, <1>8 DEF Inv

LEMMA OpenRequestKeepsInv ==
    ASSUME Inv, Typed', NEW j \in Jobs, OpenRequest(j)
    PROVE  Inv'
  <1> USE DEF Approval, Again
  <1> DEFINE r == job[j].repo
             todo == job[j].todo
             out == job[j].todo \union job[j].undelivered
             out1 == job'[j].todo \union job'[j].undelivered
  <1>1. Typed /\ Versions /\ Integrated /\ Settled
    BY DEF Inv
  <1>2. /\ job[j].at = "request" /\ r \in Repos /\ r \in todo
        /\ UNCHANGED <<kind, row, work, tip, result, remote, asked, approved,
                       behind, kept, raced, redone>>
        /\ \A i \in Jobs : i # j => job'[i] = job[i]
        /\ job'[j].at = "next"
        /\ job'[j].todo = todo \ {r}
        /\ job'[j].failed = job[j].failed
    BY <1>1, OpenRequestDoes
  <1>3. \/ /\ job'[j].undelivered = job[j].undelivered
           /\ link' = link \union {r}
        \/ /\ job'[j].undelivered = job[j].undelivered \union {r}
           /\ link' = link \ {r}
    BY <1>1, OpenRequestDoes
  <1>4. /\ "approval" \in Jobs /\ "again" \in Jobs /\ "again" # "approval"
        /\ \A i \in Jobs : i = "approval" \/ i = "again"
        /\ link \subseteq Repos /\ todo \subseteq Repos
    BY <1>1, JobTyped DEF Jobs, Typed, TypeOK
  <1>5. /\ UnderWay
        /\ Approving' <=> Approving
        /\ AtRest' <=> AtRest
        /\ Undelivered' <=> Undelivered
        /\ Shipped' = Shipped
    BY <1>2, <1>4 DEF UnderWay, Approving, AtRest, Undelivered, Shipped
  <1>6. Versions'
    <2>1. \A q \in link' : q \in link \/ q = r
      BY <1>3
    <2>2. kind[r] \in {"cloned", "worktree"}
      BY <1>1, <1>2 DEF Versions
    <2>3. \A i \in Jobs : job'[i].at = "request" => job'[i] = job[i]
      BY <1>2
    <2> QED BY <1>1, <1>2, <2>1, <2>2, <2>3 DEF Versions
  <1>7. Integrated'
    <2>1. CASE j = "approval"
      <3>1. /\ Approving /\ r \in result \ behind
            /\ behind \subseteq Approval.failed \union todo
            /\ Repos \ (Approval.failed \union todo) \subseteq result
        BY <1>1, <1>2, <2>1 DEF Integrated, Approving
      <3> QED BY <1>1, <1>2, <1>5, <2>1, <3>1 DEF Integrated
    <2>2. CASE j = "again"
      BY <1>1, <1>2, <1>4, <1>5, <2>2 DEF Integrated
    <2> QED BY <1>4, <2>1, <2>2
  <1>8. Settled'
    <2> SUFFICES ASSUME ~raced
                 PROVE  (Alone /\ Tips /\ Linked /\ AtHome /\ Delivered)'
      BY <1>2 DEF Settled
    <2>1. Alone /\ Tips /\ Linked /\ AtHome /\ Delivered
      BY <1>1 DEF Settled
    <2>2. /\ \A i \in Jobs : i # j => job[i].at = "idle"
          /\ j = "approval" => Approving
          /\ j = "again" => ~Approving /\ behind = {} /\ AtRest
          /\ Pending = IF j = "approval" THEN todo ELSE {}
          /\ tip[r] = approved[r]
          /\ work = approved
      BY <1>2, TheShipping
    <2>3. remote[r] = approved[r]
      BY <1>2, <2>1, <2>2 DEF Tips
    <2>4. /\ \A q \in link' : q \in link \/ q = r
          /\ \A q \in link : q # r => q \in link'
      BY <1>3
    <2>5. Alone'
      BY <1>2, <1>4, <1>5, <2>1, <2>2 DEF Alone
    <2>6. Pending' = Pending \ {r}
      BY <1>2, <1>4, <1>5, <2>2 DEF Pending
    <2>7. Tips'
      <3>1. \A q \in Repos \ (behind \union Pending') : tip[q] = work[q]
        BY <1>5, <2>1, <2>2, <2>6 DEF Tips
      <3>2. \A i \in Jobs : job'[i].at \notin {"push", "request"}
        BY <1>2, <1>4, <2>2
      <3> QED BY <1>2, <1>4, <3>1, <3>2 DEF Tips
    <2>8. Linked' /\ AtHome'
      BY <1>2, <2>1, <2>3, <2>4, <2>6 DEF Linked, AtHome
    <2>9. \A q \in Shipped : q \notin out1
            => q \notin out \/ (q = r /\ r \in link')
      BY <1>2, <1>3
    <2>10. \A q \in Shipped \ out1 :
             (q \notin out => remote[q] = approved[q] /\ q \in link)
               => remote'[q] = approved'[q] /\ q \in link'
      <3> SUFFICES ASSUME NEW q \in Shipped, q \notin out1,
                          q \notin out => remote[q] = approved[q] /\ q \in link
                   PROVE  remote'[q] = approved'[q] /\ q \in link'
        OBVIOUS
      <3>1. CASE q = r
        BY <1>2, <1>3, <2>3, <3>1
      <3>2. CASE q # r
        BY <1>2, <2>4, <2>9, <3>2
      <3> QED BY <3>1, <3>2
    <2>11. Delivered'
      <3>1. CASE j = "approval"
        <4>1. Approving /\ Again'.at = "idle" /\ Again.at = "idle"
          BY <1>2, <1>4, <2>2, <3>1
        <4>2. ShippedBut(Approval.failed \union Approval.todo
                           \union Approval.undelivered)
          BY <2>1, <4>1 DEF Delivered
        <4>3. \A q \in Shipped \ out1 : q \notin Approval.failed
                 => remote'[q] = approved'[q] /\ q \in link'
          BY <2>10, <3>1, <4>2 DEF ShippedBut
        <4>4. ShippedBut(Approval.failed \union Approval.todo
                           \union Approval.undelivered)'
          BY <1>2, <1>5, <3>1, <4>3 DEF ShippedBut
        <4> QED BY <1>5, <4>1, <4>4 DEF Delivered
      <3>2. CASE j = "again"
        <4>1. ~Approving /\ Again.at # "idle" /\ Again'.at # "idle"
          BY <1>2, <2>2, <3>2
        <4>2. ShippedBut(Again.todo \union Again.undelivered)
          BY <2>1, <4>1 DEF Delivered
        <4>3. ShippedBut(Again.todo \union Again.undelivered)'
          BY <1>2, <1>5, <2>10, <3>2, <4>2 DEF ShippedBut
        <4> QED BY <1>2, <1>5, <2>1, <4>1, <4>3 DEF Delivered
      <3> QED BY <1>4, <3>1, <3>2
    <2> QED BY <2>5, <2>7, <2>8, <2>11
  <1> QED BY <1>6, <1>7, <1>8 DEF Inv

-----------------------------------------------------------------------------
(* The steps of a Ship again, and the death of the orchestrator.           *)

\* It begins with nothing shipped, on a Task that has every branch committed.
LEMMA BeginAgainKeepsInv == ASSUME Inv, Typed', BeginAgain PROVE Inv'
  <1> USE DEF Approval, Again
  <1>1. Typed /\ Versions /\ Integrated /\ Settled
    BY DEF Inv
  <1>2. /\ raced' = (raced \/ (Undelivered /\ Approval.at # "idle"))
        /\ UNCHANGED <<kind, row, work, tip, result, remote, link, approved,
                       behind, kept>>
    BY DEF BeginAgain, repository
  <1>3. CASE ~Undelivered
    <2>1. job' = job /\ (raced' <=> raced)
      BY <1>2, <1>3 DEF BeginAgain
    <2>2. Versions' /\ Integrated'
      BY <1>1, <1>2, <2>1 DEF Versions, Integrated, Approving, Undelivered
    <2>3. /\ UnderWay' <=> UnderWay
          /\ Approving' <=> Approving
          /\ AtRest' <=> AtRest
          /\ Undelivered' <=> Undelivered
          /\ Pending' = Pending
          /\ Shipped' = Shipped
      BY <1>2, <2>1 DEF UnderWay, Approving, AtRest, Undelivered, Pending, Shipped
    <2>4. Settled'
      BY <1>1, <1>2, <2>1, <2>3
         DEF Settled, Alone, Tips, Linked, AtHome, Delivered, ShippedBut
    <2> QED BY <2>2, <2>4 DEF Inv
  <1>4. CASE Undelivered
    <2> DEFINE new == [NoJob EXCEPT !.at = "next", !.todo = result]
    <2>1. new \in Job /\ new.at = "next" /\ new.todo = result
          /\ new.undelivered = {}
      BY <1>1 DEF NoJob, Job, Typed, TypeOK
    <2>2. job' = [job EXCEPT !["again"] = new]
      BY <1>4 DEF BeginAgain
    <2> HIDE DEF new
    <2>3. /\ Approval' = Approval /\ Again'.at = "next"
          /\ Again'.todo = result
          /\ \A i \in Jobs : job'[i].at = "request" => job'[i] = job[i]
      BY <1>1, <2>1, <2>2, Replaced DEF Jobs, Typed
    <2>4. /\ Approving' <=> Approving
          /\ AtRest /\ AtRest'
          /\ Undelivered'
          /\ Pending' = Pending
          /\ Shipped' = Shipped
      BY <1>2, <1>4, <2>3 DEF Approving, AtRest, Undelivered, Pending, Shipped
    <2>5. Versions'
      BY <1>1, <1>2, <2>3 DEF Versions
    <2>6. Integrated'
      BY <1>1, <1>2, <1>4, <2>3, <2>4 DEF Integrated
    <2>7. Settled'
      <3> SUFFICES ASSUME ~raced, Approval.at = "idle"
                   PROVE  (Alone /\ Tips /\ Linked /\ AtHome /\ Delivered)'
        BY <1>2, <1>4 DEF Settled
      <3>1. Alone /\ Tips /\ Linked /\ AtHome /\ Delivered
        BY <1>1 DEF Settled
      <3>2. Alone'
        BY <1>2, <2>3, <2>4, <3>1 DEF Alone
      <3>3. Tips'
        BY <1>2, <2>3, <2>4, <3>1 DEF Tips
      <3>4. Linked' /\ AtHome'
        BY <1>2, <2>4, <3>1 DEF Linked, AtHome
      <3>5. ~Approving /\ behind = {} /\ row.state # "done"
        BY <1>4, <3>1 DEF Approving, Delivered, Undelivered
      <3>6. ShippedBut(Again.todo \union Again.undelivered)'
        <4>1. result = Repos
          BY <1>1, <1>4 DEF Integrated
        <4> QED BY <2>3, <4>1 DEF ShippedBut, Shipped
      <3>7. Delivered'
        BY <1>2, <2>4, <3>5, <3>6 DEF Delivered
      <3> QED BY <3>2, <3>3, <3>4, <3>7
    <2> QED BY <2>5, <2>6, <2>7 DEF Inv
  <1> QED BY <1>3, <1>4

LEMMA TakeUpKeepsInv ==
    ASSUME Inv, Typed', NEW r \in Repos, TakeUp(r)
    PROVE  Inv'
  <1> USE DEF Approval, Again
  <1>1. Typed /\ Versions /\ Integrated /\ Settled
    BY DEF Inv
  <1>2. /\ Again.at = "next"
        /\ UNCHANGED <<kind, row, work, tip, result, remote, link, approved,
                       behind, kept, raced>>
    BY DEF TakeUp, Done, repository, history
  <1>3. /\ Approval' = Approval /\ Again'.at = "push"
        /\ Again'.todo = Again.todo /\ Again'.undelivered = Again.undelivered
        /\ \A i \in Jobs : job'[i].at = "request" => job'[i] = job[i]
    BY <1>1, TakenUp DEF TakeUp, Jobs, Typed
  <1>4. /\ UnderWay
        /\ Approving' <=> Approving
        /\ AtRest' <=> AtRest
        /\ Undelivered' <=> Undelivered
        /\ Pending' = Pending
        /\ Shipped' = Shipped
    BY <1>1, <1>2, <1>3, ByName
       DEF Approving, AtRest, Undelivered, Pending, Shipped
  <1>5. Versions'
    BY <1>1, <1>2, <1>3 DEF Versions
  <1>6. Integrated'
    BY <1>1, <1>2, <1>3, <1>4 DEF Integrated
  <1>7. Settled'
    <2> SUFFICES ASSUME ~raced
                 PROVE  (Alone /\ Tips /\ Linked /\ AtHome /\ Delivered)'
      BY <1>2 DEF Settled
    <2>1. Alone /\ Tips /\ Linked /\ AtHome /\ Delivered
      BY <1>1 DEF Settled
    <2>2. Alone' /\ Tips'
      BY <1>2, <1>3, <1>4, <2>1 DEF Alone, Tips
    <2>3. Linked' /\ AtHome'
      BY <1>2, <1>4, <2>1 DEF Linked, AtHome
    <2>4. Delivered'
      BY <1>2, <1>3, <1>4, <2>1 DEF Delivered, ShippedBut
    <2> QED BY <2>2, <2>3, <2>4
  <1> QED BY <1>5, <1>6, <1>7 DEF Inv

\* It finishes the Task only where nothing is left to ship.
LEMMA SettleAgainKeepsInv == ASSUME Inv, Typed', SettleAgain PROVE Inv'
  <1> USE DEF Approval, Again
  <1>1. Typed /\ Versions /\ Integrated /\ Settled
    BY DEF Inv
  <1>2. /\ Again.at = "next" /\ Again.todo = {}
        /\ UNCHANGED <<kind, work, tip, result, remote, link, approved, behind,
                       kept, raced>>
    BY DEF SettleAgain, repository, history
  <1>3. /\ Approval' = Approval /\ Again'.at = "idle"
        /\ \A i \in Jobs : job'[i].at = "request" => job'[i] = job[i]
    BY <1>1, FreshJobs, Replaced DEF SettleAgain, Jobs, Typed, NoJob
  <1>4. \/ row' = row
        \/ Again.undelivered = {} /\ Undelivered /\ row'.state = "done"
    BY DEF SettleAgain, Finish
  <1>5. /\ UnderWay
        /\ Approving' <=> Approving
        /\ AtRest' <=> AtRest
        /\ Undelivered' => Undelivered
        /\ Pending' = Pending
        /\ Shipped' = Shipped
    BY <1>1, <1>2, <1>3, <1>4, ByName
       DEF Approving, AtRest, Undelivered, Pending, Shipped
  <1>6. Versions'
    BY <1>1, <1>2, <1>3 DEF Versions
  <1>7. Integrated'
    BY <1>1, <1>2, <1>3, <1>5 DEF Integrated
  <1>8. Settled'
    <2> SUFFICES ASSUME ~raced
                 PROVE  (Alone /\ Tips /\ Linked /\ AtHome /\ Delivered)'
      BY <1>2 DEF Settled
    <2>1. Alone /\ Tips /\ Linked /\ AtHome /\ Delivered
      BY <1>1 DEF Settled
    <2>2. Alone'
      BY <1>2, <1>3, <1>5, <2>1 DEF Alone
    <2>3. Tips'
      <3>1. \A i \in Jobs : job'[i].at # "request"
        BY <1>2, <1>3, <2>1 DEF Alone, Jobs
      <3> QED BY <1>2, <1>3, <1>5, <2>1, <3>1 DEF Tips
    <2>4. Linked' /\ AtHome'
      BY <1>2, <1>5, <2>1 DEF Linked, AtHome
    <2>5. row'.state = "done" /\ ~Approving' /\ ~kept' => ShippedBut({})'
      <3>1. CASE row' = row
        BY <1>2, <1>5, <2>1, <3>1 DEF Delivered, ShippedBut
      <3>2. CASE Again.undelivered = {}
        BY <1>2, <1>5, <2>1, <3>2 DEF Delivered, ShippedBut
      <3> QED BY <1>4, <3>1, <3>2
    <2>6. Approval.at = "idle" /\ ~Approving
      BY <1>2, <2>1 DEF Alone, Approving
    <2>7. Delivered'
      BY <1>2, <1>3, <1>5, <2>1, <2>5, <2>6 DEF Delivered
    <2> QED BY <2>2, <2>3, <2>4, <2>7
  <1> QED BY <1>6, <1>7, <1>8 DEF Inv

\* An approval begins again from the top; a Ship again is yet to look at the row.
LEMMA CrashKeepsInv == ASSUME Inv, Typed', Crash PROVE Inv'
  <1> USE DEF Approval, Again
  <1>1. Typed /\ Versions /\ Integrated /\ Settled
    BY DEF Inv
  <1>2. UNCHANGED <<kind, row, work, tip, result, remote, link, approved, behind,
                    kept, raced>>
    BY DEF Crash, repository
  <1>3. /\ Approval' = (IF Approval.at # "idle" THEN StartApproval ELSE NoJob)
        /\ Again' = NoJob
    BY DEF Crash, Jobs
  <1>4. /\ Again'.at = "idle"
        /\ Approval.at = "idle" => Approval'.at = "idle"
        /\ Approval.at # "idle" => Approval'.at = "next" /\ Approval'.todo = Repos
        /\ \A i \in Jobs : job'[i].at # "request"
    <2>1. StartApproval.at = "next" /\ StartApproval.todo = Repos
          /\ NoJob.at = "idle"
      BY DEF StartApproval, NoJob
    <2> QED BY <1>3, <2>1 DEF Jobs
  <1>5. /\ UnderWay' => UnderWay
        /\ Approval.at = "idle" => ~Approving /\ ~Approving'
        /\ Approval.at # "idle" => Approving' /\ Pending' = Repos
        /\ Approval.at = "idle" => Pending = {} /\ Pending' = {}
        /\ AtRest' <=> AtRest
        /\ Undelivered' <=> Undelivered
        /\ Shipped' = Shipped
    BY <1>2, <1>4
       DEF UnderWay, Approving, AtRest, Undelivered, Pending, Shipped, Jobs
  <1>6. behind \subseteq Repos /\ link \subseteq Repos
    BY <1>1 DEF Typed, TypeOK
  <1>7. Versions'
    BY <1>1, <1>2, <1>4 DEF Versions
  <1>8. Integrated'
    <2>1. CASE Approval.at = "idle"
      BY <1>1, <1>2, <1>5, <2>1 DEF Integrated
    <2>2. CASE Approval.at # "idle"
      BY <1>1, <1>2, <1>4, <1>5, <1>6, <2>2 DEF Integrated
    <2> QED BY <2>1, <2>2
  <1>9. Settled'
    <2> SUFFICES ASSUME ~raced
                 PROVE  (Alone /\ Tips /\ Linked /\ AtHome /\ Delivered)'
      BY <1>2 DEF Settled
    <2>1. Alone /\ Tips /\ Linked /\ AtHome /\ Delivered
      BY <1>1 DEF Settled
    <2>2. Alone'
      BY <1>2, <1>4, <1>5, <2>1 DEF Alone
    <2>3. CASE Approval.at = "idle"
      <3>1. Tips'
        BY <1>2, <1>4, <1>5, <2>1, <2>3 DEF Tips
      <3>2. Linked' /\ AtHome'
        BY <1>2, <1>5, <2>1, <2>3 DEF Linked, AtHome
      <3>3. Delivered'
        BY <1>2, <1>4, <1>5, <2>1, <2>3 DEF Delivered, ShippedBut
      <3> QED BY <2>2, <3>1, <3>2, <3>3
    <2>4. CASE Approval.at # "idle"
      <3>1. Tips'
        BY <1>2, <1>4, <1>5, <2>4 DEF Tips
      <3>2. Linked' /\ AtHome'
        BY <1>2, <1>5, <1>6, <2>1, <2>4 DEF Linked, AtHome
      <3>3. Delivered'
        BY <1>4, <1>5, <2>4 DEF Delivered, ShippedBut, Shipped
      <3> QED BY <2>2, <3>1, <3>2, <3>3
    <2> QED BY <2>3, <2>4
  <1> QED BY <1>7, <1>8, <1>9 DEF Inv

-----------------------------------------------------------------------------
(* The theorems.                                                           *)

LEMMA InvKept == Inv /\ [Next]_vars => Inv'
  <1> SUFFICES ASSUME Inv, [Next]_vars PROVE Inv'
    OBVIOUS
  <1>0. Typed'
    BY TypesKept DEF Inv
  <1>1. CASE UNCHANGED vars \/ ShipAgain
    BY <1>0, <1>1, ShipAgainKeepsInv
  <1>2. CASE Round
    BY <1>0, <1>2, RoundKeepsInv
  <1>3. CASE OpenGate \/ Retry \/ KeepLocal
    BY <1>0, <1>3, OpenGateKeepsInv, RetryKeepsInv, KeepLocalKeepsInv
  <1>4. CASE Approve \/ SettleApproval \/ Acknowledge
    BY <1>0, <1>4, ApproveKeepsInv, SettleApprovalKeepsInv, AcknowledgeKeepsInv
  <1>5. CASE \E r \in Repos : Integrate(r)
    BY <1>0, <1>5, IntegrateKeepsInv
  <1>6. ASSUME NEW j \in Jobs, Push(j) PROVE Inv'
    BY <1>0, <1>6, PushKeepsInv
  <1>7. ASSUME NEW j \in Jobs, OpenRequest(j) PROVE Inv'
    BY <1>0, <1>7, OpenRequestKeepsInv
  <1>8. CASE BeginAgain \/ SettleAgain
    BY <1>0, <1>8, BeginAgainKeepsInv, SettleAgainKeepsInv
  <1>9. CASE \E r \in Repos : TakeUp(r)
    BY <1>0, <1>9, TakeUpKeepsInv
  <1>10. CASE Crash
    BY <1>0, <1>10, CrashKeepsInv
  <1> QED BY <1>1, <1>2, <1>3, <1>4, <1>5, <1>6, <1>7, <1>8, <1>9, <1>10
          DEF Next, ApprovalStep, AgainStep, Jobs

\* A Task that is done has every approved change on its remote and a request
\* open, but for the ways out that a person or a race takes.
THEOREM DoneMeansDelivered == Spec => []DoneIsDelivered
  <1>1. Inv => DoneIsDelivered
    BY DEF Inv, Settled, Delivered, ShippedBut, DoneIsDelivered
  <1> QED BY <1>1, InvHoldsInitially, InvKept, PTL DEF Spec

\* Nothing reaches a remote that was not approved, while nothing raced.
THEOREM OnlyTheApprovedLeaves == Spec => []UnapprovedStaysHome
  <1>1. Inv => UnapprovedStaysHome
    BY DEF Inv, Settled, AtHome, UnapprovedStaysHome
  <1> QED BY <1>1, InvHoldsInitially, InvKept, PTL DEF Spec

\* Between approvals a linked request holds the change approved last, unless that
\* change did not integrate.
THEOREM LinksAreLatest == Spec => []LinkIsLatest
  <1>1. Inv => LinkIsLatest
    BY DEF Inv, Settled, Linked, Pending, LinkIsLatest
  <1> QED BY <1>1, InvHoldsInitially, InvKept, PTL DEF Spec
=============================================================================
