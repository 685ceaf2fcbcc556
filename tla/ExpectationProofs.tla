-------------------------- MODULE ExpectationProofs -------------------------
(***************************************************************************)
(* The key in the queue and the expectations that hang on it: the          *)
(* controller implements the contract of KeyQueue, nothing is left of the  *)
(* expectations of a deleted workflow, and without lost answers, expiries, *)
(* restarts and spurious deletions a step never has two jobs that the      *)
(* informer has not seen.                                                  *)
(***************************************************************************)
EXTENDS WorkflowControllerProofs

-----------------------------------------------------------------------------
(* The refinement of KeyQueue.                                             *)

\* What the abstract queue may do, in the controller's own variables.
QueueStutter == dirty' = dirty /\ (pc' = "idle" <=> pc = "idle")
QueueAdd == dirty' = TRUE /\ (pc' = "idle" <=> pc = "idle")
QueueTake == pc = "idle" /\ pc' # "idle" /\ dirty /\ ~dirty'
QueueRelease == pc # "idle" /\ pc' = "idle" /\ dirty' = dirty
QueueRestart == "crash" \in Events /\ pc' = "idle" /\ ~dirty'

\* Every step of the controller is one of these.
LEMMA QueueSteps ==
  ASSUME TypeOK, [Next]_vars
  PROVE  QueueStutter \/ QueueAdd \/ QueueTake \/ QueueRelease \/ QueueRestart
<1>0. dirty \in BOOLEAN
  BY DEF TypeOK, PassTypeOK
<1>1. CASE UNCHANGED vars
  BY <1>1 DEF vars, QueueStutter
<1>2. CASE UserNext
  BY <1>2 DEF UserNext, SetPause, Relabel, SetLabel, FixSpec, DeleteWorkflow, QueueStutter
<1>3. CASE ClusterNext
  BY <1>3 DEF ClusterNext, FinishJob, DeleteJob, Expire, Crash, Disturb, QueueStutter, QueueRestart
<1>4. CASE WatchNext
  <2>1. ASSUME ListWorkflows \/ ListStatus \/ Poll \/ PollStatus \/ PollError PROVE QueueStutter
    BY <2>1 DEF ListWorkflows, ListStatus, Poll, PollStatus, PollError, QueueStutter
  <2>2. ASSUME Deliver \/ Resync PROVE QueueStutter \/ QueueAdd
    <3>1. pc' = pc
      BY <2>2 DEF Deliver, Resync
    <3>2. dirty' \in BOOLEAN /\ (dirty => dirty')
      BY <1>0, <2>2 DEF Deliver, Resync
    <3> QED BY <1>0, <3>1, <3>2 DEF QueueStutter, QueueAdd
  <2> QED BY <1>4, <2>1, <2>2 DEF WatchNext
<1>5. CASE JobInformerNext
  <2>1. pc' = pc
    BY <1>5 DEF JobInformerNext, ListJobs, PopJob, AddJob, UpdateJob, DropJob
  <2>2. dirty' = dirty \/ dirty' = (dirty \/ Managed)
    BY <1>5 DEF JobInformerNext, ListJobs, PopJob, AddJob, UpdateJob, DropJob
  <2>3. dirty' \in BOOLEAN /\ (dirty => dirty')
    BY <1>0, <2>2 DEF Managed
  <2> QED BY <1>0, <2>1, <2>3 DEF QueueStutter, QueueAdd
<1>6. CASE WorkerNext
  <2>1. ASSUME Get PROVE QueueTake
    BY <2>1 DEF Get, QueueTake
  <2>2. ASSUME Done PROVE QueueRelease
    BY <2>2 DEF Done, QueueRelease
  <2>3. ASSUME WakeUp PROVE QueueAdd
    BY <2>3 DEF WakeUp, QueueAdd
  <2>4. ASSUME ForgetDeleted \/ NotSynced \/ Recheck \/ NothingToDo \/ Start \/ Default \/ Invalid \/ Valid
        PROVE  QueueStutter
    BY <2>4 DEF ForgetDeleted, NotSynced, Recheck, NothingToDo, Start, Default, Invalid, Valid, Leave,
       QueueStutter
  <2>5. ASSUME NEW s \in Steps, StepNext(s) PROVE QueueStutter
    BY <2>5 DEF StepNext, StepComplete, StepBlocked, StepWithoutJob, StepWithJob, StepPanics, Visit, Leave,
       QueueStutter
  <2>6. ASSUME CreateNext \/ EndSteps PROVE QueueStutter
    BY <2>6 DEF CreateNext, AwaitObservation, CreateJob, CreateJobLost, CreateJobFails, ExpectCreation,
       EndSteps, Leave, QueueStutter
  <2>7. ASSUME PutNext PROVE QueueStutter
    BY <2>7 DEF PutNext, PutAccepted, PutConflict, PutNotFound, PutFails, PutLost, Leave, QueueStutter
  <2> QED BY <1>6, <2>1, <2>2, <2>3, <2>4, <2>5, <2>6, <2>7 DEF WorkerNext
<1> QED BY <1>1, <1>2, <1>3, <1>4, <1>5, <1>6 DEF Next

\* The controller's view of its key is an implementation of the queue contract,
\* restarts included: a request is never forgotten, nor served by two passes at
\* once.
THEOREM Refinement == Spec => ImplementsKeyQueue
<1>1. Init => KQ!KQInit
  BY DEF Init, KQ!KQInit
<1>2. TypeOK /\ [Next]_vars => [KQ!KQNext]_(KQ!kqVars)
  <2> SUFFICES ASSUME TypeOK, [Next]_vars PROVE [KQ!KQNext]_(KQ!kqVars)
    OBVIOUS
  <2>0. dirty \in BOOLEAN
    BY DEF TypeOK, PassTypeOK
  <2>1. CASE QueueStutter
    BY <2>1 DEF QueueStutter, KQ!kqVars
  <2>2. CASE QueueAdd
    BY <2>2 DEF QueueAdd, KQ!KQNext, KQ!KQAdd
  <2>3. CASE QueueTake
    BY <2>3 DEF QueueTake, KQ!KQNext, KQ!KQTake
  <2>4. CASE QueueRelease
    BY <2>4 DEF QueueRelease, KQ!KQNext, KQ!KQRelease
  <2>5. CASE QueueRestart
    BY <2>5 DEF QueueRestart, KQ!KQNext, KQ!KQRestart
  <2> QED BY <2>1, <2>2, <2>3, <2>4, <2>5, QueueSteps
<1> QED BY <1>1, <1>2, TypeCorrect, PTL DEF Spec, ImplementsKeyQueue, KQ!KQSpec

-----------------------------------------------------------------------------
(* The expectations of a deleted workflow.                                 *)

\* While the store does not hold the workflow, a pass is due that drops its
\* expectations, or there are none and nobody is about to record one.
ReclaimInv ==
  store = None =>
    \/ dirty
    \/ pc = "got"
    \/ exp = {} /\ pc \notin {"process", "steps", "create", "expect"}

\* The invariant survives every step of the system.
LEMMA NextReclaimInv == TypeOK /\ ReclaimInv /\ [Next]_vars => ReclaimInv'
<1> SUFFICES ASSUME TypeOK, ReclaimInv, [Next]_vars PROVE ReclaimInv'
  OBVIOUS
<1>0. WatchTypeOK /\ dirty \in BOOLEAN
  BY DEF TypeOK, PassTypeOK
<1>1. ASSUME store' = None => store = None, dirty => dirty', pc' = pc, exp' \subseteq exp
      PROVE  ReclaimInv'
  BY <1>1 DEF ReclaimInv
<1>2. CASE UNCHANGED vars
  BY <1>1, <1>2 DEF vars, watchVars
<1>3. ASSUME NEW o, ServerWrites(o) PROVE store' = None => store = None
  BY <1>0, <1>3, StaleFacts DEF ServerWrites, WatchTypeOK
<1>4. CASE UserNext
  BY <1>1, <1>3, <1>4 DEF UserNext, SetPause, Relabel, SetLabel, FixSpec, DeleteWorkflow, watchVars
<1>5. CASE ClusterNext
  <2>1. ASSUME Crash PROVE ReclaimInv'
    BY <2>1 DEF Crash, ReclaimInv
  <2> QED BY <1>1, <1>5, <2>1 DEF ClusterNext, FinishJob, DeleteJob, Expire, watchVars
<1>6. CASE WatchNext
  <2>1. ASSUME Deliver PROVE ReclaimInv'
    <3>1. store' = None => dirty'
      BY <2>1 DEF Deliver
    <3> QED BY <3>1 DEF ReclaimInv
  <2>2. ASSUME Resync PROVE ReclaimInv'
    BY <1>1, <2>2 DEF Resync
  <2> QED BY <1>1, <1>6, <2>1, <2>2
          DEF WatchNext, ListWorkflows, ListStatus, Poll, PollStatus, PollLists, PollError
<1>7. CASE JobInformerNext
  <2>1. pc' = pc /\ store' = store
    BY <1>7 DEF JobInformerNext, ListJobs, PopJob, AddJob, UpdateJob, DropJob, watchVars
  <2>2. exp' \subseteq exp
    BY <1>7 DEF JobInformerNext, ListJobs, PopJob, AddJob, UpdateJob, DropJob
  <2>3. dirty => dirty'
    BY <1>7 DEF JobInformerNext, ListJobs, PopJob, AddJob, UpdateJob, DropJob
  <2> QED BY <1>1, <2>1, <2>2, <2>3
<1>8. CASE WorkerNext
  <2>1. ASSUME Get PROVE ReclaimInv'
    BY <2>1 DEF Get, ReclaimInv
  <2>2. ASSUME ForgetDeleted PROVE ReclaimInv'
    BY <2>2 DEF ForgetDeleted, Leave, ReclaimInv
  <2>3. ASSUME NotSynced \/ NothingToDo \/ Start PROVE ReclaimInv'
    BY <2>3 DEF NotSynced, NothingToDo, Start, ReclaimInv, watchVars
  <2>4. ASSUME pc # "got", store' = None => store = None, dirty => dirty',
               \/ pc \in {"process", "steps", "create", "expect"}
               \/ exp' = exp /\ pc' \notin {"process", "steps", "create", "expect"}
        PROVE  ReclaimInv'
    BY <2>4 DEF ReclaimInv
  <2>5. ASSUME Recheck \/ WakeUp \/ Done PROVE ReclaimInv'
    BY <2>4, <2>5 DEF Recheck, WakeUp, Done, Leave, watchVars
  <2>6. ASSUME pc \in {"process", "steps"},
               /\ wf \in Workflow
               /\ \E l \in Labels, t \in [Steps -> StepStatus] :
                    WriteShared(l, t) \/ UNCHANGED <<store, nameMap>>,
               dirty' = dirty
        PROVE  ReclaimInv'
    BY <1>0, <2>4, <2>6, WriteSharedFacts
  <2>7. pc \in {"process", "steps"} =>
          wf \in Workflow /\ wf.labels \in Labels /\ wf.status \in [Steps -> StepStatus]
    BY DEF TypeOK, PassTypeOK, WorkflowOrNone, Workflow
  <2>8. ASSUME Default PROVE ReclaimInv'
    <3>1. SetDefaults(wf).labels \in Labels
      BY <2>7, <2>8, SetDefaultsFacts DEF Default, Workflow
    <3> QED BY <2>6, <2>7, <2>8, <3>1 DEF Default
  <2>9. ASSUME Invalid PROVE ReclaimInv'
    <3>1. [wf.labels EXCEPT !["valid"] = "false"] \in Labels
      BY <2>7, <2>9 DEF Invalid, Labels, LabelKeys
    <3> QED BY <2>6, <2>7, <2>9, <3>1 DEF Invalid
  <2>10. ASSUME Valid PROVE ReclaimInv'
    <3>1. [wf.labels EXCEPT !["valid"] = "true"] \in Labels
      BY <2>7, <2>10 DEF Valid, Labels, LabelKeys
    <3> QED BY <2>6, <2>7, <2>10, <3>1 DEF Valid
  <2>11. ASSUME NEW s \in Steps, StepWithJob(s) PROVE ReclaimInv'
    <3>1. \A j : [wf.status EXCEPT ![s] = JobStatus(j)] \in [Steps -> StepStatus]
      BY <2>7, <2>11 DEF StepWithJob, Visit, JobStatus, StepStatus
    <3> QED BY <2>6, <2>7, <2>11, <3>1 DEF StepWithJob, Visit
  <2>12. ASSUME NEW s \in Steps, StepComplete(s) \/ StepBlocked(s) \/ StepWithoutJob(s) \/ StepPanics(s)
         PROVE  ReclaimInv'
    BY <2>4, <2>12 DEF StepComplete, StepBlocked, StepWithoutJob, StepPanics, Visit, watchVars
  <2>13. ASSUME CreateNext \/ EndSteps PROVE ReclaimInv'
    BY <2>4, <2>13 DEF CreateNext, AwaitObservation, CreateJob, CreateJobLost, CreateJobFails,
       ExpectCreation, EndSteps, watchVars
  <2>14. ASSUME PutAccepted \/ PutLost PROVE ReclaimInv'
    BY <1>3, <2>4, <2>14 DEF PutAccepted, PutLost, Leave
  <2>15. ASSUME PutConflict \/ PutNotFound \/ PutFails PROVE ReclaimInv'
    BY <2>4, <2>15 DEF PutConflict, PutNotFound, PutFails, Leave, watchVars
  <2> QED BY <1>8, <2>1, <2>2, <2>3, <2>5, <2>8, <2>9, <2>10, <2>11, <2>12, <2>13, <2>14, <2>15
          DEF WorkerNext, StepNext, PutNext
<1> QED BY <1>2, <1>4, <1>5, <1>6, <1>7, <1>8 DEF Next

\* Once the deletion of a workflow has been dealt with, none of its
\* expectations is left, whichever pass was under way when it was deleted.
THEOREM Reclaimed == Spec => []ExpectationsReclaimed
<1>1. Init => ReclaimInv
  BY DEF Init, ReclaimInv
<1>2. ReclaimInv => ExpectationsReclaimed
  BY DEF ReclaimInv, ExpectationsReclaimed
<1> QED BY <1>1, <1>2, NextReclaimInv, TypeCorrect, PTL DEF Spec

-----------------------------------------------------------------------------
(* At most one job of a step is unobserved.                                *)

\* The disturbances that expectations do not survive do not happen.
Quiet == Events \cap {"lostReply", "expire", "crash", "listStatus"} = {}

\* No pass over the workflow is under way.
Between == pc \in {"idle", "got", "recheck", "sleep", "done"}

\* The workflow is deleted and the informer will never hold it again.
Dead == api = None /\ store = None /\ \A i \in DOMAIN fifo : fifo[i] = None

\* A deletion is the last that the delta queue tells of the workflow.
DeletionLast ==
  \A i \in DOMAIN fifo : fifo[i] = None =>
    api = None /\ \A k \in DOMAIN fifo : k >= i => fifo[k] = None

\* The informer lacks the workflow before the first pass and after the end only.
Absent == store = None => Dead \/ (jobs = {} /\ Between)

Unlisted == ~jobsListed => seen = {} /\ toSync = {} /\ popped = None

\* A job that was not seen is expected, or about to be, or nobody cares.
Expected ==
  \A s \in Steps : Unobserved(s) # {} =>
    s \in exp \/ (pc = "expect" /\ step = s) \/ (Dead /\ Between)

Single == \A s \in Steps : \A i, j \in Unobserved(s) : i = j

CInv == DeletionLast /\ Absent /\ Unlisted /\ Expected /\ Single

\* A step that does not change which copies of the workflow there are.
Alike ==
  /\ api' = None <=> api = None
  /\ store' = None <=> store = None
  /\ DOMAIN fifo' = DOMAIN fifo
  /\ \A i \in DOMAIN fifo : fifo'[i] = None <=> fifo[i] = None

\* What a step that leaves the workflow's copies alike preserves.
LEMMA AlikeFacts ==
  ASSUME Alike
  PROVE  (Dead' <=> Dead) /\ (DeletionLast => DeletionLast')
BY DEF Alike, Dead, DeletionLast

\* Most steps neither create a job nor touch the expectations.
LEMMA Calm ==
  ASSUME CInv, Alike, jobs' = jobs, exp' = exp, seen \subseteq seen', Unlisted',
         pc = "expect" => pc' = pc /\ step' = step,
         Between => Between' \/ store # None
  PROVE  CInv'
<1>1. DeletionLast' /\ (Dead' <=> Dead)
  BY AlikeFacts DEF CInv
<1>2. Absent'
  BY <1>1 DEF CInv, Absent, Alike
<1>3. \A s \in Steps : Unobserved(s)' \subseteq Unobserved(s)
  BY DEF Unobserved
<1>4. Expected'
  BY <1>1, <1>3 DEF CInv, Expected, Dead
<1>5. Single'
  BY <1>3 DEF CInv, Single
<1> QED BY <1>1, <1>2, <1>4, <1>5 DEF CInv

\* A write on the server, or through shared maps, makes no copy appear or vanish.
LEMMA WritesAlike ==
  ASSUME TypeOK,
         \/ \E o \in Workflow : api # None /\ ServerWrites(o)
         \/ UNCHANGED <<api, fifo>> /\ \E l \in Labels, t \in [Steps -> StepStatus] : WriteShared(l, t)
         \/ UNCHANGED <<api, fifo, store>>
  PROVE  Alike
<1>1. ASSUME NEW o \in Workflow, api # None, ServerWrites(o) PROVE Alike
  BY <1>1, ServerWritesFacts, StaleFacts, NoneAssumption DEF Alike, TypeOK, WatchTypeOK
<1>2. ASSUME UNCHANGED <<api, fifo>>, NEW l \in Labels, NEW t \in [Steps -> StepStatus],
             WriteShared(l, t)
      PROVE  Alike
  BY <1>2, WriteSharedFacts DEF Alike, TypeOK, WatchTypeOK
<1> QED BY <1>1, <1>2 DEF Alike

\* Nothing that the user does lets a second unobserved job appear.
LEMMA UserCInv == ASSUME TypeOK, CInv, UserNext PROVE CInv'
<1>1. api \in WorkflowOrNone
  BY DEF TypeOK, ServerTypeOK
<1>2. ASSUME NEW o \in Workflow, api # None, ServerWrites(o),
             UNCHANGED <<jobs, jobInfVars, exp, pc, passVars>>
      PROVE  CInv'
  <2>1. Alike
    BY <1>2, WritesAlike
  <2> QED BY <1>2, <2>1, Calm DEF CInv, Unlisted, Between, jobInfVars, passVars
<1>3. ASSUME NEW k \in LabelKeys, NEW v \in {"absent", "true", "false"}, SetLabel(k, v)
      PROVE  CInv'
  <2>1. [api EXCEPT !.labels[k] = v] \in Workflow /\ api # None
    BY <1>1, <1>3 DEF SetLabel, WorkflowOrNone, Workflow, Labels
  <2> QED BY <1>2, <1>3, <2>1 DEF SetLabel
<1>4. ASSUME FixSpec PROVE CInv'
  <2>1. [api EXCEPT !.ok = TRUE] \in Workflow /\ api # None
    BY <1>1, <1>4 DEF FixSpec, WorkflowOrNone, Workflow
  <2> QED BY <1>2, <1>4, <2>1 DEF FixSpec
<1>5. ASSUME DeleteWorkflow PROVE CInv'
  <2>1. /\ api' = None
        /\ UNCHANGED <<jobs, fifo, store, jobsListed, toSync, popped, seen, exp, pc, step>>
    BY <1>5 DEF DeleteWorkflow, watchVars, jobInfVars, passVars
  <2>2. (Dead => Dead') /\ DeletionLast'
    BY <2>1 DEF CInv, Dead, DeletionLast
  <2>3. Absent' /\ Unlisted'
    BY <2>1, <2>2 DEF CInv, Absent, Unlisted, Between
  <2>4. Expected' /\ Single'
    BY <2>1, <2>2 DEF CInv, Expected, Single, Unobserved, Between
  <2> QED BY <2>2, <2>3, <2>4 DEF CInv
<1> QED BY <1>3, <1>4, <1>5 DEF UserNext, SetPause, Relabel, LabelKeys

\* Jobs that finish or disappear, and expectations that expire, keep the invariant.
LEMMA ClusterCInv == ASSUME Quiet, TypeOK, CInv, ClusterNext PROVE CInv'
<1>1. ASSUME NEW j \in jobs, FinishJob(j) \/ DeleteJob(j) PROVE CInv'
  <2>1. UNCHANGED <<api, fifo, store, jobs, jobsListed, toSync, popped, seen, exp, pc, step>>
    BY <1>1 DEF FinishJob, DeleteJob, watchVars, jobInfVars, passVars
  <2> QED BY <2>1, WritesAlike, Calm DEF CInv, Unlisted, Between
<1>2. ~Crash /\ \A s \in Steps : ~Expire(s)
  BY DEF Quiet, Crash, Expire, Disturb
<1> QED BY <1>1, <1>2 DEF ClusterNext

\* The workflow informer (workflows.Watch, NewInformer) keeps the invariant.
LEMMA WatchCInv == ASSUME Quiet, TypeOK, CInv, WatchNext PROVE CInv'
<1>0. fifo \in Seq(WorkflowOrNone) /\ api \in WorkflowOrNone
  BY DEF TypeOK, WatchTypeOK, ServerTypeOK
<1>1. ~ListStatus /\ ~PollStatus
  BY DEF Quiet, ListStatus, PollStatus, Disturb
\* The delta queue and the store change, and the rest follows.
<1>2. ASSUME DeletionLast', Dead => Dead', store' = None => store = None \/ Dead',
             UNCHANGED <<jobs, jobsListed, toSync, popped, seen, exp, pc, step>>
      PROVE  CInv'
  <2>1. Absent' /\ Unlisted'
    BY <1>2 DEF CInv, Absent, Unlisted, Between
  <2>2. Expected' /\ Single'
    BY <1>2 DEF CInv, Expected, Single, Unobserved, Between
  <2> QED BY <1>2, <2>1, <2>2 DEF CInv
<1>3. ASSUME ListWorkflows PROVE CInv'
  <2>1. /\ fifo' = (IF api = None THEN <<>> ELSE <<api>>)
        /\ UNCHANGED <<api, store, jobs, jobsListed, toSync, popped, seen, exp, pc, step>>
    BY <1>3 DEF ListWorkflows, serverVars, jobInfVars, passVars
  <2>2. \A i \in DOMAIN fifo' : fifo'[i] = api /\ api # None
    BY <2>1
  <2> QED BY <1>2, <2>1, <2>2 DEF DeletionLast, Dead
<1>4. ASSUME Poll PROVE CInv'
  <2>1. /\ UNCHANGED <<api, store, jobs, jobsListed, toSync, popped, seen, exp, pc, step>>
        /\ fifo' = fifo \/ fifo' = Append(fifo, api)
    BY <1>4 DEF Poll, PollLists, serverVars, jobInfVars, passVars
  <2>2. CASE fifo' = fifo
    BY <1>2, <2>1, <2>2 DEF CInv, DeletionLast, Dead
  <2>3. CASE fifo' = Append(fifo, api)
    <3>1. /\ DOMAIN fifo = 1..Len(fifo) /\ DOMAIN fifo' = 1..(Len(fifo) + 1) /\ Len(fifo) \in Nat
          /\ fifo'[Len(fifo) + 1] = api /\ \A i \in DOMAIN fifo : fifo'[i] = fifo[i]
      BY <1>0, <2>3
    <3>2. DeletionLast' /\ (Dead => Dead')
      BY <2>1, <3>1 DEF CInv, DeletionLast, Dead
    <3> QED BY <1>2, <2>1, <3>2
  <2> QED BY <2>1, <2>2, <2>3
<1>5. ASSUME PollError \/ Resync PROVE CInv'
  <2>1. UNCHANGED <<api, fifo, store, jobs, jobsListed, toSync, popped, seen, exp, pc, step>>
    BY <1>5 DEF PollError, Resync, serverVars, jobInfVars, passVars
  <2> QED BY <1>2, <2>1 DEF CInv, DeletionLast, Dead
<1>6. ASSUME Deliver PROVE CInv'
  <2>1. /\ fifo # <<>> /\ store' = Head(fifo) /\ fifo' = Tail(fifo)
        /\ UNCHANGED <<api, jobs, jobsListed, toSync, popped, seen, exp, pc, step>>
    BY <1>6 DEF Deliver, serverVars, jobInfVars
  <2>2. /\ 1 \in DOMAIN fifo /\ store' = fifo[1]
        /\ \A i \in DOMAIN fifo' : i \in Nat /\ i + 1 \in DOMAIN fifo /\ fifo'[i] = fifo[i + 1]
    BY <1>0, <2>1
  <2>3. DOMAIN fifo \subseteq Nat \ {0}
    BY <1>0
  <2>4. DeletionLast'
    <3> SUFFICES ASSUME NEW i \in DOMAIN fifo', fifo'[i] = None
                 PROVE  api = None /\ \A k \in DOMAIN fifo' : k >= i => fifo'[k] = None
      BY <2>1 DEF DeletionLast
    <3>1. api = None /\ \A k \in DOMAIN fifo : k >= i + 1 => fifo[k] = None
      BY <2>2 DEF CInv, DeletionLast
    <3> QED BY <2>2, <3>1
  <2>5. store' = None => Dead'
    <3> SUFFICES ASSUME store' = None PROVE Dead'
      OBVIOUS
    <3>1. api = None /\ \A k \in DOMAIN fifo : k >= 1 => fifo[k] = None
      BY <2>2 DEF CInv, DeletionLast
    <3>2. \A i \in DOMAIN fifo' : fifo'[i] = None
      BY <2>2, <3>1
    <3> QED BY <2>1, <3>1, <3>2 DEF Dead
  <2>6. Dead => Dead'
    BY <2>2, <2>5 DEF Dead
  <2> QED BY <1>2, <2>1, <2>4, <2>5, <2>6
<1> QED BY <1>1, <1>3, <1>4, <1>5, <1>6 DEF WatchNext

\* addJob, updateJob and deleteJob keep the invariant: an expectation is cleared
\* only for a job that is in the store.
LEMMA JobInformerCInv == ASSUME TypeOK, CInv, JobInformerNext PROVE CInv'
<1>0. Unlisted /\ jobs \subseteq Job /\ toSync \subseteq jobs
  BY DEF CInv, TypeOK, ServerTypeOK, JobInformerTypeOK
<1>1. ASSUME UNCHANGED <<api, fifo, store, jobs, exp, pc, step>>, seen \subseteq seen', Unlisted'
      PROVE  CInv'
  BY <1>1, WritesAlike, Calm DEF Between
<1>2. ASSUME ListJobs PROVE CInv'
  BY <1>0, <1>1, <1>2 DEF ListJobs, Unlisted, serverVars, watchVars, passVars
<1>3. ASSUME NEW j \in jobs, PopJob(j) \/ UpdateJob(j) \/ DropJob(j) PROVE CInv'
  BY <1>0, <1>1, <1>3 DEF PopJob, UpdateJob, DropJob, InformerFree, Unlisted, serverVars, watchVars,
     passVars
<1>4. ASSUME NEW j \in jobs, AddJob(j) PROVE CInv'
  <2>1. /\ UNCHANGED <<api, fifo, store, jobs, jobsListed, toSync, pc, step>>
        /\ seen' = seen \cup {j} /\ exp' \in {exp, exp \ {j.step}} /\ j \notin seen /\ popped' = None
        /\ j = popped \/ InformerFree
    BY <1>4 DEF AddJob, serverVars, watchVars, passVars
  <2>2. Unlisted'
    BY <1>0, <2>1, NoneAssumption DEF Unlisted, InformerFree
  <2>3. Alike /\ (Dead' <=> Dead) /\ DeletionLast'
    BY <2>1, WritesAlike, AlikeFacts DEF CInv
  <2>4. Absent'
    BY <2>1, <2>3 DEF CInv, Absent, Between
  <2>5. \A s \in Steps : Unobserved(s)' \subseteq Unobserved(s)
    BY <2>1 DEF Unobserved
  <2>6. j.step \in Steps => Unobserved(j.step)' = {}
    <3>1. j \in Unobserved(j.step) /\ j \notin Unobserved(j.step)'
      BY <2>1 DEF Unobserved
    <3> QED BY <2>5, <3>1 DEF CInv, Single
  <2>7. Expected'
    BY <2>1, <2>3, <2>5, <2>6 DEF CInv, Expected, Between
  <2>8. Single'
    BY <2>5 DEF CInv, Single
  <2> QED BY <2>2, <2>3, <2>4, <2>7, <2>8 DEF CInv
<1> QED BY <1>2, <1>3, <1>4 DEF JobInformerNext

\* A pass (transitionWorkflow) keeps the invariant.
LEMMA WorkerCInv == ASSUME Quiet, TypeOK, CInv, WorkerNext PROVE CInv'
<1>0. Unlisted /\ WatchTypeOK /\ step \in Steps \cup {None}
  BY DEF CInv, TypeOK, PassTypeOK
<1>1. ~CreateJobLost /\ ~PutLost
  BY DEF Quiet, CreateJobLost, PutLost, Disturb
<1>2. ASSUME Alike, UNCHANGED <<jobs, jobInfVars, exp>>, pc # "expect",
             Between => Between' \/ store # None
      PROVE  CInv'
  BY <1>0, <1>2, Calm DEF Unlisted, jobInfVars
<1>3. ASSUME UNCHANGED <<api, fifo, store, jobs, jobInfVars, exp>>, pc # "expect",
             Between => Between' \/ store # None
      PROVE  CInv'
  BY <1>2, <1>3, WritesAlike
<1>4. ASSUME Get \/ NotSynced \/ Recheck \/ NothingToDo \/ Start PROVE CInv'
  BY <1>3, <1>4 DEF Get, NotSynced, Recheck, NothingToDo, Start, Leave, Between, serverVars, watchVars
<1>5. ASSUME ForgetDeleted PROVE CInv'
  <2>1. /\ pc = "got" /\ store = None /\ exp' = {} /\ pc' = "done"
        /\ UNCHANGED <<api, fifo, store, jobs, jobInfVars>>
    BY <1>5 DEF ForgetDeleted, Leave, serverVars, watchVars
  <2>2. Unlisted' /\ (Dead' <=> Dead) /\ DeletionLast' /\ seen' = seen
    BY <1>0, <2>1, WritesAlike, AlikeFacts DEF CInv, Unlisted, jobInfVars
  <2>3. Absent'
    BY <2>1, <2>2 DEF CInv, Absent, Between
  <2>4. Expected' /\ Single'
    BY <2>1, <2>2 DEF CInv, Absent, Expected, Single, Unobserved, Between
  <2> QED BY <2>2, <2>3, <2>4 DEF CInv
<1>6. pc \in {"process", "steps"} =>
        wf \in Workflow /\ wf.labels \in Labels /\ wf.status \in [Steps -> StepStatus]
  BY DEF TypeOK, PassTypeOK, WorkflowOrNone, Workflow
<1>7. ASSUME pc \in {"process", "steps"}, UNCHANGED <<api, fifo, jobs, jobInfVars, exp>>,
             \E l \in Labels, t \in [Steps -> StepStatus] :
               WriteShared(l, t) \/ UNCHANGED <<store, nameMap>>
      PROVE  CInv'
  <2>1. Alike
    BY <1>7, WritesAlike
  <2> QED BY <1>2, <1>7, <2>1 DEF Between
<1>8. ASSUME Default PROVE CInv'
  <2>1. SetDefaults(wf).labels \in Labels
    BY <1>6, <1>8, SetDefaultsFacts DEF Default, Workflow
  <2> QED BY <1>6, <1>7, <1>8, <2>1 DEF Default, serverVars
<1>9. ASSUME Invalid PROVE CInv'
  <2>1. [wf.labels EXCEPT !["valid"] = "false"] \in Labels
    BY <1>6, <1>9 DEF Invalid, Labels, LabelKeys
  <2> QED BY <1>6, <1>7, <1>9, <2>1 DEF Invalid, serverVars
<1>10. ASSUME Valid PROVE CInv'
  <2>1. [wf.labels EXCEPT !["valid"] = "true"] \in Labels
    BY <1>6, <1>10 DEF Valid, Labels, LabelKeys
  <2> QED BY <1>6, <1>7, <1>10, <2>1 DEF Valid, serverVars
<1>11. ASSUME NEW s \in Steps, StepWithJob(s) PROVE CInv'
  <2>1. \A j : [wf.status EXCEPT ![s] = JobStatus(j)] \in [Steps -> StepStatus]
    BY <1>6, <1>11 DEF StepWithJob, Visit, JobStatus, StepStatus
  <2> QED BY <1>6, <1>7, <1>11, <2>1 DEF StepWithJob, Visit, serverVars
<1>12. ASSUME NEW s \in Steps,
              StepComplete(s) \/ StepBlocked(s) \/ StepWithoutJob(s) \/ StepPanics(s)
       PROVE  CInv'
  BY <1>3, <1>12 DEF StepComplete, StepBlocked, StepWithoutJob, StepPanics, Visit, Between,
     serverVars, watchVars
<1>13. ASSUME AwaitObservation \/ CreateJobFails \/ EndSteps PROVE CInv'
  BY <1>3, <1>13 DEF AwaitObservation, CreateJobFails, EndSteps, Between, serverVars, watchVars
<1>14. ASSUME CreateJob PROVE CInv'
  <2>1. /\ pc = "create" /\ step \notin exp /\ pc' = "expect" /\ step' = step
        /\ jobs' = jobs \cup {NewJob} /\ UNCHANGED <<api, fifo, store, jobInfVars, exp>>
    BY <1>14 DEF CreateJob, watchVars, passVars
  <2>2. Unlisted' /\ (Dead' <=> Dead) /\ DeletionLast' /\ seen' = seen
    BY <1>0, <2>1, WritesAlike, AlikeFacts DEF CInv, Unlisted, jobInfVars
  <2>3. Absent'
    BY <2>1, <2>2 DEF CInv, Absent, Between
  <2>4. step \in Steps => Unobserved(step) = {}
    BY <2>1 DEF CInv, Expected, Between
  <2>5. NewJob.step = step
    BY DEF NewJob
  <2>6. \A s \in Steps : Unobserved(s)' \subseteq
          Unobserved(s) \cup (IF s = step THEN {NewJob} ELSE {})
    BY <2>1, <2>2, <2>5 DEF Unobserved
  <2>7. Expected'
    BY <2>1, <2>2, <2>6 DEF CInv, Expected, Between
  <2>8. Single'
    BY <2>4, <2>6 DEF CInv, Single
  <2> QED BY <2>2, <2>3, <2>7, <2>8 DEF CInv
<1>15. ASSUME ExpectCreation PROVE CInv'
  <2>1. /\ pc = "expect" /\ exp' = exp \cup {step} /\ pc' = "steps"
        /\ UNCHANGED <<api, fifo, store, jobs, jobInfVars>>
    BY <1>15 DEF ExpectCreation, serverVars, watchVars
  <2>2. Unlisted' /\ (Dead' <=> Dead) /\ DeletionLast' /\ seen' = seen
    BY <1>0, <2>1, WritesAlike, AlikeFacts DEF CInv, Unlisted, jobInfVars
  <2>3. Absent' /\ Single'
    BY <2>1, <2>2 DEF CInv, Absent, Single, Unobserved, Between
  <2>4. Expected'
    BY <2>1, <2>2 DEF CInv, Expected, Unobserved, Between
  <2> QED BY <2>2, <2>3, <2>4 DEF CInv
<1>16. ASSUME PutAccepted PROVE CInv'
  <2>1. wf \in Workflow
    BY <1>16 DEF PutAccepted, TypeOK, PassTypeOK, WorkflowOrNone
  <2>2. Alike
    BY <1>16, <2>1, WritesAlike DEF PutAccepted
  <2> QED BY <1>2, <1>16, <2>2 DEF PutAccepted, Leave, Between
<1>17. ASSUME PutConflict \/ PutNotFound \/ PutFails PROVE CInv'
  BY <1>3, <1>17 DEF PutConflict, PutNotFound, PutFails, Leave, Between, serverVars, watchVars
<1>18. ASSUME WakeUp \/ Done PROVE CInv'
  BY <1>3, <1>18 DEF WakeUp, Done, Between, serverVars, watchVars
<1> QED BY <1>1, <1>4, <1>5, <1>8, <1>9, <1>10, <1>11, <1>12, <1>13, <1>14, <1>15, <1>16, <1>17, <1>18
        DEF WorkerNext, StepNext, CreateNext, PutNext

\* Every step keeps the invariant as long as nothing is lost, expired or restarted.
LEMMA NextCInv == TypeOK /\ (Quiet => CInv) /\ [Next]_vars => (Quiet => CInv')
<1> SUFFICES ASSUME Quiet, TypeOK, CInv, [Next]_vars PROVE CInv'
  OBVIOUS
<1>1. CASE UNCHANGED vars
  <2>1. UNCHANGED <<api, fifo, store, jobs, jobsListed, toSync, popped, seen, exp, pc, step>>
    BY <1>1 DEF vars, serverVars, watchVars, jobInfVars, passVars
  <2> QED BY <2>1, WritesAlike, Calm DEF CInv, Unlisted, Between
<1> QED BY <1>1, UserCInv, ClusterCInv, WatchCInv, JobInformerCInv, WorkerCInv DEF Next

\* A step never has two jobs that the informer has not seen, unless an answer is
\* lost, an expectation expires, the controller restarts or a list is answered
\* with an error (transitioner.go:301-314, utils.go).
THEOREM OneOutstanding == Spec => []OneOutstandingCreate
<1>1. Init => (Quiet => CInv)
  BY DEF Init, CInv, DeletionLast, Absent, Unlisted, Expected, Single, Unobserved, Between
<1>2. (Quiet => CInv) => OneOutstandingCreate
  BY DEF Quiet, CInv, Single, OneOutstandingCreate
<1>3. TypeOK /\ (Quiet => CInv) /\ [Next]_vars => (Quiet => CInv)'
  BY NextCInv DEF Quiet
<1> QED BY <1>1, <1>2, <1>3, TypeCorrect, PTL DEF Spec
=============================================================================
