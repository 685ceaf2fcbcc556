------------------------ MODULE WorkflowSafetyProofs ------------------------
(***************************************************************************)
(* That steps are started in dependency order and that completion is       *)
(* sound, whatever happens.  Both rest on one observation: a step status   *)
(* "complete" comes into being only where the job informer shows a         *)
(* finished job, and every copy of the workflow (on the server, in the     *)
(* delta queue, in the store, in the watcher's nameMap, in the worker's    *)
(* hands), however stale, goes back to such a moment.                      *)
(***************************************************************************)
EXTENDS WorkflowControllerProofs

\* The claims that the copy o makes are true if the jobs in D are finished.
BackedBy(o, D) ==
  o # None => /\ \A s \in Steps : o.status[s] = "complete" => \E j \in D : j.step = s
              /\ o.finished => \A s \in Steps : \E j \in D : j.step = s

CopiesBacked ==
  /\ BackedBy(api, done) /\ BackedBy(nameMap, done) /\ BackedBy(store, done)
  /\ BackedBy(wf, done)
  /\ \A i \in DOMAIN fifo : BackedBy(fifo[i], done)

\* createJobForStep runs only for a step whose dependencies the copy shows as
\* complete.
CreateJustified == pc = "create" => \A d \in Deps[step] : wf.status[d] = "complete"

\* The loop of processSteps: as long as workflowComplete holds, every step
\* that was visited is complete.
LoopSound ==
  (pc \in {"steps", "create", "expect"} /\ complete) =>
    \A s \in Steps \ todo : wf.status[s] = "complete"

\* The inductive invariant, next to TypeOK.
SInv == DependencyOrder /\ CopiesBacked /\ CreateJustified /\ LoopSound

-----------------------------------------------------------------------------
\* More finished jobs back more claims.
LEMMA BackedMonotone ==
  ASSUME NEW o, NEW D, NEW E, D \subseteq E, BackedBy(o, D)
  PROVE  BackedBy(o, E)
BY DEF BackedBy

\* A copy that differs in neither statuses nor completion is backed as well.
LEMMA BackedAlike ==
  ASSUME NEW o, NEW p, NEW D, BackedBy(o, D), o # None,
         p.status = o.status, p.finished = o.finished
  PROVE  BackedBy(p, D)
BY DEF BackedBy

\* So is a copy that becomes stale.
LEMMA BackedStale ==
  ASSUME NEW o \in WorkflowOrNone, NEW D, BackedBy(o, D)
  PROVE  BackedBy(Stale(o), D)
BY StaleFacts DEF BackedBy

\* Nothing is backed by an absent object.
LEMMA BackedNone == ASSUME NEW D PROVE BackedBy(None, D)
BY DEF BackedBy

\* Dependency order survives every step that creates no job.
LEMMA OrderKept ==
  ASSUME DependencyOrder, done \subseteq done', jobs' = jobs
  PROVE  DependencyOrder'
BY DEF DependencyOrder, Finished

\* A server write of a backed object keeps all copies backed.
LEMMA ServerWritesBacked ==
  ASSUME TypeOK, CopiesBacked, NEW o \in Workflow, BackedBy(o, done), ServerWrites(o),
         done' = done
  PROVE  /\ BackedBy(api', done') /\ BackedBy(nameMap', done') /\ BackedBy(store', done')
         /\ \A i \in DOMAIN fifo' : BackedBy(fifo'[i], done')
<1>1. WatchTypeOK
  BY DEF TypeOK
<1>2. BackedBy(api', done')
  BY <1>1, ServerWritesFacts, BackedAlike, NoneAssumption
<1>3. BackedBy(nameMap', done') /\ BackedBy(store', done')
  BY <1>1, ServerWritesFacts, BackedStale DEF CopiesBacked, WatchTypeOK
<1>4. ASSUME NEW i \in DOMAIN fifo' PROVE BackedBy(fifo'[i], done')
  <2>1. i \in DOMAIN fifo /\ fifo'[i] = Stale(fifo[i]) /\ fifo[i] \in WorkflowOrNone
    BY <1>1, <1>4, ServerWritesFacts
  <2> QED BY <2>1, BackedStale DEF CopiesBacked
<1> QED BY <1>2, <1>3, <1>4

\* Writing statuses that are backed through the shared maps keeps the copies
\* backed.
LEMMA WriteSharedBacked ==
  ASSUME TypeOK, CopiesBacked, NEW l \in Labels, NEW t \in [Steps -> StepStatus],
         \A s \in Steps : t[s] = "complete" => \E j \in done : j.step = s,
         WriteShared(l, t), done' = done
  PROVE  BackedBy(nameMap', done') /\ BackedBy(store', done')
<1>1. WatchTypeOK
  BY DEF TypeOK
<1>2. /\ (store' = None) <=> (store = None)
      /\ (nameMap' = None) <=> (nameMap = None)
      /\ store # None => store'.status \in {store.status, t} /\ store'.finished = store.finished
      /\ nameMap # None => nameMap'.status \in {nameMap.status, t} /\ nameMap'.finished = nameMap.finished
  BY <1>1, WriteSharedFacts
<1>3. BackedBy(store', done')
  BY <1>2 DEF BackedBy, CopiesBacked
<1>4. BackedBy(nameMap', done')
  BY <1>2 DEF BackedBy, CopiesBacked
<1> QED BY <1>3, <1>4

-----------------------------------------------------------------------------
\* Initially there is no job and nothing is claimed.
LEMMA InitSInv == Init => SInv
<1> SUFFICES ASSUME Init PROVE SInv
  OBVIOUS
<1>1. BackedBy(api, done)
  BY SubmittedFacts DEF Init, BackedBy, NoStatus
<1>2. CopiesBacked
  BY <1>1 DEF Init, CopiesBacked, BackedBy
<1> QED BY <1>2 DEF Init, SInv, DependencyOrder, CreateJustified, LoopSound

\* Steps outside the worker.
LEMMA OutsideSInv ==
  ASSUME TypeOK, SInv, UserNext \/ ClusterNext \/ WatchNext \/ JobInformerNext
  PROVE  SInv'
<1>0. CopiesBacked /\ DependencyOrder /\ CreateJustified /\ LoopSound
  BY DEF SInv
<1>1. ASSUME NEW o \in Workflow, BackedBy(o, done), ServerWrites(o), wf' = Stale(wf),
             UNCHANGED <<jobs, done, pc, passVars>>
      PROVE  SInv'
  <2>1. CopiesBacked'
    <3>1. BackedBy(wf', done')
      BY <1>0, <1>1, BackedStale DEF CopiesBacked, TypeOK, PassTypeOK
    <3> QED BY <1>0, <1>1, <3>1, ServerWritesBacked DEF CopiesBacked
  <2>2. pc \in {"steps", "create", "expect"} => wf'.status = wf.status
    BY <1>1, StaleFacts DEF TypeOK, PassTypeOK
  <2>3. CreateJustified' /\ LoopSound'
    BY <1>0, <1>1, <2>2 DEF CreateJustified, LoopSound, passVars
  <2> QED BY <1>0, <1>1, <2>1, <2>3, OrderKept DEF SInv
<1>2. ASSUME NEW k \in LabelKeys, NEW v \in {"absent", "true", "false"}, SetLabel(k, v)
      PROVE  SInv'
  <2> DEFINE o == [api EXCEPT !.labels[k] = v]
  <2>1. api \in Workflow /\ api # None
    BY <1>2 DEF SetLabel, TypeOK, ServerTypeOK, WorkflowOrNone
  <2>2. o \in Workflow /\ o.status = api.status /\ o.finished = api.finished
    BY <1>2, <2>1 DEF Workflow, Labels
  <2>3. BackedBy(o, done)
    BY <1>0, <2>1, <2>2, BackedAlike DEF CopiesBacked
  <2>4. ServerWrites(o) /\ wf' = Stale(wf) /\ UNCHANGED <<jobs, done, pc, passVars>>
    BY <1>2 DEF SetLabel
  <2> HIDE DEF o
  <2> QED BY <1>1, <2>2, <2>3, <2>4
<1>3. ASSUME FixSpec PROVE SInv'
  <2> DEFINE o == [api EXCEPT !.ok = TRUE]
  <2>1. api \in Workflow /\ api # None
    BY <1>3 DEF FixSpec, TypeOK, ServerTypeOK, WorkflowOrNone
  <2>2. o \in Workflow /\ o.status = api.status /\ o.finished = api.finished
    BY <2>1 DEF Workflow
  <2>3. BackedBy(o, done)
    BY <1>0, <2>1, <2>2, BackedAlike DEF CopiesBacked
  <2>4. ServerWrites(o) /\ wf' = Stale(wf) /\ UNCHANGED <<jobs, done, pc, passVars>>
    BY <1>3 DEF FixSpec
  <2> HIDE DEF o
  <2> QED BY <1>1, <2>2, <2>3, <2>4
<1>4. ASSUME DeleteWorkflow PROVE SInv'
  BY <1>0, <1>4, OrderKept DEF DeleteWorkflow, SInv, CopiesBacked, BackedBy, CreateJustified, LoopSound,
     watchVars, passVars
<1>5. ASSUME NEW j \in jobs, FinishJob(j) PROVE SInv'
  <2>1. done \subseteq done' /\ UNCHANGED <<api, jobs, watchVars, pc, wf, passVars>>
    BY <1>5 DEF FinishJob
  <2>2. CopiesBacked'
    BY <1>0, <2>1, BackedMonotone DEF CopiesBacked, watchVars
  <2> QED BY <1>0, <2>1, <2>2, OrderKept DEF SInv, CreateJustified, LoopSound, passVars
<1>6. ASSUME UNCHANGED <<api, jobs, done, nameMap, store, fifo, wf, pc, step, complete, todo>>
      PROVE  SInv'
  BY <1>6 DEF SInv, DependencyOrder, Finished, CopiesBacked, BackedBy, CreateJustified, LoopSound
<1>7. ASSUME (\E j \in jobs : DeleteJob(j)) \/ (\E s \in Steps : Expire(s)) \/ PollError
             \/ ListStatus \/ JobInformerNext
      PROVE  SInv'
  BY <1>6, <1>7 DEF DeleteJob, Expire, PollError, ListStatus, JobInformerNext, ListJobs, PopJob, AddJob, UpdateJob,
     DropJob, serverVars, watchVars, passVars
<1>8. ASSUME Crash PROVE SInv'
  BY <1>0, <1>8, OrderKept DEF Crash, SInv, CopiesBacked, BackedBy, CreateJustified, LoopSound, serverVars
<1>9. ASSUME UNCHANGED <<api, jobs, done, wf, pc, step, complete, todo>>,
             BackedBy(nameMap', done), BackedBy(store', done),
             \A i \in DOMAIN fifo' : BackedBy(fifo'[i], done)
      PROVE  SInv'
  <2>1. CopiesBacked'
    BY <1>0, <1>9 DEF CopiesBacked
  <2> QED BY <1>0, <1>9, <2>1, OrderKept DEF SInv, CreateJustified, LoopSound
<1>10. ASSUME ListWorkflows PROVE SInv'
  <2>1. \A i \in DOMAIN fifo' : fifo'[i] = api
    BY <1>10 DEF ListWorkflows
  <2> QED BY <1>0, <1>9, <1>10, <2>1 DEF ListWorkflows, CopiesBacked, serverVars, passVars
<1>11. ASSUME NEW o \in WorkflowOrNone, BackedBy(o, done), PollLists(o),
              UNCHANGED <<serverVars, pc, wf, passVars>>
       PROVE  SInv'
  <2>1. ASSUME NEW p \in WorkflowOrNone, BackedBy(p, done), NEW i \in DOMAIN Append(fifo, p)
        PROVE  BackedBy(Append(fifo, p)[i], done)
    <3>1. fifo \in Seq(WorkflowOrNone)
      BY DEF TypeOK, WatchTypeOK
    <3>2. Append(fifo, p)[i] = p \/ (i \in DOMAIN fifo /\ Append(fifo, p)[i] = fifo[i])
      BY <2>1, <3>1
    <3> QED BY <1>0, <2>1, <3>2 DEF CopiesBacked
  <2>2. fifo' \in {fifo, Append(fifo, o), Append(fifo, None)}
    BY <1>11 DEF PollLists
  <2>3. None \in WorkflowOrNone /\ BackedBy(None, done)
    BY BackedNone DEF WorkflowOrNone
  <2>4. \A i \in DOMAIN fifo' : BackedBy(fifo'[i], done)
    BY <1>0, <1>11, <2>1, <2>2, <2>3 DEF CopiesBacked
  <2> QED BY <1>0, <1>9, <1>11, <2>4 DEF PollLists, CopiesBacked, serverVars, passVars
<1>12. ASSUME Poll \/ PollStatus PROVE SInv'
  <2>1. CASE Poll
    BY <1>0, <1>11, <2>1 DEF Poll, CopiesBacked, TypeOK, ServerTypeOK
  <2>2. CASE PollStatus
    BY <1>11, <2>2, BackedNone DEF PollStatus, WorkflowOrNone
  <2> QED BY <1>12, <2>1, <2>2
<1>13. ASSUME Deliver PROVE SInv'
  <2>1. fifo \in Seq(WorkflowOrNone) /\ fifo # <<>>
    BY <1>13 DEF Deliver, TypeOK, WatchTypeOK
  <2>2. 1 \in DOMAIN fifo /\ Head(fifo) = fifo[1]
        /\ \A i \in DOMAIN Tail(fifo) : i + 1 \in DOMAIN fifo /\ Tail(fifo)[i] = fifo[i + 1]
    BY <2>1
  <2> QED BY <1>0, <1>9, <1>13, <2>2 DEF Deliver, CopiesBacked, serverVars
<1>14. ASSUME Resync PROVE SInv'
  BY <1>0, <1>9, <1>14, BackedNone DEF Resync, CopiesBacked, serverVars, passVars
<1>15. ASSUME UserNext PROVE SInv'
  BY <1>2, <1>3, <1>4, <1>15 DEF UserNext, SetPause, Relabel, LabelKeys
<1> QED BY <1>5, <1>7, <1>8, <1>10, <1>12, <1>13, <1>14, <1>15 DEF ClusterNext, WatchNext

\* Steps of the worker.
LEMMA WorkerSInv == ASSUME TypeOK, SInv, WorkerNext PROVE SInv'
<1>0. CopiesBacked /\ DependencyOrder /\ CreateJustified /\ LoopSound
  BY DEF SInv
<1>1. pc \in {"process", "steps", "create", "expect", "put"} => wf \in Workflow /\ wf # None
  BY NoneAssumption DEF TypeOK, PassTypeOK, WorkflowOrNone
<1>2. ASSUME UNCHANGED <<api, jobs, done, nameMap, store, fifo>>, BackedBy(wf', done),
             CreateJustified', LoopSound'
      PROVE  SInv'
  <2>1. CopiesBacked'
    BY <1>0, <1>2 DEF CopiesBacked
  <2> QED BY <1>0, <1>2, <2>1, OrderKept DEF SInv
<1>3. ASSUME NEW next \in {"done", "sleep"}, Leave(next)
      PROVE  wf' = None /\ BackedBy(wf', done) /\ CreateJustified' /\ LoopSound'
  BY <1>3, BackedNone DEF Leave, CreateJustified, LoopSound
<1>4. ASSUME NEW next \in {"done", "sleep"}, Leave(next), UNCHANGED <<serverVars, watchVars>>
      PROVE  SInv'
  BY <1>2, <1>3, <1>4 DEF serverVars, watchVars
<1>5. ASSUME ForgetDeleted \/ Recheck \/ NothingToDo \/ (\E s \in Steps : StepPanics(s))
             \/ PutNotFound \/ PutFails
      PROVE  SInv'
  BY <1>4, <1>5 DEF ForgetDeleted, Recheck, NothingToDo, StepPanics, PutNotFound, PutFails
<1>6. ASSUME Get \/ NotSynced \/ WakeUp \/ Done PROVE SInv'
  <2>1. UNCHANGED <<serverVars, watchVars, wf>> /\ pc' \in {"got", "recheck", "done", "idle"}
    BY <1>6 DEF Get, NotSynced, WakeUp, Done
  <2> QED BY <1>0, <1>2, <2>1 DEF CopiesBacked, CreateJustified, LoopSound, serverVars, watchVars
<1>7. ASSUME Start PROVE SInv'
  BY <1>0, <1>2, <1>7 DEF Start, CopiesBacked, CreateJustified, LoopSound, serverVars, watchVars
<1>8. ASSUME NEW l \in Labels, NEW t \in [Steps -> StepStatus],
             \A s \in Steps : t[s] = "complete" => \E j \in done : j.step = s,
             WriteShared(l, t) \/ UNCHANGED <<store, nameMap>>,
             UNCHANGED <<api, jobs, done, fifo>>, BackedBy(wf', done), CreateJustified', LoopSound'
      PROVE  SInv'
  <2>1. BackedBy(nameMap', done') /\ BackedBy(store', done')
    BY <1>0, <1>8, WriteSharedBacked DEF CopiesBacked
  <2>2. CopiesBacked'
    BY <1>0, <1>8, <2>1 DEF CopiesBacked
  <2> QED BY <1>0, <1>8, <2>2, OrderKept DEF SInv
<1>9. pc \in {"process", "steps", "create", "expect", "put"} =>
        /\ wf.labels \in Labels /\ wf.status \in [Steps -> StepStatus]
        /\ \A s \in Steps : wf.status[s] = "complete" => \E j \in done : j.step = s
  BY <1>0, <1>1 DEF CopiesBacked, BackedBy, Workflow
<1>10. ASSUME Default PROVE SInv'
  <2>1. wf \in Workflow /\ wf # None /\ wf' = SetDefaults(wf) /\ pc' = "put"
    BY <1>1, <1>10 DEF Default
  <2>2. wf'.status = NoStatus /\ wf'.finished = wf.finished /\ SetDefaults(wf).labels \in Labels
    BY <2>1, SetDefaultsFacts DEF Workflow
  <2>3. BackedBy(wf', done)
    BY <1>0, <2>1, <2>2 DEF CopiesBacked, BackedBy, NoStatus
  <2>4. CreateJustified' /\ LoopSound'
    BY <2>1 DEF CreateJustified, LoopSound
  <2> QED BY <1>8, <1>9, <1>10, <2>2, <2>3, <2>4 DEF Default, serverVars
<1>11. ASSUME Invalid PROVE SInv'
  <2> DEFINE l == [wf.labels EXCEPT !["valid"] = "false"]
  <2>1. wf \in Workflow /\ wf # None
    BY <1>1, <1>11 DEF Invalid
  <2>2. CASE wf.labels["valid"] = "absent"
    <3>1. WriteShared(l, wf.status) /\ wf' = [wf EXCEPT !.labels = l] /\ pc' = "put"
      BY <1>11, <2>2 DEF Invalid
    <3>2. l \in Labels /\ wf'.status = wf.status /\ wf'.finished = wf.finished
      BY <2>1, <3>1 DEF Workflow, Labels, LabelKeys
    <3>3. BackedBy(wf', done)
      BY <1>0, <2>1, <3>2, BackedAlike DEF CopiesBacked
    <3>4. CreateJustified' /\ LoopSound'
      BY <3>1 DEF CreateJustified, LoopSound
    <3> HIDE DEF l
    <3> QED BY <1>8, <1>9, <1>11, <3>1, <3>2, <3>3, <3>4 DEF Invalid, serverVars
  <2>3. CASE wf.labels["valid"] # "absent"
    BY <1>4, <1>11, <2>3 DEF Invalid, watchVars
  <2> QED BY <2>2, <2>3
<1>12. ASSUME Valid PROVE SInv'
  <2> DEFINE l == [wf.labels EXCEPT !["valid"] = "true"]
  <2>1. wf \in Workflow /\ wf # None
    BY <1>1, <1>12 DEF Valid
  <2>2. WriteShared(l, wf.status) /\ wf' = [wf EXCEPT !.labels = l] /\ pc' = "steps" /\ todo' = Steps
    BY <1>12 DEF Valid
  <2>3. l \in Labels /\ wf'.status = wf.status /\ wf'.finished = wf.finished
    BY <2>1, <2>2 DEF Workflow, Labels, LabelKeys
  <2>4. BackedBy(wf', done)
    BY <1>0, <2>1, <2>3, BackedAlike DEF CopiesBacked
  <2>5. CreateJustified' /\ LoopSound'
    BY <2>2 DEF CreateJustified, LoopSound
  <2> HIDE DEF l
  <2> QED BY <1>8, <1>9, <1>12, <2>2, <2>3, <2>4, <2>5 DEF Valid, serverVars
<1>13. ASSUME NEW s \in Steps, StepComplete(s) \/ StepBlocked(s) \/ StepWithoutJob(s) PROVE SInv'
  <2>1. UNCHANGED <<serverVars, watchVars, wf>> /\ Visit(s)
    BY <1>13 DEF StepComplete, StepBlocked, StepWithoutJob
  <2>2. CreateJustified'
    BY <1>0, <1>13, <2>1 DEF StepComplete, StepBlocked, StepWithoutJob, Visit, CreateJustified,
       DependenciesResolved
  <2>3. LoopSound'
    BY <1>0, <1>13 DEF StepComplete, StepBlocked, StepWithoutJob, Visit, LoopSound
  <2> QED BY <1>0, <1>2, <2>1, <2>2, <2>3 DEF CopiesBacked, serverVars, watchVars
<1>14. ASSUME NEW s \in Steps, StepWithJob(s) PROVE SInv'
  <2>1. wf \in Workflow /\ wf # None /\ pc = "steps" /\ pc' = "steps" /\ complete' = FALSE
    BY <1>1, <1>14 DEF StepWithJob, Visit
  <2>2. PICK j \in JobStore :
          /\ MatchingJobs(s) = {j}
          /\ wf' = [wf EXCEPT !.status[s] = JobStatus(j)]
          /\ WriteShared(wf.labels, [wf.status EXCEPT ![s] = JobStatus(j)])
    BY <1>14 DEF StepWithJob
  <2> DEFINE t == [wf.status EXCEPT ![s] = JobStatus(j)]
  <2>3. JobStatus(j) \in StepStatus
    BY DEF JobStatus, StepStatus
  <2>4. t \in [Steps -> StepStatus] /\ wf'.status = t /\ wf'.finished = wf.finished
    BY <2>1, <2>2, <2>3 DEF Workflow
  <2>5. j.step = s
    BY <2>2 DEF MatchingJobs
  <2>6. JobStatus(j) = "complete" => j \in done
    BY DEF JobStatus, TypeOK, JobInformerTypeOK
  <2>7. \A r \in Steps : t[r] = "complete" => \E i \in done : i.step = r
    BY <1>9, <2>1, <2>5, <2>6
  <2>8. BackedBy(wf', done)
    BY <1>0, <2>1, <2>4, <2>7 DEF CopiesBacked, BackedBy
  <2>9. CreateJustified' /\ LoopSound'
    BY <2>1 DEF CreateJustified, LoopSound
  <2> HIDE DEF t
  <2> QED BY <1>8, <1>9, <1>14, <2>1, <2>2, <2>4, <2>7, <2>8, <2>9 DEF StepWithJob, serverVars, t
<1>15. ASSUME AwaitObservation \/ ExpectCreation \/ CreateJobFails PROVE SInv'
  <2>1. UNCHANGED <<serverVars, watchVars, wf, todo, complete>> /\ pc' = "steps"
        /\ pc \in {"create", "expect"}
    BY <1>15 DEF AwaitObservation, ExpectCreation, CreateJobFails
  <2> QED BY <1>0, <1>2, <2>1 DEF CopiesBacked, CreateJustified, LoopSound, serverVars, watchVars
<1>16. ASSUME CreateJob \/ CreateJobLost PROVE SInv'
  <2>1. /\ pc = "create" /\ jobs' = jobs \cup {NewJob} /\ pc' \in {"expect", "steps"}
        /\ UNCHANGED <<api, done, watchVars, wf, todo, complete>>
    BY <1>16 DEF CreateJob, CreateJobLost, passVars
  <2>2. step \in Steps /\ NewJob.step = step
    BY <2>1, ConstantsAssumption DEF TypeOK, PassTypeOK, NewJob
  <2>3. \A d \in Deps[step] : d \in Steps /\ wf.status[d] = "complete"
    BY <1>0, <2>1, <2>2, ConstantsAssumption DEF CreateJustified
  <2>4. \A d \in Deps[step] : \E j \in done : j.step = d
    BY <1>9, <2>1, <2>3
  <2>5. DependencyOrder'
    BY <1>0, <2>1, <2>2, <2>4 DEF DependencyOrder, Finished
  <2>6. CopiesBacked'
    BY <1>0, <2>1 DEF CopiesBacked, watchVars
  <2> QED BY <1>0, <2>1, <2>5, <2>6 DEF SInv, CreateJustified, LoopSound
<1>17. ASSUME EndSteps PROVE SInv'
  <2>1. CASE complete \/ update
    <3>1. wf \in Workflow /\ wf # None /\ pc = "steps" /\ todo = {}
      BY <1>1, <1>17 DEF EndSteps
    <3>2. wf' = [wf EXCEPT !.finished = @ \/ complete] /\ pc' = "put"
          /\ UNCHANGED <<serverVars, watchVars>>
      BY <1>17, <2>1 DEF EndSteps
    <3>3. wf'.status = wf.status /\ wf'.finished = (wf.finished \/ complete)
      BY <3>1, <3>2 DEF Workflow
    <3>4. complete => \A s \in Steps : \E j \in done : j.step = s
      BY <1>0, <1>9, <3>1 DEF LoopSound
    <3>5. BackedBy(wf', done)
      BY <1>0, <3>1, <3>3, <3>4 DEF CopiesBacked, BackedBy
    <3> QED BY <1>2, <3>2, <3>5 DEF CreateJustified, LoopSound, serverVars, watchVars
  <2>2. CASE ~(complete \/ update)
    BY <1>4, <1>17, <2>2 DEF EndSteps
  <2> QED BY <2>1, <2>2
<1>18. ASSUME PutAccepted \/ PutLost PROVE SInv'
  <2>1. wf \in Workflow /\ ServerWrites(wf) /\ UNCHANGED <<jobs, done>>
    BY <1>1, <1>18 DEF PutAccepted, PutLost
  <2>2. BackedBy(wf', done) /\ CreateJustified' /\ LoopSound'
    BY <1>3, <1>18 DEF PutAccepted, PutLost
  <2>3. CopiesBacked'
    BY <1>0, <2>1, <2>2, ServerWritesBacked DEF CopiesBacked
  <2> QED BY <1>0, <2>1, <2>2, <2>3, OrderKept DEF SInv
<1>19. ASSUME PutConflict PROVE SInv'
  <2>1. CASE tries < retryOnStatusConflict
    <3>1. wf \in Workflow /\ wf # None /\ pc' = "put"
      BY <1>1, <1>19, <2>1 DEF PutConflict
    <3>2. wf'.status = wf.status /\ wf'.finished = wf.finished
      BY <1>19, <2>1, <3>1 DEF PutConflict, Workflow
    <3>3. BackedBy(wf', done)
      BY <1>0, <3>1, <3>2, BackedAlike DEF CopiesBacked
    <3> QED BY <1>2, <1>19, <3>1, <3>3 DEF PutConflict, CreateJustified, LoopSound, serverVars, watchVars
  <2>2. CASE ~(tries < retryOnStatusConflict)
    BY <1>4, <1>19, <2>2 DEF PutConflict
  <2> QED BY <2>1, <2>2
<1> QED BY <1>5, <1>6, <1>7, <1>10, <1>11, <1>12, <1>13, <1>14, <1>15, <1>16, <1>17, <1>18, <1>19
        DEF WorkerNext, StepNext, CreateNext, PutNext

\* The invariant is inductive, relative to TypeOK.
LEMMA NextSInv == TypeOK /\ SInv /\ [Next]_vars => SInv'
<1> SUFFICES ASSUME TypeOK, SInv, [Next]_vars PROVE SInv'
  OBVIOUS
<1>1. CASE UNCHANGED vars
  BY <1>1 DEF vars, serverVars, watchVars, passVars, SInv, DependencyOrder, Finished, CopiesBacked,
              BackedBy, CreateJustified, LoopSound
<1> QED BY <1>1, OutsideSInv, WorkerSInv DEF Next

\* The invariant holds throughout.
LEMMA SpecSInv == Spec => []SInv
BY InitSInv, NextSInv, TypeCorrect, PTL DEF Spec

\* Jobs are created in dependency order, whatever is stale, lost, repeated or
\* restarted: createJobForStep runs only for steps whose dependencies finished.
THEOREM DependencyOrderHolds == Spec => []DependencyOrder
<1>1. SInv => DependencyOrder
  BY DEF SInv
<1> QED BY <1>1, SpecSInv, PTL

\* The server never shows a workflow as complete before every step had a
\* finished job, although the status on the server is a copy of copies.
THEOREM CompletionIsSound == Spec => []CompletionSound
<1>1. SInv => CompletionSound
  BY DEF SInv, CopiesBacked, BackedBy, CompletionSound, Finished
<1> QED BY <1>1, SpecSInv, PTL
=============================================================================
