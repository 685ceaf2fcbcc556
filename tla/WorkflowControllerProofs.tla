---------------------- MODULE WorkflowControllerProofs ----------------------
(***************************************************************************)
(* Proofs about the controller, for every set of steps, every dependency   *)
(* relation, every combination of disturbances and every bound.            *)
(***************************************************************************)
EXTENDS WorkflowController, FiniteSetTheorems, SequenceTheorems, TLAPS

-----------------------------------------------------------------------------
(* Facts about the helpers.                                                *)

\* Making a copy stale changes nothing but its resourceVersion.
LEMMA StaleFacts ==
  ASSUME NEW o \in WorkflowOrNone
  PROVE  /\ Stale(o) \in WorkflowOrNone
         /\ Stale(o) = None <=> o = None
         /\ o # None => /\ Stale(o).status = o.status
                        /\ Stale(o).finished = o.finished
<1>1. CASE o = None
  BY <1>1 DEF Stale, WorkflowOrNone
<1>2. CASE o # None
  <2>1. o \in Workflow
    BY <1>2 DEF WorkflowOrNone
  <2>2. Stale(o) \in Workflow /\ Stale(o).status = o.status /\ Stale(o).finished = o.finished
    BY <1>2, <2>1 DEF Stale, Workflow
  <2> QED BY <1>2, <2>2, NoneAssumption DEF WorkflowOrNone
<1> QED BY <1>1, <1>2

\* What a server write leaves of the copies.
LEMMA ServerWritesFacts ==
  ASSUME WatchTypeOK, NEW o \in Workflow, ServerWrites(o)
  PROVE  /\ api' \in Workflow /\ api'.status = o.status /\ api'.finished = o.finished
         /\ store' = Stale(store) /\ nameMap' = Stale(nameMap)
         /\ store' \in WorkflowOrNone /\ nameMap' \in WorkflowOrNone
         /\ fifo' \in Seq(WorkflowOrNone) /\ DOMAIN fifo' = DOMAIN fifo
         /\ Len(fifo') = Len(fifo)
         /\ \A i \in DOMAIN fifo : fifo'[i] = Stale(fifo[i]) /\ fifo[i] \in WorkflowOrNone
<1>1. api' \in Workflow /\ api'.status = o.status /\ api'.finished = o.finished
  BY DEF ServerWrites, Workflow
<1>2. store' = Stale(store) /\ nameMap' = Stale(nameMap)
      /\ store' \in WorkflowOrNone /\ nameMap' \in WorkflowOrNone
  BY StaleFacts DEF ServerWrites, WatchTypeOK
<1>3. DOMAIN fifo = 1 .. Len(fifo) /\ Len(fifo) \in Nat
      /\ \A i \in DOMAIN fifo : fifo[i] \in WorkflowOrNone
  BY DEF WatchTypeOK
<1>4. fifo' = [i \in 1 .. Len(fifo) |-> Stale(fifo[i])]
  BY <1>3 DEF ServerWrites
<1>5. \A i \in 1 .. Len(fifo) : Stale(fifo[i]) \in WorkflowOrNone
  BY <1>3, StaleFacts
<1>6. fifo' \in Seq(WorkflowOrNone)
  BY <1>3, <1>4, <1>5
<1>7. DOMAIN fifo' = DOMAIN fifo /\ Len(fifo') = Len(fifo)
  BY <1>3, <1>4, <1>6
<1> QED BY <1>1, <1>2, <1>3, <1>4, <1>6, <1>7

\* What writing through the shared maps does to the copies.
LEMMA WriteSharedFacts ==
  ASSUME WatchTypeOK, NEW l \in Labels, NEW t \in [Steps -> StepStatus], WriteShared(l, t)
  PROVE  /\ store' \in WorkflowOrNone /\ nameMap' \in WorkflowOrNone
         /\ (store' = None) <=> (store = None)
         /\ (nameMap' = None) <=> (nameMap = None)
         /\ store # None => /\ store'.status \in {store.status, t}
                            /\ store'.finished = store.finished
         /\ nameMap # None => /\ nameMap'.status \in {nameMap.status, t}
                              /\ nameMap'.finished = nameMap.finished
<1>1. \A o \in Workflow : LET p == [o EXCEPT !.labels = l, !.status = t]
                          IN  p \in Workflow /\ p.status = t /\ p.finished = o.finished
  BY DEF Workflow
<1>2. /\ store' \in WorkflowOrNone
      /\ (store' = None) <=> (store = None)
      /\ store # None => store'.status \in {store.status, t} /\ store'.finished = store.finished
  BY <1>1, NoneAssumption DEF WriteShared, WatchTypeOK, WorkflowOrNone
<1>3. /\ nameMap' \in WorkflowOrNone
      /\ (nameMap' = None) <=> (nameMap = None)
      /\ nameMap # None => nameMap'.status \in {nameMap.status, t} /\ nameMap'.finished = nameMap.finished
  BY <1>1, NoneAssumption DEF WriteShared, WatchTypeOK, WorkflowOrNone
<1> QED BY <1>2, <1>3

\* SetDefaults keeps the object a workflow, and none of its steps complete.
LEMMA SetDefaultsFacts ==
  ASSUME NEW o \in Workflow
  PROVE  /\ SetDefaults(o) \in Workflow
         /\ SetDefaults(o).finished = o.finished
         /\ SetDefaults(o).status = NoStatus
BY DEF SetDefaults, Workflow, Labels, LabelKeys, NoStatus, StepStatus

-----------------------------------------------------------------------------
(* Type correctness.                                                       *)

\* The submitted workflow is a workflow.
LEMMA SubmittedFacts ==
  Submitted \in Workflow /\ ~Submitted.finished /\ Submitted.status = NoStatus
BY ConstantsAssumption DEF Submitted, Workflow, Labels, LabelKeys, NoStatus, StepStatus

\* The initial state is type correct.
LEMMA InitTypeOK == Init => TypeOK
<1> SUFFICES ASSUME Init PROVE TypeOK
  OBVIOUS
<1>1. ServerTypeOK
  BY SubmittedFacts, FS_EmptySet, ConstantsAssumption DEF Init, ServerTypeOK, WorkflowOrNone
<1>2. WatchTypeOK
  BY EmptySeq DEF Init, WatchTypeOK, WorkflowOrNone
<1>3. JobInformerTypeOK
  BY DEF Init, JobInformerTypeOK
<1>4. PassTypeOK
  BY DEF Init, PassTypeOK, WorkflowOrNone, PCs
<1> QED BY <1>1, <1>2, <1>3, <1>4 DEF TypeOK

\* An action of the user keeps the types.
LEMMA UserTypeOK == ASSUME TypeOK, UserNext PROVE TypeOK'
<1>1. ASSUME NEW o \in Workflow, ServerWrites(o), wf' = Stale(wf), budget' \in Nat,
             UNCHANGED <<jobs, done, gone, watch, aliased, jobInfVars, exp, dirty, pc, passVars>>
      PROVE  TypeOK'
  <2>1. ServerTypeOK' /\ WatchTypeOK'
    BY <1>1, ServerWritesFacts DEF TypeOK, ServerTypeOK, WatchTypeOK, WorkflowOrNone
  <2>2. JobInformerTypeOK'
    BY <1>1 DEF TypeOK, JobInformerTypeOK, jobInfVars
  <2>3. wf' \in WorkflowOrNone /\ (wf' = None <=> wf = None)
    BY <1>1, StaleFacts DEF TypeOK, PassTypeOK
  <2>4. PassTypeOK'
    BY <1>1, <2>3 DEF TypeOK, PassTypeOK, passVars
  <2> QED BY <2>1, <2>2, <2>4 DEF TypeOK
<1>2. ASSUME NEW kind, Disturb(kind) PROVE budget' \in Nat
  BY <1>2 DEF Disturb, TypeOK, ServerTypeOK
<1>3. ASSUME NEW k \in LabelKeys, NEW v \in {"absent", "true", "false"}, SetLabel(k, v),
             budget' \in Nat
      PROVE  TypeOK'
  <2>1. api \in Workflow
    BY <1>3 DEF SetLabel, TypeOK, ServerTypeOK, WorkflowOrNone
  <2>2. [api EXCEPT !.labels[k] = v] \in Workflow
    BY <2>1 DEF Workflow, Labels
  <2> QED BY <1>1, <1>3, <2>2 DEF SetLabel
<1>4. ASSUME FixSpec PROVE TypeOK'
  <2>1. api \in Workflow
    BY <1>4 DEF FixSpec, TypeOK, ServerTypeOK, WorkflowOrNone
  <2>2. [api EXCEPT !.ok = TRUE] \in Workflow
    BY <2>1 DEF Workflow
  <2> QED BY <1>1, <1>2, <1>4, <2>2 DEF FixSpec
<1>5. ASSUME DeleteWorkflow PROVE TypeOK'
  <2>1. budget' \in Nat
    BY <1>2, <1>5 DEF DeleteWorkflow
  <2> QED BY <1>5, <2>1 DEF DeleteWorkflow, TypeOK, ServerTypeOK, WatchTypeOK, JobInformerTypeOK,
          PassTypeOK, watchVars, jobInfVars, passVars, WorkflowOrNone
<1>6. ASSUME NEW v \in {"true", "false"}, SetPause(v) PROVE TypeOK'
  BY <1>2, <1>3, <1>6 DEF SetPause, LabelKeys
<1>7. ASSUME NEW v \in {"absent", "true", "false"}, Relabel(v) PROVE TypeOK'
  BY <1>2, <1>3, <1>7 DEF Relabel, LabelKeys
<1> QED BY <1>4, <1>5, <1>6, <1>7 DEF UserNext

\* An action of the cluster keeps the types.
LEMMA ClusterTypeOK == ASSUME TypeOK, ClusterNext PROVE TypeOK'
<1>1. ASSUME NEW kind, Disturb(kind) PROVE budget' \in Nat
  BY <1>1 DEF Disturb, TypeOK, ServerTypeOK
<1>2. ASSUME NEW j \in jobs, FinishJob(j) PROVE TypeOK'
  BY <1>2 DEF FinishJob, TypeOK, ServerTypeOK, WatchTypeOK, JobInformerTypeOK, PassTypeOK,
              watchVars, jobInfVars, passVars
<1>3. ASSUME NEW j \in jobs, DeleteJob(j) PROVE TypeOK'
  <2>1. budget' \in Nat
    BY <1>1, <1>3 DEF DeleteJob
  <2> QED BY <1>3, <2>1 DEF DeleteJob, TypeOK, ServerTypeOK, WatchTypeOK, JobInformerTypeOK,
          PassTypeOK, watchVars, jobInfVars, passVars
<1>4. ASSUME NEW s \in Steps, Expire(s) PROVE TypeOK'
  <2>1. budget' \in Nat
    BY <1>1, <1>4 DEF Expire
  <2> QED BY <1>4, <2>1 DEF Expire, TypeOK, ServerTypeOK, WatchTypeOK, JobInformerTypeOK,
          PassTypeOK, serverVars, watchVars, jobInfVars, passVars
<1>5. ASSUME Crash PROVE TypeOK'
  <2>1. ServerTypeOK'
    BY <1>1, <1>5 DEF Crash, TypeOK, ServerTypeOK, serverVars
  <2>2. WatchTypeOK'
    BY <1>5, EmptySeq DEF Crash, WatchTypeOK, WorkflowOrNone
  <2>3. JobInformerTypeOK' /\ PassTypeOK'
    BY <1>5 DEF Crash, JobInformerTypeOK, PassTypeOK, WorkflowOrNone, PCs
  <2> QED BY <2>1, <2>2, <2>3 DEF TypeOK
<1> QED BY <1>2, <1>3, <1>4, <1>5 DEF ClusterNext

\* A step of the workflow informer keeps the types.
LEMMA WatchStepTypeOK == ASSUME TypeOK, WatchNext PROVE TypeOK'
<1>1. ASSUME NEW kind, Disturb(kind) PROVE budget' \in Nat
  BY <1>1 DEF Disturb, TypeOK, ServerTypeOK
<1>2. ASSUME WatchTypeOK', budget' \in Nat, UNCHANGED <<serverVars, jobInfVars, exp, pc, wf>>,
             dirty' \in BOOLEAN, shared' \in BOOLEAN, UNCHANGED <<todo, step, complete, update, tries>>
      PROVE  TypeOK'
  BY <1>2 DEF TypeOK, ServerTypeOK, JobInformerTypeOK, PassTypeOK, serverVars, jobInfVars
<1>3. ASSUME ListWorkflows PROVE TypeOK'
  <2>1. api # None => <<api>> \in Seq(WorkflowOrNone)
    BY DEF TypeOK, ServerTypeOK
  <2>2. WatchTypeOK'
    BY <1>3, <2>1, EmptySeq DEF ListWorkflows, TypeOK, WatchTypeOK
  <2> QED BY <1>2, <1>3, <2>2 DEF ListWorkflows, passVars, TypeOK, ServerTypeOK, PassTypeOK
<1>4. ASSUME NEW o \in WorkflowOrNone, PollLists(o) PROVE WatchTypeOK'
  <2>1. Append(fifo, o) \in Seq(WorkflowOrNone) /\ Append(fifo, None) \in Seq(WorkflowOrNone)
    BY DEF TypeOK, WatchTypeOK, WorkflowOrNone
  <2> QED BY <1>4, <2>1 DEF PollLists, TypeOK, WatchTypeOK
<1>5. ASSUME Poll PROVE TypeOK'
  <2>1. WatchTypeOK'
    BY <1>4, <1>5 DEF Poll, TypeOK, ServerTypeOK
  <2> QED BY <1>2, <1>5, <2>1 DEF Poll, passVars, TypeOK, ServerTypeOK, PassTypeOK
<1>6. ASSUME PollStatus PROVE TypeOK'
  <2>1. WatchTypeOK' /\ budget' \in Nat
    BY <1>1, <1>4, <1>6 DEF PollStatus, WorkflowOrNone
  <2> QED BY <1>2, <1>6, <2>1 DEF PollStatus, passVars, TypeOK, PassTypeOK
<1>7. ASSUME PollError \/ ListStatus PROVE TypeOK'
  <2>1. WatchTypeOK' /\ budget' \in Nat
    BY <1>1, <1>7 DEF PollError, ListStatus, TypeOK, WatchTypeOK
  <2> QED BY <1>2, <1>7, <2>1 DEF PollError, ListStatus, passVars, TypeOK, PassTypeOK
<1>8. ASSUME Deliver PROVE TypeOK'
  <2>1. fifo \in Seq(WorkflowOrNone) /\ fifo # <<>>
    BY <1>8 DEF Deliver, TypeOK, WatchTypeOK
  <2>2. Head(fifo) \in WorkflowOrNone /\ Tail(fifo) \in Seq(WorkflowOrNone)
    BY <2>1
  <2>3. Head(fifo) # None => Head(fifo).finished \in BOOLEAN
    BY <2>2 DEF WorkflowOrNone, Workflow
  <2>4. WatchTypeOK'
    BY <1>8, <2>2 DEF Deliver, TypeOK, WatchTypeOK
  <2>5. dirty' \in BOOLEAN
    BY <1>8 DEF Deliver
  <2> QED BY <1>2, <1>8, <2>4, <2>5 DEF Deliver, TypeOK, ServerTypeOK, PassTypeOK
<1>9. ASSUME Resync PROVE TypeOK'
  <2>1. WatchTypeOK' /\ dirty' \in BOOLEAN
    BY <1>9 DEF Resync, TypeOK, WatchTypeOK, WorkflowOrNone
  <2> QED BY <1>2, <1>9, <2>1 DEF Resync, passVars, TypeOK, ServerTypeOK, PassTypeOK
<1> QED BY <1>3, <1>5, <1>6, <1>7, <1>8, <1>9 DEF WatchNext

\* A step of the job informer keeps the types.
LEMMA JobInformerStepTypeOK == ASSUME TypeOK, JobInformerNext PROVE TypeOK'
<1>1. ASSUME JobInformerTypeOK', UNCHANGED <<serverVars, budget, watchVars, pc, wf, passVars>>,
             exp' \subseteq Steps, dirty' \in BOOLEAN
      PROVE  TypeOK'
  BY <1>1 DEF TypeOK, ServerTypeOK, WatchTypeOK, PassTypeOK, serverVars, watchVars, passVars
<1>2. Managed \in BOOLEAN /\ exp \subseteq Steps /\ dirty \in BOOLEAN
  BY DEF Managed, TypeOK, PassTypeOK
<1>3. ASSUME ListJobs PROVE TypeOK'
  <2>1. JobInformerTypeOK'
    BY <1>3 DEF ListJobs, TypeOK, ServerTypeOK, JobInformerTypeOK, serverVars
  <2> QED BY <1>1, <1>2, <1>3, <2>1 DEF ListJobs
<1>4. ASSUME NEW j \in jobs, PopJob(j) PROVE TypeOK'
  <2>1. JobInformerTypeOK'
    BY <1>4 DEF PopJob, TypeOK, JobInformerTypeOK, serverVars
  <2> QED BY <1>1, <1>2, <1>4, <2>1 DEF PopJob
<1>5. ASSUME NEW j \in jobs, AddJob(j) PROVE TypeOK'
  <2>1. JobInformerTypeOK'
    BY <1>5 DEF AddJob, TypeOK, JobInformerTypeOK, serverVars
  <2>2. exp' \subseteq Steps /\ dirty' \in BOOLEAN
    BY <1>2, <1>5 DEF AddJob
  <2> QED BY <1>1, <1>5, <2>1, <2>2 DEF AddJob
<1>6. ASSUME NEW j \in jobs, UpdateJob(j) PROVE TypeOK'
  <2>1. JobInformerTypeOK'
    BY <1>6 DEF UpdateJob, TypeOK, JobInformerTypeOK, serverVars
  <2>2. dirty' \in BOOLEAN
    BY <1>2, <1>6 DEF UpdateJob
  <2> QED BY <1>1, <1>2, <1>6, <2>1, <2>2 DEF UpdateJob
<1>7. ASSUME NEW j \in jobs, DropJob(j) PROVE TypeOK'
  <2>1. JobInformerTypeOK'
    BY <1>7 DEF DropJob, TypeOK, JobInformerTypeOK, serverVars
  <2>2. dirty' \in BOOLEAN
    BY <1>2, <1>7 DEF DropJob
  <2> QED BY <1>1, <1>2, <1>7, <2>1, <2>2 DEF DropJob
<1> QED BY <1>3, <1>4, <1>5, <1>6, <1>7 DEF JobInformerNext

\* A step of the worker keeps the types.
LEMMA WorkerTypeOK == ASSUME TypeOK, WorkerNext PROVE TypeOK'
<1>1. ASSUME NEW kind, Disturb(kind) PROVE budget' \in Nat
  BY <1>1 DEF Disturb, TypeOK, ServerTypeOK
<1>2. ASSUME UNCHANGED <<serverVars, watchVars, jobInfVars>>, budget' \in Nat, PassTypeOK'
      PROVE  TypeOK'
  BY <1>2 DEF TypeOK, ServerTypeOK, WatchTypeOK, JobInformerTypeOK, serverVars, watchVars, jobInfVars
<1>3. ASSUME NEW next \in PCs \ {"process", "steps", "create", "expect", "put"}, Leave(next),
             exp' \subseteq Steps, dirty' \in BOOLEAN
      PROVE  PassTypeOK'
  BY <1>3 DEF Leave, PassTypeOK, WorkflowOrNone
<1>4. exp \subseteq Steps /\ dirty \in BOOLEAN /\ budget \in Nat
  BY DEF TypeOK, PassTypeOK, ServerTypeOK
<1>5. pc \in {"process", "steps", "create", "expect", "put"} => wf \in Workflow
  BY DEF TypeOK, PassTypeOK, WorkflowOrNone
<1>6. {"idle", "got", "recheck", "sleep", "done"} \subseteq
        PCs \ {"process", "steps", "create", "expect", "put"}
  BY DEF PCs
<1>10. ASSUME Get \/ NotSynced \/ WakeUp \/ Done PROVE TypeOK'
  <2>1. PassTypeOK'
    BY <1>10 DEF Get, NotSynced, WakeUp, Done, TypeOK, PassTypeOK, passVars, PCs
  <2> QED BY <1>2, <1>4, <1>10, <2>1 DEF Get, NotSynced, WakeUp, Done
<1>11. ASSUME ForgetDeleted PROVE TypeOK'
  <2>1. PassTypeOK'
    BY <1>3, <1>4, <1>6, <1>11 DEF ForgetDeleted
  <2> QED BY <1>2, <1>4, <1>11, <2>1 DEF ForgetDeleted
<1>12. ASSUME Recheck \/ NothingToDo \/ PutNotFound PROVE TypeOK'
  <2>1. PassTypeOK'
    BY <1>3, <1>4, <1>6, <1>12 DEF Recheck, NothingToDo, PutNotFound
  <2> QED BY <1>2, <1>4, <1>12, <2>1 DEF Recheck, NothingToDo, PutNotFound
<1>13. ASSUME Start PROVE TypeOK'
  <2>1. PassTypeOK'
    BY <1>13 DEF Start, TypeOK, WatchTypeOK, PassTypeOK, PCs
  <2> QED BY <1>2, <1>4, <1>13, <2>1 DEF Start
<1>14. ASSUME NEW l \in Labels, NEW t \in [Steps -> StepStatus],
              WriteShared(l, t) \/ UNCHANGED <<store, nameMap>>,
              UNCHANGED <<serverVars, budget, watch, aliased, fifo, jobInfVars>>, PassTypeOK'
       PROVE  TypeOK'
  <2>1. store' \in WorkflowOrNone /\ nameMap' \in WorkflowOrNone
    BY <1>14, WriteSharedFacts DEF TypeOK, WatchTypeOK
  <2> QED BY <1>14, <2>1 DEF TypeOK, ServerTypeOK, WatchTypeOK, JobInformerTypeOK, serverVars, jobInfVars
<1>15. ASSUME Default PROVE TypeOK'
  <2>1. wf \in Workflow
    BY <1>5, <1>15 DEF Default
  <2>2. SetDefaults(wf) \in Workflow
    BY <2>1, SetDefaultsFacts
  <2>3. SetDefaults(wf).labels \in Labels /\ wf.status \in [Steps -> StepStatus]
    BY <2>1, <2>2 DEF Workflow
  <2>4. PassTypeOK'
    BY <1>15, <2>2, NoneAssumption DEF Default, TypeOK, PassTypeOK, passVars, PCs, WorkflowOrNone
  <2> QED BY <1>14, <1>15, <2>3, <2>4 DEF Default
<1>16. ASSUME Invalid PROVE TypeOK'
  <2> DEFINE l == [wf.labels EXCEPT !["valid"] = "false"]
  <2>1. wf \in Workflow
    BY <1>5, <1>16 DEF Invalid
  <2>2. l \in Labels /\ wf.status \in [Steps -> StepStatus] /\ [wf EXCEPT !.labels = l] \in Workflow
    BY <2>1 DEF Workflow, Labels, LabelKeys
  <2>3. CASE wf.labels["valid"] = "absent"
    <3>1. WriteShared(l, wf.status) /\ wf' = [wf EXCEPT !.labels = l] /\ pc' = "put"
          /\ UNCHANGED <<passVars, exp, dirty>>
      BY <1>16, <2>3 DEF Invalid
    <3>2. wf' \in WorkflowOrNone /\ wf' # None
      BY <2>2, <3>1, NoneAssumption DEF WorkflowOrNone
    <3> HIDE DEF l
    <3>3. PassTypeOK'
      BY <3>1, <3>2 DEF TypeOK, PassTypeOK, passVars, PCs
    <3> QED BY <1>14, <1>16, <2>2, <3>1, <3>3 DEF Invalid
  <2>4. CASE wf.labels["valid"] # "absent"
    <3>1. Leave("done") /\ UNCHANGED <<store, nameMap, exp, dirty>>
      BY <1>16, <2>4 DEF Invalid
    <3>2. PassTypeOK'
      BY <1>3, <1>4, <1>6, <3>1
    <3> QED BY <1>14, <1>16, <2>2, <3>1, <3>2 DEF Invalid
  <2> QED BY <2>3, <2>4
<1>17. ASSUME Valid PROVE TypeOK'
  <2> DEFINE l == [wf.labels EXCEPT !["valid"] = "true"]
  <2>1. wf \in Workflow
    BY <1>5, <1>17 DEF Valid
  <2>2. l \in Labels /\ wf.status \in [Steps -> StepStatus] /\ [wf EXCEPT !.labels = l] \in Workflow
    BY <2>1 DEF Workflow, Labels, LabelKeys
  <2>3. WriteShared(l, wf.status) /\ wf' = [wf EXCEPT !.labels = l]
    BY <1>17 DEF Valid
  <2>4. wf' \in WorkflowOrNone /\ wf' # None
    BY <2>2, <2>3, NoneAssumption DEF WorkflowOrNone
  <2> HIDE DEF l
  <2>5. PassTypeOK'
    BY <1>17, <2>4 DEF Valid, TypeOK, PassTypeOK, PCs
  <2> QED BY <1>14, <1>17, <2>2, <2>3, <2>5 DEF Valid
<1>18. ASSUME NEW s \in Steps, StepComplete(s) \/ StepBlocked(s) \/ StepWithoutJob(s)
       PROVE  TypeOK'
  <2>1. PassTypeOK'
    BY <1>18 DEF StepComplete, StepBlocked, StepWithoutJob, Visit, TypeOK, PassTypeOK, PCs
  <2> QED BY <1>2, <1>4, <1>18, <2>1 DEF StepComplete, StepBlocked, StepWithoutJob
<1>19. ASSUME NEW s \in Steps, StepWithJob(s) PROVE TypeOK'
  <2>1. wf \in Workflow
    BY <1>5, <1>19 DEF StepWithJob, Visit
  <2>2. PICK j \in JobStore :
          /\ update' = (update \/ wf.status[s] # JobStatus(j))
          /\ wf' = [wf EXCEPT !.status[s] = JobStatus(j)]
          /\ WriteShared(wf.labels, [wf.status EXCEPT ![s] = JobStatus(j)])
    BY <1>19 DEF StepWithJob
  <2> DEFINE t == [wf.status EXCEPT ![s] = JobStatus(j)]
  <2>3. JobStatus(j) \in StepStatus
    BY DEF JobStatus, StepStatus
  <2>4. wf.labels \in Labels /\ t \in [Steps -> StepStatus]
        /\ [wf EXCEPT !.status[s] = JobStatus(j)] \in Workflow
    BY <2>1, <2>3 DEF Workflow
  <2>5. wf' \in WorkflowOrNone /\ wf' # None
    BY <2>2, <2>4, NoneAssumption DEF WorkflowOrNone
  <2>6. PassTypeOK'
    BY <1>19, <2>2, <2>5 DEF StepWithJob, Visit, TypeOK, PassTypeOK, PCs
  <2> QED BY <1>14, <1>19, <2>2, <2>4, <2>6 DEF StepWithJob
<1>20. ASSUME NEW s \in Steps, StepPanics(s) PROVE TypeOK'
  <2>1. PassTypeOK'
    BY <1>3, <1>4, <1>6, <1>20 DEF StepPanics
  <2> QED BY <1>2, <1>4, <1>20, <2>1 DEF StepPanics
<1>21. ASSUME AwaitObservation \/ ExpectCreation PROVE TypeOK'
  <2>1. PassTypeOK'
    BY <1>21, ConstantsAssumption DEF AwaitObservation, ExpectCreation, TypeOK, PassTypeOK, PCs
  <2> QED BY <1>2, <1>4, <1>21, <2>1 DEF AwaitObservation, ExpectCreation
<1>22. ASSUME pc = "create", jobs' = jobs \cup {NewJob}, budget' \in Nat,
              UNCHANGED <<api, done, gone, watchVars, jobInfVars>>, PassTypeOK'
       PROVE  TypeOK'
  <2>1. wf \in Workflow /\ step \in Steps
    BY <1>5, <1>22, ConstantsAssumption DEF TypeOK, PassTypeOK
  <2>2. IsFiniteSet(jobs) /\ Cardinality(jobs) \in Nat
    BY FS_CardinalityType DEF TypeOK, ServerTypeOK
  <2>3. NewJob \in Job
    BY <2>1, <2>2 DEF NewJob, Job, Workflow
  <2>4. IsFiniteSet(jobs')
    BY <1>22, <2>2, FS_AddElement
  <2> QED BY <1>22, <2>3, <2>4 DEF TypeOK, ServerTypeOK, WatchTypeOK, JobInformerTypeOK,
          watchVars, jobInfVars
<1>23. ASSUME CreateJob PROVE TypeOK'
  <2>1. PassTypeOK'
    BY <1>23 DEF CreateJob, TypeOK, PassTypeOK, passVars, PCs
  <2> QED BY <1>4, <1>22, <1>23, <2>1 DEF CreateJob
<1>24. ASSUME CreateJobLost PROVE TypeOK'
  <2>1. PassTypeOK'
    BY <1>24 DEF CreateJobLost, TypeOK, PassTypeOK, PCs
  <2>2. budget' \in Nat
    BY <1>1, <1>24 DEF CreateJobLost
  <2> QED BY <1>22, <1>24, <2>1, <2>2 DEF CreateJobLost
<1>25. ASSUME CreateJobFails PROVE TypeOK'
  <2>1. PassTypeOK'
    BY <1>25 DEF CreateJobFails, TypeOK, PassTypeOK, PCs
  <2>2. budget' \in Nat
    BY <1>1, <1>4, <1>25 DEF CreateJobFails
  <2> QED BY <1>2, <1>25, <2>1, <2>2 DEF CreateJobFails
<1>26. ASSUME EndSteps PROVE TypeOK'
  <2>1. CASE complete \/ update
    <3>1. wf \in Workflow /\ complete \in BOOLEAN
      BY <1>5, <1>26 DEF EndSteps, TypeOK, PassTypeOK
    <3>2. wf' = [wf EXCEPT !.finished = @ \/ complete] /\ pc' = "put"
          /\ UNCHANGED <<passVars, exp, dirty>>
      BY <1>26, <2>1 DEF EndSteps
    <3>3. wf' \in Workflow
      BY <3>1, <3>2 DEF Workflow
    <3>4. wf' \in WorkflowOrNone /\ wf' # None
      BY <3>3, NoneAssumption DEF WorkflowOrNone
    <3>5. PassTypeOK'
      BY <3>2, <3>4 DEF TypeOK, PassTypeOK, passVars, PCs
    <3> QED BY <1>2, <1>4, <1>26, <3>5 DEF EndSteps
  <2>2. CASE ~(complete \/ update)
    <3>1. PassTypeOK'
      BY <1>3, <1>4, <1>6, <1>26, <2>2 DEF EndSteps
    <3> QED BY <1>2, <1>4, <1>26, <3>1 DEF EndSteps
  <2> QED BY <2>1, <2>2
<1>27. ASSUME PutAccepted \/ PutLost PROVE TypeOK'
  <2>1. wf \in Workflow
    BY <1>5, <1>27 DEF PutAccepted, PutLost
  <2>2. PassTypeOK'
    BY <1>3, <1>4, <1>6, <1>27 DEF PutAccepted, PutLost
  <2>3. budget' \in Nat
    BY <1>1, <1>4, <1>27 DEF PutAccepted, PutLost
  <2>4. ServerWrites(wf) /\ UNCHANGED <<jobs, done, gone, watch, aliased, jobInfVars>>
    BY <1>27 DEF PutAccepted, PutLost
  <2>5. ServerTypeOK' /\ WatchTypeOK'
    BY <2>1, <2>3, <2>4, ServerWritesFacts DEF TypeOK, ServerTypeOK, WatchTypeOK, WorkflowOrNone
  <2>6. JobInformerTypeOK'
    BY <2>4 DEF TypeOK, JobInformerTypeOK, jobInfVars
  <2> QED BY <2>2, <2>5, <2>6 DEF TypeOK
<1>28. ASSUME PutConflict PROVE TypeOK'
  <2>1. CASE tries < retryOnStatusConflict
    <3>1. wf \in Workflow
      BY <1>5, <1>28 DEF PutConflict
    <3>2. wf' = [wf EXCEPT !.cur = TRUE] /\ tries' = tries + 1
          /\ UNCHANGED <<pc, shared, todo, step, complete, update, exp, dirty>>
      BY <1>28, <2>1 DEF PutConflict
    <3>3. wf' \in Workflow
      BY <3>1, <3>2 DEF Workflow
    <3>4. wf' \in WorkflowOrNone /\ wf' # None
      BY <3>3, NoneAssumption DEF WorkflowOrNone
    <3>5. PassTypeOK'
      BY <3>2, <3>4 DEF TypeOK, PassTypeOK
    <3> QED BY <1>2, <1>4, <1>28, <3>5 DEF PutConflict
  <2>2. CASE ~(tries < retryOnStatusConflict)
    <3>1. PassTypeOK'
      BY <1>3, <1>4, <1>6, <1>28, <2>2 DEF PutConflict
    <3> QED BY <1>2, <1>4, <1>28, <3>1 DEF PutConflict
  <2> QED BY <2>1, <2>2
<1>29. ASSUME PutFails PROVE TypeOK'
  <2>1. PassTypeOK' /\ budget' \in Nat
    BY <1>1, <1>3, <1>4, <1>6, <1>29 DEF PutFails
  <2> QED BY <1>2, <1>29, <2>1 DEF PutFails
<1> QED BY <1>10, <1>11, <1>12, <1>13, <1>15, <1>16, <1>17, <1>18, <1>19, <1>20, <1>21, <1>23,
           <1>24, <1>25, <1>26, <1>27, <1>28, <1>29
        DEF WorkerNext, StepNext, CreateNext, PutNext

\* Every step keeps the types.
LEMMA NextTypeOK == TypeOK /\ [Next]_vars => TypeOK'
<1> SUFFICES ASSUME TypeOK, [Next]_vars PROVE TypeOK'
  OBVIOUS
<1>1. CASE UNCHANGED vars
  BY <1>1 DEF vars, serverVars, watchVars, jobInfVars, passVars, TypeOK, ServerTypeOK, WatchTypeOK,
              JobInformerTypeOK, PassTypeOK
<1> QED BY <1>1, UserTypeOK, ClusterTypeOK, WatchStepTypeOK, JobInformerStepTypeOK, WorkerTypeOK
        DEF Next

\* Type correctness of the controller; in particular what the job informer
\* believes to be finished is finished on the server.
THEOREM TypeCorrect == Spec => []TypeOK
BY InitTypeOK, NextTypeOK, PTL DEF Spec
=============================================================================
