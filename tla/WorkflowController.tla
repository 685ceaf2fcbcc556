-------------------------- MODULE WorkflowController ------------------------
(***************************************************************************)
(* The controller as one workflow lives it: the API server's copy of the   *)
(* workflow and of its jobs, the polling workflow informer, the job        *)
(* informer, the creation expectations, and the worker that transitions    *)
(* the workflow (pkg/workflow, pkg/job, pkg/client, pkg/api).              *)
(*                                                                         *)
(* One workflow key is modelled.  WorkQueue shows that at most one worker  *)
(* holds a key at a time, so one worker program counter is enough; "dirty" *)
(* and "pc # idle" are this key's membership in the queue's two sets.      *)
(*                                                                         *)
(* Abstractions.                                                           *)
(*  - A resourceVersion is the Boolean cur: "this copy carries the         *)
(*    server's current version".  Every write on the server makes all      *)
(*    other copies stale.  Nothing in the code compares versions any       *)
(*    other way.                                                           *)
(*  - workflowByKey copies the struct but not the maps it points to        *)
(*    (transitioner.go:164), so label and step-status writes reach the     *)
(*    object in the informer's store.  "shared" says that the store still  *)
(*    holds the object the worker copied; "aliased" that the watcher's     *)
(*    nameMap shares those maps as well (workflows.go:189-193).            *)
(*  - Sync, Added and Updated deltas have the same effect on the store and *)
(*    on the handlers, so a delta is the new object, or None for Deleted.  *)
(*  - The spec of a workflow is fixed but for "does it validate" (ok).     *)
(*  - Times are not modelled: a sleep ends, a tick comes, an expectation   *)
(*    expires at any moment.                                               *)
(***************************************************************************)
EXTENDS Naturals, Sequences, FiniteSets

CONSTANTS
  Steps,            \* step names of the workflow
  Deps,             \* Deps[s]: the steps that s depends on
  JobSteps,         \* the steps with a jobTemplate; the others are external
                    \* references or empty, which the controller never acts on
  UserLabelled,     \* BOOLEAN: the user gave the workflow labels of his own
  UserSelector,     \* BOOLEAN: the user gave the spec a jobsSelector
  SelectorMatches,  \* BOOLEAN: that selector matches the workflow's jobs
  SpecValid,        \* BOOLEAN: the submitted spec passes validation
  Events,           \* the disturbances of this instance, \subseteq EventKinds
  MaxEvents,        \* bound: how many of them happen
  MaxJobs,          \* bound: how many jobs are ever created
  MaxDeltas,        \* bound: length of the workflow informer's delta queue
  retryOnStatusConflict,  \* transitioner.go:29
  None              \* no object

EventKinds ==
  {"pause", "relabel", "fixSpec", "deleteWorkflow", "deleteJob", "expire", "netError",
   "lostReply", "listError", "listStatus", "crash"}

ASSUME ConstantsAssumption ==
  /\ Deps \in [Steps -> SUBSET Steps]
  /\ JobSteps \subseteq Steps
  /\ UserLabelled \in BOOLEAN
  /\ UserSelector \in BOOLEAN
  /\ SelectorMatches \in BOOLEAN
  /\ SpecValid \in BOOLEAN
  /\ Events \subseteq EventKinds
  /\ MaxEvents \in Nat
  /\ MaxJobs \in Nat
  /\ MaxDeltas \in Nat
  /\ retryOnStatusConflict \in Nat

\* The labels that the controller reads, plus "user" for whatever the user set.
LabelKeys == {"user", "uid", "valid", "pause"}
Labels == [LabelKeys -> {"absent", "true", "false"}]

\* A key of Status.Statuses that is missing, not Complete, or Complete.
StepStatus == {"none", "running", "complete"}

\* api.Workflow.  init: Status.Statuses is not nil.
Workflow == [cur : BOOLEAN, ok : BOOLEAN, labels : Labels,
             selector : {"nil", "user", "uid"}, init : BOOLEAN,
             status : [Steps -> StepStatus], finished : BOOLEAN]

Job == [id : Nat, step : Steps, labels : Labels]

ASSUME NoneAssumption == None \notin Workflow /\ None \notin Job

VARIABLES
  \* The API server.
  api,        \* the workflow, or None once deleted
  jobs,       \* every job ever created for the workflow
  done,       \* the jobs that are finished (complete or failed)
  gone,       \* the jobs that were deleted
  budget,     \* how many disturbances may still happen
  \* The workflow informer: reflector, polling watcher, delta queue, store.
  watch,      \* "off" before the first list, "on", "dead": watcher returned
  nameMap,    \* the watcher's idea of the workflow, or None
  aliased,    \* nameMap shares its maps with the newest delivered object
  fifo,       \* deltas not yet processed
  store,      \* the workflow in the informer's store, or None
  \* The job informer.
  jobsListed, \* the initial list of jobs is in the delta queue
  toSync,     \* jobs of the initial list that were not popped yet
  popped,     \* the job that was popped and is not in the store yet, or None
  seen,       \* jobs that were added to the store
  seenDone,   \* of these, the ones the store knows to be finished
  dropped,    \* of these, the ones that were removed from the store
  \* Shared by the workers.
  exp,        \* steps with a creation expectation that has not expired
  dirty,      \* the key needs processing
  \* The worker that holds the key.
  pc,         \* where it is
  wf,         \* its copy of the workflow
  shared,     \* the maps of wf are the maps of the object in store
  todo,       \* steps that processSteps has not visited yet
  step,       \* the step of createJobForStep
  complete,   \* workflowComplete
  update,     \* needsStatusUpdate
  tries       \* the loop counter i of updateWorkflowStatus

serverVars == <<api, jobs, done, gone>>
watchVars == <<watch, nameMap, aliased, fifo, store>>
jobInfVars == <<jobsListed, toSync, popped, seen, seenDone, dropped>>
passVars == <<shared, todo, step, complete, update, tries>>
vars == <<serverVars, budget, watchVars, jobInfVars, exp, dirty, pc, wf, passVars>>

PCs == {"idle", "got", "recheck", "process", "steps", "create", "expect",
        "put", "sleep", "done"}

NoStatus == [s \in Steps |-> "none"]

\* The workflow as the user submits it.
Submitted ==
  [cur |-> TRUE, ok |-> SpecValid,
   labels |-> [k \in LabelKeys |->
                 IF k = "user" /\ UserLabelled THEN "true" ELSE "absent"],
   selector |-> IF UserSelector THEN "user" ELSE "nil",
   init |-> FALSE, status |-> NoStatus, finished |-> FALSE]

Init ==
  /\ api = Submitted /\ jobs = {} /\ done = {} /\ gone = {}
  /\ budget = MaxEvents
  /\ watch = "off" /\ nameMap = None /\ aliased = FALSE /\ fifo = <<>> /\ store = None
  /\ jobsListed = FALSE /\ toSync = {} /\ popped = None
  /\ seen = {} /\ seenDone = {} /\ dropped = {}
  /\ exp = {} /\ dirty = FALSE
  /\ pc = "idle" /\ wf = None /\ shared = FALSE /\ todo = {} /\ step = None
  /\ complete = FALSE /\ update = FALSE /\ tries = 0

-----------------------------------------------------------------------------
(* Helpers.                                                                *)

Stale(o) == IF o = None THEN None ELSE [o EXCEPT !.cur = FALSE]

\* The server accepts a write: o becomes the current version, every other copy
\* carries an old resourceVersion from now on.
ServerWrites(o) ==
  /\ api' = [o EXCEPT !.cur = TRUE]
  /\ store' = Stale(store)
  /\ nameMap' = Stale(nameMap)
  /\ fifo' = [i \in DOMAIN fifo |-> Stale(fifo[i])]

\* One of the disturbances the instance allows.
Disturb(kind) == kind \in Events /\ budget > 0 /\ budget' = budget - 1

\* Writes through the maps that the worker's copy shares with the store (and
\* the watcher's nameMap): labels l and step statuses t.
WriteShared(l, t) ==
  /\ store' = IF shared /\ store # None
              THEN [store EXCEPT !.labels = l, !.status = t] ELSE store
  /\ nameMap' = IF shared /\ aliased /\ fifo = <<>> /\ nameMap # None
                THEN [nameMap EXCEPT !.labels = l, !.status = t] ELSE nameMap

Paused(o) == o.labels["pause"] = "true"

\* DeltaFIFO.HasSynced of the job informer: decided when the last listed job
\* is popped, before it is in the store.
JobStoreSynced == jobsListed /\ toSync = {}

JobStore == seen \ dropped

\* GetJobWorkflows: the workflow in the store whose jobsSelector matches.
\* Every job of the workflow carries its UID label.
Managed ==
  /\ store # None
  /\ \/ store.selector = "uid"
     \/ store.selector = "user" /\ SelectorMatches

\* The jobs that carry every label of the workflow and the step's name.
MatchingJobs(s) ==
  {j \in JobStore : j.step = s /\
     \A k \in LabelKeys : wf.labels[k] # "absent" => j.labels[k] = wf.labels[k]}

\* DependenciesResolved that is content with a dependency that runs.
DependenciesStarted(s) == \A d \in Deps[s] : wf.status[d] # "none"

\* Every step that s depends on has a status, and it is Complete.
DependenciesResolved(s) == \A d \in Deps[s] : wf.status[d] = "complete"

\* ValidateWorkflow: the spec itself, and jobsSelector is required.
IsWorkflowValid(o) == o.ok /\ o.selector # "nil"

SetDefaults(o) ==
  [o EXCEPT !.init = TRUE, !.status = NoStatus, !.labels["uid"] = "true",
            !.selector = IF @ = "nil" THEN "uid" ELSE @]

-----------------------------------------------------------------------------
(* The user, the cluster, and the failures the code has paths for.         *)

\* The user changes a label (kubectl edit or label: read-modify-write on the
\* server).
SetLabel(k, v) ==
  /\ api # None /\ api.labels[k] # v
  /\ ServerWrites([api EXCEPT !.labels[k] = v])
  /\ wf' = Stale(wf)
  /\ UNCHANGED <<jobs, done, gone, watch, aliased, jobInfVars, exp, dirty, pc, passVars>>

SetPause(v) == Disturb("pause") /\ SetLabel("pause", v)

\* A label of the user's own appears, changes or disappears: jobs that were
\* created before keep the old one.
Relabel(v) == Disturb("relabel") /\ SetLabel("user", v)

\* The user corrects a spec that did not validate.
FixSpec ==
  /\ Disturb("fixSpec")
  /\ api # None /\ ~api.ok
  /\ ServerWrites([api EXCEPT !.ok = TRUE])
  /\ wf' = Stale(wf)
  /\ UNCHANGED <<jobs, done, gone, watch, aliased, jobInfVars, exp, dirty, pc, passVars>>

DeleteWorkflow ==
  /\ Disturb("deleteWorkflow")
  /\ api # None
  /\ api' = None
  /\ UNCHANGED <<jobs, done, gone, watchVars, jobInfVars, exp, dirty, pc, wf, passVars>>

\* A job completes or fails: IsJobFinished does not tell them apart.
FinishJob(j) ==
  /\ j \in jobs \ (done \cup gone)
  /\ done' = done \cup {j}
  /\ UNCHANGED <<api, jobs, gone, budget, watchVars, jobInfVars, exp, dirty, pc, wf, passVars>>

DeleteJob(j) ==
  /\ Disturb("deleteJob")
  /\ j \in jobs \ gone
  /\ gone' = gone \cup {j}
  /\ UNCHANGED <<api, jobs, done, watchVars, jobInfVars, exp, dirty, pc, wf, passVars>>

\* ExpectationsTimeout passes: the expectation counts as satisfied.
Expire(s) ==
  /\ Disturb("expire")
  /\ s \in exp
  /\ exp' = exp \ {s}
  /\ UNCHANGED <<serverVars, watchVars, jobInfVars, dirty, pc, wf, passVars>>

\* The controller process dies and is started again: stores, expectations and
\* queue were in memory only.
Crash ==
  /\ Disturb("crash")
  /\ watch' = "off" /\ nameMap' = None /\ aliased' = FALSE /\ fifo' = <<>> /\ store' = None
  /\ jobsListed' = FALSE /\ toSync' = {} /\ popped' = None
  /\ seen' = {} /\ seenDone' = {} /\ dropped' = {}
  /\ exp' = {} /\ dirty' = FALSE
  /\ pc' = "idle" /\ wf' = None /\ shared' = FALSE /\ todo' = {} /\ step' = None
  /\ complete' = FALSE /\ update' = FALSE /\ tries' = 0
  /\ UNCHANGED serverVars

-----------------------------------------------------------------------------
(* The workflow informer.                                                  *)

\* ListAndWatch lists and fills the delta queue; the watch starts with an
\* empty nameMap of its own.
ListWorkflows ==
  /\ watch = "off"
  /\ watch' = "on"
  /\ fifo' = IF api = None THEN <<>> ELSE <<api>>
  /\ UNCHANGED <<serverVars, budget, nameMap, aliased, store, jobInfVars, exp, dirty, pc, wf, passVars>>

\* The same, when the server answers the List with an error Status: nobody looks
\* at the HTTP code, and a Status decodes into a WorkflowList without items.
ListStatus ==
  /\ Disturb("listStatus")
  /\ watch = "off"
  /\ watch' = "on"
  /\ UNCHANGED <<serverVars, nameMap, aliased, fifo, store, jobInfVars, exp, dirty, pc, wf, passVars>>

\* One tick of the watcher, whose List returned o: an object that differs from
\* nameMap is sent as Added or Modified, a missing one as Deleted.  nameMap is
\* replaced even when nothing differs.  DeltaFIFO.Delete drops a deletion when
\* the store does not hold the object (yet).
PollLists(o) ==
  /\ watch = "on"
  /\ Len(fifo) < MaxDeltas
  /\ nameMap' = o
  /\ aliased' = (o # None /\ o # nameMap)
  /\ fifo' = CASE o # None /\ o # nameMap -> Append(fifo, o)
              [] o = None /\ nameMap # None /\ store # None -> Append(fifo, None)
              [] OTHER -> fifo
  /\ UNCHANGED <<watch, store>>

Poll ==
  /\ PollLists(api)
  /\ UNCHANGED <<serverVars, budget, jobInfVars, exp, dirty, pc, wf, passVars>>

\* A tick whose List is answered with an error Status, taken for "no workflows".
PollStatus ==
  /\ Disturb("listStatus")
  /\ PollLists(None)
  /\ UNCHANGED <<serverVars, jobInfVars, exp, dirty, pc, wf, passVars>>

\* The List fails: the watcher's goroutine returns and nobody notices.
PollError ==
  /\ Disturb("listError")
  /\ watch = "on"
  /\ watch' = "dead"
  /\ UNCHANGED <<serverVars, nameMap, aliased, fifo, store, jobInfVars, exp, dirty, pc, wf, passVars>>

\* The informer processes one delta: it updates the store and calls the
\* handler.  AddFunc and DeleteFunc enqueue; UpdateFunc skips finished ones.
Deliver ==
  /\ fifo # <<>>
  /\ LET o == Head(fifo) IN
     /\ store' = o
     /\ dirty' = (dirty \/ o = None \/ store = None \/ ~o.finished)
  /\ fifo' = Tail(fifo)
  /\ shared' = FALSE
  /\ UNCHANGED <<serverVars, budget, watch, nameMap, aliased, jobInfVars, exp,
                 pc, wf, todo, step, complete, update, tries>>

\* A resync that queues the stored object but keeps the old watch.
ResyncStoreOnly ==
  /\ watch # "off" /\ fifo = <<>>
  /\ dirty' = (dirty \/ (store # None /\ ~store.finished))
  /\ UNCHANGED <<serverVars, budget, watchVars, jobInfVars, exp, pc, wf, passVars>>

\* FullResyncPeriod is over: the stored object goes through UpdateFunc again,
\* and a new watch, with an empty nameMap, replaces the old one.
Resync ==
  /\ watch # "off" /\ fifo = <<>>
  /\ watch' = "on" /\ nameMap' = None /\ aliased' = FALSE
  /\ dirty' = (dirty \/ (store # None /\ ~store.finished))
  /\ UNCHANGED <<serverVars, budget, fifo, store, jobInfVars, exp, pc, wf, passVars>>

-----------------------------------------------------------------------------
(* The job informer.                                                       *)

\* The initial list: DeltaFIFO.Replace.  Jobs that are already deleted are not
\* in it and no event will ever tell of them.
ListJobs ==
  /\ ~jobsListed
  /\ jobsListed' = TRUE
  /\ toSync' = jobs \ gone
  /\ seen' = gone /\ dropped' = gone /\ seenDone' = done
  /\ UNCHANGED <<serverVars, budget, watchVars, popped, exp, dirty, pc, wf, passVars>>

\* DeltaFIFO.Pop counts the job as synced before Process puts it in the store.
PopJob(j) ==
  /\ j \in toSync /\ popped = None
  /\ toSync' = toSync \ {j}
  /\ popped' = j
  /\ UNCHANGED <<serverVars, budget, watchVars, jobsListed, seen, seenDone, dropped,
                 exp, dirty, pc, wf, passVars>>

\* The informer is free to process an event that is not in the initial list.
InformerFree == jobsListed /\ toSync = {} /\ popped = None

\* The job enters the store and addJob runs: the workflow that selects the job
\* has its expectation for the step removed and is enqueued.
AddJob(j) ==
  /\ j \in jobs \ seen
  /\ j = popped \/ InformerFree
  /\ popped' = None
  /\ seen' = seen \cup {j}
  /\ exp' = IF Managed THEN exp \ {j.step} ELSE exp
  /\ dirty' = (dirty \/ Managed)
  /\ UNCHANGED <<serverVars, budget, watchVars, jobsListed, toSync, seenDone, dropped,
                 pc, wf, passVars>>

\* updateJob that takes any change of the job for its end.
UpdateJobEarly(j) ==
  /\ InformerFree
  /\ j \in seen \ (seenDone \cup dropped)
  /\ seenDone' = seenDone \cup {j}
  /\ dirty' = (dirty \/ Managed)
  /\ UNCHANGED <<serverVars, budget, watchVars, jobsListed, toSync, popped, seen, dropped,
                 exp, pc, wf, passVars>>

\* updateJob, for the one change of a job that matters here.
UpdateJob(j) ==
  /\ InformerFree
  /\ j \in (seen \cap done) \ (seenDone \cup dropped)
  /\ seenDone' = seenDone \cup {j}
  /\ dirty' = (dirty \/ Managed)
  /\ UNCHANGED <<serverVars, budget, watchVars, jobsListed, toSync, popped, seen, dropped,
                 exp, pc, wf, passVars>>

\* deleteJob.
DropJob(j) ==
  /\ InformerFree
  /\ j \in (seen \cap gone) \ dropped
  /\ dropped' = dropped \cup {j}
  /\ dirty' = (dirty \/ Managed)
  /\ UNCHANGED <<serverVars, budget, watchVars, jobsListed, toSync, popped, seen, seenDone,
                 exp, pc, wf, passVars>>

-----------------------------------------------------------------------------
(* The worker: Manager.worker and Transitioner.                            *)

\* The pass over the workflow is finished: the copy is garbage.
Leave(next) ==
  /\ pc' = next
  /\ wf' = None /\ shared' = FALSE /\ todo' = {} /\ step' = None
  /\ complete' = FALSE /\ update' = FALSE /\ tries' = 0

\* queue.Get.
Get ==
  /\ pc = "idle" /\ dirty
  /\ dirty' = FALSE
  /\ pc' = "got"
  /\ UNCHANGED <<serverVars, budget, watchVars, jobInfVars, exp, wf, passVars>>

\* The deleted workflow's expectations are left behind.
ForgetNothing ==
  /\ pc = "got" /\ store = None
  /\ Leave("done")
  /\ UNCHANGED <<serverVars, budget, watchVars, jobInfVars, exp, dirty>>

\* The key is not in the store: DeleteExpectations.
ForgetDeleted ==
  /\ pc = "got" /\ store = None
  /\ exp' = {}
  /\ Leave("done")
  /\ UNCHANGED <<serverVars, budget, watchVars, jobInfVars, dirty>>

\* preconditionsMet: the job store is not synced.
NotSynced ==
  /\ pc = "got" /\ store # None /\ ~JobStoreSynced
  /\ pc' = "recheck"
  /\ UNCHANGED <<serverVars, budget, watchVars, jobInfVars, exp, dirty, wf, passVars>>

\* transitionWorkflow asks jobStoreSynced a second time to find out why the
\* preconditions failed.
Recheck ==
  /\ pc = "recheck"
  /\ Leave(IF JobStoreSynced THEN "done" ELSE "sleep")
  /\ UNCHANGED <<serverVars, budget, watchVars, jobInfVars, exp, dirty>>

\* preconditionsMet: finished, or requested to be paused.
NothingToDo ==
  /\ pc = "got" /\ store # None /\ JobStoreSynced
  /\ store.finished \/ Paused(store)
  /\ Leave("done")
  /\ UNCHANGED <<serverVars, budget, watchVars, jobInfVars, exp, dirty>>

\* workflowByKey: a shallow copy of the stored object.
Start ==
  /\ pc = "got" /\ store # None /\ JobStoreSynced
  /\ ~store.finished /\ ~Paused(store)
  /\ pc' = "process"
  /\ wf' = store /\ shared' = TRUE
  /\ UNCHANGED <<serverVars, budget, watchVars, jobInfVars, exp, dirty,
                 todo, step, complete, update, tries>>

\* process, first visit: SetDefaults, and nothing else until the server has it.
\* A nil label map is replaced on the copy; one that exists is written in place.
\* The fresh Statuses map is the copy's own.
Default ==
  /\ pc = "process" /\ wf.labels["uid"] = "absent"
  /\ wf' = SetDefaults(wf)
  /\ IF \A k \in LabelKeys : wf.labels[k] = "absent"
     THEN UNCHANGED <<store, nameMap>>
     ELSE WriteShared(SetDefaults(wf).labels, wf.status)
  /\ pc' = "put"
  /\ UNCHANGED <<serverVars, budget, watch, aliased, fifo, jobInfVars, exp, dirty, passVars>>

\* The verdict "invalid" stays in the store.
InvalidNotPushed ==
  /\ pc = "process" /\ wf.labels["uid"] # "absent"
  /\ wf.labels["valid"] # "true" /\ ~IsWorkflowValid(wf)
  /\ WriteShared([wf.labels EXCEPT !["valid"] = "false"], wf.status)
  /\ Leave("done")
  /\ UNCHANGED <<serverVars, budget, watch, aliased, fifo, jobInfVars, exp, dirty>>

\* process: the workflow does not validate.  The label is pushed only the first
\* time.
Invalid ==
  /\ pc = "process" /\ wf.labels["uid"] # "absent"
  /\ wf.labels["valid"] # "true" /\ ~IsWorkflowValid(wf)
  /\ LET l == [wf.labels EXCEPT !["valid"] = "false"] IN
     IF wf.labels["valid"] = "absent"
     THEN /\ WriteShared(l, wf.status)
          /\ wf' = [wf EXCEPT !.labels = l]
          /\ pc' = "put"
          /\ UNCHANGED passVars
     ELSE Leave("done") /\ UNCHANGED <<store, nameMap>>
  /\ UNCHANGED <<serverVars, budget, watch, aliased, fifo, jobInfVars, exp, dirty>>

\* process: the workflow validates, or did before; processSteps begins.
Valid ==
  /\ pc = "process" /\ wf.labels["uid"] # "absent"
  /\ wf.labels["valid"] = "true" \/ IsWorkflowValid(wf)
  /\ update' = (wf.labels["valid"] # "true")
  /\ LET l == [wf.labels EXCEPT !["valid"] = "true"] IN
     /\ wf' = [wf EXCEPT !.labels = l]
     /\ WriteShared(l, wf.status)
  /\ todo' = Steps /\ complete' = TRUE
  /\ pc' = "steps"
  /\ UNCHANGED <<serverVars, budget, watch, aliased, fifo, jobInfVars, exp, dirty,
                 shared, step, tries>>

\* The next step, in any order (range over a map), one at a time.
Visit(s) == pc = "steps" /\ s \in todo /\ todo' = todo \ {s}

\* processSteps: "step completed nothing to do".
StepComplete(s) ==
  /\ Visit(s)
  /\ wf.status[s] = "complete"
  /\ UNCHANGED <<serverVars, budget, watchVars, jobInfVars, exp, dirty, pc, wf,
                 shared, step, complete, update, tries>>

\* processSteps that clears workflowComplete only for a step it acts upon.
StepSkipped(s) ==
  /\ Visit(s)
  /\ wf.status[s] # "complete"
  /\ \/ s \notin JobSteps
     \/ ~DependenciesResolved(s)
     \/ Cardinality(MatchingJobs(s)) > 1
  /\ UNCHANGED <<serverVars, budget, watchVars, jobInfVars, exp, dirty, pc, wf,
                 shared, step, complete, update, tries>>

\* Nothing can be done for the step: no job template, a dependency is missing,
\* or more than one job matches ("Need reconciliation").
StepBlocked(s) ==
  /\ Visit(s)
  /\ wf.status[s] # "complete"
  /\ \/ s \notin JobSteps
     \/ ~DependenciesResolved(s)
     \/ Cardinality(MatchingJobs(s)) > 1
  /\ complete' = FALSE
  /\ UNCHANGED <<serverVars, budget, watchVars, jobInfVars, exp, dirty, pc, wf,
                 shared, step, update, tries>>

\* processJobStep found no job: createJobForStep is next.
StepWithoutJob(s) ==
  /\ Visit(s)
  /\ wf.status[s] # "complete"
  /\ s \in JobSteps /\ DependenciesResolved(s) /\ MatchingJobs(s) = {}
  /\ complete' = FALSE
  /\ step' = s
  /\ pc' = "create"
  /\ UNCHANGED <<serverVars, budget, watchVars, jobInfVars, exp, dirty, wf,
                 shared, update, tries>>

\* The status that updateStepStatus gives the step, whose one job is j.
JobStatus(j) == IF j \in seenDone THEN "complete" ELSE "running"

\* updateStepStatus: the one job's state becomes the step's status, written
\* through the shared map.
StepWithJob(s) ==
  /\ Visit(s)
  /\ wf.status[s] # "complete"
  /\ s \in JobSteps /\ DependenciesResolved(s)
  /\ \E j \in JobStore :
       /\ MatchingJobs(s) = {j}
       /\ wf.init \/ wf.status[s] = JobStatus(j)
       /\ update' = (update \/ wf.status[s] # JobStatus(j))
       /\ wf' = [wf EXCEPT !.status[s] = JobStatus(j)]
       /\ WriteShared(wf.labels, [wf.status EXCEPT ![s] = JobStatus(j)])
  /\ complete' = FALSE
  /\ UNCHANGED <<serverVars, budget, watch, aliased, fifo, jobInfVars, exp, dirty, pc,
                 shared, step, tries>>

\* updateStepStatus writes to a nil Statuses map and panics.  wait.Until
\* recovers and the deferred Done runs, but nothing is requeued.
StepPanics(s) ==
  /\ pc = "steps" /\ s \in todo /\ wf.status[s] # "complete"
  /\ s \in JobSteps /\ DependenciesResolved(s)
  /\ ~wf.init
  /\ \E j \in JobStore : MatchingJobs(s) = {j} /\ wf.status[s] # JobStatus(j)
  /\ Leave("done")
  /\ UNCHANGED <<serverVars, budget, watchVars, jobInfVars, exp, dirty>>

\* createJobForStep: an expectation is still open, nothing is created.
AwaitObservation ==
  /\ pc = "create" /\ step \in exp
  /\ pc' = "steps" /\ step' = None
  /\ UNCHANGED <<serverVars, budget, watchVars, jobInfVars, exp, dirty, wf,
                 shared, todo, complete, update, tries>>

NewJob == [id |-> Cardinality(jobs), step |-> step, labels |-> wf.labels]

CanCreate == Cardinality(jobs) < MaxJobs

\* The server creates the job, whether or not an expectation is open.
CreateJobUnchecked ==
  /\ pc = "create" /\ CanCreate
  /\ jobs' = jobs \cup {NewJob}
  /\ pc' = "expect"
  /\ UNCHANGED <<api, done, gone, budget, watchVars, jobInfVars, exp, dirty, wf, passVars>>

\* CreateJob succeeds; the expectation is not recorded yet.
CreateJob ==
  /\ pc = "create" /\ step \notin exp /\ CanCreate
  /\ jobs' = jobs \cup {NewJob}
  /\ pc' = "expect"
  /\ UNCHANGED <<api, done, gone, budget, watchVars, jobInfVars, exp, dirty, wf, passVars>>

\* The job is created but the answer is lost: an error, so no expectation.
CreateJobLost ==
  /\ Disturb("lostReply")
  /\ pc = "create" /\ step \notin exp /\ CanCreate
  /\ jobs' = jobs \cup {NewJob}
  /\ pc' = "steps" /\ step' = None
  /\ UNCHANGED <<api, done, gone, watchVars, jobInfVars, exp, dirty, wf,
                 shared, todo, complete, update, tries>>

\* CreateJob fails.  The error is logged; nothing asks for a retry.  A server
\* that holds MaxJobs jobs refuses another.
CreateJobFails ==
  /\ pc = "create" /\ step \notin exp
  /\ IF CanCreate THEN Disturb("netError") ELSE UNCHANGED budget
  /\ pc' = "steps" /\ step' = None
  /\ UNCHANGED <<serverVars, watchVars, jobInfVars, exp, dirty, wf,
                 shared, todo, complete, update, tries>>

\* ExpectCreation, after the creation.
ExpectCreation ==
  /\ pc = "expect"
  /\ exp' = exp \cup {step}
  /\ pc' = "steps" /\ step' = None
  /\ UNCHANGED <<serverVars, budget, watchVars, jobInfVars, dirty, wf,
                 shared, todo, complete, update, tries>>

\* The end of processSteps: AddCompleteCondition when every step was found
\* complete.  The condition is appended to the copy's own slice.
EndSteps ==
  /\ pc = "steps" /\ todo = {}
  /\ IF complete \/ update
     THEN /\ wf' = [wf EXCEPT !.finished = @ \/ complete]
          /\ pc' = "put"
          /\ UNCHANGED passVars
     ELSE Leave("done")
  /\ UNCHANGED <<serverVars, budget, watchVars, jobInfVars, exp, dirty>>

\* updateWorkflowStatus: the PUT is accepted, because the copy carries the
\* current resourceVersion.
PutAccepted ==
  /\ pc = "put" /\ api # None /\ wf.cur
  /\ ServerWrites(wf)
  /\ Leave("done")
  /\ UNCHANGED <<jobs, done, gone, budget, watch, aliased, jobInfVars, exp, dirty>>

\* The PUT conflicts.  The retry fetches the current resourceVersion and sends
\* the SAME body again; after retryOnStatusConflict retries it gives up.
PutConflict ==
  /\ pc = "put" /\ api # None /\ ~wf.cur
  /\ IF tries < retryOnStatusConflict
     THEN /\ wf' = [wf EXCEPT !.cur = TRUE]
          /\ tries' = tries + 1
          /\ UNCHANGED <<pc, shared, todo, step, complete, update>>
     ELSE Leave("sleep")
  /\ UNCHANGED <<serverVars, budget, watchVars, jobInfVars, exp, dirty>>

\* The workflow is gone: neither the PUT nor the Get finds it.
PutNotFound ==
  /\ pc = "put" /\ api = None
  /\ Leave("sleep")
  /\ UNCHANGED <<serverVars, budget, watchVars, jobInfVars, exp, dirty>>

\* The PUT (or the Get after a conflict) does not reach the server.
PutFails ==
  /\ Disturb("netError")
  /\ pc = "put"
  /\ Leave("sleep")
  /\ UNCHANGED <<serverVars, watchVars, jobInfVars, exp, dirty>>

\* The PUT is accepted but its answer is lost.
PutLost ==
  /\ Disturb("lostReply")
  /\ pc = "put" /\ api # None /\ wf.cur
  /\ ServerWrites(wf)
  /\ Leave("sleep")
  /\ UNCHANGED <<jobs, done, gone, watch, aliased, jobInfVars, exp, dirty>>

\* enqueueAfter: the sleep is over, the key is added while still held.
WakeUp ==
  /\ pc = "sleep"
  /\ dirty' = TRUE
  /\ pc' = "done"
  /\ UNCHANGED <<serverVars, budget, watchVars, jobInfVars, exp, wf, passVars>>

\* Done that forgets what was added while the key was held.
DoneForgets ==
  /\ pc = "done"
  /\ pc' = "idle"
  /\ dirty' = FALSE
  /\ UNCHANGED <<serverVars, budget, watchVars, jobInfVars, exp, wf, passVars>>

\* The deferred queue.Done.
Done ==
  /\ pc = "done"
  /\ pc' = "idle"
  /\ UNCHANGED <<serverVars, budget, watchVars, jobInfVars, exp, dirty, wf, passVars>>

-----------------------------------------------------------------------------
UserNext ==
  \/ \E v \in {"true", "false"} : SetPause(v)
  \/ \E v \in {"absent", "true", "false"} : Relabel(v)
  \/ FixSpec \/ DeleteWorkflow

ClusterNext ==
  \/ \E j \in jobs : FinishJob(j) \/ DeleteJob(j)
  \/ \E s \in Steps : Expire(s)
  \/ Crash

WatchNext ==
  ListWorkflows \/ ListStatus \/ Poll \/ PollStatus \/ PollError \/ Deliver \/ Resync

JobInformerNext ==
  \/ ListJobs
  \/ \E j \in jobs : PopJob(j) \/ AddJob(j) \/ UpdateJob(j) \/ DropJob(j)

StepNext(s) ==
  StepComplete(s) \/ StepBlocked(s) \/ StepWithoutJob(s) \/ StepWithJob(s) \/ StepPanics(s)

CreateNext ==
  AwaitObservation \/ CreateJob \/ CreateJobLost \/ CreateJobFails \/ ExpectCreation

PutNext == PutAccepted \/ PutConflict \/ PutNotFound \/ PutFails \/ PutLost

WorkerNext ==
  \/ Get \/ ForgetDeleted \/ NotSynced \/ Recheck \/ NothingToDo \/ Start
  \/ Default \/ Invalid \/ Valid
  \/ \E s \in Steps : StepNext(s)
  \/ CreateNext \/ EndSteps \/ PutNext \/ WakeUp \/ Done

Next == UserNext \/ ClusterNext \/ WatchNext \/ JobInformerNext \/ WorkerNext

Spec == Init /\ [][Next]_vars

\* Goroutines make progress, ticks come, the resync timer fires again and again
\* (its guard on the delta queue is why it needs strong fairness), and the
\* cluster finishes jobs.  Nothing is assumed about users and failures.
Fairness ==
  /\ WF_vars(WorkerNext)
  /\ WF_vars(ListWorkflows) /\ WF_vars(Poll) /\ WF_vars(Deliver) /\ SF_vars(Resync)
  /\ WF_vars(JobInformerNext)
  /\ WF_vars(\E j \in jobs : FinishJob(j))

FairSpec == Spec /\ Fairness

-----------------------------------------------------------------------------
(* Properties.                                                             *)

WorkflowOrNone == Workflow \cup {None}

ServerTypeOK ==
  /\ api \in WorkflowOrNone
  /\ jobs \subseteq Job /\ IsFiniteSet(jobs)
  /\ done \subseteq jobs /\ gone \subseteq jobs
  /\ budget \in Nat

WatchTypeOK ==
  /\ watch \in {"off", "on", "dead"}
  /\ nameMap \in WorkflowOrNone /\ aliased \in BOOLEAN
  /\ fifo \in Seq(WorkflowOrNone) /\ store \in WorkflowOrNone

JobInformerTypeOK ==
  /\ jobsListed \in BOOLEAN /\ toSync \subseteq jobs /\ popped \in jobs \cup {None}
  /\ seen \subseteq jobs /\ seenDone \subseteq done /\ dropped \subseteq seen

PassTypeOK ==
  /\ exp \subseteq Steps /\ dirty \in BOOLEAN
  /\ pc \in PCs
  /\ wf \in WorkflowOrNone
  /\ pc \in {"process", "steps", "create", "expect", "put"} => wf # None
  /\ shared \in BOOLEAN /\ todo \subseteq Steps
  /\ step \in Steps \cup {None}
  /\ pc \in {"create", "expect"} => step \in JobSteps
  /\ complete \in BOOLEAN /\ update \in BOOLEAN /\ tries \in Nat

\* The types of all the state; what the informer knows of jobs is true of the
\* server; and a pass under way holds a copy of the workflow.
TypeOK == ServerTypeOK /\ WatchTypeOK /\ JobInformerTypeOK /\ PassTypeOK

\* Step s was carried out: some job of it finished.
Finished(s) == \E j \in done : j.step = s

\* A job is created only after every step it depends on has a finished job,
\* whatever copies of the workflow the decision went through.
DependencyOrder == \A j \in jobs : \A d \in Deps[j.step] : Finished(d)

\* A workflow that the server shows as complete has a finished job for every
\* step, although AddCompleteCondition was decided on a copy that may be stale,
\* shared with the store, or pushed again by a retry or after a restart, and
\* although a step may have got a second job.
CompletionSound == (api # None /\ api.finished) => \A s \in Steps : Finished(s)

Unobserved(s) == {j \in jobs : j.step = s /\ j \notin seen}

\* What the expectations are for: without lost answers, expiries, restarts and
\* spurious deletions, a step never has two jobs that the informer has not seen.
OneOutstandingCreate ==
  Events \cap {"lostReply", "expire", "crash", "listStatus"} = {} =>
    \A s \in Steps : \A i, j \in Unobserved(s) : i = j

\* Once a deleted workflow has been dealt with, nothing is left of its
\* expectations: no pass that was under way can leave one behind.
ExpectationsReclaimed ==
  (store = None /\ pc = "idle" /\ ~dirty) => exp = {}

\* This key's view of the queue implements the contract of KeyQueue.
KQ == INSTANCE KeyQueue WITH
        Keys <- {"key"},
        Restarts <- "crash" \in Events,
        dirty <- IF dirty THEN {"key"} ELSE {},
        processing <- IF pc = "idle" THEN {} ELSE {"key"}

ImplementsKeyQueue == KQ!KQSpec

Duplicated == \E i, j \in jobs : i # j /\ i.step = j.step

\* A workflow of job steps whose spec is valid for good eventually is complete
\* for good, in spite of failed PUTs, failed creations, a dead watcher, lost
\* answers, expiries, lists answered with a Status and restarts, unless a step
\* got a second job ("Need reconciliation").
EventuallyComplete ==
  <>[](api # None /\ api.ok) => <>[](api # None /\ api.finished) \/ <>Duplicated

\* The verdict on the server eventually agrees for good with the spec on the
\* server, in spite of PUTs that fail after the store was changed in place and
\* of a user who corrects the spec at any moment.
VerdictSettles ==
  <>[](api # None /\ api.labels["valid"] = (IF api.ok THEN "true" ELSE "false"))

-----------------------------------------------------------------------------
(* What comments, tests or messages of the repository say, and the code does *)
(* not do.                                                                   *)

\* "When expectations are not satisfied for this job, we should wait for it to
\* be observed by the informer" (transitioner.go:301): one job per step.
OneJobPerStep == ~Duplicated

\* "If a workflow is requested to be paused, don't process it"
\* (transitioner.go:143): only the user takes back a pause request.
PauseStands ==
  [][(api # None /\ Paused(api) /\ api' # None /\ ~Paused(api')) => SetPause("false")]_vars

\* "statuses map may not be nil" (validation.go:136), for a workflow that the
\* controller has taken on.
StatusesInitialised == (api # None /\ api.labels["uid"] # "absent") => api.init

\* "Create a new Informer to sync the upstream workflow store with the
\* downstream workflow store" (manager.go:90): a workflow that was deleted
\* eventually leaves the store.
DeletionReachesStore == (api = None) ~> (store = None)
=============================================================================
