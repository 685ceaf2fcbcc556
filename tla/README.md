# Verification of the workflow controller

TLA+ models of kubernetes-workflow, a controller that runs workflows (DAGs of
jobs, stored as third-party resources) on a Kubernetes cluster. TLC checks the
models on small instances, TLAPS proves the main safety properties for every
instance. Paths below are relative to the repository.

## 1. The system

| Component | State it keeps | Operations |
|---|---|---|
| Work queue (`vendor/.../workqueue/queue.go`) | `queue`, `dirty`, `processing`, `shuttingDown` | Add, Get, Done, ShutDown |
| Manager (`pkg/workflow/manager.go`) | the two informers, five worker goroutines | worker, enqueueWorkflow, enqueueAfter, addJob, updateJob, deleteJob, Run |
| Transitioner (`pkg/workflow/transitioner.go`) | none; a copy of the workflow per pass | transitionWorkflow, process, processSteps, createJobForStep, updateStepStatus, updateWorkflowStatus |
| Expectations (`pkg/workflow/utils.go`) | workflow key -> step -> time | ExpectCreation, CreationObserved, DeleteExpectations, ExpectationsForStepSatisfied |
| Job control (`pkg/job/control.go`) | none | CreateJob, label set and selector, IsJobFinished |
| API types (`pkg/api/types.go`) | the Workflow object | SetDefaults, SetUID, AddCompleteCondition, IsFinished, DependenciesResolved |
| Client (`pkg/client/workflows.go`, `pkg/watch`) | `nameMap` and the loop variable of each polling goroutine | List, Get, Update, Watch |
| Informers (vendored reflector, DeltaFIFO, controller) | delta queue, store | list, watch, resync, HasSynced |
| Listers (`pkg/client/cache/listers.go`) | none | GetJobWorkflows, List by selector |
| Validation (`pkg/validation`) | none | ValidateWorkflow, topologicalSort, ValidateWorkflowUpdate |
| Start-up (`main.go`) | none; the third-party resource on the server | registerThirdPartyResource |
| `dax-to-json` | none | mapJobsToDependencies, newStep, main |
| `gui`, `hack` | browser, files | drawing, scripts |

How they interact. The workflow informer polls the server once a second; a
difference becomes a delta, the delta goes to the store and to a handler that
adds the key to the queue. The job informer does the same for jobs, by a real
watch, and clears the expectation of the step. A worker takes a key, copies the
workflow from the store, looks at the job store, creates jobs, writes statuses
and PUTs the result. Nothing but the API server survives a restart.

What is hard. Every decision is taken on a copy: of the store, of a poll, of
the server. The copy in the worker shares its maps with the one in the store
(`transitioner.go:164`). The informers run concurrently with the pass; between
reading the job list, testing the expectation, creating the job and recording
the expectation, anything may happen. Creations and PUTs fail, or succeed while
their answer is lost. A failed poll ends the watcher silently. The events of
the polling watcher carry the address of a variable that its loop goes on to
overwrite, and a watcher that was stopped keeps running. PROJECT.json
lists these hazards line by line with the properties aimed at them.

What makes it correct. The queue: a key is held by one worker, and no request
is lost. The transitioner: jobs are created in dependency order, completion is
claimed only when it is true, a workflow completes eventually, and the verdict
of the validation settles. The expectations: no second creation while one is
unobserved, and nothing left behind for a deleted workflow. The watch: the
store comes to hold what the server holds. The validation: it accepts exactly
the workflows that can be carried out, and no update that touches what already
runs. The start-up: nobody runs before the resource is registered, and somebody
runs in the end.

## 2. Modules

| Module | Models |
|---|---|
| `KeyQueue` | The contract of the queue, as two sets of keys: add, take, release, restart. |
| `WorkQueue` | The queue and the worker loop, with the order of the queue, several workers, the sleep in enqueueAfter and ShutDown. |
| `WorkflowController` | One workflow: the server, the workflow informer, the job informer, the expectations, the worker. |
| `WorkflowWatch` | Several workflows: the polling goroutine of `Watch` item by item, the reflector, the delta queue, the store, resyncs. |
| `TopologicalSort` | `topologicalSort` with an explicit call stack. |
| `DaxToJson` | The conversion of a DAX file to steps, as operators. |
| `Validation` | Composition: `ValidateWorkflow` and `ValidateWorkflowUpdate` guard a stored workflow; requests are written by hand or come from `DaxToJson`, and are walked by `TopologicalSort`. |
| `Registration` | The start-up of several controllers. |
| `MCWorkQueue`, `MCWorkflowController`, `MCWorkflowWatch`, `MCValidation`, `MCRegistration` | Instances for TLC. |
| `WorkQueueProofs`, `WorkflowControllerProofs`, `WorkflowSafetyProofs`, `ExpectationProofs`, `WorkflowWatchProofs`, `TopologicalSortProofs`, `ValidationProofs`, `RegistrationProofs` | Theorems. |

`WorkQueue` refines `KeyQueue` for a set of keys, `WorkflowController` refines
it for its one key. That is why one program counter stands for the workers in
`WorkflowController`: at most one of them is at work on the key. Its `dirty` and
`pc # "idle"` are the key's membership in `Type.dirty` and `Type.processing`.

### WorkflowController

State and code: `api`, `jobs`, `done`, `gone` are the server (external, modelled
from how the client uses it). `watch`, `nameMap`, `fifo`, `store` are the
polling watcher, the DeltaFIFO and the informer's store. `jobsListed`, `toSync`,
`popped`, `seen`, `seenDone`, `dropped` are the job informer. `exp` is the
expectation map for this key. `pc`, `wf`, `shared`, `todo`, `step`, `complete`,
`update`, `tries` are the local variables of one pass.

Abstractions, and why they lose nothing the properties tell apart:

- A resourceVersion is `cur`, "this copy carries the server's current
  version". The code only sends versions back for the server to compare.
- `shared` says that the store still holds the object that the pass copied, so
  that its writes to labels and statuses reach the store; `aliased` says the
  same of `nameMap`, which holds a struct copy of the delivered object. A fresh
  map (`SetDefaults`' Statuses, a label map that was nil) is the copy's own.
- Sync, Added and Updated deltas have the same effect; a delta is the object,
  or `None` for Deleted.
- A label is absent, "true" or "false"; `user` stands for the user's own labels.
  The job selector is every label of the workflow plus the step, as in
  `getWorkflowJobLabelSet`; labels of the template never change.
- The spec is fixed except for whether it validates. The user may pause and
  resume, set, change or remove a label of his own (the jobs keep the labels
  they were created with), correct the spec and delete the workflow; a deleted
  workflow is not created again.
- Some adjacent steps are one action because what separates them commutes with
  everybody else's steps: the expectation test and the creation (the
  expectation of a step with no job under way only disappears), a conflict and
  the Get after it, the listing of a step's jobs and the write of its status,
  the pop and the processing of a workflow delta. The pairs that do not commute
  are kept apart: the listing and the expectation test, the creation and the
  expectation, Pop and Process of the job informer (HasSynced changes at Pop),
  the two calls of jobStoreSynced.
- Job events arrive in order, one job at a time, without a queue of their own.
- `Resync` waits for an empty delta queue. The order in which a resync overtakes
  a queued delta is left out here and modelled, for a delta that was popped, in
  `WorkflowWatch`.
- Time is left out: sleeps end, ticks come and expectations expire at any time.
- An empty user selector `{}`, on which `SetUID` panics, is left out.

Failures are disturbances, chosen by `Events` and counted by `MaxEvents`: pause,
relabel, fixSpec, deleteWorkflow, deleteJob (by somebody else: `DeleteJob` of the code is
an empty stub), expire, netError (a creation or PUT fails), lostReply (it
succeeds, its answer is lost), listError (the poll fails and the watcher ends),
listStatus (the server answers a list with a Status, which decodes into an
empty list), crash.

### WorkflowWatch

`pc`, `nameMap`, `items`, `listMap`, `left`, `wf` are the local variables of a
polling goroutine, one action per item of its two loops; `recv`, `fifo`,
`batch`, `store` are the reflector between receiving and queueing an event, the
DeltaFIFO with the deltas of each key, the deltas that `Process` goes through,
and the store.

- Under go 1.6 (`Dockerfile`) the loop variable is one variable for the whole
  loop. A pointer to it is a reference that names its watcher; whoever holds it
  (delta queue, batch, store) sees the next item as soon as it is assigned. When
  the loop ends the variable never changes again and the references become
  plain objects. The race between the loop and the readers is resolved in both
  ways; torn reads are left out.
- The server lists in a fixed order of the keys, `Rank` (etcd lists by key).
- An object is a key and a version. Which workflow it is and whether it is up to
  date is all that the properties ask; what the workers do is in
  `WorkflowController`.
- A watcher that was stopped matters only while its loop is under way and
  somebody points to its variable; it is kept that long, one at a time. The
  goroutine and the ticker that then stay behind for ever have no further
  effect.
- `Resync` waits for an empty delta queue (not for the batch that is being
  processed) and for one whole tick, or the end, of the watch: the period is ten
  minutes, a tick a second. A list answered with a Status is in
  `WorkflowController` only.

### TopologicalSort, DaxToJson, Validation

Each call and each return of the closure `visit` is a step. Step names are
numbers in the order of `sort.Strings`; 0 is the empty string, which the code
also uses for "no cycleStart" and for the slots that `make` puts at the front of
`sorted`. An XML id is a name and the case it is written in.

`ValidateWorkflow` is called by the controller for every pass;
`ValidateWorkflowUpdate` has no caller but its tests. The model lets both guard
a stored workflow, as an API server would, so that their promises can be stated
for sequences of requests. Left out: the metadata and the syntax of the
selector (vendored checks), and which further errors accompany the first (the
early returns of the update check); a request is refused exactly when the code
finds some error. A workflow from `dax-to-json` has its selector from
`SetDefaults`.

### Registration

A controller is at the Get loop, at the tries of Create, running, or down. A
call and its answer are one step; a Create whose answer does not come may reach
the server later, after other controllers' calls, or never. What went down is
started again by the kubelet (`pod.yaml:6`, `restartPolicy: Always`).

## 3. Runs

Passing:

| Run | Checks | States |
|---|---|---|
| `work_queue` | TypeOK, QueueCoherent, NeverConcurrent, EveryRequestServed, ImplementsKeyQueue; 3 keys, 2 workers | 1.3 k |
| `controller_faults` | TypeOK, CompletionSound, DependencyOrder, ExpectationsReclaimed; user labels and selector, two dependent job steps, any one of nine disturbances | 3.0 M |
| `controller_chain` | CompletionSound, DependencyOrder, OneOutstandingCreate, ImplementsKeyQueue; two dependent job steps, two jobs, and a new label, a deletion or a failed call | 2.4 M |
| `controller_live` | CompletionSound, and EventuallyComplete, VerdictSettles under fairness; one job step with an invalid spec, and two of: its correction, a failed call, a dead watcher, an expiry, a lost answer, a list answered with a Status, a restart | 0.4 M |
| `workflow_watch` | TypeOK, LoneAgrees, LastListedSyncs (under fairness); two workflows of different or of the same name, two writes or failed lists | 0.5 M |
| `validation` | TypeOK, VerdictRight, OrderRespected, CycleReal, StoredValid, DaxFaithful, ActiveStepsKept, WalkAdvances, Decided (under fairness); all graphs of up to 3 steps with up to 2 dependencies each (or all 3), dangling and empty names included, DAX files of up to 2 jobs and 2 child elements in either case, edits of workflows with 2 steps | 0.7 M |
| `registration` | TypeOK, RunsRegistered, RaceLeavesOne, EventuallyRuns (under fairness); 2 controllers, 3 tries, 7 faults | 41 k |

What they show beyond the safety of one pass. `DependencyOrder` and
`CompletionSound` hold for a chain of two jobs that completes after any one
disturbance: a restart, an expiry, a lost answer, a List answered with a Status, a
dead watcher, a pause or a failed call in `controller_faults`, a label of the
user's in `controller_chain`, the deletion of a job in both. That a completion is
true although the step has a second job is what `CompletionSound` adds in
`controller_live`, where the one step leaves room for it. Every job step of these
runs can complete, or there would be no completion to judge; for workflows with
steps that are not jobs, which never complete, and for several disturbances and
duplicates at once the two properties rest on the theorems of section 4.
`OneOutstandingCreate` is what the expectations are for, and holds although the
expectation is recorded after the creation. `LastListedSyncs` says how far the
polling watch can be relied on: the last workflow of the list is the one whose
event nobody overwrites, so it gets through again and again; for the others see
`find_shared_loop_variable`. `LoneAgrees` says that with one workflow the
differences to `nameMap` are differences to the store, which a resync that
overtakes a popped delta breaks for a moment and the fresh `nameMap` of its
watch repairs (the mutant that keeps the old `nameMap` fails). `VerdictRight`
and `CycleReal` include graphs with both a missing dependency and a cycle.
`WalkAdvances` is why the walk ends: with every step it visits a key, finishes a
step, goes past a dependency or leaves a call, and no step gives any of that
back; `Decided` is the same as a liveness property.
`RaceLeavesOne` says that counting AlreadyExists as a failure is survivable: the
race for the resource alone never takes every controller down.

Runs that must fail, each a disagreement between the code and what the
repository says of it (quoted in PROJECT.json, `findings`):

| Run | What happens |
|---|---|
| `find_duplicate_job` | The job list is read, the informer adds the job and clears the expectation, the expectation is tested: a second job, with no failure at all. |
| `find_lost_pause` | The conflict retry sends the old body with the new version: the pause label is gone. |
| `find_nil_statuses` | The first PUT fails, the UID label stays in the cache, Statuses does not: the next pass pushes nil Statuses, and a later one panics. |
| `find_ghost_workflow` | A workflow deleted before the first tick of a watch stays in the store and is retried for ever. |
| `find_shared_loop_variable` | The event of the first workflow is queued, the loop goes on to the second: the store holds the second under the key of the first. |

Four more observations that the models show and no run is spent on. The job may
be observed before its expectation is recorded (`transitioner.go:312`); the
expectation then stands until it expires, and a job that is deleted or hidden
meanwhile is not replaced before that. The job store may
become synced between the two tests of `transitioner.go:132` and `189`; the key
is then dropped until another event or the resync. A snapshot older than the
completing PUT can start a pass that overwrites the Complete condition, through
the same conflict retry as in `find_lost_pause`. Two accepted updates, one that
erases a status and one that edits the step, change a completed step
(`ValidateWorkflowStatusUpdate` checks for a nil map only).

One disagreement is visible in `WorkQueue` (action `LoopAgain`): the
`return` at `manager.go:162` leaves the function literal and not the loop, so a
worker that Get told to stop calls Get again. `main.go` never closes its stop
channel, so the program as it is built does not get there.

Bounds. `MaxEvents` is 1 or 2: each disturbance meets every interleaving of the
rest. `MaxJobs` is 2. With one step (`controller_live`) that is one more than a correct
run needs, so a duplicate and a completion happen together; with two dependent
steps (`controller_faults`, `controller_chain`) it is exactly what a correct run
needs, and a duplicate of the first takes the place of the second's job: what is
checked then is that the workflow is not shown complete. When the bound is reached
the server refuses a creation, which is a case of its own. A third job in the
chain would double the states of every disturbance, to more than six million.
`MaxDeltas` is 1: one undelivered snapshot is as stale as any; in
`WorkflowWatch` a resync puts more than that in the queue.
`retryOnStatusConflict` is 1 instead of 3: one retry that is accepted and one
too many both happen. `WorkflowWatch` has two workflows and two writes: an item
that overwrites another needs two, and a deletion after a change, or a change
after a failed list, needs two writes. Graphs of three steps have cycles of
every length up to three, entered from outside or not, and shared dependencies.
`RetryOnFail` is 3 instead of 5 and `MaxFaults` 7: both controllers can use up
all their tries and one more fault happens. The theorems hold for all values of
all of these.

Fairness. Goroutines run, so the worker, the delivery of deltas, the job
informer, the first list and the polls are weakly fair. The resync timer fires
again and again; the model's guard on an empty delta queue makes that strong
fairness. Jobs that run finish. Nothing is assumed of users and failures, and
the failures are finitely many, by `MaxEvents`. `EventuallyComplete` excepts
runs in which a step got a second job: the code then says "Need reconciliation"
and stops for good. It is checked for workflows without labels of the user's
own (a correction of the spec and one failure, or two failures, a restart being
one; the process comes back by `restartPolicy: Always`, `pod.yaml:6`): a labelled
workflow whose first PUT fails keeps the UID label in the cached
map but no selector, and is judged invalid for good, which is the fault that
`find_nil_statuses` shows.

In `WorkflowWatch` the goroutines and the informer are weakly fair; the resync is
strongly fair because its guard waits for the empty delta queue. In `Validation`
the walk is one sequential computation. In `Registration` a controller makes
progress and is restarted; late requests need not arrive, and faults are
finitely many, by `MaxFaults`.

Deadlock is checked in every run but `registration`, which is over when everybody
runs: the informers tick for ever, and a stored workflow can be deleted.

## 4. Proofs

For every set of keys, workers, steps and controllers, every dependency relation,
every `Events` and every bound; the assumptions are the named ones on the
constants (`ConstantsAssumption`, `NoneAssumption`, `NamesAssumption`, `WatchAssumption`,
`ValidationAssumption`, `RegistrationAssumption`). Every invariant and action
property that a run checks is a theorem.

- `WorkQueueProofs`: `TypeCorrect`, `Coherent`, `Exclusive`, `Refinement`. The
  inductive invariant adds to `QueueCoherent` that the processing set is what
  the workers hold, and that no two hold the same key. Without it, `Done` could
  release a key that another worker still holds.
- `WorkflowControllerProofs`: `TypeCorrect`. The type invariant includes that
  what the job informer believes finished is finished.
- `WorkflowSafetyProofs`: `DependencyOrderHolds` and `CompletionIsSound`, from
  one invariant `SInv`: every copy of the workflow (server, delta queue, store,
  nameMap, worker) claims as complete only steps that have a finished job; a
  pass about to create a job has seen the step's dependencies complete; as long
  as `workflowComplete` holds, every visited step is complete. The copies are
  what makes it inductive: a stale copy may be pushed to the server at any
  later time, so the claim must hold of all of them.
- `ExpectationProofs`: `Reclaimed`, from the invariant that while the store does
  not hold the workflow, either a pass that drops its expectations is due or
  there are none and nobody is about to record one; and `Refinement` of
  `KeyQueue`, by classifying every step as stutter, add, take, release, restart.
  `OneOutstanding`, from the invariant `CInv`: a job the
  informer has not seen is expected, or its pass is about to record the
  expectation, or the workflow is deleted for good and nobody works on it.
  The last case needs to know when the store lacks the workflow (before the first
  pass and after the end only), and that a deletion is the last thing the delta
  queue tells of it; otherwise dropping the expectations of a workflow that comes
  back would allow a second creation. That is why a list answered with a Status
  is among the exceptions.
- `WorkflowWatchProofs`: `TypeCorrect` and `LoneAgreesHolds`, for any number of
  workflows, namespaces, writes and resyncs. `Refs` is the set of all pointers
  that are around, in the received event, the delta queue, the batch and the
  store. For the types the invariant `TInv` says that each of them is plain or
  names a loop that is under way and has assigned its variable (`RefsLive`):
  only then has the object a key to be queued or stored under. It survives the
  end of a loop because `Freeze` leaves no pointer to the variable, and a resync
  because the variable is handed over exactly if somebody points to it. `Sweeping`
  and `NamesKept` say that the second loop only meets names that `nameMap` holds,
  each under its own name.
  For `LoneAgrees` the invariant `WInv` adds: whatever is around was once on the
  server (`KnownOnly`), so with a single workflow there is one item, one name and
  one entry in the delta queue; a variable whose pointer was given away is not
  assigned again before its loop ends (`Untouched`), which is just what fails
  with two workflows; and `nameMap` is what the last delta on the way to the
  store points to, or the store itself if none is on the way (`Told`). `Told`
  must speak of what a pointer points to, not of the pointer, since the end of a
  loop replaces one by the other.
- `TopologicalSortProofs`: `TopologicalSortCorrect`, for every finite graph. The
  invariant `SortInv`: the stack is a path of dependencies; while no cycle is
  found the temporary marks are the stack, and every dependency that a visit went
  past is permanent or is the visit above it; `sorted` lists the permanent steps,
  each after what it depends on; once a cycle is found its names are a chain,
  open to a start that is still on the stack or closed. Acceptance implies
  acyclicity by the least position in `sorted` of a supposed cycle (the library's
  well-foundedness of the naturals), refusal implies a cycle by the segment of
  the stack from `cycleStart` up.
  `TopologicalSortAdvances`: every step of a walk uses up some of the keys,
  steps, dependencies and calls ahead of it and gives none back, and these are
  finite: the safety half of termination, for every finite graph.
- `ValidationProofs`: the same properties for every walk of the composed
  system, `TypeCorrect`, `StoredValidHolds` and `ActiveStepsKeptHolds`. The
  invariant adds that the errors of the request under way were found before its
  walk began and that the walked graph is the request's. `DaxFaithfulHolds` rests
  on lemmas about the converter: the last element with an id exists (a bounded set
  of indexes has a greatest one), so `ChildMap` and `Steps` are what they should
  be, and in a file whose ids are unique up to case the last is the only one.
- `RegistrationProofs`: `TypeCorrect`, `RunsRegisteredHolds`,
  `RaceLeavesOneHolds`. The invariant accounts for the tries: without losses a
  failed try is one that the server refused, or an AlreadyExists, and the latter
  needs somebody that created the resource and runs.

Only model-checked: the liveness properties `EveryRequestServed`,
`EventuallyComplete`, `VerdictSettles`, `LastListedSyncs`, `Decided` and
`EventuallyRuns`, since liveness under fairness is out of the prover's reach.

## 5. Plan

Done: queue and controller; the watch with several workflows; validation, with
the converter composed to it; the start-up; labels edited by the user; the
proofs above, of every invariant and action property. Left, in this order:

1. The composition of `WorkflowWatch` with the worker for two workflows, to see
   what a pass does with a workflow stored under another key; with the present
   modules the state space is out of TLC's reach.
2. An empty user selector, on which `SetUID` panics, and a workflow that is
   deleted and created again under the same name.

## 6. Not modelled

`gui` (drawing) and the scripts, which have no part in the controller's state;
annotations, events and logging, the formatting of job names; `GetPodJobs`,
`Exists` and the plain `List` of the listers, which have no caller; the
construction of clients and flags; reading and printing of files in
`dax-to-json`, its pod template and random load; `DeleteJob`, `pastActiveDeadline`
and `processExternalReferenceStep`, which are stubs that change nothing; the
fakes used by the tests; tickers that are never stopped.
