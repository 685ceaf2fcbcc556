----------------------------- MODULE WorkQueue ------------------------------
(***************************************************************************)
(* The queue of workflow keys (the vendored workqueue.Type) together with  *)
(* the worker loop of Manager (pkg/workflow/manager.go) that drains it.    *)
(* Informer callbacks add keys; every worker takes a key, runs the         *)
(* transitioner on it, possibly sleeps and re-adds the key WHILE STILL     *)
(* HOLDING IT (enqueueAfter blocks, Done is deferred), and gives it back.  *)
(*                                                                         *)
(* Every operation of the queue runs under one mutex, so each is one       *)
(* action.  cond.Wait is the guard of Get.                                 *)
(***************************************************************************)
EXTENDS Sequences, FiniteSets, Naturals

CONSTANTS
  Keys,      \* workflow keys
  Workers,   \* worker goroutines, Run(5, ...) in main.go
  None       \* "no key"

ASSUME NoneAssumption == None \notin Keys

VARIABLES
  queue,         \* Type.queue, the order of work
  dirty,         \* Type.dirty
  processing,    \* Type.processing
  shuttingDown,  \* Type.shuttingDown
  pc,            \* where each worker is in its loop
  item           \* the key each worker holds, or None

vars == <<queue, dirty, processing, shuttingDown, pc, item>>

\* "get": about to call Get; "run": in transition(key); "sleep": in
\* enqueueAfter; "done": the deferred Done is next; "quit": Get answered
\* "shutdown" and the function literal of the loop returned.
WorkerStates == {"get", "run", "sleep", "done", "quit"}

Init ==
  /\ queue = <<>>
  /\ dirty = {}
  /\ processing = {}
  /\ shuttingDown = FALSE
  /\ pc = [w \in Workers |-> "get"]
  /\ item = [w \in Workers |-> None]

-----------------------------------------------------------------------------
(* The queue.                                                              *)

\* Add with the test "already dirty" forgotten.
AddTwice(k) ==
  IF shuttingDown THEN UNCHANGED <<queue, dirty>>
  ELSE /\ dirty' = dirty \cup {k}
       /\ queue' = IF k \in processing THEN queue ELSE Append(queue, k)

\* Add with the test "already processing" forgotten.
AddProcessing(k) ==
  IF shuttingDown \/ k \in dirty THEN UNCHANGED <<queue, dirty>>
  ELSE /\ dirty' = dirty \cup {k}
       /\ queue' = Append(queue, k)

\* Type.Add(k): ignored once shutting down or when already dirty; queued at
\* once unless somebody is processing the key.
Add(k) ==
  IF shuttingDown \/ k \in dirty THEN UNCHANGED <<queue, dirty>>
  ELSE /\ dirty' = dirty \cup {k}
       /\ queue' = IF k \in processing THEN queue ELSE Append(queue, k)

\* An informer callback calls enqueueWorkflow for key k.
EnqueueWorkflow(k) == Add(k) /\ UNCHANGED <<processing, shuttingDown, pc, item>>

\* Get that leaves the key in the dirty set.
GetKeepsDirty(w) ==
  /\ pc[w] = "get" /\ queue # <<>>
  /\ queue' = Tail(queue)
  /\ processing' = processing \cup {Head(queue)}
  /\ pc' = [pc EXCEPT ![w] = "run"]
  /\ item' = [item EXCEPT ![w] = Head(queue)]
  /\ UNCHANGED <<dirty, shuttingDown>>

\* Type.Get returns the oldest key; it moves from dirty to processing.
Get(w) ==
  /\ pc[w] = "get" /\ queue # <<>>
  /\ queue' = Tail(queue)
  /\ processing' = processing \cup {Head(queue)}
  /\ dirty' = dirty \ {Head(queue)}
  /\ pc' = [pc EXCEPT ![w] = "run"]
  /\ item' = [item EXCEPT ![w] = Head(queue)]
  /\ UNCHANGED shuttingDown

\* Get that hands out a nil key, and counts it as being processed, instead of
\* answering "shutdown".
GetShutdownNil(w) ==
  /\ pc[w] = "get" /\ queue = <<>> /\ shuttingDown
  /\ processing' = processing \cup {None}
  /\ pc' = [pc EXCEPT ![w] = "run"]
  /\ UNCHANGED <<queue, dirty, shuttingDown, item>>

\* Type.Get returns shutdown = TRUE: nothing is queued and ShutDown was called.
GetShutdown(w) ==
  /\ pc[w] = "get" /\ queue = <<>> /\ shuttingDown
  /\ pc' = [pc EXCEPT ![w] = "quit"]
  /\ UNCHANGED <<queue, dirty, processing, shuttingDown, item>>

\* "return" at manager.go:162 leaves the function literal, not the loop around
\* it: the worker calls Get again.
LoopAgain(w) ==
  /\ pc[w] = "quit"
  /\ pc' = [pc EXCEPT ![w] = "get"]
  /\ UNCHANGED <<queue, dirty, processing, shuttingDown, item>>

\* transition(key) returned without a requeue, or panicked (the deferred Done
\* still runs and wait.Until starts the worker function again).
Finish(w) ==
  /\ pc[w] = "run"
  /\ pc' = [pc EXCEPT ![w] = "done"]
  /\ UNCHANGED <<queue, dirty, processing, shuttingDown, item>>

\* transition(key) asked for a requeue: enqueueAfter starts to sleep.
Requeue(w) ==
  /\ pc[w] = "run"
  /\ pc' = [pc EXCEPT ![w] = "sleep"]
  /\ UNCHANGED <<queue, dirty, processing, shuttingDown, item>>

\* The sleep is over; the key is added while it is still being processed.
EnqueueAfter(w) ==
  /\ pc[w] = "sleep"
  /\ Add(item[w])
  /\ pc' = [pc EXCEPT ![w] = "done"]
  /\ UNCHANGED <<processing, shuttingDown, item>>

\* Done that forgets the request that came while the key was held.
DoneForgets(w) ==
  /\ pc[w] = "done"
  /\ processing' = processing \ {item[w]}
  /\ pc' = [pc EXCEPT ![w] = "get"]
  /\ item' = [item EXCEPT ![w] = None]
  /\ UNCHANGED <<queue, dirty, shuttingDown>>

\* Type.Done, deferred by the worker.
Done(w) ==
  /\ pc[w] = "done"
  /\ processing' = processing \ {item[w]}
  /\ queue' = IF item[w] \in dirty THEN Append(queue, item[w]) ELSE queue
  /\ pc' = [pc EXCEPT ![w] = "get"]
  /\ item' = [item EXCEPT ![w] = None]
  /\ UNCHANGED <<dirty, shuttingDown>>

\* Manager.Run after stopCh closes.
ShutDown ==
  /\ shuttingDown' = TRUE
  /\ UNCHANGED <<queue, dirty, processing, pc, item>>

WorkerNext(w) ==
  \/ Get(w) \/ GetShutdown(w) \/ LoopAgain(w)
  \/ Finish(w) \/ Requeue(w) \/ EnqueueAfter(w) \/ Done(w)

Next ==
  \/ \E k \in Keys : EnqueueWorkflow(k)
  \/ \E w \in Workers : WorkerNext(w)
  \/ ShutDown

\* Goroutines run: a worker that can take a step takes one.  Nothing is assumed
\* about who adds keys, nor about how transition(key) ends.
Fairness == \A w \in Workers : WF_vars(WorkerNext(w))

Spec == Init /\ [][Next]_vars

FairSpec == Spec /\ Fairness

-----------------------------------------------------------------------------
(* Properties.                                                             *)

\* The types of the queue's fields and of the worker state.
TypeOK ==
  /\ queue \in Seq(Keys)
  /\ dirty \subseteq Keys
  /\ processing \subseteq Keys
  /\ shuttingDown \in BOOLEAN
  /\ pc \in [Workers -> WorkerStates]
  /\ item \in [Workers -> Keys \cup {None}]

QueueSet == {queue[i] : i \in DOMAIN queue}

\* No key is queued twice.
NoDuplicates == \A i, j \in DOMAIN queue : queue[i] = queue[j] => i = j

\* "Every element of queue should be in the dirty set and not in the
\* processing set" (queue.go:43-45), and the other way round: a dirty key that
\* nobody holds is queued, so it cannot be forgotten.
QueueCoherent == NoDuplicates /\ QueueSet = dirty \ processing

Holds(w) == pc[w] \in {"run", "sleep", "done"}

\* "It enforces that the syncHandler is never invoked concurrently with the same
\* key" (Manager.worker).
NeverConcurrent ==
  \A v, w \in Workers : (Holds(v) /\ Holds(w) /\ item[v] = item[w]) => v = w

\* Every key that needs processing is eventually handed to a worker, even when
\* it was added while it was being processed, and even across ShutDown
\* (ShutDown lets the workers drain the queue).
EveryRequestServed == \A k \in Keys : k \in dirty ~> k \in processing

\* The queue and its workers implement the contract of KeyQueue.
KQ == INSTANCE KeyQueue WITH Restarts <- FALSE

ImplementsKeyQueue == KQ!KQSpec
=============================================================================
