--------------------------- MODULE WorkQueueProofs --------------------------
(***************************************************************************)
(* Proofs about the work queue, for any sets of keys and workers.  The     *)
(* inductive invariant ties the three views of a key together: its place   *)
(* in the queue, its membership in the two sets, and the worker that       *)
(* holds it.                                                               *)
(***************************************************************************)
EXTENDS WorkQueue, SequenceTheorems, TLAPS

\* A worker that holds a key holds one of Keys, and it is in the processing
\* set; a worker that holds none has nothing in item.
HeldIsProcessing ==
  \A w \in Workers : IF Holds(w) THEN item[w] \in processing ELSE item[w] = None

\* The inductive invariant.
IInv ==
  /\ TypeOK
  /\ NoDuplicates
  /\ \A i \in DOMAIN queue : queue[i] \in dirty \ processing
  /\ \A k \in dirty \ processing : \E i \in DOMAIN queue : queue[i] = k
  /\ HeldIsProcessing
  /\ \A k \in processing : \E w \in Workers : Holds(w) /\ item[w] = k
  /\ NeverConcurrent

-----------------------------------------------------------------------------
(* Facts about the two sequence operations the queue uses.                 *)

\* Append puts the element after the old ones.
LEMMA AppendFacts ==
  ASSUME NEW S, NEW q \in Seq(S), NEW e \in S
  PROVE  /\ Append(q, e) \in Seq(S)
         /\ DOMAIN Append(q, e) = DOMAIN q \cup {Len(q) + 1}
         /\ Len(q) + 1 \notin DOMAIN q
         /\ \A i \in DOMAIN q : Append(q, e)[i] = q[i]
         /\ Append(q, e)[Len(q) + 1] = e
  OBVIOUS

\* Tail shifts the elements by one.
LEMMA TailFacts ==
  ASSUME NEW S, NEW q \in Seq(S), q # <<>>
  PROVE  /\ Tail(q) \in Seq(S)
         /\ 1 \in DOMAIN q /\ Head(q) = q[1] /\ Head(q) \in S
         /\ \A i \in DOMAIN Tail(q) : i + 1 \in DOMAIN q /\ i + 1 # 1 /\ Tail(q)[i] = q[i + 1]
         /\ \A i \in DOMAIN q : i # 1 => i - 1 \in DOMAIN Tail(q) /\ Tail(q)[i - 1] = q[i]
         /\ \A i \in DOMAIN Tail(q) : i \in Int
         /\ \A i \in DOMAIN q : i \in Int
  OBVIOUS

-----------------------------------------------------------------------------
(* The queue after the two ways it changes.                                *)

\* Queueing a dirty key that nobody holds and that is not queued yet keeps the
\* queue free of duplicates and equal to dirty \ processing.
LEMMA QueueGrows ==
  ASSUME IInv, NEW k \in Keys, k \notin dirty \ processing,
         queue' = Append(queue, k),
         dirty' \ processing' = (dirty \ processing) \cup {k}
  PROVE  /\ queue' \in Seq(Keys)
         /\ NoDuplicates'
         /\ \A i \in DOMAIN queue' : queue'[i] \in dirty' \ processing'
         /\ \A x \in dirty' \ processing' : \E i \in DOMAIN queue' : queue'[i] = x
<1>1. queue \in Seq(Keys) /\ NoDuplicates
      /\ (\A i \in DOMAIN queue : queue[i] \in dirty \ processing)
      /\ (\A x \in dirty \ processing : \E i \in DOMAIN queue : queue[i] = x)
  BY DEF IInv, TypeOK
<1>2. /\ queue' \in Seq(Keys)
      /\ DOMAIN queue' = DOMAIN queue \cup {Len(queue) + 1}
      /\ Len(queue) + 1 \notin DOMAIN queue
      /\ \A i \in DOMAIN queue : queue'[i] = queue[i]
      /\ queue'[Len(queue) + 1] = k
  BY <1>1, AppendFacts
<1>3. NoDuplicates'
  BY <1>1, <1>2 DEF NoDuplicates
<1>4. \A i \in DOMAIN queue' : queue'[i] \in dirty' \ processing'
  BY <1>1, <1>2
<1>5. \A x \in dirty' \ processing' : \E i \in DOMAIN queue' : queue'[i] = x
  BY <1>1, <1>2
<1> QED BY <1>2, <1>3, <1>4, <1>5

\* The invariant holds initially.
LEMMA InitIInv == Init => IInv
<1> SUFFICES ASSUME Init PROVE IInv
  OBVIOUS
<1>1. TypeOK
  <2>1. queue \in Seq(Keys)
    BY EmptySeq DEF Init
  <2>2. pc \in [Workers -> WorkerStates] /\ item \in [Workers -> Keys \cup {None}]
    BY DEF Init, WorkerStates
  <2>3. dirty \subseteq Keys /\ processing \subseteq Keys /\ shuttingDown \in BOOLEAN
    BY DEF Init
  <2> QED BY <2>1, <2>2, <2>3 DEF TypeOK
<1>2. DOMAIN queue = {}
  BY DEF Init
<1>3. \A w \in Workers : ~Holds(w) /\ item[w] = None
  BY DEF Init, Holds
<1>4. dirty = {} /\ processing = {}
  BY DEF Init
<1> QED BY <1>1, <1>2, <1>3, <1>4 DEF IInv, NoDuplicates, HeldIsProcessing, NeverConcurrent

\* Type.Add keeps the invariant's parts about the queue.
LEMMA AddKeepsQueue ==
  ASSUME IInv, NEW k \in Keys, Add(k), UNCHANGED processing
  PROVE  /\ queue' \in Seq(Keys) /\ dirty' \subseteq Keys
         /\ NoDuplicates'
         /\ \A i \in DOMAIN queue' : queue'[i] \in dirty' \ processing'
         /\ \A x \in dirty' \ processing' : \E i \in DOMAIN queue' : queue'[i] = x
<1>1. CASE shuttingDown \/ k \in dirty
  BY <1>1 DEF Add, IInv, TypeOK, NoDuplicates
<1>2. CASE ~(shuttingDown \/ k \in dirty) /\ k \in processing
  BY <1>2 DEF Add, IInv, TypeOK, NoDuplicates
<1>3. CASE ~(shuttingDown \/ k \in dirty) /\ k \notin processing
  <2>1. queue' = Append(queue, k) /\ dirty' = dirty \cup {k}
    BY <1>3 DEF Add
  <2>2. dirty' \ processing' = (dirty \ processing) \cup {k}
    BY <1>3, <2>1
  <2>3. dirty' \subseteq Keys
    BY <2>1 DEF IInv, TypeOK
  <2> QED BY <1>3, <2>1, <2>2, <2>3, QueueGrows
<1> QED BY <1>1, <1>2, <1>3

\* Every step keeps the invariant.
LEMMA NextIInv == IInv /\ [Next]_vars => IInv'
<1> SUFFICES ASSUME IInv, [Next]_vars PROVE IInv'
  OBVIOUS
<1>1. ASSUME NEW k \in Keys, EnqueueWorkflow(k) PROVE IInv'
  <2>1. UNCHANGED <<processing, shuttingDown, pc, item>> /\ Add(k)
    BY <1>1 DEF EnqueueWorkflow
  <2>2. (HeldIsProcessing /\ NeverConcurrent)'
    BY <2>1 DEF IInv, HeldIsProcessing, NeverConcurrent, Holds
  <2>3. \A x \in processing' : \E w \in Workers : Holds(w)' /\ item'[w] = x
    BY <2>1 DEF IInv, Holds
  <2> QED BY <2>1, <2>2, <2>3, AddKeepsQueue DEF IInv, TypeOK
<1>2. ASSUME NEW w \in Workers, Get(w) PROVE IInv'
  <2> DEFINE k == Head(queue)
  <2>1. /\ queue \in Seq(Keys) /\ queue # <<>> /\ NoDuplicates
        /\ \A i \in DOMAIN queue : queue[i] \in dirty \ processing
        /\ \A x \in dirty \ processing : \E i \in DOMAIN queue : queue[i] = x
    BY <1>2 DEF IInv, TypeOK, Get
  <2>2. /\ queue' = Tail(queue) /\ dirty' = dirty \ {k} /\ processing' = processing \cup {k}
        /\ pc' = [pc EXCEPT ![w] = "run"] /\ item' = [item EXCEPT ![w] = k]
        /\ shuttingDown' = shuttingDown /\ pc[w] = "get"
    BY <1>2 DEF Get
  <2>3. /\ queue' \in Seq(Keys)
        /\ 1 \in DOMAIN queue /\ k = queue[1] /\ k \in Keys
        /\ \A i \in DOMAIN queue' : i + 1 \in DOMAIN queue /\ i + 1 # 1 /\ queue'[i] = queue[i + 1]
        /\ \A i \in DOMAIN queue : i # 1 => i - 1 \in DOMAIN queue' /\ queue'[i - 1] = queue[i]
        /\ \A i \in DOMAIN queue' : i \in Int
    BY <2>1, <2>2, TailFacts
  <2>4. k \in dirty \ processing
    BY <2>1, <2>3
  <2> HIDE DEF k
  <2>5. NoDuplicates'
    <3> SUFFICES ASSUME NEW i \in DOMAIN queue', NEW j \in DOMAIN queue', queue'[i] = queue'[j]
                 PROVE  i = j
      BY DEF NoDuplicates
    <3>1. i + 1 = j + 1
      BY <2>1, <2>3 DEF NoDuplicates
    <3> QED BY <2>3, <3>1
  <2>6. \A i \in DOMAIN queue' : queue'[i] \in dirty' \ processing'
    <3> SUFFICES ASSUME NEW i \in DOMAIN queue' PROVE queue'[i] \in dirty' \ processing'
      OBVIOUS
    <3>1. queue'[i] = queue[i + 1] /\ i + 1 \in DOMAIN queue /\ i + 1 # 1
      BY <2>3
    <3>2. queue[i + 1] # k
      BY <2>1, <2>3, <3>1 DEF NoDuplicates
    <3> QED BY <2>1, <2>2, <3>1, <3>2
  <2>7. \A x \in dirty' \ processing' : \E i \in DOMAIN queue' : queue'[i] = x
    <3> SUFFICES ASSUME NEW x \in dirty' \ processing'
                 PROVE  \E i \in DOMAIN queue' : queue'[i] = x
      OBVIOUS
    <3>1. x \in dirty \ processing /\ x # k
      BY <2>2
    <3>2. PICK i \in DOMAIN queue : queue[i] = x
      BY <2>1, <3>1
    <3>3. i # 1
      BY <2>3, <3>1, <3>2
    <3>4. i - 1 \in DOMAIN queue' /\ queue'[i - 1] = x
      BY <2>3, <3>2, <3>3
    <3> QED BY <3>4
  <2>8. TypeOK'
    BY <2>2, <2>3 DEF IInv, TypeOK, WorkerStates
  <2>9. (HeldIsProcessing /\ NeverConcurrent)'
    <3>1. \A v \in Workers : v # w => pc'[v] = pc[v] /\ item'[v] = item[v]
      BY <2>2 DEF IInv, TypeOK
    <3>2. pc'[w] = "run" /\ item'[w] = k
      BY <2>2 DEF IInv, TypeOK
    <3>3. \A v \in Workers : Holds(v) => item[v] # k
      BY <2>4 DEF IInv, HeldIsProcessing
    <3>4. HeldIsProcessing'
      BY <2>2, <3>1, <3>2 DEF IInv, HeldIsProcessing, Holds
    <3>5. NeverConcurrent'
      BY <3>1, <3>2, <3>3 DEF IInv, NeverConcurrent, Holds
    <3> QED BY <3>4, <3>5
  <2>10. \A x \in processing' : \E v \in Workers : Holds(v)' /\ item'[v] = x
    BY <2>2 DEF IInv, TypeOK, Holds
  <2> QED BY <2>5, <2>6, <2>7, <2>8, <2>9, <2>10 DEF IInv
<1>3. ASSUME NEW w \in Workers,
             GetShutdown(w) \/ LoopAgain(w) \/ Finish(w) \/ Requeue(w)
      PROVE  IInv'
  <2>1. /\ UNCHANGED <<queue, dirty, processing, shuttingDown, item>>
        /\ \/ pc[w] \in {"get", "quit"} /\ \E c \in {"get", "quit"} : pc' = [pc EXCEPT ![w] = c]
           \/ pc[w] = "run" /\ \E c \in {"sleep", "done"} : pc' = [pc EXCEPT ![w] = c]
    BY <1>3 DEF GetShutdown, LoopAgain, Finish, Requeue
  <2>2. \A v \in Workers : Holds(v)' <=> Holds(v)
    BY <2>1 DEF IInv, TypeOK, Holds
  <2>3. TypeOK'
    BY <2>1 DEF IInv, TypeOK, WorkerStates
  <2> QED BY <2>1, <2>2, <2>3 DEF IInv, NoDuplicates, HeldIsProcessing, NeverConcurrent
<1>4. ASSUME NEW w \in Workers, EnqueueAfter(w) PROVE IInv'
  <2>1. /\ UNCHANGED <<processing, shuttingDown, item>> /\ Add(item[w])
        /\ pc[w] = "sleep" /\ pc' = [pc EXCEPT ![w] = "done"]
    BY <1>4 DEF EnqueueAfter
  <2>2. item[w] \in Keys
    BY <2>1 DEF IInv, TypeOK, HeldIsProcessing, Holds
  <2>3. \A v \in Workers : Holds(v)' <=> Holds(v)
    BY <2>1 DEF IInv, TypeOK, Holds
  <2>4. (HeldIsProcessing /\ NeverConcurrent)'
    BY <2>1, <2>3 DEF IInv, HeldIsProcessing, NeverConcurrent
  <2>5. \A x \in processing' : \E v \in Workers : Holds(v)' /\ item'[v] = x
    BY <2>1, <2>3 DEF IInv
  <2>6. pc' \in [Workers -> WorkerStates]
    BY <2>1 DEF IInv, TypeOK, WorkerStates
  <2> QED BY <2>1, <2>2, <2>4, <2>5, <2>6, AddKeepsQueue DEF IInv, TypeOK
<1>5. ASSUME NEW w \in Workers, Done(w) PROVE IInv'
  <2> DEFINE k == item[w]
  <2>1. /\ pc[w] = "done" /\ processing' = processing \ {k}
        /\ queue' = (IF k \in dirty THEN Append(queue, k) ELSE queue)
        /\ pc' = [pc EXCEPT ![w] = "get"] /\ item' = [item EXCEPT ![w] = None]
        /\ dirty' = dirty /\ shuttingDown' = shuttingDown
    BY <1>5 DEF Done
  <2>2. Holds(w) /\ k \in processing /\ k \in Keys
    BY <2>1 DEF IInv, TypeOK, HeldIsProcessing, Holds
  <2>3. /\ \A v \in Workers : v # w => pc'[v] = pc[v] /\ item'[v] = item[v]
        /\ pc'[w] = "get" /\ item'[w] = None
    BY <2>1 DEF IInv, TypeOK
  <2>4. \A v \in Workers : v # w /\ Holds(v) => item[v] # k
    BY <2>2 DEF IInv, NeverConcurrent
  <2> HIDE DEF k
  <2>5. (HeldIsProcessing /\ NeverConcurrent)'
    BY <2>1, <2>3, <2>4 DEF IInv, HeldIsProcessing, NeverConcurrent, Holds
  <2>6. \A x \in processing' : \E v \in Workers : Holds(v)' /\ item'[v] = x
    <3> SUFFICES ASSUME NEW x \in processing' PROVE \E v \in Workers : Holds(v)' /\ item'[v] = x
      OBVIOUS
    <3>1. PICK v \in Workers : Holds(v) /\ item[v] = x
      BY <2>1 DEF IInv
    <3>2. v # w
      BY <2>1, <3>1 DEF k
    <3> QED BY <2>3, <3>1, <3>2 DEF Holds
  <2>7. pc' \in [Workers -> WorkerStates] /\ item' \in [Workers -> Keys \cup {None}]
        /\ processing' \subseteq Keys /\ dirty' \subseteq Keys /\ shuttingDown' \in BOOLEAN
    BY <2>1 DEF IInv, TypeOK, WorkerStates
  <2>8. CASE k \in dirty
    <3>1. dirty' \ processing' = (dirty \ processing) \cup {k}
      BY <2>1, <2>2, <2>8
    <3>2. queue' = Append(queue, k) /\ k \notin dirty \ processing
      BY <2>1, <2>2, <2>8
    <3> QED BY <2>2, <3>1, <3>2, <2>5, <2>6, <2>7, QueueGrows DEF IInv, TypeOK
  <2>9. CASE k \notin dirty
    <3>1. queue' = queue /\ dirty' \ processing' = dirty \ processing
      BY <2>1, <2>9
    <3>2. NoDuplicates' /\ queue' \in Seq(Keys)
      BY <3>1 DEF IInv, TypeOK, NoDuplicates
    <3> QED BY <3>1, <3>2, <2>5, <2>6, <2>7 DEF IInv, TypeOK
  <2> QED BY <2>8, <2>9
<1>6. ASSUME ShutDown PROVE IInv'
  BY <1>6 DEF ShutDown, IInv, TypeOK, NoDuplicates, HeldIsProcessing, NeverConcurrent, Holds
<1>7. ASSUME UNCHANGED vars PROVE IInv'
  BY <1>7 DEF vars, IInv, TypeOK, NoDuplicates, HeldIsProcessing, NeverConcurrent, Holds
<1> QED BY <1>1, <1>2, <1>3, <1>4, <1>5, <1>6, <1>7 DEF Next, WorkerNext

-----------------------------------------------------------------------------
\* The invariant holds in every reachable state.
LEMMA SpecIInv == Spec => []IInv
BY InitIInv, NextIInv, PTL DEF Spec

\* Type correctness of the queue and its workers (queue.go, Manager.worker).
THEOREM TypeCorrect == Spec => []TypeOK
<1>1. IInv => TypeOK
  BY DEF IInv
<1> QED BY <1>1, SpecIInv, PTL

\* The queue always holds exactly the dirty keys that nobody processes, each
\* once (the comment at queue.go:43): no request is lost or served twice.
THEOREM Coherent == Spec => []QueueCoherent
<1>1. IInv => QueueCoherent
  BY DEF IInv, QueueCoherent, QueueSet
<1> QED BY <1>1, SpecIInv, PTL

\* Two workers never run the transitioner on the same key (the comment on
\* Manager.worker), although enqueueAfter re-adds a key while it is held.
THEOREM Exclusive == Spec => []NeverConcurrent
<1>1. IInv => NeverConcurrent
  BY DEF IInv
<1> QED BY <1>1, SpecIInv, PTL

\* The queue with its workers implements the contract of KeyQueue, with no
\* restart: what WorkflowController assumes when it gives a key one worker.
THEOREM Refinement == Spec => ImplementsKeyQueue
<1>1. Init => KQ!KQInit
  BY DEF Init, KQ!KQInit
<1>2. IInv /\ [Next]_vars => [KQ!KQNext]_(KQ!kqVars)
  <2> SUFFICES ASSUME IInv, [Next]_vars PROVE KQ!KQNext \/ UNCHANGED KQ!kqVars
    OBVIOUS
  <2>1. ASSUME NEW k \in Keys, Add(k), UNCHANGED processing
        PROVE  KQ!KQNext \/ UNCHANGED KQ!kqVars
    BY <2>1 DEF Add, KQ!KQNext, KQ!KQAdd, KQ!kqVars
  <2>2. ASSUME NEW k \in Keys, EnqueueWorkflow(k) PROVE KQ!KQNext \/ UNCHANGED KQ!kqVars
    BY <2>1, <2>2 DEF EnqueueWorkflow
  <2>3. ASSUME NEW w \in Workers, Get(w) PROVE KQ!KQNext
    <3>1. queue \in Seq(Keys) /\ queue # <<>>
      BY <2>3 DEF IInv, TypeOK, Get
    <3>2. Head(queue) = queue[1] /\ 1 \in DOMAIN queue /\ Head(queue) \in Keys
      BY <3>1, TailFacts
    <3>3. Head(queue) \in dirty \ processing
      BY <3>2 DEF IInv
    <3> QED BY <2>3, <3>2, <3>3 DEF Get, KQ!KQNext, KQ!KQTake
  <2>4. ASSUME NEW w \in Workers, EnqueueAfter(w) PROVE KQ!KQNext \/ UNCHANGED KQ!kqVars
    <3>1. item[w] \in Keys
      BY <2>4 DEF IInv, TypeOK, HeldIsProcessing, Holds, EnqueueAfter
    <3> QED BY <2>1, <2>4, <3>1 DEF EnqueueAfter
  <2>5. ASSUME NEW w \in Workers, Done(w) PROVE KQ!KQNext
    <3>1. item[w] \in processing /\ item[w] \in Keys
      BY <2>5 DEF IInv, TypeOK, HeldIsProcessing, Holds, Done
    <3> QED BY <2>5, <3>1 DEF Done, KQ!KQNext, KQ!KQRelease
  <2>6. ASSUME NEW w \in Workers,
               GetShutdown(w) \/ LoopAgain(w) \/ Finish(w) \/ Requeue(w)
        PROVE  UNCHANGED KQ!kqVars
    BY <2>6 DEF GetShutdown, LoopAgain, Finish, Requeue, KQ!kqVars
  <2>7. ASSUME ShutDown \/ UNCHANGED vars PROVE UNCHANGED KQ!kqVars
    BY <2>7 DEF ShutDown, vars, KQ!kqVars
  <2> QED BY <2>2, <2>3, <2>4, <2>5, <2>6, <2>7 DEF Next, WorkerNext
<1> QED BY <1>1, <1>2, SpecIInv, PTL DEF Spec, ImplementsKeyQueue, KQ!KQSpec
=============================================================================
