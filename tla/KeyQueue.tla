------------------------------ MODULE KeyQueue ------------------------------
(***************************************************************************)
(* What the work queue promises, whatever the queue order and the number  *)
(* of workers: a key that was added is handed out once, it is never handed *)
(* out again while somebody holds it, and an Add that arrives while the    *)
(* key is held is not forgotten.  The comment on Manager.worker, "It       *)
(* enforces that the syncHandler is never invoked concurrently with the    *)
(* same key", is this contract.                                            *)
(*                                                                         *)
(* WorkQueue (the queue itself) and WorkflowController (the controller as  *)
(* one key sees it) are both shown to implement this module.               *)
(***************************************************************************)
CONSTANTS
  Keys,
  Restarts   \* BOOLEAN: the process may die and start again

VARIABLES
  dirty,        \* the keys that need processing
  processing    \* the keys some worker holds

kqVars == <<dirty, processing>>

KQInit == dirty = {} /\ processing = {}

\* Somebody asks for the key to be processed.  A repeated request is absorbed.
KQAdd(k) == dirty' = dirty \cup {k} /\ UNCHANGED processing

\* The key is handed to a worker: only when asked for, and to one at a time.
KQTake(k) ==
  /\ k \in dirty \ processing
  /\ dirty' = dirty \ {k}
  /\ processing' = processing \cup {k}

\* The worker gives the key back; a request made meanwhile stays.
KQRelease(k) ==
  /\ k \in processing
  /\ processing' = processing \ {k}
  /\ UNCHANGED dirty

\* The process restarts: the queue lives in memory only.
KQRestart == Restarts /\ dirty' = {} /\ processing' = {}

KQNext ==
  \/ \E k \in Keys : KQAdd(k) \/ KQTake(k) \/ KQRelease(k)
  \/ KQRestart

KQSpec == KQInit /\ [][KQNext]_kqVars
=============================================================================
