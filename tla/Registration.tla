---------------------------- MODULE Registration ----------------------------
(***************************************************************************)
(* main.go: before it runs, a controller makes sure that the third-party   *)
(* resource is registered.  Several controllers may start at once (an old  *)
(* pod and its successor), share the API server, and are restarted when    *)
(* they end (restartPolicy: Always in pod.yaml).                           *)
(*                                                                         *)
(* A call and its answer are one step: what happens between them at other  *)
(* controllers may as well happen after the answer.  A Create whose answer *)
(* does not come is a request that reaches the server later, or never.     *)
(***************************************************************************)
EXTENDS Naturals, FiniteSets

CONSTANTS
  Controllers,
  RetryOnFail,  \* thirdPartyResourceRetryOnFail
  MaxFaults     \* bound: failed calls, lost answers and crashes

ASSUME RegistrationAssumption ==
  /\ Controllers # {} /\ IsFiniteSet(Controllers)
  /\ RetryOnFail \in Nat \ {0}
  /\ MaxFaults \in Nat

VARIABLES
  exists,   \* the API server has the third-party resource
  pc,       \* pc[c]: "get", "create", "run", "exit"
  tries,    \* tries[c]: Creates that failed, in this life of c
  late,     \* number of Creates under way that nobody waits for
  refused,  \* refused[c]: Creates of c that the server failed, in all its lives
  broken,   \* an answer was lost or a controller crashed
  faults    \* number of faults so far

vars == <<exists, pc, tries, late, refused, broken, faults>>

Init ==
  /\ exists \in BOOLEAN
  /\ pc = [c \in Controllers |-> "get"]
  /\ tries = [c \in Controllers |-> 0]
  /\ late = 0
  /\ refused = [c \in Controllers |-> 0]
  /\ broken = FALSE /\ faults = 0

Fault == faults < MaxFaults /\ faults' = faults + 1

-----------------------------------------------------------------------------
\* Get: the resource is there.
GetFound(c) ==
  /\ pc[c] = "get" /\ exists
  /\ pc' = [pc EXCEPT ![c] = "run"]
  /\ UNCHANGED <<exists, tries, late, refused, broken, faults>>

\* Get: StatusReasonNotFound.
GetNotFound(c) ==
  /\ pc[c] = "get" /\ ~exists
  /\ pc' = [pc EXCEPT ![c] = "create"]
  /\ UNCHANGED <<exists, tries, late, refused, broken, faults>>

\* Get: any other error; it is tried again for ever.
GetFails(c) ==
  /\ pc[c] = "get" /\ Fault
  /\ UNCHANGED <<exists, pc, tries, late, refused, broken>>

\* A Create that did not succeed is tried again for ever.
FailedTryForEver(c) ==
  /\ tries' = [tries EXCEPT ![c] = @ + 1]
  /\ UNCHANGED pc

\* A Create did not succeed: the next try, or the end of the process.
FailedTry(c) ==
  /\ tries' = [tries EXCEPT ![c] = @ + 1]
  /\ pc' = [pc EXCEPT ![c] = IF tries'[c] = RetryOnFail THEN "exit" ELSE "create"]

\* Create: the resource is made, and the loop goes on.
CreateGoesOn(c) ==
  /\ pc[c] = "create" /\ ~exists
  /\ exists' = TRUE
  /\ FailedTry(c)
  /\ UNCHANGED <<late, refused, broken, faults>>

\* Create: the resource is made.
CreateSucceeds(c) ==
  /\ pc[c] = "create" /\ ~exists
  /\ exists' = TRUE
  /\ pc' = [pc EXCEPT ![c] = "run"]
  /\ UNCHANGED <<tries, late, refused, broken, faults>>

\* Create: AlreadyExists, not counted as a failure.
CreateConflictsUncounted(c) ==
  /\ pc[c] = "create" /\ exists
  /\ UNCHANGED vars

\* Create: AlreadyExists, an error like any other.
CreateConflicts(c) ==
  /\ pc[c] = "create" /\ exists
  /\ FailedTry(c)
  /\ UNCHANGED <<exists, late, refused, broken, faults>>

\* Create: any error is taken for AlreadyExists.
CreateRefusedRuns(c) ==
  /\ pc[c] = "create" /\ Fault
  /\ refused' = [refused EXCEPT ![c] = @ + 1]
  /\ pc' = [pc EXCEPT ![c] = "run"]
  /\ UNCHANGED <<exists, tries, late, broken>>

\* Create: the server answers with another error.
CreateRefused(c) ==
  /\ pc[c] = "create" /\ Fault
  /\ refused' = [refused EXCEPT ![c] = @ + 1]
  /\ FailedTry(c)
  /\ UNCHANGED <<exists, late, broken>>

\* Create: no answer; the request may still be under way.
CreateLost(c) ==
  /\ pc[c] = "create" /\ Fault
  /\ broken' = TRUE
  /\ late' \in {late, late + 1}
  /\ FailedTry(c)
  /\ UNCHANGED <<exists, refused>>

\* A Create that nobody waits for reaches the server.
LateCreate ==
  /\ late > 0
  /\ late' = late - 1
  /\ exists' = TRUE
  /\ UNCHANGED <<pc, tries, refused, broken, faults>>

\* The process dies; a Create that it waits for may be under way.
Crash(c) ==
  /\ pc[c] # "exit" /\ Fault
  /\ pc' = [pc EXCEPT ![c] = "exit"]
  /\ late' \in {late} \cup (IF pc[c] = "create" THEN {late + 1} ELSE {})
  /\ broken' = TRUE
  /\ UNCHANGED <<exists, tries, refused>>

\* The kubelet starts the container again.
Restart(c) ==
  /\ pc[c] = "exit"
  /\ pc' = [pc EXCEPT ![c] = "get"]
  /\ tries' = [tries EXCEPT ![c] = 0]
  /\ UNCHANGED <<exists, late, refused, broken, faults>>

-----------------------------------------------------------------------------
Progress(c) ==
  \/ GetFound(c) \/ GetNotFound(c) \/ CreateSucceeds(c) \/ CreateConflicts(c)
  \/ Restart(c)

Next ==
  \/ \E c \in Controllers :
       Progress(c) \/ GetFails(c) \/ CreateRefused(c) \/ CreateLost(c) \/ Crash(c)
  \/ LateCreate

Spec == Init /\ [][Next]_vars

\* A controller goes on and is restarted when it ended.  There are finitely many
\* faults; a late request need not arrive.
FairSpec == Spec /\ \A c \in Controllers : WF_vars(Progress(c))

-----------------------------------------------------------------------------
(* Properties.                                                             *)

\* Types of the state; a life of a controller has at most RetryOnFail failed tries
\* (the loop at main.go:132).
TypeOK ==
  /\ exists \in BOOLEAN
  /\ pc \in [Controllers -> {"get", "create", "run", "exit"}]
  /\ tries \in [Controllers -> 0..RetryOnFail]
  /\ late \in Nat /\ faults \in Nat
  /\ refused \in [Controllers -> Nat]
  /\ broken \in BOOLEAN

\* "ThirdPartyResource registered." before the manager runs: no mixture of
\* races, retries and lost answers lets a controller run without the resource.
RunsRegistered == \A c \in Controllers : pc[c] = "run" => exists

\* An AlreadyExists counts as a failure, so a controller that lost the race for
\* the resource shuts down although it is registered.  The race alone never
\* takes all of them down: when nothing was lost and nobody crashed, the server
\* must have failed RetryOnFail Creates of each.
AllDown == \A c \in Controllers : pc[c] = "exit"
RaceLeavesOne ==
  AllDown /\ ~broken => \A c \in Controllers : refused[c] >= RetryOnFail

\* With a restart of what shut down, every controller runs in the end.
EventuallyRuns == \A c \in Controllers : <>[](pc[c] = "run")
=============================================================================
