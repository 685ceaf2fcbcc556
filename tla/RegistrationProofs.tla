-------------------------- MODULE RegistrationProofs ------------------------
(***************************************************************************)
(* Proofs about Registration for any number of controllers, of tries and   *)
(* of faults.                                                              *)
(***************************************************************************)
EXTENDS Registration, TLAPS

\* Why a race leaves one: as long as nothing was lost and nobody crashed, a
\* resource that exists either was made by a controller that runs, or was there
\* before any of them went past its Get; while it does not exist, every failed
\* try is one that the server refused.
Accounted ==
  ~broken =>
    /\ late = 0
    /\ exists => \/ \E c \in Controllers : pc[c] = "run"
                 \/ \A c \in Controllers : pc[c] = "get"
    /\ ~exists => \A c \in Controllers :
                    /\ refused[c] >= tries[c]
                    /\ pc[c] = "exit" => refused[c] >= RetryOnFail

\* A controller that is still trying has tries left.
TriesLeft == \A c \in Controllers : pc[c] \in {"get", "create"} => tries[c] < RetryOnFail

RInv == TypeOK /\ TriesLeft /\ RunsRegistered /\ Accounted

\* The invariant holds when the controllers start (main.go:81).
LEMMA InitRInv == Init => RInv
<1> SUFFICES ASSUME Init PROVE RInv
  OBVIOUS
<1> USE RegistrationAssumption DEF Init
<1>1. TypeOK
  <2>1. 0 \in 0..RetryOnFail
    OBVIOUS
  <2>2. exists \in BOOLEAN /\ broken \in BOOLEAN
    OBVIOUS
  <2> QED BY <2>1, <2>2 DEF TypeOK
<1>2. TriesLeft /\ RunsRegistered
  BY DEF TriesLeft, RunsRegistered
<1>3. Accounted
  BY DEF Accounted
<1> QED BY <1>1, <1>2, <1>3 DEF RInv

\* A failed try keeps the types and leaves a next try only if there is one.
LEMMA FailedTryFacts ==
  ASSUME TypeOK, TriesLeft, NEW c \in Controllers, pc[c] = "create", FailedTry(c)
  PROVE  /\ tries' \in [Controllers -> 0..RetryOnFail]
         /\ pc' \in [Controllers -> {"get", "create", "run", "exit"}]
         /\ TriesLeft'
         /\ pc'[c] \in {"create", "exit"} /\ tries'[c] = tries[c] + 1
         /\ pc'[c] = "exit" => tries'[c] = RetryOnFail
         /\ \A d \in Controllers \ {c} : pc'[d] = pc[d] /\ tries'[d] = tries[d]
BY RegistrationAssumption DEF FailedTry, TypeOK, TriesLeft

\* Every action keeps the invariant.
LEMMA NextRInv == RInv /\ [Next]_vars => RInv'
<1> SUFFICES ASSUME RInv, [Next]_vars PROVE RInv'
  OBVIOUS
<1>0. TypeOK /\ TriesLeft /\ RunsRegistered /\ Accounted
  BY DEF RInv
<1> USE RegistrationAssumption
<1>1. CASE UNCHANGED vars
  BY <1>0, <1>1 DEF vars, RInv, TypeOK, TriesLeft, RunsRegistered, Accounted
<1>2. ASSUME NEW c \in Controllers, GetFound(c) PROVE RInv'
  BY <1>0, <1>2 DEF GetFound, RInv, TypeOK, TriesLeft, RunsRegistered, Accounted
<1>3. ASSUME NEW c \in Controllers, GetNotFound(c) PROVE RInv'
  BY <1>0, <1>3 DEF GetNotFound, RInv, TypeOK, TriesLeft, RunsRegistered, Accounted
<1>4. ASSUME NEW c \in Controllers, GetFails(c) PROVE RInv'
  BY <1>0, <1>4 DEF GetFails, Fault, RInv, TypeOK, TriesLeft, RunsRegistered, Accounted
<1>5. ASSUME NEW c \in Controllers, CreateSucceeds(c) PROVE RInv'
  BY <1>0, <1>5 DEF CreateSucceeds, RInv, TypeOK, TriesLeft, RunsRegistered, Accounted
<1>6. ASSUME NEW c \in Controllers, CreateConflicts(c) PROVE RInv'
  <2>1. TypeOK' /\ TriesLeft'
    BY <1>0, <1>6, FailedTryFacts DEF CreateConflicts, TypeOK
  <2>2. RunsRegistered'
    BY <1>0, <1>6, FailedTryFacts DEF CreateConflicts, RunsRegistered
  <2>3. Accounted'
    BY <1>0, <1>6, FailedTryFacts DEF CreateConflicts, Accounted
  <2> QED BY <2>1, <2>2, <2>3 DEF RInv
<1>7. ASSUME NEW c \in Controllers, CreateRefused(c) PROVE RInv'
  <2>1. TypeOK' /\ TriesLeft'
    BY <1>0, <1>7, FailedTryFacts DEF CreateRefused, Fault, TypeOK
  <2>2. RunsRegistered'
    BY <1>0, <1>7, FailedTryFacts DEF CreateRefused, RunsRegistered
  <2>3. Accounted'
    BY <1>0, <1>7, FailedTryFacts DEF CreateRefused, Accounted, TypeOK
  <2> QED BY <2>1, <2>2, <2>3 DEF RInv
<1>8. ASSUME NEW c \in Controllers, CreateLost(c) PROVE RInv'
  <2>1. TypeOK' /\ TriesLeft'
    BY <1>0, <1>8, FailedTryFacts DEF CreateLost, Fault, TypeOK
  <2>2. RunsRegistered'
    BY <1>0, <1>8, FailedTryFacts DEF CreateLost, RunsRegistered
  <2> QED BY <1>8, <2>1, <2>2 DEF RInv, CreateLost, Accounted
<1>9. ASSUME NEW c \in Controllers, Crash(c) PROVE RInv'
  BY <1>0, <1>9 DEF Crash, Fault, RInv, TypeOK, TriesLeft, RunsRegistered, Accounted
<1>10. ASSUME NEW c \in Controllers, Restart(c) PROVE RInv'
  BY <1>0, <1>10 DEF Restart, RInv, TypeOK, TriesLeft, RunsRegistered, Accounted
<1>11. CASE LateCreate
  BY <1>0, <1>11 DEF LateCreate, RInv, TypeOK, TriesLeft, RunsRegistered, Accounted
<1> QED BY <1>1, <1>2, <1>3, <1>4, <1>5, <1>6, <1>7, <1>8, <1>9, <1>10, <1>11
        DEF Next, Progress

\* In every reachable state the parts of the invariant hold.
THEOREM RegistrationInvariant == Spec => []RInv
<1>1. Init => RInv
  BY InitRInv
<1>2. RInv /\ [Next]_vars => RInv'
  BY NextRInv
<1> QED BY <1>1, <1>2, PTL DEF Spec

\* The state keeps its types; above all no controller tries to create the
\* resource more than RetryOnFail times (main.go:133-142).
THEOREM TypeCorrect == Spec => []TypeOK
<1>1. RInv => TypeOK
  BY DEF RInv
<1> QED BY <1>1, RegistrationInvariant, PTL

\* A controller runs only when the resource is registered (main.go:81-88), for
\* any number of controllers, tries and faults.
THEOREM RunsRegisteredHolds == Spec => []RunsRegistered
<1>1. RInv => RunsRegistered
  BY DEF RInv
<1> QED BY <1>1, RegistrationInvariant, PTL

\* The race for the resource alone never takes all controllers down
\* (main.go:133-142).
THEOREM RaceLeavesOneHolds == Spec => []RaceLeavesOne
<1>1. RInv => RaceLeavesOne
  BY RegistrationAssumption DEF RInv, Accounted, RaceLeavesOne, AllDown
<1> QED BY <1>1, RegistrationInvariant, PTL
=============================================================================
