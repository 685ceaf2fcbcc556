--------------------------- MODULE ValidationProofs -------------------------
(***************************************************************************)
(* What the validation of workflows and of their updates guarantees, for   *)
(* every set of workflows, edits and DAX files.                            *)
(***************************************************************************)
EXTENDS Validation, TopologicalSortProofs

\* Between requests no walk is under way.
AtRest == request = None => Off /\ deps = NoSteps

\* The errors of a request were found before its walk began.
ErrorsFound ==
  request # None =>
    /\ SpecErrors(request) \subseteq errs
    /\ stored # None => SpecUpdateErrors(request, stored) \subseteq errs /\ ~AllCompleted(stored)

\* What is converted is one of the files.
SourceKnown == source # None => source \in Documents

VInv == SortInv /\ TypeOK /\ AtRest /\ ErrorsFound /\ StoredValid /\ SourceKnown

-----------------------------------------------------------------------------
(* The converter.                                                          *)

\* A set of indexes of a sequence that is not empty has a greatest one.
LEMMA GreatestIndex ==
  ASSUME NEW S, NEW q \in Seq(S), NEW T \in SUBSET DOMAIN q, T # {}
  PROVE  \E i \in T : \A j \in T : j <= i
<1>1. Len(q) \in Nat /\ DOMAIN q = 1..Len(q)
  BY LenProperties
<1> DEFINE Gaps == {Len(q) - i : i \in T}
<1>2. Gaps \in SUBSET Nat /\ Gaps # {}
  BY <1>1
<1>3. PICK g \in Gaps : \A h \in Gaps : g <= h
  BY <1>2, LeastNatural
<1>4. PICK i \in T : g = Len(q) - i
  OBVIOUS
<1>5. \A j \in T : Len(q) - i <= Len(q) - j
  BY <1>3, <1>4
<1>6. \A j \in T : j <= i
  BY <1>1, <1>5
<1> QED BY <1>6

\* The last of some elements of a sequence is one of them.
LEMMA LastOfFacts ==
  ASSUME NEW S, NEW q \in Seq(S), NEW T \in SUBSET DOMAIN q, T # {}
  PROVE  LastOf(T) \in T
BY GreatestIndex DEF LastOf

\* The id of a job, a child or a parent is a step name in some case.
LEMMA LowerName == ASSUME NEW id \in Id(Names) PROVE ToLower(id) \in Names
BY DEF Id, ToLower

\* mapJobsToDependencies: the dependencies of r are the parents of one of its
\* child elements, as step names.
LEMMA ChildMapFacts ==
  ASSUME NEW adag, IsAdag(adag, Names), NEW r \in Refs(adag)
  PROVE  \E i \in ChildsOf(adag, r) :
           /\ ChildMap(adag)[r] =
                [p \in DOMAIN adag.childs[i].parents |-> ToLower(adag.childs[i].parents[p])]
           /\ ChildMap(adag)[r] \in Seq(Names)
<1> DEFINE i == LastOf(ChildsOf(adag, r))
           parents == adag.childs[i].parents
<1>1. ChildsOf(adag, r) \in SUBSET DOMAIN adag.childs /\ ChildsOf(adag, r) # {}
  BY DEF Refs, ChildsOf
<1>2. adag.childs \in Seq([ref : Id(Names), parents : Seq(Id(Names))])
  BY DEF IsAdag
<1>3. i \in ChildsOf(adag, r)
  BY <1>1, <1>2, LastOfFacts
<1>4. ChildMap(adag)[r] = [p \in DOMAIN parents |-> ToLower(parents[p])]
  BY DEF ChildMap
<1> HIDE DEF i
<1>5. adag.childs[i] \in [ref : Id(Names), parents : Seq(Id(Names))]
  <2>1. i \in 1..Len(adag.childs)
    BY <1>1, <1>2, <1>3, LenProperties
  <2> QED BY <1>2, <2>1, ElementOfSeq
<1>6. parents \in Seq(Id(Names))
  BY <1>5
<1> HIDE DEF parents
<1>7. \A p \in DOMAIN parents : ToLower(parents[p]) \in Names
  BY <1>6, LowerName
<1>8. DOMAIN parents = 1..Len(parents) /\ Len(parents) \in Nat
  BY <1>6
<1>9. ChildMap(adag)[r] \in Seq(Names)
  BY <1>4, <1>7, <1>8
<1> QED BY <1>3, <1>4, <1>9 DEF parents

\* What dax-to-json prints is a workflow, whatever the file (main.go:53-96).
LEMMA DaxObject ==
  ASSUME NEW adag, IsAdag(adag, Names)
  PROVE  IsObject(FromDax(adag))
<1> DEFINE names == {ToLower(adag.jobs[i]) : i \in DOMAIN adag.jobs}
<1>1. \A i \in DOMAIN adag.jobs : adag.jobs[i] \in Id(Names)
  BY DEF IsAdag
<1>2. names \subseteq Names
  BY <1>1, LowerName
<1>3. DOMAIN Steps(adag) = names
  BY DEF Steps
<1>4. ASSUME NEW n \in names PROVE Steps(adag)[n] \in Step
  <2> DEFINE id == adag.jobs[LastOf(JobsOf(adag, n))]
             list == IF id \in Refs(adag) THEN ChildMap(adag)[id] ELSE <<>>
  <2>1. Steps(adag)[n] = NewStep(list)
    BY DEF Steps
  <2> HIDE DEF id
  <2>2. CASE id \in Refs(adag)
    <3>1. list \in Seq(Names)
      BY <2>2, ChildMapFacts
    <3> HIDE DEF list
    <3> QED BY <2>1, <3>1 DEF NewStep, Step
  <2>3. CASE id \notin Refs(adag)
    <3>1. list \in Seq(Names)
      BY <2>3
    <3> HIDE DEF list
    <3> QED BY <2>1, <3>1 DEF NewStep, Step
  <2> QED BY <2>2, <2>3
<1>5. FromDax(adag).steps = Steps(adag)
  BY DEF FromDax
<1> HIDE DEF names
<1> QED BY <1>2, <1>3, <1>4, <1>5 DEF FromDax, IsObject

\* The converter keeps the jobs and the dependencies of every file in which no
\* two jobs and no two child elements have the same id (main.go:53-96).
LEMMA DaxConverts ==
  ASSUME NEW adag, IsAdag(adag, Names)
  PROVE  ConvertsFaithfully(adag)
<1> SUFFICES ASSUME Unambiguous(adag), NEW i \in DOMAIN adag.jobs
             PROVE  /\ ToLower(adag.jobs[i]) \in DOMAIN Steps(adag)
                    /\ LET d == Steps(adag)[ToLower(adag.jobs[i])].deps
                       IN  {d[j] : j \in DOMAIN d} = Needs(adag, adag.jobs[i])
  BY DEF ConvertsFaithfully
<1> DEFINE job == adag.jobs[i]
           n == ToLower(job)
           list == IF job \in Refs(adag) THEN ChildMap(adag)[job] ELSE <<>>
<1>1. n \in DOMAIN Steps(adag)
  BY DEF Steps
<1>2. JobsOf(adag, n) = {i}
  BY DEF JobsOf, Unambiguous
<1>3. LastOf(JobsOf(adag, n)) = i
  <2>1. i <= i
    BY DEF IsAdag
  <2> QED BY <1>2, <2>1 DEF LastOf
<1>4. Steps(adag)[n].deps = list
  BY <1>1, <1>3 DEF Steps, NewStep
<1>5. {list[j] : j \in DOMAIN list} = Needs(adag, job)
  <2>1. CASE job \notin Refs(adag)
    <3>1. {list[j] : j \in DOMAIN list} = {}
      BY <2>1
    <3>2. ChildsOf(adag, job) = {}
      BY <2>1 DEF Refs, ChildsOf
    <3> QED BY <3>1, <3>2 DEF Needs
  <2>2. CASE job \in Refs(adag)
    <3>1. PICK c \in ChildsOf(adag, job) :
            ChildMap(adag)[job] =
              [p \in DOMAIN adag.childs[c].parents |-> ToLower(adag.childs[c].parents[p])]
      BY <2>2, ChildMapFacts
    <3>2. ChildsOf(adag, job) = {c}
      BY <3>1 DEF Unambiguous, ChildsOf
    <3>3. Needs(adag, job) = {ToLower(id) : id \in Parents(adag.childs[c])}
      BY <3>2 DEF Needs
    <3>4. {list[j] : j \in DOMAIN list} = {ToLower(id) : id \in Parents(adag.childs[c])}
      BY <2>2, <3>1 DEF Parents
    <3> QED BY <3>3, <3>4
  <2> QED BY <2>1, <2>2
<1> HIDE DEF list
<1> QED BY <1>1, <1>4, <1>5

-----------------------------------------------------------------------------
(* The requests.                                                           *)

\* The graph of a workflow is a graph of steps.
LEMMA ObjectGraph ==
  ASSUME NEW o, IsObject(o)
  PROVE  /\ IsFiniteSet(DOMAIN Graph(o)) /\ DOMAIN Graph(o) \subseteq Names
         /\ \A s \in DOMAIN Graph(o) : Graph(o)[s] \in Seq(Names)
<1>1. DOMAIN Graph(o) = DOMAIN o.steps /\ DOMAIN o.steps \subseteq Names
  BY DEF Graph, IsObject
<1>2. IsFiniteSet(DOMAIN o.steps)
  BY <1>1, FS_Subset, NamesAssumption
<1>3. ASSUME NEW s \in DOMAIN o.steps PROVE Graph(o)[s] \in Seq(Names)
  BY <1>3 DEF Graph, IsObject, Step
<1> QED BY <1>1, <1>2, <1>3

\* Before the first request the invariant holds.
LEMMA InitVInv == Init => VInv
<1> SUFFICES ASSUME Init PROVE VInv
  OBVIOUS
<1>1. Keys = {}
  BY DEF Init, NoSteps, Keys
<1>2. GraphType
  BY <1>1, FS_EmptySet DEF GraphType
<1>3. SortInv
  BY <1>2, OffSortInv DEF Init
<1>4. TypeOK
  BY DEF Init, Off, TypeOK
<1> QED BY <1>3, <1>4 DEF Init, VInv, AtRest, ErrorsFound, StoredValid, SourceKnown

\* A request that is not None begins.
LEMMA BeginVInv ==
  ASSUME VInv, request = None, NEW o, IsObject(o), o # None, NEW e, Begin(o, e),
         e \subseteq {"deadline", "selector", "exclusive", "immutable", "removed",
                      "modified", "statuses"},
         SpecErrors(o) \subseteq e,
         stored # None => SpecUpdateErrors(o, stored) \subseteq e /\ ~AllCompleted(stored),
         source' = source \/ source' \in Documents
  PROVE  VInv'
<1>1. /\ request' = o /\ errs' = e /\ deps' = Graph(o)
      /\ UNCHANGED <<pc, todo, stack, next, temporary, permanent, sorted, cycle, isCyclic,
                     cycleStart, result, stored>>
  BY DEF Begin, walkVars
<1>2. Off /\ TypeOK /\ StoredValid
  BY DEF VInv, AtRest
<1>3. Off'
  BY <1>1, <1>2 DEF Off
<1>4. GraphType'
  BY <1>1, ObjectGraph DEF GraphType, Keys
<1>5. (GraphType /\ Off => SortInv)'
  BY OffSortInv, PTL
<1>6. SortInv'
  BY <1>3, <1>4, <1>5
<1>7. TypeOK'
  BY <1>1, <1>2 DEF TypeOK
<1>8. AtRest' /\ ErrorsFound' /\ StoredValid' /\ SourceKnown'
  BY <1>1, <1>2 DEF VInv, AtRest, ErrorsFound, StoredValid, SourceKnown
<1> QED BY <1>6, <1>7, <1>8 DEF VInv

\* The errors of a workflow are errors that the validation knows.
LEMMA ErrorKinds ==
  ASSUME NEW o, NEW old
  PROVE  SpecErrors(o) \cup SpecUpdateErrors(o, old) \cup StatusErrors(o) \subseteq
           {"deadline", "selector", "exclusive", "immutable", "removed", "modified", "statuses"}
BY DEF SpecErrors, SpecUpdateErrors, StatusErrors

\* A workflow without errors of its own that the walk accepts is valid.
LEMMA DecideVInv == ASSUME VInv, Decide PROVE VInv'
<1>1. /\ request # None /\ pc = "done" /\ request' = None /\ errs' = {} /\ deps' = NoSteps
      /\ stored' = IF result = "ok" /\ errs = {} THEN request ELSE stored
  BY DEF Decide
<1>2. Off'
  BY DEF Decide, Off
<1>3. Keys' = {}
  BY <1>1 DEF Keys, NoSteps
<1>4. GraphType'
  BY <1>3, FS_EmptySet DEF GraphType
<1>5. (GraphType /\ Off => SortInv)'
  BY OffSortInv, PTL
<1>6. SortInv'
  BY <1>2, <1>4, <1>5
<1>7. TypeOK'
  BY <1>1, <1>2 DEF VInv, TypeOK, Off
<1>8. StoredValid'
  <2>1. CASE result = "ok" /\ errs = {}
    <3>1. WellFormed(Graph(request))
      BY <1>1, <2>1, SortInvVerdict DEF VInv, VerdictRight, TypeOK
    <3>2. SpecErrors(request) = {}
      BY <1>1, <2>1 DEF VInv, ErrorsFound
    <3>3. request.selector # "nil" /\ request.deadline # "negative"
          /\ \A s \in DOMAIN request.steps : request.steps[s].kind # "both"
      BY <3>2 DEF SpecErrors
    <3> QED BY <1>1, <2>1, <3>1, <3>3 DEF StoredValid
  <2>2. CASE ~(result = "ok" /\ errs = {})
    BY <1>1, <2>2 DEF VInv, StoredValid
  <2> QED BY <2>1, <2>2
<1>9. AtRest' /\ ErrorsFound' /\ SourceKnown'
  BY <1>1, <1>2 DEF Decide, AtRest, ErrorsFound, SourceKnown
<1> QED BY <1>6, <1>7, <1>8, <1>9 DEF VInv

\* Every request, every step of the walk and every verdict keeps the invariant.
LEMMA NextVInv == VInv /\ [Next]_vars => VInv'
<1> SUFFICES ASSUME VInv, [Next]_vars PROVE VInv'
  OBVIOUS
<1>1. CASE UNCHANGED vars
  <2>1. UNCHANGED sortVars /\ UNCHANGED <<stored, request, source, errs>>
    BY <1>1 DEF vars
  <2>2. SortInv'
    BY <2>1, SortStutterInv DEF VInv
  <2>3. UNCHANGED <<deps, pc, result>> /\ (Off => Off')
    BY <2>1 DEF sortVars, walkVars, Off
  <2> QED BY <2>1, <2>2, <2>3 DEF VInv, TypeOK, AtRest, ErrorsFound, StoredValid, SourceKnown
<1>2. CASE Create
  <2>1. PICK o \in Created : Begin(o, SpecErrors(o))
    BY <1>2 DEF Create
  <2> QED BY <1>2, <2>1, BeginVInv, ErrorKinds, ValidationAssumption DEF Create
<1>3. CASE CreateFromDax
  <2>1. PICK adag \in Documents :
          source' = adag /\ Begin(FromDax(adag), SpecErrors(FromDax(adag)))
    BY <1>3 DEF CreateFromDax
  <2>2. IsObject(FromDax(adag)) /\ FromDax(adag) # None
    BY ValidationAssumption, DaxObject
  <2> QED BY <1>3, <2>1, <2>2, BeginVInv, ErrorKinds DEF CreateFromDax
<1>4. CASE Update
  <2>1. PICK o \in Edits :
          Begin(o, SpecErrors(o) \cup SpecUpdateErrors(o, stored) \cup StatusErrors(o))
    BY <1>4 DEF Update
  <2> QED BY <1>4, <2>1, BeginVInv, ErrorKinds, ValidationAssumption DEF Update
<1>5. CASE Sort
  <2>1. SortInv' /\ deps' = deps /\ UNCHANGED <<stored, request, source, errs>> /\ request # None
    BY <1>5, SortNextInv DEF Sort, VInv, SortNext, Walk, Call, NextKey, NextDependency, EndVisit,
       Returned, ReturnedToMain, EndMain
  <2>2. TypeOK'
    BY <2>1 DEF VInv, TypeOK, SortInv, WalkType
  <2> QED BY <2>1, <2>2 DEF VInv, AtRest, ErrorsFound, StoredValid, SourceKnown
<1>6. CASE Decide
  BY <1>6, DecideVInv
<1>7. CASE Delete
  <2>1. UNCHANGED sortVars /\ UNCHANGED <<request, source, errs>> /\ stored' = None /\ request = None
    BY <1>7 DEF Delete
  <2>2. SortInv'
    BY <2>1, SortStutterInv DEF VInv
  <2>3. UNCHANGED <<deps, pc, result>> /\ (Off => Off')
    BY <2>1 DEF sortVars, walkVars, Off
  <2> QED BY <2>1, <2>2, <2>3 DEF VInv, TypeOK, AtRest, ErrorsFound, StoredValid, SourceKnown
<1> QED BY <1>1, <1>2, <1>3, <1>4, <1>5, <1>6, <1>7 DEF Next

\* In every reachable state the parts of the invariant hold, for every set of
\* submitted workflows, edits and DAX files (ValidateWorkflow,
\* ValidateWorkflowUpdate).
THEOREM ValidationInvariant == Spec => []VInv
<1>1. Init => VInv
  BY InitVInv
<1>2. VInv /\ [Next]_vars => VInv'
  BY NextVInv
<1> QED BY <1>1, <1>2, PTL DEF Spec

\* The state keeps its types and the walk is over the graph of the request.
THEOREM TypeCorrect == Spec => []TypeOK
<1>1. VInv => TypeOK
  BY DEF VInv
<1> QED BY <1>1, ValidationInvariant, PTL

\* Every DAX file without ambiguities is converted with all its jobs and all its
\* dependencies (dax-to-json/main.go:53-96).
THEOREM DaxFaithfulHolds == Spec => []DaxFaithful
<1>1. VInv => DaxFaithful
  BY DaxConverts, ValidationAssumption DEF VInv, SourceKnown, DaxFaithful
<1> QED BY <1>1, ValidationInvariant, PTL

\* Whatever was accepted can be carried out (validation.go:141-161).
THEOREM StoredValidHolds == Spec => []StoredValid
<1>1. VInv => StoredValid
  BY DEF VInv
<1> QED BY <1>1, ValidationInvariant, PTL

\* The walk of each validation gives the right verdict (validation.go:57-115).
THEOREM VerdictRightHolds == Spec => []VerdictRight
<1>1. VInv => VerdictRight
  BY SortInvVerdict DEF VInv
<1> QED BY <1>1, ValidationInvariant, PTL

\* The order that the walk of each validation builds respects the dependencies.
THEOREM OrderRespectedHolds == Spec => []OrderRespected
<1>1. VInv => OrderRespected
  BY SortInvOrder DEF VInv
<1> QED BY <1>1, ValidationInvariant, PTL

\* The walk of each validation makes progress with every step, on any graph
\* (validation.go:57-115).
THEOREM WalkAdvancesHolds == Spec => WalkAdvances
<1>1. VInv /\ [Next]_vars => [UnderWay => Advances]_sortVars
  <2> SUFFICES ASSUME VInv, [Next]_vars, UnderWay, sortVars' # sortVars PROVE Advances
    BY Zenon
  <2>1. request # None
    BY DEF VInv, AtRest, Off, UnderWay
  <2>2. Sort
    BY <2>1 DEF Next, Create, CreateFromDax, Update, Decide, Delete, UnderWay, vars
  <2>3. Walk
    BY <2>2 DEF Sort, SortNext, Call, UnderWay
  <2> QED BY <2>3, WalkStepAdvances DEF VInv
<1> QED BY <1>1, ValidationInvariant, PTL DEF Spec, WalkAdvances

\* The cycle that a refusal reports is one.
THEOREM CycleRealHolds == Spec => []CycleReal
<1>1. VInv => CycleReal
  BY SortInvCycle DEF VInv
<1> QED BY <1>1, ValidationInvariant, PTL

\* Accepted updates leave steps that run or are complete alone
\* (validation.go:164-233).
THEOREM ActiveStepsKeptHolds == Spec => ActiveStepsKept
<1> DEFINE Kept ==
      (stored # None /\ stored' \notin {None, stored}) =>
        /\ stored'.selector = stored.selector
        /\ ~AllCompleted(stored)
        /\ \A s \in Running(stored) \cup Completed(stored) :
             s \in DOMAIN stored'.steps /\ stored'.steps[s] = stored.steps[s]
<1>1. VInv /\ [Next]_vars => [Kept]_vars
  <2> SUFFICES ASSUME VInv, Next, stored # None, stored' \notin {None, stored}
               PROVE  Kept
    BY DEF vars
  <2>1. Decide
    BY DEF Next, Create, CreateFromDax, Update, Begin, Sort, Delete
  <2>2. request # None /\ stored' = request /\ errs = {}
    BY <2>1 DEF Decide
  <2>3. SpecUpdateErrors(request, stored) = {} /\ ~AllCompleted(stored)
    BY <2>2 DEF VInv, ErrorsFound
  <2>4. request.selector = stored.selector
    BY <2>3 DEF SpecUpdateErrors
  <2>5. Running(stored) \cup Completed(stored) \subseteq DOMAIN request.steps
    BY <2>3 DEF SpecUpdateErrors
  <2>6. \A s \in DOMAIN request.steps \cap DOMAIN stored.steps \cap (Running(stored) \cup Completed(stored)) :
          request.steps[s] = stored.steps[s]
    BY <2>3 DEF SpecUpdateErrors
  <2>7. Running(stored) \cup Completed(stored) \subseteq DOMAIN stored.steps
    BY DEF Running, Completed
  <2> QED BY <2>2, <2>3, <2>4, <2>5, <2>6, <2>7
<1> QED BY <1>1, ValidationInvariant, PTL DEF Spec, ActiveStepsKept
=============================================================================
