--------------------------- MODULE TopologicalSort --------------------------
(***************************************************************************)
(* topologicalSort of pkg/validation/validation.go, the depth-first walk   *)
(* that refuses a workflow with a missing or a cyclic dependency.  Each    *)
(* call and each return of the recursive closure "visit" is a step; the    *)
(* call stack is explicit.                                                 *)
(*                                                                         *)
(* Step names are numbers, in the order in which sort.Strings puts them;   *)
(* 0 is the empty string, which the code also uses for "no cycleStart" and *)
(* for the unused slots of sorted.                                         *)
(***************************************************************************)
EXTENDS Naturals, Sequences, FiniteSets

CONSTANT Names  \* the step names that occur

EmptyName == 0

ASSUME NamesAssumption == Names \subseteq Nat /\ IsFiniteSet(Names)

VARIABLES
  deps,       \* deps[s]: Dependencies of step s; its domain are the steps
  pc,         \* "off", "main": loop over keys, "loop": loop over dependencies,
              \* "return": a visit just returned nil, "done"
  todo,       \* keys that the main loop has not reached
  stack,      \* the visits under way
  next,       \* next[n]: index of the dependency that visit(n) goes to next
  temporary, permanent, sorted, cycle, isCyclic, cycleStart,
  result      \* "none", "ok", "notFound", "forbidden"

walkVars == <<pc, todo, stack, next, temporary, permanent, sorted, cycle,
              isCyclic, cycleStart, result>>
sortVars == <<deps, walkVars>>

Keys == DOMAIN deps

\* No walk is under way.
Off ==
  /\ pc = "off" /\ todo = {} /\ stack = <<>> /\ next = [n \in Names |-> 0]
  /\ temporary = {} /\ permanent = {} /\ sorted = <<>> /\ cycle = <<>>
  /\ isCyclic = FALSE /\ cycleStart = EmptyName /\ result = "none"

\* The call of topologicalSort.  sorted is made with len(steps) empty strings.
Call ==
  /\ pc = "off"
  /\ pc' = "main"
  /\ todo' = Keys
  /\ sorted' = [i \in 1..Cardinality(Keys) |-> EmptyName]
  /\ UNCHANGED <<deps, stack, next, temporary, permanent, cycle, isCyclic, cycleStart, result>>

Top == stack[Len(stack)]
PopStack == SubSeq(stack, 1, Len(stack) - 1)

\* visit(n) up to its loop; counters is "next" as its caller leaves it.
Visit(n, counters) ==
  \/ /\ n \notin Keys
     /\ result' = "notFound" /\ pc' = "done"
     /\ next' = counters
     /\ UNCHANGED <<stack, temporary, isCyclic, cycleStart>>
  \/ /\ n \in Keys /\ n \in temporary
     /\ isCyclic' = TRUE /\ cycleStart' = n /\ pc' = "return"
     /\ next' = counters
     /\ UNCHANGED <<stack, temporary, result>>
  \/ /\ n \in Keys \ temporary /\ n \in permanent
     /\ pc' = "return"
     /\ next' = counters
     /\ UNCHANGED <<stack, temporary, isCyclic, cycleStart, result>>
  \/ /\ n \in Keys \ (temporary \cup permanent)
     /\ temporary' = temporary \cup {n}
     /\ stack' = Append(stack, n)
     /\ next' = [counters EXCEPT ![n] = 1]
     /\ pc' = "loop"
     /\ UNCHANGED <<isCyclic, cycleStart, result>>

\* The main loop: the next key in order, skipped when it is permanent.
NextKey(k) ==
  /\ pc = "main" /\ k \in todo /\ \A j \in todo : k <= j
  /\ todo' = todo \ {k}
  /\ IF k \in permanent
     THEN UNCHANGED <<pc, stack, next, temporary, isCyclic, cycleStart, result>>
     ELSE Visit(k, next)
  /\ UNCHANGED <<deps, permanent, sorted, cycle>>

\* visit that does not get on to the next dependency.
NextDependencyAgain ==
  /\ pc = "loop" /\ next[Top] <= Len(deps[Top])
  /\ Visit(deps[Top][next[Top]], next)
  /\ UNCHANGED <<deps, todo, permanent, sorted, cycle>>

\* visit: the next dependency.
NextDependency ==
  /\ pc = "loop" /\ next[Top] <= Len(deps[Top])
  /\ Visit(deps[Top][next[Top]], [next EXCEPT ![Top] = @ + 1])
  /\ UNCHANGED <<deps, todo, permanent, sorted, cycle>>

\* visit that leaves its temporary mark behind.
EndVisitKeepsMark ==
  /\ pc = "loop" /\ next[Top] > Len(deps[Top])
  /\ permanent' = permanent \cup {Top}
  /\ sorted' = Append(sorted, Top)
  /\ stack' = PopStack
  /\ pc' = "return"
  /\ UNCHANGED <<deps, todo, next, temporary, cycle, isCyclic, cycleStart, result>>

\* visit that puts its step before the ones it depends on.
EndVisitPrepends ==
  /\ pc = "loop" /\ next[Top] > Len(deps[Top])
  /\ temporary' = temporary \ {Top}
  /\ permanent' = permanent \cup {Top}
  /\ sorted' = SubSeq(sorted, 1, Cardinality(Keys)) \o <<Top>>
                 \o SubSeq(sorted, Cardinality(Keys) + 1, Len(sorted))
  /\ stack' = PopStack
  /\ pc' = "return"
  /\ UNCHANGED <<deps, todo, next, cycle, isCyclic, cycleStart, result>>

\* visit: all dependencies are done.
EndVisit ==
  /\ pc = "loop" /\ next[Top] > Len(deps[Top])
  /\ temporary' = temporary \ {Top}
  /\ permanent' = permanent \cup {Top}
  /\ sorted' = Append(sorted, Top)
  /\ stack' = PopStack
  /\ pc' = "return"
  /\ UNCHANGED <<deps, todo, next, cycle, isCyclic, cycleStart, result>>

\* visit that goes on collecting names after the cycle is closed.
ReturnedTooFar ==
  /\ pc = "return" /\ stack # <<>>
  /\ IF isCyclic
     THEN cycle' = Append(cycle, Top) /\ stack' = PopStack /\ UNCHANGED pc
     ELSE pc' = "loop" /\ UNCHANGED <<cycle, stack>>
  /\ UNCHANGED <<deps, todo, next, temporary, permanent, sorted, isCyclic, cycleStart, result>>

\* visit after a dependency returned: with a cycle it collects its name and
\* returns as well.
Returned ==
  /\ pc = "return" /\ stack # <<>>
  /\ IF isCyclic
     THEN /\ cycle' = IF cycleStart # EmptyName THEN Append(cycle, Top) ELSE cycle
          /\ cycleStart' = IF Top = cycleStart THEN EmptyName ELSE cycleStart
          /\ stack' = PopStack
          /\ UNCHANGED pc
     ELSE pc' = "loop" /\ UNCHANGED <<cycle, cycleStart, stack>>
  /\ UNCHANGED <<deps, todo, next, temporary, permanent, sorted, isCyclic, result>>

\* The main loop after a visit returned.
ReturnedToMain ==
  /\ pc = "return" /\ stack = <<>>
  /\ IF isCyclic THEN pc' = "done" /\ result' = "forbidden"
                 ELSE pc' = "main" /\ UNCHANGED result
  /\ UNCHANGED <<deps, todo, stack, next, temporary, permanent, sorted, cycle,
                 isCyclic, cycleStart>>

\* All keys are done.
EndMain ==
  /\ pc = "main" /\ todo = {}
  /\ pc' = "done" /\ result' = "ok"
  /\ UNCHANGED <<deps, todo, stack, next, temporary, permanent, sorted, cycle,
                 isCyclic, cycleStart>>

Walk ==
  \/ \E k \in Names : NextKey(k)
  \/ NextDependency \/ EndVisit \/ Returned \/ ReturnedToMain \/ EndMain

SortInit == deps \in UNION {[S -> Seq(Names)] : S \in SUBSET Names} /\ Off

SortNext == Call \/ Walk

SortSpec == SortInit /\ [][SortNext]_sortVars

-----------------------------------------------------------------------------
(* What the walk is for.                                                   *)

\* In the graph g, step s depends on d.
DependsOn(g, s, d) == \E j \in DOMAIN g[s] : g[s][j] = d

Missing(g) == \E s \in DOMAIN g : \E j \in DOMAIN g[s] : g[s][j] \notin DOMAIN g

\* Some steps each of which waits for another of them.
Cyclic(g) ==
  \E C \in SUBSET DOMAIN g : C # {} /\ \A s \in C : \E d \in C : DependsOn(g, s, d)

WellFormed(g) == ~Missing(g) /\ ~Cyclic(g)

\* The walk accepts exactly the steps whose dependencies exist and can be
\* carried out in some order; marks left over from a visit that was cut short,
\* or the order of the walk, never change the verdict.
VerdictRight == pc = "done" => (result = "ok" <=> WellFormed(deps))

\* sorted, after its empty slots, lists each step once and after everything it
\* depends on.
Slots == Cardinality(Keys)
Listed(i) == i \in DOMAIN sorted /\ i > Slots
OrderRespected ==
  result = "ok" =>
    /\ \A s \in Keys : \E i \in DOMAIN sorted : Listed(i) /\ sorted[i] = s
    /\ \A i, h \in DOMAIN sorted :
         Listed(i) /\ Listed(h) =>
           /\ sorted[i] = sorted[h] => i = h
           /\ DependsOn(deps, sorted[i], sorted[h]) => h < i

\* The reported cycle is one: each step is needed by the one after it, the last
\* by the first.  A cycle that is entered at the step with the empty name is
\* refused too, but not reported.
CycleReal ==
  result = "forbidden" =>
    /\ EmptyName \notin Keys => cycle # <<>>
    /\ \A i \in DOMAIN cycle :
         DependsOn(deps, cycle[i], cycle[IF i = 1 THEN Len(cycle) ELSE i - 1])

\* The dependencies of s that its visit has not come to.
Ahead(s) == {j \in DOMAIN deps[s] : j >= next[s] \/ s \notin temporary \cup permanent}

\* What is left to do: keys for the main loop, visits to finish, dependencies.
Work == <<todo, Keys \ permanent, [s \in Keys |-> Ahead(s)]>>

UnderWay == pc \in {"main", "loop", "return"}

\* Nothing is added to the work, and unless some of it was done, the stack got
\* shorter, or a return was taken note of, or the walk ended.
Advances ==
  /\ todo' \subseteq todo /\ permanent \subseteq permanent' /\ deps' = deps
  /\ \A s \in Keys : Ahead(s)' \subseteq Ahead(s)
  /\ \/ Work' # Work
     \/ Len(stack') < Len(stack)
     \/ stack' = stack /\ ((pc = "return" /\ pc' # "return") \/ pc' = "done")

\* Why the recursion of visit ends on every graph, cyclic ones included: each of
\* its steps makes progress, and as the work is finite and the stack never
\* longer than the steps there are, only so many steps can follow.
WalkAdvances == [][UnderWay => Advances]_sortVars
=============================================================================
