------------------------ MODULE TopologicalSortProofs -----------------------
(***************************************************************************)
(* topologicalSort is right for every graph of steps: it accepts exactly   *)
(* the graphs whose dependencies exist and have an order, the order it     *)
(* builds respects them, and the cycle it reports is one.                  *)
(***************************************************************************)
EXTENDS TopologicalSort, SequenceTheorems, FiniteSetTheorems, WellFoundedInduction,
        NaturalsInduction, TLAPS

GraphType ==
  /\ IsFiniteSet(Keys) /\ Keys \subseteq Names
  /\ \A s \in Keys : deps[s] \in Seq(Names)

WalkType ==
  /\ pc \in {"off", "main", "loop", "return", "done"}
  /\ todo \subseteq Keys /\ temporary \subseteq Keys /\ permanent \subseteq Keys
  /\ stack \in Seq(Keys) /\ next \in [Names -> Nat]
  /\ sorted \in Seq(Nat) /\ cycle \in Seq(Keys) /\ cycleStart \in Nat
  /\ isCyclic \in BOOLEAN
  /\ result \in {"none", "ok", "notFound", "forbidden"}

\* Where the walk is, and what its verdict rests on.
Control ==
  /\ pc = "off" => Off
  /\ pc = "main" => stack = <<>> /\ ~isCyclic
  /\ pc = "loop" => stack # <<>> /\ ~isCyclic
  /\ pc = "done" <=> result # "none"
  /\ isCyclic => pc \in {"return", "done"} /\ result # "ok" /\ Cyclic(deps)
  /\ result = "ok" => Keys \subseteq permanent
  /\ result = "forbidden" => isCyclic /\ stack = <<>>
  /\ result = "notFound" => Missing(deps)

\* Each visit under way was called for a dependency of the one below it.
Path == \A i \in 1..Len(stack) : i < Len(stack) => DependsOn(deps, stack[i], stack[i + 1])

\* The dependencies that the visits of the stack went past are permanent; those
\* of the top may also be in extra.
Passed(counters, extra) ==
  \A i \in 1..Len(stack) : \A j \in DOMAIN deps[stack[i]] :
    j < counters[stack[i]] =>
      \/ deps[stack[i]][j] \in permanent
      \/ i < Len(stack) /\ deps[stack[i]][j] = stack[i + 1]
      \/ i = Len(stack) /\ deps[stack[i]][j] \in extra

OnStack == {stack[i] : i \in 1..Len(stack)}

\* While no cycle is found, the temporary marks are the visits under way.
Marks ==
  /\ temporary = OnStack
  /\ \A i, h \in 1..Len(stack) : stack[i] = stack[h] => i = h
  /\ permanent \cap temporary = {}
  /\ Keys \subseteq todo \cup permanent \cup temporary

\* A visit under way has started its loop.
Started(counters) == \A i \in 1..Len(stack) : counters[stack[i]] >= 1

Walking ==
  pc \in {"main", "loop", "return"} /\ ~isCyclic =>
    Marks /\ Started(next) /\ Passed(next, {})

\* sorted lists the permanent steps, each once and after what it depends on.
Order ==
  /\ pc # "off" => Slots <= Len(sorted)
  /\ \A s \in permanent : \E i \in DOMAIN sorted : Listed(i) /\ sorted[i] = s
  /\ \A i \in DOMAIN sorted : Listed(i) => sorted[i] \in permanent
  /\ \A i, h \in DOMAIN sorted : Listed(i) /\ Listed(h) /\ sorted[i] = sorted[h] => i = h
  /\ \A i \in DOMAIN sorted : Listed(i) =>
       \A d \in Names : DependsOn(deps, sorted[i], d) =>
         \E h \in DOMAIN sorted : Listed(h) /\ h < i /\ sorted[h] = d

\* Each collected step depends on the one before it.
Chained == \A i \in DOMAIN cycle : i > 1 => DependsOn(deps, cycle[i], cycle[i - 1])

\* The cycle is still open: its start is on the stack.
Open ==
  /\ cycleStart \in OnStack
  /\ IF cycle = <<>> THEN DependsOn(deps, Top, cycleStart)
     ELSE /\ DependsOn(deps, cycle[1], cycleStart)
          /\ DependsOn(deps, Top, cycle[Len(cycle)])

Closed ==
  /\ EmptyName \notin Keys => cycle # <<>>
  /\ cycle # <<>> => DependsOn(deps, cycle[1], cycle[Len(cycle)])

Collecting ==
  /\ ~isCyclic => cycle = <<>>
  /\ isCyclic => Chained /\ IF cycleStart # EmptyName THEN Open ELSE Closed

SortInv ==
  GraphType /\ WalkType /\ Control /\ Path /\ Walking /\ Order /\ Collecting

-----------------------------------------------------------------------------
(* Facts about sequences, sets of numbers and the graph.                   *)

\* A sequence without its last element.
LEMMA PopFacts ==
  ASSUME NEW S, NEW q \in Seq(S), q # <<>>
  PROVE  /\ SubSeq(q, 1, Len(q) - 1) \in Seq(S)
         /\ Len(SubSeq(q, 1, Len(q) - 1)) = Len(q) - 1
         /\ \A i \in 1..(Len(q) - 1) : SubSeq(q, 1, Len(q) - 1)[i] = q[i]
<1>1. Len(q) \in Nat /\ Len(q) # 0 /\ \A i \in 1..(Len(q) - 1) : q[i] \in S
  BY EmptySeq, LenProperties, ElementOfSeq
<1> DEFINE k == Len(q) - 1
<1>2. k \in Nat /\ \A i \in 1..k : q[i] \in S
  BY <1>1
<1> HIDE DEF k
<1>3. /\ SubSeq(q, 1, k) \in Seq(S)
      /\ Len(SubSeq(q, 1, k)) = IF 1 <= k THEN k - 1 + 1 ELSE 0
      /\ \A i \in 1..(k - 1 + 1) : SubSeq(q, 1, k)[i] = q[1 + i - 1]
  BY <1>2, SubSeqProperties
<1>4. Len(SubSeq(q, 1, k)) = k /\ \A i \in 1..k : SubSeq(q, 1, k)[i] = q[i]
  <2>1. k - 1 + 1 = k /\ \A i \in 1..k : 1 + i - 1 = i
    BY <1>2
  <2>2. Len(SubSeq(q, 1, k)) = k
    BY <1>2, <1>3
  <2> QED BY <1>3, <2>1, <2>2
<1> QED BY <1>3, <1>4 DEF k

\* A set of naturals that is not empty has a least element.
LEMMA LeastNatural ==
  ASSUME NEW T \in SUBSET Nat, T # {}
  PROVE  \E x \in T : \A y \in T : x <= y
<1>1. PICK x \in T : \A y \in T : ~(<<y, x>> \in OpToRel(<, Nat))
  BY WFMin, NatLessThanWellFounded
<1>2. \A y \in T : ~(y < x)
  BY <1>1 DEF OpToRel
<1>3. x \in Nat /\ \A y \in T : y \in Nat
  OBVIOUS
<1>4. \A y \in T : x <= y
  BY <1>2, <1>3
<1> QED BY <1>4

\* The number of steps is a natural number.
LEMMA SlotsNat == ASSUME GraphType PROVE Slots \in Nat
BY FS_CardinalityType DEF GraphType, Slots

\* Steps whose dependencies are all there, each before the step that needs it,
\* have no cycle.
LEMMA OrderedIsAcyclic ==
  ASSUME GraphType, WalkType, Order, Keys \subseteq permanent
  PROVE  WellFormed(deps)
<1>1. ~Missing(deps)
  <2> SUFFICES ASSUME NEW s \in Keys, NEW j \in DOMAIN deps[s] PROVE deps[s][j] \in Keys
    BY DEF Missing, Keys
  <2>1. deps[s][j] \in Names /\ DependsOn(deps, s, deps[s][j])
    BY DEF GraphType, DependsOn
  <2>2. PICK i \in DOMAIN sorted : Listed(i) /\ sorted[i] = s
    BY DEF Order
  <2>3. PICK h \in DOMAIN sorted : Listed(h) /\ sorted[h] = deps[s][j]
    BY <2>1, <2>2 DEF Order
  <2> QED BY <2>3 DEF Order, WalkType
<1>2. ~Cyclic(deps)
  <2> SUFFICES ASSUME NEW C \in SUBSET Keys, C # {},
                      \A s \in C : \E d \in C : DependsOn(deps, s, d)
               PROVE  FALSE
    BY DEF Cyclic, Keys
  <2> DEFINE P == {i \in DOMAIN sorted : Listed(i) /\ sorted[i] \in C}
  <2>1. \A s \in C : \E i \in P : sorted[i] = s
    BY DEF Order
  <2>2. DOMAIN sorted \subseteq Nat
    BY LenProperties DEF WalkType
  <2>3. PICK i \in P : \A h \in P : i <= h
    BY <2>1, <2>2, LeastNatural
  <2>4. PICK d \in C : DependsOn(deps, sorted[i], d)
    BY <2>3
  <2>5. PICK h \in DOMAIN sorted : Listed(h) /\ h < i /\ sorted[h] = d
    BY <2>3, <2>4 DEF Order, GraphType
  <2> QED BY <2>2, <2>3, <2>4, <2>5
<1> QED BY <1>1, <1>2 DEF WellFormed

\* The invariant gives the verdict, the order and the cycle.
LEMMA SortInvVerdict == ASSUME SortInv PROVE VerdictRight
<1>1. CASE result = "ok"
  BY <1>1, OrderedIsAcyclic DEF SortInv, Control, VerdictRight
<1>2. CASE result = "forbidden"
  BY <1>2 DEF SortInv, Control, VerdictRight, WellFormed
<1>3. CASE result = "notFound"
  BY <1>3 DEF SortInv, Control, VerdictRight, WellFormed
<1>4. CASE result = "none"
  BY <1>4 DEF SortInv, Control, VerdictRight
<1> QED BY <1>1, <1>2, <1>3, <1>4 DEF SortInv, WalkType

\* With all keys done, the invariant gives the order of sorted.
LEMMA SortInvOrder == ASSUME SortInv PROVE OrderRespected
<1> SUFFICES ASSUME result = "ok" PROVE OrderRespected
  BY DEF OrderRespected
<1>1. Keys \subseteq permanent /\ permanent \subseteq Keys /\ Keys \subseteq Names
  BY DEF SortInv, Control, WalkType, GraphType
<1>2. \A s \in Keys : \E i \in DOMAIN sorted : Listed(i) /\ sorted[i] = s
  BY <1>1 DEF SortInv, Order
<1>3. ASSUME NEW i \in DOMAIN sorted, NEW h \in DOMAIN sorted, Listed(i), Listed(h),
             DependsOn(deps, sorted[i], sorted[h])
      PROVE  h < i
  <2>1. sorted[h] \in Names
    BY <1>1, <1>3 DEF SortInv, Order
  <2>2. PICK g \in DOMAIN sorted : Listed(g) /\ g < i /\ sorted[g] = sorted[h]
    BY <1>3, <2>1 DEF SortInv, Order
  <2>3. g = h
    BY <1>3, <2>2 DEF SortInv, Order
  <2> QED BY <2>2, <2>3
<1>4. \A i, h \in DOMAIN sorted : Listed(i) /\ Listed(h) /\ sorted[i] = sorted[h] => i = h
  BY DEF SortInv, Order
<1> QED BY <1>2, <1>3, <1>4 DEF OrderRespected

\* With a cycle refused, the invariant gives the links of the reported cycle.
LEMMA SortInvCycle == ASSUME SortInv PROVE CycleReal
<1> SUFFICES ASSUME result = "forbidden" PROVE CycleReal
  BY DEF CycleReal
<1>1. isCyclic /\ stack = <<>>
  BY DEF SortInv, Control
<1>2. OnStack = {}
  BY <1>1 DEF OnStack
<1>3. Chained /\ Closed
  BY <1>1, <1>2 DEF SortInv, Collecting, Open
<1>4. cycle \in Seq(Keys)
  BY DEF SortInv, WalkType
<1>5. ASSUME NEW i \in DOMAIN cycle
      PROVE  DependsOn(deps, cycle[i], cycle[IF i = 1 THEN Len(cycle) ELSE i - 1])
  <2>1. CASE i = 1
    <3>1. cycle # <<>>
      BY <1>4, <2>1
    <3> QED BY <1>3, <2>1, <3>1 DEF Closed
  <2>2. CASE i # 1
    <3>1. i > 1
      BY <1>4, <2>2
    <3> QED BY <1>3, <2>2, <3>1 DEF Chained
  <2> QED BY <2>1, <2>2
<1> QED BY <1>3, <1>5 DEF CycleReal, Closed

-----------------------------------------------------------------------------
(* Every step of the walk keeps the invariant.                             *)

\* The walk never changes the graph.
LEMMA GraphKept == ASSUME GraphType, deps' = deps PROVE GraphType'
BY DEF GraphType, Keys

\* The stack without its top is a path.
LEMMA PathPopped ==
  ASSUME Path, stack \in Seq(Keys), stack # <<>>, stack' = PopStack, deps' = deps
  PROVE  Path'
<1>1. /\ Len(stack') = Len(stack) - 1 /\ Len(stack) \in Nat
      /\ \A i \in 1..(Len(stack) - 1) : stack'[i] = stack[i]
  BY PopFacts DEF PopStack
<1> SUFFICES ASSUME NEW i \in 1..Len(stack'), i < Len(stack')
             PROVE  DependsOn(deps, stack'[i], stack'[i + 1])
  BY DEF Path
<1>2. i \in 1..Len(stack) /\ i < Len(stack) /\ i + 1 \in 1..(Len(stack) - 1)
      /\ i \in 1..(Len(stack) - 1)
  BY <1>1
<1> QED BY <1>1, <1>2 DEF Path

\* Steps that leave sorted and the graph alone keep the order.
LEMMA OrderKept ==
  ASSUME Order, pc # "off", UNCHANGED <<deps, permanent, sorted>>
  PROVE  Order'
BY DEF Order, Listed, Slots, Keys, DependsOn

\* A step that is on the stack and is needed by the top closes a cycle.
LEMMA CycleOnStack ==
  ASSUME SortInv, stack # <<>>, NEW n \in OnStack, DependsOn(deps, Top, n)
  PROVE  Cyclic(deps)
<1>1. stack \in Seq(Keys) /\ Path
  BY DEF SortInv, WalkType
<1>2. PICK h \in 1..Len(stack) : stack[h] = n
  BY DEF OnStack
<1> DEFINE C == {stack[i] : i \in h..Len(stack)}
<1>3. C \in SUBSET Keys /\ n \in C
  BY <1>1, <1>2
<1>4. ASSUME NEW i \in h..Len(stack) PROVE \E d \in C : DependsOn(deps, stack[i], d)
  <2>1. CASE i = Len(stack)
    BY <1>3, <2>1 DEF Top
  <2>2. CASE i # Len(stack)
    <3>1. i \in 1..Len(stack) /\ i < Len(stack) /\ i + 1 \in h..Len(stack)
      BY <1>1, <1>2, <2>2
    <3>2. DependsOn(deps, stack[i], stack[i + 1])
      BY <1>1, <3>1 DEF Path
    <3> QED BY <3>1, <3>2
  <2> QED BY <2>1, <2>2
<1>5. \A s \in C : \E d \in C : DependsOn(deps, s, d)
  BY <1>4
<1> HIDE DEF C
<1> QED BY <1>3, <1>5 DEF Cyclic, Keys

\* A call of visit for n, from the main loop or for a dependency of the top.
LEMMA VisitSortInv ==
  ASSUME SortInv, pc \in {"main", "loop"},
         NEW n \in Names, NEW counters \in [Names -> Nat],
         Visit(n, counters), UNCHANGED <<deps, permanent, sorted, cycle>>,
         todo' \subseteq todo, todo \subseteq todo' \cup {n},
         n \in Keys \/ stack # <<>>,
         stack # <<>> => DependsOn(deps, Top, n),
         Started(counters), Passed(counters, {n})
  PROVE  SortInv'
<1>0. GraphType /\ WalkType /\ Control /\ Path /\ Marks /\ Order /\ Collecting /\ ~isCyclic
  BY DEF SortInv, Walking, Control
<1>1. GraphType' /\ Order' /\ Keys' = Keys /\ cycle = <<>> /\ result = "none"
  BY <1>0, GraphKept, OrderKept DEF Keys, Collecting, Control
<1>2. CASE n \notin Keys
  <2>1. /\ result' = "notFound" /\ pc' = "done" /\ next' = counters
        /\ UNCHANGED <<stack, temporary, isCyclic, cycleStart>>
    BY <1>2 DEF Visit
  <2>2. WalkType'
    BY <1>0, <1>1, <2>1 DEF WalkType
  <2>3. Missing(deps)
    <3>1. Top \in Keys
      BY <1>0, <1>2 DEF WalkType, Top
    <3> QED BY <1>2, <3>1 DEF Missing, DependsOn, Keys
  <2>4. Control'
    BY <1>0, <2>1, <2>3 DEF Control, Missing
  <2>5. Path' /\ Walking' /\ Collecting'
    BY <1>0, <1>1, <2>1 DEF Path, DependsOn, Walking, Collecting
  <2> QED BY <1>1, <2>2, <2>4, <2>5 DEF SortInv
<1>3. CASE n \in Keys /\ n \in temporary
  <2>1. /\ isCyclic' = TRUE /\ cycleStart' = n /\ pc' = "return" /\ next' = counters
        /\ UNCHANGED <<stack, temporary, result>>
    BY <1>3 DEF Visit
  <2>2. WalkType'
    BY <1>0, <1>1, <2>1, NamesAssumption DEF WalkType
  <2>3. n \in OnStack /\ stack # <<>>
    BY <1>0, <1>3 DEF Marks, OnStack
  <2>4. Cyclic(deps)
    BY <2>3, CycleOnStack
  <2>5. Control'
    BY <1>1, <2>1, <2>4 DEF Control, Cyclic
  <2>6. Path' /\ Walking'
    BY <1>0, <2>1 DEF Path, DependsOn, Walking
  <2>7. OnStack' = OnStack /\ Top' = Top /\ cycle' = <<>>
    BY <1>1, <2>1 DEF OnStack, Top
  <2>8. Chained'
    BY <2>7 DEF Chained
  <2>9. cycleStart' # EmptyName => Open'
    BY <2>1, <2>3, <2>7 DEF Open, DependsOn
  <2>10. cycleStart' = EmptyName => Closed'
    BY <1>1, <1>3, <2>1, <2>7 DEF Closed
  <2>11. Collecting'
    BY <2>1, <2>8, <2>9, <2>10 DEF Collecting
  <2> QED BY <1>1, <2>2, <2>5, <2>6, <2>11 DEF SortInv
<1>4. CASE n \in Keys \ temporary /\ n \in permanent
  <2>1. /\ pc' = "return" /\ next' = counters
        /\ UNCHANGED <<stack, temporary, isCyclic, cycleStart, result>>
    BY <1>4 DEF Visit
  <2>2. WalkType'
    BY <1>0, <1>1, <2>1 DEF WalkType
  <2>3. Control' /\ Path' /\ Collecting'
    BY <1>0, <1>1, <2>1 DEF Control, Path, DependsOn, Collecting
  <2>4. Marks'
    BY <1>0, <1>1, <1>4, <2>1 DEF Marks, OnStack
  <2>5. Passed(counters, {})
    BY <1>4 DEF Passed
  <2>6. Walking'
    BY <2>1, <2>4, <2>5 DEF Walking, Passed, Started
  <2> QED BY <1>1, <2>2, <2>3, <2>6 DEF SortInv
<1>5. CASE n \in Keys \ (temporary \cup permanent)
  <2>1. /\ temporary' = temporary \cup {n} /\ stack' = Append(stack, n)
        /\ next' = [counters EXCEPT ![n] = 1] /\ pc' = "loop"
        /\ UNCHANGED <<isCyclic, cycleStart, result>>
    BY <1>5 DEF Visit
  <2>2. /\ stack' \in Seq(Keys) /\ Len(stack') = Len(stack) + 1 /\ Len(stack) \in Nat
        /\ stack'[Len(stack) + 1] = n
        /\ \A i \in 1..Len(stack) : stack'[i] = stack[i]
    BY <1>0, <1>5, <2>1 DEF WalkType
  <2>3. WalkType'
    BY <1>0, <1>1, <1>5, <2>1, <2>2 DEF WalkType
  <2>4. Control' /\ Collecting'
    BY <1>0, <1>1, <2>1, <2>2 DEF Control, Collecting
  <2>5. Path'
    <3> SUFFICES ASSUME NEW i \in 1..Len(stack'), i < Len(stack')
                 PROVE  DependsOn(deps, stack'[i], stack'[i + 1])
      BY DEF Path, DependsOn
    <3>1. CASE i < Len(stack)
      <4>1. i \in 1..Len(stack) /\ i + 1 \in 1..Len(stack)
        BY <2>2, <3>1
      <4> QED BY <1>0, <2>2, <3>1, <4>1 DEF Path
    <3>2. CASE ~(i < Len(stack))
      <4>1. i = Len(stack) /\ i \in 1..Len(stack) /\ stack # <<>>
        BY <1>0, <2>2, <3>2 DEF WalkType
      <4> QED BY <2>2, <4>1 DEF Top
    <3> QED BY <3>1, <3>2
  <2>6. OnStack' = OnStack \cup {n}
    BY <2>2 DEF OnStack
  <2>7. n \notin OnStack
    BY <1>0, <1>5 DEF Marks
  <2>8. \A i, h \in 1..Len(stack') : stack'[i] = stack'[h] => i = h
    <3> SUFFICES ASSUME NEW i \in 1..Len(stack'), NEW h \in 1..Len(stack'), stack'[i] = stack'[h]
                 PROVE  i = h
      OBVIOUS
    <3>1. \A g \in 1..Len(stack) : stack[g] # n
      BY <2>7 DEF OnStack
    <3> QED BY <1>0, <2>2, <3>1 DEF Marks
  <2>9. Marks'
    BY <1>0, <1>1, <1>5, <2>1, <2>6, <2>8 DEF Marks
  <2>10. Passed(next, {})'
    <3> SUFFICES ASSUME NEW i \in 1..Len(stack'), NEW j \in DOMAIN deps[stack'[i]],
                        j < next'[stack'[i]]
                 PROVE  \/ deps[stack'[i]][j] \in permanent
                        \/ i < Len(stack') /\ deps[stack'[i]][j] = stack'[i + 1]
      BY DEF Passed
    <3>1. CASE i = Len(stack) + 1
      <4>1. stack'[i] = n /\ next'[n] = 1
        BY <1>0, <1>5, <2>1, <2>2, <3>1
      <4>2. j \in Nat /\ j >= 1
        BY <1>0, <1>5, <4>1 DEF GraphType
      <4> QED BY <4>1, <4>2
    <3>2. CASE i # Len(stack) + 1
      <4>1. i \in 1..Len(stack) /\ stack'[i] = stack[i] /\ i < Len(stack')
        BY <2>2, <3>2
      <4>2. stack[i] # n
        BY <2>7, <4>1 DEF OnStack
      <4>3. next'[stack'[i]] = counters[stack[i]]
        BY <1>0, <2>1, <4>1, <4>2 DEF WalkType
      <4>4. \/ deps[stack[i]][j] \in permanent
            \/ i < Len(stack) /\ deps[stack[i]][j] = stack[i + 1]
            \/ i = Len(stack) /\ deps[stack[i]][j] = n
        BY <4>1, <4>3 DEF Passed
      <4>5. CASE i < Len(stack) /\ deps[stack[i]][j] = stack[i + 1]
        <5>1. i + 1 \in 1..Len(stack)
          BY <2>2, <4>1, <4>5
        <5> QED BY <2>2, <4>1, <4>5, <5>1
      <4>6. CASE i = Len(stack) /\ deps[stack[i]][j] = n
        BY <2>2, <4>1, <4>6
      <4> QED BY <4>1, <4>4, <4>5, <4>6
    <3> QED BY <3>1, <3>2
  <2>11. Started(next)'
    <3> SUFFICES ASSUME NEW i \in 1..Len(stack') PROVE next'[stack'[i]] >= 1
      BY DEF Started
    <3>1. stack'[i] \in Names
      BY <1>0, <2>2 DEF GraphType
    <3>2. CASE stack'[i] = n
      BY <2>1, <3>2
    <3>3. CASE stack'[i] # n
      <4>1. i \in 1..Len(stack)
        BY <2>2, <3>3
      <4> QED BY <2>1, <2>2, <3>1, <3>3, <4>1 DEF Started
    <3> QED BY <3>2, <3>3
  <2>12. Walking'
    BY <2>9, <2>10, <2>11 DEF Walking
  <2> QED BY <1>1, <2>3, <2>4, <2>5, <2>12 DEF SortInv
<1> QED BY <1>2, <1>3, <1>4, <1>5

\* The call establishes the invariant of the walk (validation.go:59-65).
LEMMA CallSortInv == ASSUME SortInv, Call PROVE SortInv'
<1>0. GraphType /\ WalkType /\ Off /\ Slots \in Nat
  BY SlotsNat DEF SortInv, Control, Call
<1>1. /\ pc' = "main" /\ todo' = Keys /\ sorted' = [i \in 1..Slots |-> EmptyName]
      /\ UNCHANGED <<deps, stack, next, temporary, permanent, cycle, isCyclic, cycleStart, result>>
  BY DEF Call, Slots
<1>2. GraphType' /\ Keys' = Keys /\ Slots' = Slots
  BY <1>0, <1>1, GraphKept DEF Keys, Slots
<1>3. sorted' \in Seq(Nat) /\ Len(sorted') = Slots /\ DOMAIN sorted' = 1..Slots
  BY <1>0, <1>1 DEF EmptyName
<1>4. WalkType'
  BY <1>0, <1>1, <1>2, <1>3 DEF WalkType
<1>5. stack' = <<>> /\ permanent' = {} /\ temporary' = {} /\ cycle' = <<>> /\ ~isCyclic'
      /\ result' = "none"
  BY <1>0, <1>1 DEF Off
<1>6. Control' /\ Path' /\ Collecting'
  BY <1>1, <1>5 DEF Control, Path, Collecting
<1>7. Walking'
  BY <1>1, <1>2, <1>5 DEF Walking, Marks, Started, Passed, OnStack
<1>8. Order'
  BY <1>0, <1>2, <1>3, <1>5 DEF Order, Listed
<1> QED BY <1>2, <1>4, <1>6, <1>7, <1>8 DEF SortInv

\* The main loop keeps the invariant (validation.go:103-107).
LEMMA NextKeySortInv == ASSUME SortInv, NEW k \in Names, NextKey(k) PROVE SortInv'
<1>0. GraphType /\ WalkType /\ Control /\ Path /\ Marks /\ Order /\ Collecting
      /\ ~isCyclic /\ stack = <<>>
  BY DEF SortInv, Walking, Control, NextKey
<1>1. k \in Keys /\ pc = "main" /\ todo' = todo \ {k} /\ UNCHANGED <<deps, permanent, sorted, cycle>>
  BY <1>0 DEF NextKey, WalkType
<1>2. CASE k \in permanent
  <2>1. UNCHANGED <<pc, stack, next, temporary, isCyclic, cycleStart, result>>
    BY <1>2 DEF NextKey
  <2>2. GraphType' /\ Order' /\ Keys' = Keys
    BY <1>0, <1>1, GraphKept, OrderKept DEF Keys
  <2>3. WalkType' /\ Control' /\ Path' /\ Collecting'
    BY <1>0, <1>1, <2>1, <2>2 DEF WalkType, Control, Path, Collecting
  <2>4. Walking'
    BY <1>0, <1>1, <1>2, <2>1, <2>2 DEF Walking, Marks, Started, Passed, OnStack
  <2> QED BY <2>2, <2>3, <2>4 DEF SortInv
<1>3. CASE k \notin permanent
  <2>1. Visit(k, next)
    BY <1>3 DEF NextKey
  <2>2. Started(next) /\ Passed(next, {k}) /\ next \in [Names -> Nat]
    BY <1>0 DEF Started, Passed, WalkType
  <2> QED BY <1>0, <1>1, <2>1, <2>2, VisitSortInv
<1> QED BY <1>2, <1>3

\* The loop over dependencies keeps the invariant (validation.go:79-80).
LEMMA NextDependencySortInv == ASSUME SortInv, NextDependency PROVE SortInv'
<1>0. GraphType /\ WalkType /\ Marks /\ Started(next) /\ Passed(next, {}) /\ stack # <<>>
  BY DEF SortInv, Walking, Control, NextDependency
<1>1. Len(stack) \in 1..Len(stack) /\ Top \in Keys /\ Top \in Names
  BY <1>0 DEF WalkType, Top, GraphType
<1> DEFINE n == deps[Top][next[Top]]
           counters == [next EXCEPT ![Top] = @ + 1]
<1>2. next[Top] \in DOMAIN deps[Top]
  BY <1>0, <1>1 DEF Started, Top, GraphType, WalkType, NextDependency
<1>3. n \in Names /\ DependsOn(deps, Top, n)
  BY <1>0, <1>1, <1>2 DEF GraphType, DependsOn
<1>4. counters \in [Names -> Nat] /\ counters[Top] = next[Top] + 1 /\ next[Top] \in Nat
      /\ \A m \in Names \ {Top} : counters[m] = next[m]
  BY <1>0, <1>1 DEF WalkType
<1>5. Visit(n, counters) /\ UNCHANGED <<deps, todo, permanent, sorted, cycle>> /\ pc = "loop"
  BY DEF NextDependency
<1> HIDE DEF counters, n
<1>6. ASSUME NEW i \in 1..Len(stack), stack[i] = Top PROVE i = Len(stack)
  BY <1>0, <1>1, <1>6 DEF Marks, Top
<1>7. \A i \in 1..Len(stack) : stack[i] \in Names
  BY <1>0 DEF WalkType, GraphType
<1>8. Started(counters)
  BY <1>0, <1>4, <1>7 DEF Started
<1>9. Passed(counters, {n})
  <2> SUFFICES ASSUME NEW i \in 1..Len(stack), NEW j \in DOMAIN deps[stack[i]],
                      j < counters[stack[i]]
               PROVE  \/ deps[stack[i]][j] \in permanent
                      \/ i < Len(stack) /\ deps[stack[i]][j] = stack[i + 1]
                      \/ i = Len(stack) /\ deps[stack[i]][j] \in {n}
    BY DEF Passed
  <2>1. CASE j < next[stack[i]]
    BY <1>0, <2>1 DEF Passed
  <2>2. CASE ~(j < next[stack[i]])
    <3>1. stack[i] = Top
      BY <1>4, <1>7, <2>2
    <3>2. j \in Nat
      BY <1>0, <1>1, <3>1 DEF GraphType
    <3>3. j = next[Top]
      BY <1>4, <2>2, <3>1, <3>2
    <3> QED BY <1>6, <3>1, <3>3 DEF n
  <2> QED BY <2>1, <2>2
<1> QED BY <1>0, <1>3, <1>4, <1>5, <1>8, <1>9, VisitSortInv

\* The end of a visit keeps the invariant (validation.go:93-96).
LEMMA EndVisitSortInv == ASSUME SortInv, EndVisit PROVE SortInv'
<1>0. GraphType /\ WalkType /\ Control /\ Path /\ Marks /\ Started(next) /\ Passed(next, {})
      /\ Order /\ Collecting /\ stack # <<>> /\ ~isCyclic /\ Slots \in Nat
  BY SlotsNat DEF SortInv, Walking, Control, EndVisit
<1> DEFINE t == Top
<1>1. Len(stack) \in 1..Len(stack) /\ t = stack[Len(stack)] /\ t \in Keys /\ t \in Names
  BY <1>0 DEF WalkType, Top, GraphType
<1>2. /\ temporary' = temporary \ {t} /\ permanent' = permanent \cup {t}
      /\ sorted' = Append(sorted, t) /\ stack' = PopStack /\ pc' = "return"
      /\ next[t] > Len(deps[t]) /\ pc = "loop"
      /\ UNCHANGED <<deps, todo, next, cycle, isCyclic, cycleStart, result>>
  BY DEF EndVisit
<1> HIDE DEF t
<1>3. /\ stack' \in Seq(Keys) /\ Len(stack') = Len(stack) - 1 /\ Len(stack) \in Nat
      /\ \A i \in 1..(Len(stack) - 1) : stack'[i] = stack[i]
  BY <1>0, <1>2, PopFacts DEF WalkType, PopStack
<1>4. GraphType' /\ Keys' = Keys /\ Slots' = Slots
  BY <1>0, <1>2, GraphKept DEF Keys, Slots
<1>5. /\ sorted' \in Seq(Nat) /\ Len(sorted') = Len(sorted) + 1 /\ Len(sorted) \in Nat
      /\ sorted'[Len(sorted) + 1] = t
      /\ DOMAIN sorted = 1..Len(sorted) /\ DOMAIN sorted' = 1..(Len(sorted) + 1)
      /\ \A i \in DOMAIN sorted : sorted'[i] = sorted[i]
  BY <1>0, <1>1, <1>2, NamesAssumption DEF WalkType
<1>6. WalkType'
  BY <1>0, <1>1, <1>2, <1>3, <1>4, <1>5 DEF WalkType
<1>7. Control' /\ Collecting'
  BY <1>0, <1>2 DEF Control, Collecting
<1>8. Path'
  BY <1>0, <1>2, PathPopped DEF WalkType
<1>9. t \in temporary /\ t \notin permanent
  BY <1>0, <1>1 DEF Marks, OnStack
<1>10. ASSUME NEW d \in Names, DependsOn(deps, t, d) PROVE d \in permanent
  <2>1. PICK j \in DOMAIN deps[t] : deps[t][j] = d
    BY <1>10 DEF DependsOn
  <2>2. j < next[t]
    BY <1>0, <1>1, <1>2, <2>1 DEF GraphType, WalkType
  <2> QED BY <1>0, <1>1, <2>1, <2>2 DEF Passed
<1>11. Order'
  <2>1. Slots <= Len(sorted) /\ Slots' <= Len(sorted')
    BY <1>0, <1>2, <1>4, <1>5 DEF Order
  <2>2. \A i : Listed(i)' <=> Listed(i) \/ i = Len(sorted) + 1
    BY <1>0, <1>4, <1>5, <2>1 DEF Listed
  <2>3. \A s \in permanent' : \E i \in DOMAIN sorted' : Listed(i)' /\ sorted'[i] = s
    BY <1>0, <1>2, <1>5, <2>2 DEF Order
  <2>4. \A i \in DOMAIN sorted' : Listed(i)' => sorted'[i] \in permanent'
    BY <1>0, <1>2, <1>5, <2>2 DEF Order, Listed
  <2>5. ASSUME NEW i \in DOMAIN sorted', NEW h \in DOMAIN sorted', Listed(i)', Listed(h)',
               sorted'[i] = sorted'[h]
        PROVE  i = h
    <3>1. \A g \in DOMAIN sorted : Listed(g) => sorted[g] # t
      BY <1>0, <1>9 DEF Order
    <3> QED BY <1>0, <1>5, <2>2, <2>5, <3>1 DEF Order, Listed
  <2>6. ASSUME NEW i \in DOMAIN sorted', Listed(i)', NEW d \in Names,
               DependsOn(deps, sorted'[i], d)
        PROVE  \E h \in DOMAIN sorted' : Listed(h)' /\ h < i /\ sorted'[h] = d
    <3>1. CASE i = Len(sorted) + 1
      <4>1. PICK h \in DOMAIN sorted : Listed(h) /\ sorted[h] = d
        BY <1>0, <1>5, <1>10, <2>6, <3>1 DEF Order
      <4> QED BY <1>5, <2>2, <3>1, <4>1
    <3>2. CASE i # Len(sorted) + 1
      <4>1. i \in DOMAIN sorted /\ Listed(i) /\ sorted'[i] = sorted[i]
        BY <1>5, <2>2, <2>6, <3>2
      <4>2. PICK h \in DOMAIN sorted : Listed(h) /\ h < i /\ sorted[h] = d
        BY <1>0, <2>6, <4>1 DEF Order
      <4> QED BY <1>5, <2>2, <4>2
    <3> QED BY <3>1, <3>2
  <2>7. \A i \in DOMAIN sorted' : Listed(i)' =>
          \A d \in Names : DependsOn(deps', sorted'[i], d) =>
            \E h \in DOMAIN sorted' : Listed(h)' /\ h < i /\ sorted'[h] = d
    BY <1>2, <2>6
  <2>8. \A i, h \in DOMAIN sorted' :
          Listed(i)' /\ Listed(h)' /\ sorted'[i] = sorted'[h] => i = h
    BY <2>5
  <2> QED BY <2>1, <2>3, <2>4, <2>7, <2>8 DEF Order
<1>12. OnStack' = OnStack \ {t}
  BY <1>0, <1>1, <1>3 DEF OnStack, Marks
<1>13. Marks'
  BY <1>0, <1>2, <1>3, <1>4, <1>12 DEF Marks
<1>14. Started(next)' /\ Passed(next, {})'
  <2>1. Started(next)'
    BY <1>0, <1>2, <1>3 DEF Started
  <2> SUFFICES ASSUME NEW i \in 1..Len(stack'), NEW j \in DOMAIN deps[stack'[i]],
                      j < next[stack'[i]]
               PROVE  \/ deps[stack'[i]][j] \in permanent'
                      \/ i < Len(stack') /\ deps[stack'[i]][j] = stack'[i + 1]
    BY <1>2, <2>1 DEF Passed
  <2>2. i \in 1..Len(stack) /\ i < Len(stack) /\ stack'[i] = stack[i]
    BY <1>3
  <2>3. deps[stack[i]][j] \in permanent \/ deps[stack[i]][j] = stack[i + 1]
    BY <1>0, <2>2 DEF Passed
  <2>4. CASE i + 1 = Len(stack)
    BY <1>1, <1>2, <2>2, <2>3, <2>4
  <2>5. CASE i + 1 # Len(stack)
    <3>1. i < Len(stack') /\ i + 1 \in 1..(Len(stack) - 1)
      BY <1>3, <2>2, <2>5
    <3> QED BY <1>2, <1>3, <2>2, <2>3, <3>1
  <2> QED BY <2>4, <2>5
<1>15. Walking'
  BY <1>13, <1>14 DEF Walking
<1> QED BY <1>4, <1>6, <1>7, <1>8, <1>11, <1>15 DEF SortInv

\* A visit collects its name for the cycle and returns.
LEMMA UnwindSortInv == ASSUME SortInv, Returned, isCyclic PROVE SortInv'
<1>0. GraphType /\ WalkType /\ Control /\ Path /\ Order /\ Chained
      /\ (IF cycleStart # EmptyName THEN Open ELSE Closed)
  BY DEF SortInv, Collecting
<1>1. /\ cycle' = (IF cycleStart # EmptyName THEN Append(cycle, Top) ELSE cycle)
      /\ cycleStart' = (IF Top = cycleStart THEN EmptyName ELSE cycleStart)
      /\ stack' = PopStack /\ pc' = pc /\ pc = "return" /\ stack # <<>>
      /\ UNCHANGED <<deps, todo, next, temporary, permanent, sorted, isCyclic, result>>
  BY DEF Returned
<1>2. /\ stack' \in Seq(Keys) /\ Len(stack') = Len(stack) - 1 /\ Len(stack) \in Nat \ {0}
      /\ \A i \in 1..(Len(stack) - 1) : stack'[i] = stack[i]
      /\ Top \in Keys /\ Top = stack[Len(stack)]
  BY <1>0, <1>1, PopFacts DEF WalkType, PopStack, Top
<1>3. GraphType' /\ Keys' = Keys /\ Order'
  BY <1>0, <1>1, GraphKept, OrderKept DEF Keys
<1>4. cycle' \in Seq(Keys) /\ cycle \in Seq(Keys) /\ cycleStart' \in Nat
  BY <1>0, <1>1, <1>2 DEF WalkType, EmptyName
<1>5. WalkType'
  BY <1>0, <1>1, <1>2, <1>3, <1>4 DEF WalkType
<1>6. Control'
  <2>1. result = "none"
    BY <1>0, <1>1 DEF Control
  <2> QED BY <1>0, <1>1, <2>1 DEF Control, Cyclic
<1>7. Path'
  BY <1>0, <1>1, PathPopped DEF WalkType
<1>8. Walking'
  BY <1>1 DEF Walking
<1>9. CASE cycleStart = EmptyName
  <2>1. cycle' = cycle /\ cycleStart' = EmptyName /\ isCyclic'
    BY <1>1, <1>9
  <2>2. Closed' /\ Chained'
    BY <1>0, <1>1, <1>3, <1>9, <2>1 DEF Closed, Chained
  <2>3. Collecting'
    BY <2>1, <2>2 DEF Collecting
  <2> QED BY <1>3, <1>5, <1>6, <1>7, <1>8, <2>3 DEF SortInv
<1>10. CASE cycleStart # EmptyName
  <2>1. /\ Len(cycle') = Len(cycle) + 1 /\ Len(cycle) \in Nat
        /\ cycle'[Len(cycle) + 1] = Top /\ cycle' # <<>>
        /\ DOMAIN cycle' = 1..(Len(cycle) + 1) /\ DOMAIN cycle = 1..Len(cycle)
        /\ \A i \in 1..Len(cycle) : cycle'[i] = cycle[i]
        /\ (cycle = <<>> <=> Len(cycle) = 0)
    BY <1>1, <1>2, <1>4, <1>10
  <2>2. Open
    BY <1>0, <1>10
  <2>3. Chained'
    <3> SUFFICES ASSUME NEW i \in DOMAIN cycle', i > 1
                 PROVE  DependsOn(deps, cycle'[i], cycle'[i - 1])
      BY <1>1 DEF Chained
    <3>1. CASE i = Len(cycle) + 1
      <4>1. cycle # <<>> /\ Len(cycle) \in 1..Len(cycle) /\ i - 1 = Len(cycle)
        BY <2>1, <3>1
      <4>2. DependsOn(deps, Top, cycle[Len(cycle)])
        BY <2>2, <4>1 DEF Open
      <4> QED BY <2>1, <3>1, <4>1, <4>2
    <3>2. CASE i # Len(cycle) + 1
      <4>1. i \in DOMAIN cycle /\ i \in 1..Len(cycle) /\ i - 1 \in 1..Len(cycle)
        BY <2>1, <3>2
      <4>2. DependsOn(deps, cycle[i], cycle[i - 1])
        BY <1>0, <4>1 DEF Chained
      <4> QED BY <2>1, <4>1, <4>2
    <3> QED BY <3>1, <3>2
  <2>4. DependsOn(deps, cycle'[1], cycleStart)
    <3>1. CASE cycle = <<>>
      BY <2>1, <2>2, <3>1 DEF Open
    <3>2. CASE cycle # <<>>
      <4>1. 1 \in 1..Len(cycle)
        BY <2>1, <3>2
      <4> QED BY <2>1, <2>2, <3>2, <4>1 DEF Open
    <3> QED BY <3>1, <3>2
  <2>5. CASE Top = cycleStart
    <3>1. cycleStart' = EmptyName /\ isCyclic'
      BY <1>1, <2>5
    <3>2. Closed'
      BY <1>1, <2>1, <2>4, <2>5 DEF Closed
    <3> QED BY <2>3, <3>1, <3>2, <1>3, <1>5, <1>6, <1>7, <1>8 DEF SortInv, Collecting
  <2>6. CASE Top # cycleStart
    <3>1. cycleStart' = cycleStart /\ isCyclic'
      BY <1>1, <2>6
    <3>2. PICK h \in 1..Len(stack) : stack[h] = cycleStart
      BY <2>2 DEF Open, OnStack
    <3>3. h \in 1..(Len(stack) - 1) /\ stack'[h] = cycleStart
      BY <1>2, <2>6, <3>2
    <3>4. cycleStart \in OnStack'
      BY <1>2, <3>3 DEF OnStack
    <3>5. Len(stack') \in 1..Len(stack) /\ Len(stack') < Len(stack)
          /\ Len(stack') + 1 = Len(stack) /\ Len(stack') \in 1..(Len(stack) - 1)
      BY <1>2, <3>3
    <3>6. DependsOn(deps, stack[Len(stack')], stack[Len(stack') + 1])
      BY <1>0, <3>5 DEF Path
    <3>7. Top' = stack[Len(stack')]
      BY <1>2, <3>5 DEF Top
    <3>8. DependsOn(deps, Top', Top)
      BY <1>2, <3>5, <3>6, <3>7
    <3>9. DependsOn(deps', Top', cycle'[Len(cycle')]) /\ DependsOn(deps', cycle'[1], cycleStart')
      BY <1>1, <2>1, <2>4, <3>1, <3>8
    <3>10. Open'
      BY <2>1, <3>1, <3>4, <3>9 DEF Open
    <3> QED BY <2>3, <3>1, <3>10, <1>3, <1>5, <1>6, <1>7, <1>8, <1>10 DEF SortInv, Collecting
  <2> QED BY <2>5, <2>6
<1> QED BY <1>9, <1>10

\* The return of a visit to its caller keeps the invariant (validation.go:83-91).
LEMMA ReturnedSortInv == ASSUME SortInv, Returned PROVE SortInv'
<1>1. CASE isCyclic
  BY <1>1, UnwindSortInv
<1>2. CASE ~isCyclic
  <2>1. /\ pc' = "loop" /\ pc = "return" /\ stack # <<>>
        /\ UNCHANGED <<deps, todo, stack, next, temporary, permanent, sorted, cycle,
                       isCyclic, cycleStart, result>>
    BY <1>2 DEF Returned
  <2>2. GraphType' /\ Order' /\ Keys' = Keys
    BY <2>1, GraphKept, OrderKept DEF SortInv, Keys
  <2>3. WalkType' /\ Control'
    BY <1>2, <2>1, <2>2 DEF SortInv, WalkType, Control
  <2>4. Path' /\ Collecting'
    BY <1>2, <2>1 DEF SortInv, Path, Collecting
  <2>5. Walking'
    BY <1>2, <2>1, <2>2 DEF SortInv, Walking, Marks, Started, Passed, OnStack
  <2> QED BY <2>2, <2>3, <2>4, <2>5 DEF SortInv
<1> QED BY <1>1, <1>2

\* The return to the main loop keeps the invariant (validation.go:110-112).
LEMMA ReturnedToMainSortInv == ASSUME SortInv, ReturnedToMain PROVE SortInv'
<1>1. /\ pc = "return" /\ stack = <<>>
      /\ UNCHANGED <<deps, todo, stack, next, temporary, permanent, sorted, cycle,
                     isCyclic, cycleStart>>
      /\ IF isCyclic THEN pc' = "done" /\ result' = "forbidden"
                     ELSE pc' = "main" /\ UNCHANGED result
  BY DEF ReturnedToMain
<1>2. GraphType' /\ Order' /\ Keys' = Keys
  BY <1>1, GraphKept, OrderKept DEF SortInv, Keys
<1>3. WalkType' /\ Control'
  BY <1>1, <1>2 DEF SortInv, WalkType, Control, Cyclic
<1>4. Path' /\ Chained' = Chained /\ Open' = Open /\ Closed' = Closed
  BY <1>1, <1>2 DEF SortInv, Path, Chained, Open, Closed, OnStack, Top
<1>5. Collecting'
  BY <1>1, <1>4 DEF SortInv, Collecting
<1>6. Walking'
  BY <1>1, <1>2 DEF SortInv, Walking, Marks, Started, Passed, OnStack
<1> QED BY <1>2, <1>3, <1>4, <1>5, <1>6 DEF SortInv

\* The end of the main loop keeps the invariant (validation.go:114).
LEMMA EndMainSortInv == ASSUME SortInv, EndMain PROVE SortInv'
<1>1. /\ pc = "main" /\ todo = {} /\ pc' = "done" /\ result' = "ok"
      /\ UNCHANGED <<deps, todo, stack, next, temporary, permanent, sorted, cycle,
                     isCyclic, cycleStart>>
  BY DEF EndMain
<1>2. ~isCyclic /\ stack = <<>> /\ Marks
  BY <1>1 DEF SortInv, Control, Walking
<1>3. Keys \subseteq permanent
  BY <1>1, <1>2 DEF Marks, OnStack
<1>4. GraphType' /\ Order' /\ Keys' = Keys
  BY <1>1, GraphKept, OrderKept DEF SortInv, Keys
<1>5. WalkType' /\ Control'
  BY <1>1, <1>2, <1>3, <1>4 DEF SortInv, WalkType, Control
<1>6. Path' /\ Collecting' /\ Walking'
  BY <1>1, <1>2 DEF SortInv, Path, Collecting, Walking
<1> QED BY <1>4, <1>5, <1>6 DEF SortInv

\* One step of topologicalSort keeps the invariant.
LEMMA SortNextInv == ASSUME SortInv, SortNext PROVE SortInv'
BY CallSortInv, NextKeySortInv, NextDependencySortInv, EndVisitSortInv, ReturnedSortInv,
   ReturnedToMainSortInv, EndMainSortInv DEF SortNext, Walk

\* A step that leaves the walk alone keeps the invariant.
LEMMA SortStutterInv == ASSUME SortInv, UNCHANGED sortVars PROVE SortInv'
<1>1. UNCHANGED <<deps, pc, todo, stack, next, temporary, permanent, sorted, cycle,
                  isCyclic, cycleStart, result>>
  BY DEF sortVars, walkVars
<1>2. GraphType' /\ Keys' = Keys /\ Slots' = Slots
  BY <1>1, GraphKept DEF SortInv, Keys, Slots
<1>3. WalkType' /\ Path'
  BY <1>1, <1>2 DEF SortInv, WalkType, Path
<1>4. Control'
  BY <1>1, <1>2 DEF SortInv, Control, Off, Cyclic, Missing
<1>5. Walking'
  BY <1>1, <1>2 DEF SortInv, Walking, Marks, Started, Passed, OnStack
<1>6. Order'
  BY <1>1, <1>2 DEF SortInv, Order, Listed
<1>7. Collecting'
  BY <1>1, <1>2 DEF SortInv, Collecting, Chained, Open, Closed, OnStack, Top
<1> QED BY <1>2, <1>3, <1>4, <1>5, <1>6, <1>7 DEF SortInv

\* Before the call the invariant is true of every graph of steps.
LEMMA OffSortInv == GraphType /\ Off => SortInv
<1> SUFFICES ASSUME GraphType, Off PROVE SortInv
  OBVIOUS
<1>1. WalkType
  <2>1. isCyclic \in BOOLEAN /\ todo \subseteq Keys /\ temporary \subseteq Keys
        /\ permanent \subseteq Keys
    BY DEF Off
  <2>2. next \in [Names -> Nat] /\ cycleStart \in Nat
    BY DEF Off, EmptyName
  <2>3. stack \in Seq(Keys) /\ sorted \in Seq(Nat) /\ cycle \in Seq(Keys)
    BY DEF Off
  <2> QED BY <2>1, <2>2, <2>3 DEF Off, WalkType
<1>2. Control /\ Path
  BY DEF Off, Control, Path
<1>3. Walking /\ Collecting
  BY DEF Off, Walking, Collecting
<1>4. DOMAIN sorted = {} /\ permanent = {} /\ pc = "off"
  BY DEF Off
<1>5. Order
  BY <1>4 DEF Order
<1> QED BY <1>1, <1>2, <1>3, <1>5 DEF SortInv

-----------------------------------------------------------------------------
(* Every step of the walk is progress.                                     *)

\* A call of visit adds no work: a step whose visit begins had all of its
\* dependencies ahead already (validation.go:66-78).
LEMMA VisitAhead ==
  ASSUME SortInv, NEW n \in Names, NEW counters \in [Names -> Nat], Visit(n, counters),
         UNCHANGED <<deps, permanent>>, \A m \in Names : counters[m] >= next[m]
  PROVE  \A s \in Keys : Ahead(s)' \subseteq Ahead(s)
<1>1. GraphType /\ next \in [Names -> Nat] /\ temporary \subseteq Keys
  BY DEF SortInv, WalkType
<1>2. \/ next' = counters /\ temporary' = temporary
      \/ /\ next' = [counters EXCEPT ![n] = 1] /\ temporary' = temporary \cup {n}
         /\ n \notin temporary \cup permanent
  BY DEF Visit
<1>3. ASSUME NEW s \in Keys, NEW j \in Ahead(s)'
      PROVE  j \in Ahead(s)
  <2>1. /\ s \in Names /\ j \in DOMAIN deps[s] /\ j \in Nat
        /\ j >= next'[s] \/ s \notin temporary' \cup permanent
    BY <1>1, <1>3 DEF Ahead, GraphType
  <2>2. CASE s \notin temporary \cup permanent
    BY <2>1, <2>2 DEF Ahead
  <2>3. CASE s \in temporary \cup permanent
    <3>1. next'[s] = counters[s] /\ j >= next'[s]
      BY <1>2, <2>1, <2>3
    <3>2. counters[s] \in Nat /\ next[s] \in Nat /\ counters[s] >= next[s]
      BY <1>1, <2>1
    <3>3. j >= next[s]
      BY <2>1, <3>1, <3>2
    <3> QED BY <2>1, <3>3 DEF Ahead
  <2> QED BY <2>2, <2>3
<1> QED BY <1>3

\* One step of the walk makes progress, whatever the graph.
LEMMA WalkStepAdvances == ASSUME SortInv, Walk PROVE Advances
<1>0. GraphType /\ WalkType /\ next \in [Names -> Nat] /\ Keys \subseteq Names
  BY DEF SortInv, WalkType, GraphType
<1>1. ASSUME NEW k \in Names, NextKey(k) PROVE Advances
  <2>1. /\ k \in todo /\ todo' = todo \ {k} /\ UNCHANGED <<deps, permanent>>
        /\ IF k \in permanent THEN UNCHANGED <<next, temporary>> ELSE Visit(k, next)
    BY <1>1 DEF NextKey
  <2>2. \A m \in Names : next[m] >= next[m]
    BY <1>0
  <2>3. \A s \in Keys : Ahead(s)' \subseteq Ahead(s)
    <3>1. CASE k \in permanent
      BY <2>1, <3>1 DEF Ahead
    <3>2. CASE k \notin permanent
      BY <1>0, <2>1, <2>2, <3>2, VisitAhead
    <3> QED BY <3>1, <3>2
  <2>4. todo' # todo
    BY <2>1
  <2>5. Work' # Work
    BY <2>4 DEF Work
  <2> QED BY <2>1, <2>3, <2>5 DEF Advances
<1>2. ASSUME NextDependency PROVE Advances
  <2> DEFINE n == deps[Top][next[Top]]
             counters == [next EXCEPT ![Top] = @ + 1]
  <2>1. Marks /\ Started(next) /\ stack # <<>> /\ stack \in Seq(Keys)
    BY <1>2 DEF SortInv, Walking, Control, WalkType, NextDependency
  <2>2. Len(stack) \in 1..Len(stack) /\ Top \in Keys /\ Top \in Names
    BY <1>0, <2>1 DEF Top
  <2>3. Top \in temporary
    BY <2>1, <2>2 DEF Marks, OnStack, Top
  <2>4. next[Top] \in DOMAIN deps[Top]
    BY <1>0, <1>2, <2>1, <2>2 DEF Started, Top, GraphType, NextDependency
  <2>5. n \in Names
    BY <1>0, <2>2, <2>4 DEF GraphType
  <2>6. /\ counters \in [Names -> Nat] /\ counters[Top] = next[Top] + 1 /\ next[Top] \in Nat
        /\ \A m \in Names : counters[m] >= next[m]
    BY <1>0, <2>2
  <2>7. Visit(n, counters) /\ UNCHANGED <<deps, todo, permanent>>
    BY <1>2 DEF NextDependency
  <2> HIDE DEF n, counters
  <2>8. \A s \in Keys : Ahead(s)' \subseteq Ahead(s)
    BY <2>5, <2>6, <2>7, VisitAhead
  <2>9. next[Top] \in Ahead(Top)
    BY <2>4, <2>6 DEF Ahead
  <2> DEFINE later == {j \in DOMAIN deps[Top] : j >= next'[Top] \/ Top \notin temporary' \cup permanent'}
  <2>10. next[Top] \notin later
    <3>1. next'[Top] = counters[Top] /\ temporary \subseteq temporary'
      BY <2>2, <2>3, <2>6, <2>7 DEF Visit
    <3> QED BY <2>3, <2>6, <3>1
  <2>11. Work' # Work
    <3> SUFFICES ASSUME Work' = Work PROVE FALSE
      OBVIOUS
    <3>1. Keys' = Keys
      BY <2>7 DEF Keys
    <3>2. [s \in Keys |-> Ahead(s)]' = [s \in Keys |-> Ahead(s)]
      BY DEF Work
    <3>3. [s \in Keys |-> Ahead(s)]'[Top] = later
      BY <2>2, <2>7, <3>1 DEF Ahead
    <3>4. [s \in Keys |-> Ahead(s)][Top] = Ahead(Top)
      BY <2>2
    <3> QED BY <2>9, <2>10, <3>2, <3>3, <3>4
  <2> QED BY <2>7, <2>8, <2>11 DEF Advances
<1>3. ASSUME EndVisit PROVE Advances
  <2>1. Marks /\ stack # <<>> /\ stack \in Seq(Keys)
    BY <1>3 DEF SortInv, Walking, Control, WalkType, EndVisit
  <2>2. Len(stack) \in 1..Len(stack) /\ Top \in Keys /\ Top \in temporary
    BY <2>1 DEF Top, Marks, OnStack
  <2>3. /\ temporary' = temporary \ {Top} /\ permanent' = permanent \cup {Top}
        /\ UNCHANGED <<deps, todo, next>>
    BY <1>3 DEF EndVisit
  <2>4. temporary' \cup permanent' = temporary \cup permanent
    BY <2>2, <2>3
  <2>5. \A s \in Keys : Ahead(s)' \subseteq Ahead(s)
    BY <2>3, <2>4 DEF Ahead
  <2>6. Top \in Keys \ permanent /\ Top \notin Keys' \ permanent'
    BY <2>1, <2>2, <2>3 DEF Marks
  <2>7. Work' # Work
    BY <2>6 DEF Work
  <2> QED BY <2>3, <2>5, <2>7 DEF Advances
<1>4. ASSUME Returned PROVE Advances
  <2>1. /\ pc = "return" /\ stack # <<>> /\ UNCHANGED <<deps, todo, next, temporary, permanent>>
        /\ IF isCyclic THEN stack' = PopStack ELSE pc' = "loop" /\ stack' = stack
    BY <1>4 DEF Returned
  <2>2. \A s \in Keys : Ahead(s)' \subseteq Ahead(s)
    BY <2>1 DEF Ahead
  <2>3. isCyclic => Len(stack') < Len(stack)
    <3>1. stack \in Seq(Keys)
      BY DEF SortInv, WalkType
    <3>2. Len(PopStack) = Len(stack) - 1 /\ Len(stack) \in Nat
      BY <2>1, <3>1, PopFacts DEF PopStack
    <3> QED BY <2>1, <3>2
  <2> QED BY <2>1, <2>2, <2>3 DEF Advances
<1>5. ASSUME ReturnedToMain \/ EndMain PROVE Advances
  <2>1. /\ UNCHANGED <<deps, todo, next, temporary, permanent, stack>>
        /\ (pc = "return" /\ pc' # "return") \/ pc' = "done"
    BY <1>5 DEF ReturnedToMain, EndMain
  <2>2. \A s \in Keys : Ahead(s)' \subseteq Ahead(s)
    BY <2>1 DEF Ahead
  <2> QED BY <2>1, <2>2 DEF Advances
<1> QED BY <1>1, <1>2, <1>3, <1>4, <1>5 DEF Walk

FiniteWork ==
  /\ IsFiniteSet(todo) /\ IsFiniteSet(Keys \ permanent)
  /\ \A s \in Keys : IsFiniteSet(Ahead(s))

\* The work of a walk is finite.
LEMMA WorkFinite == ASSUME SortInv PROVE FiniteWork
<1>1. IsFiniteSet(Keys) /\ todo \subseteq Keys
  BY DEF SortInv, GraphType, WalkType
<1>2. ASSUME NEW s \in Keys PROVE IsFiniteSet(Ahead(s))
  <2>1. deps[s] \in Seq(Names)
    BY DEF SortInv, GraphType
  <2>2. DOMAIN deps[s] = 1..Len(deps[s]) /\ Len(deps[s]) \in Nat
    BY <2>1
  <2>3. IsFiniteSet(1..Len(deps[s]))
    BY <2>2, FS_Interval
  <2> QED BY <2>2, <2>3, FS_Subset DEF Ahead
<1> QED BY <1>1, <1>2, FS_Subset DEF FiniteWork

\* In every reachable state of a walk over any graph the invariant holds.
THEOREM SortInvariant == SortSpec => []SortInv
<1>1. SortInit => SortInv
  <2> SUFFICES ASSUME SortInit PROVE SortInv
    OBVIOUS
  <2>1. PICK S \in SUBSET Names : deps \in [S -> Seq(Names)]
    BY DEF SortInit
  <2>2. IsFiniteSet(S)
    BY FS_Subset, NamesAssumption
  <2>3. GraphType
    BY <2>1, <2>2 DEF GraphType, Keys
  <2> QED BY <2>3, OffSortInv DEF SortInit
<1>2. SortInv /\ [SortNext]_sortVars => SortInv'
  BY SortStutterInv, SortNextInv
<1> QED BY <1>1, <1>2, PTL DEF SortSpec

\* topologicalSort on any graph: the verdict, the order and the reported cycle
\* are right (validation.go:57-115).
THEOREM TopologicalSortCorrect ==
  SortSpec => [](VerdictRight /\ OrderRespected /\ CycleReal)
<1>1. SortInv => VerdictRight /\ OrderRespected /\ CycleReal
  BY SortInvVerdict, SortInvOrder, SortInvCycle
<1> QED BY <1>1, SortInvariant, PTL

\* topologicalSort ends on any graph: every step of the walk makes progress on
\* finite work (validation.go:57-115).
THEOREM TopologicalSortAdvances == SortSpec => WalkAdvances /\ []FiniteWork
<1>1. SortInv /\ [SortNext]_sortVars => [UnderWay => Advances]_sortVars
  BY WalkStepAdvances DEF SortNext, Call, UnderWay
<1>2. SortInv => FiniteWork
  BY WorkFinite
<1> QED BY <1>1, <1>2, SortInvariant, PTL DEF SortSpec, WalkAdvances
=============================================================================
