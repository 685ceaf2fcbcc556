------------------------- MODULE WorkflowWatchProofs ------------------------
(***************************************************************************)
(* What the workflow informer keeps true for any number of workflows,      *)
(* names and writes, in spite of the shared loop variable: types, and with *)
(* a single workflow the agreement of nameMap and store.                   *)
(***************************************************************************)
EXTENDS WorkflowWatch, SequenceTheorems, FiniteSetTheorems, WellFoundedInduction,
        NaturalsInduction, TLAPS

-----------------------------------------------------------------------------
(* The pointers that are around.                                           *)

\* The deltas in the delta queue q.
Waits(q) == UNION {{q[i].deltas[j] : j \in DOMAIN q[i].deltas} : i \in DOMAIN q}

Deltas ==
  {d \in {recv} : d # None} \cup {batch[i] : i \in DOMAIN batch} \cup Waits(fifo)

Refs == {d.ref : d \in Deltas} \cup {store[k] : k \in DOMAIN store}

\* A pointer points to an object: to a plain one, or to the variable of a loop
\* that is under way and has begun with its first item.
Live(r) ==
  \/ r.cell = "none" /\ r.obj \in Object
  \/ /\ r = LoopVar(r.cell) /\ r.cell \in Watchers
     /\ pc[r.cell] \in {"loop", "send", "sweep", "report"}
     /\ wf[r.cell] \in Object

RefsLive == \A r \in Refs : Live(r)

\* The second loop goes through names that nameMap holds, each under its name.
Sweeping ==
  \A w \in Watchers :
    /\ pc[w] \in {"send", "report"} => wf[w] \in Object
    /\ pc[w] \in {"sweep", "report"} => \A n \in left[w] : nameMap[w][n] # None
    /\ pc[w] = "report" => NameOf[wf[w].key] \notin left[w]

NamesKept ==
  /\ \A w \in Watchers, n \in Names : nameMap[w][n] # None => NameOf[nameMap[w][n].key] = n
  /\ pc["cur"] = "off" => nameMap["cur"] = NoNames

\* Each key is once in the delta queue q, with something to tell of it.
Proper(q) ==
  /\ \A i \in DOMAIN q : q[i].deltas # <<>>
  /\ \A i, j \in DOMAIN q : q[i].id = q[j].id => i = j

Queued == Proper(fifo)

TInv == TypeOK /\ RefsLive /\ Sweeping /\ NamesKept /\ Queued

-----------------------------------------------------------------------------
(* A single workflow.                                                      *)

\* Whatever is around was on the server.
KnownOnly ==
  /\ \A k \in Keys : server[k] # None => k \in known
  /\ \A w \in Watchers : \A o \in items[w] : o.key \in known
  /\ \A w \in Watchers : wf[w] # None => wf[w].key \in known
  /\ \A w \in Watchers, n \in Names : nameMap[w][n] # None => nameMap[w][n].key \in known
  /\ \A r \in Refs : r.cell = "none" => r.obj.key \in known
  /\ \A i \in DOMAIN fifo : fifo[i].id \in known

OnePerKey == \A w \in Watchers : \A o, p \in items[w] : o.key = p.key => o = p

Alone == \A j, k \in known : j = k

\* A loop over a single item does not overwrite its variable any more once the
\* pointer was given away.
UntouchedBy(w) ==
  /\ (\E r \in Refs : r.cell = w) =>
       (pc[w] = "loop" /\ items[w] = {}) \/ (pc[w] = "sweep" /\ left[w] = {})
  /\ pc[w] = "send" => items[w] = {}
  /\ pc[w] = "report" => left[w] = {}

Untouched == Alone => \A w \in Watchers : UntouchedBy(w)

\* The last that was sent of the workflow and has not reached the store.
Newest ==
  IF recv # None THEN recv
  ELSE IF fifo # <<>> THEN fifo[1].deltas[Len(fifo[1].deltas)]
  ELSE IF batch # <<>> THEN batch[Len(batch)] ELSE None

\* nameMap has what was sent last, or with nothing under way what is stored.
Told ==
  Alone =>
    \A k \in known :
      LET seen == nameMap["cur"][NameOf[k]] IN
      seen # None =>
        IF Newest # None
        THEN Newest.type # "Deleted" /\ Content(Newest.ref) = seen
        ELSE k \in DOMAIN store /\ Content(store[k]) = seen

WInv == TInv /\ KnownOnly /\ OnePerKey /\ Untouched /\ Told

-----------------------------------------------------------------------------
(* Pointers and types.                                                     *)

BaseTypes ==
  /\ NameOf \in [Keys -> Names]
  /\ server \in [Keys -> Nat \cup {None}] /\ writes \in Nat /\ known \subseteq Keys
  /\ ticked \in BOOLEAN

LoopTypes ==
  /\ pc \in [Watchers -> {"off", "dead", "idle", "loop", "send", "sweep", "report"}]
  /\ nameMap \in [Watchers -> [Names -> Object \cup {None}]]
  /\ items \in [Watchers -> SUBSET Object]
  /\ listMap \in [Watchers -> SUBSET Names] /\ left \in [Watchers -> SUBSET Names]
  /\ wf \in [Watchers -> Object \cup {None}]

Entry == [id : Keys, deltas : Seq(Delta)]

PipeTypes ==
  /\ recv \in Delta \cup {None}
  /\ fifo \in Seq(Entry) /\ batch \in Seq(Delta)
  /\ DOMAIN store \subseteq Keys /\ \A k \in DOMAIN store : store[k] \in Ref

\* The type invariant in three parts: constants of a run, loops, pipeline.
LEMMA TypeParts ==
  /\ TypeOK <=> BaseTypes /\ LoopTypes /\ PipeTypes
  /\ TypeOK' <=> BaseTypes' /\ LoopTypes' /\ PipeTypes'
BY DEF TypeOK, BaseTypes, LoopTypes, PipeTypes, Entry

\* The pointers that a step of the loops leaves alone.
LEMMA SameRefs ==
  ASSUME UNCHANGED <<recv, fifo, batch, store>>
  PROVE  Deltas' = Deltas /\ Refs' = Refs
BY DEF Deltas, Refs

\* An entry of the delta queue.
LEMMA EntryTyped ==
  ASSUME PipeTypes, NEW i \in DOMAIN fifo
  PROVE  fifo[i] \in Entry /\ fifo[i].id \in Keys /\ fifo[i].deltas \in Seq(Delta)
<1>1. fifo[i] \in Entry
  BY DEF PipeTypes
<1> QED BY <1>1 DEF Entry

\* Every delta is one, and every pointer is one.
LEMMA RefsTyped ==
  ASSUME PipeTypes
  PROVE  Deltas \subseteq Delta /\ Refs \subseteq Ref
<1>1. ASSUME NEW i \in DOMAIN fifo, NEW j \in DOMAIN fifo[i].deltas
      PROVE  fifo[i].deltas[j] \in Delta
  <2>1. fifo[i].deltas \in Seq(Delta)
    BY EntryTyped
  <2> QED BY <2>1
<1>2. \A i \in DOMAIN batch : batch[i] \in Delta
  BY DEF PipeTypes
<1>3. Deltas \subseteq Delta
  BY <1>1, <1>2 DEF Deltas, Waits, PipeTypes
<1>4. \A d \in Delta : d.ref \in Ref
  BY DEF Delta
<1> QED BY <1>3, <1>4 DEF Refs, PipeTypes

\* Redirected pointers in a list of deltas.
LEMMA RedirectFacts ==
  ASSUME NEW ds \in Seq(Delta), NEW w, NEW to \in Ref
  PROVE  /\ RedirectDeltas(ds, w, to) \in Seq(Delta)
         /\ DOMAIN RedirectDeltas(ds, w, to) = DOMAIN ds
         /\ Len(RedirectDeltas(ds, w, to)) = Len(ds)
         /\ \A i \in DOMAIN ds :
              /\ RedirectDeltas(ds, w, to)[i].type = ds[i].type
              /\ RedirectDeltas(ds, w, to)[i].ref = Redirect(ds[i].ref, w, to)
<1> DEFINE rs == RedirectDeltas(ds, w, to)
<1>1. DOMAIN rs = DOMAIN ds /\ DOMAIN ds = 1..Len(ds) /\ Len(ds) \in Nat
  BY DEF RedirectDeltas
<1>2. ASSUME NEW i \in DOMAIN ds
      PROVE  rs[i] \in Delta /\ rs[i].type = ds[i].type /\ rs[i].ref = Redirect(ds[i].ref, w, to)
  <2>1. ds[i] \in Delta
    OBVIOUS
  <2>2. rs[i] = [ds[i] EXCEPT !.ref = Redirect(ds[i].ref, w, to)]
    BY DEF RedirectDeltas
  <2>3. ds[i].ref \in Ref
    BY <2>1 DEF Delta
  <2>4. Redirect(ds[i].ref, w, to) \in Ref
    BY <2>3 DEF Redirect
  <2> QED BY <2>1, <2>2, <2>4 DEF Delta
<1> HIDE DEF rs
<1>3. rs \in [1..Len(ds) -> Delta]
  <2>1. rs = [i \in 1..Len(ds) |-> rs[i]]
    BY <1>1 DEF rs, RedirectDeltas
  <2> QED BY <1>1, <1>2, <2>1
<1>4. rs \in Seq(Delta)
  BY <1>1, <1>3
<1>5. Len(rs) = Len(ds)
  BY <1>1, <1>3, <1>4
<1> QED BY <1>1, <1>2, <1>4, <1>5 DEF rs

\* The end of a loop keeps the shape of the pipeline and redirects its pointers.
LEMMA FreezeFacts ==
  ASSUME PipeTypes, LoopTypes, NEW w \in Watchers, Freeze(w)
  PROVE  LET to == Plain(wf[w]) IN
         /\ PipeTypes'
         /\ recv = None <=> recv' = None
         /\ recv # None => recv'.type = recv.type /\ recv'.ref = Redirect(recv.ref, w, to)
         /\ DOMAIN fifo' = DOMAIN fifo /\ Len(fifo') = Len(fifo)
         /\ \A i \in DOMAIN fifo :
              fifo'[i].id = fifo[i].id /\ fifo'[i].deltas = RedirectDeltas(fifo[i].deltas, w, to)
         /\ batch' = RedirectDeltas(batch, w, to)
         /\ DOMAIN store' = DOMAIN store
         /\ \A k \in DOMAIN store : store'[k] = Redirect(store[k], w, to)
<1> DEFINE to == Plain(wf[w])
<1>1. to \in Ref
  BY DEF LoopTypes, Plain, Ref
<1>2. /\ recv' = IF recv = None THEN None ELSE [recv EXCEPT !.ref = Redirect(recv.ref, w, to)]
      /\ fifo' = [i \in DOMAIN fifo |-> [fifo[i] EXCEPT !.deltas = RedirectDeltas(fifo[i].deltas, w, to)]]
      /\ batch' = RedirectDeltas(batch, w, to)
      /\ store' = [k \in DOMAIN store |-> Redirect(store[k], w, to)]
  BY DEF Freeze
<1> HIDE DEF to
<1>3. recv # None => /\ recv' \in Delta /\ recv'.type = recv.type
                     /\ recv'.ref = Redirect(recv.ref, w, to)
  <2> SUFFICES ASSUME recv # None
               PROVE  /\ recv' \in Delta /\ recv'.type = recv.type
                      /\ recv'.ref = Redirect(recv.ref, w, to)
    OBVIOUS
  <2>1. recv \in Delta
    BY DEF PipeTypes
  <2>2. recv.ref \in Ref
    BY <2>1 DEF Delta
  <2>3. Redirect(recv.ref, w, to) \in Ref
    BY <1>1, <2>2 DEF Redirect
  <2> QED BY <1>2, <2>1, <2>3 DEF Delta
<1>4. fifo \in Seq(Entry) /\ DOMAIN fifo = 1..Len(fifo) /\ Len(fifo) \in Nat
  BY DEF PipeTypes
<1>5. ASSUME NEW i \in DOMAIN fifo
      PROVE  /\ fifo'[i] \in Entry /\ fifo'[i].id = fifo[i].id
             /\ fifo'[i].deltas = RedirectDeltas(fifo[i].deltas, w, to)
  <2>1. fifo[i] \in Entry
    BY EntryTyped
  <2>2. fifo[i].deltas \in Seq(Delta)
    BY EntryTyped
  <2>3. RedirectDeltas(fifo[i].deltas, w, to) \in Seq(Delta)
    BY <1>1, <2>2, RedirectFacts
  <2> QED BY <1>2, <2>1, <2>3 DEF Entry
<1>6. DOMAIN fifo' = 1..Len(fifo) /\ fifo' \in [1..Len(fifo) -> Entry]
  <2>1. fifo' = [i \in 1..Len(fifo) |-> fifo'[i]]
    BY <1>2, <1>4
  <2> QED BY <1>4, <1>5, <2>1
<1>7. fifo' \in Seq(Entry) /\ Len(fifo') = Len(fifo)
  BY <1>4, <1>6
<1>8. batch' \in Seq(Delta)
  BY <1>1, <1>2, RedirectFacts DEF PipeTypes
<1>9. ASSUME NEW k \in DOMAIN store
      PROVE  store'[k] = Redirect(store[k], w, to) /\ store'[k] \in Ref
  BY <1>1, <1>2 DEF PipeTypes, Redirect
<1>10. DOMAIN store' = DOMAIN store
  BY <1>2
<1>11. recv = None <=> recv' = None
  BY <1>2, <1>3, WatchAssumption
<1>12. PipeTypes'
  BY <1>3, <1>7, <1>8, <1>9, <1>10, <1>11 DEF PipeTypes
<1> QED BY <1>2, <1>3, <1>4, <1>5, <1>6, <1>7, <1>9, <1>10, <1>11, <1>12 DEF to

\* Where the pointers of a redirected pipeline come from.
LEMMA FrozenRefs ==
  ASSUME PipeTypes, LoopTypes, NEW w \in Watchers, Freeze(w)
  PROVE  \A r \in Refs' : \E q \in Refs : r = Redirect(q, w, Plain(wf[w]))
<1> DEFINE to == Plain(wf[w])
<1>0. to \in Ref
  BY DEF LoopTypes, Plain, Ref
<1> HIDE DEF to
<1>1. ASSUME NEW d \in Deltas' PROVE \E e \in Deltas : d.ref = Redirect(e.ref, w, to)
  <2>1. CASE d \in {x \in {recv'} : x # None}
    BY <2>1, FreezeFacts DEF Deltas, to
  <2>2. CASE d \in {batch'[i] : i \in DOMAIN batch'}
    <3>1. PICK i \in DOMAIN batch' : d = batch'[i]
      BY <2>2
    <3>2. batch \in Seq(Delta) /\ batch' = RedirectDeltas(batch, w, to)
      BY FreezeFacts DEF PipeTypes, to
    <3>3. i \in DOMAIN batch /\ d.ref = Redirect(batch[i].ref, w, to)
      BY <1>0, <3>1, <3>2, RedirectFacts
    <3> QED BY <3>3 DEF Deltas
  <2>3. CASE d \in UNION {{fifo'[i].deltas[j] : j \in DOMAIN fifo'[i].deltas} : i \in DOMAIN fifo'}
    <3>1. PICK i \in DOMAIN fifo' : \E j \in DOMAIN fifo'[i].deltas : d = fifo'[i].deltas[j]
      BY <2>3
    <3>2. PICK j \in DOMAIN fifo'[i].deltas : d = fifo'[i].deltas[j]
      BY <3>1
    <3>3. i \in DOMAIN fifo /\ fifo'[i].deltas = RedirectDeltas(fifo[i].deltas, w, to)
      BY FreezeFacts DEF to
    <3>4. fifo[i].deltas \in Seq(Delta)
      BY <3>3, EntryTyped
    <3>5. j \in DOMAIN fifo[i].deltas /\ d.ref = Redirect(fifo[i].deltas[j].ref, w, to)
      BY <1>0, <3>2, <3>3, <3>4, RedirectFacts
    <3> QED BY <3>3, <3>5 DEF Deltas, Waits
  <2> QED BY <2>1, <2>2, <2>3 DEF Deltas, Waits
<1>2. ASSUME NEW k \in DOMAIN store' PROVE \E q \in Refs : store'[k] = Redirect(q, w, to)
  BY FreezeFacts DEF Refs, to
<1>3. ASSUME NEW r \in Refs' PROVE \E q \in Refs : r = Redirect(q, w, to)
  <2>1. CASE r \in {store'[k] : k \in DOMAIN store'}
    BY <1>2, <2>1
  <2>2. CASE r \in {d.ref : d \in Deltas'}
    BY <1>1, <2>2 DEF Refs
  <2> QED BY <2>1, <2>2 DEF Refs
<1> QED BY <1>3 DEF to

\* After the end of its loop nobody points to the variable of w.
LEMMA FrozenLive ==
  ASSUME TypeOK, RefsLive, NEW w \in Watchers, Freeze(w), wf' = [wf EXCEPT ![w] = None],
         \A v \in Watchers \ {w} : pc'[v] = pc[v]
  PROVE  /\ RefsLive' /\ \A r \in Refs' : r.cell # w
         /\ \A r \in Refs' : r \in Refs \/ (r.cell = "none" /\ r.obj = wf[w] /\ \E q \in Refs : q.cell = w)
<1>1. PipeTypes /\ LoopTypes
  BY TypeParts
<1>2. ASSUME NEW r \in Refs'
      PROVE  /\ Live(r)' /\ r.cell # w
             /\ r \in Refs \/ (r.cell = "none" /\ r.obj = wf[w] /\ \E q \in Refs : q.cell = w)
  <2>1. PICK q \in Refs : r = Redirect(q, w, Plain(wf[w]))
    BY <1>1, FrozenRefs
  <2>2. Live(q)
    BY DEF RefsLive
  <2>3. "none" \notin Watchers
    BY DEF Watchers
  <2>4. CASE q.cell = w
    <3>1. r = Plain(wf[w]) /\ wf[w] \in Object
      BY <2>1, <2>2, <2>3, <2>4 DEF Redirect, Live
    <3> QED BY <2>3, <2>4, <3>1 DEF Plain, Live
  <2>5. CASE q.cell # w
    <3>1. r = q
      BY <2>1, <2>5 DEF Redirect
    <3>2. q.cell \in Watchers => wf'[q.cell] = wf[q.cell] /\ pc'[q.cell] = pc[q.cell]
      BY <1>1, <2>5 DEF LoopTypes
    <3> QED BY <2>2, <2>5, <3>1, <3>2 DEF Live
  <2> QED BY <2>4, <2>5
<1> QED BY <1>2 DEF RefsLive

\* What r points to while the loop variables hold v.
Points(r, v) == IF r.cell = "none" THEN r.obj ELSE v[r.cell]

\* What a pointer points to is not changed by the end of a loop.
LEMMA FrozenContent ==
  ASSUME LoopTypes, NEW w \in Watchers, NEW q, Live(q)
  PROVE  Points(Redirect(q, w, Plain(wf[w])), [wf EXCEPT ![w] = None]) = Content(q)
<1>1. "none" \notin Watchers
  BY DEF Watchers
<1>2. CASE q.cell = w
  BY <1>1, <1>2 DEF Redirect, Plain, Content, Points
<1>3. CASE q.cell # w
  <2>1. q.cell \in Watchers => [wf EXCEPT ![w] = None][q.cell] = wf[q.cell]
    BY <1>3 DEF LoopTypes
  <2>2. Redirect(q, w, Plain(wf[w])) = q
    BY <1>3 DEF Redirect
  <2> QED BY <2>1, <2>2 DEF Live, Content, Points
<1> QED BY <1>2, <1>3

-----------------------------------------------------------------------------
(* The loops keep the types.                                               *)

\* What List returns: objects that the server has, one for each key.
LEMMA ListingTyped ==
  ASSUME BaseTypes
  PROVE  /\ Listing \subseteq Object
         /\ \A o \in Listing : server[o.key] # None
         /\ \A o, p \in Listing : o.key = p.key => o = p
<1>1. ASSUME NEW o \in Listing PROVE o \in Object /\ server[o.key] # None /\ o.version = server[o.key]
  <2>1. PICK k \in Keys : server[k] # None /\ o = [key |-> k, version |-> server[k]]
    BY DEF Listing
  <2>2. server[k] \in Nat
    BY <2>1 DEF BaseTypes
  <2> QED BY <2>1, <2>2 DEF Object
<1>2. \A o, p \in Object : o.key = p.key /\ o.version = p.version => o = p
  BY DEF Object
<1> QED BY <1>1, <1>2

\* A set of naturals that is not empty has a least element.
LEMMA LeastNatural ==
  ASSUME NEW T \in SUBSET Nat, T # {}
  PROVE  \E x \in T : \A y \in T : x <= y
<1>1. PICK x \in T : \A y \in T : <<y, x>> \notin OpToRel(<, Nat)
  BY WFMin, NatLessThanWellFounded
<1>2. \A y \in T : ~(y < x)
  BY <1>1 DEF OpToRel
<1>3. \A y \in T : x <= y
  BY <1>2
<1> QED BY <1>3

\* The next item of a list is one of its items.
LEMMA FirstFacts ==
  ASSUME NEW S \in SUBSET Object, S # {}
  PROVE  First(S) \in S
<1> DEFINE T == {Rank[o.key] : o \in S}
<1>1. \A o \in S : Rank[o.key] \in Nat
  BY WatchAssumption DEF Object
<1>2. T \in SUBSET Nat /\ T # {}
  BY <1>1
<1>3. PICK x \in T : \A y \in T : x <= y
  BY <1>2, LeastNatural
<1>4. PICK o \in S : Rank[o.key] = x
  BY <1>3
<1>5. \A p \in S : Rank[o.key] <= Rank[p.key]
  BY <1>3, <1>4
<1> QED BY <1>5 DEF First

\* Pointers stay alive when only the watcher w moves and keeps its variable.
LEMMA LiveKept ==
  ASSUME RefsLive, NEW w \in Watchers, Refs' \subseteq Refs \cup {LoopVar(w)},
         \A v \in Watchers \ {w} : pc'[v] = pc[v] /\ wf'[v] = wf[v],
         (\E r \in Refs' : r.cell = w) =>
           pc'[w] \in {"loop", "send", "sweep", "report"} /\ wf'[w] \in Object
  PROVE  RefsLive'
<1> SUFFICES ASSUME NEW r \in Refs' PROVE Live(r)'
  BY DEF RefsLive
<1>1. CASE r \in Refs /\ r.cell # w
  <2>1. Live(r)
    BY <1>1 DEF RefsLive
  <2> QED BY <1>1, <2>1 DEF Live
<1>2. CASE r \in Refs /\ r.cell = w
  <2>1. Live(r)
    BY <1>2 DEF RefsLive
  <2> QED BY <1>2, <2>1 DEF Live, Watchers
<1>3. CASE r = LoopVar(w)
  BY <1>3 DEF Live, LoopVar
<1> QED BY <1>1, <1>2, <1>3

\* Nobody points to the variable of a watcher that is in none of its loops.
LEMMA Unreferred ==
  ASSUME RefsLive, NEW w \in Watchers, pc[w] \notin {"loop", "send", "sweep", "report"}
  PROVE  \A r \in Refs : r.cell # w
BY DEF RefsLive, Live, Watchers

\* The state of the other watchers is left alone.
Others(w) ==
  \A v \in Watchers \ {w} :
    /\ pc'[v] = pc[v] /\ nameMap'[v] = nameMap[v] /\ items'[v] = items[v]
    /\ left'[v] = left[v] /\ wf'[v] = wf[v]

\* Steps of a loop that neither end it nor send.
LEMMA LoopTInv ==
  ASSUME TInv, NEW w \in Watchers, Tick(w) \/ TickFails(w) \/ NextItem(w) \/ NextName(w)
  PROVE  TInv'
<1>0. BaseTypes /\ LoopTypes /\ PipeTypes /\ RefsLive /\ Sweeping /\ NamesKept /\ Queued
  BY TypeParts DEF TInv
<1>1. UNCHANGED <<NameOf, server, known, ticked, recv, fifo, batch, store, nameMap>> /\ writes' \in Nat
  BY <1>0 DEF Tick, TickFails, NextItem, NextName, BaseTypes
<1>2. BaseTypes' /\ PipeTypes' /\ Queued' /\ Refs' = Refs
  BY <1>0, <1>1, SameRefs DEF BaseTypes, PipeTypes, Queued
<1>3. \A r \in Refs : r.cell = w => wf[w] \in Object /\ pc[w] \in {"loop", "send", "sweep", "report"}
  BY <1>0 DEF RefsLive, Live, Watchers
<1>4. ASSUME Tick(w) PROVE TInv'
  <2>1. /\ pc[w] = "idle" /\ pc' = [pc EXCEPT ![w] = "loop"]
        /\ items' = [items EXCEPT ![w] = Listing] /\ listMap' = [listMap EXCEPT ![w] = {}]
        /\ UNCHANGED <<left, wf>>
    BY <1>4 DEF Tick
  <2>2. LoopTypes'
    BY <1>0, <1>1, <2>1, ListingTyped DEF LoopTypes
  <2>3. RefsLive'
    BY <1>0, <1>2, <1>3, <2>1, LiveKept DEF LoopTypes
  <2>4. Sweeping' /\ NamesKept'
    BY <1>0, <1>1, <2>1 DEF Sweeping, NamesKept, LoopTypes, NoNames
  <2> QED BY <1>2, <2>2, <2>3, <2>4, TypeParts DEF TInv
<1>5. ASSUME TickFails(w) PROVE TInv'
  <2>1. pc[w] = "idle" /\ pc' = [pc EXCEPT ![w] = "dead"] /\ UNCHANGED <<items, listMap, left, wf>>
    BY <1>5 DEF TickFails
  <2>2. LoopTypes'
    BY <1>0, <1>1, <2>1 DEF LoopTypes
  <2>3. RefsLive'
    BY <1>0, <1>2, <1>3, <2>1, LiveKept DEF LoopTypes
  <2>4. Sweeping' /\ NamesKept'
    BY <1>0, <1>1, <2>1 DEF Sweeping, NamesKept, LoopTypes, NoNames
  <2> QED BY <1>2, <2>2, <2>3, <2>4, TypeParts DEF TInv
<1>6. ASSUME NextItem(w) PROVE TInv'
  <2> DEFINE o == First(items[w])
  <2>1. /\ pc[w] = "loop" /\ items[w] # {} /\ wf' = [wf EXCEPT ![w] = o]
        /\ items' = [items EXCEPT ![w] = @ \ {o}]
        /\ listMap' = [listMap EXCEPT ![w] = @ \cup {NameOf[o.key]}]
        /\ pc' = [pc EXCEPT ![w] = IF nameMap[w][NameOf[o.key]] = o THEN "loop" ELSE "send"]
        /\ UNCHANGED left
    BY <1>6 DEF NextItem
  <2>2. items[w] \in SUBSET Object
    BY <1>0 DEF LoopTypes
  <2>3. o \in Object
    BY <2>1, <2>2, FirstFacts
  <2> HIDE DEF o
  <2>4. NameOf[o.key] \in Names
    BY <1>0, <2>3 DEF BaseTypes, Object
  <2>5. LoopTypes'
    BY <1>0, <1>1, <2>1, <2>3, <2>4 DEF LoopTypes
  <2>6. RefsLive'
    BY <1>0, <1>2, <2>1, <2>3, LiveKept DEF LoopTypes
  <2>7. Sweeping' /\ NamesKept'
    BY <1>0, <1>1, <2>1, <2>3 DEF Sweeping, NamesKept, LoopTypes, NoNames
  <2> QED BY <1>2, <2>5, <2>6, <2>7, TypeParts DEF TInv
<1>7. ASSUME NextName(w) PROVE TInv'
  <2>1. PICK n \in left[w] :
          /\ wf' = [wf EXCEPT ![w] = nameMap[w][n]]
          /\ left' = [left EXCEPT ![w] = @ \ {n}]
          /\ pc' = [pc EXCEPT ![w] = IF n \in listMap[w] THEN "sweep" ELSE "report"]
    BY <1>7 DEF NextName
  <2>2. pc[w] = "sweep" /\ UNCHANGED <<items, listMap>>
    BY <1>7 DEF NextName
  <2>3. n \in Names /\ nameMap[w][n] # None /\ nameMap[w][n] \in Object
    BY <1>0, <2>1, <2>2 DEF Sweeping, LoopTypes
  <2>4. NameOf[nameMap[w][n].key] = n
    BY <1>0, <2>3 DEF NamesKept
  <2>5. LoopTypes'
    BY <1>0, <1>1, <2>1, <2>2, <2>3 DEF LoopTypes
  <2>6. RefsLive'
    BY <1>0, <1>2, <2>1, <2>3, LiveKept DEF LoopTypes
  <2>7. Sweeping' /\ NamesKept'
    BY <1>0, <1>1, <2>1, <2>2, <2>3, <2>4 DEF Sweeping, NamesKept, LoopTypes, NoNames
  <2> QED BY <1>2, <2>5, <2>6, <2>7, TypeParts DEF TInv
<1> QED BY <1>4, <1>5, <1>6, <1>7

\* The end of a loop (workflows.go:194-204), for both of its loops.
LEMMA EndLoopTInv ==
  ASSUME TInv, NEW w \in Watchers, EndItems(w) \/ EndTick(w) \/ (w = "old" /\ Blocked)
  PROVE  TInv'
<1>0. BaseTypes /\ LoopTypes /\ PipeTypes /\ RefsLive /\ Sweeping /\ NamesKept /\ Queued /\ TypeOK
  BY TypeParts DEF TInv
<1>1. /\ Freeze(w) /\ wf' = [wf EXCEPT ![w] = None] /\ ticked' \in BOOLEAN
      /\ UNCHANGED <<NameOf, server, known, writes>>
  BY <1>0 DEF EndItems, EndTick, Blocked, BaseTypes
<1>2. BaseTypes'
  BY <1>0, <1>1 DEF BaseTypes
<1>3. PipeTypes'
  BY <1>0, <1>1, FreezeFacts
<1>4. Queued'
  <2>1. ASSUME NEW i \in DOMAIN fifo' PROVE fifo'[i].deltas # <<>>
    <3>1. i \in DOMAIN fifo /\ fifo'[i].deltas = RedirectDeltas(fifo[i].deltas, w, Plain(wf[w]))
      BY <1>0, <1>1, FreezeFacts
    <3>2. fifo[i].deltas \in Seq(Delta) /\ fifo[i].deltas # <<>> /\ Plain(wf[w]) \in Ref
      BY <1>0, <3>1, EntryTyped DEF Queued, Proper, LoopTypes, Plain, Ref
    <3>3. Len(fifo'[i].deltas) = Len(fifo[i].deltas)
      BY <3>1, <3>2, RedirectFacts
    <3> QED BY <3>2, <3>3
  <2>2. \A i, j \in DOMAIN fifo' : fifo'[i].id = fifo'[j].id => i = j
    BY <1>0, <1>1, FreezeFacts DEF Queued, Proper
  <2> QED BY <2>1, <2>2 DEF Queued, Proper
<1>5. /\ Others(w) /\ LoopTypes' /\ pc'[w] \in {"dead", "idle", "sweep"}
      /\ nameMap'[w] = nameMap[w] \/ nameMap'[w] = NoNames
      /\ pc'[w] = "sweep" => \A n \in left'[w] : nameMap'[w][n] # None
  <2>1. CASE EndItems(w)
    <3>1. /\ pc' = [pc EXCEPT ![w] = "sweep"] /\ UNCHANGED <<nameMap, items, listMap>>
          /\ left' = [left EXCEPT ![w] = IF {n \in Names : nameMap[w][n] # None} \subseteq listMap[w]
                                         THEN {} ELSE {n \in Names : nameMap[w][n] # None}]
      BY <2>1 DEF EndItems
    <3> QED BY <1>0, <1>1, <3>1 DEF Others, LoopTypes
  <2>2. CASE EndTick(w)
    <3>1. /\ pc' = [pc EXCEPT ![w] = IF w = "old" THEN "dead" ELSE "idle"]
          /\ nameMap' = [nameMap EXCEPT ![w] = IF w = "old" THEN NoNames ELSE @]
          /\ listMap' = [listMap EXCEPT ![w] = {}] /\ UNCHANGED <<items, left>>
      BY <2>2 DEF EndTick
    <3>2. NoNames \in [Names -> Object \cup {None}]
      BY DEF NoNames
    <3> QED BY <1>0, <1>1, <3>1, <3>2 DEF Others, LoopTypes
  <2>3. CASE w = "old" /\ Blocked
    <3>1. /\ pc' = [pc EXCEPT ![w] = "dead"] /\ nameMap' = [nameMap EXCEPT ![w] = NoNames]
          /\ items' = [items EXCEPT ![w] = {}] /\ listMap' = [listMap EXCEPT ![w] = {}]
          /\ left' = [left EXCEPT ![w] = {}]
      BY <2>3 DEF Blocked
    <3>2. NoNames \in [Names -> Object \cup {None}]
      BY DEF NoNames
    <3> QED BY <1>0, <1>1, <3>1, <3>2 DEF Others, LoopTypes
  <2> QED BY <2>1, <2>2, <2>3
<1>6. RefsLive'
  BY <1>0, <1>1, <1>5, FrozenLive DEF Others
<1>7. Sweeping'
  BY <1>0, <1>1, <1>5 DEF Sweeping, Others
<1>8. NamesKept'
  <2>1. \A n \in Names : NoNames[n] = None
    BY DEF NoNames
  <2> QED BY <1>0, <1>1, <1>5, <2>1 DEF NamesKept, Others, Watchers
<1> QED BY <1>2, <1>3, <1>4, <1>5, <1>6, <1>7, <1>8, TypeParts DEF TInv

\* The events that the current watcher sends (workflows.go:187-201).
LEMMA SendTInv ==
  ASSUME TInv, SendItem \/ SendDeleted
  PROVE  TInv'
<1>0. BaseTypes /\ LoopTypes /\ PipeTypes /\ RefsLive /\ Sweeping /\ NamesKept /\ Queued
  BY TypeParts DEF TInv
<1> DEFINE n == NameOf[wf["cur"].key]
<1>1. /\ UNCHANGED <<NameOf, server, writes, known, items, listMap, left, wf, ticked, fifo, batch, store>>
      /\ "cur" \in Watchers /\ pc["cur"] \in {"send", "report"}
      /\ recv'.ref = LoopVar("cur") /\ recv' = [type |-> recv'.type, ref |-> LoopVar("cur")]
      /\ recv'.type \in {"Added", "Modified", "Deleted"}
  BY DEF SendItem, SendDeleted, Watchers
<1>2. wf["cur"] \in Object
  BY <1>0, <1>1 DEF Sweeping
<1>3. n \in Names
  BY <1>0, <1>2 DEF BaseTypes, Object
<1>4. LoopVar("cur") \in Ref
  BY <1>1 DEF LoopVar, Ref
<1>5. recv' \in Delta /\ PipeTypes'
  BY <1>0, <1>1, <1>4 DEF Delta, PipeTypes
<1>6. BaseTypes' /\ Queued'
  BY <1>0, <1>1 DEF BaseTypes, Queued
<1>7. Refs' \subseteq Refs \cup {LoopVar("cur")}
  BY <1>1 DEF Refs, Deltas
<1>8. RefsLive' /\ LoopTypes' /\ Sweeping' /\ NamesKept'
  <2>1. CASE SendItem
    <3>1. pc' = [pc EXCEPT !["cur"] = "loop"] /\ nameMap' = [nameMap EXCEPT !["cur"][n] = wf["cur"]]
      BY <2>1 DEF SendItem
    <3> HIDE DEF n
    <3>2. LoopTypes'
      BY <1>0, <1>1, <1>2, <1>3, <3>1 DEF LoopTypes
    <3>3. RefsLive'
      BY <1>0, <1>1, <1>2, <1>7, <3>1, LiveKept DEF LoopTypes
    <3>4. Sweeping'
      BY <1>0, <1>1, <3>1 DEF Sweeping, LoopTypes, Watchers
    <3>5. NamesKept'
      BY <1>0, <1>1, <1>2, <1>3, <3>1 DEF NamesKept, LoopTypes, n
    <3> QED BY <3>2, <3>3, <3>4, <3>5
  <2>2. CASE SendDeleted
    <3>1. /\ pc' = [pc EXCEPT !["cur"] = "sweep"] /\ nameMap' = [nameMap EXCEPT !["cur"][n] = None]
          /\ pc["cur"] = "report"
      BY <2>2 DEF SendDeleted
    <3>0. n \notin left["cur"]
      BY <1>0, <1>1, <3>1 DEF Sweeping
    <3> HIDE DEF n
    <3>2. LoopTypes'
      BY <1>0, <1>1, <1>2, <1>3, <3>1 DEF LoopTypes
    <3>3. RefsLive'
      BY <1>0, <1>1, <1>2, <1>7, <3>1, LiveKept DEF LoopTypes
    <3>4. Sweeping'
      BY <1>0, <1>1, <3>0, <3>1 DEF Sweeping, LoopTypes, Watchers
    <3>5. NamesKept'
      BY <1>0, <1>1, <1>2, <1>3, <3>1 DEF NamesKept, LoopTypes
    <3> QED BY <3>2, <3>3, <3>4, <3>5
  <2> QED BY <2>1, <2>2
<1> QED BY <1>5, <1>6, <1>8, TypeParts DEF TInv

-----------------------------------------------------------------------------
(* The pipeline keeps the types.                                           *)

\* Some order of a finite set.
LEMMA SomeOrder ==
  ASSUME NEW S, IsFiniteSet(S), NEW q \in SetToSeqs(S)
  PROVE  /\ q \in Seq(S) /\ DOMAIN q = 1..Len(q) /\ Len(q) \in Nat
         /\ \A i \in DOMAIN q : q[i] \in S
         /\ \A i, j \in DOMAIN q : q[i] = q[j] => i = j
         /\ Len(q) = Cardinality(S)
<1>1. Cardinality(S) \in Nat
  BY FS_CardinalityType
<1>2. q \in [1..Cardinality(S) -> S]
  BY DEF SetToSeqs
<1>3. q \in Seq(S) /\ DOMAIN q = 1..Cardinality(S) /\ Len(q) = Cardinality(S)
  BY <1>1, <1>2
<1>4. \A i, j \in 1..Cardinality(S) : i # j => q[i] # q[j]
  BY DEF SetToSeqs
<1> QED BY <1>1, <1>2, <1>3, <1>4

\* A sequence with one more element.
LEMMA AppendFacts ==
  ASSUME NEW S, NEW q \in Seq(S), NEW e \in S
  PROVE  /\ Append(q, e) \in Seq(S) /\ Append(q, e) # <<>> /\ Len(Append(q, e)) = Len(q) + 1
         /\ DOMAIN Append(q, e) = 1..(Len(q) + 1)
         /\ DOMAIN q = 1..Len(q) /\ Len(q) \in Nat
         /\ Append(q, e)[Len(q) + 1] = e
         /\ \A j \in DOMAIN q : Append(q, e)[j] = q[j]
OBVIOUS

\* queueActionLocked (delta_fifo.go:234-301): what is in the queue afterwards.
LEMMA QueueActionFacts ==
  ASSUME NEW q \in Seq(Entry), Proper(q), NEW id \in Keys, NEW delta \in Delta
  PROVE  LET p == QueueAction(q, id, delta) IN
         /\ p \in Seq(Entry) /\ Proper(p) /\ Waits(p) \subseteq Waits(q) \cup {delta}
         /\ \A i \in DOMAIN p : p[i].id \in {q[j].id : j \in DOMAIN q} \cup {id}
<1> DEFINE at == {i \in DOMAIN q : q[i].id = id}
           p == QueueAction(q, id, delta)
           e == [id |-> id, deltas |-> <<delta>>]
<1>0. DOMAIN q = 1..Len(q) /\ Len(q) \in Nat /\ \A i \in DOMAIN q : q[i] \in Entry
  OBVIOUS
<1>1. CASE at = {}
  <2>1. p = Append(q, e) /\ e \in Entry
    BY <1>1 DEF QueueAction, Entry
  <2> HIDE DEF p, e
  <2>2. /\ p \in Seq(Entry) /\ DOMAIN p = 1..(Len(q) + 1) /\ p[Len(q) + 1] = e
        /\ \A i \in DOMAIN q : p[i] = q[i]
    BY <1>0, <2>1
  <2>3. e.id = id /\ e.deltas = <<delta>> /\ e.deltas # <<>>
    BY DEF e
  <2>4. \A i \in DOMAIN p : i \in DOMAIN q \/ i = Len(q) + 1
    BY <1>0, <2>2
  <2>5. Proper(p)
    BY <1>1, <2>2, <2>3, <2>4 DEF Proper
  <2>6. Waits(p) \subseteq Waits(q) \cup {delta}
    <3>1. ASSUME NEW i \in DOMAIN p, NEW j \in DOMAIN p[i].deltas
          PROVE  p[i].deltas[j] \in Waits(q) \cup {delta}
      <4>1. CASE i \in DOMAIN q
        BY <2>2, <3>1, <4>1 DEF Waits
      <4>2. CASE i = Len(q) + 1
        BY <2>2, <2>3, <3>1, <4>2
      <4> QED BY <2>4, <4>1, <4>2
    <3> QED BY <3>1 DEF Waits
  <2>7. \A i \in DOMAIN p : p[i].id \in {q[j].id : j \in DOMAIN q} \cup {id}
    BY <2>2, <2>3, <2>4
  <2> QED BY <2>2, <2>5, <2>6, <2>7 DEF p
<1>2. CASE at # {}
  <2> DEFINE k == CHOOSE j \in at : TRUE
  <2>1. k \in at
    BY <1>2
  <2>2. p = q \/ p = [q EXCEPT ![k].deltas = Append(q[k].deltas, delta)]
    BY <1>2 DEF QueueAction
  <2> HIDE DEF k, p
  <2>3. CASE p = q
    BY <2>3 DEF p
  <2>4. CASE p = [q EXCEPT ![k].deltas = Append(q[k].deltas, delta)]
    <3>1. k \in DOMAIN q /\ q[k] \in Entry
      BY <1>0, <2>1
    <3>2. q[k].deltas \in Seq(Delta)
      BY <3>1 DEF Entry
    <3>3. /\ Append(q[k].deltas, delta) \in Seq(Delta) /\ Append(q[k].deltas, delta) # <<>>
          /\ DOMAIN Append(q[k].deltas, delta) = 1..(Len(q[k].deltas) + 1)
          /\ DOMAIN q[k].deltas = 1..Len(q[k].deltas) /\ Len(q[k].deltas) \in Nat
          /\ Append(q[k].deltas, delta)[Len(q[k].deltas) + 1] = delta
          /\ \A j \in DOMAIN q[k].deltas : Append(q[k].deltas, delta)[j] = q[k].deltas[j]
      BY <3>2, AppendFacts
    <3>4. /\ DOMAIN p = DOMAIN q /\ p[k] = [q[k] EXCEPT !.deltas = Append(q[k].deltas, delta)]
          /\ \A i \in DOMAIN q \ {k} : p[i] = q[i]
      BY <2>4, <3>1
    <3>5. p[k] \in Entry /\ p[k].id = q[k].id /\ p[k].deltas = Append(q[k].deltas, delta)
      BY <3>1, <3>3, <3>4 DEF Entry
    <3>6. \A i \in DOMAIN q : p[i].id = q[i].id /\ p[i] \in Entry /\ p[i].deltas # <<>>
      BY <1>0, <3>3, <3>4, <3>5 DEF Proper
    <3>7. p \in Seq(Entry)
      <4>1. p = [i \in 1..Len(q) |-> p[i]]
        BY <1>0, <2>4
      <4>2. p \in [1..Len(q) -> Entry]
        BY <1>0, <3>6, <4>1
      <4> QED BY <1>0, <4>2
    <3>8. Proper(p)
      BY <3>4, <3>6 DEF Proper
    <3>9. Waits(p) \subseteq Waits(q) \cup {delta}
      <4>1. ASSUME NEW i \in DOMAIN p, NEW j \in DOMAIN p[i].deltas
            PROVE  p[i].deltas[j] \in Waits(q) \cup {delta}
        <5>1. CASE i # k
          BY <3>4, <4>1, <5>1 DEF Waits
        <5>2. CASE i = k
          <6>1. CASE j = Len(q[k].deltas) + 1
            BY <3>3, <3>5, <5>2, <6>1
          <6>2. CASE j # Len(q[k].deltas) + 1
            <7>1. j \in DOMAIN q[k].deltas
              BY <3>3, <3>5, <4>1, <5>2, <6>2
            <7>2. p[i].deltas[j] = q[k].deltas[j]
              BY <3>3, <3>5, <5>2, <7>1
            <7> QED BY <3>1, <7>1, <7>2 DEF Waits
          <6> QED BY <6>1, <6>2
        <5> QED BY <5>1, <5>2
      <4> QED BY <4>1 DEF Waits
    <3>10. \A i \in DOMAIN p : p[i].id \in {q[j].id : j \in DOMAIN q} \cup {id}
      BY <3>4, <3>6
    <3> QED BY <3>7, <3>8, <3>9, <3>10 DEF p
  <2> QED BY <2>2, <2>3, <2>4
<1> QED BY <1>1, <1>2

\* A pointer that is alive points to an object.
LEMMA LiveContent ==
  ASSUME NEW r, Live(r)
  PROVE  Content(r) \in Object /\ KeyOf(r) \in Keys
<1>1. Content(r) \in Object
  BY DEF Live, Content, Watchers
<1> QED BY <1>1 DEF KeyOf, Object

\* A step of the pipeline leaves the loops alone.
LEMMA PipeStep ==
  ASSUME TInv, UNCHANGED <<NameOf, server, writes, known, loopVars, ticked>>,
         PipeTypes', Proper(fifo'), Refs' \subseteq Refs
  PROVE  TInv'
<1>0. BaseTypes /\ LoopTypes /\ PipeTypes /\ RefsLive /\ Sweeping /\ NamesKept
  BY TypeParts DEF TInv
<1>1. UNCHANGED <<pc, nameMap, items, listMap, left, wf>>
  BY DEF loopVars
<1>2. BaseTypes' /\ LoopTypes' /\ Sweeping' /\ NamesKept'
  BY <1>0, <1>1 DEF BaseTypes, LoopTypes, Sweeping, NamesKept, NoNames
<1>3. RefsLive'
  BY <1>0, <1>1 DEF RefsLive, Live
<1> QED BY <1>2, <1>3, TypeParts DEF TInv, Queued

\* The reflector and the informer (reflector.go:378-418, controller.go:234-258).
LEMMA PipeTInv ==
  ASSUME TInv, Receive \/ Pop \/ Process
  PROVE  TInv' /\ UNCHANGED <<NameOf, server, writes, known, loopVars, ticked>> /\ Refs' \subseteq Refs
<1>0. BaseTypes /\ LoopTypes /\ PipeTypes /\ RefsLive /\ Proper(fifo)
  BY TypeParts DEF TInv, Queued
<1>1. UNCHANGED <<NameOf, server, writes, known, loopVars, ticked>>
  BY DEF Receive, Pop, Process
<1>2. ASSUME Receive PROVE PipeTypes' /\ Proper(fifo') /\ Refs' \subseteq Refs
  <2>1. /\ recv # None /\ recv' = None /\ UNCHANGED <<batch, store>>
        /\ fifo' = fifo \/ fifo' = QueueAction(fifo, KeyOf(recv.ref), recv)
    BY <1>2 DEF Receive
  <2>2. recv \in Delta /\ recv \in Deltas /\ recv.ref \in Refs
    BY <1>0, <2>1 DEF PipeTypes, Deltas, Refs
  <2>3. KeyOf(recv.ref) \in Keys
    BY <1>0, <2>2, LiveContent DEF RefsLive
  <2>4. fifo' \in Seq(Entry) /\ Proper(fifo') /\ Waits(fifo') \subseteq Waits(fifo) \cup {recv}
    BY <1>0, <2>1, <2>2, <2>3, QueueActionFacts DEF PipeTypes
  <2>5. Deltas' \subseteq Deltas
    BY <2>1, <2>2, <2>4 DEF Deltas
  <2>6. Refs' \subseteq Refs
    BY <2>1, <2>5 DEF Refs
  <2> QED BY <1>0, <2>1, <2>4, <2>6 DEF PipeTypes
<1>3. ASSUME Pop PROVE PipeTypes' /\ Proper(fifo') /\ Refs' \subseteq Refs
  <2>1. /\ fifo # <<>> /\ batch = <<>> /\ batch' = Head(fifo).deltas /\ fifo' = Tail(fifo)
        /\ UNCHANGED <<recv, store>>
    BY <1>3 DEF Pop
  <2>2. /\ fifo' \in Seq(Entry) /\ 1 \in DOMAIN fifo /\ batch' = fifo[1].deltas
        /\ \A i \in DOMAIN fifo' : i \in Nat /\ i + 1 \in DOMAIN fifo /\ fifo'[i] = fifo[i + 1]
    BY <1>0, <2>1 DEF PipeTypes
  <2>3. Proper(fifo')
    <3>1. \A i \in DOMAIN fifo' : fifo'[i].deltas # <<>>
      BY <1>0, <2>2 DEF Proper
    <3>2. ASSUME NEW i \in DOMAIN fifo', NEW j \in DOMAIN fifo', fifo'[i].id = fifo'[j].id
          PROVE  i = j
      <4>1. i + 1 = j + 1
        BY <1>0, <2>2, <3>2 DEF Proper
      <4> QED BY <2>2, <4>1
    <3> QED BY <3>1, <3>2 DEF Proper
  <2>4. Waits(fifo') \subseteq Waits(fifo)
    BY <2>2 DEF Waits
  <2>5. {batch'[i] : i \in DOMAIN batch'} \subseteq Waits(fifo)
    BY <2>2 DEF Waits
  <2>6. Deltas' \subseteq Deltas
    BY <2>1, <2>4, <2>5 DEF Deltas
  <2>7. Refs' \subseteq Refs
    BY <2>1, <2>6 DEF Refs
  <2>8. batch' \in Seq(Delta)
    BY <1>0, <2>2, EntryTyped
  <2> QED BY <1>0, <2>1, <2>2, <2>3, <2>7, <2>8 DEF PipeTypes
<1>4. ASSUME Process PROVE PipeTypes' /\ Proper(fifo') /\ Refs' \subseteq Refs
  <2> DEFINE d == Head(batch)
             k == KeyOf(d.ref)
  <2>1. /\ batch # <<>> /\ batch' = Tail(batch) /\ UNCHANGED <<recv, fifo>>
        /\ store' = IF d.type = "Deleted"
                    THEN [j \in DOMAIN store \ {k} |-> store[j]]
                    ELSE [j \in DOMAIN store \cup {k} |-> IF j = k THEN d.ref ELSE store[j]]
    BY <1>4 DEF Process
  <2>2. /\ batch \in Seq(Delta) /\ batch' \in Seq(Delta) /\ 1 \in DOMAIN batch /\ d = batch[1]
        /\ \A i \in DOMAIN batch' : i + 1 \in DOMAIN batch /\ batch'[i] = batch[i + 1]
    BY <1>0, <2>1 DEF PipeTypes
  <2> HIDE DEF d
  <2>3. d \in Deltas /\ d \in Delta /\ d.ref \in Refs /\ d.ref \in Ref
    BY <1>0, <2>2, RefsTyped DEF Deltas, Refs
  <2>4. k \in Keys
    BY <1>0, <2>3, LiveContent DEF RefsLive
  <2> HIDE DEF k
  <2>5. DOMAIN store' \subseteq Keys /\ \A j \in DOMAIN store' : store'[j] \in Ref
    BY <1>0, <2>1, <2>3, <2>4 DEF PipeTypes
  <2>6. \A j \in DOMAIN store' : store'[j] = d.ref \/ (j \in DOMAIN store /\ store'[j] = store[j])
    BY <2>1
  <2>7. Deltas' \subseteq Deltas
    BY <2>1, <2>2 DEF Deltas
  <2>8. Refs' \subseteq Refs
    BY <2>3, <2>6, <2>7 DEF Refs
  <2> QED BY <1>0, <2>1, <2>2, <2>5, <2>8 DEF PipeTypes
<1> QED BY <1>1, <1>2, <1>3, <1>4, PipeStep

\* What List returns is finite.
LEMMA ListingFinite == IsFiniteSet(Listing)
<1> DEFINE T == {j \in Keys : server[j] # None}
           obj == [k \in T |-> [key |-> k, version |-> server[k]]]
<1>1. IsFiniteSet(T)
  BY FS_Subset, WatchAssumption
<1>2. Listing = {obj[k] : k \in T}
  BY DEF Listing
<1>3. obj \in [T -> Listing] /\ \A o \in Listing : \E k \in T : obj[k] = o
  BY <1>2
<1>4. obj \in Surjection(T, Listing)
  BY <1>3 DEF Surjection
<1> QED BY <1>1, <1>4, FS_Surjection

\* The initial list (reflector.go:281-308).
LEMMA ListTInv ==
  ASSUME TInv, List
  PROVE  /\ TInv'
         /\ \A r \in Refs' : r \in Refs \/ \E o \in Listing : r = Plain(o)
         /\ \A i \in DOMAIN fifo' : \E o \in Listing : fifo'[i].id = o.key
<1>0. BaseTypes /\ LoopTypes /\ PipeTypes /\ RefsLive /\ Sweeping /\ NamesKept
  BY TypeParts DEF TInv
<1>1. /\ pc["cur"] = "off" /\ pc' = [pc EXCEPT !["cur"] = "idle"] /\ "cur" \in Watchers
      /\ UNCHANGED <<NameOf, server, writes, known, nameMap, items, listMap, left, wf, ticked, recv,
                     batch, store>>
  BY DEF List, Watchers
<1>2. PICK list \in SetToSeqs(Listing) :
        fifo' = [i \in DOMAIN list |->
                  [id |-> list[i].key, deltas |-> <<[type |-> "Sync", ref |-> Plain(list[i])]>>]]
  BY DEF List
<1>3. /\ DOMAIN list = 1..Len(list) /\ Len(list) \in Nat
      /\ \A i \in DOMAIN list : list[i] \in Listing /\ list[i] \in Object
      /\ \A i, j \in DOMAIN list : list[i].key = list[j].key => i = j
  BY <1>0, ListingFinite, SomeOrder, ListingTyped
<1> DEFINE sync(i) == [type |-> "Sync", ref |-> Plain(list[i])]
<1>4. ASSUME NEW i \in DOMAIN list
      PROVE  /\ fifo'[i].id = list[i].key /\ fifo'[i].deltas = <<sync(i)>>
             /\ fifo'[i] \in Entry /\ sync(i).ref = Plain(list[i])
  <2>1. Plain(list[i]) \in Ref /\ list[i].key \in Keys
    BY <1>3 DEF Plain, Ref, Object
  <2>2. [type |-> "Sync", ref |-> Plain(list[i])] \in Delta
    BY <2>1 DEF Delta
  <2>3. <<[type |-> "Sync", ref |-> Plain(list[i])]>> \in Seq(Delta)
    BY <2>2
  <2> QED BY <1>2, <2>1, <2>3 DEF Entry
<1>5. DOMAIN fifo' = DOMAIN list /\ fifo' \in Seq(Entry)
  <2>1. DOMAIN fifo' = DOMAIN list /\ fifo' = [i \in 1..Len(list) |-> fifo'[i]]
    BY <1>2, <1>3
  <2>2. fifo' \in [1..Len(list) -> Entry]
    BY <1>3, <1>4, <2>1
  <2> QED BY <1>3, <2>1, <2>2
<1> HIDE DEF sync
<1>6. Proper(fifo')
  <2>1. \A i \in DOMAIN list : <<sync(i)>> # <<>>
    OBVIOUS
  <2> QED BY <1>3, <1>4, <1>5, <2>1 DEF Proper
<1>7. \A d \in Waits(fifo') : \E o \in Listing : d.ref = Plain(o)
  <2> SUFFICES ASSUME NEW i \in DOMAIN fifo', NEW j \in DOMAIN fifo'[i].deltas
               PROVE  \E o \in Listing : fifo'[i].deltas[j].ref = Plain(o)
    BY DEF Waits
  <2>1. i \in DOMAIN list /\ j \in DOMAIN <<sync(i)>> /\ fifo'[i].deltas[j] = <<sync(i)>>[j]
    BY <1>4, <1>5
  <2>2. <<sync(i)>>[j] = sync(i)
    BY <2>1
  <2> QED BY <1>3, <1>4, <2>1, <2>2
<1>8. \A r \in Refs' : r \in Refs \/ \E o \in Listing : r = Plain(o)
  <2>1. \A d \in Deltas' : d \in Deltas \/ d \in Waits(fifo')
    BY <1>1 DEF Deltas
  <2> QED BY <1>1, <1>7, <2>1 DEF Refs
<1>9. RefsLive'
  <2> SUFFICES ASSUME NEW r \in Refs' PROVE Live(r)'
    BY DEF RefsLive
  <2>1. CASE r \in Refs
    <3>1. Live(r) /\ r.cell # "cur"
      BY <1>0, <1>1, <2>1, Unreferred DEF RefsLive
    <3> QED BY <1>0, <1>1, <3>1 DEF Live, LoopTypes
  <2>2. CASE \E o \in Listing : r = Plain(o)
    BY <1>0, <2>2, ListingTyped DEF Plain, Live
  <2> QED BY <1>8, <2>1, <2>2
<1>10. LoopTypes' /\ Sweeping' /\ NamesKept'
  BY <1>0, <1>1 DEF LoopTypes, Sweeping, NamesKept, Watchers
<1>11. BaseTypes' /\ PipeTypes'
  BY <1>0, <1>1, <1>5 DEF BaseTypes, PipeTypes
<1>12. TInv'
  BY <1>6, <1>9, <1>10, <1>11, TypeParts DEF TInv, Queued
<1> QED BY <1>3, <1>4, <1>5, <1>8, <1>12

\* The queue that DeltaFIFO.Resync builds from the store (delta_fifo.go:459-478).
LEMMA SyncFacts ==
  ASSUME TInv, NEW to \in Ref, NEW ids \in SetToSeqs(StoreIds), NEW order \in SyncOrders
  PROVE  LET q == QueueSync(ids, order, to) IN
         /\ q \in Seq(Entry) /\ Proper(q)
         /\ \A i \in DOMAIN q : q[i].id \in StoreIds
         /\ \A d \in Waits(q) : \E k \in DOMAIN store : d.ref = Redirect(store[k], "cur", to)
<1> DEFINE q == QueueSync(ids, order, to)
           sync(i) == [j \in DOMAIN order[ids[i]] |->
                         [type |-> "Sync", ref |-> Redirect(store[order[ids[i]][j]], "cur", to)]]
<1>0. PipeTypes /\ RefsLive /\ IsFiniteSet(DOMAIN store) /\ \A k \in DOMAIN store : store[k] \in Refs
  <2>1. PipeTypes /\ RefsLive /\ DOMAIN store \subseteq Keys
    BY TypeParts DEF TInv, PipeTypes
  <2> QED BY <2>1, FS_Subset, WatchAssumption DEF Refs
<1>1. StoreIds \subseteq Keys /\ IsFiniteSet(StoreIds)
  <2>1. StoreIds \subseteq Keys
    BY <1>0, LiveContent DEF StoreIds, RefsLive
  <2> QED BY <2>1, FS_Subset, WatchAssumption
<1>2. /\ DOMAIN ids = 1..Len(ids) /\ Len(ids) \in Nat
      /\ \A i \in DOMAIN ids : ids[i] \in StoreIds
      /\ \A i, j \in DOMAIN ids : ids[i] = ids[j] => i = j
  BY <1>1, SomeOrder
<1>3. ASSUME NEW i \in DOMAIN ids
      PROVE  /\ sync(i) \in Seq(Delta) /\ sync(i) # <<>>
             /\ \A j \in DOMAIN sync(i) :
                  \E k \in DOMAIN store : sync(i)[j].ref = Redirect(store[k], "cur", to)
  <2> DEFINE ks == order[ids[i]]
             S == StoredUnder(ids[i])
  <2>1. ks \in SetToSeqs(S)
    BY <1>2 DEF SyncOrders
  <2>2. S \subseteq DOMAIN store /\ S # {}
    BY <1>2 DEF StoredUnder, StoreIds
  <2> HIDE DEF S
  <2>3. IsFiniteSet(S) /\ Cardinality(S) # 0
    BY <1>0, <2>2, FS_Subset, FS_EmptySet
  <2> HIDE DEF ks
  <2>4. /\ DOMAIN ks = 1..Len(ks) /\ Len(ks) \in Nat /\ Len(ks) # 0
        /\ \A j \in DOMAIN ks : ks[j] \in DOMAIN store
    BY <2>1, <2>2, <2>3, SomeOrder
  <2>5. ASSUME NEW j \in DOMAIN ks
        PROVE  /\ sync(i)[j] = [type |-> "Sync", ref |-> Redirect(store[ks[j]], "cur", to)]
               /\ sync(i)[j] \in Delta
    <3>1. Redirect(store[ks[j]], "cur", to) \in Ref
      BY <1>0, <2>4 DEF Redirect, PipeTypes
    <3>2. sync(i)[j] = [type |-> "Sync", ref |-> Redirect(store[ks[j]], "cur", to)]
      BY DEF ks
    <3> QED BY <3>1, <3>2 DEF Delta
  <2>6. DOMAIN sync(i) = DOMAIN ks /\ sync(i) = [j \in DOMAIN ks |-> sync(i)[j]]
    BY DEF ks
  <2> HIDE DEF sync
  <2>7. sync(i) \in Seq(Delta) /\ Len(sync(i)) = Len(ks)
    <3>1. sync(i) \in [1..Len(ks) -> Delta]
      BY <2>4, <2>5, <2>6
    <3> QED BY <2>4, <3>1
  <2>8. sync(i) # <<>>
    BY <2>4, <2>7
  <2> QED BY <2>4, <2>5, <2>6, <2>7, <2>8
<1>4. q = [i \in DOMAIN ids |-> [id |-> ids[i], deltas |-> sync(i)]]
  BY DEF QueueSync
<1> HIDE DEF sync, q
<1>5. ASSUME NEW i \in DOMAIN ids
      PROVE  q[i].id = ids[i] /\ q[i].deltas = sync(i) /\ q[i] \in Entry
  BY <1>1, <1>2, <1>3, <1>4 DEF Entry
<1>6. DOMAIN q = DOMAIN ids /\ q \in Seq(Entry)
  <2>1. DOMAIN q = DOMAIN ids /\ q = [i \in 1..Len(ids) |-> q[i]]
    BY <1>2, <1>4
  <2>2. q \in [1..Len(ids) -> Entry]
    BY <1>2, <1>5, <2>1
  <2> QED BY <1>2, <2>1, <2>2
<1>7. Proper(q)
  BY <1>2, <1>3, <1>5, <1>6 DEF Proper
<1>8. \A d \in Waits(q) : \E k \in DOMAIN store : d.ref = Redirect(store[k], "cur", to)
  BY <1>3, <1>5, <1>6 DEF Waits
<1>9. \A i \in DOMAIN q : q[i].id \in StoreIds
  BY <1>2, <1>5, <1>6
<1> QED BY <1>6, <1>7, <1>8, <1>9 DEF q

\* Where the pointers come from after a resync: the variable of the current
\* watcher is now that of the old one.
LEMMA ResyncRefs ==
  ASSUME TInv, Resync
  PROVE  /\ PipeTypes' /\ Proper(fifo') /\ \A i \in DOMAIN fifo' : fifo'[i].id \in StoreIds
         /\ \A r \in Refs' : \E q \in Refs :
              r = Redirect(q, "cur", LoopVar("old")) /\ (q.cell = "cur" => Referred("cur"))
<1> DEFINE to == LoopVar("old")
<1>0. PipeTypes /\ to \in Ref
  BY TypeParts DEF TInv, LoopVar, Ref, Watchers
<1>1. /\ recv = None /\ recv' = None /\ batch' = RedirectDeltas(batch, "cur", to)
      /\ store' = [k \in DOMAIN store |-> Redirect(store[k], "cur", to)]
  BY DEF Resync, ResyncWith
<1>2. PICK ids \in SetToSeqs(StoreIds), order \in SyncOrders : fifo' = QueueSync(ids, order, to)
  BY DEF Resync, ResyncWith
<1> HIDE DEF to
<1>3. /\ fifo' \in Seq(Entry) /\ Proper(fifo') /\ \A i \in DOMAIN fifo' : fifo'[i].id \in StoreIds
      /\ \A d \in Waits(fifo') : \E k \in DOMAIN store : d.ref = Redirect(store[k], "cur", to)
  BY <1>0, <1>2, SyncFacts
<1>4. batch \in Seq(Delta)
  BY <1>0 DEF PipeTypes
<1>5. /\ batch' \in Seq(Delta) /\ DOMAIN batch' = DOMAIN batch
      /\ \A i \in DOMAIN batch : batch'[i].ref = Redirect(batch[i].ref, "cur", to)
  BY <1>0, <1>1, <1>4, RedirectFacts
<1>6. PipeTypes'
  BY <1>0, <1>1, <1>3, <1>5 DEF PipeTypes, Redirect
<1>7. ASSUME NEW k \in DOMAIN store
      PROVE  store[k] \in Refs /\ (store[k].cell = "cur" => Referred("cur"))
  BY DEF Refs, Referred
<1>8. ASSUME NEW i \in DOMAIN batch
      PROVE  batch[i].ref \in Refs /\ (batch[i].ref.cell = "cur" => Referred("cur"))
  BY DEF Refs, Deltas, Referred
<1>9. ASSUME NEW d \in Deltas'
      PROVE  \E q \in Refs : d.ref = Redirect(q, "cur", to) /\ (q.cell = "cur" => Referred("cur"))
  <2>1. CASE d \in Waits(fifo')
    BY <1>3, <1>7, <2>1
  <2>2. CASE d \in {batch'[i] : i \in DOMAIN batch'}
    BY <1>5, <1>8, <2>2
  <2> QED BY <1>1, <2>1, <2>2 DEF Deltas
<1>10. ASSUME NEW r \in Refs'
       PROVE  \E q \in Refs : r = Redirect(q, "cur", to) /\ (q.cell = "cur" => Referred("cur"))
  <2>1. CASE r \in {d.ref : d \in Deltas'}
    BY <1>9, <2>1
  <2>2. CASE r \in {store'[k] : k \in DOMAIN store'}
    BY <1>1, <1>7, <2>2
  <2> QED BY <2>1, <2>2 DEF Refs
<1> QED BY <1>3, <1>6, <1>10 DEF to

\* What the watchers are after a resync.
LEMMA ResyncLoops ==
  ASSUME Resync
  PROVE  /\ pc'["cur"] = "idle" /\ nameMap'["cur"] = NoNames /\ items'["cur"] = {}
         /\ left'["cur"] = {} /\ wf'["cur"] = None
         /\ Referred("cur") =>
              /\ pc'["old"] = pc["cur"] /\ nameMap'["old"] = nameMap["cur"]
              /\ items'["old"] = items["cur"] /\ left'["old"] = left["cur"] /\ wf'["old"] = wf["cur"]
         /\ ~Referred("cur") =>
              /\ pc'["old"] = "dead" /\ nameMap'["old"] = NoNames
              /\ items'["old"] = {} /\ left'["old"] = {} /\ wf'["old"] = None
<1>1. /\ pc' = [HandOver(pc, "dead") EXCEPT !["cur"] = "idle"]
      /\ nameMap' = [HandOver(nameMap, NoNames) EXCEPT !["cur"] = NoNames]
      /\ items' = HandOver(items, {}) /\ left' = HandOver(left, {}) /\ wf' = HandOver(wf, None)
  BY DEF Resync, ResyncWith
<1> QED BY <1>1 DEF HandOver, Watchers

\* The resync (reflector.go:308-330).
LEMMA ResyncTInv ==
  ASSUME TInv, Resync
  PROVE  TInv'
<1>0. BaseTypes /\ LoopTypes /\ PipeTypes /\ RefsLive /\ Sweeping /\ NamesKept
  BY TypeParts DEF TInv
<1>1. UNCHANGED <<NameOf, server, writes, known>> /\ ticked' \in BOOLEAN /\ pc["old"] = "dead"
  BY DEF Resync, ResyncWith
<1>2. LoopTypes'
  <2>1. NoNames \in [Names -> Object \cup {None}]
    BY DEF NoNames
  <2>2. /\ pc' = [HandOver(pc, "dead") EXCEPT !["cur"] = "idle"]
        /\ nameMap' = [HandOver(nameMap, NoNames) EXCEPT !["cur"] = NoNames]
        /\ items' = HandOver(items, {}) /\ listMap' = HandOver(listMap, {})
        /\ left' = HandOver(left, {}) /\ wf' = HandOver(wf, None)
    BY DEF Resync, ResyncWith
  <2>3. pc' \in [Watchers -> {"off", "dead", "idle", "loop", "send", "sweep", "report"}]
    BY <1>0, <2>2 DEF LoopTypes, HandOver, Watchers
  <2>4. nameMap' \in [Watchers -> [Names -> Object \cup {None}]]
    BY <1>0, <2>1, <2>2 DEF LoopTypes, HandOver, Watchers
  <2>5. items' \in [Watchers -> SUBSET Object]
    BY <1>0, <2>2 DEF LoopTypes, HandOver, Watchers
  <2>6. listMap' \in [Watchers -> SUBSET Names] /\ left' \in [Watchers -> SUBSET Names]
    BY <1>0, <2>2 DEF LoopTypes, HandOver, Watchers
  <2>7. wf' \in [Watchers -> Object \cup {None}]
    BY <1>0, <2>2 DEF LoopTypes, HandOver, Watchers
  <2> QED BY <2>3, <2>4, <2>5, <2>6, <2>7 DEF LoopTypes
<1>3. RefsLive'
  <2> SUFFICES ASSUME NEW r \in Refs' PROVE Live(r)'
    BY DEF RefsLive
  <2>1. PICK q \in Refs : r = Redirect(q, "cur", LoopVar("old")) /\ (q.cell = "cur" => Referred("cur"))
    BY ResyncRefs
  <2>2. Live(q) /\ q.cell # "old"
    BY <1>0, <1>1, Unreferred DEF RefsLive, Watchers
  <2>3. CASE q.cell = "cur"
    BY <2>1, <2>2, <2>3, ResyncLoops DEF Live, Redirect, LoopVar, Watchers
  <2>4. CASE q.cell # "cur"
    BY <2>1, <2>2, <2>4 DEF Live, Redirect, Watchers
  <2> QED BY <2>3, <2>4
<1>4. Sweeping'
  BY <1>0, <1>1, ResyncLoops DEF Sweeping, Watchers
<1>5. NamesKept'
  <2>1. \A n \in Names : NoNames[n] = None
    BY DEF NoNames
  <2> QED BY <1>0, <1>1, <2>1, ResyncLoops DEF NamesKept, Watchers
<1>6. BaseTypes' /\ PipeTypes' /\ Queued'
  BY <1>0, <1>1, ResyncRefs DEF BaseTypes, Queued
<1> QED BY <1>2, <1>3, <1>4, <1>5, <1>6, TypeParts DEF TInv

\* The server's writes.
LEMMA ServerTInv ==
  ASSUME TInv, NEW k \in Keys, Write(k) \/ Delete(k)
  PROVE  TInv'
<1>0. BaseTypes /\ LoopTypes /\ PipeTypes /\ RefsLive /\ Sweeping /\ NamesKept /\ Queued
  BY TypeParts DEF TInv
<1>1. /\ UNCHANGED <<NameOf, pc, nameMap, items, listMap, left, wf, ticked, recv, fifo, batch, store>>
      /\ server' = [server EXCEPT ![k] = writes'] \/ server' = [server EXCEPT ![k] = None]
      /\ writes' = writes + 1 /\ known' \subseteq known \cup {k}
  BY DEF Write, Delete, loopVars
<1>2. BaseTypes'
  BY <1>0, <1>1 DEF BaseTypes
<1>3. LoopTypes' /\ PipeTypes' /\ Sweeping' /\ NamesKept' /\ Queued'
  BY <1>0, <1>1 DEF LoopTypes, PipeTypes, Sweeping, NamesKept, NoNames, Queued
<1>4. RefsLive'
  BY <1>0, <1>1, SameRefs DEF RefsLive, Live
<1> QED BY <1>2, <1>3, <1>4, TypeParts DEF TInv

\* No pointer is around when the manager starts.
LEMMA InitTInv ==
  ASSUME Init
  PROVE  TInv /\ Refs = {}
<1>1. Refs = {}
  BY DEF Init, Refs, Deltas, Waits
<1>2. BaseTypes
  <2>1. NameOf \in [Keys -> Names] /\ ticked \in BOOLEAN
    BY WatchAssumption DEF Init
  <2>2. server \in [Keys -> Nat \cup {None}] /\ writes \in Nat /\ known \subseteq Keys
    BY DEF Init
  <2> QED BY <2>1, <2>2 DEF BaseTypes
<1>3. LoopTypes
  BY DEF Init, LoopTypes, NoNames, Watchers
<1>4. PipeTypes
  BY DEF Init, PipeTypes
<1>5. RefsLive /\ Queued
  BY <1>1 DEF RefsLive, Queued, Proper, Init
<1>6. Sweeping
  BY DEF Init, Sweeping, Watchers
<1>7. NamesKept
  BY DEF Init, NamesKept, NoNames, Watchers
<1> QED BY <1>1, <1>2, <1>3, <1>4, <1>5, <1>6, <1>7, TypeParts DEF TInv

\* Every step.
LEMMA NextTInv ==
  ASSUME TInv, [Next]_vars
  PROVE  TInv'
<1>1. ASSUME NEW w \in Watchers, WatcherNext(w) PROVE TInv'
  BY <1>1, LoopTInv, EndLoopTInv, SendTInv DEF WatcherNext
<1>2. ASSUME InformerNext PROVE TInv'
  BY <1>2, PipeTInv, ListTInv DEF InformerNext
<1>3. ASSUME UNCHANGED vars PROVE TInv'
  <2>1. /\ UNCHANGED <<NameOf, server, writes, known, loopVars, ticked>>
        /\ UNCHANGED <<recv, fifo, batch, store>>
    BY <1>3 DEF vars
  <2>2. PipeTypes' /\ Proper(fifo') /\ Refs' \subseteq Refs
    BY <2>1, SameRefs, TypeParts DEF TInv, Queued, PipeTypes
  <2> QED BY <2>1, <2>2, PipeStep
<1> QED BY <1>1, <1>2, <1>3, ServerTInv, ResyncTInv DEF Next, ServerNext

\* The delta queue and the store are keyed by namespace/name, and every pointer
\* in them points to a workflow, although the loop variable goes on changing
\* and a resync hands it over.
THEOREM TypeCorrect == Spec => []TypeOK
<1>1. Init => TInv
  BY InitTInv
<1>2. TInv /\ [Next]_vars => TInv'
  BY NextTInv
<1>3. TInv => TypeOK
  BY DEF TInv
<1> QED BY <1>1, <1>2, <1>3, PTL DEF Spec

-----------------------------------------------------------------------------
(* Whatever is around was on the server.                                   *)

\* A pointer points to a workflow that was on the server.
LEMMA ContentKnown ==
  ASSUME RefsLive, KnownOnly, NEW r \in Refs
  PROVE  KeyOf(r) \in known /\ Content(r) \in Object
<1>1. Live(r)
  BY DEF RefsLive
<1>2. Content(r) \in Object
  BY <1>1, LiveContent
<1>3. CASE r.cell = "none"
  BY <1>2, <1>3 DEF KnownOnly, KeyOf, Content
<1>4. CASE r.cell # "none"
  <2>1. r.cell \in Watchers /\ Content(r) = wf[r.cell] /\ wf[r.cell] # None
    BY <1>1, <1>2, <1>4, WatchAssumption DEF Live, Content
  <2> QED BY <1>2, <2>1 DEF KnownOnly, KeyOf
<1> QED BY <1>2, <1>3, <1>4

\* Steps of a loop that neither end it nor send.
LEMMA LoopKnown ==
  ASSUME TInv, KnownOnly, OnePerKey, NEW w \in Watchers,
         Tick(w) \/ TickFails(w) \/ NextItem(w) \/ NextName(w)
  PROVE  KnownOnly' /\ OnePerKey'
<1>0. BaseTypes /\ LoopTypes /\ Sweeping
  BY TypeParts DEF TInv
<1>1. /\ UNCHANGED <<NameOf, server, known, nameMap, fifo>> /\ Refs' = Refs
      /\ \A v \in Watchers \ {w} : items'[v] = items[v] /\ wf'[v] = wf[v]
  <2>1. UNCHANGED <<NameOf, server, known, nameMap, recv, fifo, batch, store>>
    BY DEF Tick, TickFails, NextItem, NextName
  <2>2. \A v \in Watchers \ {w} : items'[v] = items[v] /\ wf'[v] = wf[v]
    BY <1>0 DEF Tick, TickFails, NextItem, NextName, LoopTypes
  <2> QED BY <2>1, <2>2, SameRefs
<1>2. CASE Tick(w)
  <2>1. items'[w] = Listing /\ wf' = wf
    BY <1>0, <1>2 DEF Tick, LoopTypes
  <2>2. /\ \A o \in Listing : o.key \in known
        /\ \A o, p \in Listing : o.key = p.key => o = p
    BY <1>0, ListingTyped DEF KnownOnly, Object
  <2> QED BY <1>1, <2>1, <2>2 DEF KnownOnly, OnePerKey
<1>3. CASE TickFails(w)
  BY <1>1, <1>3 DEF KnownOnly, OnePerKey, TickFails
<1>4. CASE NextItem(w)
  <2>1. /\ items[w] # {} /\ items'[w] = items[w] \ {First(items[w])}
        /\ wf'[w] = First(items[w]) /\ items[w] \in SUBSET Object
    BY <1>0, <1>4 DEF NextItem, LoopTypes
  <2>2. First(items[w]) \in items[w]
    BY <2>1, FirstFacts
  <2> QED BY <1>1, <2>1, <2>2 DEF KnownOnly, OnePerKey
<1>5. CASE NextName(w)
  <2>1. PICK n \in left[w] : wf'[w] = nameMap[w][n]
    BY <1>0, <1>5 DEF NextName, LoopTypes
  <2>2. n \in Names /\ items' = items
    BY <1>0, <1>5 DEF LoopTypes, NextName
  <2> QED BY <1>1, <2>1, <2>2 DEF KnownOnly, OnePerKey
<1> QED BY <1>2, <1>3, <1>4, <1>5

\* The end of a loop.
LEMMA EndLoopKnown ==
  ASSUME TInv, KnownOnly, OnePerKey, NEW w \in Watchers,
         EndItems(w) \/ EndTick(w) \/ (w = "old" /\ Blocked)
  PROVE  KnownOnly' /\ OnePerKey'
<1>0. TypeOK /\ LoopTypes /\ PipeTypes /\ RefsLive
  BY TypeParts DEF TInv
<1>1. Freeze(w) /\ wf' = [wf EXCEPT ![w] = None] /\ UNCHANGED <<NameOf, server, known>>
  BY DEF EndItems, EndTick, Blocked
<1>2. /\ \A v \in Watchers : items'[v] = items[v] \/ items'[v] = {}
      /\ \A v \in Watchers : nameMap'[v] = nameMap[v] \/ nameMap'[v] = NoNames
      /\ \A v \in Watchers \ {w} : pc'[v] = pc[v]
  BY <1>0 DEF EndItems, EndTick, Blocked, LoopTypes
<1>3. \A v \in Watchers : wf'[v] = wf[v] \/ wf'[v] = None
  BY <1>0, <1>1 DEF LoopTypes
<1>4. ASSUME NEW r \in Refs', r.cell = "none" PROVE r.obj.key \in known
  <2>1. r \in Refs \/ (r.obj = wf[w] /\ \E q \in Refs : q.cell = w)
    BY <1>0, <1>1, <1>2, FrozenLive
  <2>2. ASSUME NEW q \in Refs, q.cell = w PROVE wf[w].key \in known
    <3>1. Content(q) = wf[w]
      BY <2>2 DEF Content, Watchers
    <3> QED BY <1>0, <3>1, ContentKnown DEF KeyOf
  <2> QED BY <1>4, <2>1, <2>2 DEF KnownOnly
<1>5. \A i \in DOMAIN fifo' : fifo'[i].id \in known
  BY <1>0, <1>1, FreezeFacts DEF KnownOnly
<1>6. \A n \in Names : NoNames[n] = None
  BY DEF NoNames
<1> QED BY <1>1, <1>2, <1>3, <1>4, <1>5, <1>6 DEF KnownOnly, OnePerKey

\* The events.
LEMMA SendKnown ==
  ASSUME TInv, KnownOnly, OnePerKey, SendItem \/ SendDeleted
  PROVE  KnownOnly' /\ OnePerKey'
<1>0. LoopTypes /\ Sweeping /\ BaseTypes
  BY TypeParts DEF TInv
<1>1. /\ UNCHANGED <<NameOf, server, known, items, wf, fifo, batch, store>>
      /\ recv'.ref = LoopVar("cur") /\ pc["cur"] \in {"send", "report"} /\ "cur" \in Watchers
  BY DEF SendItem, SendDeleted, Watchers
<1>2. wf["cur"] \in Object /\ wf["cur"] # None
  BY <1>0, <1>1, WatchAssumption DEF Sweeping
<1> DEFINE n == NameOf[wf["cur"].key]
<1>3. /\ nameMap' = [nameMap EXCEPT !["cur"][n] = wf["cur"]] \/ nameMap' = [nameMap EXCEPT !["cur"][n] = None]
      /\ n \in Names
  BY <1>0, <1>2 DEF SendItem, SendDeleted, BaseTypes, Object
<1> HIDE DEF n
<1>4. \A v \in Watchers, m \in Names : nameMap'[v][m] # None => nameMap'[v][m].key \in known
  BY <1>0, <1>1, <1>2, <1>3 DEF LoopTypes, KnownOnly
<1>5. Refs' \subseteq Refs \cup {LoopVar("cur")}
  BY <1>1 DEF Refs, Deltas
<1>6. \A r \in Refs' : r.cell = "none" => r.obj.key \in known
  BY <1>5 DEF KnownOnly, LoopVar
<1> QED BY <1>1, <1>4, <1>6 DEF KnownOnly, OnePerKey

\* The pipeline.
LEMMA PipeKnown ==
  ASSUME TInv, KnownOnly, OnePerKey, Receive \/ Pop \/ Process
  PROVE  KnownOnly' /\ OnePerKey'
<1>0. PipeTypes /\ RefsLive /\ Proper(fifo)
  BY TypeParts DEF TInv, Queued
<1>1. UNCHANGED <<NameOf, server, known, nameMap, items, wf>> /\ Refs' \subseteq Refs
  BY PipeTInv DEF loopVars
<1>2. \A i \in DOMAIN fifo' : fifo'[i].id \in known
  <2>1. CASE Receive
    <3>1. recv # None /\ (fifo' = fifo \/ fifo' = QueueAction(fifo, KeyOf(recv.ref), recv))
      BY <2>1 DEF Receive
    <3>2. recv \in Delta /\ recv.ref \in Refs /\ fifo \in Seq(Entry)
      BY <1>0, <3>1 DEF PipeTypes, Refs, Deltas
    <3>3. KeyOf(recv.ref) \in known /\ KeyOf(recv.ref) \in Keys
      BY <1>0, <3>2, ContentKnown, LiveContent DEF RefsLive
    <3>4. \A i \in DOMAIN fifo' : fifo'[i].id \in {fifo[j].id : j \in DOMAIN fifo} \cup {KeyOf(recv.ref)}
      BY <1>0, <3>1, <3>2, <3>3, QueueActionFacts
    <3> QED BY <3>3, <3>4 DEF KnownOnly
  <2>2. CASE Pop
    <3>1. \A i \in DOMAIN fifo' : i + 1 \in DOMAIN fifo /\ fifo'[i] = fifo[i + 1]
      BY <1>0, <2>2 DEF Pop, PipeTypes
    <3> QED BY <3>1 DEF KnownOnly
  <2>3. CASE Process
    BY <2>3 DEF Process, KnownOnly
  <2> QED BY <2>1, <2>2, <2>3
<1> QED BY <1>1, <1>2 DEF KnownOnly, OnePerKey

\* The initial list.
LEMMA ListKnown ==
  ASSUME TInv, KnownOnly, OnePerKey, List
  PROVE  KnownOnly' /\ OnePerKey'
<1>0. BaseTypes
  BY TypeParts DEF TInv
<1>1. UNCHANGED <<NameOf, server, known, nameMap, items, wf>>
  BY DEF List
<1>2. \A o \in Listing : o.key \in known
  BY <1>0, ListingTyped DEF KnownOnly, Object
<1>3. \A r \in Refs' : r.cell = "none" => r.obj.key \in known
  BY <1>2, ListTInv DEF KnownOnly, Plain
<1>4. \A i \in DOMAIN fifo' : fifo'[i].id \in known
  BY <1>2, ListTInv
<1> QED BY <1>1, <1>3, <1>4 DEF KnownOnly, OnePerKey

\* The resync.
LEMMA ResyncKnown ==
  ASSUME TInv, KnownOnly, OnePerKey, Resync
  PROVE  KnownOnly' /\ OnePerKey'
<1>0. RefsLive
  BY DEF TInv
<1>1. UNCHANGED <<NameOf, server, known>>
  BY DEF Resync, ResyncWith
<1>2. \A n \in Names : NoNames[n] = None
  BY DEF NoNames
<1>3. \A id \in StoreIds : id \in known
  BY <1>0, ContentKnown DEF StoreIds, Refs
<1>4. \A i \in DOMAIN fifo' : fifo'[i].id \in known
  BY <1>3, ResyncRefs
<1>5. \A r \in Refs' : r.cell = "none" => r.obj.key \in known
  BY ResyncRefs DEF KnownOnly, Redirect, LoopVar
<1>6. /\ \A w \in Watchers : \A o \in items'[w] : o.key \in known
      /\ \A w \in Watchers : wf'[w] # None => wf'[w].key \in known
      /\ \A w \in Watchers, n \in Names : nameMap'[w][n] # None => nameMap'[w][n].key \in known
  BY <1>2, ResyncLoops DEF KnownOnly, Watchers
<1>7. OnePerKey'
  BY ResyncLoops DEF OnePerKey, Watchers
<1> QED BY <1>1, <1>4, <1>5, <1>6, <1>7 DEF KnownOnly

\* Every step.
LEMMA NextKnown ==
  ASSUME TInv, KnownOnly, OnePerKey, [Next]_vars
  PROVE  KnownOnly' /\ OnePerKey' /\ known \subseteq known' /\ NameOf' = NameOf
<1>0. BaseTypes
  BY TypeParts DEF TInv
<1>1. ASSUME NEW w \in Watchers, WatcherNext(w) PROVE KnownOnly' /\ OnePerKey'
  BY <1>1, LoopKnown, EndLoopKnown, SendKnown DEF WatcherNext
<1>2. ASSUME InformerNext PROVE KnownOnly' /\ OnePerKey'
  BY <1>2, PipeKnown, ListKnown DEF InformerNext
<1>3. ASSUME UNCHANGED vars PROVE KnownOnly' /\ OnePerKey'
  BY <1>3, SameRefs DEF vars, loopVars, KnownOnly, OnePerKey
<1>4. ASSUME NEW k \in Keys, Write(k) \/ Delete(k) PROVE KnownOnly' /\ OnePerKey'
  <2>1. /\ UNCHANGED <<nameMap, items, wf, recv, fifo, batch, store>>
        /\ known \subseteq known' /\ \A j \in Keys : server'[j] # None => j \in known'
    BY <1>0, <1>4 DEF Write, Delete, loopVars, KnownOnly, BaseTypes
  <2> QED BY <2>1, SameRefs DEF KnownOnly, OnePerKey
<1>5. known \subseteq known' /\ NameOf' = NameOf
  <2>1. ASSUME NEW w \in Watchers, WatcherNext(w) PROVE UNCHANGED <<known, NameOf>>
    BY <2>1 DEF WatcherNext, Tick, TickFails, NextItem, NextName, EndItems, EndTick, Blocked,
                SendItem, SendDeleted
  <2>2. ASSUME InformerNext PROVE UNCHANGED <<known, NameOf>>
    BY <2>2 DEF InformerNext, List, Receive, Pop, Process
  <2>3. ASSUME Resync PROVE UNCHANGED <<known, NameOf>>
    BY <2>3 DEF Resync, ResyncWith
  <2>4. ASSUME ServerNext PROVE known \subseteq known' /\ NameOf' = NameOf
    BY <2>4 DEF ServerNext, Write, Delete
  <2> QED BY <2>1, <2>2, <2>3, <2>4 DEF Next, vars
<1> QED BY <1>1, <1>2, <1>3, <1>4, <1>5, ResyncKnown DEF Next, ServerNext

-----------------------------------------------------------------------------
(* With a single workflow nobody overwrites a variable that was given away. *)

\* With a single workflow there is one item, one name and one key.
LEMMA AloneFacts ==
  ASSUME TInv, KnownOnly, OnePerKey, Alone
  PROVE  /\ \A w \in Watchers : \A o, p \in items[w] : o = p
         /\ \A w \in Watchers, m, n \in Names :
              nameMap[w][m] # None /\ nameMap[w][n] # None => m = n
         /\ \A i, j \in DOMAIN fifo : i = j
         /\ \A q, r \in Refs : KeyOf(q) = KeyOf(r)
<1>1. RefsLive /\ NamesKept /\ Proper(fifo)
  BY DEF TInv, Queued
<1>2. \A w \in Watchers : \A o, p \in items[w] : o = p
  BY DEF KnownOnly, OnePerKey, Alone
<1>3. \A w \in Watchers, m, n \in Names : nameMap[w][m] # None /\ nameMap[w][n] # None => m = n
  BY <1>1 DEF NamesKept, KnownOnly, Alone
<1>4. \A i, j \in DOMAIN fifo : i = j
  BY <1>1 DEF Proper, KnownOnly, Alone
<1>5. \A q, r \in Refs : KeyOf(q) = KeyOf(r)
  BY <1>1, ContentKnown DEF Alone
<1> QED BY <1>2, <1>3, <1>4, <1>5

\* A watcher that the step leaves alone.
LEMMA OthersUntouched ==
  ASSUME NEW w \in Watchers, NEW v \in Watchers \ {w}, Others(w), UntouchedBy(v),
         \A r \in Refs' : r.cell = v => r \in Refs
  PROVE  UntouchedBy(v)'
BY DEF Others, UntouchedBy

\* A step of a watcher.
LEMMA WatcherUntouched ==
  ASSUME TInv, KnownOnly, OnePerKey, Alone, Untouched, NEW w \in Watchers, WatcherNext(w)
  PROVE  \A v \in Watchers : UntouchedBy(v)'
<1>0. LoopTypes /\ RefsLive /\ Sweeping /\ TypeOK /\ \A v \in Watchers : UntouchedBy(v)
  BY TypeParts DEF TInv, Untouched
<1>1. CASE Tick(w) \/ TickFails(w) \/ NextItem(w) \/ NextName(w)
  <2>1. UNCHANGED <<recv, fifo, batch, store>> /\ Others(w)
    BY <1>0, <1>1 DEF Tick, TickFails, NextItem, NextName, Others, LoopTypes
  <2>2. Refs' = Refs
    BY <2>1, SameRefs
  <2>3. UntouchedBy(w)'
    <3>1. CASE Tick(w) \/ TickFails(w)
      <4>1. pc[w] = "idle" /\ pc'[w] \in {"loop", "dead"}
        BY <1>0, <3>1 DEF Tick, TickFails, LoopTypes
      <4>2. \A r \in Refs : r.cell # w
        BY <1>0, <4>1, Unreferred
      <4> QED BY <2>2, <4>1, <4>2 DEF UntouchedBy
    <3>2. CASE NextItem(w)
      <4>1. /\ pc[w] = "loop" /\ items[w] # {} /\ pc'[w] \in {"loop", "send"}
            /\ items'[w] = items[w] \ {First(items[w])} /\ items[w] \in SUBSET Object
        BY <1>0, <3>2 DEF NextItem, LoopTypes
      <4>2. items'[w] = {}
        BY <4>1, FirstFacts, AloneFacts
      <4> QED BY <1>0, <2>2, <4>1, <4>2 DEF UntouchedBy
    <3>3. CASE NextName(w)
      <4>1. PICK n \in left[w] : left'[w] = left[w] \ {n}
        BY <1>0, <3>3 DEF NextName, LoopTypes
      <4>2. pc[w] = "sweep" /\ pc'[w] \in {"sweep", "report"}
        BY <1>0, <3>3 DEF NextName, LoopTypes
      <4>3. left[w] \subseteq Names /\ \A m \in left[w] : nameMap[w][m] # None
        BY <1>0, <4>2 DEF Sweeping, LoopTypes
      <4>4. left'[w] = {}
        BY <4>1, <4>3, AloneFacts
      <4> QED BY <1>0, <2>2, <4>1, <4>2, <4>4 DEF UntouchedBy
    <3> QED BY <1>1, <3>1, <3>2, <3>3
  <2> QED BY <1>0, <2>1, <2>2, <2>3, OthersUntouched
<1>2. CASE EndItems(w) \/ EndTick(w) \/ (w = "old" /\ Blocked)
  <2>1. Freeze(w) /\ wf' = [wf EXCEPT ![w] = None] /\ Others(w) /\ pc'[w] \in {"sweep", "idle", "dead"}
    BY <1>0, <1>2 DEF EndItems, EndTick, Blocked, Others, LoopTypes
  <2>2. /\ \A r \in Refs' : r.cell # w
        /\ \A r \in Refs' : r \in Refs \/ r.cell = "none"
    BY <1>0, <2>1, FrozenLive DEF Others
  <2>3. UntouchedBy(w)'
    BY <2>1, <2>2 DEF UntouchedBy
  <2>4. "none" \notin Watchers
    BY DEF Watchers
  <2> QED BY <1>0, <2>1, <2>2, <2>3, <2>4, OthersUntouched
<1>3. CASE w = "cur" /\ (SendItem \/ SendDeleted)
  <2>1. Others(w) /\ Refs' \subseteq Refs \cup {LoopVar(w)}
    <3>1. UNCHANGED <<items, left, wf, fifo, batch, store>> /\ recv'.ref = LoopVar(w)
      BY <1>3 DEF SendItem, SendDeleted
    <3>2. Others(w)
      BY <1>0, <1>3, <3>1 DEF SendItem, SendDeleted, Others, LoopTypes
    <3> QED BY <3>1, <3>2 DEF Refs, Deltas
  <2>2. UntouchedBy(w)'
    <3>1. \/ pc[w] = "send" /\ pc'[w] = "loop" /\ items' = items
          \/ pc[w] = "report" /\ pc'[w] = "sweep" /\ left' = left
      BY <1>0, <1>3 DEF SendItem, SendDeleted, LoopTypes
    <3> QED BY <1>0, <3>1 DEF UntouchedBy
  <2> QED BY <1>0, <2>1, <2>2, OthersUntouched DEF LoopVar
<1> QED BY <1>1, <1>2, <1>3 DEF WatcherNext

\* Every step.
LEMMA NextUntouched ==
  ASSUME TInv, KnownOnly, OnePerKey, Untouched, [Next]_vars
  PROVE  Untouched'
<1> SUFFICES ASSUME Alone' PROVE \A v \in Watchers : UntouchedBy(v)'
  BY DEF Untouched
<1>0. Alone
  BY NextKnown DEF Alone
<1>1. RefsLive /\ LoopTypes /\ \A v \in Watchers : UntouchedBy(v)
  BY <1>0, TypeParts DEF TInv, Untouched
<1>2. ASSUME UNCHANGED <<pc, items, left>>, Refs' \subseteq Refs
      PROVE  \A v \in Watchers : UntouchedBy(v)'
  BY <1>1, <1>2 DEF UntouchedBy
<1>3. CASE ServerNext \/ UNCHANGED vars
  <2>1. UNCHANGED <<pc, items, left>> /\ UNCHANGED <<recv, fifo, batch, store>>
    BY <1>3 DEF ServerNext, Write, Delete, vars, loopVars
  <2> QED BY <1>2, <2>1, SameRefs
<1>4. CASE Receive \/ Pop \/ Process
  BY <1>2, <1>4, PipeTInv DEF loopVars
<1>5. CASE List
  <2>1. pc["cur"] = "off" /\ pc' = [pc EXCEPT !["cur"] = "idle"] /\ UNCHANGED <<items, left>>
    BY <1>5 DEF List
  <2>2. \A r \in Refs : r.cell # "cur"
    BY <1>1, <2>1, Unreferred DEF Watchers
  <2>3. \A r \in Refs' : r \in Refs \/ r.cell = "none"
    BY <1>5, ListTInv DEF Plain
  <2> QED BY <1>1, <2>1, <2>2, <2>3 DEF UntouchedBy, LoopTypes, Watchers
<1>6. CASE Resync
  <2>1. pc["old"] = "dead"
    BY <1>6 DEF Resync, ResyncWith
  <2>2. \A r \in Refs : r.cell # "old"
    BY <1>1, <2>1, Unreferred DEF Watchers
  <2>3. ASSUME NEW r \in Refs' PROVE r.cell # "cur" /\ (r.cell = "old" => Referred("cur"))
    BY <1>6, <2>2, ResyncRefs DEF Redirect, LoopVar
  <2>4. Referred("cur") => \E r \in Refs : r.cell = "cur"
    BY DEF Referred, Refs, Deltas
  <2>5. UntouchedBy("cur")'
    BY <1>6, <2>3, ResyncLoops DEF UntouchedBy
  <2>6. UntouchedBy("old")'
    BY <1>1, <1>6, <2>3, <2>4, ResyncLoops DEF UntouchedBy, Watchers
  <2> QED BY <2>5, <2>6 DEF Watchers
<1>7. CASE \E w \in Watchers : WatcherNext(w)
  BY <1>0, <1>7, WatcherUntouched
<1> QED BY <1>3, <1>4, <1>5, <1>6, <1>7 DEF Next, InformerNext

-----------------------------------------------------------------------------
(* With a single workflow nameMap is what the store was told.              *)

\* Something is under way unless the pipeline is empty.
LEMMA NewestFacts ==
  ASSUME TInv
  PROVE  /\ Newest = None <=> recv = None /\ fifo = <<>> /\ batch = <<>>
         /\ Newest # None => Newest \in Deltas /\ Newest.ref \in Refs
<1>0. PipeTypes /\ Proper(fifo) /\ Deltas \subseteq Delta /\ None \notin Delta
  BY TypeParts, RefsTyped, WatchAssumption DEF TInv, Queued
<1>1. CASE recv # None
  BY <1>1 DEF Newest, Deltas, Refs
<1>2. CASE recv = None /\ fifo # <<>>
  <2>1. 1 \in DOMAIN fifo
    BY <1>0, <1>2 DEF PipeTypes
  <2> DEFINE ds == fifo[1].deltas
  <2>2. ds \in Seq(Delta) /\ ds # <<>>
    BY <1>0, <2>1, EntryTyped DEF Proper
  <2>3. Len(ds) \in DOMAIN ds
    BY <2>2
  <2>4. Newest = ds[Len(ds)]
    BY <1>2 DEF Newest
  <2>5. Newest \in Deltas
    BY <2>1, <2>3, <2>4 DEF Deltas, Waits
  <2> QED BY <1>0, <1>2, <2>5 DEF Refs
<1>3. CASE recv = None /\ fifo = <<>> /\ batch # <<>>
  <2>1. Len(batch) \in DOMAIN batch /\ Newest = batch[Len(batch)]
    BY <1>0, <1>3 DEF PipeTypes, Newest
  <2>2. Newest \in Deltas
    BY <2>1 DEF Deltas
  <2> QED BY <1>0, <1>3, <2>2 DEF Refs
<1>4. CASE recv = None /\ fifo = <<>> /\ batch = <<>>
  BY <1>4 DEF Newest
<1> QED BY <1>1, <1>2, <1>3, <1>4

\* Told, if it is given what a pointer points to after the step.
LEMMA ToldAfter ==
  ASSUME NameOf' = NameOf,
         \A k \in known' : LET seen == nameMap'["cur"][NameOf[k]] IN
           seen # None =>
             IF Newest' # None
             THEN Newest'.type # "Deleted" /\ Points(Newest'.ref, wf') = seen
             ELSE k \in DOMAIN store' /\ Points(store'[k], wf') = seen
  PROVE  Told'
BY DEF Told, Content, Points

\* A loop that goes on.
LEMMA LoopTold ==
  ASSUME WInv, Alone, NEW w \in Watchers, Tick(w) \/ TickFails(w) \/ NextItem(w) \/ NextName(w)
  PROVE  Told'
<1>0. LoopTypes /\ RefsLive /\ TInv /\ Told /\ UntouchedBy(w)
  BY TypeParts DEF TInv, WInv, Untouched
<1>1. UNCHANGED <<NameOf, known, nameMap, recv, fifo, batch, store>>
  BY DEF Tick, TickFails, NextItem, NextName
<1>2. ASSUME NEW r \in Refs PROVE Points(r, wf') = Content(r)
  <2>1. CASE Tick(w) \/ TickFails(w)
    BY <2>1 DEF Tick, TickFails, Points, Content
  <2>2. CASE NextItem(w) \/ NextName(w)
    <3>1. \/ pc[w] = "loop" /\ items[w] # {}
          \/ pc[w] = "sweep" /\ left[w] # {}
      BY <2>2 DEF NextItem, NextName
    <3>2. r.cell # w
      BY <1>0, <3>1 DEF UntouchedBy
    <3>3. \A v \in Watchers \ {w} : wf'[v] = wf[v]
      BY <1>0, <2>2 DEF NextItem, NextName, LoopTypes
    <3>4. Live(r)
      BY <1>0 DEF RefsLive
    <3> QED BY <3>2, <3>3, <3>4 DEF Points, Content, Live
  <2> QED BY <2>1, <2>2
<1>3. Newest' = Newest
  BY <1>1 DEF Newest
<1>4. \A k \in DOMAIN store : store[k] \in Refs
  BY DEF Refs
<1>5. Newest # None => Newest.ref \in Refs
  BY <1>0, NewestFacts
<1> QED BY <1>0, <1>1, <1>2, <1>3, <1>4, <1>5, ToldAfter DEF Told

\* The end of a loop redirects the pointers and keeps what they point to.
LEMMA NewestFrozen ==
  ASSUME TInv, NEW w \in Watchers, Freeze(w)
  PROVE  /\ Newest' = None <=> Newest = None
         /\ Newest # None => /\ Newest'.type = Newest.type
                             /\ Newest'.ref = Redirect(Newest.ref, w, Plain(wf[w]))
<1> DEFINE to == Plain(wf[w])
<1>0. PipeTypes /\ LoopTypes /\ Proper(fifo) /\ to \in Ref
  BY TypeParts DEF TInv, Queued, LoopTypes, Plain, Ref
<1>1. /\ PipeTypes' /\ (recv = None <=> recv' = None)
      /\ recv # None => recv'.type = recv.type /\ recv'.ref = Redirect(recv.ref, w, to)
      /\ DOMAIN fifo' = DOMAIN fifo /\ Len(fifo') = Len(fifo)
      /\ \A i \in DOMAIN fifo : fifo'[i].deltas = RedirectDeltas(fifo[i].deltas, w, to)
      /\ batch' = RedirectDeltas(batch, w, to)
  BY <1>0, FreezeFacts
<1> HIDE DEF to
<1>2. fifo = <<>> <=> fifo' = <<>>
  BY <1>0, <1>1 DEF PipeTypes
<1>3. batch \in Seq(Delta) /\ batch' \in Seq(Delta) /\ Len(batch') = Len(batch)
  BY <1>0, <1>1, RedirectFacts DEF PipeTypes
<1>4. batch = <<>> <=> batch' = <<>>
  BY <1>3
<1>5. CASE recv # None
  BY <1>1, <1>5 DEF Newest, to
<1>6. CASE recv = None /\ fifo # <<>>
  <2> DEFINE ds == fifo[1].deltas
             es == fifo'[1].deltas
  <2>1. 1 \in DOMAIN fifo
    BY <1>0, <1>6 DEF PipeTypes
  <2>2. ds \in Seq(Delta) /\ ds # <<>> /\ es = RedirectDeltas(ds, w, to)
    BY <1>0, <1>1, <2>1, EntryTyped DEF Proper
  <2>3. Newest = ds[Len(ds)] /\ Newest' = es[Len(es)]
    BY <1>1, <1>2, <1>6 DEF Newest
  <2> HIDE DEF ds, es
  <2>4. Len(ds) \in DOMAIN ds /\ Len(es) = Len(ds)
    BY <1>0, <2>2, RedirectFacts
  <2>5. Newest'.type = Newest.type /\ Newest'.ref = Redirect(Newest.ref, w, to)
    BY <1>0, <2>2, <2>3, <2>4, RedirectFacts
  <2>6. Newest \in Delta /\ Newest' \in Delta
    BY <1>0, <2>2, <2>3, <2>4, RedirectFacts
  <2> QED BY <2>5, <2>6, WatchAssumption DEF to
<1>7. CASE recv = None /\ fifo = <<>> /\ batch # <<>>
  <2>1. Newest = batch[Len(batch)] /\ Newest' = batch'[Len(batch')]
    BY <1>1, <1>2, <1>4, <1>7 DEF Newest
  <2>2. Len(batch) \in DOMAIN batch
    BY <1>3, <1>7
  <2>3. Newest'.type = Newest.type /\ Newest'.ref = Redirect(Newest.ref, w, to)
    BY <1>0, <1>1, <1>3, <2>1, <2>2, RedirectFacts
  <2>4. Newest \in Delta /\ Newest' \in Delta
    BY <1>3, <2>1, <2>2
  <2> QED BY <2>3, <2>4, WatchAssumption DEF to
<1>8. CASE recv = None /\ fifo = <<>> /\ batch = <<>>
  BY <1>1, <1>2, <1>4, <1>8 DEF Newest
<1> QED BY <1>5, <1>6, <1>7, <1>8

\* The end of a loop.
LEMMA EndLoopTold ==
  ASSUME WInv, Alone, NEW w \in Watchers, EndItems(w) \/ EndTick(w) \/ (w = "old" /\ Blocked)
  PROVE  Told'
<1>0. LoopTypes /\ PipeTypes /\ RefsLive /\ TInv /\ Told
  BY TypeParts DEF TInv, WInv
<1>1. /\ Freeze(w) /\ wf' = [wf EXCEPT ![w] = None] /\ UNCHANGED <<NameOf, known>>
      /\ nameMap'["cur"] = nameMap["cur"]
  BY <1>0 DEF EndItems, EndTick, Blocked, LoopTypes, Watchers
<1>2. \A r \in Refs : Points(Redirect(r, w, Plain(wf[w])), wf') = Content(r)
  BY <1>0, <1>1, FrozenContent DEF RefsLive
<1>3. /\ DOMAIN store' = DOMAIN store
      /\ \A k \in DOMAIN store : store'[k] = Redirect(store[k], w, Plain(wf[w])) /\ store[k] \in Refs
  BY <1>0, <1>1, FreezeFacts DEF Refs
<1>4. /\ Newest' = None <=> Newest = None
      /\ Newest # None => /\ Newest'.type = Newest.type /\ Newest.ref \in Refs
                          /\ Newest'.ref = Redirect(Newest.ref, w, Plain(wf[w]))
  BY <1>0, <1>1, NewestFrozen, NewestFacts
<1> QED BY <1>0, <1>1, <1>2, <1>3, <1>4, ToldAfter DEF Told

\* An event, and the entry of nameMap that goes with it.
LEMMA SendTold ==
  ASSUME WInv, Alone, SendItem \/ SendDeleted
  PROVE  Told'
<1>0. LoopTypes /\ BaseTypes /\ Sweeping /\ KnownOnly
  BY TypeParts DEF TInv, WInv
<1>1. /\ UNCHANGED <<NameOf, known, wf>> /\ "cur" \in Watchers /\ pc["cur"] \in {"send", "report"}
      /\ recv' = [type |-> recv'.type, ref |-> LoopVar("cur")]
  BY DEF SendItem, SendDeleted, Watchers
<1>2. wf["cur"] \in Object /\ wf["cur"] # None
  BY <1>0, <1>1, WatchAssumption DEF Sweeping
<1>3. \A k \in known : k = wf["cur"].key
  BY <1>0, <1>1, <1>2 DEF KnownOnly, Alone
<1> DEFINE n == NameOf[wf["cur"].key]
<1>4. n \in Names
  BY <1>0, <1>2 DEF BaseTypes, Object
<1>5. CASE SendItem
  <2>1. /\ nameMap' = [nameMap EXCEPT !["cur"][n] = wf["cur"]]
        /\ recv'.type \in {"Added", "Modified"} /\ recv'.ref = LoopVar("cur") /\ recv' \in Delta
    BY <1>1, <1>5 DEF SendItem, Delta, Ref, LoopVar
  <2> HIDE DEF n
  <2>2. nameMap'["cur"][n] = wf["cur"]
    BY <1>0, <1>1, <1>4, <2>1 DEF LoopTypes
  <2>3. Newest' = recv' /\ Newest' # None
    BY <2>1, WatchAssumption DEF Newest
  <2>4. Points(Newest'.ref, wf') = wf["cur"]
    BY <1>1, <2>1, <2>3 DEF Points, LoopVar
  <2> QED BY <1>1, <1>3, <2>1, <2>2, <2>3, <2>4, ToldAfter DEF n
<1>6. CASE SendDeleted
  <2>1. nameMap' = [nameMap EXCEPT !["cur"][n] = None]
    BY <1>6 DEF SendDeleted
  <2> HIDE DEF n
  <2>2. nameMap'["cur"][n] = None
    BY <1>0, <1>1, <1>4, <2>1 DEF LoopTypes
  <2> QED BY <1>1, <1>3, <2>2, ToldAfter DEF n
<1> QED BY <1>5, <1>6

\* A delta that is no deletion, queued into a queue of at most its own key, is
\* the last of that key.
LEMMA QueuedLast ==
  ASSUME NEW q \in Seq(Entry), NEW id \in Keys, NEW delta \in Delta, delta.type # "Deleted",
         \A i \in DOMAIN q : q[i].id = id, \A i, j \in DOMAIN q : i = j
  PROVE  LET p == QueueAction(q, id, delta) IN
         p # <<>> /\ p[1].deltas[Len(p[1].deltas)] = delta
<1> DEFINE p == QueueAction(q, id, delta)
           at == {i \in DOMAIN q : q[i].id = id}
           e == [id |-> id, deltas |-> <<delta>>]
<1>0. DOMAIN q = 1..Len(q) /\ Len(q) \in Nat
  OBVIOUS
<1>1. CASE at = {}
  <2>1. p = Append(q, e) /\ q = <<>>
    BY <1>0, <1>1 DEF QueueAction
  <2>2. e.deltas = <<delta>> /\ e \in Entry
    BY DEF Entry
  <2> HIDE DEF e
  <2>3. p[1] = e /\ p # <<>>
    BY <2>1, <2>2
  <2> HIDE DEF p
  <2>4. p[1].deltas = <<delta>>
    BY <2>2, <2>3
  <2>5. <<delta>>[Len(<<delta>>)] = delta
    OBVIOUS
  <2> QED BY <2>3, <2>4, <2>5 DEF p
<1>2. CASE at # {}
  <2> DEFINE k == CHOOSE j \in at : TRUE
  <2>1. k \in at
    BY <1>2
  <2>2. p = [q EXCEPT ![k].deltas = Append(q[k].deltas, delta)]
    BY <1>2 DEF QueueAction
  <2>3. k \in DOMAIN q
    BY <2>1
  <2>4. k = 1
    BY <1>0, <2>3
  <2> HIDE DEF k, p
  <2>5. q[1] \in Entry
    BY <2>3, <2>4
  <2>6. q[1].deltas \in Seq(Delta)
    BY <2>5 DEF Entry
  <2>7. p[1] = [q[1] EXCEPT !.deltas = Append(q[1].deltas, delta)] /\ DOMAIN p = DOMAIN q
    BY <2>2, <2>3, <2>4
  <2>8. p[1].deltas = Append(q[1].deltas, delta)
    BY <2>5, <2>7 DEF Entry
  <2>9. Len(Append(q[1].deltas, delta)) = Len(q[1].deltas) + 1
        /\ Append(q[1].deltas, delta)[Len(q[1].deltas) + 1] = delta
    BY <2>6
  <2>10. p # <<>>
    BY <2>3, <2>4, <2>7
  <2> QED BY <2>8, <2>9, <2>10 DEF p
<1> QED BY <1>1, <1>2

\* The reflector and the informer move the last delta on, up to the store.
LEMMA PipeTold ==
  ASSUME WInv, Alone, Receive \/ Pop \/ Process
  PROVE  Told'
<1>0. TInv /\ PipeTypes /\ RefsLive /\ Told /\ KnownOnly /\ OnePerKey /\ Proper(fifo)
  BY TypeParts DEF TInv, WInv, Queued
<1>1. UNCHANGED <<NameOf, known, nameMap, wf>>
  BY <1>0, PipeTInv DEF loopVars
<1> SUFFICES ASSUME NEW k \in known, nameMap["cur"][NameOf[k]] # None
             PROVE  IF Newest' # None
                    THEN Newest'.type # "Deleted" /\ Content(Newest.ref)' = nameMap["cur"][NameOf[k]]
                    ELSE k \in DOMAIN store' /\ Content(store[k])' = nameMap["cur"][NameOf[k]]
  BY <1>1 DEF Told
<1> DEFINE seen == nameMap["cur"][NameOf[k]]
<1>2. \A r : Points(r, wf') = Content(r)
  BY <1>1 DEF Points, Content
<1>3. Newest # None => Newest.type # "Deleted" /\ Content(Newest.ref) = seen /\ Newest \in Delta
  BY <1>0, NewestFacts, RefsTyped DEF Told
<1>4. Newest = None => k \in DOMAIN store /\ Content(store[k]) = seen
  BY <1>0 DEF Told
<1>5. Content(Newest.ref)' = Points(Newest'.ref, wf') /\ Content(store[k])' = Points(store'[k], wf')
  BY DEF Content, Points
<1>6. \A i, j \in DOMAIN fifo : i = j
  BY <1>0, AloneFacts
<1> HIDE DEF seen
<1>7. ASSUME Newest # None, Newest' = Newest
      PROVE  Newest' # None /\ Newest'.type # "Deleted" /\ Points(Newest'.ref, wf') = seen
  BY <1>2, <1>3, <1>7
<1>8. CASE Receive
  <2>1. recv # None /\ recv' = None /\ Newest = recv
    BY <1>8 DEF Receive, Newest
  <2>2. recv \in Delta /\ recv.ref \in Refs /\ recv.type # "Deleted"
    BY <1>3, <2>1 DEF Refs, Deltas
  <2>3. fifo' = QueueAction(fifo, KeyOf(recv.ref), recv)
    BY <1>8, <2>2 DEF Receive
  <2>4. KeyOf(recv.ref) \in known /\ KeyOf(recv.ref) \in Keys
    BY <1>0, <2>2, ContentKnown, LiveContent DEF RefsLive
  <2>5. \A i \in DOMAIN fifo : fifo[i].id = KeyOf(recv.ref)
    BY <1>0, <2>4 DEF KnownOnly, Alone
  <2>6. fifo' # <<>> /\ fifo'[1].deltas[Len(fifo'[1].deltas)] = recv
    BY <1>0, <1>6, <2>2, <2>3, <2>4, <2>5, QueuedLast DEF PipeTypes
  <2>7. Newest' = Newest
    BY <2>1, <2>6 DEF Newest
  <2> QED BY <1>5, <1>7, <2>1, <2>7 DEF seen
<1>9. CASE Pop
  <2>1. fifo # <<>> /\ batch' = Head(fifo).deltas /\ fifo' = Tail(fifo) /\ UNCHANGED <<recv, store>>
    BY <1>9 DEF Pop
  <2>2. 1 \in DOMAIN fifo /\ Head(fifo) = fifo[1] /\ fifo \in Seq(Entry)
    BY <1>0, <2>1 DEF PipeTypes
  <2>3. Len(fifo) = 1
    <3>1. Len(fifo) \in DOMAIN fifo
      BY <2>1, <2>2
    <3> QED BY <1>6, <2>2, <3>1
  <2>4. fifo' = <<>>
    BY <2>1, <2>2, <2>3
  <2>5. batch' = fifo[1].deltas /\ batch' # <<>>
    BY <1>0, <2>1, <2>2 DEF Proper
  <2>6. Newest' = Newest
    BY <2>1, <2>4, <2>5 DEF Newest
  <2>7. Newest # None
    BY <1>0, <2>1, NewestFacts
  <2> QED BY <1>5, <1>7, <2>6, <2>7 DEF seen
<1>10. CASE Process
  <2>1. batch # <<>> /\ batch' = Tail(batch) /\ UNCHANGED <<recv, fifo>> /\ batch \in Seq(Delta)
    BY <1>0, <1>10 DEF Process, PipeTypes
  <2>2. Newest # None
    BY <1>0, <2>1, NewestFacts
  <2>3. CASE recv # None \/ fifo # <<>> \/ Len(batch) # 1
    <3>1. ASSUME Len(batch) # 1
          PROVE  batch' # <<>> /\ batch'[Len(batch')] = batch[Len(batch)]
      <4>0. Len(batch) \in Nat /\ Len(batch) # 0
        BY <2>1, EmptySeq
      <4>1. Len(batch) > 1
        <5>1. \A n \in Nat : n # 0 /\ n # 1 => n > 1
          OBVIOUS
        <5> QED BY <3>1, <4>0, <5>1
      <4>2. /\ batch' \in Seq(Delta) /\ Len(batch') = Len(batch) - 1
            /\ \A i \in 1..(Len(batch) - 1) : batch'[i] = batch[i + 1]
        BY <2>1
      <4>3. Len(batch) - 1 \in 1..(Len(batch) - 1) /\ (Len(batch) - 1) + 1 = Len(batch)
        BY <4>0, <4>1
      <4>4. batch'[Len(batch')] = batch[Len(batch)]
        BY <4>2, <4>3
      <4> QED BY <4>0, <4>1, <4>2, <4>4
    <3>2. Newest' = Newest
      BY <2>1, <2>3, <3>1 DEF Newest
    <3> QED BY <1>5, <1>7, <2>2, <3>2 DEF seen
  <2>4. CASE recv = None /\ fifo = <<>> /\ Len(batch) = 1
    <3> DEFINE d == batch[1]
    <3>1. batch' = <<>> /\ Head(batch) = d /\ Newest = d
      BY <2>1, <2>4 DEF Newest
    <3>2. Newest' = None
      BY <2>1, <2>4, <3>1 DEF Newest
    <3>3. d.type # "Deleted" /\ Content(d.ref) = seen /\ d.ref \in Refs
      BY <1>0, <1>3, <2>2, <3>1, NewestFacts
    <3> HIDE DEF d
    <3>4. KeyOf(d.ref) = k
      BY <1>0, <3>3, ContentKnown DEF Alone
    <3>5. store' = [j \in DOMAIN store \cup {k} |-> IF j = k THEN d.ref ELSE store[j]]
      BY <1>10, <3>1, <3>3, <3>4 DEF Process
    <3>6. k \in DOMAIN store' /\ store'[k] = d.ref
      BY <3>5
    <3> QED BY <1>2, <1>5, <3>2, <3>3, <3>6 DEF seen
  <2> QED BY <2>3, <2>4
<1> QED BY <1>8, <1>9, <1>10

\* Every step.
LEMMA NextTold ==
  ASSUME WInv, [Next]_vars
  PROVE  Told'
<1>0. TInv /\ KnownOnly /\ OnePerKey /\ Told /\ LoopTypes /\ NamesKept
  BY TypeParts DEF WInv, TInv
<1> SUFFICES ASSUME Alone' PROVE Told'
  BY DEF Told
<1>1. Alone /\ NameOf' = NameOf /\ known \subseteq known'
  BY <1>0, NextKnown DEF Alone
<1>2. CASE \E w \in Watchers : WatcherNext(w)
  BY <1>1, <1>2, LoopTold, EndLoopTold, SendTold DEF WatcherNext
<1>3. CASE Receive \/ Pop \/ Process
  BY <1>1, <1>3, PipeTold
<1>4. CASE List \/ Resync
  <2>1. nameMap'["cur"] = NoNames
    BY <1>0, <1>4, ResyncLoops DEF List, NamesKept
  <2>2. \A n \in Names : NoNames[n] = None
    BY DEF NoNames
  <2>3. \A k \in known' : NameOf[k] \in Names
    <3>1. TInv'
      BY <1>0, NextTInv
    <3> QED BY <1>1, <3>1, TypeParts DEF TInv, BaseTypes
  <2> QED BY <1>1, <2>1, <2>2, <2>3, ToldAfter
<1>5. CASE ServerNext \/ UNCHANGED vars
  <2>1. UNCHANGED <<nameMap, wf, recv, fifo, batch, store>>
    BY <1>5 DEF ServerNext, Write, Delete, vars, loopVars
  <2>2. Newest' = Newest /\ \A r : Points(r, wf') = Content(r)
    BY <2>1 DEF Newest, Points, Content
  <2>3. ASSUME NEW k \in known', nameMap["cur"][NameOf[k]] # None PROVE k \in known
    <3>1. NameOf[k] \in Names /\ "cur" \in Watchers
      <4>1. TInv'
        BY <1>0, NextTInv
      <4> QED BY <1>1, <4>1, TypeParts DEF TInv, BaseTypes, Watchers
    <3>2. nameMap["cur"][NameOf[k]].key \in known
      BY <1>0, <2>3, <3>1 DEF KnownOnly
    <3> QED BY <1>1, <3>2 DEF Alone
  <2> QED BY <1>0, <1>1, <2>1, <2>2, <2>3, ToldAfter DEF Told
<1> QED BY <1>2, <1>3, <1>4, <1>5 DEF Next, InformerNext

\* At most one workflow ever: all keys that were on the server are equal.
LEMMA LoneAlone ==
  ASSUME TypeOK, Lone
  PROVE  Alone
<1>1. IsFiniteSet(known)
  <2>1. known \subseteq Keys
    BY DEF TypeOK
  <2> QED BY <2>1, FS_Subset, WatchAssumption
<1>2. Cardinality(known) \in Nat /\ Cardinality(known) <= 1
  BY <1>1, FS_CardinalityType DEF Lone
<1>3. CASE Cardinality(known) = 0
  BY <1>1, <1>3, FS_EmptySet DEF Alone
<1>4. CASE Cardinality(known) = 1
  <2>1. PICK x : known = {x}
    BY <1>1, <1>4, FS_Singleton
  <2> QED BY <2>1 DEF Alone
<1> QED BY <1>2, <1>3, <1>4

\* The watcher's nameMap is what the store was told, as long as there was never
\* more than one workflow: a resync may overtake a delta and the loop variable
\* may be shared between queue, batch and store, but once the pipeline is empty
\* the store holds what the watcher will compare the next list with
\* (workflows.go:176-204).
THEOREM LoneAgreesHolds == Spec => []LoneAgrees
<1>1. Init => WInv
  <2> SUFFICES ASSUME Init PROVE WInv
    OBVIOUS
  <2>1. TInv /\ Refs = {}
    BY InitTInv
  <2>2. KnownOnly
    BY <2>1 DEF Init, KnownOnly, NoNames
  <2>3. OnePerKey /\ Untouched
    BY <2>1 DEF Init, OnePerKey, Untouched, UntouchedBy, Watchers
  <2>4. \A k \in known : nameMap["cur"][NameOf[k]] = None
    <3>1. \A k \in known : NameOf[k] \in Names
      BY <2>1, TypeParts DEF TInv, BaseTypes
    <3> QED BY <3>1 DEF Init, NoNames, Watchers
  <2>5. Told
    BY <2>4 DEF Told
  <2> QED BY <2>1, <2>2, <2>3, <2>5 DEF WInv
<1>2. WInv /\ [Next]_vars => WInv'
  BY NextTInv, NextKnown, NextUntouched, NextTold DEF WInv
<1>3. WInv => LoneAgrees
  <2> SUFFICES ASSUME WInv, Lone, Settled PROVE LoneAgrees
    BY DEF LoneAgrees
  <2>1. TInv /\ Told
    BY DEF WInv
  <2>2. Alone /\ Newest = None
    BY <2>1, LoneAlone, NewestFacts DEF TInv, Settled
  <2> QED BY <2>1, <2>2 DEF Told, LoneAgrees, Held
<1> QED BY <1>1, <1>2, <1>3, PTL DEF Spec
=============================================================================
