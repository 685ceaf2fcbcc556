---------------------------- MODULE WorkflowWatch ---------------------------
(***************************************************************************)
(* The workflow informer with several workflows: the goroutine that        *)
(* workflows.Watch starts (pkg/client/workflows.go), the reflector that    *)
(* receives its events, the delta queue and the store.                     *)
(*                                                                         *)
(* An event carries &wf, the address of the loop variable.  Go before 1.22 *)
(* has one such variable for the whole loop, so whoever keeps the pointer  *)
(* (delta queue, store) sees it change when the loop goes on.  A pointer   *)
(* to the variable of a loop under way is a reference with cell = the      *)
(* watcher; when the loop ends the variable never changes again and its    *)
(* references become plain objects (Freeze).  The objects of the initial   *)
(* list are plain from the start.                                          *)
(*                                                                         *)
(* The receiver reads the variable while the loop may overwrite it, a data *)
(* race: every read sees the old or the new item, whichever step comes     *)
(* first.  Mixtures of two items are left out.                             *)
(*                                                                         *)
(* Stop of a watcher sets a flag that nobody reads: after a resync the old *)
(* goroutine goes on, with nobody to receive, until its next event blocks  *)
(* it for ever.  It matters to others only while its loop is under way and *)
(* somebody holds a pointer to its variable; it is "old" that long, one at *)
(* a time, and then left out.                                              *)
(***************************************************************************)
EXTENDS Naturals, Sequences, FiniteSets, SequencesExt

CONSTANTS
  Keys,       \* namespace/name of the workflows
  Rank,       \* Rank[k]: the place of k in the order in which the server lists
  Names,      \* their names; the same name may be in several namespaces
  Namings,    \* which key has which name, \subseteq [Keys -> Names]
  MaxWrites,  \* bound: creations, edits, deletions and failed lists
  MaxDeltas,  \* bound: keys waiting in the delta queue
  None

Watchers == {"cur", "old"}

\* A workflow as some List returned it: the write that made it so.
Object == [key : Keys, version : Nat]

\* A pointer to an object of its own, or to the loop variable of a watcher.
Ref == [cell : Watchers \cup {"none"}, obj : Object \cup {None}]
Plain(o) == [cell |-> "none", obj |-> o]
LoopVar(w) == [cell |-> w, obj |-> None]

Delta == [type : {"Sync", "Added", "Modified", "Deleted"}, ref : Ref]

ASSUME WatchAssumption ==
  /\ IsFiniteSet(Keys) /\ Namings \subseteq [Keys -> Names]
  /\ Rank \in [Keys -> Nat] /\ \A j, k \in Keys : Rank[j] = Rank[k] => j = k
  /\ MaxWrites \in Nat /\ MaxDeltas \in Nat
  /\ None \notin Nat \cup Object \cup Delta

VARIABLES
  NameOf,   \* NameOf[k]: the name in key k, fixed from the start
  server,   \* server[k]: version of the workflow, or None
  writes,   \* number of writes so far; the version of the next one
  known,    \* keys that ever were on the server
  pc,       \* pc[w]: where watcher w is
  nameMap,  \* nameMap[w][n]: the last object seen under name n, or None
  items,    \* items[w]: what is left of the list it goes through
  listMap,  \* listMap[w]: the names it met in this list
  left,     \* left[w]: names of nameMap that the second loop has not reached
  wf,       \* wf[w]: the loop variable
  ticked,   \* the current watcher went through a whole tick
  recv,     \* the event that the reflector received and not yet queued
  fifo,     \* DeltaFIFO: its queue of keys, each with its deltas
  batch,    \* the deltas that the informer popped and still has to process
  store     \* the informer's store: references by key

loopVars == <<pc, nameMap, items, listMap, left, wf>>
vars == <<NameOf, server, writes, known, loopVars, ticked, recv, fifo, batch, store>>

NoNames == [n \in Names |-> None]

\* What the pointer points to now.
Content(r) == IF r.cell = "none" THEN r.obj ELSE wf[r.cell]

KeyOf(r) == Content(r).key

\* What the server lists; it lists in the order of Rank.
Listing ==
  {[key |-> k, version |-> server[k]] : k \in {j \in Keys : server[j] # None}}

First(objects) == CHOOSE o \in objects : \A p \in objects : Rank[o.key] <= Rank[p.key]

Init ==
  /\ NameOf \in Namings
  /\ server \in [Keys -> {0, None}] /\ writes = 0
  /\ known = {k \in Keys : server[k] # None}
  /\ pc = [w \in Watchers |-> IF w = "cur" THEN "off" ELSE "dead"]
  /\ nameMap = [w \in Watchers |-> NoNames]
  /\ items = [w \in Watchers |-> {}]
  /\ listMap = [w \in Watchers |-> {}]
  /\ left = [w \in Watchers |-> {}]
  /\ wf = [w \in Watchers |-> None]
  /\ ticked = FALSE /\ recv = None /\ fifo = <<>> /\ batch = <<>>
  /\ store = [k \in {} |-> None]

-----------------------------------------------------------------------------
(* The server.                                                             *)

\* A workflow is created or changed.
Write(k) ==
  /\ writes < MaxWrites /\ writes' = writes + 1
  /\ server' = [server EXCEPT ![k] = writes']
  /\ known' = known \cup {k}
  /\ UNCHANGED <<NameOf, loopVars, ticked, recv, fifo, batch, store>>

Delete(k) ==
  /\ writes < MaxWrites /\ writes' = writes + 1
  /\ server[k] # None
  /\ server' = [server EXCEPT ![k] = None]
  /\ UNCHANGED <<NameOf, known, loopVars, ticked, recv, fifo, batch, store>>

-----------------------------------------------------------------------------
(* References when a loop variable is done with, or changes hands.         *)

\* A pointer to the loop variable of w becomes to.
Redirect(r, w, to) == IF r.cell = w THEN to ELSE r

RedirectDeltas(ds, w, to) == [i \in DOMAIN ds |-> [ds[i] EXCEPT !.ref = Redirect(@, w, to)]]

\* The loop of w is over: its variable keeps what it holds, for the received
\* event, the queue, the batch and the store.
Freeze(w) ==
  LET to == Plain(wf[w]) IN
  /\ recv' = IF recv = None THEN None ELSE [recv EXCEPT !.ref = Redirect(@, w, to)]
  /\ fifo' = [i \in DOMAIN fifo |-> [fifo[i] EXCEPT !.deltas = RedirectDeltas(@, w, to)]]
  /\ batch' = RedirectDeltas(batch, w, to)
  /\ store' = [k \in DOMAIN store |-> Redirect(store[k], w, to)]

-----------------------------------------------------------------------------
(* A watcher's goroutine: w is the watcher.                                *)

\* A tick: List succeeds.
Tick(w) ==
  /\ pc[w] = "idle"
  /\ pc' = [pc EXCEPT ![w] = "loop"]
  /\ items' = [items EXCEPT ![w] = Listing]
  /\ listMap' = [listMap EXCEPT ![w] = {}]
  /\ UNCHANGED <<NameOf, server, writes, known, nameMap, left, wf, ticked, recv, fifo, batch, store>>

\* A tick: List fails and the goroutine returns.
TickFails(w) ==
  /\ pc[w] = "idle"
  /\ writes < MaxWrites /\ writes' = writes + 1
  /\ pc' = [pc EXCEPT ![w] = "dead"]
  /\ UNCHANGED <<NameOf, server, known, nameMap, items, listMap, left, wf, ticked, recv, fifo, batch, store>>

\* The next item is copied into the loop variable.  One that nameMap does not
\* hold as it is has to be sent.
NextItem(w) ==
  /\ pc[w] = "loop" /\ items[w] # {}
  /\ LET o == First(items[w])
         n == NameOf[o.key] IN
     /\ items' = [items EXCEPT ![w] = @ \ {o}]
     /\ wf' = [wf EXCEPT ![w] = o]
     /\ listMap' = [listMap EXCEPT ![w] = @ \cup {n}]
     /\ pc' = [pc EXCEPT ![w] = IF nameMap[w][n] = o THEN "loop" ELSE "send"]
  /\ UNCHANGED <<NameOf, server, writes, known, nameMap, left, ticked, recv, fifo, batch, store>>

\* The reflector is in its select and takes the event; nameMap is updated after
\* the send.
SendItem ==
  /\ pc["cur"] = "send" /\ recv = None
  /\ LET n == NameOf[wf["cur"].key] IN
     /\ recv' = [type |-> IF nameMap["cur"][n] = None THEN "Added" ELSE "Modified",
                 ref |-> LoopVar("cur")]
     /\ nameMap' = [nameMap EXCEPT !["cur"][n] = wf["cur"]]
  /\ pc' = [pc EXCEPT !["cur"] = "loop"]
  /\ UNCHANGED <<NameOf, server, writes, known, items, listMap, left, wf, ticked, fifo, batch, store>>

\* The list is done; the loop over nameMap begins, with a variable of its own.
\* It is walked through only if it has something to report: without an event
\* nobody ever sees its variable.
EndItems(w) ==
  /\ pc[w] = "loop" /\ items[w] = {}
  /\ Freeze(w)
  /\ pc' = [pc EXCEPT ![w] = "sweep"]
  /\ LET held == {n \in Names : nameMap[w][n] # None}
     IN  left' = [left EXCEPT ![w] = IF held \subseteq listMap[w] THEN {} ELSE held]
  /\ wf' = [wf EXCEPT ![w] = None]
  /\ UNCHANGED <<NameOf, server, writes, known, nameMap, items, listMap, ticked>>

\* The next entry of nameMap, in any order, is copied into the loop variable;
\* one that was not listed has to be reported as deleted.
NextName(w) ==
  /\ pc[w] = "sweep"
  /\ \E n \in left[w] :
       /\ wf' = [wf EXCEPT ![w] = nameMap[w][n]]
       /\ left' = [left EXCEPT ![w] = @ \ {n}]
       /\ pc' = [pc EXCEPT ![w] = IF n \in listMap[w] THEN "sweep" ELSE "report"]
  /\ UNCHANGED <<NameOf, server, writes, known, nameMap, items, listMap, ticked, recv, fifo, batch, store>>

SendDeleted ==
  /\ pc["cur"] = "report" /\ recv = None
  /\ recv' = [type |-> "Deleted", ref |-> LoopVar("cur")]
  /\ nameMap' = [nameMap EXCEPT !["cur"][NameOf[wf["cur"].key]] = None]
  /\ pc' = [pc EXCEPT !["cur"] = "sweep"]
  /\ UNCHANGED <<NameOf, server, writes, known, items, listMap, left, wf, ticked, fifo, batch, store>>

\* The tick is over.  An old watcher is of no more consequence.
EndTick(w) ==
  /\ pc[w] = "sweep" /\ left[w] = {}
  /\ Freeze(w)
  /\ pc' = [pc EXCEPT ![w] = IF w = "old" THEN "dead" ELSE "idle"]
  /\ nameMap' = [nameMap EXCEPT ![w] = IF w = "old" THEN NoNames ELSE @]
  /\ listMap' = [listMap EXCEPT ![w] = {}]
  /\ wf' = [wf EXCEPT ![w] = None]
  /\ ticked' = (ticked \/ w = "cur")
  /\ UNCHANGED <<NameOf, server, writes, known, items, left>>

\* An old watcher has an event to send: it blocks for ever.
Blocked ==
  /\ pc["old"] \in {"send", "report"}
  /\ Freeze("old")
  /\ pc' = [pc EXCEPT !["old"] = "dead"]
  /\ nameMap' = [nameMap EXCEPT !["old"] = NoNames]
  /\ items' = [items EXCEPT !["old"] = {}]
  /\ listMap' = [listMap EXCEPT !["old"] = {}]
  /\ left' = [left EXCEPT !["old"] = {}]
  /\ wf' = [wf EXCEPT !["old"] = None]
  /\ UNCHANGED <<NameOf, server, writes, known, ticked>>

-----------------------------------------------------------------------------
(* The reflector.                                                          *)

\* queueActionLocked: the delta joins those of its key.  Two deletions in a row
\* are one.
QueueAction(q, id, delta) ==
  LET at == {i \in DOMAIN q : q[i].id = id} IN
  IF at = {} THEN Append(q, [id |-> id, deltas |-> <<delta>>])
  ELSE LET i == CHOOSE j \in at : TRUE
           twice == delta.type = "Deleted" /\ Last(q[i].deltas).type = "Deleted"
       IN  IF twice THEN q ELSE [q EXCEPT ![i].deltas = Append(@, delta)]

\* How many deltas wait in the queue.
Waiting == FoldLeft(LAMBDA n, e : n + Len(e.deltas), 0, fifo)

\* ListAndWatch: the initial list goes to the delta queue, the watch begins.
List ==
  /\ pc["cur"] = "off"
  /\ \E list \in SetToSeqs(Listing) :
       /\ \A i, j \in DOMAIN list : i < j => Rank[list[i].key] < Rank[list[j].key]
       /\ fifo' = [i \in DOMAIN list |->
                     [id |-> list[i].key,
                      deltas |-> <<[type |-> "Sync", ref |-> Plain(list[i])]>>]]
  /\ pc' = [pc EXCEPT !["cur"] = "idle"]
  /\ UNCHANGED <<NameOf, server, writes, known, nameMap, items, listMap, left, wf, ticked, recv, batch, store>>

\* watchHandler that takes the name for the key.
ReceiveByName ==
  /\ recv # None /\ Waiting < MaxDeltas
  /\ fifo' = QueueAction(fifo, NameOf[KeyOf(recv.ref)], recv)
  /\ recv' = None
  /\ UNCHANGED <<NameOf, server, writes, known, loopVars, ticked, batch, store>>

\* watchHandler: the event goes to the delta queue under the key that the object
\* has by now.  A deletion of what the store does not hold is dropped.
Receive ==
  /\ recv # None /\ Waiting < MaxDeltas
  /\ fifo' = IF recv.type = "Deleted" /\ KeyOf(recv.ref) \notin DOMAIN store
             THEN fifo
             ELSE QueueAction(fifo, KeyOf(recv.ref), recv)
  /\ recv' = None
  /\ UNCHANGED <<NameOf, server, writes, known, loopVars, ticked, batch, store>>

\* The store goes through an empty queue in any order: its entries are queued
\* under the key that their object has by now, order[id] being those under id.
QueueSync(ids, order, to) ==
  [i \in DOMAIN ids |->
     [id |-> ids[i],
      deltas |-> [j \in DOMAIN order[ids[i]] |->
                    [type |-> "Sync", ref |-> Redirect(store[order[ids[i]][j]], "cur", to)]]]]

StoreIds == {KeyOf(store[k]) : k \in DOMAIN store}
StoredUnder(id) == {k \in DOMAIN store : KeyOf(store[k]) = id}

\* The orders in which the entries of each id may come.
SyncOrders ==
  {f \in [StoreIds -> UNION {SetToSeqs(StoredUnder(id)) : id \in StoreIds}] :
     \A id \in StoreIds : f[id] \in SetToSeqs(StoredUnder(id))}

\* Somebody holds a pointer to the loop variable of w.
Referred(w) ==
  \/ \E k \in DOMAIN store : store[k].cell = w
  \/ \E i \in DOMAIN batch : batch[i].ref.cell = w

\* The state f of the watchers after a resync: the new one starts with none, the
\* old one goes on if that can still matter.
HandOver(f, none) ==
  [w \in Watchers |-> IF w = "old" /\ Referred("cur") THEN f["cur"] ELSE none]

\* The resync timer fires while the reflector waits for an event: the store is
\* queued again, the watch is stopped and a new one opened.  FullResyncPeriod is
\* long enough for a tick; a resync with deltas still in the queue is left out.
ResyncWith(names) ==
  /\ recv = None /\ fifo = <<>>
  /\ ticked \/ pc["cur"] = "dead"
  /\ pc["old"] = "dead"
  /\ \E ids \in SetToSeqs(StoreIds), order \in SyncOrders :
       fifo' = QueueSync(ids, order, LoopVar("old"))
  /\ batch' = RedirectDeltas(batch, "cur", LoopVar("old"))
  /\ store' = [k \in DOMAIN store |-> Redirect(store[k], "cur", LoopVar("old"))]
  /\ pc' = [HandOver(pc, "dead") EXCEPT !["cur"] = "idle"]
  /\ nameMap' = [HandOver(nameMap, NoNames) EXCEPT !["cur"] = names]
  /\ items' = HandOver(items, {}) /\ listMap' = HandOver(listMap, {})
  /\ left' = HandOver(left, {}) /\ wf' = HandOver(wf, None)
  /\ ticked' = FALSE
  /\ UNCHANGED <<NameOf, server, writes, known, recv>>

\* A new watch that goes on with the nameMap of the old one.
ResyncKeepsNames == ResyncWith(nameMap["cur"])

\* A new watch has a nameMap of its own.
Resync == ResyncWith(NoNames)

-----------------------------------------------------------------------------
(* The informer.                                                           *)

\* Pop: all deltas of the first key.
Pop ==
  /\ batch = <<>> /\ fifo # <<>>
  /\ batch' = Head(fifo).deltas
  /\ fifo' = Tail(fifo)
  /\ UNCHANGED <<NameOf, server, writes, known, loopVars, ticked, recv, store>>

\* Process, one delta: the store is changed under the key that the object has
\* by now.
Process ==
  /\ batch # <<>>
  /\ LET d == Head(batch)
         k == KeyOf(d.ref) IN
     store' = IF d.type = "Deleted"
              THEN [j \in DOMAIN store \ {k} |-> store[j]]
              ELSE [j \in DOMAIN store \cup {k} |-> IF j = k THEN d.ref ELSE store[j]]
  /\ batch' = Tail(batch)
  /\ UNCHANGED <<NameOf, server, writes, known, loopVars, ticked, recv, fifo>>

-----------------------------------------------------------------------------
ServerNext == \E k \in Keys : Write(k) \/ Delete(k)

WatcherNext(w) ==
  \/ Tick(w) \/ TickFails(w) \/ NextItem(w) \/ EndItems(w) \/ NextName(w) \/ EndTick(w)
  \/ w = "cur" /\ (SendItem \/ SendDeleted)
  \/ w = "old" /\ Blocked

InformerNext == List \/ Receive \/ Pop \/ Process

Next == ServerNext \/ (\E w \in Watchers : WatcherNext(w)) \/ InformerNext \/ Resync

Spec == Init /\ [][Next]_vars

Fairness ==
  /\ \A w \in Watchers : WF_vars(WatcherNext(w))
  /\ WF_vars(List) /\ WF_vars(Receive) /\ WF_vars(Pop) /\ WF_vars(Process)
  /\ SF_vars(Resync)

FairSpec == Spec /\ Fairness

-----------------------------------------------------------------------------
(* Properties.                                                             *)

\* Types of the state; the delta queue and the store are keyed by namespace/name
\* (MetaNamespaceKeyFunc), unlike nameMap.
TypeOK ==
  /\ NameOf \in [Keys -> Names]
  /\ server \in [Keys -> Nat \cup {None}] /\ writes \in Nat /\ known \subseteq Keys
  /\ pc \in [Watchers -> {"off", "dead", "idle", "loop", "send", "sweep", "report"}]
  /\ nameMap \in [Watchers -> [Names -> Object \cup {None}]]
  /\ items \in [Watchers -> SUBSET Object]
  /\ listMap \in [Watchers -> SUBSET Names] /\ left \in [Watchers -> SUBSET Names]
  /\ wf \in [Watchers -> Object \cup {None}]
  /\ ticked \in BOOLEAN
  /\ recv \in Delta \cup {None}
  /\ fifo \in Seq([id : Keys, deltas : Seq(Delta)])
  /\ batch \in Seq(Delta)
  /\ DOMAIN store \subseteq Keys /\ \A k \in DOMAIN store : store[k] \in Ref

\* What a reader of the store finds under each key.
Held == [k \in DOMAIN store |-> Content(store[k])]

\* The informer's copy of workflow k is what the server has.
InSync(k) ==
  /\ k \in DOMAIN store
  /\ Held[k] = [key |-> k, version |-> server[k]]

\* The last workflow that the server lists is the one whose event is never
\* overwritten: again and again the store has it as the server has it.
LastListed(k) ==
  server[k] # None /\ \A j \in Keys : server[j] # None => Rank[j] <= Rank[k]
LastListedSyncs == []<>(\A k \in Keys : LastListed(k) => InSync(k))

\* The pipeline from the watcher to the store is empty.
Settled ==
  /\ pc["cur"] = "idle" /\ ticked
  /\ recv = None /\ fifo = <<>> /\ batch = <<>>

\* The watcher reports differences to its nameMap, so nameMap must be what the
\* store was told.  It is, as long as there was never more than one workflow:
\* the loop variable is then overwritten by nobody, and a resync that overtook
\* a delta is made good by the new watch.
Lone == Cardinality(known) <= 1
LoneAgrees ==
  Lone /\ Settled =>
    \A k \in known :
      LET seen == nameMap["cur"][NameOf[k]]
      IN  seen # None => k \in DOMAIN store /\ Held[k] = seen

-----------------------------------------------------------------------------
(* What a comment of the repository says, and the code does not do.        *)

\* "Create a new Informer to sync the upstream workflow store with the
\* downstream workflow store" (manager.go:90): the store's entry for a key is a
\* workflow of that key.
StoreKeyed == \A k \in DOMAIN store : Held[k].key = k
=============================================================================
