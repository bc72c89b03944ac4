---------------------------- MODULE NarrowCache ----------------------------
(***************************************************************************)
(* The name-scoped cache of the operator (internal/pkg/narrowcache) and    *)
(* the reconcile loops that use it, for one cached object.                 *)
(*                                                                         *)
(* Every map of the cache is indexed by the object's key and no operation  *)
(* touches two keys, so one key is one instance of this module.  A miss    *)
(* opens a watch, then reads the object, stores it and leaves a goroutine  *)
(* (updateCache) behind that applies the events of the watch.  Nothing     *)
(* makes "look up, then fetch" atomic, and clearing an entry does not stop *)
(* its goroutine, so several goroutines may feed one entry.                *)
(*                                                                         *)
(* An object is the number of the API write that produced it; Absent (0)   *)
(* is "not found" at the API server and the nil pointer in the cache.      *)
(***************************************************************************)
EXTENDS Naturals, Sequences, FiniteSets

CONSTANTS
    Static,      \* controllers registering with checkActive = false
    Dynamic,     \* controllers registering with checkActive = true
    Writers,     \* the controllers that also write the object
    Goroutines,  \* identities for running updateCache goroutines
    MaxRev,      \* bound on the writes the API server accepts
    MaxCloses,   \* bound on the watches closed by the API server
    MaxFaults    \* bound on the calls to the API server that fail

Controllers == Static \cup Dynamic
Actors == Controllers \cup Goroutines

Absent == 0
Objs == 0 .. MaxRev
Events == [type : {"Added", "Modified", "Deleted"}, obj : Objs]
EmptyHand == [old |-> Absent, new |-> Absent]

ASSUME ActorsAssumption ==
    /\ Static \cap Dynamic = {}
    /\ Controllers \cap Goroutines = {}
    /\ Writers \subseteq Controllers

ASSUME BoundsAssumption ==
    MaxRev \in Nat \ {0} /\ MaxCloses \in Nat /\ MaxFaults \in Nat

VARIABLES
    live,        \* the object as the API server has it
    rev,         \* number of the last write
    present,     \* watchedObjects has an entry for the key
    cached,      \* that entry's cached object
    handlers,    \* that entry's handlers: the controllers it wakes
    pc,          \* where each controller worker or goroutine stands
    task,        \* why a controller is in getAndCreateWatchIfNeeded
    stream,      \* the watch an actor holds: "none", "open" or "closed"
    queue,       \* events of that watch not yet received
    hand,        \* old and new object an actor is busy with
    registered,  \* idempotentSources has the key for the controller
    active,      \* ... and its value
    queued,      \* the controller's work queue holds the request
    seen,        \* what the controller's last Get returned
    calls,       \* handler goroutines spawned for a controller and not yet run
    closes,      \* watches closed so far
    faults       \* failed calls so far

api == <<live, rev>>
entry == <<present, cached, handlers>>
watches == <<stream, queue, closes>>
sources == <<registered, active>>
work == <<queued, seen>>
vars == <<api, entry, pc, task, watches, hand, sources, work, calls, faults>>

-----------------------------------------------------------------------------
(* The API server: external, seen through GET, WATCH and writes.           *)

Event(type, obj) == [type |-> type, obj |-> obj]

\* An event reaches every watch that is still open.
Publish(e) ==
    queue' = [a \in Actors |-> IF stream[a] = "open" THEN Append(queue[a], e)
                                                     ELSE queue[a]]

\* A watch opened without a resource version starts with the object that exists.
InitialEvents == IF live = Absent THEN <<>> ELSE <<Event("Added", live)>>

ApiCreate ==
    /\ live = Absent /\ rev < MaxRev
    /\ live' = rev + 1 /\ rev' = rev + 1
    /\ Publish(Event("Added", rev + 1))

ApiUpdate ==
    /\ live # Absent /\ rev < MaxRev
    /\ live' = rev + 1 /\ rev' = rev + 1
    /\ Publish(Event("Modified", rev + 1))

ApiDelete ==
    /\ live # Absent
    /\ live' = Absent /\ UNCHANGED rev
    /\ Publish(Event("Deleted", live))

\* Somebody else changes the object.
External ==
    /\ ApiCreate \/ ApiUpdate \/ ApiDelete
    /\ UNCHANGED <<entry, pc, task, stream, closes, hand, sources, work, calls, faults>>

\* The connection of a watch ends: what was not transferred is lost.  (The Error
\* and Bookmark events that may come last are ignored by updateCache.)
CloseWatch(a) ==
    /\ stream[a] = "open" /\ closes < MaxCloses
    /\ \E n \in 0 .. Len(queue[a]) : queue' = [queue EXCEPT ![a] = SubSeq(@, 1, n)]
    /\ stream' = [stream EXCEPT ![a] = "closed"]
    /\ closes' = closes + 1
    /\ UNCHANGED <<api, entry, pc, task, hand, sources, work, calls, faults>>

-----------------------------------------------------------------------------
(* The entry of the cache.                                                 *)

\* setCacheObject: a new entry has no handlers.
SetCacheObject(obj) ==
    /\ present' = TRUE /\ cached' = obj
    /\ handlers' = IF present THEN handlers ELSE {}

\* removeFromCache
RemoveFromCache ==
    /\ cached' = IF present THEN Absent ELSE cached
    /\ UNCHANGED <<present, handlers>>

\* clearEntryByKey
ClearEntry ==
    /\ present' = FALSE /\ cached' = Absent /\ handlers' = {}

\* cachedObject
CachedObject == IF present THEN cached ELSE Absent

\* ManagedObjectEventFilter, the filter of the objects of FetchAll (the object is
\* one the operator owns): it ignores creations.
Managed(c, old) == c \in Dynamic => old # Absent

\* callHandlers: one goroutine per handler, none for a change from nil to nil.
\* ManagedObjectEventFilter looks at nothing but the event, so it is applied here.
CallHandlers(old, new) ==
    calls' = [c \in Controllers |->
                 IF /\ present /\ c \in handlers
                    /\ old # Absent \/ new # Absent
                    /\ Managed(c, old)
                 THEN calls[c] + 1 ELSE calls[c]]

\* A handler goroutine runs requestEventHandler.enqueue, whose last filter is
\* isActive when checkActive was set.
HandleCall(c) ==
    /\ calls[c] > 0
    /\ calls' = [calls EXCEPT ![c] = @ - 1]
    /\ queued' = [queued EXCEPT ![c] = @ \/ c \in Static \/ active[c]]
    /\ UNCHANGED <<api, entry, pc, task, watches, hand, sources, seen, faults>>

-----------------------------------------------------------------------------
(* fetchAndWatch, run by a controller on a miss and by a goroutine whose   *)
(* watch ended.  A failed call sends the actor to Failed.                  *)

Goto(a, p) == pc' = [pc EXCEPT ![a] = p]

\* A reconcile that returns an error is queued again.
Requeue(c) == queued' = [queued EXCEPT ![c] = TRUE]

\* What the caller of fetchAndWatch does with an error: the goroutine leaves
\* its loop; the controller returns it, and SafeEnqueueRequestOnEvents rolls
\* its reservation back.
FetchFailed(a) ==
    IF a \in Goroutines
    THEN Goto(a, "exit") /\ UNCHANGED <<queued, sources>>
    ELSE /\ Goto(a, "idle") /\ Requeue(a)
         /\ registered' = [registered EXCEPT ![a] = @ /\ task[a] # "register"]
         /\ active' = [active EXCEPT ![a] = @ /\ task[a] # "register"]

StartWatch(a) ==
    /\ pc[a] = "watch"
    /\ stream' = [stream EXCEPT ![a] = "open"]
    /\ queue' = [queue EXCEPT ![a] = InitialEvents]
    /\ Goto(a, "get")
    /\ UNCHANGED <<api, entry, task, closes, hand, sources, work, calls, faults>>

StartWatchFails(a) ==
    /\ pc[a] = "watch" /\ faults < MaxFaults
    /\ faults' = faults + 1
    /\ FetchFailed(a)
    /\ UNCHANGED <<api, entry, task, watches, hand, seen, calls>>

Fetch(a) ==
    /\ pc[a] = "get"
    /\ hand' = [hand EXCEPT ![a].new = live]
    /\ Goto(a, "fill")
    /\ UNCHANGED <<api, entry, task, watches, sources, work, calls, faults>>

FetchFails(a) ==
    /\ pc[a] = "get" /\ faults < MaxFaults
    /\ faults' = faults + 1
    /\ stream' = [stream EXCEPT ![a] = "none"]
    /\ queue' = [queue EXCEPT ![a] = <<>>]
    /\ FetchFailed(a)
    /\ UNCHANGED <<api, entry, task, closes, hand, seen, calls>>

\* A goroutine stores what it fetched; it then tells the handlers.
Fill(g) ==
    /\ g \in Goroutines /\ pc[g] = "fill"
    /\ SetCacheObject(hand[g].new)
    /\ Goto(g, "notify")
    /\ UNCHANGED <<api, task, watches, hand, sources, work, calls, faults>>

-----------------------------------------------------------------------------
(* updateCache, the goroutine behind a watch.                              *)

\* The next event.  handler.Create is not given the old object, so an Added
\* event keeps none.
Receive(g) ==
    /\ pc[g] = "loop" /\ queue[g] # <<>>
    /\ queue' = [queue EXCEPT ![g] = Tail(@)]
    /\ LET e == Head(queue[g]) IN
          hand' = [hand EXCEPT ![g] =
                      CASE e.type = "Added"    -> [old |-> Absent, new |-> e.obj]
                        [] e.type = "Modified" -> [old |-> CachedObject, new |-> e.obj]
                        [] e.type = "Deleted"  -> [old |-> e.obj, new |-> Absent]]
    /\ Goto(g, "store")
    /\ UNCHANGED <<api, entry, task, stream, closes, sources, work, calls, faults>>

\* Mutant: a Deleted event does not reach the entry.
StoreKeepsDeleted(g) ==
    /\ pc[g] = "store"
    /\ IF hand[g].new = Absent THEN UNCHANGED entry ELSE SetCacheObject(hand[g].new)
    /\ Goto(g, "notify")
    /\ UNCHANGED <<api, task, watches, hand, sources, work, calls, faults>>

Store(g) ==
    /\ pc[g] = "store"
    /\ IF hand[g].new = Absent THEN RemoveFromCache ELSE SetCacheObject(hand[g].new)
    /\ Goto(g, "notify")
    /\ UNCHANGED <<api, task, watches, hand, sources, work, calls, faults>>

Notify(g) ==
    /\ g \in Goroutines /\ pc[g] = "notify"
    /\ CallHandlers(hand[g].old, hand[g].new)
    /\ hand' = [hand EXCEPT ![g] = EmptyHand]
    /\ Goto(g, "loop")
    /\ UNCHANGED <<api, entry, task, watches, sources, work, faults>>

\* Mutant: the cached object is not remembered.
ReestablishForgets(g) ==
    /\ pc[g] = "loop" /\ queue[g] = <<>> /\ stream[g] = "closed"
    /\ Goto(g, "watch")
    /\ UNCHANGED <<api, entry, task, watches, hand, sources, work, calls, faults>>

\* The channel is closed: remember the cached object and fetch again.
Reestablish(g) ==
    /\ pc[g] = "loop" /\ queue[g] = <<>> /\ stream[g] = "closed"
    /\ hand' = [hand EXCEPT ![g].old = CachedObject]
    /\ Goto(g, "watch")
    /\ UNCHANGED <<api, entry, task, watches, sources, work, calls, faults>>

\* Mutant: the goroutine ends and leaves its entry behind.
ExitKeepsEntry(g) ==
    /\ pc[g] = "exit"
    /\ stream' = [stream EXCEPT ![g] = "none"]
    /\ queue' = [queue EXCEPT ![g] = <<>>]
    /\ hand' = [hand EXCEPT ![g] = EmptyHand]
    /\ Goto(g, "none")
    /\ UNCHANGED <<api, entry, task, closes, sources, work, calls, faults>>

\* The deferred function.
Exit(g) ==
    /\ pc[g] = "exit"
    /\ ClearEntry
    /\ stream' = [stream EXCEPT ![g] = "none"]
    /\ queue' = [queue EXCEPT ![g] = <<>>]
    /\ hand' = [hand EXCEPT ![g] = EmptyHand]
    /\ Goto(g, "none")
    /\ UNCHANGED <<api, task, closes, sources, work, calls, faults>>

-----------------------------------------------------------------------------
(* The reconcile loops.  A dynamic controller resets its active watches,   *)
(* registers the object and reads it (FetchAll); a static one reads it     *)
(* first and registers it once it is known to exist                        *)
(* (ReconcileClusterRoleBinding).  Both may then write it.                 *)

Dequeue(c) ==
    /\ c \in Controllers /\ pc[c] = "idle" /\ queued[c]
    /\ queued' = [queued EXCEPT ![c] = FALSE]
    /\ task' = [task EXCEPT ![c] = "read"]
    /\ IF c \in Dynamic
       THEN active' = [active EXCEPT ![c] = FALSE] /\ Goto(c, "enqueue")
       ELSE UNCHANGED active /\ Goto(c, "lookup")
    /\ UNCHANGED <<api, entry, watches, hand, registered, seen, calls, faults>>

\* Where the reconcile goes once the object is registered.
AfterRegister(c) == IF c \in Dynamic THEN "lookup" ELSE "write"

\* SafeEnqueueRequestOnEvents up to getSource: setActive.
SetActive(c) ==
    /\ pc[c] = "enqueue"
    /\ active' = [active EXCEPT ![c] = TRUE]
    /\ registered' = [registered EXCEPT ![c] = TRUE]
    /\ task' = [task EXCEPT ![c] = IF registered[c] THEN "read" ELSE "register"]
    /\ Goto(c, IF registered[c] THEN AfterRegister(c) ELSE "lookup")
    /\ UNCHANGED <<api, entry, watches, hand, work, calls, faults>>

\* getAndCreateWatchIfNeeded returned obj: getSource goes on to ctrl.Watch
\* whether it was found or not; a static reader takes "not found" for an error.
ReturnTo(c, obj) ==
    CASE task[c] = "register"          -> "attach"
      [] task[c] = "read" /\ c \in Dynamic -> "write"
      [] OTHER                         -> IF obj = Absent THEN "idle" ELSE "enqueue"

Returned(c, obj) ==
    /\ seen' = [seen EXCEPT ![c] = IF task[c] = "register" THEN @ ELSE obj]
    /\ queued' = [queued EXCEPT ![c] = @ \/ ReturnTo(c, obj) = "idle"]

LookupHit(c) ==
    /\ pc[c] = "lookup" /\ present
    /\ Returned(c, cached)
    /\ Goto(c, ReturnTo(c, cached))
    /\ UNCHANGED <<api, entry, task, watches, hand, sources, calls, faults>>

LookupMiss(c) ==
    /\ pc[c] = "lookup" /\ ~present
    /\ Goto(c, "watch")
    /\ UNCHANGED <<api, entry, task, watches, hand, sources, work, calls, faults>>

\* The end of a miss: store what was fetched, go updateCache(..., w), return it.
\* (Starting the goroutine touches nothing another actor can see.)
FillAndSpawn(c, g) ==
    /\ c \in Controllers /\ pc[c] = "fill" /\ pc[g] = "none"
    /\ SetCacheObject(hand[c].new)
    /\ pc' = [pc EXCEPT ![c] = ReturnTo(c, hand[c].new), ![g] = "loop"]
    /\ Returned(c, hand[c].new)
    /\ hand' = [hand EXCEPT ![c] = EmptyHand]
    /\ stream' = [stream EXCEPT ![g] = stream[c], ![c] = "none"]
    /\ queue' = [queue EXCEPT ![g] = queue[c], ![c] = <<>>]
    /\ UNCHANGED <<api, task, closes, sources, calls, faults>>

\* ctrl.Watch runs onStart: addHandler and the initial request, or an error and
\* the rollback of the reservation when the entry is gone.
Attach(c) ==
    /\ pc[c] = "attach"
    /\ Requeue(c)
    /\ IF present
       THEN /\ handlers' = handlers \cup {c}
            /\ Goto(c, AfterRegister(c))
            /\ task' = [task EXCEPT ![c] = "read"]
            /\ UNCHANGED sources
       ELSE /\ registered' = [registered EXCEPT ![c] = FALSE]
            /\ active' = [active EXCEPT ![c] = FALSE]
            /\ Goto(c, "idle")
            /\ UNCHANGED <<handlers, task>>
    /\ UNCHANGED <<api, present, cached, watches, hand, seen, calls, faults>>

\* Nothing to change: the reconcile ends.
Finish(c) ==
    /\ pc[c] = "write"
    /\ Goto(c, "idle")
    /\ UNCHANGED <<api, entry, task, watches, hand, sources, work, calls, faults>>

\* Create, Update (of the version read) or Delete succeeds.
Write(c) ==
    /\ pc[c] = "write" /\ c \in Writers
    /\ \/ seen[c] = Absent /\ ApiCreate
       \/ seen[c] # Absent /\ seen[c] = live /\ ApiUpdate
       \/ seen[c] # Absent /\ c \in Dynamic /\ ApiDelete
    /\ Goto(c, "idle")
    /\ UNCHANGED <<entry, task, stream, closes, hand, sources, work, calls, faults>>

\* It fails because the read was stale.  TryDelete ignores that the object to
\* delete is already gone; every other error ends the reconcile.
WriteConflicts(c) ==
    /\ pc[c] = "write" /\ c \in Writers /\ seen[c] # live
    /\ Goto(c, "clear")
    /\ \/ Requeue(c)
       \/ c \in Dynamic /\ live = Absent /\ UNCHANGED queued
    /\ UNCHANGED <<api, entry, task, watches, hand, sources, seen, calls, faults>>

\* It fails for another reason.
WriteFails(c) ==
    /\ pc[c] = "write" /\ c \in Writers /\ faults < MaxFaults
    /\ faults' = faults + 1
    /\ Goto(c, "clear") /\ Requeue(c)
    /\ UNCHANGED <<api, entry, task, watches, hand, sources, seen, calls>>

\* clearEntry, whenever Create, Update or Delete returned an error.
Invalidate(c) ==
    /\ pc[c] = "clear"
    /\ ClearEntry
    /\ Goto(c, "idle")
    /\ UNCHANGED <<api, task, watches, hand, sources, work, calls, faults>>

-----------------------------------------------------------------------------
Init ==
    /\ live \in {Absent, 1} /\ rev = live
    /\ present = FALSE /\ cached = Absent /\ handlers = {}
    /\ pc = [a \in Actors |-> IF a \in Controllers THEN "idle" ELSE "none"]
    /\ task = [c \in Controllers |-> "read"]
    /\ stream = [a \in Actors |-> "none"]
    /\ queue = [a \in Actors |-> <<>>]
    /\ hand = [a \in Actors |-> EmptyHand]
    /\ registered = [c \in Controllers |-> FALSE]
    /\ active = [c \in Controllers |-> FALSE]
    /\ queued = [c \in Controllers |-> TRUE]
    /\ seen = [c \in Controllers |-> Absent]
    /\ calls = [c \in Controllers |-> 0] /\ closes = 0 /\ faults = 0

ControllerStep(c) ==
    \/ Dequeue(c) \/ SetActive(c) \/ LookupHit(c) \/ LookupMiss(c)
    \/ StartWatch(c) \/ Fetch(c) \/ (\E g \in Goroutines : FillAndSpawn(c, g))
    \/ Attach(c) \/ Finish(c) \/ Write(c) \/ WriteConflicts(c) \/ Invalidate(c)

GoroutineStep(g) ==
    \/ Receive(g) \/ Store(g) \/ Notify(g) \/ Reestablish(g)
    \/ StartWatch(g) \/ Fetch(g) \/ Fill(g) \/ Exit(g)

Fault(a) == StartWatchFails(a) \/ FetchFails(a)

Next ==
    \/ External
    \/ \E a \in Actors : CloseWatch(a) \/ Fault(a)
    \/ \E c \in Controllers : ControllerStep(c) \/ WriteFails(c) \/ HandleCall(c)
    \/ \E g \in Goroutines : GoroutineStep(g)

Spec == Init /\ [][Next]_vars

Fairness ==
    /\ \A c \in Controllers : WF_vars(ControllerStep(c)) /\ WF_vars(HandleCall(c))
    /\ \A g \in Goroutines : WF_vars(GoroutineStep(g))

FairSpec == Spec /\ Fairness

-----------------------------------------------------------------------------
(* Properties.                                                             *)

Labels ==
    {"idle", "enqueue", "lookup", "watch", "get", "fill", "attach",
     "write", "clear", "none", "loop", "store", "notify", "exit"}

\* The variables keep their types; a handler goroutine is only run once it was
\* spawned (callHandlers).
TypeOK ==
    /\ live \in Objs /\ rev \in Objs
    /\ present \in BOOLEAN /\ cached \in Objs /\ handlers \subseteq Controllers
    /\ pc \in [Actors -> Labels]
    /\ task \in [Controllers -> {"read", "register"}]
    /\ stream \in [Actors -> {"none", "open", "closed"}]
    /\ queue \in [Actors -> Seq(Events)]
    /\ hand \in [Actors -> [old : Objs, new : Objs]]
    /\ registered \in [Controllers -> BOOLEAN] /\ active \in [Controllers -> BOOLEAN]
    /\ queued \in [Controllers -> BOOLEAN] /\ seen \in [Controllers -> Objs]
    /\ calls \in [Controllers -> Nat]
    /\ closes \in 0 .. MaxCloses /\ faults \in 0 .. MaxFaults

\* A goroutine has nothing left to apply to the entry.
Drained(g) == pc[g] \in {"loop", "notify"} /\ stream[g] = "open" /\ queue[g] = <<>>

Running == {g \in Goroutines : pc[g] # "none"}

\* The cache is not stale indefinitely: once every goroutine has applied the
\* events it was sent, the entry is what the API server has.  This is the gap
\* that opening the watch before the GET closes (fetchAndWatch), with any number
\* of goroutines feeding the entry, failed calls and cleared entries.
CacheCoherent ==
    present /\ (\A g \in Running : Drained(g)) => cached = live

\* An entry always has somebody to keep it up to date: no error path of
\* fetchAndWatch or updateCache leaves an entry behind that nothing refreshes.
EntryIsFed == present => Running # {}

\* The object an event leaves behind.
Left(e) == IF e.type = "Deleted" THEN Absent ELSE e.obj

\* What makes coherence inductive.  A watch that is open and not drained ends
\* with the object as it is; an actor that took the last event of an open watch, or
\* fetched the object after opening it, holds the object as it is.
WatchComplete ==
    \A a \in Actors :
        stream[a] = "open" /\ queue[a] # <<>> => Left(queue[a][Len(queue[a])]) = live

HandFresh ==
    \A a \in Actors :
        stream[a] = "open" /\ queue[a] = <<>> /\ pc[a] \in {"store", "fill"}
        => hand[a].new = live

IInv == TypeOK /\ WatchComplete /\ HandFresh /\ EntryIsFed /\ CacheCoherent

\* What a controller that is told of updates and deletes may miss is a creation.
UpToDate(c) == seen[c] = live \/ (c \in Dynamic /\ seen[c] = Absent)

\* No wake-up is lost: when a registered controller is idle, nothing is queued for
\* it and every event was applied and handled, its last read was the object as it
\* is.  Rests on "store, then notify" against "activate, then read", and on the
\* initial request that follows addHandler.
NoLostWakeup ==
    \A c \in Controllers :
        /\ registered[c] /\ pc[c] = "idle" /\ ~queued[c]
        /\ calls[c] = 0
        /\ \A g \in Running : Drained(g) /\ pc[g] = "loop"
        => UpToDate(c)

\* Every controller ends up having read the object as it is, once the API server
\* stops changing it.
EventuallyUpToDate == <>[](\A c \in Controllers : UpToDate(c))

=============================================================================
