------------------------- MODULE NarrowCacheProofs -------------------------
(***************************************************************************)
(* The cache is coherent for any number of controllers, goroutines, API    *)
(* writes, closed watches and failed calls.                                *)
(***************************************************************************)
EXTENDS NarrowCache, SequenceTheorems, TLAPS

\* What Publish does to the queues, used for every write to the API server.
LEMMA PublishType ==
    ASSUME queue \in [Actors -> Seq(Events)], NEW e \in Events, Publish(e)
    PROVE  queue' \in [Actors -> Seq(Events)]
BY DEF Publish

\* An accepted write keeps the API state and the queues well typed.
LEMMA ApiType ==
    ASSUME TypeOK, ApiCreate \/ ApiUpdate \/ ApiDelete
    PROVE  live' \in Objs /\ rev' \in Objs /\ queue' \in [Actors -> Seq(Events)]
<1>1. rev \in Nat /\ rev <= MaxRev /\ live \in Objs /\ queue \in [Actors -> Seq(Events)]
  BY BoundsAssumption DEF TypeOK, Objs
<1>2. CASE ApiCreate
  <2>1. rev + 1 \in Objs /\ live' = rev + 1 /\ rev' = rev + 1
    BY <1>1, <1>2, BoundsAssumption DEF ApiCreate, Objs
  <2>2. Event("Added", rev + 1) \in Events /\ Publish(Event("Added", rev + 1))
    BY <1>2, <2>1 DEF ApiCreate, Event, Events
  <2> QED BY <1>1, <2>1, <2>2, PublishType
<1>3. CASE ApiUpdate
  <2>1. rev + 1 \in Objs /\ live' = rev + 1 /\ rev' = rev + 1
    BY <1>1, <1>3, BoundsAssumption DEF ApiUpdate, Objs
  <2>2. Event("Modified", rev + 1) \in Events /\ Publish(Event("Modified", rev + 1))
    BY <1>3, <2>1 DEF ApiUpdate, Event, Events
  <2> QED BY <1>1, <2>1, <2>2, PublishType
<1>4. CASE ApiDelete
  <2>1. live' \in Objs /\ rev' \in Objs
    BY <1>1, <1>4, BoundsAssumption DEF ApiDelete, Objs, Absent
  <2>2. Event("Deleted", live) \in Events /\ Publish(Event("Deleted", live))
    BY <1>1, <1>4 DEF ApiDelete, Event, Events
  <2> QED BY <1>1, <2>1, <2>2, PublishType
<1> QED BY <1>2, <1>3, <1>4

\* An accepted write is the last event of every open watch.
LEMMA ApiPublished ==
    ASSUME TypeOK, ApiCreate \/ ApiUpdate \/ ApiDelete, NEW a \in Actors
    PROVE  /\ stream[a] = "open" => /\ queue'[a] # <<>>
                                    /\ Left(queue'[a][Len(queue'[a])]) = live'
           /\ stream[a] # "open" => queue'[a] = queue[a]
<1>1. queue[a] \in Seq(Events) /\ rev \in Nat
  BY BoundsAssumption DEF TypeOK, Objs
<1>2. PICK e : Publish(e) /\ Left(e) = live'
  BY DEF ApiCreate, ApiUpdate, ApiDelete, Event, Left
<1>3. queue'[a] = IF stream[a] = "open" THEN Append(queue[a], e) ELSE queue[a]
  BY <1>2 DEF Publish
<1>4. Append(queue[a], e) # <<>> /\ Append(queue[a], e)[Len(Append(queue[a], e))] = e
  BY <1>1
<1> QED BY <1>2, <1>3, <1>4

-----------------------------------------------------------------------------
\* The variables keep their types.
LEMMA TypeInit == Init => TypeOK
<1> SUFFICES ASSUME Init PROVE TypeOK
  OBVIOUS
<1> USE BoundsAssumption DEF Init
<1>1. live \in Objs /\ rev \in Objs /\ cached \in Objs /\ Absent \in Objs
  BY DEF Objs, Absent
<1>2. pc \in [Actors -> Labels]
  BY DEF Labels
<1>3. queue \in [Actors -> Seq(Events)]
  OBVIOUS
<1>4. hand \in [Actors -> [old : Objs, new : Objs]]
  BY <1>1 DEF EmptyHand
<1>5. closes \in 0 .. MaxCloses /\ faults \in 0 .. MaxFaults
  OBVIOUS
<1> QED BY <1>1, <1>2, <1>3, <1>4, <1>5 DEF TypeOK

\* Tail, SubSeq and the first events of a watch stay sequences of events.
LEMMA QueueType ==
    ASSUME TypeOK, NEW a \in Actors
    PROVE  /\ InitialEvents \in Seq(Events)
           /\ \A n \in 0 .. Len(queue[a]) : SubSeq(queue[a], 1, n) \in Seq(Events)
           /\ queue[a] # <<>> => /\ Tail(queue[a]) \in Seq(Events)
                                 /\ Head(queue[a]) \in Events
<1>1. queue[a] \in Seq(Events) /\ live \in Objs
  BY DEF TypeOK
<1>2. Event("Added", live) \in Events
  BY <1>1 DEF Event, Events
<1>3. InitialEvents \in Seq(Events)
  BY <1>2 DEF InitialEvents
<1>4. ASSUME NEW n \in 0 .. Len(queue[a]) PROVE SubSeq(queue[a], 1, n) \in Seq(Events)
  BY <1>1, <1>4
<1> QED BY <1>1, <1>3, <1>4

\* An actor's label may become any label of the list.
LEMMA GotoType ==
    ASSUME TypeOK, NEW a \in Actors, NEW p \in Labels, Goto(a, p)
    PROVE  pc' \in [Actors -> Labels]
BY DEF TypeOK, Goto

LEMMA TypeNext == TypeOK /\ [Next]_vars => TypeOK'
<1> SUFFICES ASSUME TypeOK, [Next]_vars PROVE TypeOK'
  OBVIOUS
<1> USE DEF api, entry, watches, sources, work
<1>0. Absent \in Objs /\ EmptyHand \in [old : Objs, new : Objs] /\ <<>> \in Seq(Events)
  BY BoundsAssumption DEF Objs, Absent, EmptyHand
<1>1. CASE External
  <2>1. live' \in Objs /\ rev' \in Objs /\ queue' \in [Actors -> Seq(Events)]
    BY <1>1, ApiType DEF External
  <2> QED BY <1>1, <2>1 DEF External, TypeOK
<1>2. ASSUME NEW a \in Actors, CloseWatch(a) PROVE TypeOK'
  <2>1. queue' \in [Actors -> Seq(Events)]
    BY <1>2, QueueType DEF CloseWatch, TypeOK
  <2>2. closes' \in 0 .. MaxCloses /\ stream' \in [Actors -> {"none", "open", "closed"}]
    BY <1>2, BoundsAssumption DEF CloseWatch, TypeOK
  <2> QED BY <1>2, <2>1, <2>2 DEF CloseWatch, TypeOK
<1>3. ASSUME NEW a \in Actors, Fault(a) PROVE TypeOK'
  <2>1. faults' \in 0 .. MaxFaults /\ FetchFailed(a)
    BY <1>3, BoundsAssumption DEF Fault, StartWatchFails, FetchFails, TypeOK
  <2>2. pc' \in [Actors -> Labels]
    BY <2>1 DEF FetchFailed, Goto, TypeOK, Labels
  <2>3. /\ queued' \in [Controllers -> BOOLEAN]
        /\ registered' \in [Controllers -> BOOLEAN] /\ active' \in [Controllers -> BOOLEAN]
    BY <2>1 DEF FetchFailed, Requeue, TypeOK
  <2>4. stream' \in [Actors -> {"none", "open", "closed"}]
    BY <1>3 DEF Fault, StartWatchFails, FetchFails, TypeOK
  <2>5. queue' \in [Actors -> Seq(Events)]
    <3>1. queue' = queue \/ queue' = [queue EXCEPT ![a] = <<>>]
      BY <1>3 DEF Fault, StartWatchFails, FetchFails
    <3> QED BY <1>0, <3>1 DEF TypeOK
  <2> QED BY <1>3, <2>1, <2>2, <2>3, <2>4, <2>5 DEF Fault, StartWatchFails, FetchFails, TypeOK
<1>4. ASSUME NEW a \in Actors, StartWatch(a) PROVE TypeOK'
  <2>1. queue' \in [Actors -> Seq(Events)]
    BY <1>4, QueueType DEF StartWatch, TypeOK
  <2>2. pc' \in [Actors -> Labels]
    BY <1>4, GotoType DEF StartWatch, Labels
  <2> QED BY <1>4, <2>1, <2>2 DEF StartWatch, TypeOK
<1>5. ASSUME NEW a \in Actors, Fetch(a) PROVE TypeOK'
  <2>1. pc' \in [Actors -> Labels]
    BY <1>5, GotoType DEF Fetch, Labels
  <2>2. hand' \in [Actors -> [old : Objs, new : Objs]]
    BY <1>5 DEF Fetch, TypeOK
  <2> QED BY <1>5, <2>1, <2>2 DEF Fetch, TypeOK
<1>6. ASSUME NEW c \in Controllers, WriteFails(c) \/ WriteConflicts(c) PROVE TypeOK'
  <2>1. pc' \in [Actors -> Labels]
    BY <1>6, GotoType DEF WriteFails, WriteConflicts, Labels, Actors
  <2>2. faults' \in 0 .. MaxFaults
    BY <1>6, BoundsAssumption DEF WriteFails, WriteConflicts, TypeOK
  <2>3. queued' \in [Controllers -> BOOLEAN]
    BY <1>6 DEF WriteFails, WriteConflicts, Requeue, TypeOK
  <2> QED BY <1>6, <2>1, <2>2, <2>3 DEF WriteFails, WriteConflicts, TypeOK
<1>7. ASSUME NEW c \in Controllers, HandleCall(c) PROVE TypeOK'
  <2>1. calls' \in [Controllers -> Nat]
    BY <1>7 DEF HandleCall, TypeOK
  <2>2. queued' \in [Controllers -> BOOLEAN]
    BY <1>7 DEF HandleCall, TypeOK
  <2> QED BY <1>7, <2>1, <2>2 DEF HandleCall, TypeOK
<1>8. ASSUME NEW c \in Controllers, Dequeue(c) \/ SetActive(c) PROVE TypeOK'
  <2>1. pc' \in [Actors -> Labels]
    BY <1>8, GotoType DEF Dequeue, SetActive, AfterRegister, Labels, Actors
  <2>2. /\ queued' \in [Controllers -> BOOLEAN] /\ task' \in [Controllers -> {"read", "register"}]
        /\ active' \in [Controllers -> BOOLEAN] /\ registered' \in [Controllers -> BOOLEAN]
    BY <1>8 DEF Dequeue, SetActive, TypeOK
  <2> QED BY <1>8, <2>1, <2>2 DEF Dequeue, SetActive, TypeOK
<1>9. ASSUME NEW c \in Controllers, NEW obj \in Objs
      PROVE  /\ ReturnTo(c, obj) \in Labels
             /\ Returned(c, obj) => /\ seen' \in [Controllers -> Objs]
                                    /\ queued' \in [Controllers -> BOOLEAN]
  BY DEF ReturnTo, Returned, Labels, TypeOK
<1>10. ASSUME NEW c \in Controllers, LookupHit(c) \/ LookupMiss(c) PROVE TypeOK'
  <2>1. pc' \in [Actors -> Labels]
    <3>1. cached \in Objs /\ "watch" \in Labels
      BY DEF TypeOK, Labels
    <3> QED BY <1>9, <1>10, <3>1, GotoType DEF LookupHit, LookupMiss, Actors
  <2>2. seen' \in [Controllers -> Objs] /\ queued' \in [Controllers -> BOOLEAN]
    BY <1>9, <1>10 DEF LookupHit, LookupMiss, TypeOK
  <2> QED BY <1>10, <2>1, <2>2 DEF LookupHit, LookupMiss, TypeOK
<1>11. ASSUME NEW c \in Controllers, NEW g \in Goroutines, FillAndSpawn(c, g) PROVE TypeOK'
  <2>1. hand[c].new \in Objs /\ c \in Actors /\ g \in Actors
    BY DEF TypeOK, Actors
  <2>2. seen' \in [Controllers -> Objs] /\ queued' \in [Controllers -> BOOLEAN]
    BY <1>9, <1>11, <2>1 DEF FillAndSpawn
  <2>3. pc' \in [Actors -> Labels]
    BY <1>9, <1>11, <2>1 DEF FillAndSpawn, TypeOK, Labels
  <2>4. hand' \in [Actors -> [old : Objs, new : Objs]]
    BY <1>0, <1>11 DEF FillAndSpawn, TypeOK
  <2>5. stream' \in [Actors -> {"none", "open", "closed"}]
    BY <1>11, <2>1 DEF FillAndSpawn, TypeOK
  <2>7. queue' \in [Actors -> Seq(Events)]
    <3>1. queue' = [queue EXCEPT ![g] = queue[c], ![c] = <<>>] /\ queue[c] \in Seq(Events)
      BY <1>11, <2>1 DEF FillAndSpawn, TypeOK
    <3> QED BY <1>0, <3>1 DEF TypeOK
  <2>6. present' \in BOOLEAN /\ cached' \in Objs /\ handlers' \subseteq Controllers
    BY <1>11, <2>1 DEF FillAndSpawn, SetCacheObject, TypeOK
  <2> QED BY <1>11, <2>2, <2>3, <2>4, <2>5, <2>6, <2>7 DEF FillAndSpawn, TypeOK
<1>12. ASSUME NEW c \in Controllers, Attach(c) PROVE TypeOK'
  <2>1. pc' \in [Actors -> Labels]
    BY <1>12, GotoType DEF Attach, AfterRegister, Labels, Actors
  <2>2. queued' \in [Controllers -> BOOLEAN]
    BY <1>12 DEF Attach, Requeue, TypeOK
  <2>3. CASE present
    <3>1. task' \in [Controllers -> {"read", "register"}] /\ handlers' \subseteq Controllers
      BY <1>12, <2>3 DEF Attach, TypeOK
    <3> QED BY <1>12, <2>1, <2>2, <2>3, <3>1 DEF Attach, TypeOK
  <2>4. CASE ~present
    <3>1. active' \in [Controllers -> BOOLEAN] /\ registered' \in [Controllers -> BOOLEAN]
      BY <1>12, <2>4 DEF Attach, TypeOK
    <3> QED BY <1>12, <2>1, <2>2, <2>4, <3>1 DEF Attach, TypeOK
  <2> QED BY <2>3, <2>4
<1>13. ASSUME NEW c \in Controllers, Finish(c) \/ Invalidate(c) PROVE TypeOK'
  <2>1. pc' \in [Actors -> Labels]
    BY <1>13, GotoType DEF Finish, Invalidate, Labels, Actors
  <2> QED BY <1>0, <1>13, <2>1 DEF Finish, Invalidate, ClearEntry, TypeOK
<1>14. ASSUME NEW c \in Controllers, Write(c) PROVE TypeOK'
  <2>1. live' \in Objs /\ rev' \in Objs /\ queue' \in [Actors -> Seq(Events)]
    BY <1>14, ApiType DEF Write
  <2>2. pc' \in [Actors -> Labels]
    BY <1>14, GotoType DEF Write, Labels, Actors
  <2> QED BY <1>14, <2>1, <2>2 DEF Write, TypeOK
<1>15. ASSUME NEW g \in Goroutines, Receive(g) PROVE TypeOK'
  <2>1. g \in Actors /\ Head(queue[g]) \in Events /\ Tail(queue[g]) \in Seq(Events)
    BY <1>15, QueueType DEF Receive, Actors
  <2>2. pc' \in [Actors -> Labels]
    BY <1>15, <2>1, GotoType DEF Receive, Labels
  <2>3. queue' \in [Actors -> Seq(Events)]
    BY <1>15, <2>1 DEF Receive, TypeOK
  <2>4. hand' \in [Actors -> [old : Objs, new : Objs]]
    BY <1>0, <1>15, <2>1 DEF Receive, CachedObject, Events, TypeOK
  <2> QED BY <1>15, <2>2, <2>3, <2>4 DEF Receive, TypeOK
<1>16. ASSUME NEW g \in Goroutines, Store(g) \/ Fill(g) PROVE TypeOK'
  <2>1. g \in Actors /\ hand[g].new \in Objs
    BY DEF TypeOK, Actors
  <2>2. pc' \in [Actors -> Labels]
    BY <1>16, <2>1, GotoType DEF Store, Fill, Labels
  <2>3. present' \in BOOLEAN /\ cached' \in Objs /\ handlers' \subseteq Controllers
    BY <1>0, <1>16, <2>1 DEF Store, Fill, SetCacheObject, RemoveFromCache, TypeOK
  <2> QED BY <1>16, <2>2, <2>3 DEF Store, Fill, TypeOK
<1>17. ASSUME NEW g \in Goroutines, Notify(g) PROVE TypeOK'
  <2>1. pc' \in [Actors -> Labels]
    BY <1>17, GotoType DEF Notify, Labels, Actors
  <2>2. calls' \in [Controllers -> Nat]
    BY <1>17 DEF Notify, CallHandlers, TypeOK
  <2>3. hand' \in [Actors -> [old : Objs, new : Objs]]
    BY <1>0, <1>17 DEF Notify, TypeOK
  <2> QED BY <1>17, <2>1, <2>2, <2>3 DEF Notify, TypeOK
<1>18. ASSUME NEW g \in Goroutines, Reestablish(g) PROVE TypeOK'
  <2>1. pc' \in [Actors -> Labels]
    BY <1>18, GotoType DEF Reestablish, Labels, Actors
  <2>2. hand' \in [Actors -> [old : Objs, new : Objs]]
    BY <1>0, <1>18 DEF Reestablish, CachedObject, TypeOK
  <2> QED BY <1>18, <2>1, <2>2 DEF Reestablish, TypeOK
<1>19. ASSUME NEW g \in Goroutines, Exit(g) PROVE TypeOK'
  <2>1. pc' \in [Actors -> Labels]
    BY <1>19, GotoType DEF Exit, Labels, Actors
  <2>2. hand' \in [Actors -> [old : Objs, new : Objs]]
    BY <1>0, <1>19 DEF Exit, TypeOK
  <2>3. stream' \in [Actors -> {"none", "open", "closed"}]
    BY <1>19 DEF Exit, TypeOK
  <2>4. queue' \in [Actors -> Seq(Events)]
    <3>1. queue' = [queue EXCEPT ![g] = <<>>]
      BY <1>19 DEF Exit
    <3> QED BY <1>0, <3>1 DEF TypeOK
  <2> QED BY <1>0, <1>19, <2>1, <2>2, <2>3, <2>4 DEF Exit, ClearEntry, TypeOK
<1>20. CASE UNCHANGED vars
  BY <1>20 DEF vars, TypeOK
<1> QED
  BY <1>1, <1>2, <1>3, <1>4, <1>5, <1>6, <1>7, <1>8, <1>10, <1>11, <1>12, <1>13,
     <1>14, <1>15, <1>16, <1>17, <1>18, <1>19, <1>20
  DEF Next, ControllerStep, GoroutineStep, Actors

\* The variables of the cache, its goroutines and its controllers keep their types.
THEOREM TypeCorrect == Spec => []TypeOK
BY TypeInit, TypeNext, PTL DEF Spec

-----------------------------------------------------------------------------
\* The steps that leave the API server, the watches and the queues alone.
Offline ==
    \/ \E a \in Actors : StartWatchFails(a) \/ Fetch(a)
    \/ \E c \in Controllers :
          \/ WriteFails(c) \/ WriteConflicts(c) \/ HandleCall(c) \/ Dequeue(c) \/ SetActive(c)
          \/ LookupHit(c) \/ LookupMiss(c) \/ Attach(c) \/ Finish(c) \/ Invalidate(c)
    \/ \E g \in Goroutines : Store(g) \/ Fill(g) \/ Notify(g) \/ Reestablish(g)
    \/ UNCHANGED vars

LEMMA OfflineQueues == Offline => UNCHANGED <<live, stream, queue>>
BY DEF Offline, StartWatchFails, Fetch, WriteFails, WriteConflicts, HandleCall, Dequeue,
       SetActive, LookupHit, LookupMiss, Attach, Finish, Invalidate, Store, Fill, Notify,
       Reestablish, vars, api, watches

LEMMA NextCases ==
    ASSUME [Next]_vars
    PROVE  \/ Offline \/ External
           \/ \E a \in Actors : CloseWatch(a) \/ StartWatch(a) \/ FetchFails(a)
           \/ \E c \in Controllers : Write(c) \/ \E g \in Goroutines : FillAndSpawn(c, g)
           \/ \E g \in Goroutines : Receive(g) \/ Exit(g)
BY DEF Next, ControllerStep, GoroutineStep, Fault, Offline, Actors

\* Taking an event leaves the last one in place, and the last one is taken last.
LEMMA TailLast ==
    ASSUME NEW s \in Seq(Events), s # <<>>
    PROVE  /\ Tail(s) # <<>> => Tail(s)[Len(Tail(s))] = s[Len(s)]
           /\ Tail(s) = <<>> => Head(s) = s[Len(s)]
<1>1. Len(s) \in Nat \ {0} /\ Head(s) = s[1]
  OBVIOUS
<1>2. Tail(s) \in Seq(Events) /\ Len(Tail(s)) = Len(s) - 1
  OBVIOUS
<1>3. \A i \in 1 .. Len(Tail(s)) : Tail(s)[i] = s[i + 1]
  OBVIOUS
<1>4. ASSUME Tail(s) # <<>> PROVE Len(Tail(s)) \in 1 .. Len(Tail(s))
  BY <1>1, <1>2, <1>4
<1>5. ASSUME Tail(s) = <<>> PROVE Len(s) = 1
  <2>1. Len(Tail(s)) = 0
    BY <1>2, <1>5, EmptySeq
  <2>2. Len(s) \in Nat /\ Len(s) - 1 = 0
    BY <1>1, <1>2, <2>1
  <2> QED BY <2>2
<1> QED BY <1>1, <1>2, <1>3, <1>4, <1>5

\* The last event of an open watch is the object as it is: kept by every step.
LEMMA WatchCompleteNext ==
    ASSUME TypeOK, WatchComplete, [Next]_vars
    PROVE  WatchComplete'
<1> SUFFICES ASSUME NEW b \in Actors, stream'[b] = "open", queue'[b] # <<>>
             PROVE  Left(queue'[b][Len(queue'[b])]) = live'
  BY DEF WatchComplete, Left
<1> USE DEF api, watches
<1>0. stream[b] = "open" /\ queue[b] # <<>> => Left(queue[b][Len(queue[b])]) = live
  BY DEF WatchComplete
<1>1. CASE Offline
  BY <1>0, <1>1, OfflineQueues DEF Left
<1>2. CASE External \/ \E c \in Controllers : Write(c)
  <2>1. (ApiCreate \/ ApiUpdate \/ ApiDelete) /\ stream' = stream
    BY <1>2 DEF External, Write
  <2> QED BY <2>1, ApiPublished DEF Left
<1>3. ASSUME NEW a \in Actors, CloseWatch(a) \/ FetchFails(a)
      PROVE  Left(queue'[b][Len(queue'[b])]) = live'
  <2>1. a # b /\ queue'[b] = queue[b] /\ stream'[b] = stream[b] /\ live' = live
    BY <1>3 DEF CloseWatch, FetchFails, TypeOK
  <2> QED BY <1>0, <2>1 DEF Left
<1>4. ASSUME NEW a \in Actors, StartWatch(a)
      PROVE  Left(queue'[b][Len(queue'[b])]) = live'
  <2>1. live' = live /\ queue'[b] = IF a = b THEN InitialEvents ELSE queue[b]
    BY <1>4 DEF StartWatch, TypeOK
  <2>2. CASE a = b
    <3>1. queue'[b] = <<Event("Added", live)>>
      BY <2>1, <2>2 DEF InitialEvents
    <3> QED BY <2>1, <3>1 DEF Left, Event
  <2>3. CASE a # b
    BY <1>0, <1>4, <2>1, <2>3 DEF StartWatch, TypeOK, Left
  <2> QED BY <2>2, <2>3
<1>5. ASSUME NEW c \in Controllers, NEW g \in Goroutines, FillAndSpawn(c, g)
      PROVE  Left(queue'[b][Len(queue'[b])]) = live'
  <2>1. c \in Actors /\ g \in Actors /\ c # g
    BY ActorsAssumption DEF Actors
  <2>2. b # c /\ live' = live
    BY <1>5, <2>1 DEF FillAndSpawn, TypeOK
  <2>3. CASE b = g
    <3>1. queue'[b] = queue[c] /\ stream[c] = "open"
      BY <1>5, <2>1, <2>3 DEF FillAndSpawn, TypeOK
    <3> QED BY <2>1, <2>2, <3>1 DEF WatchComplete, Left
  <2>4. CASE b # g
    <3>1. queue'[b] = queue[b] /\ stream[b] = "open"
      BY <1>5, <2>1, <2>2, <2>4 DEF FillAndSpawn, TypeOK
    <3> QED BY <1>0, <2>2, <3>1 DEF Left
  <2> QED BY <2>3, <2>4
<1>6. ASSUME NEW g \in Goroutines, Receive(g) PROVE Left(queue'[b][Len(queue'[b])]) = live'
  <2>1. /\ live' = live /\ stream[b] = "open"
        /\ queue'[b] = IF b = g THEN Tail(queue[b]) ELSE queue[b]
    BY <1>6 DEF Receive, TypeOK
  <2>2. queue[b] # <<>> /\ queue'[b][Len(queue'[b])] = queue[b][Len(queue[b])]
    BY <1>6, <2>1, TailLast DEF Receive, TypeOK
  <2> QED BY <1>0, <2>1, <2>2 DEF Left
<1>7. ASSUME NEW g \in Goroutines, Exit(g) PROVE Left(queue'[b][Len(queue'[b])]) = live'
  <2>1. b # g /\ queue'[b] = queue[b] /\ stream[b] = "open" /\ live' = live
    BY <1>7 DEF Exit, TypeOK
  <2> QED BY <1>0, <2>1 DEF Left
<1> QED BY <1>1, <1>2, <1>3, <1>4, <1>5, <1>6, <1>7, NextCases

\* What an actor has in hand when nothing is left in its open watch is the object
\* as it is: kept by every step.
LEMMA HandFreshNext ==
    ASSUME TypeOK, WatchComplete, HandFresh, [Next]_vars
    PROVE  HandFresh'
<1> SUFFICES ASSUME NEW b \in Actors, stream'[b] = "open", queue'[b] = <<>>,
                    pc'[b] \in {"store", "fill"}
             PROVE  hand'[b].new = live'
  BY DEF HandFresh
<1> USE DEF api, watches
<1>0. stream[b] = "open" /\ queue[b] = <<>> /\ pc[b] \in {"store", "fill"} => hand[b].new = live
  BY DEF HandFresh
<1>1. CASE External \/ \E c \in Controllers : Write(c)
  <2>1. (ApiCreate \/ ApiUpdate \/ ApiDelete) /\ stream' = stream
    BY <1>1 DEF External, Write
  <2> QED BY <2>1, ApiPublished
<1>2. ASSUME NEW a \in Actors, Fetch(a) PROVE hand'[b].new = live'
  <2>1. live' = live /\ stream' = stream /\ queue' = queue
    BY <1>2 DEF Fetch
  <2>2. CASE a = b
    BY <1>2, <2>1, <2>2 DEF Fetch, TypeOK
  <2>3. CASE a # b
    BY <1>0, <1>2, <2>1, <2>3 DEF Fetch, Goto, TypeOK
  <2> QED BY <2>2, <2>3
<1>3. ASSUME NEW g \in Goroutines, Receive(g) PROVE hand'[b].new = live'
  <2>1. g \in Actors /\ live' = live /\ stream' = stream
    BY <1>3 DEF Receive, Actors
  <2>2. CASE b = g
    <3>1. queue[g] \in Seq(Events) /\ queue[g] # <<>> /\ Tail(queue[g]) = <<>>
      BY <1>3, <2>1, <2>2 DEF Receive, TypeOK
    <3>2. Head(queue[g]) = queue[g][Len(queue[g])] /\ Head(queue[g]) \in Events
      BY <3>1, TailLast, QueueType, <2>1
    <3>3. Left(Head(queue[g])) = live
      BY <2>1, <2>2, <3>1, <3>2 DEF WatchComplete
    <3>4. hand'[g].new = Left(Head(queue[g]))
      BY <1>3, <2>1, <3>2 DEF Receive, Left, Events, TypeOK
    <3> QED BY <2>1, <2>2, <3>3, <3>4
  <2>3. CASE b # g
    <3>1. queue'[b] = queue[b] /\ hand'[b] = hand[b] /\ pc'[b] = pc[b]
      BY <1>3, <2>1, <2>3 DEF Receive, Goto, TypeOK
    <3> QED BY <1>0, <2>1, <3>1
  <2> QED BY <2>2, <2>3
<1>4. ASSUME NEW c \in Controllers, NEW g \in Goroutines, FillAndSpawn(c, g)
      PROVE  hand'[b].new = live'
  <2>1. c \in Actors /\ g \in Actors /\ c # g
    BY ActorsAssumption DEF Actors
  <2>2. b # c /\ b # g /\ live' = live
    BY <1>4, <2>1 DEF FillAndSpawn, TypeOK
  <2>3. queue'[b] = queue[b] /\ stream'[b] = stream[b] /\ hand'[b] = hand[b] /\ pc'[b] = pc[b]
    BY <1>4, <2>1, <2>2 DEF FillAndSpawn, TypeOK
  <2> QED BY <1>0, <2>2, <2>3
<1>5. ASSUME NEW a \in Actors, CloseWatch(a) \/ StartWatch(a) \/ StartWatchFails(a) \/ FetchFails(a)
      PROVE  hand'[b].new = live'
  <2>1. hand' = hand /\ live' = live
    BY <1>5 DEF CloseWatch, StartWatch, StartWatchFails, FetchFails
  <2>2. CASE b # a
    <3>1. stream'[b] = stream[b] /\ queue'[b] = queue[b] /\ pc'[b] = pc[b]
      BY <1>5, <2>2
      DEF CloseWatch, StartWatch, StartWatchFails, FetchFails, FetchFailed, Goto, TypeOK
    <3> QED BY <1>0, <2>1, <3>1
  <2>3. CASE b = a
    BY <1>5, <2>3
    DEF CloseWatch, StartWatch, StartWatchFails, FetchFails, FetchFailed, Goto, TypeOK
  <2> QED BY <2>2, <2>3
<1>6. ASSUME NEW g \in Goroutines, Store(g) \/ Fill(g) \/ Notify(g) \/ Reestablish(g) \/ Exit(g)
      PROVE  hand'[b].new = live'
  <2>1. g \in Actors /\ live' = live
    BY <1>6 DEF Store, Fill, Notify, Reestablish, Exit, Actors
  <2>2. b # g
    BY <1>6, <2>1 DEF Store, Fill, Notify, Reestablish, Exit, Goto, TypeOK
  <2>3. stream'[b] = stream[b] /\ queue'[b] = queue[b] /\ hand'[b] = hand[b] /\ pc'[b] = pc[b]
    BY <1>6, <2>1, <2>2 DEF Store, Fill, Notify, Reestablish, Exit, Goto, TypeOK
  <2> QED BY <1>0, <2>1, <2>3
<1>7. ASSUME NEW c \in Controllers,
             \/ WriteFails(c) \/ WriteConflicts(c) \/ Dequeue(c) \/ SetActive(c)
             \/ LookupMiss(c) \/ Attach(c) \/ Finish(c) \/ Invalidate(c)
      PROVE  hand'[b].new = live'
  <2>1. c \in Actors /\ live' = live /\ stream' = stream /\ queue' = queue /\ hand' = hand
    BY <1>7 DEF WriteFails, WriteConflicts, Dequeue, SetActive, LookupMiss, Attach, Finish,
                Invalidate, Actors
  <2>2. pc'[b] = pc[b]
    BY <1>7, <2>1 DEF WriteFails, WriteConflicts, Dequeue, SetActive, AfterRegister, LookupMiss,
                      Attach, Finish, Invalidate, Goto, TypeOK
  <2> QED BY <1>0, <2>1, <2>2
<1>8. ASSUME NEW c \in Controllers, LookupHit(c) PROVE hand'[b].new = live'
  <2>1. c \in Actors /\ live' = live /\ stream' = stream /\ queue' = queue /\ hand' = hand
    BY <1>8 DEF LookupHit, Actors
  <2>2. ReturnTo(c, cached) \notin {"store", "fill"}
    BY DEF ReturnTo, TypeOK
  <2>3. pc'[b] = pc[b]
    BY <1>8, <2>1, <2>2 DEF LookupHit, Goto, TypeOK
  <2> QED BY <1>0, <2>1, <2>3
<1>9. CASE UNCHANGED vars \/ \E c \in Controllers : HandleCall(c)
  BY <1>0, <1>9 DEF vars, HandleCall
<1> QED BY <1>1, <1>2, <1>3, <1>4, <1>5, <1>6, <1>7, <1>8, <1>9
        DEF Next, ControllerStep, GoroutineStep, Fault, Actors

\* A step that keeps the entry's object, the API server's and the running
\* goroutines with their watches keeps coherence.
LEMMA Quiet ==
    ASSUME EntryIsFed, CacheCoherent, UNCHANGED <<live, cached>>, present' => present,
           \A g \in Goroutines : /\ pc'[g] = pc[g] /\ stream'[g] = stream[g]
                                 /\ queue'[g] = queue[g]
    PROVE  EntryIsFed' /\ CacheCoherent'
BY DEF EntryIsFed, CacheCoherent, Running, Drained

\* A step after which some running goroutine is not drained, and that creates no
\* entry, keeps coherence.
LEMMA Busy ==
    ASSUME NEW g \in Goroutines, pc'[g] # "none", ~Drained(g)'
    PROVE  EntryIsFed' /\ CacheCoherent'
BY DEF EntryIsFed, CacheCoherent, Running

\* An accepted write leaves every running goroutine with something to apply.
LEMMA WriteCoherent ==
    ASSUME TypeOK, EntryIsFed, ApiCreate \/ ApiUpdate \/ ApiDelete,
           UNCHANGED <<present, stream>>,
           \A g \in Goroutines : pc'[g] = pc[g]
    PROVE  EntryIsFed' /\ CacheCoherent'
<1>1. CASE ~present
  BY <1>1 DEF EntryIsFed, CacheCoherent
<1>2. CASE present
  <2>1. PICK g \in Goroutines : pc[g] # "none"
    BY <1>2 DEF EntryIsFed, Running
  <2>2. stream[g] = "open" => queue'[g] # <<>>
    BY ApiPublished DEF Actors
  <2>3. pc'[g] # "none" /\ ~Drained(g)'
    BY <2>1, <2>2 DEF Drained
  <2> QED BY <2>3, Busy
<1> QED BY <1>1, <1>2 DEF TypeOK

LEMMA CoherentNext ==
    ASSUME IInv, [Next]_vars
    PROVE  EntryIsFed' /\ CacheCoherent'
<1> USE DEF api, entry, watches
<1>0. TypeOK /\ WatchComplete /\ HandFresh /\ EntryIsFed /\ CacheCoherent
  BY DEF IInv
<1>1. \A c \in Controllers, g \in Goroutines : c \in Actors /\ g \in Actors /\ c # g
  BY ActorsAssumption DEF Actors
<1>2. CASE External
  BY <1>0, <1>2, WriteCoherent DEF External
<1>3. ASSUME NEW c \in Controllers, Write(c) PROVE EntryIsFed' /\ CacheCoherent'
  <2>1. \A g \in Goroutines : pc'[g] = pc[g]
    BY <1>0, <1>1, <1>3 DEF Write, Goto, TypeOK
  <2> QED BY <1>0, <1>3, <2>1, WriteCoherent DEF Write
<1>4. ASSUME NEW a \in Actors, CloseWatch(a) PROVE EntryIsFed' /\ CacheCoherent'
  <2>1. CASE a \in Goroutines /\ pc[a] # "none"
    <3>1. pc'[a] # "none" /\ ~Drained(a)'
      BY <1>0, <1>4, <2>1 DEF CloseWatch, Drained, TypeOK
    <3> QED BY <2>1, <3>1, Busy
  <2>2. CASE a \notin Goroutines \/ pc[a] = "none"
    <3>1. \A g \in Running : /\ pc'[g] = pc[g] /\ stream'[g] = stream[g] /\ queue'[g] = queue[g]
      BY <1>0, <1>1, <1>4, <2>2 DEF CloseWatch, Running, TypeOK
    <3>2. Running' = Running /\ UNCHANGED <<live, cached, present>>
      BY <1>4 DEF CloseWatch, Running
    <3> QED BY <1>0, <3>1, <3>2 DEF EntryIsFed, CacheCoherent, Drained
  <2> QED BY <2>1, <2>2
<1>5. ASSUME NEW c \in Controllers,
             \/ StartWatch(c) \/ Fetch(c) \/ StartWatchFails(c) \/ FetchFails(c)
             \/ WriteFails(c) \/ WriteConflicts(c) \/ HandleCall(c) \/ Dequeue(c) \/ SetActive(c)
             \/ LookupHit(c) \/ LookupMiss(c) \/ Attach(c) \/ Finish(c)
      PROVE  EntryIsFed' /\ CacheCoherent'
  <2>1. UNCHANGED <<live, cached, present>>
    BY <1>5 DEF StartWatch, Fetch, StartWatchFails, FetchFails, WriteFails, WriteConflicts,
                HandleCall, Dequeue, SetActive, LookupHit, LookupMiss, Attach, Finish
  <2>2. \A g \in Goroutines : stream'[g] = stream[g] /\ queue'[g] = queue[g]
    BY <1>0, <1>1, <1>5
    DEF StartWatch, Fetch, StartWatchFails, FetchFails, WriteFails, WriteConflicts,
        HandleCall, Dequeue, SetActive, LookupHit, LookupMiss, Attach, Finish, TypeOK
  <2>3. \A g \in Goroutines : pc'[g] = pc[g]
    BY <1>0, <1>1, <1>5
    DEF StartWatch, Fetch, StartWatchFails, FetchFails, FetchFailed, WriteFails, WriteConflicts,
        HandleCall, Dequeue, SetActive, LookupHit, LookupMiss, Attach, Finish, Goto, TypeOK
  <2> QED BY <1>0, <2>1, <2>2, <2>3, Quiet
<1>6. CASE (\E c \in Controllers : Invalidate(c)) \/ (\E g \in Goroutines : Exit(g))
  BY <1>6 DEF Invalidate, Exit, ClearEntry, EntryIsFed, CacheCoherent
<1>7. ASSUME NEW c \in Controllers, NEW g \in Goroutines, FillAndSpawn(c, g)
      PROVE  EntryIsFed' /\ CacheCoherent'
  <2>1. /\ pc'[g] = "loop" /\ stream'[g] = stream[c] /\ queue'[g] = queue[c]
        /\ pc[c] = "fill" /\ cached' = hand[c].new /\ live' = live
    BY <1>0, <1>1, <1>7 DEF FillAndSpawn, SetCacheObject, TypeOK
  <2>2. CASE stream[c] = "open" /\ queue[c] = <<>>
    <3>1. cached' = live'
      BY <1>0, <1>1, <2>1, <2>2 DEF HandFresh
    <3>2. g \in Running'
      BY <2>1 DEF Running
    <3> QED BY <3>1, <3>2 DEF EntryIsFed, CacheCoherent
  <2>3. CASE ~(stream[c] = "open" /\ queue[c] = <<>>)
    BY <2>1, <2>3, Busy DEF Drained
  <2> QED BY <2>2, <2>3
<1>8. ASSUME NEW g \in Goroutines, Store(g) \/ Fill(g) PROVE EntryIsFed' /\ CacheCoherent'
  <2>1. /\ pc'[g] = "notify" /\ stream' = stream /\ queue' = queue /\ live' = live
        /\ pc[g] \in {"store", "fill"}
    BY <1>0, <1>1, <1>8 DEF Store, Fill, Goto, TypeOK, Actors
  <2>2. present' => cached' = hand[g].new
    BY <1>0, <1>8 DEF Store, Fill, SetCacheObject, RemoveFromCache, TypeOK
  <2>3. CASE stream[g] = "open" /\ queue[g] = <<>>
    <3>1. hand[g].new = live
      BY <1>0, <2>1, <2>3 DEF HandFresh, Actors
    <3>2. g \in Running'
      BY <2>1 DEF Running
    <3> QED BY <2>1, <2>2, <3>1, <3>2 DEF EntryIsFed, CacheCoherent
  <2>4. CASE ~(stream[g] = "open" /\ queue[g] = <<>>)
    BY <2>1, <2>4, Busy DEF Drained
  <2> QED BY <2>3, <2>4
<1>9. ASSUME NEW g \in Goroutines, Notify(g) PROVE EntryIsFed' /\ CacheCoherent'
  <2>1. /\ pc[g] = "notify" /\ pc'[g] = "loop" /\ stream' = stream /\ queue' = queue
        /\ UNCHANGED <<live, cached, present>>
    BY <1>0, <1>9 DEF Notify, Goto, TypeOK, Actors
  <2>2. \A h \in Goroutines : h # g => pc'[h] = pc[h]
    BY <1>0, <1>9 DEF Notify, Goto, TypeOK, Actors
  <2>3. Running' = Running /\ \A h \in Running : Drained(h)' = Drained(h)
    BY <2>1, <2>2 DEF Running, Drained
  <2> QED BY <1>0, <2>1, <2>3 DEF EntryIsFed, CacheCoherent
<1>10. ASSUME NEW g \in Goroutines,
              \/ Receive(g) \/ Reestablish(g) \/ StartWatch(g) \/ Fetch(g)
              \/ StartWatchFails(g) \/ FetchFails(g)
       PROVE  EntryIsFed' /\ CacheCoherent'
  <2>1. pc'[g] \in {"store", "watch", "get", "fill", "exit"}
    BY <1>0, <1>10 DEF Receive, Reestablish, StartWatch, Fetch, StartWatchFails, FetchFails,
                       FetchFailed, Goto, TypeOK, Actors
  <2> QED BY <2>1, Busy DEF Drained
<1>11. CASE UNCHANGED vars
  BY <1>0, <1>11, Quiet DEF vars
<1> QED
  BY <1>2, <1>3, <1>4, <1>5, <1>6, <1>7, <1>8, <1>9, <1>10, <1>11
  DEF Next, ControllerStep, GoroutineStep, Fault, Actors

LEMMA IInvInit == Init => IInv
<1> SUFFICES ASSUME Init PROVE IInv
  OBVIOUS
<1>1. WatchComplete /\ HandFresh
  BY DEF Init, WatchComplete, HandFresh
<1> QED BY <1>1, TypeInit DEF Init, IInv, EntryIsFed, CacheCoherent

LEMMA IInvNext == IInv /\ [Next]_vars => IInv'
BY TypeNext, WatchCompleteNext, HandFreshNext, CoherentNext DEF IInv

\* The cache is never stale indefinitely, whatever the interleaving of the
\* controllers with the goroutines of updateCache, and whichever calls fail.
THEOREM Coherence == Spec => []CacheCoherent
<1>1. IInv => CacheCoherent
  BY DEF IInv
<1> QED BY <1>1, IInvInit, IInvNext, PTL DEF Spec

\* No entry is left without a goroutine of updateCache behind it.
THEOREM EntryFed == Spec => []EntryIsFed
<1>1. IInv => EntryIsFed
  BY DEF IInv
<1> QED BY <1>1, IInvInit, IInvNext, PTL DEF Spec

=============================================================================
