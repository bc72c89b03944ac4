------------------------- MODULE ClusterInfoProofs -------------------------
(***************************************************************************)
(* For any APIs and any bounds: the state of ClusterInfo is well typed,    *)
(* and a process that got through its startup knows its platform.          *)
(*                                                                         *)
(* PlatformKnown is not inductive: that a cluster is not OpenShift is      *)
(* known of the API server, while a thread writes what it read before it   *)
(* took the lock.  NotOpenShift says that no thread holds the API of a     *)
(* platform that is not there.                                             *)
(***************************************************************************)
EXTENDS ClusterInfo, TLAPS

NotOpenShift ==
    ~OpenShift => /\ "OCPSecurity" \notin apis
                  /\ \A t \in Threads : "OCPSecurity" \notin found[t]

PInv == TypeOK /\ PlatformKnown /\ NotOpenShift

\* The initial states satisfy the invariant: nothing is known yet.
LEMMA InitPInv == Init => PInv
  BY ClusterAssumption DEF Init, PInv, TypeOK, PlatformKnown, NotOpenShift, OpenShift, Threads, NormalRefresh

\* setInfo makes the information ready, under the platform that is known now.
LEMMA SetInfoFacts ==
  ASSUME TypeOK, NEW ips \in BOOLEAN, SetInfo(ips)
  PROVE  /\ info' \in [ready : BOOLEAN, openshift : BOOLEAN, ips : BOOLEAN]
         /\ info'.openshift = ("OCPSecurity" \in apis)
<1> DEFINE openshift == "OCPSecurity" \in apis
           known == info.ips \/ ips
<1>1. openshift \in BOOLEAN /\ known \in BOOLEAN
  OBVIOUS
<1>2. info' = [ready |-> TRUE, openshift |-> openshift, ips |-> known]
  BY DEF SetInfo
<1> HIDE DEF openshift, known
<1>3. info' \in [ready : BOOLEAN, openshift : BOOLEAN, ips : BOOLEAN] /\ info'.openshift = openshift
  BY <1>1, <1>2
<1> QED BY <1>3 DEF openshift

\* Every step keeps the types (all the actions of ClusterInfo).
LEMMA TypeStep == TypeOK /\ [Next]_vars => TypeOK'
<1> SUFFICES ASSUME TypeOK, [Next]_vars PROVE TypeOK'
  OBVIOUS
<1> USE ClusterAssumption DEF server, startup, threads, reports, Threads
<1>1. CASE Change
  BY <1>1 DEF TypeOK, Change
<1>2. CASE Discover
  BY <1>2 DEF TypeOK, Discover, Retry, Served
<1>3. CASE FetchTLSProfile
  BY <1>3 DEF TypeOK, FetchTLSProfile
<1>4. CASE StartupFails
  BY <1>4 DEF TypeOK, StartupFails, Retry, Fault
<1>5. CASE PostCreate
  <2>1. info' \in [ready : BOOLEAN, openshift : BOOLEAN, ips : BOOLEAN]
    BY <1>5, SetInfoFacts DEF PostCreate
  <2>2. UNCHANGED faults \/ Fault
    BY <1>5 DEF PostCreate
  <2>3. /\ phase' = "running" /\ pc' = [pc EXCEPT !["refresher"] = "timer"]
        /\ UNCHANGED <<server, attempts, apis, found, lock, interval, reports>>
    BY <1>5 DEF PostCreate
  <2> QED BY <2>1, <2>2, <2>3 DEF TypeOK, Fault
<1>6. CASE PostCreateFails
  BY <1>6 DEF TypeOK, PostCreateFails, Fault
<1>7. ASSUME NEW t \in Threads, Discovery(t) PROVE TypeOK'
  <2>1. CASE ServerGroupsAndResources(t)
    BY <2>1 DEF TypeOK, ServerGroupsAndResources, Served
  <2>2. CASE Lock(t)
    BY <2>2 DEF TypeOK, Lock
  <2>3. CASE Update(t)
    BY <2>3 DEF TypeOK, Update
  <2> QED BY <1>7, <2>1, <2>2, <2>3 DEF Discovery
<1>8. CASE Timer
  BY <1>8 DEF TypeOK, Timer
<1>9. CASE Refresh
  <2>1. info' \in [ready : BOOLEAN, openshift : BOOLEAN, ips : BOOLEAN]
    BY <1>9, SetInfoFacts DEF Refresh
  <2>2. UNCHANGED faults \/ Fault
    BY <1>9 DEF Refresh
  <2>3. /\ unreported' = {} /\ interval' = NormalRefresh /\ pc' = [pc EXCEPT !["refresher"] = "timer"]
        /\ UNCHANGED <<server, startup, apis, found, lock, callbacks>>
    BY <1>9 DEF Refresh
  <2> QED BY <2>1, <2>2, <2>3 DEF TypeOK, Fault, NormalRefresh
<1>10. CASE RefreshFails
  <2>1. interval' \in {1, 2, 4, 8, 16, 20}
    BY <1>10 DEF TypeOK, RefreshFails, Backoff, NormalRefresh, InitialRetry, MaxRetry
  <2> QED BY <1>10, <2>1 DEF TypeOK, RefreshFails, Fault
<1>11. CASE HasLokiStack
  BY <1>11 DEF TypeOK, HasLokiStack
<1>12. CASE HasLokiStackFails
  BY <1>12 DEF TypeOK, HasLokiStackFails, Fault
<1>13. CASE MapRace
  BY <1>13 DEF TypeOK, MapRace
<1>14. CASE RunCallback
  BY <1>14 DEF TypeOK, RunCallback
<1>15. CASE UNCHANGED vars
  BY <1>15 DEF TypeOK, vars
<1> QED
  BY <1>1, <1>2, <1>3, <1>4, <1>5, <1>6, <1>7, <1>8, <1>9, <1>10, <1>11, <1>12, <1>13, <1>14, <1>15
  DEF Next, Startup, Refresher, Reader

\* Every step keeps what is known of the platform: Discover leaves the startup only
\* with an answer, and the threads can only add what is served.
LEMMA PlatformStep == PInv /\ [Next]_vars => PlatformKnown' /\ NotOpenShift'
<1> SUFFICES ASSUME PInv, [Next]_vars PROVE PlatformKnown' /\ NotOpenShift'
  OBVIOUS
<1> USE ClusterAssumption DEF server, startup, threads, reports, Threads
<1>1. CASE Change
  BY <1>1 DEF PInv, TypeOK, PlatformKnown, NotOpenShift, OpenShift, Change
<1>2. CASE Discover
  <2>1. NotOpenShift'
    BY <1>2 DEF PInv, NotOpenShift, OpenShift, Discover, Served
  <2>2. ~Critical => ("OCPSecurity" \in apis' <=> OpenShift)
    BY <1>2 DEF PInv, TypeOK, NotOpenShift, OpenShift, Discover, Served, Critical
  <2>3. Critical => phase' \in {"discover", "exited"}
    BY <1>2 DEF Discover, Retry
  <2>4. info' = info /\ OpenShift' = OpenShift
    BY <1>2 DEF Discover, OpenShift
  <2>5. ~Critical => phase' \in {"tls", "start"}
    BY <1>2 DEF Discover
  <2> QED BY <2>1, <2>2, <2>3, <2>4, <2>5 DEF PInv, PlatformKnown
<1>3. CASE FetchTLSProfile
  BY <1>3 DEF PInv, PlatformKnown, NotOpenShift, OpenShift, FetchTLSProfile
<1>4. CASE StartupFails
  BY <1>4 DEF PInv, PlatformKnown, NotOpenShift, OpenShift, StartupFails, Retry
<1>5. CASE PostCreate \/ Refresh
  <2>1. PICK ips \in BOOLEAN : SetInfo(ips)
    BY <1>5 DEF PostCreate, Refresh
  <2>2. info'.openshift = OpenShift
    <3>1. "OCPSecurity" \in apis <=> OpenShift
      BY <1>5 DEF PInv, PlatformKnown, PostCreate, Refresh, Alive
    <3>2. info'.openshift = ("OCPSecurity" \in apis)
      BY <2>1, SetInfoFacts DEF PInv
    <3> QED BY <3>1, <3>2 DEF OpenShift
  <2>3. phase \in {"start", "running"} /\ phase' \in {"start", "running"}
    BY <1>5 DEF PostCreate, Refresh, Alive
  <2>4. UNCHANGED <<apis, serving, found>>
    BY <1>5 DEF PostCreate, Refresh
  <2> QED BY <2>2, <2>3, <2>4 DEF PInv, PlatformKnown, NotOpenShift, OpenShift
<1>6. CASE PostCreateFails
  BY <1>6 DEF PInv, PlatformKnown, NotOpenShift, OpenShift, PostCreateFails
<1>7. ASSUME NEW t \in Threads, Discovery(t) PROVE PlatformKnown' /\ NotOpenShift'
  <2>1. CASE ServerGroupsAndResources(t)
    BY <2>1 DEF PInv, TypeOK, PlatformKnown, NotOpenShift, OpenShift, ServerGroupsAndResources, Served
  <2>2. CASE Lock(t)
    BY <2>2 DEF PInv, PlatformKnown, NotOpenShift, OpenShift, Lock
  <2>3. CASE Update(t)
    BY <2>3 DEF PInv, TypeOK, PlatformKnown, NotOpenShift, OpenShift, Update, Alive
  <2> QED BY <1>7, <2>1, <2>2, <2>3 DEF Discovery
<1>8. CASE Timer \/ RefreshFails \/ HasLokiStack \/ HasLokiStackFails \/ RunCallback \/ UNCHANGED vars
  <2> UNCHANGED <<serving, phase, apis, info, found>>
    BY <1>8 DEF Timer, RefreshFails, HasLokiStack, HasLokiStackFails, RunCallback, vars
  <2> QED BY DEF PInv, PlatformKnown, NotOpenShift, OpenShift
<1>9. CASE MapRace
  BY <1>9 DEF PInv, PlatformKnown, NotOpenShift, OpenShift, MapRace
<1> QED
  BY <1>1, <1>2, <1>3, <1>4, <1>5, <1>6, <1>7, <1>8, <1>9 DEF Next, Startup, Refresher, Reader

\* "we MUST know if we're on OpenShift": for any number of faults and changes, a
\* process that got through its startup knows its platform (fetchAvailableAPIs).
THEOREM KnowsPlatform == Spec => []PlatformKnown
<1>1. Init => PInv
  BY InitPInv
<1>2. PInv /\ [Next]_vars => PInv'
  BY TypeStep, PlatformStep DEF PInv
<1>3. PInv => PlatformKnown
  BY DEF PInv
<1> QED BY <1>1, <1>2, <1>3, PTL DEF Spec

\* What is not reported yet has its goroutine, unless the process is gone.
Pending == unreported # {} => callbacks > 0 \/ phase = "exited"

\* Every step keeps it: only Update finds an API, and it starts a goroutine for it.
LEMMA PendingStep == TypeOK /\ Pending /\ [Next]_vars => Pending'
<1> SUFFICES ASSUME TypeOK, Pending, [Next]_vars PROVE Pending'
  OBVIOUS
<1> USE DEF Pending, server, startup, threads, reports
<1>1. CASE Startup
  BY <1>1 DEF Startup, Discover, FetchTLSProfile, StartupFails, PostCreate, PostCreateFails
<1>2. ASSUME NEW t \in Threads, Discovery(t) PROVE Pending'
  <2>1. CASE ServerGroupsAndResources(t) \/ Lock(t)
    BY <2>1 DEF ServerGroupsAndResources, Lock
  <2>2. CASE Update(t)
    BY <2>2 DEF TypeOK, Update, Alive
  <2> QED BY <1>2, <2>1, <2>2 DEF Discovery
<1>3. CASE RunCallback \/ Refresh
  BY <1>3 DEF RunCallback, Refresh
<1>4. CASE Change \/ Timer \/ RefreshFails \/ HasLokiStack \/ HasLokiStackFails \/ UNCHANGED vars
  BY <1>4 DEF Change, Timer, RefreshFails, HasLokiStack, HasLokiStackFails, vars
<1>5. CASE MapRace
  BY <1>5 DEF MapRace
<1> QED BY <1>1, <1>2, <1>3, <1>4, <1>5 DEF Next, Refresher, Reader, Threads

\* "If APIs recovered, trigger ... the onRefresh callback": an API that either thread
\* finds has a goroutine that will tell of it, whatever else fails
\* (fetchAvailableAPIsInternal).
THEOREM ReportsRecovery == Spec => []RecoveryReported
<1>1. Init => TypeOK /\ Pending
  BY InitPInv DEF Init, PInv, Pending
<1>2. TypeOK /\ Pending /\ [Next]_vars => (TypeOK /\ Pending)'
  BY TypeStep, PendingStep
<1>3. TypeOK /\ Pending => RecoveryReported
  BY DEF Pending, RecoveryReported, Alive
<1> QED BY <1>1, <1>2, <1>3, PTL DEF Spec

\* setInfo keeps the addresses that are known.
LEMMA SetInfoKeeps == ASSUME NEW ips \in BOOLEAN, SetInfo(ips), info.ips PROVE info'.ips
  BY Zenon DEF SetInfo

\* "Never remove a discovered API", and addresses that cannot be looked up stay what
\* they were (fetchAvailableAPIsInternal, setInfo).
THEOREM ForgetsNothing == Spec => NothingForgotten
<1>1. [Next]_vars => [apis \subseteq apis' /\ (info.ips => info'.ips)]_vars
  <2> SUFFICES ASSUME Next PROVE apis \subseteq apis' /\ (info.ips => info'.ips)
    OBVIOUS
  <2> USE DEF server, startup, threads, reports
  <2>1. CASE Change \/ FetchTLSProfile \/ StartupFails \/ PostCreateFails \/ Timer \/ RefreshFails
    BY <2>1 DEF Change, FetchTLSProfile, StartupFails, PostCreateFails, Timer, RefreshFails
  <2>2. CASE HasLokiStack \/ HasLokiStackFails \/ MapRace \/ RunCallback
    BY <2>2 DEF HasLokiStack, HasLokiStackFails, MapRace, RunCallback
  <2>3. CASE Discover
    BY <2>3 DEF Discover
  <2>4. CASE PostCreate \/ Refresh
    <3>1. apis' = apis
      BY <2>4 DEF PostCreate, Refresh
    <3>2. SetInfo(TRUE) \/ SetInfo(FALSE)
      BY <2>4 DEF PostCreate, Refresh
    <3> QED BY <3>1, <3>2, SetInfoKeeps
  <2>5. ASSUME NEW t \in Threads, Discovery(t) PROVE apis \subseteq apis' /\ info' = info
    BY <2>5 DEF Discovery, ServerGroupsAndResources, Lock, Update
  <2> QED BY <2>1, <2>2, <2>3, <2>4, <2>5 DEF Next, Startup, Refresher, Reader, Threads
<1> QED BY <1>1, PTL DEF Spec, NothingForgotten
============================================================================
