---------------------------- MODULE ClusterInfo ----------------------------
(***************************************************************************)
(* What the operator knows of the cluster: the APIs it discovers, first    *)
(* with retries at startup (NewInfo), then by the refresh loop and by the  *)
(* reconciliations that look for the LokiStack API (HasLokiStack), and the *)
(* information that is fetched with them.                                  *)
(*                                                                         *)
(* A discovery reads the API server before it takes the lock of the map,   *)
(* so what a thread writes may be old.  HasLokiStack first reads the map   *)
(* without the lock: while a writer is at work the Go runtime may stop the *)
(* process.                                                                *)
(***************************************************************************)
EXTENDS Naturals, FiniteSets

CONSTANTS APIs,         \* the APIs that are followed
          MaxAttempts,  \* the attempts that startupRetryBackoff allows
          MaxFaults,    \* the calls that fail
          MaxChanges    \* the changes of what the API server serves

ASSUME ClusterAssumption == /\ {"OCPSecurity", "LokiStack"} \subseteq APIs
                            /\ MaxAttempts \in Nat \ {0}
                            /\ MaxFaults \in Nat
                            /\ MaxChanges \in Nat

\* Intervals of the refresh loop, in units of 30 seconds.
NormalRefresh == 20
InitialRetry == 1
MaxRetry == 20

Threads == {"refresher", "reader"}

VARIABLES serving,     \* each API: absent, served, or of a group whose discovery fails
          phase,       \* of the process
          attempts,    \* the attempts of the current startup call
          apis,        \* apisMap: the APIs that were discovered
          info,        \* the information about the cluster
          pc,          \* what each thread is doing
          found,       \* what its last discovery returned
          lock,        \* who holds apisMapLock
          interval,    \* currentInterval
          callbacks,   \* the goroutines that run onRefresh
          unreported,  \* the APIs found since the last run of onRefresh
          faults, changes

vars == <<serving, phase, attempts, apis, info, pc, found, lock, interval, callbacks, unreported, faults, changes>>

server == <<serving, changes>>
startup == <<phase, attempts>>
threads == <<pc, found, lock>>
reports == <<callbacks, unreported>>

\* The platform: an OpenShift cluster has this API, even while its group fails.
OpenShift == serving["OCPSecurity"] # "absent"

Served == {a \in APIs : serving[a] = "served"}

Init ==
    /\ serving \in [APIs -> {"absent", "served", "failing"}]
    /\ phase = "discover"
    /\ attempts = 0
    /\ apis = {}
    /\ info = [ready |-> FALSE, openshift |-> FALSE, ips |-> FALSE]
    /\ pc = [t \in Threads |-> "idle"]
    /\ found = [t \in Threads |-> {}]
    /\ lock = "free"
    /\ interval = NormalRefresh
    /\ callbacks = 0
    /\ unreported = {}
    /\ faults = 0 /\ changes = 0

\* APIs are installed and removed, and their groups fail and recover; the
\* platform stays what it is.
Change ==
    /\ changes < MaxChanges
    /\ changes' = changes + 1
    /\ \E a \in APIs, s \in {"absent", "served", "failing"} :
         /\ s # serving[a]
         /\ a = "OCPSecurity" => OpenShift /\ s # "absent"
         /\ serving' = [serving EXCEPT ![a] = s]
    /\ UNCHANGED <<startup, apis, info, threads, interval, reports, faults>>

Fault ==
    /\ faults < MaxFaults
    /\ faults' = faults + 1
----------------------------------------------------------------------------
\* Startup.

\* retryStartupAPICall after a transient error.
Retry ==
    IF attempts + 1 < MaxAttempts THEN attempts' = attempts + 1 /\ UNCHANGED phase
    ELSE phase' = "exited" /\ UNCHANGED attempts

Critical == "OCPSecurity" \notin apis /\ serving["OCPSecurity"] = "failing"

\* Mutant: what fails at startup is left to the refresh loop.
DiscoverAnyway ==
    /\ phase = "discover"
    /\ apis' = apis \cup Served
    /\ phase' = IF "OCPSecurity" \in apis' THEN "tls" ELSE "start"
    /\ attempts' = 0
    /\ UNCHANGED <<server, info, threads, interval, reports, faults>>

\* fetchAvailableAPIs: the process does not go on without knowing its platform.
Discover ==
    /\ phase = "discover"
    /\ apis' = apis \cup Served
    /\ IF Critical THEN Retry
       ELSE /\ phase' = IF "OCPSecurity" \in apis' THEN "tls" ELSE "start"
            /\ attempts' = 0
    /\ UNCHANGED <<server, info, threads, interval, reports, faults>>

\* On OpenShift the TLS profile is fetched too.
FetchTLSProfile ==
    /\ phase = "tls"
    /\ phase' = "start"
    /\ attempts' = 0
    /\ UNCHANGED <<server, apis, info, threads, interval, reports, faults>>

\* A call fails: transient errors are retried, the others are fatal.
StartupFails ==
    /\ phase \in {"discover", "tls"}
    /\ Fault
    /\ Retry \/ (phase' = "exited" /\ UNCHANGED attempts)
    /\ UNCHANGED <<server, apis, info, threads, interval, reports>>

\* Mutant: a failed look-up of the addresses of the API server empties them.
SetInfoAll(ips) == info' = [ready |-> TRUE, openshift |-> "OCPSecurity" \in apis, ips |-> ips]

\* setInfo: addresses that could not be looked up stay what they were.
SetInfo(ips) == info' = [ready |-> TRUE, openshift |-> "OCPSecurity" \in apis, ips |-> info.ips \/ ips]

\* postCreate: fetchClusterInfo, then the refresh loop starts.
PostCreate ==
    /\ phase = "start"
    /\ phase' = "running"
    /\ \/ SetInfo(TRUE) /\ UNCHANGED faults
       \/ SetInfo(FALSE) /\ Fault
    /\ pc' = [pc EXCEPT !["refresher"] = "timer"]
    /\ UNCHANGED <<server, attempts, apis, found, lock, interval, reports>>

PostCreateFails ==
    /\ phase = "start"
    /\ Fault
    /\ phase' = "exited"
    /\ UNCHANGED <<server, attempts, apis, info, threads, interval, reports>>
----------------------------------------------------------------------------
\* fetchAvailableAPIsInternal once the process runs, by either thread.

Alive == phase \in {"start", "running"}

ServerGroupsAndResources(t) ==
    /\ Alive
    /\ pc[t] = "discover"
    /\ found' = [found EXCEPT ![t] = Served]
    /\ pc' = [pc EXCEPT ![t] = "lock"]
    /\ UNCHANGED <<server, startup, apis, info, lock, interval, reports, faults>>

\* Under the lock: the map is written when something new was found.
Lock(t) ==
    /\ Alive
    /\ pc[t] = "lock" /\ lock = "free"
    /\ lock' = t
    /\ pc' = [pc EXCEPT ![t] = "update"]
    /\ UNCHANGED <<server, startup, apis, info, found, interval, reports, faults>>

\* Mutant: only the refresh loop tells of what was found.
UpdateSilently(t) ==
    /\ Alive
    /\ pc[t] = "update"
    /\ apis' = apis \cup found[t]
    /\ unreported' = unreported \cup (found[t] \ apis)
    /\ callbacks' = IF t = "refresher" /\ ~(found[t] \subseteq apis) THEN callbacks + 1 ELSE callbacks
    /\ lock' = "free"
    /\ found' = [found EXCEPT ![t] = {}]
    /\ pc' = [pc EXCEPT ![t] = IF t = "refresher" THEN "info" ELSE "idle"]
    /\ UNCHANGED <<server, startup, info, interval, faults>>

\* APIs are only added; new ones start a goroutine that runs onRefresh.
Update(t) ==
    /\ Alive
    /\ pc[t] = "update"
    /\ apis' = apis \cup found[t]
    /\ unreported' = unreported \cup (found[t] \ apis)
    /\ callbacks' = IF found[t] \subseteq apis THEN callbacks ELSE callbacks + 1
    /\ lock' = "free"
    /\ found' = [found EXCEPT ![t] = {}]
    /\ pc' = [pc EXCEPT ![t] = IF t = "refresher" THEN "info" ELSE "idle"]
    /\ UNCHANGED <<server, startup, info, interval, faults>>

\* onRefresh, run by a goroutine: the status is published again.
RunCallback ==
    /\ Alive
    /\ callbacks > 0
    /\ callbacks' = callbacks - 1
    /\ unreported' = {}
    /\ UNCHANGED <<server, startup, apis, info, threads, interval, faults>>

\* HasLokiStack: the first read does not take the lock.
HasLokiStack ==
    /\ Alive
    /\ pc["reader"] = "idle"
    /\ "LokiStack" \notin apis
    /\ pc' = [pc EXCEPT !["reader"] = "discover"]
    /\ UNCHANGED <<server, startup, apis, info, found, lock, interval, reports, faults>>

\* "concurrent map read and map write" stops the process.
MapRace ==
    /\ Alive
    /\ pc["reader"] = "idle"
    /\ lock # "free" /\ ~(found[lock] \subseteq apis)
    /\ phase' = "exited"
    /\ UNCHANGED <<server, attempts, apis, info, threads, interval, reports, faults>>

\* A discovery that fails is an answer: no.
HasLokiStackFails ==
    /\ Alive
    /\ pc["reader"] = "discover"
    /\ Fault
    /\ pc' = [pc EXCEPT !["reader"] = "idle"]
    /\ UNCHANGED <<server, startup, apis, info, found, lock, interval, reports>>
----------------------------------------------------------------------------
\* The refresh loop.

Timer ==
    /\ Alive
    /\ pc["refresher"] = "timer"
    /\ pc' = [pc EXCEPT !["refresher"] = "discover"]
    /\ UNCHANGED <<server, startup, apis, info, found, lock, interval, reports, faults>>

\* The rest of refresh: fetchClusterInfo, onRefresh, and the normal interval again.
Refresh ==
    /\ Alive
    /\ pc["refresher"] = "info"
    /\ \/ SetInfo(TRUE) /\ UNCHANGED faults
       \/ SetInfo(FALSE) /\ Fault
    /\ unreported' = {}
    /\ interval' = NormalRefresh
    /\ pc' = [pc EXCEPT !["refresher"] = "timer"]
    /\ UNCHANGED <<server, startup, apis, found, lock, callbacks>>

Backoff ==
    interval' = IF interval = NormalRefresh THEN InitialRetry
                ELSE IF 2 * interval > MaxRetry THEN MaxRetry ELSE 2 * interval

\* Mutant: an error leaves the loop.
RefreshFailsForGood ==
    /\ Alive
    /\ pc["refresher"] \in {"discover", "info"}
    /\ Fault
    /\ Backoff
    /\ pc' = [pc EXCEPT !["refresher"] = "idle"]
    /\ UNCHANGED <<server, startup, apis, info, found, lock, reports>>

\* refresh returns an error: the timer is set again, sooner at first.
RefreshFails ==
    /\ Alive
    /\ pc["refresher"] \in {"discover", "info"}
    /\ Fault
    /\ Backoff
    /\ pc' = [pc EXCEPT !["refresher"] = "timer"]
    /\ UNCHANGED <<server, startup, apis, info, found, lock, reports>>

Startup == Discover \/ FetchTLSProfile \/ StartupFails \/ PostCreate \/ PostCreateFails

Discovery(t) == ServerGroupsAndResources(t) \/ Lock(t) \/ Update(t)

Refresher == Timer \/ Discovery("refresher") \/ Refresh \/ RefreshFails

Reader == HasLokiStack \/ Discovery("reader") \/ HasLokiStackFails \/ MapRace

Next == Change \/ Startup \/ Refresher \/ Reader \/ RunCallback

Spec == Init /\ [][Next]_vars

\* The process, its loop and its goroutines go on; nobody has to change the
\* cluster or to ask for the LokiStack API.
FairSpec ==
    /\ Spec
    /\ WF_vars(Startup) /\ WF_vars(Refresher) /\ WF_vars(RunCallback)
    /\ WF_vars(Discovery("reader") \/ HasLokiStackFails)
----------------------------------------------------------------------------
\* The variables keep their types, and the interval is one of the backoff.
TypeOK ==
    /\ serving \in [APIs -> {"absent", "served", "failing"}]
    /\ phase \in {"discover", "tls", "start", "running", "exited"}
    /\ attempts \in 0..(MaxAttempts - 1)
    /\ apis \subseteq APIs
    /\ info \in [ready : BOOLEAN, openshift : BOOLEAN, ips : BOOLEAN]
    /\ pc \in [Threads -> {"idle", "timer", "discover", "lock", "update", "info"}]
    /\ found \in [Threads -> SUBSET APIs]
    /\ lock \in Threads \cup {"free"}
    /\ interval \in {1, 2, 4, 8, 16, 20}
    /\ callbacks \in Nat
    /\ unreported \subseteq apis
    /\ faults \in 0..MaxFaults /\ changes \in 0..MaxChanges

\* "we MUST know if we're on OpenShift": a process that got through its startup has
\* the right idea of its platform, and all it fetched was fetched under this idea
\* (fetchAvailableAPIs, fetchClusterInfo).
PlatformKnown ==
    /\ phase \in {"tls", "start", "running"} => ("OCPSecurity" \in apis <=> OpenShift)
    /\ info.ready => info.openshift = OpenShift

\* What was once known stays known: failed look-ups and groups that fail or are gone
\* do not take back an API or the addresses of the API server ("Never remove a
\* discovered API", setInfo).
NothingForgotten == [][apis \subseteq apis' /\ (info.ips => info'.ips)]_vars

\* "If APIs recovered, trigger ... the onRefresh callback": an API that either thread
\* finds is not left unreported, although both look at the same time and the rest of
\* the refresh may fail (fetchAvailableAPIsInternal).
RecoveryReported == Alive /\ unreported # {} => callbacks > 0

\* An API that stays served is found in the end, whatever failed before (refresh loop).
EventuallyDiscovered ==
    \A a \in APIs :
        phase = "running" /\ serving[a] = "served" ~> a \in apis \/ serving[a] # "served" \/ phase = "exited"
============================================================================
