--------------------------- MODULE StatusManager ---------------------------
(***************************************************************************)
(* The status manager (internal/pkg/manager/status): one in-memory map of  *)
(* component statuses that every controller of the operator writes to, and *)
(* that any of them commits, as a whole, to the status of the one          *)
(* FlowCollector.  A controller resets its components to a placeholder,    *)
(* merges what it finds into them, and commits; in the meantime another    *)
(* controller, or the refresh of the cluster information, commits too.     *)
(*                                                                         *)
(* The steps of a commit that other controllers may come between are Read  *)
(* (Get and getConditions), Kafka (the second look at the transformer),    *)
(* Write (populateComponentStatuses and the Update) and Emit.              *)
(***************************************************************************)
EXTENDS Naturals, FiniteSets, SequencesExt

CONSTANTS Controllers,  \* a subset of AllControllers
          Components,   \* the components followed, a subset of AllComponents
          Announced,    \* the components whose events are followed
          Reported,     \* the statuses that the reconcilers report
          Steps,        \* the attempts of retry.RetryOnConflict
          MayFail,      \* whether reconciliations may fail
          MayLose,      \* whether status updates may fail for other reasons than a conflict
          MayEdit       \* whether users edit, delete and create the FlowCollector

AllControllers == {"legacy", "flp", "monitoring", "networkpolicy", "static", "refresh"}

FC == "FlowCollectorController"
FLPSubs == {"FLPInformers", "FLPMonolith", "FLPTransformer"}
FLPs == {"FLPParent"} \cup FLPSubs
Lokis == {"LokiStack", "DemoLoki"}
AllComponents == FLPs \cup Lokis \cup
                   {FC, "WebConsole", "EBPFAgents", "Monitoring", "NetworkPolicy", "StaticController"}

ASSUME InstanceAssumption == /\ Controllers \subseteq AllControllers
                             /\ Components \subseteq AllComponents
                             /\ Announced \subseteq Components
                             /\ Steps \in Nat \ {0}
                             /\ MayFail \in BOOLEAN
                             /\ MayLose \in BOOLEAN
                             /\ MayEdit \in BOOLEAN

States == {"Unknown", "Unused", "InProgress", "Ready", "Failure", "Degraded"}
ASSUME ReportedAssumption == Reported \subseteq States \ {"Unknown"}

VARIABLES statuses,   \* the map: what is known of each component
          previous,   \* prevStatuses: what each component was at the last events
          announced,  \* the last failure or recovery event of each component
          exists,     \* whether the FlowCollector exists
          published,  \* its status
          lag,        \* whether the informer cache may still have an older one
          pc,         \* where each controller is in its program, 0 when idle
          failed,     \* whether its reconciliation has failed
          requeue,    \* whether it asked to run again
          commit,     \* the step of the commit it is in
          snapshot,   \* the conditions that this commit has read
          row,        \* the KafkaReady condition that this commit has read
          fresh,      \* whether it has read the latest FlowCollector
          tries,      \* the attempts of this commit
          owing       \* the controllers whose last commit was lost

vars == <<statuses, previous, announced, exists, published, lag, pc, failed,
          requeue, commit, snapshot, row, fresh, tries, owing>>

reconciling == <<pc, failed, requeue>>
committing == <<commit, snapshot, row, fresh, tries>>
cluster == <<exists, published, lag, owing>>
events == <<previous, announced>>
----------------------------------------------------------------------------
\* Component statuses: the state, and whether some of the pods are unhealthy.

Status(st) == [st |-> st, pods |-> FALSE]
Unhealthy == [st |-> "Degraded", pods |-> TRUE]
Absent == Status("Absent")

statusPriority == <<"Failure", "InProgress", "Degraded", "Unused", "Ready", "Unknown">>
Rank(st) == CHOOSE i \in 1..Len(statusPriority) : statusPriority[i] = st

\* Mutant: the last report wins.
MergeIgnoresWorst(s, other) ==
    IF s = Absent THEN other
    ELSE [st |-> other.st, pods |-> s.pods \/ other.pods]

\* merge prioritizes the worst of the two; unhealthy pods outrank a rollout.
Merge(s, other) ==
    LET wins == \/ Rank(other.st) <= Rank(s.st)
                \/ other.pods /\ s.st = "InProgress"
    IN IF s = Absent THEN other
       ELSE [st |-> IF wins THEN other.st ELSE s.st, pods |-> s.pods \/ other.pods]

Reset(c) == [statuses EXCEPT ![c] = Status("Unknown")]

Weak == {"Absent", "Unknown", "Unused"}

\* The Ready condition: failures first, then roll-outs, then degradations.
GlobalReady(of) ==
    LET some(st) == \E c \in Components : of[c] = st
    IN CASE some("Failure")    -> "Failure"
         [] some("InProgress") -> "Pending"
         [] some("Degraded")   -> "Ready,Degraded"
         [] OTHER              -> "Ready"

Conditions(ss) == [c \in Components |-> ss[c].st]

StatusOf(c) == IF c \in Components THEN statuses[c] ELSE Absent

\* GetKafkaCondition; the issues of the agent's pods may mention Kafka or not.
KafkaCondition(agentIssue) ==
    LET ts == StatusOf("FLPTransformer")
    IN CASE \/ ts.st \notin Weak /\ (ts.st \in {"Failure", "Degraded"} \/ ts.pods)
            \/ agentIssue                -> "KafkaIssue"
         [] ts.st = "Ready"              -> "Ready"
         [] ts.st = "InProgress"         -> "KafkaPending"
         [] OTHER                        -> "none"

\* Mutant: the placeholder of a reset is published.
PreserveNothing(cur, prev) == cur

PreserveSnapshot(cur, prev) ==
    IF prev # "Absent" /\ cur \in {"Absent", "Unknown"} THEN prev ELSE cur

\* Mutant: the last status that is visited wins.
MergeProcessorLast(existing, c) == statuses[c].st

MergeProcessor(existing, c) ==
    LET st == statuses[c].st
    IN IF \/ st \in Weak /\ existing = "Absent"
          \/ st \notin Weak /\ existing \in Weak
          \/ st \in {"Failure", "InProgress", "Degraded"} /\ c # "FLPParent"
       THEN st ELSE existing

MergeLoki(existing, c) ==
    LET st == statuses[c].st
    IN IF st # "Absent" /\ (existing \in Weak \/ st \in {"Failure", "Degraded", "Ready"})
       THEN st ELSE existing

\* What populateComponentStatuses and the conditions make of the status; the
\* map is visited in the orders processors and lokis.
Populate(k, processors, lokis) ==
    [conditions |-> snapshot[k],
     ready      |-> GlobalReady(snapshot[k]),
     kafka      |-> IF row[k] = "keep" THEN published.kafka ELSE row[k],
     agent      |-> PreserveSnapshot(StatusOf("EBPFAgents").st, published.agent),
     plugin     |-> PreserveSnapshot(StatusOf("WebConsole").st, published.plugin),
     processor  |-> FoldLeft(MergeProcessor, "Absent", processors),
     loki       |-> FoldLeft(MergeLoki, "Absent", lokis)]

NoConditions == [c \in Components |-> "Absent"]

NoStatus ==
    [conditions |-> NoConditions, ready |-> "none", kafka |-> "none",
     agent |-> "Absent", plugin |-> "Absent", processor |-> "Absent", loki |-> "Absent"]
----------------------------------------------------------------------------
\* The programs of the controllers, restricted to the components followed.

Do(op, c) == [op |-> op, cpnt |-> c]

LegacyProgram ==
    << Do("reset", FC), Do("work", FC), Do("reset", "LokiStack"), Do("work", "LokiStack"),
       Do("reset", "WebConsole"), Do("work", FC),
       Do("reset", "EBPFAgents"), Do("work", "EBPFAgents"), Do("commit", "EBPFAgents"),
       Do("reset", "WebConsole"), Do("work", "WebConsole"), Do("commit", "WebConsole"),
       Do("reset", "DemoLoki"), Do("work", "DemoLoki"), Do("commit", "DemoLoki"),
       Do("finish", FC), Do("commit", FC) >>

FLPProgram ==
    << Do("reset", "FLPParent"), Do("work", "FLPParent"),
       Do("reset", "FLPInformers"), Do("reset", "FLPMonolith"), Do("reset", "FLPTransformer"),
       Do("work", "FLPParent"),
       Do("work", "FLPInformers"), Do("work", "FLPMonolith"), Do("work", "FLPTransformer"),
       Do("finish", "FLPParent"), Do("commit", "FLPParent") >>

MonitoringProgram ==
    << Do("reset", "Monitoring"), Do("work", "Monitoring"), Do("finish", "Monitoring"), Do("commit", "Monitoring") >>

NetworkPolicyProgram ==
    << Do("reset", "NetworkPolicy"), Do("work", "NetworkPolicy"),
       Do("finish", "NetworkPolicy"), Do("commit", "NetworkPolicy") >>

StaticProgram ==
    << Do("reset", "StaticController"), Do("work", "StaticController"),
       Do("finish", "StaticController"), Do("commit", "StaticController") >>

\* The refresh of the cluster information only calls Sync.
RefreshProgram == << Do("commit", "none") >>

Whole(k) ==
    CASE k = "legacy"        -> LegacyProgram
      [] k = "flp"           -> FLPProgram
      [] k = "monitoring"    -> MonitoringProgram
      [] k = "networkpolicy" -> NetworkPolicyProgram
      [] k = "static"        -> StaticProgram
      [] k = "refresh"       -> RefreshProgram

Program(k) == SelectSeq(Whole(k), LAMBDA step : step.cpnt \in Components \cup {"none"})

Owns(k, c) == \E i \in 1..Len(Whole(k)) : Whole(k)[i].cpnt = c

At(k, op) == /\ pc[k] > 0
             /\ commit[k] = "none"
             /\ Program(k)[pc[k]].op = op

Here(k) == Program(k)[pc[k]].cpnt

\* The next step; a failure skips to the end, after the commit deferred by the
\* reconciler that failed.
After(k, fails) ==
    LET finish == CHOOSE i \in 1..Len(Program(k)) : Program(k)[i].op = "finish"
    IN CASE pc[k] = Len(Program(k)) -> 0
         [] fails /\ pc[k] < finish /\ Program(k)[pc[k] + 1].op # "commit" -> finish
         [] OTHER -> pc[k] + 1

\* Start registers a placeholder for the component of each controller.
Registered == {FC, "LokiStack", "FLPParent", "Monitoring", "NetworkPolicy", "StaticController"}

\* Every controller reconciles a FlowCollector that appears; the refresh of the
\* cluster information only commits what the others have left.
Owing == Controllers \ {"refresh"}

Init ==
    /\ statuses = [c \in Components |-> IF c \in Registered THEN Status("Unknown") ELSE Absent]
    /\ previous = [c \in Announced |-> "Absent"]
    /\ announced = [c \in Announced |-> "none"]
    /\ exists = TRUE
    /\ published = NoStatus
    /\ lag = FALSE
    /\ pc = [k \in Controllers |-> 0]
    /\ failed = [k \in Controllers |-> FALSE]
    /\ requeue = [k \in Controllers |-> FALSE]
    /\ commit = [k \in Controllers |-> "none"]
    /\ snapshot = [k \in Controllers |-> NoConditions]
    /\ row = [k \in Controllers |-> "none"]
    /\ fresh = [k \in Controllers |-> FALSE]
    /\ tries = [k \in Controllers |-> 0]
    /\ owing = Owing
----------------------------------------------------------------------------
\* The FlowCollector in the API server, and its copy in the informer cache.

Edit ==
    /\ MayEdit
    /\ exists
    /\ fresh' = [k \in Controllers |-> FALSE]
    /\ lag' = TRUE
    /\ UNCHANGED <<statuses, events, exists, published, owing, reconciling, commit, snapshot, row, tries>>

Delete ==
    /\ MayEdit
    /\ exists
    /\ exists' = FALSE
    /\ published' = NoStatus
    /\ fresh' = [k \in Controllers |-> FALSE]
    /\ UNCHANGED <<statuses, events, lag, owing, reconciling, commit, snapshot, row, tries>>

Create ==
    /\ ~exists
    /\ exists' = TRUE
    /\ owing' = Owing
    /\ UNCHANGED <<statuses, events, published, lag, reconciling, committing>>

CacheSyncs ==
    /\ lag
    /\ lag' = FALSE
    /\ UNCHANGED <<statuses, events, exists, published, owing, reconciling, committing>>
----------------------------------------------------------------------------
\* Reconciliations.

Start(k) ==
    /\ pc[k] = 0
    /\ exists \/ k \in {"static", "refresh"}
    /\ pc' = [pc EXCEPT ![k] = 1]
    /\ failed' = [failed EXCEPT ![k] = FALSE]
    /\ requeue' = [requeue EXCEPT ![k] = FALSE]
    /\ UNCHANGED <<statuses, events, cluster, committing>>

\* Instance.Reset and ForComponent: back to the placeholder.
ResetComponent(k) ==
    /\ At(k, "reset")
    /\ statuses' = Reset(Here(k))
    /\ pc' = [pc EXCEPT ![k] = After(k, FALSE)]
    /\ UNCHANGED <<events, cluster, failed, requeue, committing>>

\* CheckDeploymentHealth: the progress, then the pods if some are not ready.
DeploymentHealth ==
    { <<progress>> : progress \in {Status("Ready"), Status("InProgress")} } \cup
    { <<progress, pods>> : progress \in {Status("Ready"), Status("InProgress")},
                           pods \in {Status("Degraded"), Unhealthy} }

\* CheckDaemonSetHealth: a DaemonSet may have no pods scheduled.
DaemonSetHealth == DeploymentHealth \cup {<<Status("Degraded")>>}

Perhaps(st) == {<<>>, <<Status(st)>>}
Unused == <<Status("Unused")>>

\* What each reconciler reports of its component, in order.
LokiStackReports == {Unused} \cup
    {w \o <<Status(st)>> : w \in Perhaps("Failure"), st \in {"Failure", "InProgress", "Degraded", "Ready"}}

AgentReports == DaemonSetHealth \cup {<<>>, Unused}

WebConsoleReports ==
    {patch \o Unused : patch \in Perhaps("Degraded")} \cup
    {missing \o h \o certs : missing \in Perhaps("Degraded"), h \in DeploymentHealth, certs \in Perhaps("Degraded")}

DemoLokiReports == DeploymentHealth \cup {Unused}

InformersReports == {h \o <<Status("Ready")>> : h \in DeploymentHealth} \cup {Unused}

MonolithReports == DaemonSetHealth \cup {Unused}

TransformerReports == DeploymentHealth \cup {Unused}

ParentReports == Perhaps("Degraded")

MonitoringReports == Perhaps("Degraded")

Reports(c) ==
    CASE c = "LokiStack"      -> LokiStackReports
      [] c = "EBPFAgents"     -> AgentReports
      [] c = "WebConsole"     -> WebConsoleReports
      [] c = "DemoLoki"       -> DemoLokiReports
      [] c = "FLPInformers"   -> InformersReports
      [] c = "FLPMonolith"    -> MonolithReports
      [] c = "FLPTransformer" -> TransformerReports
      [] c = "FLPParent"      -> ParentReports
      [] c = "Monitoring"     -> MonitoringReports
      [] OTHER                -> {<<>>}

Considered(us) == \A i \in 1..Len(us) : us[i].st \in Reported

\* A reconciler that fails reports the failure of its component; the errors of
\* the controllers themselves are reported by Finish.
Work(k) ==
    /\ At(k, "work")
    /\ LET c == Here(k)
       IN \E us \in {r \in Reports(c) \cup {<<>>} : Considered(r)}, fails \in {FALSE, MayFail /\ c # "LokiStack"} :
            LET reports == IF fails /\ c \in {"EBPFAgents", "WebConsole", "DemoLoki"} \cup FLPSubs
                           THEN Append(us, Status("Failure")) ELSE us
            IN /\ us \notin Reports(c) => fails
               /\ statuses' = [statuses EXCEPT ![c] = FoldLeft(Merge, @, reports)]
               /\ failed' = [failed EXCEPT ![k] = fails]
               /\ pc' = [pc EXCEPT ![k] = After(k, fails)]
    /\ UNCHANGED <<events, cluster, requeue, committing>>

\* Mutant: only a roll-out is checked again.
NeedsRequeueRollout(ss) == \E c \in Components : ss[c].st = "InProgress"

NeedsRequeue(ss) == \E c \in Components : ss[c].st = "InProgress" \/ ss[c].pods

\* What a controller reports of itself: a failure, or that it is ready or unused.
\* The static controller has early returns that report nothing.
Outcomes(k, c) ==
    LET unused == \/ c = "NetworkPolicy"
                  \/ c = "FLPParent" /\ \A s \in FLPSubs \cap Components : statuses[s].st = "Unused"
        own == CASE failed[k] /\ k = "static" -> {"none", "Failure"}
                 [] failed[k]                 -> {"Failure"}
                 [] OTHER -> {"Ready"} \cup (IF unused THEN {"Unused"} \cap Reported ELSE {})
    IN {IF st = "none" THEN statuses[c] ELSE Merge(statuses[c], Status(st)) : st \in own}

Finish(k) ==
    /\ At(k, "finish")
    /\ LET c == Here(k)
       IN \E s \in Outcomes(k, c) : statuses' = [statuses EXCEPT ![c] = s]
    /\ requeue' = [requeue EXCEPT ![k] = failed[k] \/ (k \in {"legacy", "flp"} /\ NeedsRequeue(statuses'))]
    /\ pc' = [pc EXCEPT ![k] = After(k, FALSE)]
    /\ UNCHANGED <<events, cluster, failed, committing>>
----------------------------------------------------------------------------
\* Commits: updateStatus.

EndCommit(k) ==
    /\ pc' = [pc EXCEPT ![k] = After(k, failed[k])]
    /\ commit' = [commit EXCEPT ![k] = "none"]
    /\ snapshot' = [snapshot EXCEPT ![k] = NoConditions]
    /\ row' = [row EXCEPT ![k] = "none"]
    /\ fresh' = [fresh EXCEPT ![k] = FALSE]
    /\ tries' = [tries EXCEPT ![k] = 0]

\* The FlowCollector and the conditions are read.
Read(k) ==
    /\ At(k, "commit")
    /\ exists
    /\ \E current \in {TRUE, ~lag}, agentIssue \in {FALSE, StatusOf("EBPFAgents").pods} :
         LET kafka == KafkaCondition(agentIssue)
         IN /\ fresh' = [fresh EXCEPT ![k] = current]
            /\ row' = [row EXCEPT ![k] = kafka]
            /\ commit' = [commit EXCEPT ![k] = IF kafka = "none" /\ "FLPTransformer" \in Components
                                                THEN "kafka" ELSE "write"]
    /\ snapshot' = [snapshot EXCEPT ![k] = Conditions(statuses)]
    /\ UNCHANGED <<statuses, events, cluster, reconciling, tries>>

\* A FlowCollector that does not exist has no status to update.
ReadNothing(k) ==
    /\ At(k, "commit")
    /\ ~exists
    /\ EndCommit(k)
    /\ UNCHANGED <<statuses, events, cluster, failed, requeue>>

\* Mutant: the condition is removed whatever the transformer is.
KafkaRemoves(k) ==
    /\ commit[k] = "kafka"
    /\ row' = [row EXCEPT ![k] = "none"]
    /\ commit' = [commit EXCEPT ![k] = "write"]
    /\ UNCHANGED <<statuses, events, cluster, reconciling, snapshot, fresh, tries>>

\* Without a KafkaReady condition the one that is published is removed, unless
\* the transformer is still a placeholder.
Kafka(k) ==
    /\ commit[k] = "kafka"
    /\ row' = [row EXCEPT ![k] = IF StatusOf("FLPTransformer").st = "Unknown" THEN "keep" ELSE "none"]
    /\ commit' = [commit EXCEPT ![k] = "write"]
    /\ UNCHANGED <<statuses, events, cluster, reconciling, snapshot, fresh, tries>>

\* The orders in which Range may visit the components of a set.
Visits(cs) == SetToSeqs(cs \cap Components)

Write(k) ==
    /\ commit[k] = "write"
    /\ exists /\ fresh[k]
    /\ \E processors \in Visits(FLPs), lokis \in Visits(Lokis) :
         published' = Populate(k, processors, lokis)
    /\ lag' = TRUE
    /\ fresh' = [j \in Controllers |-> FALSE]
    /\ owing' = owing \ {k}
    /\ commit' = [commit EXCEPT ![k] = "emit"]
    /\ UNCHANGED <<statuses, events, exists, reconciling, snapshot, row, tries>>

\* Mutant: the conditions are computed once, before the loop of retries.
ConflictKeepsConditions(k) ==
    /\ commit[k] = "write"
    /\ exists /\ ~fresh[k]
    /\ tries[k] + 1 < Steps
    /\ tries' = [tries EXCEPT ![k] = @ + 1]
    /\ fresh' = [fresh EXCEPT ![k] = TRUE]
    /\ UNCHANGED <<statuses, events, cluster, reconciling, commit, snapshot, row>>

\* A conflict starts the commit again, at most Steps times in all.
Conflict(k) ==
    /\ commit[k] = "write"
    /\ exists /\ ~fresh[k]
    /\ tries[k] + 1 < Steps
    /\ tries' = [tries EXCEPT ![k] = @ + 1]
    /\ commit' = [commit EXCEPT ![k] = "none"]
    /\ snapshot' = [snapshot EXCEPT ![k] = NoConditions]
    /\ row' = [row EXCEPT ![k] = "none"]
    /\ UNCHANGED <<statuses, events, cluster, reconciling, fresh>>

\* The last conflict, or any other error, is only logged.
GiveUp(k) ==
    /\ \/ commit[k] = "write" /\ ~exists
       \/ commit[k] = "write" /\ ~fresh[k] /\ tries[k] + 1 = Steps
       \/ MayLose /\ (At(k, "commit") \/ commit[k] = "write")
    /\ EndCommit(k)
    /\ owing' = owing \cup {k}
    /\ UNCHANGED <<statuses, events, exists, published, lag, failed, requeue>>

\* emitStateTransitionEvents: the failure or recovery that is announced when a
\* component goes from one state to another.
Announcement(from, to, last) ==
    CASE from = "Absent" \/ from = to -> last
      [] to = "Failure"               -> "ComponentFailure"
      [] from = "Failure" /\ to \in {"Ready", "InProgress"} -> "ComponentRecovered"
      [] OTHER                        -> last

Emit(k) ==
    /\ commit[k] = "emit"
    /\ announced' = [c \in Announced |-> Announcement(previous[c], statuses[c].st, announced[c])]
    /\ previous' = [c \in Announced |-> statuses[c].st]
    /\ EndCommit(k)
    /\ UNCHANGED <<statuses, cluster, failed, requeue>>

Next ==
    \/ Edit \/ Delete \/ Create \/ CacheSyncs
    \/ \E k \in Controllers :
         \/ Start(k) \/ ResetComponent(k) \/ Work(k) \/ Finish(k)
         \/ Read(k) \/ ReadNothing(k) \/ Kafka(k) \/ Write(k) \/ Conflict(k) \/ GiveUp(k) \/ Emit(k)

Spec == Init /\ [][Next]_vars
----------------------------------------------------------------------------
\* Properties.

Idle == \A k \in Controllers : pc[k] = 0

\* When every controller has finished and no commit was lost, the conditions and
\* the Ready summary of the FlowCollector are those of the components, in
\* whatever order the controllers read and wrote it (updateStatus recomputes
\* everything at each attempt).
PublishedIsCurrent ==
    Idle /\ exists /\ owing = {} =>
        /\ published.conditions = Conditions(statuses)
        /\ published.ready = GlobalReady(Conditions(statuses))

\* A commit that comes between the reset of the agent or the web console and
\* their real status does not publish the placeholder: once known, the state of
\* both stays known as long as the FlowCollector exists (populateComponentStatuses).
SnapshotKept ==
    [][exists /\ exists' =>
        /\ published.agent \notin {"Absent", "Unknown"} => published'.agent \notin {"Absent", "Unknown"}
        /\ published.plugin \notin {"Absent", "Unknown"} => published'.plugin \notin {"Absent", "Unknown"}]_vars

\* The state of a component only gets worse until it is reset, whoever reports
\* it and in whatever order, except that unhealthy pods turn a roll-out into a
\* degradation (merge, "prioritizing the worst").
WorstKept ==
    [][\A c \in Components : statuses[c].st # "Absent" =>
        \/ statuses'[c].st = "Unknown"
        \/ Rank(statuses'[c].st) <= Rank(statuses[c].st)
        \/ statuses'[c].pods /\ statuses[c].st = "InProgress"]_vars

\* A roll-out or an unhealthy pod is looked at again: the controller in charge of
\* the component does not rest without having asked to run again (NeedsRequeue).
TransientIsRechecked ==
    \A k \in Controllers \cap {"legacy", "flp"}, c \in Components :
        /\ exists /\ pc[k] = 0 /\ Owns(k, c)
        /\ statuses[c].st = "InProgress" \/ statuses[c].pods
        => requeue[k]

\* The KafkaReady condition is not removed while Kafka is used, that is while the
\* transformer is anything but unused: "Skip removal while FLPTransformer is
\* placeholder Unknown" (updateStatus).  This is about the commits of the FLP
\* controller itself: in one of another controller the placeholder may become the
\* real status between the two reads of the transformer.
KafkaRowKept ==
    [][exists /\ exists' /\ published.kafka # "none" /\ statuses["FLPTransformer"].st # "Unused"
        => published'.kafka # "none"]_vars

\* In whatever order Range visits the components, an unused or unknown one does not
\* hide one that is active (mergeProcessorStatus).
ActiveShown ==
    Idle /\ exists /\ owing = {} /\ (\E c \in FLPs \cap Components : statuses[c].st \notin Weak)
        => published.processor \notin Weak

\* A component that has been announced as failing and is ready again has been
\* announced as recovered (emitStateTransitionEvents).
RecoveryAnnounced ==
    \A c \in Announced :
        Idle /\ exists /\ owing = {} /\ statuses[c].st = "Ready" => announced[c] # "ComponentFailure"
============================================================================
