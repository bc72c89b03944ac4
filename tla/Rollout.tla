------------------------------ MODULE Rollout ------------------------------
(***************************************************************************)
(* How a controller brings its objects to what the FlowCollector asks for: *)
(* the sub-reconcilers read the objects they manage, compare them with     *)
(* what the builders make, and write the differences one API call after    *)
(* the other, while the user edits the spec, someone deletes objects,      *)
(* certificates rotate, an autoscaler scales, pods start and API calls     *)
(* fail.                                                                   *)
(*                                                                         *)
(* An object is what the builders say of it, whether the operator owns it  *)
(* (the managed label or an owner reference), and, for a workload, whether *)
(* its pods are ready.  Two objects are the same version when they are     *)
(* equal.  Cluster role bindings are the subject of OperandBindings, the   *)
(* delivery of events of NarrowCache.                                      *)
(***************************************************************************)
EXTENDS FLPObjects, AgentObjects, NetPolicies, ConsoleObjects

CONSTANTS Controllers,    \* the controllers to follow, one per behaviour
          Env,            \* the platform
          Specs,          \* specs, by name,
          Offered(_),     \* and those a user may write, by controller
          Lagging,        \* the objects whose changes reach the cache later
          Foreign,        \* an object that may exist before, and what it says
          Deletable,      \* the objects someone may delete
          Target,         \* the replicas an autoscaler wants
          MaxEdits,       \* bounds the edits of the spec,
          MaxTroubles,    \* the failed calls, deletions and rotations,
          MaxEvents       \* and all of them

Obj(kind, name) == <<kind, name>>
Kind(o) == o[1]

(* The managed objects of each sub-reconciler, in the order they are       *)
(* registered, and those it reads and writes on its own.                   *)
Processor(name) ==
    << Obj("Service", name \o "-prom"), Obj("ServiceAccount", name), Obj("ConfigMap", name \o "-config"),
       Obj("ConfigMap", name \o "-config-dynamic"), Obj("RoleBinding", name),
       Obj("ServiceMonitor", name), Obj("PrometheusRule", name) >>
Managed ==
    [informers |-> << Obj("Deployment", informerName), Obj("Service", "k8scache"), Obj("ServiceAccount", informerName) >>,
     monolith |-> << Obj("DaemonSet", monoName), Obj("Deployment", monoName), Obj("Service", monoName) >>
                  \o Processor(monoName),
     transformer |-> << Obj("Deployment", transfoName), Obj("HPA", transfoName) >> \o Processor(transfoName),
     agent |-> << Obj("Service", "agent"), Obj("ServiceMonitor", "agent"), Obj("PrometheusRule", "agent") >>,
     console |-> << Obj("Deployment", PluginName), Obj("Service", PluginName), Obj("Service", "metrics"),
                    Obj("HPA", PluginName), Obj("ServiceAccount", PluginName), Obj("ConfigMap", PluginName),
                    Obj("ServiceMonitor", PluginName) >>,
     loki |-> << Obj("ConfigMap", "loki"), Obj("Deployment", "loki"), Obj("PVC", "loki"), Obj("Service", "loki") >>,
     netpol |-> <<>>]
Unmanaged ==
    [agent |-> { Obj("DaemonSet", "agent"), Obj("Namespace", "privileged"), Obj("RoleBinding", "expose-metrics"),
                 Obj("ServiceAccount", "agent"), Obj("SCC", "agent"), Obj("BpfApplication", "agent") },
     console |-> { Obj("ConsolePlugin", PluginName), Obj("Console", "cluster") },
     netpol |-> { Obj("NetworkPolicy", "main"), Obj("NetworkPolicy", "privileged") }]

Subs == [flp |-> <<"informers", "monolith", "transformer">>, legacy |-> <<"agent", "console", "loki">>,
         netpol |-> <<"netpol">>]
ObjectsOf(sub) == Range(Managed[sub]) \cup (IF sub \in DOMAIN Unmanaged THEN Unmanaged[sub] ELSE {})
Objects(controller) == UNION { ObjectsOf(sub) : sub \in Range(Subs[controller]) }
Workload(o) == Kind(o) \in {"Deployment", "DaemonSet"}

(* The objects a change of which wakes the controller up: not those of the *)
(* Prometheus operator, nor those the agent reads on its own.              *)
Watched(o) ==
    /\ Kind(o) \notin {"ServiceMonitor", "PrometheusRule", "Console"}
    /\ o \notin Unmanaged.agent

VARIABLES ctrl,       \* the controller followed
          stored,     \* the stored spec, by name
          objs,       \* the objects in the cluster
          cache,      \* the lagging ones as the client reads them
          copies,     \* the certificates copied to where they are mounted
          watched,    \* the certificates a change of which is noticed
          pending,    \* whether the work queue holds a request
          spec,       \* the spec read by the running reconciliation, or Nil
          subs,       \* the sub-reconcilers still to run
          todo,       \* what the running one still has to do
          seen,       \* what it read
          digests,    \* the digests of the certificates it read
          failed,     \* whether a deletion failed that does not stop the next
          recheck,    \* whether it found a workload that is not ready
          timer,      \* whether a reconciliation is due in thirty seconds
          rotation,   \* how often the certificates were rotated
          edits, troubles

kvars == <<objs, cache, copies, watched>>
rvars == <<spec, subs, todo, seen, digests, failed, recheck>>
vars == <<ctrl, stored, kvars, pending, timer, rvars, rotation, edits, troubles>>

World == [env |-> Env, slices |-> <<>>, metrics |-> {}, clusterID |-> "id", detected |-> Env.detected]
Cached(o) == IF o \in DOMAIN cache THEN cache[o] ELSE objs[o]
Ours(body, o) == [body |-> body, owned |-> TRUE, ready |-> ~Workload(o)]

(* ------------------------- What is asked for --------------------------- *)

Plain == [plain |-> TRUE]      \* an object that says nothing of the spec
NoCerts == [r \in {} |-> 0]

(* A processor's pods: the digest of the static configuration, digests of  *)
(* certificates, what they mount and listen to.                            *)
ProcessorPod(f, replicas) ==
    [config |-> configMaps(f, World).static, certs |-> NoCerts,
     volumes |-> GetVolumes(ProcessorVolumes(f, Env)), ports |-> podTemplate(f, Env),
     args |-> IF IsInformerCacheProxyEnabled(f)
                THEN [port |-> GetK8sCachePort(f), files |-> Range(addK8sCacheArgs(f, Env))] ELSE Nil,
     probes |-> Probed(f), scheduling |-> GetAdvancedProcessorConfig(f).scheduling, replicas |-> replicas]

(* Pods without annotations of this kind.                                  *)
OtherPod(config, args, volumes, scheduling, replicas) ==
    [config |-> config, certs |-> NoCerts, volumes |-> volumes, ports |-> {}, args |-> args,
     probes |-> {}, scheduling |-> scheduling, replicas |-> replicas]

PluginConfig(f) ==
    [frontend |-> setFrontendConfig(f), features |-> Features(f), health |-> fillHealthData(f),
     sampling |-> GetSampling(f), port |-> ServerPort(f)]

AbsentAll(sub) == [o \in ObjectsOf(sub) |-> Nil]

WantedProcessor(name, f) ==
    [o \in ObjectsOf(IF name = monoName THEN "monolith" ELSE "transformer") |->
        CASE Workload(o) ->
               IF UseHostNetwork(f) # (Kind(o) = "DaemonSet") THEN Nil
               ELSE ProcessorPod(f, IF UseHostNetwork(f) THEN Nil ELSE GetFLPReplicas(f))
          [] Kind(o) = "HPA" -> IF f.processor.hpa THEN Plain ELSE Nil
          [] o = Obj("Service", monoName) -> IF UseHostNetwork(f) THEN Nil ELSE monoService(f, Env)
          [] Kind(o) = "Service" /\ o[2] # monoName -> promService(f)
          [] o = Obj("ConfigMap", name \o "-config") -> configMaps(f, World).static
          [] o = Obj("ConfigMap", name \o "-config-dynamic") -> configMaps(f, World).dynamic
          [] Kind(o) = "ServiceMonitor" -> serviceMonitor(f)
          [] Kind(o) = "PrometheusRule" -> prometheusRule(f)
          [] Kind(o) \in {"ServiceAccount", "RoleBinding"} -> Plain]

WantedInformers(f) ==
    [o \in ObjectsOf("informers") |->
        LET pod == informerDeployment(f, Env)
        IN  CASE Kind(o) = "Deployment" ->
                   OtherPod(Nil, [pod EXCEPT !.scheduling = Nil], pod.volumes, pod.scheduling, 1)
              [] Kind(o) = "Service" -> k8sCacheService(f, Env)
              [] Kind(o) = "ServiceAccount" -> Plain]

WantedConsole(f) ==
    [o \in ObjectsOf("console") |->
        LET pod == pluginPodTemplate(f, Env, FALSE)
        IN  CASE Kind(o) = "Deployment" ->
                   OtherPod(PluginConfig(f), pod.port, pod.volumes, pod.scheduling, f.consolePlugin.replicas)
              [] o = Obj("Service", PluginName) -> mainService(f)
              [] o = Obj("Service", "metrics") -> metricsService
              [] Kind(o) = "HPA" -> IF f.consolePlugin.hpa THEN Plain ELSE Nil
              [] Kind(o) = "ConfigMap" -> PluginConfig(f)
              [] Kind(o) = "ConsolePlugin" -> consolePlugin(f)
              [] Kind(o) = "Console" -> {PluginName}
              [] Kind(o) \in {"ServiceAccount", "ServiceMonitor"} -> Plain]

WantedLoki(f) ==
    [o \in ObjectsOf("loki") |->
        IF Kind(o) = "Deployment" THEN OtherPod(Nil, Nil, <<>>, Nil, 1)
        ELSE IF Kind(o) = "Service" THEN Service("loki", {3100}, "") ELSE Plain]

(* The agent's metrics objects, and the rest.                              *)
WantedAgent(f) ==
    [o \in ObjectsOf("agent") |->
        CASE o \in Range(Managed.agent) /\ ~IsEBPFMetricsEnabled(f) -> Nil
          [] Kind(o) = "Service" /\ IsEBPFMetricsEnabled(f) ->
               LET s == agentPromService(f) IN Service(s.selector, {s.port}, s.servingCert)
          [] Kind(o) = "ServiceMonitor" /\ IsEBPFMetricsEnabled(f) -> promServiceMonitoring(f)
          [] Kind(o) = "PrometheusRule" /\ IsEBPFMetricsEnabled(f) -> [alerts |-> agentPrometheusRule(f)]
          [] Kind(o) = "DaemonSet" -> desiredAgent(f, Env) @@ [certs |-> NoCerts]
          [] Kind(o) = "SCC" -> reconcileOpenshiftPermissions(f, Env)
          [] Kind(o) = "BpfApplication" -> prepareBpfApplication(f)
          [] Kind(o) = "Namespace" -> [labels |-> namespaceLabels(Env.vendor, TRUE)]
          [] Kind(o) \in {"ServiceAccount", "RoleBinding"} -> Plain]

WantedPolicies(f) ==
    [o \in ObjectsOf("netpol") |->
        IF ~ShouldInstall(f, Env) THEN Nil
        ELSE IF o[2] = "main" THEN buildMainNetworkPolicy(f, Env) ELSE buildPrivilegedNetworkPolicy(f, Env)]

(* Whether a sub-reconciler takes its objects away.                        *)
isDelete(sub, f) ==
    CASE sub = "informers" -> OnHold(f) \/ ~IsInformerCacheProxyEnabled(f)
      [] sub = "monolith" -> OnHold(f) \/ UseKafka(f)
      [] sub = "transformer" -> OnHold(f) \/ ~UseKafka(f)
      [] sub = "console" -> ~NeedsConsolePluginDeployment(f, Env.hasPluginAPI)
      [] sub = "loki" -> ~UseLokiDev(f)
      [] sub = "agent" -> OnHold(f)
      [] sub = "netpol" -> FALSE

Wanted(sub, f) ==
    CASE sub = "agent" -> WantedAgent(f)
      [] sub = "netpol" -> WantedPolicies(f)
      [] sub \notin {"agent", "netpol"} /\ isDelete(sub, f) -> AbsentAll(sub)
      [] sub = "informers" /\ ~isDelete(sub, f) -> WantedInformers(f)
      [] sub \in {"monolith", "transformer"} /\ ~isDelete(sub, f) ->
           WantedProcessor(IF sub = "monolith" THEN monoName ELSE transfoName, f)
      [] sub = "console" /\ ~isDelete(sub, f) -> WantedConsole(f)
      [] sub = "loki" /\ ~isDelete(sub, f) -> WantedLoki(f)

(* The same for every spec a user may write.  What is only compared as a   *)
(* whole is named after a spec it comes from, and so is a digest of it.    *)
Names == UNION {Offered(controller) : controller \in Controllers}
Everything == UNION {Objects(controller) : controller \in Controllers}
SubOf(o) == CHOOSE sub \in DOMAIN Managed : o \in ObjectsOf(sub)
Contents == [n \in Names, o \in Everything |-> Wanted(SubOf(o), Specs[n])[o]]
NameOf(contents, n, o) == CHOOSE m \in Names : contents[m, o] = contents[n, o]
DigestOf(contents, n, o) ==
    CASE SubOf(o) \in {"monolith", "transformer"} -> NameOf(contents, n, Obj("ConfigMap", o[2] \o "-config"))
      [] SubOf(o) = "console" -> NameOf(contents, n, Obj("ConfigMap", PluginName))
      [] OTHER -> Nil
Named(contents, n, o) ==
    LET content == contents[n, o]
        name(field) == CHOOSE m \in Names : contents[m, o] # Nil /\ contents[m, o][field] = content[field]
    IN  CASE content = Nil -> Nil
          [] content # Nil /\ Kind(o) \in {"Service", "SCC", "Namespace", "Console"} -> content
          [] content # Nil /\ Workload(o) /\ o[2] # "agent" ->
               [content EXCEPT !.config = DigestOf(contents, n, o), !.args = name("args"), !.ports = name("ports"),
                               !.probes = name("probes"), !.scheduling = name("scheduling")]
          [] content # Nil /\ Workload(o) /\ o[2] = "agent" ->
               [content EXCEPT !.env = name("env"), !.filters = name("filters"),
                               !.scheduling = name("scheduling"), !.watched = name("watched")]
          [] OTHER -> NameOf(contents, n, o)
Asked == LET named(contents) == [n \in Names, o \in Everything |-> Named(contents, n, o)] IN named(Contents)
AskedOf(sub, n) == [o \in ObjectsOf(sub) |-> Asked[n, o]]
Refusing == {n \in Names : configMaps(Specs[n], World).err}

(* The certificates whose digests annotate the pods of a sub-reconciler.   *)
Annotated(sub, f) ==
    CASE sub = "monolith" -> annotateKafkaExporterCerts(f)
      [] sub = "transformer" -> annotateKafkaCerts(f.kafka) \cup annotateKafkaExporterCerts(f)
      [] sub = "agent" -> WatchedByAgent(f, Env)
      [] OTHER -> {}

(* Those it hands to the watcher, and those of another namespace than the  *)
(* one it mounts them in, which the watcher copies.                        *)
WatchedBy(sub, f) ==
    CASE sub \in {"monolith", "transformer"} -> WatchedByProcessor(f)
      [] sub = "agent" -> WatchedByAgent(f, Env)
      [] sub = "console" -> WatchedByConsole(f, FALSE)
      [] OTHER -> {}
Elsewhere(sub, f) ==
    LET main == GetOperandsNamespace(f)
        destination == IF sub = "agent" THEN main \o "-privileged" ELSE main
        source(r) == IF r.namespace = "" THEN main ELSE r.namespace
    IN  { <<destination, r>> : r \in { r \in WatchedBy(sub, f) : source(r) # destination } }

(* ----------------------- What is noticed and kept ---------------------- *)

(* Annotations that are only new are not noticed, nor are the last volumes *)
(* when they go, nor ports: the digest of the configuration stands for them.*)
PodChanged(old, new) ==
    \/ old.config # new.config
    \/ \E r \in DOMAIN old.certs : r \notin DOMAIN new.certs \/ new.certs[r] # old.certs[r]
    \/ ~IsPrefix(new.volumes, old.volumes)
    \/ old.scheduling # new.scheduling
    \/ old.args # new.args
    \/ old.probes # new.probes

DeploymentChanged(old, new) == PodChanged(old, new) \/ old.replicas # new.replicas

DaemonSetChanged(old, new) ==
    \/ \E r \in DOMAIN new.certs : r \notin DOMAIN old.certs \/ new.certs[r] # old.certs[r]
    \/ ~(new.volumes \subseteq old.volumes)
    \/ old.scheduling # new.scheduling
    \/ old.env # new.env \/ old.filters # new.filters
    \/ old.security.add # new.security.add
    \/ new.security.privileged /\ ~old.security.privileged

ServiceChanged(old, new) ==
    \/ new.servingCert \notin {"", old.servingCert}
    \/ new.ports # old.ports \/ new.selector # old.selector

(* A Service keeps what cannot be changed, and its selector with it.       *)
UpdatedService(old, new) == [old EXCEPT !.ports = new.ports, !.servingCert = new.servingCert]

SCCChanged(old, new) ==
    \/ ~(new.requiredDrop \subseteq old.requiredDrop)
    \/ [new EXCEPT !.requiredDrop = {}] # [old EXCEPT !.requiredDrop = {}]

Changed(o, old, new) ==
    CASE o = Obj("DaemonSet", "agent") -> DaemonSetChanged(old, new)
      [] Kind(o) = "DaemonSet" /\ o[2] # "agent" -> PodChanged(old, new)
      [] Kind(o) = "Deployment" -> DeploymentChanged(old, new)
      [] Kind(o) = "Service" -> ServiceChanged(old, new)
      [] Kind(o) = "SCC" -> SCCChanged(old, new)
      [] Kind(o) = "Namespace" -> ~(namespaceLabels(Env.vendor, FALSE) \subseteq old.labels)
      [] Kind(o) \in {"ServiceAccount", "PVC"} -> FALSE
      [] Kind(o) = "BpfApplication" -> TRUE
      [] OTHER -> old # new

(* ------------------------ The steps of a program ----------------------- *)

(* put: create or update what FetchAll found; now: the same for what is    *)
(* read at that moment, and delete it when nothing is wanted; drop: delete *)
(* what was found; dropOwned: delete it if it is ours; patch: register the *)
(* plugin; certs: read the certificates; invalid: the builder fails.  The  *)
(* error of a joined step does not stop the next joined one.               *)
Step(op, o, want) == [op |-> op, obj |-> o, want |-> want, keep |-> FALSE, joined |-> FALSE, refs |-> {}]
Put(wanted, o) == Step(IF wanted[o] = Nil THEN "drop" ELSE "put", o, wanted[o])
Now(wanted, o) == Step("now", o, wanted[o])
Certs(sub, f) ==
    IF WatchedBy(sub, f) = {} THEN <<>>
    ELSE << [Step("certs", sub, Elsewhere(sub, f)) EXCEPT !.refs = WatchedBy(sub, f)] >>
Invalid == << Step("invalid", Nil, Nil) >>

TryDeleteAll(sub) ==
    [i \in DOMAIN Managed[sub] |-> [Step("drop", Managed[sub][i], Nil) EXCEPT !.joined = TRUE]]

(* The binding is left alone in the pass that creates the account.         *)
reconcilePermissions(wanted, name) ==
    IF Cached(Obj("ServiceAccount", name)) = Nil THEN << Put(wanted, Obj("ServiceAccount", name)) >>
    ELSE << Now(wanted, Obj("RoleBinding", name)) >>

PutAll(wanted, objects) == [i \in DOMAIN objects |-> Put(wanted, objects[i])]
Replicated(wanted, o, keep) == << [Put(wanted, o) EXCEPT !.keep = keep] >>

Configuration(wanted, name) ==
    PutAll(wanted, << Obj("ConfigMap", name \o "-config"), Obj("ConfigMap", name \o "-config-dynamic") >>)
reconcilePrometheusService(wanted, name) ==
    PutAll(wanted, << Obj("Service", name \o "-prom"), Obj("ServiceMonitor", name), Obj("PrometheusRule", name) >>)

\* Mutant: the other workload is deleted after the new one is created.
reconcileWorkloadKeeping(wanted, f) ==
    LET deployment == Replicated(wanted, Obj("Deployment", monoName), IsUnmanagedFLPReplicas(f))
        daemonSet == << Put(wanted, Obj("DaemonSet", monoName)) >>
    IN  IF UseHostNetwork(f) THEN daemonSet ELSE deployment

(* The workload of the other kind goes first.                              *)
reconcileWorkload(wanted, f) ==
    LET deployment == Replicated(wanted, Obj("Deployment", monoName), IsUnmanagedFLPReplicas(f))
        daemonSet == << Put(wanted, Obj("DaemonSet", monoName)) >>
    IN  IF UseHostNetwork(f) THEN deployment \o daemonSet ELSE daemonSet \o deployment

\* Mutant: the pods are updated before their configuration is.
monolithReconcilePodsFirst(wanted, n) ==
    LET f == Specs[n]
    IN  IF isDelete("monolith", f) THEN TryDeleteAll("monolith")
        ELSE IF n \in Refusing THEN Invalid
        ELSE reconcilePermissions(wanted, monoName) \o << Put(wanted, Obj("Service", monoName)) >>
             \o reconcilePrometheusService(wanted, monoName)
             \o Certs("monolith", f) \o reconcileWorkload(wanted, f)
             \o Configuration(wanted, monoName)

monolithReconcile(wanted, n) ==
    LET f == Specs[n]
    IN  IF isDelete("monolith", f) THEN TryDeleteAll("monolith")
        ELSE IF n \in Refusing THEN Invalid
        ELSE Configuration(wanted, monoName) \o reconcilePermissions(wanted, monoName)
             \o << Put(wanted, Obj("Service", monoName)) >>
             \o reconcilePrometheusService(wanted, monoName)
             \o Certs("monolith", f) \o reconcileWorkload(wanted, f)

transformerReconcile(wanted, n) ==
    LET f == Specs[n]
    IN  IF isDelete("transformer", f) THEN TryDeleteAll("transformer")
        ELSE IF n \in Refusing THEN Invalid
        ELSE Configuration(wanted, transfoName) \o reconcilePermissions(wanted, transfoName)
             \o reconcilePrometheusService(wanted, transfoName)
             \o Certs("transformer", f)
             \o Replicated(wanted, Obj("Deployment", transfoName), IsUnmanagedFLPReplicas(f))
             \o << Put(wanted, Obj("HPA", transfoName)) >>

informerReconcile(wanted, n) ==
    IF isDelete("informers", Specs[n]) THEN TryDeleteAll("informers")
    ELSE PutAll(wanted, << Obj("ServiceAccount", informerName), Obj("Service", "k8scache"),
                                       Obj("Deployment", informerName) >>)

(* On hold the account is deleted if it is there and created if not; the   *)
(* monitor and the rule are left.                                          *)
AgentPermissions(wanted, f) ==
    LET namespace == Obj("Namespace", "privileged")
        account == Obj("ServiceAccount", "agent")
    IN  (IF Cached(namespace) = Nil THEN <<>> ELSE << Now(wanted, Obj("RoleBinding", "expose-metrics")) >>)
        \o << Now(wanted, namespace),
              IF OnHold(f) /\ Cached(account) # Nil THEN Step("dropOwned", account, Nil) ELSE Now(wanted, account) >>
        \o (IF Env.isOpenShift THEN << Now(wanted, Obj("SCC", "agent")) >> ELSE <<>>)

reconcileMetricsService(wanted, f) ==
    IF IsEBPFMetricsEnabled(f) THEN PutAll(wanted, Managed.agent) ELSE TryDeleteAll("agent")

bpfmanAttachNetobserv(wanted) == << Now(wanted, Obj("BpfApplication", "agent")) >>

agentReconcile(wanted, n) ==
    LET f == Specs[n]
    IN  AgentPermissions(wanted, f)
        \o IF OnHold(f) THEN << Step("dropOwned", Obj("DaemonSet", "agent"), Nil),
                                Step("dropOwned", Obj("Service", "agent"), Nil) >>
           ELSE reconcileMetricsService(wanted, f) \o Certs("agent", f)
                \o << Put(wanted, Obj("DaemonSet", "agent")) >>
                \o (IF Has(f, "EbpfManager") THEN bpfmanAttachNetobserv(wanted) ELSE <<>>)

(* The autoscaler does not make the operator leave the replicas alone.     *)
consoleReconcile(wanted, n) ==
    LET f == Specs[n]
    IN  (IF Env.hasPluginAPI /\ checkAutoPatch(f)
           THEN << Step("patch", Obj("Console", "cluster"), {PluginName}) >> ELSE <<>>)
        \o IF isDelete("console", f) THEN TryDeleteAll("console")
           ELSE << Put(wanted, Obj("ServiceAccount", PluginName)) >>
                \o (IF Env.hasPluginAPI THEN << Now(wanted, Obj("ConsolePlugin", PluginName)) >> ELSE <<>>)
                \o << Put(wanted, Obj("ConfigMap", PluginName)) >>
                \o Replicated(wanted, Obj("Deployment", PluginName), f.consolePlugin.unmanagedReplicas)
                \o PutAll(wanted, << Obj("Service", PluginName), Obj("Service", "metrics"),
                                     Obj("ServiceMonitor", PluginName), Obj("HPA", PluginName) >>)
                \o Certs("console", f)

lokiReconcile(wanted, n) ==
    IF isDelete("loki", Specs[n]) THEN [i \in DOMAIN Managed.loki |-> Step("dropOwned", Managed.loki[i], Nil)]
    ELSE PutAll(wanted, << Obj("ConfigMap", "loki"), Obj("PVC", "loki"), Obj("Deployment", "loki"),
                                  Obj("Service", "loki") >>)

netpolReconcile(wanted, n) ==
    << Now(wanted, Obj("NetworkPolicy", "main")), Now(wanted, Obj("NetworkPolicy", "privileged")) >>

Program(sub, wanted, n) ==
    CASE sub = "informers" -> informerReconcile(wanted, n) [] sub = "monolith" -> monolithReconcile(wanted, n)
      [] sub = "transformer" -> transformerReconcile(wanted, n) [] sub = "agent" -> agentReconcile(wanted, n)
      [] sub = "console" -> consoleReconcile(wanted, n) [] sub = "loki" -> lokiReconcile(wanted, n)
      [] sub = "netpol" -> netpolReconcile(wanted, n)
Programs == [sub \in UNION {Range(Subs[c]) : c \in Controllers}, n \in Names |-> Program(sub, AskedOf(sub, n), n)]

(* ------------------------------ The client ----------------------------- *)

Old(s) == IF s.op = "now" THEN Cached(s.obj) ELSE seen[s.obj]
Filled(s) ==
    IF ~Workload(s.obj) \/ s.want = Nil \/ digests = NoCerts THEN s.want
    ELSE [s.want EXCEPT !.certs = [r \in DOMAIN digests \cap Annotated(SubOf(s.obj), Specs[spec]) |-> digests[r]]]

Merged(s, old) ==
    IF Kind(s.obj) = "Service" THEN UpdatedService(old.body, s.want)
    ELSE IF Kind(s.obj) = "Namespace" THEN [old.body EXCEPT !.labels = @ \cup s.want.labels]
    ELSE IF s.keep THEN [Filled(s) EXCEPT !.replicas = old.body.replicas] ELSE Filled(s)

Reply(err, value) == [err |-> err, value |-> value]

(* CreateOwned fails when the object exists.                               *)
CreateOwned(s) ==
    IF objs[s.obj] = Nil THEN Reply(FALSE, Ours(Filled(s), s.obj)) ELSE Reply(TRUE, objs[s.obj])

\* Mutant: the version that was read is not sent along.
UpdateIfOwnedUnversioned(s, old) ==
    IF ~old.owned THEN Reply(FALSE, objs[s.obj]) ELSE Reply(FALSE, Ours(Merged(s, old), s.obj))

\* Mutant: what is not owned is updated too.
UpdateIfOwnedAny(s, old) ==
    IF objs[s.obj] # old THEN Reply(TRUE, objs[s.obj]) ELSE Reply(FALSE, Ours(Merged(s, old), s.obj))

(* The update fails when the object is no longer what was read.  Only the  *)
(* application of the eBPF manager is updated without asking whose it is.  *)
UpdateIfOwned(s, old) ==
    IF ~old.owned /\ Kind(s.obj) # "BpfApplication" THEN Reply(FALSE, objs[s.obj])
    ELSE IF objs[s.obj] # old THEN Reply(TRUE, objs[s.obj])
    ELSE Reply(FALSE, Ours(Merged(s, old), s.obj))

(* DeleteIfOwned fails when the object is gone, TryDelete does not.        *)
DeleteIfOwned(s, old) ==
    IF old = Nil \/ ~old.owned THEN Reply(FALSE, objs[s.obj]) ELSE Reply(objs[s.obj] = Nil, Nil)
TryDelete(s, old) == IF old = Nil THEN Reply(FALSE, objs[s.obj]) ELSE Reply(FALSE, Nil)

(* What comes back for a step, and the object after it.                    *)
Call(s) ==
    LET old == Old(s)
    IN  CASE s.op = "patch" -> Reply(FALSE, [objs[s.obj] EXCEPT !.body = @ \cup s.want])
          [] s.op = "drop" -> TryDelete(s, old)
          [] s.op = "dropOwned" \/ (s.op = "now" /\ s.want = Nil) -> DeleteIfOwned(s, old)
          [] s.op \in {"put", "now"} /\ s.want # Nil ->
               IF old = Nil THEN CreateOwned(s)
               ELSE IF Changed(s.obj, old.body, IF s.keep THEN Merged(s, old) ELSE Filled(s)) THEN UpdateIfOwned(s, old)
               ELSE Reply(FALSE, objs[s.obj])

(* Steps that will not call the API, judged by what was read.              *)
Idle(s, read) ==
    CASE s.op \in {"drop", "dropOwned"} -> read[s.obj] = Nil
      [] s.op = "put" /\ ~Workload(s.obj) ->
           read[s.obj] # Nil /\ ~Changed(s.obj, read[s.obj].body, s.want)
      [] OTHER -> FALSE

\* Mutant: deletions are ignored too.
ManagedObjectEventFilterUpdates(o, old, new) == Watched(o) /\ old # Nil /\ new # Nil /\ old # new /\ new.owned

(* ManagedObjectEventFilter: creations are ignored.                        *)
ManagedObjectEventFilter(o, old, new) ==
    Watched(o) /\ old # Nil /\ old # new /\ (IF new = Nil THEN old ELSE new).owned

(* An object changes; unless it lags, the client reads it at once.         *)
Store(o, value) ==
    /\ objs' = [objs EXCEPT ![o] = value]
    /\ UNCHANGED <<cache, copies, watched>>

Notified(o, value) == o \notin Lagging /\ ManagedObjectEventFilter(o, objs[o], value)

(* --------------------------- The reconciliation ------------------------ *)

Init ==
    /\ ctrl \in Controllers
    /\ stored \in Offered(ctrl)
    /\ objs \in { [o \in Objects(ctrl) |->
                     IF o = Obj("Console", "cluster") THEN [body |-> {"other"}, owned |-> FALSE, ready |-> TRUE]
                     ELSE IF o = f.obj THEN [body |-> f.body, owned |-> FALSE, ready |-> TRUE] ELSE Nil]
                  : f \in Foreign \cup {[obj |-> Nil, body |-> Nil]} }
    /\ cache = [o \in Lagging \cap DOMAIN objs |-> objs[o]]
    /\ copies = NoCerts /\ watched = {}
    /\ pending = TRUE
    /\ spec = Nil /\ subs = <<>> /\ todo = <<>> /\ seen = <<>> /\ digests = NoCerts
    /\ failed = FALSE /\ recheck = FALSE /\ timer = FALSE
    /\ rotation = 0 /\ edits = 0 /\ troubles = 0

bounds == <<rotation, edits, troubles>>
Trouble ==
    /\ troubles < MaxTroubles /\ edits + troubles < MaxEvents
    /\ troubles' = troubles + 1 /\ UNCHANGED edits

Rest ==
    /\ spec' = Nil /\ subs' = <<>> /\ todo' = <<>> /\ seen' = <<>> /\ digests' = NoCerts
    /\ failed' = FALSE /\ recheck' = FALSE

(* A failure ends the reconciliation; the request is queued again.         *)
Abort == Rest /\ pending' = TRUE

Start ==
    /\ spec = Nil /\ pending
    /\ spec' = stored /\ subs' = Subs[ctrl] /\ pending' = FALSE
    /\ watched' = {}
    /\ UNCHANGED <<ctrl, stored, objs, cache, copies, timer, todo, seen, digests, failed, recheck, bounds>>

FetchAll ==
    /\ spec # Nil /\ todo = <<>> /\ subs # <<>> /\ ~failed
    /\ LET sub == Head(subs)
           read == [o \in ObjectsOf(sub) |-> Cached(o)]
       IN  /\ seen' = read
           /\ todo' = SelectSeq(Programs[sub, spec], LAMBDA s : ~Idle(s, read))
    /\ subs' = Tail(subs) /\ digests' = NoCerts
    /\ UNCHANGED <<ctrl, stored, kvars, pending, timer, spec, failed, recheck, bounds>>

(* The certificates are watched, copied and their digests taken.           *)
Copied(pairs) ==
    copies' = [p \in DOMAIN copies \cup pairs |-> IF p \in pairs THEN rotation ELSE copies[p]]
ReadCertificates ==
    /\ todo # <<>> /\ ~failed /\ Head(todo).op = "certs"
    /\ watched' = watched \cup Head(todo).refs
    /\ Copied(Head(todo).want)
    /\ digests' = [r \in Head(todo).refs |-> rotation]
    /\ todo' = Tail(todo)
    /\ UNCHANGED <<ctrl, stored, objs, cache, pending, timer, spec, subs, seen, failed, recheck, bounds>>

(* A certificate is missing, or cannot be copied.  The console goes on.    *)
CertificatesFail ==
    /\ Trouble
    /\ todo # <<>> /\ ~failed /\ Head(todo).op = "certs"
    /\ \E refs \in SUBSET Head(todo).refs :
          /\ watched' = watched \cup refs
          /\ \E pairs \in SUBSET { p \in Head(todo).want : p[2] \in refs } : Copied(pairs)
    /\ IF Head(todo).obj = "console"
         THEN /\ todo' = Tail(todo)
              /\ UNCHANGED <<pending, spec, subs, seen, digests, failed, recheck>>
         ELSE Abort
    /\ UNCHANGED <<ctrl, stored, objs, cache, timer, rotation>>

(* A call is made unless a deletion failed that it has to wait for.        *)
Calls(s) == s.op \notin {"certs", "invalid"} /\ (failed => s.joined)

(* A workload that is created or not ready has the status checked again;   *)
(* the agent's is only looked at when it needs no update.                  *)
Unready(s) ==
    /\ Workload(s.obj) /\ s.op = "put"
    /\ \/ Old(s) = Nil
       \/ ~Old(s).ready /\ (s.obj[2] = "agent" => ~DaemonSetChanged(Old(s).body, Filled(s)))

Write ==
    /\ todo # <<>> /\ Calls(Head(todo))
    /\ \E s \in {Head(todo)} : \E reply \in {Call(s)} :
          /\ ~reply.err
          /\ Store(s.obj, reply.value)
          /\ pending' = (pending \/ Notified(s.obj, reply.value))
          /\ recheck' = (recheck \/ Unready(s))
    /\ todo' = Tail(todo)
    /\ UNCHANGED <<ctrl, stored, timer, spec, subs, seen, digests, failed, bounds>>

(* An object exists that was not found, or is not what was read.           *)
Conflict ==
    /\ todo # <<>> /\ Calls(Head(todo)) /\ Call(Head(todo)).err
    /\ Abort
    /\ UNCHANGED <<ctrl, stored, kvars, timer, bounds>>

(* The API server refuses a call, or its answer is lost.  The registration *)
(* of the plugin and the deletions go on after an error.                   *)
APIError ==
    /\ Trouble
    /\ todo # <<>> /\ Calls(Head(todo)) /\ ~Call(Head(todo)).err
    /\ LET s == Head(todo)
           goesOn == s.joined \/ s.op = "patch"
       IN  \E value \in {objs[s.obj], Call(s).value} :
             /\ Store(s.obj, value)
             /\ IF goesOn
                  THEN /\ pending' = (pending \/ Notified(s.obj, value))
                       /\ todo' = Tail(todo) /\ failed' = (failed \/ s.joined)
                       /\ UNCHANGED <<spec, subs, seen, digests, recheck>>
                  ELSE Abort
    /\ UNCHANGED <<ctrl, stored, timer, rotation>>

(* The builder refuses the spec, or the errors of the deletions are        *)
(* returned.                                                               *)
GiveUp ==
    /\ \/ todo # <<>> /\ Head(todo).op = "invalid"
       \/ failed /\ (todo # <<>> => ~Head(todo).joined)
    /\ Abort
    /\ UNCHANGED <<ctrl, stored, kvars, timer, bounds>>

\* Mutant: the status is checked again whatever was found.
FinishAlways ==
    /\ spec # Nil /\ todo = <<>> /\ subs = <<>> /\ ~failed
    /\ Rest
    /\ timer' = TRUE
    /\ UNCHANGED <<ctrl, stored, kvars, pending, bounds>>

Finish ==
    /\ spec # Nil /\ todo = <<>> /\ subs = <<>> /\ ~failed
    /\ Rest
    /\ timer' = (timer \/ recheck)
    /\ UNCHANGED <<ctrl, stored, kvars, pending, bounds>>

(* Thirty seconds are longer than the cache lags behind.                   *)
InSync == \A o \in DOMAIN cache : cache[o] = objs[o]
Elapse ==
    /\ timer /\ InSync
    /\ timer' = FALSE /\ pending' = TRUE
    /\ UNCHANGED <<ctrl, stored, kvars, rvars, bounds>>

(* ---------------------------- The environment -------------------------- *)

(* Someone else changes an object.                                         *)
Touch(o, value) ==
    /\ Store(o, value)
    /\ pending' = (pending \/ Notified(o, value))

Edit ==
    /\ edits < MaxEdits /\ edits + troubles < MaxEvents
    /\ edits' = edits + 1 /\ UNCHANGED troubles
    /\ stored' \in Offered(ctrl) \ {stored}
    /\ pending' = TRUE
    /\ UNCHANGED <<ctrl, kvars, timer, rvars, rotation>>

Delete(o) ==
    /\ Trouble
    /\ objs[o] # Nil /\ objs[o].owned
    /\ Touch(o, Nil)
    /\ UNCHANGED <<ctrl, stored, timer, rvars, rotation>>

(* The pods of a workload become ready.                                    *)
Settle(o) ==
    /\ objs[o] # Nil /\ ~objs[o].ready
    /\ Touch(o, [objs[o] EXCEPT !.ready = TRUE])
    /\ UNCHANGED <<ctrl, stored, timer, rvars, bounds>>

(* The autoscaler of a deployment sets the replicas it wants.              *)
Scale(o) ==
    /\ Kind(o) = "Deployment" /\ objs[o] # Nil /\ objs[o].body.replicas # Target
    /\ Obj("HPA", o[2]) \in DOMAIN objs /\ objs[Obj("HPA", o[2])] # Nil
    /\ Touch(o, [objs[o] EXCEPT !.body.replicas = Target])
    /\ UNCHANGED <<ctrl, stored, timer, rvars, bounds>>

(* The certificates are rotated; the watcher wakes the controller up when  *)
(* it watches one of them.                                                 *)
Rotate ==
    /\ Trouble /\ rotation' = rotation + 1
    /\ pending' = (pending \/ watched # {})
    /\ UNCHANGED <<ctrl, stored, kvars, timer, rvars>>

(* The cache hears of a change.                                            *)
Sync(o) ==
    /\ cache[o] # objs[o]
    /\ cache' = [cache EXCEPT ![o] = objs[o]]
    /\ pending' = (pending \/ ManagedObjectEventFilter(o, cache[o], objs[o]))
    /\ UNCHANGED <<ctrl, stored, objs, copies, watched, timer, rvars, bounds>>

Reconcile ==
    Start \/ FetchAll \/ ReadCertificates \/ Write \/ Conflict \/ GiveUp \/ Finish

Workloads == {o \in DOMAIN objs : Workload(o)}
Cluster ==
    \/ \E o \in Workloads : Settle(o) \/ Scale(o)
    \/ \E o \in DOMAIN cache : Sync(o)

Next ==
    \/ Reconcile \/ Elapse \/ Cluster
    \/ APIError \/ CertificatesFail \/ Edit \/ Rotate
    \/ \E o \in DOMAIN objs \cap Deletable : Delete(o)

Spec == Init /\ [][Next]_vars

(* A queued request is worked on and its steps are taken, timers run down, *)
(* pods start, watches deliver and autoscalers act.                        *)
FairSpec ==
    /\ Spec
    /\ WF_vars(Reconcile \/ Elapse)
    /\ WF_vars(Cluster)

(* ----------------------------- Properties ------------------------------ *)

AtRest ==
    /\ spec = Nil /\ ~pending /\ ~timer
    /\ InSync
    /\ \A o \in DOMAIN objs : objs[o] # Nil => objs[o].ready

(* What an object is compared with: the replicas are not the operator's    *)
(* when it is told so, a Service keeps its selector and a certificate that *)
(* is no longer asked for.                                                 *)
Leaves(o, f) ==
    /\ Kind(o) = "Deployment"
    /\ IF o[2] = PluginName THEN f.consolePlugin.unmanagedReplicas
       ELSE o[2] \in {monoName, transfoName} /\ IsUnmanagedFLPReplicas(f)
Compared(o, body, f) ==
    CASE Leaves(o, f) -> [body EXCEPT !.replicas = Nil]
      [] Kind(o) = "Service" -> body.ports
      [] Kind(o) = "SCC" -> [body EXCEPT !.requiredDrop = {}]
      [] OTHER -> body

(* What stays behind: on hold the agent's account, monitor, rule and       *)
(* constraints; the application of the eBPF manager; the plugin's          *)
(* registration; what was created but not heard of before it was unwanted. *)
StaysBehind(sub, o) ==
    \/ sub = "agent" /\ OnHold(Specs[stored]) /\ o \notin {Obj("DaemonSet", "agent"), Obj("Service", "agent")}
    \/ Kind(o) = "BpfApplication" /\ ~Has(Specs[stored], "EbpfManager")
    \/ Kind(o) \in {"Console", "ConsolePlugin"}
    \/ Kind(o) = "SCC" /\ ~Env.isOpenShift
    \/ o \in Lagging /\ (Asked[stored, o] = Nil \/ (sub = "agent" /\ OnHold(Specs[stored])))

AsWanted(sub, o) ==
    LET wanted == IF sub = "agent" /\ OnHold(Specs[stored]) THEN Nil ELSE Asked[stored, o]
        filled == IF Workload(o) THEN [wanted EXCEPT !.certs = [r \in Annotated(sub, Specs[stored]) |-> rotation]] ELSE wanted
    IN  IF wanted = Nil \/ objs[o] = Nil THEN wanted = objs[o]
        ELSE Compared(o, objs[o].body, Specs[stored]) = Compared(o, filled, Specs[stored])

(* The certificates a workload needs are copied as they are; the console's *)
(* reads that failed are only reported, and not repeated.                  *)
CopiedAsWanted(sub) ==
    sub = "console" \/ isDelete(sub, Specs[stored])
        \/ \A p \in Elsewhere(sub, Specs[stored]) : p \in DOMAIN copies /\ copies[p] = rotation

(* Once the controller has nothing left to do, every object it owns is     *)
(* what the builders make of the stored spec and of the certificates as    *)
(* they are, and so are the copies of those, whatever edits, deletions,    *)
(* rotations, failed calls and conflicts came between: nothing that        *)
(* FetchAll read before, no digest and no error is left behind.            *)
AtRestAsWanted ==
    AtRest =>
        \A sub \in Range(Subs[ctrl]) :
            /\ CopiedAsWanted(sub)
            /\ \A o \in ObjectsOf(sub) :
                  \/ StaysBehind(sub, o)
                  \/ objs[o] # Nil /\ ~objs[o].owned
                  \/ AsWanted(sub, o)

(* While the replicas of a deployment are somebody else's, no update of    *)
(* the operator takes them back, even to what it has just read.            *)
ReplicasLeftAlone ==
    [][\A o \in Workloads :
          Kind(o) = "Deployment" /\ spec # Nil /\ objs[o] # Nil /\ objs'[o] # Nil /\ Leaves(o, Specs[spec])
            => objs'[o].body.replicas \in {objs[o].body.replicas, Target}]_objs

(* The certificates a workload is newly told of are the copies it mounts.  *)
MountsCopies(o) ==
    LET was == IF objs[o] = Nil THEN NoCerts ELSE objs[o].body.certs
        now == objs'[o].body.certs
    IN  now # was => \A p \in Elsewhere(SubOf(o), Specs[spec]) :
            p[2] \in DOMAIN now /\ (p[2] \in DOMAIN was => was[p[2]] # now[p[2]])
                => p \in DOMAIN copies /\ copies[p] = now[p[2]]

(* Pods are never started with the digest of another configuration, or of  *)
(* another certificate, than the one they will read: both are stored       *)
(* before (flp and agent reconcile: config maps and copies, then pods).    *)
ConfigFirst ==
    [][/\ \A o \in Workloads :
             spec # Nil /\ objs'[o] # Nil /\ objs'[o] # objs[o] => MountsCopies(o)
       /\ \A name \in {monoName, transfoName}, kind \in {"Deployment", "DaemonSet"} :
             LET workload == Obj(kind, name)
                 source == Obj("ConfigMap", name \o "-config")
             IN  workload \in DOMAIN objs /\ objs'[workload] # Nil
                     /\ (objs[workload] = Nil \/ objs[workload].body.config # objs'[workload].body.config)
                   => objs[source] = Nil \/ objs[source].body = objs'[workload].body.config]_objs

(* What the operator does not own is never updated, and only deleted with  *)
(* the objects of a processor or of the plugin (TryDelete does not ask).   *)
ForeignKept ==
    [][\A o \in DOMAIN objs \ {Obj("Console", "cluster"), Obj("BpfApplication", "agent")} :
          objs[o] # Nil /\ ~objs[o].owned =>
            \/ objs'[o] = objs[o]
            \/ objs'[o] = Nil /\ \E sub \in {"informers", "monolith", "transformer", "console"} : o \in ObjectsOf(sub)]_objs

(* The processor never runs as a daemon set and as a deployment at once:   *)
(* the one that is not wanted is deleted first (reconcileWorkload).  This  *)
(* takes a cache that has heard of it: one that was created and not heard  *)
(* of is not deleted, so neither of the two may be in Lagging.             *)
OneProcessor ==
    ctrl = "flp" => Nil \in {objs[Obj("DaemonSet", monoName)], objs[Obj("Deployment", monoName)]}

(* Left alone, the controller comes to rest: retries end, it does not wake *)
(* itself up for ever (unless the builders refuse the spec).               *)
Converges == <>[](AtRest \/ (ctrl = "flp" /\ stored \in Refusing))
=============================================================================
