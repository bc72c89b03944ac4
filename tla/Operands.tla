----------------------------- MODULE Operands -----------------------------
(***************************************************************************)
(* What the operator deploys for a FlowCollector, as the user edits it:    *)
(* every edit goes through the validation webhook, and the objects of all  *)
(* components are those the builders make of the stored spec, of the       *)
(* FlowCollectorSlices and FlowMetrics, and of the platform.               *)
(*                                                                         *)
(* Components are built by different controllers from the same spec; the   *)
(* properties say that what they build fits together.                      *)
(***************************************************************************)
EXTENDS Admission, FLPObjects, AgentObjects, NetPolicies, ConsoleObjects

CONSTANTS Platforms,      \* the platforms the operator may run on
          AgentEdits(_), MetricsEdits(_), ProcessorEdits(_), OutputEdits(_), DeploymentEdits(_),
                          \* the specs a user may write next, by section
          SliceMenu,      \* the FlowCollectorSlices that may be created
          MetricMenu,     \* the FlowMetrics that may be created
          MaxEdits        \* bound: number of edits

VARIABLES env,            \* the platform
          fc,             \* the stored spec
          warnings,       \* the warnings returned with it
          slices,         \* the FlowCollectorSlices
          metrics,        \* the FlowMetrics
          edits           \* how many edits were made

vars == <<env, fc, warnings, slices, metrics, edits>>

Init ==
    /\ env \in Platforms
    /\ fc = DefaultFlowCollector
    /\ warnings = Validate(fc, env).warnings
    /\ slices = {} /\ metrics = {}
    /\ edits = 0

(* ValidateCreate and ValidateUpdate: an edit is stored when it has no     *)
(* error.                                                                  *)
Edit(spec) ==
    /\ edits < MaxEdits
    /\ Validate(spec, env).errors = {}
    /\ fc' = spec
    /\ warnings' = Validate(spec, env).warnings
    /\ edits' = edits + 1
    /\ UNCHANGED <<env, slices, metrics>>

EditAgent == \E spec \in AgentEdits(fc) : Edit(spec)
EditMetrics == \E spec \in MetricsEdits(fc) : Edit(spec)
EditProcessor == \E spec \in ProcessorEdits(fc) : Edit(spec)
EditOutput == \E spec \in OutputEdits(fc) : Edit(spec)
EditDeployment == \E spec \in DeploymentEdits(fc) : Edit(spec)

(* Slices and metrics are other resources, with webhooks of their own.     *)
CreateSlice ==
    /\ edits < MaxEdits
    /\ \E s \in SliceMenu : /\ \A t \in slices : t.name # s.name
                            /\ slices' = slices \cup {s}
    /\ edits' = edits + 1
    /\ UNCHANGED <<env, fc, warnings, metrics>>

CreateMetric ==
    /\ edits < MaxEdits
    /\ \E m \in MetricMenu \ metrics : metrics' = metrics \cup {m}
    /\ edits' = edits + 1
    /\ UNCHANGED <<env, fc, warnings, slices>>

Next == EditAgent \/ EditMetrics \/ EditProcessor \/ EditOutput \/ EditDeployment
        \/ CreateSlice \/ CreateMetric

Spec == Init /\ [][Next]_vars

(* The world the pipeline is built in: slices in the order of their names. *)
World ==
    [env |-> env, slices |-> SetToSortSeq(slices, LAMBDA a, b : a.name < b.name),
     metrics |-> metrics, clusterID |-> "id", detected |-> env.detected]

(* --------------------------- Metrics and rules ------------------------- *)

Rules == BuildMonitoringRules(fc)
Definitions == GetDefinitions(fc)

(* A user who sets neither a list of metrics nor health rules gets rules   *)
(* whose metrics are all produced, whatever features are on, with Loki or  *)
(* without: DefaultIncludeList, DefaultIncludeListLokiDisabled, the        *)
(* removal of unfed metrics and DefaultHealthRules are four lists kept in  *)
(* step by hand.                                                           *)
DefaultsSelfSufficient ==
    fc.processor.metrics.includeList = Nil /\ fc.processor.metrics.healthRules = Nil
        => \A r \in Rules : NoMetric \notin Range(r.reads)

(* The alerts of one variant never fire together: an accepted set of       *)
(* positive thresholds gives disjoint bands, each severity bounded by the  *)
(* next higher one given.                                                  *)
BandsDisjoint ==
    \A r, s \in {x \in Rules : x.mode = "Alert" /\ x.threshold.val > 0} :
        r.template = s.template /\ r.groupBy = s.groupBy /\ r.side = s.side /\ r.severity # s.severity
            => ~\E v \in 0..30 : percentagePromQL(r, v) /\ percentagePromQL(s, v)

(* The labels a rule groups by or filters on are labels of the metrics it  *)
(* reads, on the same side, once GetDefinitions has removed those that     *)
(* nothing fills.  (The trends of external traffic by node filter on a     *)
(* label that metrics of nodes do not have: the known exception.)          *)
GroupLabelsResolve ==
    \A r \in {x \in Rules : x.reads # <<>> /\ x.reads[1] # NoMetric} :
        \A d \in {x \in Definitions : x.name = r.reads[1]} :
            /\ sumByLabels(r.groupBy, r.side) \subseteq d.labels
            /\ d.name[1] # "node" => TemplateOf[r.template].filters \subseteq d.labels

(* A flow is counted once by every metric: of the records emitted for a    *)
(* flow or a conversation, exactly one type passes the metrics' filter.    *)
CountedOnce ==
    \A d \in Definitions :
        Cardinality({t \in GetRecordTypes(fc) : d.recordType \in {"", t}}) = 1

(* A label stays on a metric exactly when a stage of the pipeline fills it *)
(* in: labelsToRemove and the stages follow different predicates.          *)
LabelsFed ==
    LET chain == Range(Transforms(fc, World))
        labels == UNION {d.labels : d \in {x \in Definitions : x.name[1] = "workload"}}
        present(l) == \E side \in {"", "Src", "Dst"} : <<side, l>> \in labels
    IN  labels # {} => /\ present("ASN") <=> "asns" \in chain
                       /\ present("NetworkName") <=> "NetworkName" \in addEnrichStage(fc)
                       /\ present("Zone") <=> "Zone" \in addEnrichStage(fc)
                       /\ present("ClusterName") <=> addOtherTransforms(fc, World.clusterID)

(* Without Loki, the default metrics serve every scope of the console that *)
(* a feature turns on.                                                     *)
NoScopeLost ==
    fc.processor.metrics.includeList = Nil => setFrontendConfig(fc).warned = {}

(* ------------------------------ Connections ---------------------------- *)

(* Nothing added to a pod replaces a volume another stage added under the  *)
(* same name.                                                              *)
NothingClobbered(added) ==
    \A i, j \in DOMAIN added : added[i].name = added[j].name => added[i].ref = added[j].ref

VolumesKept ==
    /\ NothingClobbered(ProcessorVolumes(fc, env))
    /\ NothingClobbered(AgentVolumes(fc, env))
    /\ NothingClobbered(PluginVolumes(fc, env, FALSE))

EnvOf(name) == { e[2] : e \in {x \in envConfig(fc, env) : x[1] = name} }
Ports(name) == { p.port : p \in {x \in podTemplate(fc, env) : x.name = name} }
Mounts(added, name) == \E i \in DOMAIN added : added[i].name = name

(* The agent exports where the processor listens: through Kafka both or    *)
(* neither; else on the processor's port, through the Service when there   *)
(* is one, with TLS exactly when the processor serves it and a client      *)
(* certificate exactly when the processor asks for one.                    *)
AgentReachesProcessor ==
    LET processor == ProcessorVolumes(fc, env)
        agent == AgentVolumes(fc, env)
    IN  /\ EnvOf("EXPORT") = {"kafka"} <=> AppOf(fc) = transfoName
        /\ EnvOf("TARGET_PORT") = {ToString(p) : p \in Ports("flp")}
        /\ fc.deploymentModel = "Service" => monoService(fc, env).ports = Ports("flp")
        /\ Mounts(agent, "netobserv-ca") <=> Mounts(processor, "svc-certs")
        /\ Mounts(agent, "client-certs") <=> Mounts(processor, "netobserv-ca")
        /\ Mounts(agent, "kafka-certs-ca") <=> Mounts(processor, "kafka-cert-ca")
        /\ Mounts(agent, "kafka-sasl-id") <=> Mounts(processor, "kafka-ingest-sasl-id")

(* A processor that may not read the Kubernetes API is fed by informers    *)
(* that find it, on the port it listens on, with matching TLS, and that    *)
(* index the secondary networks its enrichment looks up.                   *)
InformersReachCache ==
    LET informers == informerDeployment(fc, env)
        client == K8sCacheClientTLS(fc, env)
        server == K8sCacheServerTLS(fc, env)
    IN  "informers" \notin reconcileCRB(fc, env) =>
        /\ {informers.port} = Ports("k8scache")
        /\ informers.target = AppOf(fc)
        /\ client.ca # Nil <=> server.cert # Nil
        /\ client.cert # Nil <=> server.ca # Nil
        /\ "NetworkName" \in addEnrichStage(fc) <=> informers.secondary # <<>> \/ informers.udn

(* The monitors scrape with TLS exactly when the servers have a            *)
(* certificate to show, provided that "Provided" comes with one.           *)
ScrapeMatchesServer ==
    LET given(tls) == tls.type = "Provided" => tls.provided
    IN  /\ given(fc.agent.metrics.server.tls) =>
             (promServiceMonitoring(fc).scheme = "https" <=> Mounts(AgentVolumes(fc, env), "prom-certs"))
        /\ given(fc.processor.metrics.server.tls) =>
             (serviceMonitor(fc).scheme = "https" <=> Mounts(ProcessorVolumes(fc, env), "prom-certs"))

(* When a network policy is installed it lets the operands work: flows     *)
(* from the agents to the port of the processor's pods, scrapes of both    *)
(* metrics servers by the Prometheus that the labels of the namespace ask  *)
(* for, queries of the OpenShift console, and Loki when it is in another   *)
(* namespace.                                                              *)
PolicyAdmitsTraffic ==
    LET main == buildMainNetworkPolicy(fc, env)
        ns == GetOperandsNamespace(fc)
        prometheus == IF "openshift.io/cluster-monitoring" \in namespaceLabels(env.vendor, TRUE)
                        THEN "openshift-monitoring" ELSE "openshift-user-workload-monitoring"
        stack == IF fc.loki.lokiStack = "" THEN ns ELSE fc.loki.lokiStack
    IN  ShouldInstall(fc, env) =>
        /\ flowNetworkType(fc, env) = "svc" => \A p \in Ports("flp") :
              Permits(main.ingress, HostNetworkPeer(env, ns \o "-privileged"), p)
        /\ OpenShiftVendor(env) =>
             /\ \A p \in promService(fc).ports \cup metricsService.ports : Permits(main.ingress, prometheus, p)
             /\ Permits(buildPrivilegedNetworkPolicy(fc, env).ingress, prometheus, agentPromService(fc).port)
             /\ NeedsConsolePluginDeployment(fc, env.hasPluginAPI) =>
                   Permits(main.ingress, "openshift-console", consolePlugin(fc).port)
        /\ UseLoki(fc) /\ fc.loki.mode = "LokiStack" => Permits(main.egress, stack, 8080)

(* ------------------------------- Slices -------------------------------- *)

(* A network of a slice is dropped exactly when a network configured       *)
(* before it covers all of its addresses: no label is lost, and none is    *)
(* configured that could never match.                                      *)
SliceNetworksPrioritised ==
    LET admin == fc.processor.subnetLabels.custom
        kept == slicesToFCSubnetLabels(World.slices, Range(admin))
        before(i) == Range(admin) \cup {kept[j].network : j \in 1..(i - 1)}
        asked == UNION {Range(s.networks) : s \in slices} \ {Nil}
        covers(n, m) == AddressesOf(m) \subseteq AddressesOf(n)
    IN  IsSliceEnabled(fc) /\ ~SubnetLabelsFail(fc) =>
        /\ \A i \in DOMAIN kept : \A n \in before(i) : ~covers(n, kept[i].network)
        /\ \A m \in asked : \E n \in before(Len(kept) + 1) : covers(n, m)
=============================================================================
