--------------------------- MODULE AgentObjects ---------------------------
(***************************************************************************)
(* The objects of the eBPF agent (controller/ebpf): its daemon set with    *)
(* the environment, filters and volumes, its permissions on OpenShift, its *)
(* metrics service and the application handed to the eBPF manager.  An     *)
(* environment is a set of pairs of a name and of a value.                 *)
(***************************************************************************)
EXTENDS HealthRules, Certificates

OpenShiftVendor(env) == env.vendor \in {"openshift", "downstream"}

(* ----------------------------- The filters ----------------------------- *)

(* What the agent is given for a port filter of the API: an integer is a   *)
(* port, a string with a dash a range, one with a comma a list.            *)
processPorts(ports) ==
    CASE ports.kind \in {"int", "range", "list"} -> ports
      [] OTHER -> NoPorts

mapFlowFilterRuleToFilter(rule) ==
    [rule EXCEPT !.ports = processPorts(rule.ports),
                 !.sourcePorts = processPorts(rule.sourcePorts),
                 !.destPorts = processPorts(rule.destPorts),
                 !.sampling = IF @ = 0 THEN Nil ELSE @]

configureFlowFiltersRules(rules) == [i \in DOMAIN rules |-> mapFlowFilterRuleToFilter(rules[i])]

mapFlowFilterToFilter(filter) == mapFlowFilterRuleToFilter(filter.inline)

configureFlowFilter(filter) == <<mapFlowFilterToFilter(filter)>>

(* The list of rules hides the filter written in place.                    *)
FlowFilters(fc) ==
    IF ~IsEBPFFlowFilterEnabled(fc) THEN <<>>
    ELSE IF fc.agent.flowFilter.rules # <<>> THEN configureFlowFiltersRules(fc.agent.flowFilter.rules)
    ELSE configureFlowFilter(fc.agent.flowFilter)

(* --------------------------- The environment --------------------------- *)

(* A variable of the advanced section hides the one the operator computes. *)
addEnv(name, value, overrides) == IF name \in overrides THEN {} ELSE {<<name, value>>}

FeatureEnv ==
    [FlowRTT |-> "ENABLE_RTT", NetworkEvents |-> "ENABLE_NETWORK_EVENTS_MONITORING",
     UDNMapping |-> "ENABLE_UDN_MAPPING", PacketTranslation |-> "ENABLE_PKT_TRANSLATION",
     EbpfManager |-> "EBPF_PROGRAM_MANAGER_MODE", PacketDrop |-> "ENABLE_PKT_DROPS",
     DNSTracking |-> "ENABLE_DNS_TRACKING", IPSec |-> "ENABLE_IPSEC_TRACKING",
     TLSTracking |-> "ENABLE_TLS_TRACKING"]

GetDNSTrackingPorts(fc, env) ==
    IF fc.agent.dnsPorts # <<>> THEN "custom" ELSE IF OpenShiftVendor(env) THEN "53,5353" ELSE "53"

\* Mutant: the agent takes the processor to have automatic certificates.
AgentServiceTLSAuto(fc, env) == GetServiceClientTLSConfig(Nil, "ebpf-agent-cert", env.isOpenShift)

AgentServiceTLS(fc, env) == GetServiceClientTLSConfig(fc.processor.service, "ebpf-agent-cert", env.isOpenShift)

(* Where the flows are sent: to Kafka, to the processor of the same node   *)
(* or to the Service of the processor.                                     *)
exportEnv(fc, env, overrides) ==
    LET add(name, value) == addEnv(name, value, overrides)
        port == ToString(GetAdvancedProcessorConfig(fc).port)
        tls == AgentServiceTLS(fc, env)
    IN  CASE UseKafka(fc) ->
               add("EXPORT", "kafka")
               \cup (IF fc.kafka.tls.enable THEN add("KAFKA_ENABLE_TLS", "true") ELSE {})
               \cup (IF UseSASL(fc.kafka) THEN add("KAFKA_ENABLE_SASL", fc.kafka.sasl) ELSE {})
          [] UseHostNetwork(fc) ->
               add("EXPORT", "grpc") \cup add("TARGET_HOST", "status.hostIP") \cup add("TARGET_PORT", port)
          [] OTHER ->
               add("EXPORT", "grpc") \cup add("TARGET_HOST", GetOperandsNamespace(fc))
               \cup add("TARGET_PORT", port)
               \cup (IF tls.ca = Nil THEN {} ELSE add("TARGET_TLS_CA_CERT_PATH", "netobserv-ca"))
               \cup (IF tls.ca = Nil \/ tls.cert = Nil THEN {}
                     ELSE add("TARGET_TLS_USER_CERT_PATH", "client-certs"))

envConfig(fc, env) ==
    LET overrides == GetAdvancedAgentConfig(fc).env
        add(name, value) == addEnv(name, value, overrides)
        addIf(condition, name, value) == IF condition THEN add(name, value) ELSE {}
        old == env.isOpenShift /\ env.openShiftVersion < 416
    IN  { <<name, "advanced">> : name \in overrides }
        \cup UNION { addIf(Has(fc, f), FeatureEnv[f], "true") : f \in DOMAIN FeatureEnv }
        \cup addIf(IsSecondaryNetworksEnabled(fc), "ENABLE_SECONDARY_NETWORKS", "true")
        \cup addIf(OrElse(fc.agent.sampling, 0) > 0, "SAMPLING", ToString(fc.agent.sampling))
        \cup addIf(fc.agent.interfaces # {}, "INTERFACES", "list")
        \cup addIf(IsEBPFMetricsEnabled(fc), "METRICS_ENABLE", "true")
        \cup addIf(IsEBPFMetricsEnabled(fc), "METRICS_SERVER_PORT", ToString(AgentMetricsPort(fc)))
        \cup add("DNS_TRACKING_PORT", GetDNSTrackingPorts(fc, env))
        \cup add("TC_ATTACH_MODE", IF old THEN "tc" ELSE "tcx")
        \cup exportEnv(fc, env, overrides)

(* The references whose digest annotates the pods: those that are copied   *)
(* to the privileged namespace and watched.                                *)
WatchedByAgent(fc, env) ==
    LET tls == AgentServiceTLS(fc, env)
        notNil(refs) == refs \ {Nil}
    IN  CASE UseKafka(fc) ->
               (IF fc.kafka.tls.enable THEN notNil({fc.kafka.tls.caCert, fc.kafka.tls.userCert}) ELSE {})
               \cup (IF UseSASL(fc.kafka) THEN {SASLRef(fc.kafka, "-id"), SASLRef(fc.kafka, "-secret")} ELSE {})
          [] UseHostNetwork(fc) \/ tls.ca = Nil \/ ~env.isOpenShift -> {}
          [] tls.cert = Nil -> IF tls.ca.namespace = "" THEN {} ELSE {tls.ca}
          [] OTHER -> {tls.ca, tls.cert}

(* ----------------------------- The volumes ----------------------------- *)

(* The certificate of the agent's metrics server.                          *)
AgentPromTLS(fc) ==
    LET tls == fc.agent.metrics.server.tls
    IN  CASE tls.type = "Provided" /\ tls.provided -> Ref("secret", "agent-metrics-provided", "")
          [] tls.type = "Auto" -> Ref("secret", "ebpf-agent-svc-prom", "")
          [] OTHER -> Nil

AgentVolumes(fc, env) ==
    LET tls == AgentServiceTLS(fc, env)
    IN  (CASE UseKafka(fc) -> getClientTLS(fc.kafka.tls, "kafka-certs") \o getSASL(fc.kafka, "kafka")
           [] UseHostNetwork(fc) \/ tls.ca = Nil -> <<>>
           [] OTHER -> AddCertificate(tls.ca, "netobserv-ca") \o AddCertificate(tls.cert, "client-certs"))
        \o AddCertificate(AgentPromTLS(fc), "prom-certs")

HostPath(name, path) == [name |-> name, hostPath |-> path]
getHostVolumesInfo(fc, env) ==
    Opt(IsSecondaryNetworksEnabled(fc), HostPath("var-run-netns", "/var/run/netns"))
    \cup Opt(Has(fc, "PacketDrop") /\ ~Has(fc, "EbpfManager"),
             HostPath("bpf-kernel-debug", "/sys/kernel/debug"))
    \cup If(Has(fc, "NetworkEvents") \/ Has(fc, "UDNMapping"),
            { HostPath("var-run-ovn", IF OpenShiftVendor(env) THEN "/var/run/ovn-ic"
                                      ELSE "/var/run/openvswitch"),
              HostPath("var-run-ovs", "/var/run/openvswitch") })

(* The names of all volumes of the agent.                                  *)
buildVolumes(fc, env) ==
    { v.name : v \in Mounted(AgentVolumes(fc, env)) } \cup { v.name : v \in getHostVolumesInfo(fc, env) }
    \cup Opt(Has(fc, "EbpfManager"), "bpfman-maps")

(* --------------------------- The permissions --------------------------- *)

getAllowedCapabilities(fc) ==
    IF fc.agent.privileged THEN {}
    ELSE IF Set(fc.agent.advanced) /\ fc.agent.advanced.capOverride # {} THEN fc.agent.advanced.capOverride
    ELSE {"BPF", "PERFMON", "NET_ADMIN"}
         \cup Opt(IsSecondaryNetworksEnabled(fc), "SYS_ADMIN")
         \cup Opt(Has(fc, "NetworkEvents") \/ Has(fc, "UDNMapping"), "DAC_OVERRIDE")

securityContext(fc) ==
    [privileged |-> fc.agent.privileged, add |-> getAllowedCapabilities(fc)]

namespaceLabels(vendor, includeAudit) ==
    {"app", "pod-security.kubernetes.io/enforce"}
    \cup Opt(includeAudit, "pod-security.kubernetes.io/audit")
    \cup Opt(vendor = "downstream", "openshift.io/cluster-monitoring")

(* The SecurityContextConstraints the agent runs under on OpenShift.       *)
reconcileOpenshiftPermissions(fc, env) ==
    [allowPrivileged |-> fc.agent.privileged,
     allowHostDir |-> fc.agent.privileged \/ getHostVolumesInfo(fc, env) # {},
     allowed |-> getAllowedCapabilities(fc),
     requiredDrop |-> Opt(Has(fc, "EbpfManager"), "ALL"),
     user |-> GetOperandsNamespace(fc)]

(* ------------------------- The agent's objects ------------------------- *)

desiredAgent(fc, env) ==
    [env |-> envConfig(fc, env), filters |-> FlowFilters(fc), volumes |-> buildVolumes(fc, env),
     security |-> securityContext(fc), watched |-> WatchedByAgent(fc, env),
     scheduling |-> GetAdvancedAgentConfig(fc).scheduling]

agentPromService(fc) ==
    [selector |-> "netobserv-ebpf-agent", port |-> AgentMetricsPort(fc),
     servingCert |-> IF fc.agent.metrics.server.tls.type = "Auto" THEN "ebpf-agent-svc-prom" ELSE ""]

promServiceMonitoring(fc) ==
    [selects |-> "netobserv-ebpf-agent", scheme |-> GetServiceMonitorTLSConfig(fc.agent.metrics.server.tls)]

shouldAddAlert(name, disabledList) == name \notin disabledList

agentPrometheusRule(fc) ==
    Opt(shouldAddAlert("NetObservDroppedFlows", fc.agent.metrics.disableAlerts), "NetObservDroppedFlows")

(* The programs the eBPF manager attaches, and the flags they are given.   *)
(* The node selector is read through the section the user wrote.           *)
prepareBpfApplication(fc) ==
    [programs |-> {"tcx_ingress_flow_parse", "tcx_egress_flow_parse"}
        \cup Opt(Has(fc, "FlowRTT"), "tcp_rcv_fentry")
        \cup Opt(Has(fc, "NetworkEvents"), "network_events_monitoring")
        \cup Opt(Has(fc, "PacketDrop"), "kfree_skb")
        \cup Opt(Has(fc, "PacketTranslation"), "track_nat_manip_pkt")
        \cup If(Has(fc, "IPSec"), {"xfrm_input_kprobe", "xfrm_input_kretprobe",
                                   "xfrm_output_kprobe", "xfrm_output_kretprobe"}),
     flags |-> fc.agent.features \cap {"DNSTracking", "FlowRTT", "NetworkEvents", "PacketTranslation",
                                       "IPSec", "TLSTracking"},
     filtering |-> IsEBPFFlowFilterEnabled(fc),
     selector |-> IF fc.agent.advanced = Nil THEN "all" ELSE "selected",
     panics |-> fc.agent.sampling = Nil \/ (Set(fc.agent.advanced) /\ fc.agent.advanced.scheduling = Nil)]
=============================================================================
