--------------------------- MODULE FlowCollector ---------------------------
(***************************************************************************)
(* The FlowCollector custom resource: the part of its spec the builders    *)
(* and the admission webhook read, with the defaults of the CRD schema     *)
(* (api/flowcollector/v1beta2/flowcollector_types.go) and the predicates   *)
(* of helper.go.  A pointer that is not set is Nil; the payload of a       *)
(* field (an image, an address, a duration, a resource request) is left    *)
(* out.                                                                    *)
(***************************************************************************)
EXTENDS Naturals, Sequences, FiniteSets, SequencesExt

CONSTANT Nil      \* a Go pointer, slice or struct that is not set

Set(x) == x # Nil
OrElse(x, default) == IF x = Nil THEN default ELSE x

AgentFeature == {"PacketDrop", "DNSTracking", "FlowRTT", "NetworkEvents",
                 "PacketTranslation", "EbpfManager", "UDNMapping", "IPSec",
                 "TLSTracking", "SecondaryNetworks"}

(* ------------------------- The schema defaults ------------------------- *)

(* The certificates of spec.processor.service and of the proxy: whether    *)
(* the server certificate, the client certificate and the CA are given.    *)
ClientServerTLS(server, client, ca) == [serverCert |-> server, clientCert |-> client, caFile |-> ca]

(* A client TLS section: the CA and the user certificate are references    *)
(* with a kind, a name and a namespace ("": the one of the operands).      *)
NoTLS == [enable |-> FALSE, insecureSkipVerify |-> FALSE, caCert |-> Nil, userCert |-> Nil]

DefaultServer == [port |-> Nil, tls |-> [type |-> "Disabled", provided |-> FALSE]]

NoPorts == [kind |-> "none"]
NoFilterRule == [cidr |-> "", peer |-> "", action |-> "Accept", protocol |-> "",
                 ports |-> NoPorts, sourcePorts |-> NoPorts, destPorts |-> NoPorts,
                 sampling |-> Nil]

DefaultEBPF ==
    [features |-> {}, privileged |-> FALSE, sampling |-> 50, logLevel |-> "info",
     metrics |-> [server |-> DefaultServer, enable |-> Nil, disableAlerts |-> {}],
     flowFilter |-> Nil, dnsPorts |-> <<>>, interfaces |-> {}, advanced |-> Nil]

DefaultAdvancedAgent == [env |-> {}, capOverride |-> {}, scheduling |-> Nil]

DefaultKafka == [tls |-> NoTLS, sasl |-> "Disabled"]

DefaultFLPMetrics ==
    [server |-> DefaultServer, includeList |-> Nil, additional |-> Nil,
     disableAlerts |-> {}, healthRules |-> Nil]

DefaultFLP ==
    [metrics |-> DefaultFLPMetrics, logLevel |-> "info", consumerReplicas |-> Nil,
     kafkaConsumerReplicas |-> 3, hpa |-> FALSE, unmanagedReplicas |-> FALSE,
     logTypes |-> "Flows", clusterName |-> "", multiCluster |-> FALSE,
     addZone |-> Nil, subnetLabels |-> [openShiftAutoDetect |-> Nil,
                                        autoDetect |-> Nil, custom |-> <<>>],
     bgp |-> Nil, deduper |-> Nil, filters |-> <<>>, slices |-> Nil,
     service |-> Nil, proxy |-> Nil, advanced |-> Nil]

DefaultProxy == [enabled |-> FALSE, advanced |-> Nil, tls |-> Nil]

DefaultAdvancedProcessor ==
    [port |-> 2055, healthPort |-> 8080, profilePort |-> Nil,
     enableKubeProbes |-> TRUE, scheduling |-> Nil, secondaryNetworks |-> <<>>]

DefaultLoki ==
    [enable |-> TRUE, mode |-> "Monolithic",
     manual |-> [authToken |-> "Disabled", tls |-> NoTLS, statusTls |-> NoTLS],
     microservices |-> NoTLS,
     monolithic |-> [demo |-> FALSE, tls |-> NoTLS],
     lokiStack |-> ""]

DefaultPrometheus ==
    [enable |-> TRUE, mode |-> "Auto",
     manual |-> [tls |-> NoTLS, forwardUserToken |-> FALSE, alertManager |-> Nil]]

DefaultConsolePlugin ==
    [enable |-> TRUE, standalone |-> Nil, replicas |-> 1, unmanagedReplicas |-> FALSE,
     hpa |-> FALSE, advanced |-> Nil]

DefaultAdvancedPlugin == [register |-> TRUE, port |-> 9001, scheduling |-> Nil]

(* What the API server stores for a FlowCollector whose spec is {}.        *)
DefaultFlowCollector ==
    [namespace |-> "netobserv", deploymentModel |-> "Service",
     agent |-> DefaultEBPF, processor |-> DefaultFLP, kafka |-> DefaultKafka,
     loki |-> DefaultLoki, prometheus |-> DefaultPrometheus,
     consolePlugin |-> DefaultConsolePlugin, exporters |-> <<>>,
     networkPolicy |-> [enable |-> Nil, additionalNamespaces |-> <<>>],
     execution |-> "Running"]

(* ----------------------- Predicates of helper.go ----------------------- *)

OnHold(fc) == fc.execution = "OnHold"
GetSampling(fc) == OrElse(fc.agent.sampling, 50)
UseKafka(fc) == fc.deploymentModel = "Kafka"
UseSASL(kafka) == kafka.sasl \in {"Plain", "ScramSHA512"}
UseLoki(fc) == fc.loki.enable \in {Nil, TRUE}
UseLokiDev(fc) == /\ UseLoki(fc)
                  /\ fc.loki.mode = "Monolithic"
                  /\ fc.loki.monolithic.demo = TRUE
UsePrometheus(fc) == fc.prometheus.enable \in {Nil, TRUE}
UseWebConsole(fc) == /\ UseLoki(fc) \/ UsePrometheus(fc)
                     /\ fc.consolePlugin.enable \in {Nil, TRUE}
UseStandaloneConsole(fc, hasPluginAPI) ==
    OrElse(fc.consolePlugin.standalone, ~hasPluginAPI)
NeedsConsolePluginDeployment(fc, hasPluginAPI) ==
    /\ UseWebConsole(fc)
    /\ hasPluginAPI \/ UseStandaloneConsole(fc, hasPluginAPI)
    /\ ~OnHold(fc)
UseHostNetwork(fc) == fc.deploymentModel = "Direct"

Has(fc, feature) == feature \in fc.agent.features
IsSecondaryNetworksEnabled(fc) == Has(fc, "SecondaryNetworks") \/ fc.agent.privileged
IsEBPFMetricsEnabled(fc) == fc.agent.metrics.enable \in {Nil, TRUE}
IsEBPFFlowFilterEnabled(fc) ==
    fc.agent.flowFilter # Nil /\ fc.agent.flowFilter.enable = TRUE

(* A rule's sampling counts even when the flow filter is not enabled.      *)
HasFiltersSampling(fc) ==
    \/ /\ Set(fc.agent.flowFilter)
       /\ \E i \in DOMAIN fc.agent.flowFilter.rules :
             OrElse(fc.agent.flowFilter.rules[i].sampling, 0) > 1
    \/ \E i \in DOMAIN fc.processor.filters : fc.processor.filters[i].sampling > 1

HasConntrack(fc) == fc.processor.logTypes \notin {Nil, "Flows"}
IsMultiClusterEnabled(fc) == fc.processor.multiCluster = TRUE
IsZoneEnabled(fc) == fc.processor.addZone = TRUE
HasAutoDetectNetworks(fc) ==
    LET labels == fc.processor.subnetLabels
    IN  OrElse(labels.autoDetect, OrElse(labels.openShiftAutoDetect, TRUE))
IsSubnetLabelsEnabled(fc) ==
    HasAutoDetectNetworks(fc) \/ fc.processor.subnetLabels.custom # <<>>
IsBgpEnrichmentEnabled(fc) == fc.processor.bgp = TRUE
GetSecondaryIndexes(fc) ==
    IF Set(fc.processor.advanced) /\ fc.processor.advanced.secondaryNetworks # <<>>
      THEN fc.processor.advanced.secondaryNetworks
      ELSE IF IsSecondaryNetworksEnabled(fc)
             THEN << {"Interface", "IP"}, {"Interface", "MAC"} >> ELSE <<>>
HasFLPDeduper(fc) ==
    Set(fc.processor.deduper) /\ fc.processor.deduper \notin {"", "Disabled"}
AgentMetricsPort(fc) == OrElse(fc.agent.metrics.server.port, 9400)
FLPMetricsPort(fc) == OrElse(fc.processor.metrics.server.port, 9401)
ShouldInstallNetworkPolicy(config, cni) ==
    cni # "OpenShiftSDN" /\ OrElse(config, cni # "")
GetFLPReplicas(fc) ==
    OrElse(fc.processor.consumerReplicas, OrElse(fc.processor.kafkaConsumerReplicas, 3))
IsUnmanagedFLPReplicas(fc) == fc.processor.unmanagedReplicas \/ fc.processor.hpa
IsInformerCacheProxyEnabled(fc) ==
    Set(fc.processor.proxy) /\ fc.processor.proxy.enabled = TRUE
\* Mutant: the port of the advanced section is not read.
GetK8sCachePortDefault(fc) == 9402

GetK8sCachePort(fc) ==
    IF Set(fc.processor.proxy) THEN OrElse(fc.processor.proxy.advanced, 9402) ELSE 9402
ProxyTLSType(fc) ==
    IF fc.processor.proxy = Nil \/ fc.processor.proxy.tls = Nil
      THEN "Auto" ELSE fc.processor.proxy.tls.type
UsesOpenShiftServiceCA(fc, isOpenShift) == isOpenShift /\ ProxyTLSType(fc) = "Auto"
IsSliceEnabled(fc) == Set(fc.processor.slices) /\ fc.processor.slices.enable

(* ------------------- Defaults the controllers fill in ------------------ *)

(* What GetAdvanced...Config of pkg/helper/flowcollector.go returns: the   *)
(* defaults of the CRD for a section that is absent.                       *)
GetAdvancedAgentConfig(fc) == OrElse(fc.agent.advanced, DefaultAdvancedAgent)
GetAdvancedProcessorConfig(fc) == OrElse(fc.processor.advanced, DefaultAdvancedProcessor)
GetAdvancedPluginConfig(fc) == OrElse(fc.consolePlugin.advanced, DefaultAdvancedPlugin)
GetOperandsNamespace(fc) == IF fc.namespace = "" THEN "netobserv" ELSE fc.namespace
=============================================================================
