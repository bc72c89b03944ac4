----------------------------- MODULE Pipeline -----------------------------
(***************************************************************************)
(* The flowlogs-pipeline configuration (controller/flp): the stages        *)
(* flp_pipeline_builder.go chains from the ingester to the outputs, the    *)
(* filters and subnet labels taken from the FlowCollectorSlices            *)
(* (slices.go), the volumes the stages need, and the records and fields    *)
(* that reach the metrics.  A stage is a name; the outputs hang off the    *)
(* last transformation.                                                    *)
(*                                                                         *)
(* A network is the sequence of its leading bits, an address has           *)
(* AddressBits of them; a malformed network is Nil.                         *)
(***************************************************************************)
EXTENDS HealthRules, Certificates

(* ------------------------------ slices.go ------------------------------ *)

AddressBits == 2
Address == [1..AddressBits -> {0, 1}]

(* The first address of a network, its IP in net.ParseCIDR.                *)
FirstOf(network) == [i \in 1..AddressBits |-> IF i <= Len(network) THEN network[i] ELSE 0]
InNetwork(network, ip) == \A i \in 1..Len(network) : network[i] = ip[i]
AddressesOf(network) == {a \in Address : InNetwork(network, a)}

(* A query that keeps the flows of a namespace, at a sampling rate; rates  *)
(* are 16 bits wide in flowlogs-pipeline.                                  *)
KeepNamespace(namespace, sampling) == [namespace |-> namespace, sampling |-> sampling % 2^16]

(* Namespaces the administrator allows come first; a namespace is kept by  *)
(* the first rule for it.                                                  *)
slicesToFilters(fc, slices) ==
    LET config == fc.processor.slices
        all == [i \in DOMAIN config.allowList |-> KeepNamespace(config.allowList[i], 0)]
               \o [i \in DOMAIN slices |-> KeepNamespace(slices[i].namespace, slices[i].sampling)]
        fresh(i) == \A j \in 1..(i - 1) : all[j].namespace # all[i].namespace
        indices == SelectSeq([i \in DOMAIN all |-> i], fresh)
    IN  IF ~IsSliceEnabled(fc) \/ config.mode = "AlwaysCollect" THEN <<>>
        ELSE [k \in DOMAIN indices |-> all[indices[k]]]

\* Mutant: any network around the first address hides the whole network.
FullyOverlappedAtFirst(network, others) == \E other \in others : InNetwork(other, FirstOf(network))

(* A network of a slice is ignored when one of higher priority contains    *)
(* its first address and is not smaller: as written in the code.           *)
FullyOverlapped(network, others) ==
    \E other \in others : InNetwork(other, FirstOf(network)) /\ Len(network) >= Len(other)

(* The networks of the slices in order, each with the slice's namespace    *)
(* and a label of its own (networks of one label are not compared with one *)
(* another): what is configured given what has priority over it.           *)
slicesToFCSubnetLabels(slices, configured) ==
    LET all == FlattenSeq([i \in DOMAIN slices |->
                 [k \in DOMAIN slices[i].networks |->
                    [owner |-> slices[i].namespace, network |-> slices[i].networks[k]]]])
        kept[i \in 0..Len(all)] ==
            IF i = 0 THEN <<>>
            ELSE IF \/ all[i].network = Nil
                    \/ FullyOverlapped(all[i].network, configured \cup
                                       {kept[i - 1][j].network : j \in DOMAIN kept[i - 1]})
                   THEN kept[i - 1] ELSE Append(kept[i - 1], all[i])
    IN  kept[Len(all)]

(* ---------------------------- The transforms --------------------------- *)

filtersToFLP(fc, target) ==
    SelectSeq(fc.processor.filters, LAMBDA f : f.target = target)

addOtherTransforms(fc, clusterID) ==
    IsMultiClusterEnabled(fc) /\ (fc.processor.clusterName # "" \/ clusterID # "")

(* The admin's labels, then those of the slices, then the detected ones; a *)
(* malformed network of the admin fails the whole pipeline.                *)
subnetLabels(fc, slices, detected) ==
    LET custom == fc.processor.subnetLabels.custom
    IN  [i \in DOMAIN custom |-> [owner |-> "admin", network |-> custom[i]]]
        \o (IF IsSliceEnabled(fc) THEN slicesToFCSubnetLabels(slices, Range(custom)) ELSE <<>>)
        \o detected

SubnetLabelsFail(fc) == Nil \in Range(fc.processor.subnetLabels.custom)

HasFilters(fc, world) ==
    \/ filtersToFLP(fc, "") # <<>>
    \/ slicesToFilters(fc, world.slices) # <<>>
    \/ addOtherTransforms(fc, world.clusterID)

(* The chain of transformations after the ingester.                        *)
Transforms(fc, world) ==
    LET optional(cond, stage) == IF cond THEN <<stage>> ELSE <<>>
    IN  optional(HasConntrack(fc), "extract_conntrack")
        \o <<"enrich">>
        \o optional(subnetLabels(fc, world.slices, world.detected) # <<>>, "subnets")
        \o optional(IsBgpEnrichmentEnabled(fc), "asns")
        \o optional(HasFilters(fc, world), "filters")
        \o optional(HasFLPDeduper(fc), "dedup")

(* What the network transformation adds to a flow, besides the names of    *)
(* its Kubernetes objects.                                                 *)
addEnrichStage(fc) ==
    Opt(IsZoneEnabled(fc), "Zone")
    \cup Opt(GetSecondaryIndexes(fc) # <<>> \/ Has(fc, "UDNMapping"), "NetworkName")
    \cup Opt(Has(fc, "PacketTranslation"), "Xlat")

(* The records a flow or a conversation gives.                             *)
GetRecordTypes(fc) ==
    CASE fc.processor.logTypes = "Conversations" -> {"newConnection", "heartbeat", "endConnection"}
      [] fc.processor.logTypes = "EndedConversations" -> {"endConnection"}
      [] fc.processor.logTypes = "All" -> {"flowLog", "newConnection", "heartbeat", "endConnection"}
      [] OTHER -> {"flowLog"}

(* The fields of a conversation, besides the addresses and the counters.   *)
addConnectionTracking(fc) ==
    IF ~HasConntrack(fc) THEN {} ELSE
    Opt(Has(fc, "PacketDrop"), "PktDrop") \cup Opt(Has(fc, "DNSTracking"), "DnsFlagsResponseCode")
    \cup Opt(Has(fc, "DNSTracking"), "DnsLatencyMs") \cup Opt(Has(fc, "NetworkEvents"), "NetworkEvents")
    \cup Opt(Has(fc, "FlowRTT"), "MaxTimeFlowRttNs")

(* ----------------------------- The outputs ----------------------------- *)

(* The volumes of the Loki stage: a token, and the CA when it is verified. *)
addLokiStage(fc) ==
    LET loki == NewLokiConfig(fc)
    IN  (IF UseHostToken(loki) \/ UseForwardToken(loki) THEN <<Token("flowlogs-pipeline")>> ELSE <<>>)
        \o (IF loki.tls.enable /\ ~loki.tls.insecureSkipVerify
              THEN AddCACertificate(loki.tls, "loki-certs") ELSE <<>>)

(* A user's FlowMetric that cannot be read is reported and left out.       *)
flowMetricToFLP(metric) == metric.buckets = "numbers"
ConfiguredMetrics(fc, world) ==
    { d.name : d \in GetDefinitions(fc) }
    \cup { <<"custom", m.name>> : m \in {x \in world.metrics : flowMetricToFLP(x)} }

Digits == <<"0", "1", "2">>
\* Mutant: stages of one type share a name.
StageNameOfType(exporter, i) ==
    CASE exporter.type = "Kafka" -> "kafka-export"
      [] exporter.type = "IPFIX" -> "ipfix-export"
      [] exporter.type = "OpenTelemetry" -> "otel-export"

StageName(exporter, i) ==
    CASE exporter.type = "Kafka" -> "kafka-export-" \o Digits[i]
      [] exporter.type = "IPFIX" -> "ipfix-export-" \o Digits[i]
      [] exporter.type = "OpenTelemetry" -> "otel-export-" \o Digits[i]

(* The volumes of an exporter, also of one of OpenTelemetry whose logs and *)
(* metrics are both off.                                                   *)
ExporterVolumes(exporter, name) ==
    CASE exporter.type = "Kafka" -> getClientTLS(exporter.tls, name) \o getSASL(exporter, name)
      [] exporter.type = "OpenTelemetry" -> getClientTLS(exporter.tls, name)
      [] OTHER -> <<>>

createOpenTelemetryStage(exporter, name) ==
    Opt(exporter.logs, name \o "-logs") \cup Opt(exporter.metrics, name \o "-metrics")

addCustomExportStages(fc) ==
    UNION { LET e == fc.exporters[i]
                name == StageName(e, i)
            IN  IF e.type = "OpenTelemetry" THEN createOpenTelemetryStage(e, name) ELSE {name}
            : i \in DOMAIN fc.exporters }

(* The outputs, each with the stage of its own filter in front.            *)
Outputs(fc, world) ==
    Opt(UseLoki(fc), "loki") \cup Opt(fc.processor.logLevel = "trace", "stdout")
    \cup Opt(ConfiguredMetrics(fc, world) # {}, "prometheus")
    \cup addCustomExportStages(fc)

(* The filters of a user for an output, after those for all of them.       *)
FilterOf(output) ==
    CASE output = "loki" -> "Loki"
      [] output = "prometheus" -> "Metrics"
      [] output = "stdout" -> "none"
      [] OTHER -> "Exporters"

FiltersBefore(fc, world) == [output \in Outputs(fc, world) |-> filtersToFLP(fc, FilterOf(output))]

(* ----------------------------- createPipeline -------------------------- *)

monoCertSecretName == "flowlogs-pipeline-cert"

(* The ingester: gRPC, with a certificate when it serves a Service, or a   *)
(* Kafka consumer.                                                         *)
newGRPCPipeline(fc, isOpenShift) ==
    LET server == GetServiceServerTLSConfig(fc.processor.service, monoCertSecretName, isOpenShift)
    IN  IF fc.deploymentModel # "Service" \/ server.cert = Nil THEN <<>>
        ELSE AddCertificate(server.cert, "svc-certs") \o AddCertificate(server.ca, "netobserv-ca")

newKafkaPipeline(fc) ==
    getClientTLS(fc.kafka.tls, "kafka-cert") \o getSASL(fc.kafka, "kafka-ingest")

(* The volumes of the pipeline, in the order they are added.               *)
createPipeline(fc, isOpenShift) ==
    (IF UseKafka(fc) THEN newKafkaPipeline(fc) ELSE newGRPCPipeline(fc, isOpenShift))
    \o (IF UseLoki(fc) THEN addLokiStage(fc) ELSE <<>>)
    \o FlattenSeq([i \in DOMAIN fc.exporters |->
                     ExporterVolumes(fc.exporters[i], StageName(fc.exporters[i], i))])
=============================================================================
