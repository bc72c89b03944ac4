---------------------------- MODULE FLPObjects ----------------------------
(***************************************************************************)
(* The objects of flowlogs-pipeline (controller/flp): the processor, as a  *)
(* daemon set, a deployment behind a Service or a Kafka consumer, its      *)
(* configuration, services, monitors and roles, and the centralized        *)
(* informers that feed its Kubernetes cache.                               *)
(***************************************************************************)
EXTENDS Pipeline

monoName == "flowlogs-pipeline"
transfoName == "flowlogs-pipeline-transformer"
informerName == "flowlogs-pipeline-informers"
k8sCacheCertSecretName == "flowlogs-pipeline-k8scache-cert"

AppOf(fc) == IF UseKafka(fc) THEN transfoName ELSE monoName
PromServiceOf(fc) == IF UseKafka(fc) THEN transfoName \o "-prom" ELSE monoName \o "-prom"

(* How flows come in: on the node's network or a port of it, through a     *)
(* Service, or pulled from Kafka.                                          *)
flowNetworkType(fc, env) ==
    CASE UseKafka(fc) -> "pull"
      [] UseHostNetwork(fc) -> IF env.isOpenShift THEN "hostPort" ELSE "hostNetwork"
      [] OTHER -> "svc"

(* ------------------------- The processor's pods ------------------------ *)

(* The certificate of the metrics server; "Provided" without one is an     *)
(* error.                                                                  *)
getPromTLS(fc, serviceName) ==
    LET tls == fc.processor.metrics.server.tls
    IN  CASE tls.type = "Provided" ->
               [err |-> ~tls.provided,
                ref |-> IF tls.provided THEN Ref("secret", "metrics-provided", "elsewhere") ELSE Nil]
          [] tls.type = "Auto" -> [err |-> FALSE, ref |-> Ref("secret", serviceName, "")]
          [] OTHER -> [err |-> FALSE, ref |-> Nil]

metricsSettings(fc) ==
    IF fc.processor.metrics.server.tls.type = "Disabled" THEN <<>>
    ELSE AddCertificate(getPromTLS(fc, PromServiceOf(fc)).ref, "prom-certs")

(* The TLS of the Kubernetes cache of the processor.                       *)
K8sCacheServerTLS(fc, env) ==
    GetServiceServerTLSConfig(InformerTLSAsServiceConfig(fc.processor.proxy), k8sCacheCertSecretName,
                              env.isOpenShift)

addK8sCacheArgs(fc, env) ==
    LET server == K8sCacheServerTLS(fc, env)
    IN  IF server.cert = Nil THEN <<>>
        ELSE AddCertificate(server.cert, "k8scache-certs") \o AddCertificate(server.ca, "k8scache-client-ca")

(* All volumes of the processor in the order they are added.               *)
ProcessorVolumes(fc, env) ==
    createPipeline(fc, env.isOpenShift) \o metricsSettings(fc)
    \o (IF IsInformerCacheProxyEnabled(fc) THEN addK8sCacheArgs(fc, env) ELSE <<>>)

Listener(name, port) == [name |-> name, port |-> port]

(* The container ports of the processor.                                   *)
podTemplate(fc, env) ==
    LET advanced == GetAdvancedProcessorConfig(fc)
    IN  Opt(flowNetworkType(fc, env) # "pull", Listener("flp", advanced.port))
        \cup Opt(OrElse(advanced.healthPort, 0) > 0, Listener("health", advanced.healthPort))
        \cup {Listener("prometheus", FLPMetricsPort(fc))}
        \cup Opt(IsInformerCacheProxyEnabled(fc), Listener("k8scache", GetK8sCachePort(fc)))
        \cup Opt(OrElse(advanced.profilePort, 0) > 0, Listener("pprof", advanced.profilePort))

(* The ports the probes name.                                              *)
Probed(fc) == Opt(GetAdvancedProcessorConfig(fc).enableKubeProbes, "health")

(* The configuration of the processor: the static config map, which the    *)
(* pods take a digest of, and the dynamic one, which they watch.  An error *)
(* stops the reconciliation before any object is written.                  *)
configMaps(fc, world) ==
    [err |-> \/ SubnetLabelsFail(fc)
             \/ getPromTLS(fc, PromServiceOf(fc)).err,
     static |-> [chain |-> Transforms(fc, world), outputs |-> FiltersBefore(fc, world),
                 enrich |-> addEnrichStage(fc), conversation |-> addConnectionTracking(fc), ingest |-> AppOf(fc),
                 listens |-> {l \in podTemplate(fc, world.env) : l.name # "k8scache"}, level |-> fc.processor.logLevel,
                 volumes |-> Mounted(createPipeline(fc, world.env.isOpenShift) \o metricsSettings(fc))],
     dynamic |-> [all |-> filtersToFLP(fc, ""), slices |-> slicesToFilters(fc, world.slices),
                  labels |-> subnetLabels(fc, world.slices, world.detected),
                  metrics |-> ConfiguredMetrics(fc, world)]]

(* ---------------------- Certificates to be watched --------------------- *)

NotNil(refs) == refs \ {Nil}

annotateKafkaCerts(kafka) ==
    (IF kafka.tls.enable THEN NotNil({kafka.tls.caCert, kafka.tls.userCert}) ELSE {})
    \cup (IF UseSASL(kafka) THEN {SASLRef(kafka, "-id"), SASLRef(kafka, "-secret")} ELSE {})

annotateKafkaExporterCerts(fc) ==
    UNION { annotateKafkaCerts(fc.exporters[i])
            : i \in {k \in DOMAIN fc.exporters : fc.exporters[k].type = "Kafka"} }

reconcileMonitoringCerts(fc) ==
    IF fc.processor.metrics.server.tls.type = "Provided"
      THEN NotNil({getPromTLS(fc, PromServiceOf(fc)).ref}) ELSE {}

(* The references the processor's reconcilers hand to the watcher, which   *)
(* copies those of another namespace.                                      *)
WatchedByProcessor(fc) ==
    LET loki == NewLokiConfig(fc)
    IN  (IF UseLoki(fc) /\ loki.tls.enable
           THEN NotNil({loki.tls.caCert}) ELSE {})
        \cup (IF UseKafka(fc) THEN annotateKafkaCerts(fc.kafka) ELSE {})
        \cup annotateKafkaExporterCerts(fc)
        \cup reconcileMonitoringCerts(fc)

(* --------------------------- Services and roles ------------------------ *)

Service(selector, ports, servingCert) ==
    [selector |-> selector, ports |-> ports, servingCert |-> servingCert]

(* The Service the agents send flows to.                                   *)
monoService(fc, env) ==
    Service(monoName, IF UseHostNetwork(fc) THEN {} ELSE {GetAdvancedProcessorConfig(fc).port},
            IF env.isOpenShift /\ (fc.processor.service = Nil \/ fc.processor.service.type = "Auto")
              THEN monoCertSecretName ELSE "")

promService(fc) ==
    Service(AppOf(fc), {FLPMetricsPort(fc)},
            IF fc.processor.metrics.server.tls.type = "Auto" THEN PromServiceOf(fc) ELSE "")

serviceMonitor(fc) ==
    [selects |-> AppOf(fc),
     scheme |-> GetServiceMonitorTLSConfig(fc.processor.metrics.server.tls)]

(* The alerts of the processor, next to the health rules.                  *)
OperationalAlerts(fc) ==
    Opt("NetObservNoFlows" \notin fc.processor.metrics.disableAlerts, "NetObservNoFlows")
    \cup Opt("NetObservLokiError" \notin fc.processor.metrics.disableAlerts, "NetObservLokiError")
prometheusRule(fc) == [alerts |-> OperationalAlerts(fc), health |-> BuildMonitoringRules(fc)]

(* The cluster roles bound to the account of a processor.                  *)
reconcileCRB(fc, env) ==
    Opt(env.isOpenShift /\ UseHostNetwork(fc), "hostnetwork")
    \cup Opt(UseLoki(fc) /\ fc.loki.mode = "LokiStack", "loki-writer")
    \cup Opt(~IsInformerCacheProxyEnabled(fc), "informers")
    \cup Opt(IsBgpEnrichmentEnabled(fc), "extra-reader")

(* -------------------------- The informers' pods ------------------------ *)

K8sCacheClientTLS(fc, env) ==
    GetServiceClientTLSConfig(InformerTLSAsServiceConfig(fc.processor.proxy),
                              "flowlogs-pipeline-informers-k8scache-client-cert", env.isOpenShift)

addTLSArgs(fc, env) ==
    LET client == K8sCacheClientTLS(fc, env)
    IN  AddCertificate(client.ca, "k8scache-server-ca") \o AddCertificate(client.cert, "k8scache-client-certs")

informerDeployment(fc, env) ==
    [target |-> AppOf(fc), port |-> OrElse(fc.processor.proxy.advanced, 9402),
     secondary |-> GetSecondaryIndexes(fc), udn |-> Has(fc, "UDNMapping"),
     volumes |-> GetVolumes(addTLSArgs(fc, env)),
     scheduling |-> GetAdvancedProcessorConfig(fc).scheduling]

k8sCacheService(fc, env) ==
    Service(AppOf(fc), {GetK8sCachePort(fc)},
            IF UsesOpenShiftServiceCA(fc, env.isOpenShift) THEN k8sCacheCertSecretName ELSE "")
=============================================================================
