---------------------------- MODULE MCOperands ----------------------------
(* The platforms and the edits Operands is checked with.                   *)
EXTENDS Operands

Vanilla ==
    [isOpenShift |-> FALSE, openShiftVersion |-> 0, vendor |-> "other", cni |-> "", nodes |-> 3,
     operatorNamespace |-> "operator", operatorNetworkPolicy |-> TRUE, hasPluginAPI |-> FALSE,
     apiServer |-> [ips |-> {}, ports |-> {}], detected |-> <<>>]
OpenShift ==
    [Vanilla EXCEPT !.isOpenShift = TRUE, !.openShiftVersion = 419, !.vendor = "openshift",
                    !.cni = "OVNKubernetes", !.hasPluginAPI = TRUE,
                    !.apiServer = [ips |-> {"10.0.0.1"}, ports |-> {6443}],
                    !.detected = << [owner |-> "detected", network |-> <<1>>] >>]
Downstream == [OpenShift EXCEPT !.vendor = "downstream", !.openShiftVersion = 414, !.operatorNamespace = "netobserv"]
MCPlatforms == {Vanilla, OpenShift, Downstream}

Elsewhere(name) == ClientTLSOf(Ref("configmap", name \o "-ca", "elsewhere"), Ref("secret", name \o "-user", ""))
Provided == ClientServerTLS(TRUE, TRUE, TRUE)
ServiceTLS == {[type |-> t, provided |-> Nil] : t \in {"Disabled", "Auto", "Auto-mTLS"}}
              \cup {[type |-> "Provided", provided |-> p] : p \in {Provided, [Provided EXCEPT !.clientCert = FALSE]}}
ServerTLS == {[type |-> "Auto", provided |-> FALSE], [type |-> "Provided", provided |-> TRUE]}
Accept(ports) == [NoFilterRule EXCEPT !.cidr = "10.0.0.0/8", !.ports = ports]

MCAgentEdits(f) ==
    { [f EXCEPT !.agent.features = @ \cup {x}] : x \in AgentFeature }
    \cup { [f EXCEPT !.agent.metrics.server.tls = t] : t \in ServerTLS }
    \cup { [f EXCEPT !.agent.privileged = TRUE], [f EXCEPT !.agent.metrics.server.port = 9500],
           [f EXCEPT !.agent.flowFilter = [enable |-> TRUE, inline |-> NoFilterRule,
              rules |-> <<[Accept([kind |-> "range", a |-> 80, b |-> 100]) EXCEPT !.sampling = 5]>>]] }

(* A rule per template and grouping, with thresholds that are ordered, not *)
(* ordered, equal or partly given.                                         *)
MCMetricsEdits(f) ==
    LET rule(t, m, g, th) == [f EXCEPT !.processor.metrics.healthRules = <<HealthRule(t, m, <<Variant(g, th)>>)>>]
    IN  { rule(DefaultHealthRules[i].template, "Alert", g, Thresholds(Num(20), Num(10), Num(5)))
          : i \in DOMAIN DefaultHealthRules, g \in {"", "Node", "Namespace", "Workload"} }
        \cup { rule("PacketDropsByDevice", "Alert", "Node", th)
               : th \in {Thresholds(Num(10), Num(20), Nil), Thresholds(Num(10), Nil, Num(10)),
                         Thresholds(Nil, Num(20), Num(10)), Thresholds(Num(5), Nil, Num(20)),
                         Thresholds(Unparsable, Nil, Nil)} }
        \cup { rule("NetpolDenied", "Recording", "Workload", Thresholds(Nil, Num(20), Nil)) }
        \cup { [f EXCEPT !.processor.metrics.includeList = l]
               : l \in {{}, {<<"workload", "ingress_bytes">>}, {"workload"} \X Traffic} }
        \cup { [f EXCEPT !.processor.metrics.additional = {<<"workload", "rtt">>, <<"node", "rtt">>}],
               [f EXCEPT !.processor.metrics.disableAlerts = {"DNSErrors", "NetObservNoFlows"}],
               [f EXCEPT !.processor.metrics.server.port = 9500] }
        \cup { [f EXCEPT !.processor.metrics.server.tls = t] : t \in ServerTLS }

MCProcessorEdits(f) ==
    { [f EXCEPT !.processor.logTypes = t] : t \in {"Conversations", "EndedConversations", "All"} }
    \cup { [f EXCEPT !.processor.service = t] : t \in ServiceTLS }
    \cup { [f EXCEPT !.processor.proxy = [DefaultProxy EXCEPT !.enabled = TRUE, !.advanced = p]] : p \in {Nil, 9500} }
    \cup { [f EXCEPT !.processor.proxy = [DefaultProxy EXCEPT !.enabled = TRUE, !.tls = t]] : t \in ServiceTLS }
    \cup { [f EXCEPT !.processor.slices = [enable |-> TRUE, mode |-> m, allowList |-> l]]
           : m \in {"AlwaysCollect", "AllowList"}, l \in {<<>>, <<"a">>} }
    \cup { [f EXCEPT !.processor.subnetLabels.custom = n] : n \in {<< <<0>> >>, << <<1, 0>>, <<0, 1>> >>, <<Nil>>} }
    \cup { [f EXCEPT !.processor.addZone = TRUE], [f EXCEPT !.processor.multiCluster = TRUE],
           [f EXCEPT !.processor.bgp = TRUE], [f EXCEPT !.processor.deduper = "Drop"],
           [f EXCEPT !.processor.filters = << [target |-> "Loki", sampling |-> 10, parses |-> TRUE] >>],
           [f EXCEPT !.processor.advanced = [DefaultAdvancedProcessor EXCEPT !.port = 3055, !.profilePort = 6060]],
           [f EXCEPT !.processor.advanced = [DefaultAdvancedProcessor EXCEPT !.secondaryNetworks = << {"MAC"} >>]] }

KafkaExporter(tls, sasl) == [type |-> "Kafka", tls |-> tls, sasl |-> sasl, logs |-> FALSE, metrics |-> FALSE]
OtelExporter(tls) == [type |-> "OpenTelemetry", tls |-> tls, sasl |-> "Disabled", logs |-> TRUE, metrics |-> TRUE]

MCOutputEdits(f) ==
    { [f EXCEPT !.loki.enable = FALSE], [f EXCEPT !.loki.monolithic.demo = TRUE],
      [f EXCEPT !.loki.mode = "LokiStack", !.loki.lokiStack = "loki"], [f EXCEPT !.loki.mode = "LokiStack"],
      [f EXCEPT !.loki.mode = "Microservices", !.loki.microservices = Elsewhere("loki")],
      [f EXCEPT !.loki.mode = "Manual",
                !.loki.manual = [authToken |-> "Host", tls |-> Elsewhere("loki"), statusTls |-> Elsewhere("status")]],
      [f EXCEPT !.prometheus.enable = FALSE],
      [f EXCEPT !.prometheus.mode = "Manual", !.prometheus.manual.tls = ClientTLSOf(Ref("configmap", "prom-ca", ""), Nil),
                !.prometheus.manual.alertManager = [enable |-> TRUE]],
      [f EXCEPT !.exporters = <<KafkaExporter(Elsewhere("kafka1"), "Plain"), KafkaExporter(Elsewhere("kafka2"), "ScramSHA512")>>],
      [f EXCEPT !.exporters = <<OtelExporter(Elsewhere("otel"))>>],
      [f EXCEPT !.consolePlugin.enable = FALSE], [f EXCEPT !.consolePlugin.standalone = TRUE],
      [f EXCEPT !.consolePlugin.advanced = [DefaultAdvancedPlugin EXCEPT !.port = 9043]] }

MCDeploymentEdits(f) ==
    { [f EXCEPT !.deploymentModel = m] : m \in {"Direct", "Service"} }
    \cup { [f EXCEPT !.deploymentModel = "Kafka", !.kafka = k]
           : k \in {DefaultKafka, [tls |-> Elsewhere("kafka"), sasl |-> "Plain"]} }
    \cup { [f EXCEPT !.execution = "OnHold"] }
    \cup { [f EXCEPT !.networkPolicy = [enable |-> e, additionalNamespaces |-> <<"extra">>]] : e \in {TRUE, FALSE} }

Slice(n, ns, sampling, networks) == [name |-> n, namespace |-> ns, sampling |-> sampling, networks |-> networks]
MCSliceMenu == {Slice(1, "a", 0, << <<0, 0>>, <<0>> >>), Slice(2, "b", 5, << <<0>>, <<1, 1>>, Nil >>),
                Slice(3, "b", 7, << <<0, 0>> >>)}
MCMetricMenu == {[name |-> "valid", buckets |-> "numbers"], [name |-> "invalid", buckets |-> "text"]}
=============================================================================
