---------------------------- MODULE HealthRules ----------------------------
(***************************************************************************)
(* The metrics the operator asks flowlogs-pipeline to produce and the      *)
(* Prometheus rules it derives from them: the include list and the health  *)
(* rules of the API (flowcollector_alert_types.go and _defaults.go), the   *)
(* predefined metrics with their labels and charts                         *)
(* (pkg/metrics) and the rules built per template, side and severity       *)
(* (pkg/metrics/alerts).  A metric is a pair of a group and of a quantity; *)
(* a PromQL expression is the metrics, the labels and the thresholds it    *)
(* mentions.                                                               *)
(***************************************************************************)
EXTENDS FlowCollector, Integers

If(condition, messages) == IF condition THEN messages ELSE {}
Opt(condition, element) == IF condition THEN {element} ELSE {}

(* ------------------------------- Metrics ------------------------------- *)

MetricGroup == {"node", "namespace", "workload"}

Traffic == {"egress_bytes", "ingress_bytes", "egress_packets", "ingress_packets"}
Drops == {"drop_packets", "drop_bytes"}
Dns == {"dns_latency", "dns_flows"}

(* The predefined metrics.                                                 *)
predefinedMetrics ==
    (MetricGroup \X (Traffic \cup Drops \cup Dns \cup
        {"sampling", "flows", "rtt", "network_policy_events", "tls_flows", "ipsec_flows"}))
    \cup { <<"node", "to_node_ingress_flows">> }

(* The labels of a group, source and destination side by side.             *)
mapLabels ==
    LET both(ls) == {"Src", "Dst"} \X ls
    IN  [g \in MetricGroup |->
          {<<"", "ClusterName">>} \cup both({"Zone"}) \cup
          CASE g = "node" -> both({"HostName"})
            [] g = "namespace" -> both({"Namespace", "SubnetLabel"}) \cup {<<"", "FlowLayer">>}
            [] g = "workload" -> both({"Namespace", "SubnetLabel", "NetworkName", "ASN",
                                       "OwnerName", "OwnerType", "Type"})
                                 \cup {<<"", "FlowLayer">>}]

(* The labels a quantity adds to those of its group.                       *)
extraLabels(quantity) ==
    CASE quantity \in Drops -> {<<"", "PktDropLatestState">>, <<"", "PktDropLatestDropCause">>}
      [] quantity = "dns_flows" -> {<<"", "DnsFlagsResponseCode">>, <<"", "DnsName">>}
      [] quantity = "network_policy_events" -> {<<"", "action">>, <<"", "direction">>}
      [] quantity = "tls_flows" -> {<<"", "TLSVersion">>, <<"", "TLSCipherSuite">>}
      [] quantity = "ipsec_flows" -> {<<"", "IPSecStatus">>}
      [] OTHER -> {}

HasCharts(m) == m[2] \notin {"sampling", "flows", "to_node_ingress_flows"}

DefaultIncludeList ==
    ({"node"} \X {"ingress_bytes", "egress_bytes", "ingress_packets", "drop_packets",
                  "ipsec_flows", "to_node_ingress_flows"})
    \cup ({"workload"} \X {"sampling", "ingress_bytes", "egress_bytes"})
    \cup ({"namespace"} \X {"flows", "ingress_packets", "drop_packets", "rtt",
                            "dns_latency", "dns_flows", "network_policy_events", "tls_flows"})

\* Mutant: the flows that denied traffic is compared with are forgotten.
DefaultIncludeListNoFlows ==
    ({"node"} \X {"ingress_bytes", "egress_bytes", "ingress_packets", "drop_packets",
                  "ipsec_flows", "to_node_ingress_flows"})
    \cup ({"workload"} \X (Traffic \cup Drops \cup Dns \cup {"sampling", "rtt", "tls_flows"}))
    \cup {<<"namespace", "network_policy_events">>}

DefaultIncludeListLokiDisabled ==
    ({"node"} \X {"ingress_bytes", "egress_bytes", "ingress_packets", "drop_packets",
                  "ipsec_flows", "to_node_ingress_flows"})
    \cup ({"workload"} \X (Traffic \cup Drops \cup Dns \cup {"sampling", "flows", "rtt", "tls_flows"}))
    \cup {<<"namespace", "network_policy_events">>}

(* The metrics that only a feature of the agent, or sampling in a filter,  *)
(* can feed; the drop metrics stay when network events are on.             *)
Unfed(fc) ==
    LET without(feature, quantities) == IF Has(fc, feature) THEN {} ELSE quantities
    IN  (IF Has(fc, "PacketDrop") \/ Has(fc, "NetworkEvents") THEN {} ELSE Drops)
        \cup without("FlowRTT", {"rtt"}) \cup without("DNSTracking", Dns)
        \cup without("NetworkEvents", {"network_policy_events"})
        \cup (IF HasFiltersSampling(fc) THEN {} ELSE {"sampling"})
        \cup without("IPSec", {"ipsec_flows"}) \cup without("TLSTracking", {"tls_flows"})

removeMetricsByPattern(list, quantities) == {m \in list : m[2] \notin quantities}

GetIncludeList(fc) ==
    LET metrics == fc.processor.metrics
        list == IF metrics.includeList # Nil THEN metrics.includeList
                ELSE (IF UseLoki(fc) THEN DefaultIncludeList ELSE DefaultIncludeListLokiDisabled)
                     \cup OrElse(metrics.additional, {})
    IN  removeMetricsByPattern(list, Unfed(fc))

\* Mutant: network names are thought to come from secondary networks only.
labelsToRemoveNoUDN(fc) ==
    LET both(ls) == {"Src", "Dst"} \X ls
    IN  (IF IsZoneEnabled(fc) THEN {} ELSE both({"Zone"}))
        \cup (IF IsMultiClusterEnabled(fc) THEN {} ELSE {<<"", "ClusterName">>})
        \cup (IF GetSecondaryIndexes(fc) # <<>> THEN {} ELSE both({"NetworkName"}))
        \cup (IF IsBgpEnrichmentEnabled(fc) THEN {} ELSE both({"ASN"}))

(* The labels GetDefinitions takes away because nothing fills them.        *)
labelsToRemove(fc) ==
    LET both(ls) == {"Src", "Dst"} \X ls
    IN  (IF IsZoneEnabled(fc) THEN {} ELSE both({"Zone"}))
        \cup (IF IsMultiClusterEnabled(fc) THEN {} ELSE {<<"", "ClusterName">>})
        \cup (IF Has(fc, "UDNMapping") \/ GetSecondaryIndexes(fc) # <<>>
                THEN {} ELSE both({"NetworkName"}))
        \cup (IF IsBgpEnrichmentEnabled(fc) THEN {} ELSE both({"ASN"}))

\* Mutant: flow logs are also emitted, and counted, next to conversations.
filterRecordTypeNotAll(fc) == IF fc.processor.logTypes = "Conversations" THEN "endConnection" ELSE ""

(* Only one kind of record may be counted, or flows are counted twice.     *)
filterRecordType(fc) ==
    CASE fc.processor.logTypes = "Conversations" -> "endConnection"
      [] fc.processor.logTypes = "All" -> "flowLog"
      [] OTHER -> ""

InBytes(m) ==
    CASE m[2] = "drop_packets" -> <<m[1], "drop_bytes">>
      [] m[2] = "egress_packets" -> <<m[1], "egress_bytes">>
      [] m[2] = "ingress_packets" -> <<m[1], "ingress_bytes">>
InWorkload(m) == IF m[1] = "namespace" THEN <<"workload", m[2]>> ELSE m

(* The charts of a rate in packets give way to those of the rate in bytes. *)
ChartsHidden(m, names) ==
    /\ m[2] \in {"drop_packets", "egress_packets", "ingress_packets"}
    /\ InBytes(m) \in names \/ InWorkload(InBytes(m)) \in names

getUpdatedDefsFromNames(names, removed, recordType) ==
    { [name |-> m, labels |-> (mapLabels[m[1]] \ removed) \cup extraLabels(m[2]),
       recordType |-> recordType, charts |-> HasCharts(m) /\ ~ChartsHidden(m, names)]
      : m \in names \cap predefinedMetrics }

GetDefinitions(fc) ==
    getUpdatedDefsFromNames(GetIncludeList(fc), labelsToRemove(fc), filterRecordType(fc))

(* ----------------------------- Health rules ---------------------------- *)

(* A threshold as written: Nil when empty, else what ParseFloat returns.   *)
Num(n) == [ok |-> TRUE, val |-> n]
Unparsable == [ok |-> FALSE, val |-> 0]
Severity == <<"critical", "warning", "info">>

Thresholds(critical, warning, info) ==
    [critical |-> critical, warning |-> warning, info |-> info]
Variant(groupBy, thresholds) ==
    [groupBy |-> groupBy, mode |-> Nil, thresholds |-> thresholds, lowVolume |-> Nil]
HealthRule(template, mode, variants) ==
    [template |-> template, mode |-> mode, variants |-> variants]

AlertOnly == {"NetObservNoFlows", "NetObservLokiError"}

InfoWarn(i, w) == Thresholds(Nil, Num(w), Num(i))
WarnOnly(w) == Thresholds(Nil, Num(w), Nil)
InfoOnly(i) == Thresholds(Nil, Nil, Num(i))

DefaultHealthRules == <<
    HealthRule("PacketDropsByKernel", "Recording",
               <<[Variant("Namespace", InfoWarn(10, 20)) EXCEPT !.lowVolume = Num(5)],
                 Variant("Node", InfoWarn(5, 15))>>),
    HealthRule("PacketDropsByDevice", "Alert", <<Variant("Node", InfoWarn(5, 10))>>),
    HealthRule("IPsecErrors", "Alert", <<Variant("", WarnOnly(2)), Variant("Node", WarnOnly(2))>>),
    HealthRule("DNSErrors", "Alert", <<Variant("", WarnOnly(5)), Variant("Namespace", InfoWarn(5, 10))>>),
    HealthRule("DNSNxDomain", "Recording", <<Variant("Namespace", InfoWarn(10, 80))>>),
    HealthRule("NetpolDenied", "Recording", <<Variant("Namespace", InfoWarn(5, 10))>>),
    HealthRule("LatencyHighTrend", "Recording", <<Variant("Namespace", InfoOnly(100))>>),
    HealthRule("ExternalEgressHighTrend", "Recording",
               <<Variant("Node", WarnOnly(200)), Variant("Namespace", InfoWarn(100, 500))>>),
    HealthRule("ExternalIngressHighTrend", "Recording",
               <<Variant("Node", WarnOnly(200)), Variant("Namespace", InfoWarn(100, 500))>>),
    HealthRule("Ingress5xxErrors", "Recording", <<Variant("Namespace", InfoWarn(5, 10))>>),
    HealthRule("IngressHTTPLatencyTrend", "Recording", <<Variant("Namespace", InfoWarn(100, 200))>>),
    HealthRule("TLSInsecureVersion", "Alert", <<Variant("Namespace", WarnOnly(5))>>) >>

(* The agent feature a template needs.                                     *)
IsAllowed(template, fc) ==
    LET needs == CASE template = "PacketDropsByKernel" -> {"PacketDrop"}
                   [] template = "IPsecErrors" -> {"IPSec"}
                   [] template \in {"DNSErrors", "DNSNxDomain"} -> {"DNSTracking"}
                   [] template = "LatencyHighTrend" -> {"FlowRTT"}
                   [] template = "NetpolDenied" -> {"NetworkEvents"}
                   [] template = "TLSInsecureVersion" -> {"TLSTracking"}
                   [] OTHER -> {}
    IN  needs \subseteq fc.agent.features

(* A rule of the FlowCollector replaces the default one of its template,   *)
(* and the last one of a template wins; disabled templates are dropped.    *)
GetFLPHealthRules(fc) ==
    LET metrics == fc.processor.metrics
        enabled(rules) == SelectSeq(rules, LAMBDA r : r.template \notin metrics.disableAlerts)
        user == enabled(OrElse(metrics.healthRules, <<>>))
        all == enabled(DefaultHealthRules) \o user
        effective == { i \in DOMAIN all :
                         \A j \in DOMAIN all : all[j].template = all[i].template => j <= i }
    IN  { all[i] : i \in {k \in effective : IsAllowed(all[k].template, fc)} }

GetMode(variant, parentMode) == OrElse(variant.mode, parentMode)

(* The quantities a template reads, and those it divides by; the groups of *)
(* a variant in the order they are looked for.                             *)
RequiredQuantities(template) ==
    CASE template = "PacketDropsByKernel" -> << <<"drop_packets">>, <<"ingress_packets", "egress_packets">> >>
      [] template = "IPsecErrors" -> << <<"ipsec_flows">>, <<"to_node_ingress_flows">> >>
      [] template \in {"DNSErrors", "DNSNxDomain"} -> << <<"dns_flows">>, <<"dns_flows">> >>
      [] template = "ExternalEgressHighTrend" -> << <<"egress_bytes">>, <<"egress_bytes">> >>
      [] template = "ExternalIngressHighTrend" -> << <<"ingress_bytes">>, <<"ingress_bytes">> >>
      [] template = "LatencyHighTrend" -> << <<"rtt">>, <<"rtt">> >>
      [] template = "NetpolDenied" -> << <<"network_policy_events">>, <<"flows">> >>
      [] template = "TLSInsecureVersion" -> << <<"tls_flows">>, <<"tls_flows">> >>
      [] OTHER -> << <<>>, <<>> >>

\* Mutant: a variant by workload accepts the metrics of namespaces.
GroupsOfWider(template, groupBy) ==
    CASE template = "IPsecErrors" \/ groupBy = "Node" -> <<"node">>
      [] groupBy \in {"Namespace", "Workload"} -> <<"namespace", "workload">>
      [] OTHER -> <<"namespace", "workload", "node">>

GroupsOf(template, groupBy) ==
    CASE template = "IPsecErrors" \/ groupBy = "Node" -> <<"node">>
      [] groupBy = "Namespace" -> <<"namespace", "workload">>
      [] groupBy = "Workload" -> <<"workload">>
      [] OTHER -> <<"namespace", "workload", "node">>

(* Pairs of lists of metrics: one of each is enough.                       *)
GetElligibleMetricsForAlert(template, groupBy) ==
    LET groups == GroupsOf(template, groupBy)
        list(quantities) == FlattenSeq([q \in DOMAIN quantities |->
                              [g \in DOMAIN groups |-> <<groups[g], quantities[q]>>]])
    IN  [k \in 1..2 |-> list(RequiredQuantities(template)[k])]

GetFirstRequiredMetrics(anyRequired, actual) ==
    IF \E i \in DOMAIN anyRequired : anyRequired[i] \in actual
      THEN anyRequired[CHOOSE i \in DOMAIN anyRequired :
              anyRequired[i] \in actual /\ \A j \in 1..(i - 1) : anyRequired[j] \notin actual]
      ELSE <<"", "">>

NoMetric == <<"", "">>

(* ------------------------- Rules of Prometheus ------------------------- *)

SidesOf(groupBy) == IF groupBy = "" THEN {""} ELSE {"Src", "Dst"}

\* Mutant: every severity is bounded by the highest one.
buildHealthRulesUpToHighest(template, mode, variant) ==
    LET given == SelectSeq(Severity, LAMBDA s : variant.thresholds[s] # Nil)
        upper(i) == IF i = 1 THEN Nil ELSE variant.thresholds[given[1]]
        base == [template |-> template, groupBy |-> variant.groupBy, mode |-> mode]
    IN  IF template \in AlertOnly THEN {}
        ELSE IF mode = "Recording"
        THEN { base @@ [side |-> s, severity |-> "", threshold |-> Nil, upper |-> Nil]
               : s \in SidesOf(variant.groupBy) }
        ELSE { base @@ [side |-> s, severity |-> given[i],
                        threshold |-> variant.thresholds[given[i]], upper |-> upper(i)]
               : s \in SidesOf(variant.groupBy), i \in DOMAIN given }

(* The contexts of a variant: one per side when it is recorded, else one   *)
(* per side and severity, each bounded by the next higher severity.        *)
buildHealthRulesForVariant(template, mode, variant) ==
    LET given == SelectSeq(Severity, LAMBDA s : variant.thresholds[s] # Nil)
        upper(i) == IF i = 1 THEN Nil ELSE variant.thresholds[given[i - 1]]
        base == [template |-> template, groupBy |-> variant.groupBy, mode |-> mode]
    IN  IF template \in AlertOnly THEN {}
        ELSE IF mode = "Recording"
        THEN { base @@ [side |-> s, severity |-> "", threshold |-> Nil, upper |-> Nil]
               : s \in SidesOf(variant.groupBy) }
        ELSE { base @@ [side |-> s, severity |-> given[i],
                        threshold |-> variant.thresholds[given[i]], upper |-> upper(i)]
               : s \in SidesOf(variant.groupBy), i \in DOMAIN given }

(* What a template is built of: the side it skips because its metrics have *)
(* only one, the labels it filters by, and the groupings refused when the  *)
(* rule or the text of an alert is built.                                  *)
Template(skips, filters) ==
    [skips |-> skips, filters |-> filters, refused |-> {}, unexplained |-> {}]

kernelDrops == Template("none", {})
ipsecErrors == Template("none", {})
latencyTrend == Template("none", {})
dnsErrors == Template("Src", {<<"", "DnsFlagsResponseCode">>})
dnsNxDomain == Template("Src", {<<"", "DnsFlagsResponseCode">>})
netpolDenied == Template("none", {<<"", "action">>})
tlsInsecureVersion == Template("none", {<<"", "TLSVersion">>})
externalTrend(ingress) ==
    IF ingress THEN Template("Src", {<<"Src", "SubnetLabel">>})
    ELSE Template("Dst", {<<"Dst", "SubnetLabel">>})
deviceDrops ==
    [Template("Dst", {}) EXCEPT !.refused = {"Namespace", "Workload"}]
ingressErrors ==
    [Template("Dst", {}) EXCEPT !.unexplained = {"Node", "Workload"}]
ingressHTTPLatencyTrend ==
    [Template("Dst", {}) EXCEPT !.unexplained = {"Node", "Workload"}]

TemplateOf ==
    [PacketDropsByKernel |-> kernelDrops, PacketDropsByDevice |-> deviceDrops,
     IPsecErrors |-> ipsecErrors, DNSErrors |-> dnsErrors, DNSNxDomain |-> dnsNxDomain,
     NetpolDenied |-> netpolDenied, LatencyHighTrend |-> latencyTrend,
     ExternalEgressHighTrend |-> externalTrend(FALSE), ExternalIngressHighTrend |-> externalTrend(TRUE),
     Ingress5xxErrors |-> ingressErrors, IngressHTTPLatencyTrend |-> ingressHTTPLatencyTrend,
     TLSInsecureVersion |-> tlsInsecureVersion]

(* The labels a rule groups by, on its side.                               *)
sumByLabels(groupBy, side) ==
    {side} \X CASE groupBy = "Node" -> {"HostName"}
                [] groupBy = "Namespace" -> {"Namespace"}
                [] groupBy = "Workload" -> {"Namespace", "OwnerName", "OwnerType"}
                [] OTHER -> {}

(* What Build returns for a context: a rule, nothing or an error.          *)
BuildOutcome(ctx) ==
    LET t == TemplateOf[ctx.template]
    IN  CASE ctx.side = t.skips -> "none"
          [] ctx.groupBy \in t.refused -> "error"
          [] ctx.mode # "Recording" /\ ctx.groupBy \in t.unexplained -> "error"
          [] OTHER -> "rule"

Build(ctx, enabled) ==
    LET required == GetElligibleMetricsForAlert(ctx.template, ctx.groupBy)
    IN  ctx @@ [reads |-> IF required[1] # <<>>
                            THEN [k \in 1..2 |-> GetFirstRequiredMetrics(required[k], enabled)]
                            ELSE <<>>]

(* The contexts of the active rules, and the rules they give.              *)
BuildHealthRules(fc) ==
    UNION { UNION { buildHealthRulesForVariant(r.template, GetMode(r.variants[i], r.mode), r.variants[i])
                    : i \in DOMAIN r.variants } : r \in GetFLPHealthRules(fc) }

BuildMonitoringRules(fc) ==
    { Build(ctx, GetIncludeList(fc)) : ctx \in {c \in BuildHealthRules(fc) : BuildOutcome(c) = "rule"} }

(* Whether an alert of the rule fires when its expression has the value v. *)
percentagePromQL(rule, v) ==
    v > rule.threshold.val /\ (rule.upper # Nil => v < rule.upper.val)
=============================================================================
