----------------------------- MODULE Admission -----------------------------
(***************************************************************************)
(* The validation webhook of FlowCollector                                 *)
(* (flowcollector_validation_webhook.go): the errors that make the API     *)
(* server reject a spec, and the warnings it returns with an accepted one. *)
(* A verdict has the set of both, each named for its message.  env is what *)
(* the cluster information knows of the platform (ClusterInfo).            *)
(***************************************************************************)
EXTENDS HealthRules

Verdict(errors, warnings) == [errors |-> errors, warnings |-> warnings]

warnLogLevels(fc) ==
    Verdict({}, If(fc.agent.logLevel \in {"debug", "trace"}, {"agent log level"})
           \cup If(fc.processor.logLevel \in {"debug", "trace"}, {"processor log level"}))

(* The address of the agent's profiler is an environment variable.         *)
warnProfiling(fc) ==
    LET agentEnv == IF fc.agent.advanced = Nil THEN {} ELSE fc.agent.advanced.env
        port == IF fc.processor.advanced = Nil THEN Nil ELSE fc.processor.advanced.profilePort
    IN  Verdict({}, If("PPROF_ADDR" \in agentEnv, {"agent profiling"})
               \cup If(OrElse(port, 0) > 0, {"processor profiling"}))

warnLokiDemo(fc) ==
    Verdict({}, If(fc.loki.mode = "Monolithic" /\ fc.loki.monolithic.demo = TRUE, {"demo loki"}))

validateDeploymentModel(fc, env) ==
    Verdict({}, IF env.nodes = Nil THEN {"unknown number of nodes"}
                ELSE If(env.nodes >= 15 /\ fc.deploymentModel = "Direct", {"too many nodes"}))

validateNetPol(fc, env) ==
    LET enable == fc.networkPolicy.enable
        cni == IF env.cni = "OpenShiftSDN" /\ enable = TRUE THEN {"SDN"}
               ELSE If(env.cni = "" /\ ShouldInstallNetworkPolicy(enable, env.cni), {"unknown CNI"})
        knob == If(fc.namespace # "" /\ fc.namespace = env.operatorNamespace /\ Set(enable),
                   {"network policy knob ignored"})
    IN  Verdict({}, cni \cup knob)

neededOpenShiftVersion(feature) ==
    CASE feature = "PacketDrop" -> 414
      [] feature = "UDNMapping" -> 418
      [] feature \in {"NetworkEvents", "EbpfManager"} -> 419
      [] OTHER -> 0

validateDNSTrackingPorts(fc) ==
    If(fc.agent.dnsPorts # <<>> /\ ~Has(fc, "DNSTracking"), {"DNS ports without DNSTracking"})

IsPort(p) == p \in 1..65535

validateFilterPortConfig(ports) ==
    CASE ports.kind = "range" -> IsPort(ports.a) /\ IsPort(ports.b) /\ ports.a < ports.b
      [] ports.kind = "list" -> IsPort(ports.a) /\ IsPort(ports.b)
      [] ports.kind = "single" -> IsPort(ports.a)
      [] OTHER -> TRUE

HasPorts(ports) == ports.kind # "none"

validateAgentFilter(rule) ==
    If(rule.cidr = "malformed", {"CIDR"})
    \cup If(\E p \in {rule.ports, rule.sourcePorts, rule.destPorts} :
               HasPorts(p) /\ ~validateFilterPortConfig(p), {"ports"})
    \cup If(HasPorts(rule.ports) /\ HasPorts(rule.sourcePorts), {"ports and sourcePorts"})
    \cup If(HasPorts(rule.ports) /\ HasPorts(rule.destPorts), {"ports and destPorts"})

(* The rules are looked at up to the first that repeats a pair of CIDRs.   *)
validateAgent(fc, env) ==
    LET unsupported == { f \in fc.agent.features : neededOpenShiftVersion(f) > 0 /\
                           (env.isOpenShift => env.openShiftVersion < neededOpenShiftVersion(f)) }
        filter == fc.agent.flowFilter
        repeats(i) == \E j \in 1..(i - 1) : /\ filter.rules[j].cidr = filter.rules[i].cidr
                                            /\ filter.rules[j].peer = filter.rules[i].peer
        checked == { i \in DOMAIN filter.rules : \A j \in 1..i : ~repeats(j) }
        errors == IF ~IsEBPFFlowFilterEnabled(fc) THEN {}
                  ELSE If(checked # DOMAIN filter.rules, {"CIDR pair repeated"})
                       \cup UNION {validateAgentFilter(filter.rules[i]) : i \in checked}
                       \cup validateAgentFilter(filter.inline)
    IN  Verdict(errors, unsupported \cup validateDNSTrackingPorts(fc))

validateScheduling(fc) ==
    LET scheduling(advanced) == IF advanced = Nil THEN Nil ELSE advanced.scheduling
    IN  Verdict({}, If(/\ fc.deploymentModel = "Direct"
                       /\ scheduling(fc.agent.advanced) # scheduling(fc.processor.advanced),
                       {"scheduling mismatch"}))

validateFLPLogTypes(fc) ==
    Verdict(If(HasConntrack(fc) /\ ~UseLoki(fc), {"conntrack without Loki"})
            \cup If(HasConntrack(fc) /\ fc.deploymentModel = "Service", {"conntrack with Service"}),
            If(fc.processor.logTypes = "All", {"all log types"}))

validateFLPFilters(fc) ==
    Verdict(If(\E i \in DOMAIN fc.processor.filters : ~fc.processor.filters[i].parses, {"filter"}), {})

isFLPHealthRuleGroupBySupported(template, groupBy) ==
    CASE template = "PacketDropsByDevice" -> groupBy # "Workload"
      [] template = "IPsecErrors" -> groupBy \notin {"Workload", "Namespace"}
      [] template \in {"Ingress5xxErrors", "IngressHTTPLatencyTrend"} ->
            groupBy \notin {"Node", "Workload"}
      [] template \in AlertOnly -> FALSE
      [] OTHER -> TRUE

(* A threshold is compared with the one of the next higher severity given, *)
(* but only when that one is above zero.                                   *)
ThresholdErrors(thresholds) ==
    LET given == SelectSeq(Severity, LAMBDA s : thresholds[s] # Nil)
        value(i) == thresholds[given[i]]
        last(i) == IF i = 1 THEN -1 ELSE value(i - 1).val
    IN  If(given = <<>>, {"no threshold"})
        \cup If(\E i \in DOMAIN given : ~value(i).ok, {"threshold is not a number"})
        \cup If(\E i \in DOMAIN given : value(i).ok /\ value(i).val < 0, {"negative threshold"})
        \cup If(\E i \in DOMAIN given : /\ value(i).ok /\ value(i).val >= 0
                                        /\ last(i) > 0 /\ value(i).val > last(i),
                {"threshold above a higher severity"})

validateVariantMode(template, variant) ==
    If(variant.mode = "Recording" /\ template \in AlertOnly, {"alert-only template"})

validateFLPAlerts(fc) ==
    LET rules == OrElse(fc.processor.metrics.healthRules, <<>>)
        variantErrors(template, v) ==
            If(~isFLPHealthRuleGroupBySupported(template, v.groupBy), {"grouping"})
            \cup ThresholdErrors(v.thresholds)
            \cup If(Set(v.lowVolume) /\ ~v.lowVolume.ok, {"low volume threshold"})
            \cup validateVariantMode(template, v)
    IN  Verdict(UNION { UNION { variantErrors(rules[i].template, rules[i].variants[j])
                                : j \in DOMAIN rules[i].variants } : i \in DOMAIN rules },
                { rules[i].template : i \in {k \in DOMAIN rules : ~IsAllowed(rules[k].template, fc)} })

validateFLPMetricsForAlerts(fc) ==
    LET metrics == GetIncludeList(fc)
        missing(template, groupBy) ==
            \E k \in 1..2 : LET required == GetElligibleMetricsForAlert(template, groupBy)[k]
                            IN  required # <<>> /\ GetFirstRequiredMetrics(required, metrics) = NoMetric
    IN  Verdict({}, UNION { { r.template \o "/" \o r.variants[j].groupBy
                              : j \in {k \in DOMAIN r.variants : missing(r.template, r.variants[k].groupBy)} }
                            : r \in GetFLPHealthRules(fc) })

validateFLPMetricsIncludeLists(fc) ==
    Verdict({}, If(Set(fc.processor.metrics.includeList) /\ Set(fc.processor.metrics.additional),
                   {"include lists"}))

validateFLPTLS(fc) ==
    LET service == fc.processor.service
    IN  Verdict(IF fc.deploymentModel # "Service" \/ service = Nil \/ service.type # "Provided" THEN {}
                ELSE IF service.provided = Nil THEN {"no certificates"}
                ELSE If(~service.provided.caFile, {"no CA"})
                     \cup If(service.provided.caFile /\ ~service.provided.serverCert, {"no server certificate"}),
                {})

(* Ports of the processor are compared with the one of the Kubernetes      *)
(* cache as written: an advanced section that is absent has none.          *)
validatePortConflicts(fc) ==
    LET advanced == fc.processor.advanced
        ports == {FLPMetricsPort(fc)} \cup
                 If(Set(advanced), {advanced.port, advanced.healthPort, advanced.profilePort})
    IN  Verdict(If(IsInformerCacheProxyEnabled(fc) /\ GetK8sCachePort(fc) \in ports, {"port conflict"}), {})

validateFLP(fc) ==
    {validateScheduling(fc), validateFLPLogTypes(fc), validateFLPFilters(fc), validateFLPAlerts(fc),
     validateFLPMetricsForAlerts(fc), validateFLPMetricsIncludeLists(fc), validateFLPTLS(fc),
     validatePortConflicts(fc)}

Validate(fc, env) ==
    LET verdicts == {validateDeploymentModel(fc, env), validateNetPol(fc, env), validateAgent(fc, env),
                     warnLogLevels(fc), warnProfiling(fc), warnLokiDemo(fc)} \cup validateFLP(fc)
    IN  Verdict(UNION {v.errors : v \in verdicts}, UNION {v.warnings : v \in verdicts})
=============================================================================
