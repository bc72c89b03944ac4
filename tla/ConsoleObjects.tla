-------------------------- MODULE ConsoleObjects --------------------------
(***************************************************************************)
(* The web console plugin (controller/consoleplugin): its pods, services   *)
(* and registration, how it queries Loki and Prometheus, and the part of   *)
(* its configuration that depends on the spec: the features it shows and   *)
(* the scopes it can serve from metrics when there is no Loki.             *)
(***************************************************************************)
EXTENDS HealthRules, Certificates

PluginName == "netobserv-plugin"

(* ---------------------------- Its data sources ------------------------- *)

(* The Loki client, with TLS turned off while the LokiStack is missing.    *)
LokiOf(fc, lokiMissing) ==
    LET loki == NewLokiConfig(fc)
    IN  IF lokiMissing THEN [loki EXCEPT !.tls.enable = FALSE, !.statusTls.enable = FALSE] ELSE loki

Verified(tls) == tls.enable /\ ~tls.insecureSkipVerify

(* The volumes of the queries to Loki.                                     *)
getLokiConfig(fc, lokiMissing) ==
    LET loki == LokiOf(fc, lokiMissing)
    IN  IF ~UseLoki(fc) THEN <<>>
        ELSE (IF Verified(loki.tls) THEN AddCACertificate(loki.tls, "loki-certs") ELSE <<>>)
             \o (IF Verified(loki.statusTls)
                   THEN AddMutualTLSCertificates(loki.statusTls, "loki-status-certs") ELSE <<>>)
             \o (IF UseHostToken(loki) THEN <<Token(PluginName)>> ELSE <<>>)

(* How Prometheus is queried: automatic on OpenShift, else as written.     *)
PromTLS(fc, isOpenShift) ==
    IF fc.prometheus.mode = "Auto" /\ isOpenShift
      THEN ClientTLSOf(Ref("configmap", "openshift-service-ca.crt", ""), Nil)
      ELSE fc.prometheus.manual.tls

(* The alert manager's certificate is looked for in the querier's section. *)
getPromConfig(fc, isOpenShift) ==
    LET tls == PromTLS(fc, isOpenShift)
        manager == fc.prometheus.manual.alertManager
    IN  IF ~UsePrometheus(fc) THEN <<>>
        ELSE (IF fc.prometheus.mode = "Manual" /\ Set(manager) /\ manager.enable
                THEN AddCACertificate(tls, "prom-am-certs") ELSE <<>>)
             \o (IF Verified(tls) THEN AddCACertificate(tls, "prom-certs") ELSE <<>>)
             \o <<Token(PluginName)>>

(* All volumes of the plugin in the order they are added: its own serving  *)
(* certificate comes when the pod is built.                                *)
PluginVolumes(fc, env, lokiMissing) ==
    LET standalone == UseStandaloneConsole(fc, env.hasPluginAPI)
    IN  (IF standalone THEN <<Token(PluginName)>> ELSE <<>>)
        \o getLokiConfig(fc, lokiMissing)
        \o getPromConfig(fc, env.isOpenShift)
        \o (IF standalone THEN <<>>
            ELSE <<Volume(PluginName \o "-cert", Ref("secret", PluginName \o "-cert", ""))>>)

(* The references handed to the watcher.                                   *)
WatchedByConsole(fc, lokiMissing) ==
    LET loki == LokiOf(fc, lokiMissing)
    IN  IF ~UseLoki(fc) THEN {}
        ELSE (IF loki.tls.enable THEN {loki.tls.caCert} \ {Nil} ELSE {})
             \cup (IF loki.statusTls.enable
                     THEN {loki.statusTls.caCert, loki.statusTls.userCert} \ {Nil} ELSE {})

(* ------------------------------ Its objects ---------------------------- *)

consolePlugin(fc) == [service |-> PluginName, port |-> GetAdvancedPluginConfig(fc).port]
mainService(fc) ==
    [selector |-> PluginName, ports |-> {GetAdvancedPluginConfig(fc).port},
     servingCert |-> PluginName \o "-cert"]
metricsService == [selector |-> PluginName, ports |-> {9002}, servingCert |-> ""]
ServerPort(fc) == GetAdvancedPluginConfig(fc).port

pluginPodTemplate(fc, env, lokiMissing) ==
    [volumes |-> GetVolumes(PluginVolumes(fc, env, lokiMissing)), port |-> ServerPort(fc),
     scheduling |-> GetAdvancedPluginConfig(fc).scheduling]

(* Whether the plugin is to be registered in the OpenShift console; it is  *)
(* never removed from there.                                               *)
checkAutoPatch(fc) == UseWebConsole(fc) /\ GetAdvancedPluginConfig(fc).register

(* ------------------------- Features and scopes ------------------------- *)

Features(fc) ==
    Opt(Has(fc, "PacketDrop") \/ Has(fc, "NetworkEvents"), "pktDrop")
    \cup Opt(Has(fc, "DNSTracking"), "dnsTracking") \cup Opt(Has(fc, "FlowRTT"), "flowRTT")
    \cup Opt(Has(fc, "NetworkEvents"), "networkEvents")
    \cup Opt(Has(fc, "PacketTranslation"), "packetTranslation")
    \cup Opt(Has(fc, "UDNMapping"), "udnMapping")
    \cup Opt(Has(fc, "UDNMapping") \/ GetSecondaryIndexes(fc) # <<>>, "multiNetworks")
    \cup Opt(Has(fc, "IPSec"), "ipsec") \cup Opt(Has(fc, "TLSTracking"), "tlsTracking")
    \cup Opt(IsMultiClusterEnabled(fc), "multiCluster") \cup Opt(IsZoneEnabled(fc), "zones")
    \cup Opt(IsSubnetLabelsEnabled(fc), "subnetLabels")
    \cup Opt(IsBgpEnrichmentEnabled(fc), "bgpEnrichment")

(* The scopes of static-frontend-config.yaml and the features of columns.  *)
Sides(names) == {"Src", "Dst"} \X names
Scope ==
    [cluster |-> [feature |-> "multiCluster", labels |-> {<<"", "ClusterName">>}],
     network |-> [feature |-> "multiNetworks", labels |-> Sides({"NetworkName"})],
     zone |-> [feature |-> "zones", labels |-> Sides({"Zone"})],
     host |-> [feature |-> "", labels |-> Sides({"HostName"})],
     namespace |-> [feature |-> "", labels |-> Sides({"Namespace"})],
     owner |-> [feature |-> "",
                labels |-> Sides({"OwnerName", "OwnerType", "Namespace", "SubnetLabel", "ASN"})],
     resource |-> [feature |-> "", labels |-> Sides({"Name", "Addr", "HostName"})]]

ColumnFeature(label) ==
    CASE label[2] = "ClusterName" -> "multiCluster" [] label[2] = "Zone" -> "zones"
      [] label[2] = "SubnetLabel" -> "subnetLabels" [] label[2] = "ASN" -> "bgpEnrichment"
      [] label[2] = "NetworkName" -> "multiNetworks" [] OTHER -> ""

isLabelForDisabledFeature(label, features) ==
    ColumnFeature(label) # "" /\ ColumnFeature(label) \notin features

\* Mutant: labels of disabled features are asked for too.
missingLabelsAll(labels, metric, features) == { l \in labels : l \notin metric.labels }

missingLabels(labels, metric, features) ==
    { l \in labels : ~isLabelForDisabledFeature(l, features) /\ l \notin metric.labels }

(* The metrics of traffic that are produced.                               *)
TrafficMetrics(fc) == { d \in GetDefinitions(fc) : d.name[2] \in Traffic }

isScopeValidForMetrics(scope, fc) ==
    \E m \in TrafficMetrics(fc) : missingLabels(Scope[scope].labels, m, Features(fc)) = {}

(* The scopes of the console, and those it leaves out with a warning.      *)
setFrontendConfig(fc) ==
    LET wanted == { s \in DOMAIN Scope : Scope[s].feature \in Features(fc) \cup {""} }
        served == IF UseLoki(fc) THEN wanted ELSE { s \in wanted : isScopeValidForMetrics(s, fc) }
    IN  [scopes |-> served, warned |-> (wanted \ served) \ {"resource"}]

(* The templates whose health is shown, and the records they come from.    *)
fillHealthData(fc) ==
    { r.template : r \in { x \in BuildHealthRules(fc) : BuildOutcome(x) = "rule" } }
=============================================================================
