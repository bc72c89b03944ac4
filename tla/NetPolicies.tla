---------------------------- MODULE NetPolicies ----------------------------
(***************************************************************************)
(* The network policies of the operands' namespaces                        *)
(* (controller/networkpolicy/np_objects.go, pkg/netpol).  A rule is a set  *)
(* of peers and a set of ports; no port means every port.  Peers are       *)
(* namespaces, or the special ones of the host network and of the          *)
(* addresses of the API server.                                            *)
(***************************************************************************)
EXTENDS FlowCollector

Rule(peers, ports) == [peers |-> peers, ports |-> ports]
Permits(rules, peer, port) ==
    \E r \in rules : peer \in r.peers /\ (r.ports = {} \/ port \in r.ports)

OnOpenShiftVendor(env) == env.vendor \in {"openshift", "downstream"}
CPMetricsPort == 9002

(* Pods of the host network: with OVN-Kubernetes they are known by a label *)
(* on a namespace of OpenShift, else by their own namespace.               *)
ovnHostNetworkPeer == "host-network"
HostNetworkPeer(env, namespace) == IF env.cni = "OVNKubernetes" THEN ovnHostNetworkPeer ELSE namespace

AllowFromSameNamespace(ns) == Rule({ns}, {})
AllowToSameNamespace(ns) == Rule({ns}, {})
AllowFromOpenShiftConsole(fc) == Rule({"openshift-console"}, {GetAdvancedPluginConfig(fc).port})
AllowToLokiStack(fc) == Rule({fc.loki.lokiStack}, {8080, 3100})

AllowVendorPrometheusScrape(env, ports, ns) ==
    Rule({CASE env.vendor = "openshift" -> "openshift-user-workload-monitoring"
            [] env.vendor = "downstream" -> "openshift-monitoring"
            [] OTHER -> ns}, ports)

AllowPrometheusQuery(env, ns) ==
    Rule({IF OnOpenShiftVendor(env) THEN "openshift-monitoring" ELSE ns}, {})

(* The API server as a namespace or an address, and the addresses and      *)
(* ports found by the cluster information.                                 *)
AllowToAPIServer(env) ==
    LET port == IF OnOpenShiftVendor(env) THEN 6443 ELSE 443
        peers == IF OnOpenShiftVendor(env) THEN {"openshift-apiserver", "openshift-kube-apiserver"}
                 ELSE {"KUBERNETES_SERVICE_HOST"}
    IN  Rule(peers \cup env.apiServer.ips, {port} \cup env.apiServer.ports)

\* Mutant: the port of the advanced section is not read.
AllowHostNetworkFlowsDefault(fc, env, fromNamespace) ==
    Rule({HostNetworkPeer(env, fromNamespace)}, {DefaultAdvancedProcessor.port})

AllowHostNetworkFlows(fc, env, fromNamespace) ==
    Rule({HostNetworkPeer(env, fromNamespace)}, {GetAdvancedProcessorConfig(fc).port})

AllowDNS(env) ==
    Rule({IF OnOpenShiftVendor(env) THEN "openshift-dns" ELSE "kube-system"}, {53})

PeerInNamespaces(names) == Rule(names, {})

(* In the operator's namespace, or when the FlowCollector does not say, the *)
(* operator's own setting decides.                                          *)
ShouldInstall(fc, env) ==
    LET ns == GetOperandsNamespace(fc)
        knob == IF ns = env.operatorNamespace \/ fc.networkPolicy.enable = Nil
                  THEN env.operatorNetworkPolicy ELSE fc.networkPolicy.enable
    IN  ShouldInstallNetworkPolicy(knob, env.cni)

buildMainNetworkPolicy(fc, env) ==
    LET ns == GetOperandsNamespace(fc)
        additional == Range(fc.networkPolicy.additionalNamespaces)
        toStack == /\ UseLoki(fc) /\ fc.loki.mode = "LokiStack"
                   /\ fc.loki.lokiStack \notin {"", ns}
        extra == IF additional = {} THEN {} ELSE {PeerInNamespaces(additional)}
    IN  [ingress |->
            {AllowFromSameNamespace(ns)}
            \cup (IF fc.deploymentModel = "Service"
                    THEN {AllowHostNetworkFlows(fc, env, ns \o "-privileged")} ELSE {})
            \cup (IF env.isOpenShift
                    THEN {AllowVendorPrometheusScrape(env, {FLPMetricsPort(fc), CPMetricsPort}, ns)} ELSE {})
            \cup (IF env.isOpenShift /\ UseWebConsole(fc) THEN {AllowFromOpenShiftConsole(fc)} ELSE {})
            \cup extra,
         egress |->
            {AllowToSameNamespace(ns), AllowDNS(env), AllowToAPIServer(env)}
            \cup (IF toStack THEN {AllowToLokiStack(fc)} ELSE {})
            \cup (IF env.isOpenShift THEN {AllowPrometheusQuery(env, ns)} ELSE {})
            \cup extra]

(* The agents are on the host network: nothing needs to go out.            *)
buildPrivilegedNetworkPolicy(fc, env) ==
    [ingress |-> IF env.isOpenShift
                   THEN {AllowVendorPrometheusScrape(env, {AgentMetricsPort(fc)},
                                                     GetOperandsNamespace(fc) \o "-privileged")} ELSE {},
     egress |-> {}]
=============================================================================
