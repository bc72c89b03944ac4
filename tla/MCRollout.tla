----------------------------- MODULE MCRollout -----------------------------
(* The platform and the specs Rollout is checked with.                     *)
EXTENDS Rollout

OpenShift ==
    [isOpenShift |-> TRUE, openShiftVersion |-> 419, vendor |-> "openshift", cni |-> "OVNKubernetes", nodes |-> 3,
     operatorNamespace |-> "operator", operatorNetworkPolicy |-> TRUE, hasPluginAPI |-> TRUE,
     apiServer |-> [ips |-> {"10.0.0.1"}, ports |-> {6443}], detected |-> <<>>]

D == DefaultFlowCollector
OnHoldSpec == [D EXCEPT !.execution = "OnHold"]
Proxied == [DefaultProxy EXCEPT !.enabled = TRUE]
Exporting == [D EXCEPT !.exporters =
    << [type |-> "Kafka", tls |-> ClientTLSOf(Ref("configmap", "ca", "elsewhere"), Nil), sasl |-> "Disabled",
        logs |-> FALSE, metrics |-> FALSE] >>]
Kafka == [D EXCEPT !.deploymentModel = "Kafka", !.processor.hpa = TRUE,
                   !.loki.mode = "Microservices", !.loki.microservices = ClientTLSOf(Ref("configmap", "loki-ca", "elsewhere"), Nil),
                   !.kafka = [tls |-> ClientTLSOf(Ref("configmap", "kafka-ca", ""), Nil), sasl |-> "Disabled"]]
Refused == [D EXCEPT !.processor.proxy = Proxied, !.processor.subnetLabels.custom = <<Nil>>]

Direct == [D EXCEPT !.deploymentModel = "Direct"]

MCSpecs ==
    [exporting |-> Exporting, direct |-> Direct, kafka |-> Kafka, refused |-> Refused, hold |-> OnHoldSpec,
     demo |-> [D EXCEPT !.loki.monolithic.demo = TRUE, !.consolePlugin.enable = FALSE],
     bpfman |-> [Kafka EXCEPT !.agent.features = {"EbpfManager"}, !.agent.metrics.enable = FALSE,
                              !.consolePlugin.unmanagedReplicas = TRUE],
     plain |-> D, open |-> [D EXCEPT !.networkPolicy.enable = FALSE]]
MCOffered(controller) ==
    CASE controller = "flp" -> {"exporting", "direct", "kafka", "refused"}
      [] controller = "legacy" -> {"demo", "hold", "bpfman"}
      [] controller = "netpol" -> {"plain", "open", "direct"}

MCForeign == { [obj |-> Obj("NetworkPolicy", "main"), body |-> "theirs"] }
MCLagging == {Obj("Deployment", transfoName)}
MCDeletable == {Obj("ConfigMap", monoName \o "-config"), Obj("Deployment", transfoName), Obj("Service", PluginName),
                Obj("NetworkPolicy", "main")}
MCControllers == {"flp", "legacy", "netpol"}
=============================================================================
