--------------------------- MODULE Certificates ---------------------------
(***************************************************************************)
(* The certificates the operands mount: references to secrets and config   *)
(* maps, the volumes builder (pkg/volumes/builder.go), the TLS section of  *)
(* the processor service and of the informer proxy (pkg/helper/tls.go) and *)
(* the Loki client configuration (pkg/helper/loki_config.go).  A volume is *)
(* the name under which a reference is mounted; its path is /var/<name>.   *)
(***************************************************************************)
EXTENDS FlowCollector

Ref(kind, name, namespace) == [kind |-> kind, name |-> name, namespace |-> namespace]
Volume(name, ref) == [name |-> name, ref |-> ref]

(* A token of the service account, projected under /var/run/secrets.       *)
Token(name) == Volume(name, Ref("token", name, ""))

(* A volume takes the place of the one of its name, AddToken keeps it.     *)
insertOrReplace(info, v) ==
    IF \A i \in DOMAIN info : info[i].name # v.name THEN Append(info, v)
    ELSE [i \in DOMAIN info |-> IF info[i].name = v.name /\ v.ref.kind # "token" THEN v ELSE info[i]]

GetVolumes(added) == FoldLeft(insertOrReplace, <<>>, added)
Mounted(added) == Range(GetVolumes(added))

AddCertificate(ref, name) == IF ref = Nil THEN <<>> ELSE <<Volume(name, ref)>>

AddCACertificate(tls, prefix) == AddCertificate(tls.caCert, prefix \o "-ca")

AddMutualTLSCertificates(tls, prefix) ==
    AddCACertificate(tls, prefix) \o AddCertificate(tls.userCert, prefix \o "-user")

(* A client that does TLS mounts what it is given, also when it does not   *)
(* verify the server.                                                      *)
getClientTLS(tls, name) == IF tls.enable THEN AddMutualTLSCertificates(tls, name) ELSE <<>>

SASLRef(kafka, what) == Ref("secret", kafka.sasl \o what, "")
getSASL(kafka, prefix) ==
    IF ~UseSASL(kafka) THEN <<>>
    ELSE << Volume(prefix \o "-sasl-id", SASLRef(kafka, "-id")),
            Volume(prefix \o "-sasl-secret", SASLRef(kafka, "-secret")) >>

(* ------------------------------- tls.go -------------------------------- *)

AutoCA(isOpenShift) ==
    Ref("configmap", IF isOpenShift THEN "openshift-service-ca.crt" ELSE "netobserv-ca", "")

ProvidedRef(given, name) == IF given THEN Ref("secret", name, "") ELSE Nil

InformerTLSAsServiceConfig(proxy) ==
    IF proxy = Nil \/ proxy.tls = Nil THEN [type |-> "Auto", provided |-> Nil] ELSE proxy.tls

IsAuto(desired) == desired = Nil \/ desired.type \in {"Auto", "Auto-mTLS"}
IsAutoMTLS(desired) == desired # Nil /\ desired.type = "Auto-mTLS"

(* The CA and the certificate a client uses; Nil for none.                 *)
GetServiceClientTLSConfig(desired, defaultSecret, isOpenShift) ==
    CASE IsAuto(desired) ->
           [ca |-> AutoCA(isOpenShift),
            cert |-> IF IsAutoMTLS(desired) THEN Ref("secret", defaultSecret, "") ELSE Nil]
      [] desired # Nil /\ desired.type = "Provided" /\ desired.provided # Nil ->
           [ca |-> ProvidedRef(desired.provided.caFile, "provided-ca"),
            cert |-> ProvidedRef(desired.provided.clientCert, "provided-client")]
      [] OTHER -> [ca |-> Nil, cert |-> Nil]

(* The certificate a server shows, and the CA it asks its clients for.     *)
GetServiceServerTLSConfig(desired, defaultSecret, isOpenShift) ==
    CASE IsAuto(desired) ->
           [cert |-> Ref("secret", defaultSecret, ""),
            ca |-> IF IsAutoMTLS(desired) THEN AutoCA(isOpenShift) ELSE Nil]
      [] desired # Nil /\ desired.type = "Provided" /\ desired.provided # Nil ->
           [cert |-> ProvidedRef(desired.provided.serverCert, "provided-server"),
            ca |-> ProvidedRef(desired.provided.clientCert /\ desired.provided.caFile, "provided-ca")]
      [] OTHER -> [cert |-> Nil, ca |-> Nil]

\* Mutant: only automatic certificates are thought to be scraped over TLS.
GetServiceMonitorTLSConfigAuto(tls) == IF tls.type = "Auto" THEN "https" ELSE "http"

(* How a ServiceMonitor scrapes a server, given its TLS section.           *)
GetServiceMonitorTLSConfig(tls) == IF tls.type \in {"Auto", "Provided"} THEN "https" ELSE "http"

(* ---------------------------- loki_config.go --------------------------- *)

ClientTLSOf(ca, user) ==
    [enable |-> TRUE, insecureSkipVerify |-> FALSE, caCert |-> ca, userCert |-> user]

(* LokiStack is reached with the token of the user, over TLS with the CA   *)
(* bundle of its gateway; the status page wants a client certificate too.  *)
NewLokiConfig(fc) ==
    LET loki == fc.loki
        ns == loki.lokiStack
        plain(tls) == [authToken |-> "Disabled", tls |-> tls, statusTls |-> NoTLS]
    IN  CASE loki.mode = "LokiStack" ->
               [authToken |-> "Forward",
                tls |-> ClientTLSOf(Ref("configmap", "loki-gateway-ca-bundle", ns), Nil),
                statusTls |-> ClientTLSOf(Ref("configmap", "loki-ca-bundle", ns),
                                          Ref("secret", "loki-query-frontend-http", ns))]
          [] loki.mode = "Monolithic" -> plain(IF loki.monolithic.demo = TRUE THEN NoTLS ELSE loki.monolithic.tls)
          [] loki.mode = "Microservices" -> plain(loki.microservices)
          [] OTHER -> loki.manual

UseForwardToken(loki) == loki.authToken = "Forward"
UseHostToken(loki) == loki.authToken = "Host"
=============================================================================
