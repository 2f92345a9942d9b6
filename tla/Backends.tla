------------------------------ MODULE Backends ------------------------------
(***************************************************************************)
(* From the backendRefs of a rule to weighted clusters, Envoy clusters and *)
(* endpoints (pkg/translator/envoy/httproute.go and helpers.go).           *)
(*                                                                         *)
(* A name is a sequence of words, which the string joins with "-".  So two *)
(* backends can share a cluster's name: a Service and a destination whose  *)
(* name begins with "synsvc".  Namespace, name and port are kept apart: it *)
(* is left out that the joined string confuses them.  Of the TLS settings  *)
(* of a port only the Secrets it needs are kept.                           *)
(***************************************************************************)
EXTENDS Integers, Sequences

CONSTANTS Unresolved,    \* no such backend
          Services,      \* <<namespace, name>> -> number of a port -> its target's number
          Destinations,  \* XBackendDestination <<namespace, name>> -> [type, host, secrets]
          Endpoints,     \* <<namespace, Service>> -> ready addresses, in EndpointSlices
          Secrets        \* those that exist and hold the keys needed

Ref(ref) == <<ref.ns, ref.name>>

(* Ports whose target is a name are not in Services (they are skipped).    *)
FetchBackend(ref) ==
  CASE ref.kind = "Service" /\ Ref(ref) \in DOMAIN Services ->
         [kind |-> "Service", ns |-> ref.ns, name |-> ref.name, host |-> ref.name,
          ports |-> Services[Ref(ref)],
          secrets |-> [n \in {Services[Ref(ref)][p] : p \in DOMAIN Services[Ref(ref)]} |-> {}],
          resolution |-> "EDS"]
    [] /\ ref.kind = "Backend" /\ Ref(ref) \in DOMAIN Destinations
       /\ Destinations[Ref(ref)].type \in {"FQDN", "Service"} ->
         LET d == Destinations[Ref(ref)]
         IN  [kind |-> "Backend", ns |-> ref.ns, name |-> ref.name, host |-> d.host,
              ports |-> [p \in DOMAIN d.secrets |-> p],
              secrets |-> d.secrets,
              resolution |-> IF d.type = "FQDN" THEN "DNS" ELSE "EDS"]
    [] OTHER -> Unresolved

Numbers(b) == {b.ports[p] : p \in DOMAIN b.ports}

(* ClusterName, and ClusterNameFormat around it.                           *)
ClusterName(b) == IF b.kind = "Service" THEN <<"synsvc">> \o b.name ELSE b.name

FullName(b, number) == [ns |-> b.ns, name |-> ClusterName(b), port |-> number]

FrontendPort(b, port) == port   \* mutant: traffic goes to the Service's port

TargetPort(b, port) == b.ports[port]

(* buildHTTPRouteAction: one reference that fails fails the whole rule.    *)
(* The port of a reference of weight 0 is not looked at.                   *)
RefFails(ref) ==
  \/ FetchBackend(ref) = Unresolved
  \/ ref.weight # 0 /\ ref.port \notin DOMAIN FetchBackend(ref).ports

ActionFails(refs) ==
  \/ \E ref \in refs : RefFails(ref)
  \/ \A ref \in refs : ref.weight = 0

WeightedClusters(refs) ==
  LET Target(ref) == TargetPort(FetchBackend(ref), ref.port)
  IN  {FullName(FetchBackend(ref), Target(ref)) : ref \in {r \in refs : r.weight # 0}}

ValidBackends(refs) == {FetchBackend(ref) : ref \in refs}

(* The CA bundles and the client certificate that a port's TLS needs.      *)
TLSContextFails(b, number) == ~(b.secrets[number] \subseteq Secrets)

(* buildClustersFromBackends: one backend without ports, or with a port    *)
(* whose Secrets do not resolve, fails the translation of the Gateway.     *)
BuildClustersFails(backends) ==
  \E b \in backends :
    DOMAIN b.ports = {} \/ \E n \in Numbers(b) : TLSContextFails(b, n)

ClustersOf(backends) ==
  UNION {{[name |-> FullName(b, n), discovery |-> b.resolution] : n \in Numbers(b)} : b \in backends}

EdsOfFrontend(b) ==      \* mutant: one assignment for each port of the Service
  {[cluster |-> FullName(b, p), endpoints |-> {}] : p \in DOMAIN b.ports}

(* The EndpointSlices are selected by the cluster's name for the backend.  *)
EdsOf(b) ==
  LET service == <<b.ns, ClusterName(b)>>
      ready == IF service \in DOMAIN Endpoints THEN Endpoints[service] ELSE {}
  IN  {[cluster |-> FullName(b, n), endpoints |-> ready] : n \in Numbers(b)}

BuildEds(backends) == UNION {EdsOf(b) : b \in {b \in backends : b.resolution = "EDS"}}
=============================================================================
