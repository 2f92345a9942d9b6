------------------------------ MODULE Hostnames ------------------------------
(***************************************************************************)
(* Which hostnames a listener lets a route have (pkg/translator/envoy/     *)
(* routes.go).  A hostname is its labels and whether "*." stands in front, *)
(* so that a suffix of the string that begins with a dot is a suffix of    *)
(* the labels.                                                             *)
(***************************************************************************)
EXTENDS Sequences, SequencesExt

CONSTANT NoHostname   \* a listener without one; as a domain, "*"

Below(labels, parent) == IsStrictSuffix(parent, labels)

(* A wildcard route is also let onto a listener for the parent domain.     *)
IsHostnameSubset(route, listener) ==
  \/ route = listener
  \/ listener.wild /\ Below(route.labels, listener.labels)
  \/ /\ route.wild /\ ~listener.wild
     /\ listener.labels = route.labels \/ Below(listener.labels, route.labels)

(* Of a listener's hostname and a route's, which is a set.                 *)
IsAllowedByHostname(listener, hostnames) ==
  \/ listener = NoHostname
  \/ hostnames = {}
  \/ \E h \in hostnames : IsHostnameSubset(h, listener)

MostRestrictive(h, listener) == IF h.wild /\ ~listener.wild THEN listener ELSE h

IntersectingUnrestricted(listener, hostnames) ==   \* mutant: the route's hostname is always taken
  IF hostnames = {} THEN {listener} ELSE hostnames

(* The domains of the virtual hosts.                                       *)
IntersectingHostnames(listener, hostnames) ==
  CASE hostnames = {} -> {listener}
    [] hostnames # {} /\ listener = NoHostname -> hostnames
    [] OTHER -> {MostRestrictive(h, listener) : h \in {g \in hostnames : IsHostnameSubset(g, listener)}}
=============================================================================
