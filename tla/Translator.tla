----------------------------- MODULE Translator -----------------------------
(***************************************************************************)
(* One call of TranslateGatewayAndReferencesToXDS (pkg/translator/envoy):  *)
(* routes are matched with listeners and get their statuses; then, port by *)
(* port in any order (a Go map), listener by listener, routes are          *)
(* translated, statuses completed and filter chains built.                 *)
(***************************************************************************)
EXTENDS Hostnames, HTTPRoutes

CONSTANTS Inputs,            \* a sequence of listeners, and the HTTPRoutes in the cache
          Certificates,      \* Secrets that hold a key and a certificate chain
          GatewayNamespace,
          SelectedNamespaces,  \* those that are known and match a listener's selector
          Requests,          \* path, headers and parameters of a request, for the properties
          NoSection, NoPort

(* The names of a Gateway's listeners are the keys of a list, and no       *)
(* hostname of a route is empty.                                           *)
IsGateway(ls) == IsSeq(ls) /\ \A i, j \in DOMAIN ls : ls[i].name = ls[j].name => i = j

ASSUME InputsAssumption ==
  \A input \in Inputs :
    /\ IsGateway(input[1])
    /\ IsFiniteSet(input[2])
    /\ \A r \in input[2] : IsHTTPRoute(r) /\ NoHostname \notin r.hostnames

VARIABLES listeners, routes,  \* the input
          list,               \* the HTTPRoutes that refer to the Gateway, as listed
          pc, todo, port,
          index, next,        \* of the current listener and HTTPRoute
          attached,           \* routesByListener: listener -> routes, in the order of list
          statuses,           \* route -> its parent statuses
          listenerStatuses,   \* listener -> its status, which the call drops at the end
          vhosts,             \* of the current port: domain -> sequence of entries
          chains, clusters, backends, eds

inputs == <<listeners, routes>>
progress == <<todo, port, index, next>>
results == <<list, attached, statuses, listenerStatuses, vhosts, chains, clusters, backends, eds>>
vars == <<inputs, pc, progress, results>>

Init ==
  /\ \E input \in Inputs : listeners = input[1] /\ routes = input[2]
  /\ pc = "gather"
  /\ todo = {} /\ port = NoPort /\ index = 0 /\ next = 0
  /\ list = <<>> /\ attached = <<>> /\ statuses = <<>> /\ listenerStatuses = <<>>
  /\ vhosts = <<>> /\ chains = {} /\ clusters = {} /\ backends = {} /\ eds = {}

----------------------------------------------------------------------------
(* Which listeners a route attaches to.                                    *)

HTTPRouteKinds == {"HTTPRoute", "HTTPRoute of the core group"}

(* Nothing else is allowed: neither another value of from, nor what cannot *)
(* be selected (no selector, a malformed one, a namespace nobody knows).   *)
IsAllowedByListener(l, route) ==
  /\ \/ l.from = "All"
     \/ l.from = "Same" /\ route.ns = GatewayNamespace
     \/ l.from = "Selector" /\ route.ns \in SelectedNamespaces
  /\ l.kinds = {} \/ l.kinds \cap HTTPRouteKinds # {}

Verdict(l, route) ==
  CASE ~IsAllowedByListener(l, route) -> "NotAllowedByListeners"
    [] IsAllowedByListener(l, route) /\ ~IsAllowedByHostname(l.hostname, route.hostnames) ->
         "NoMatchingListenerHostname"
    [] OTHER -> "Accepted"

Refers(ref, l) ==
  /\ ref.section \in {NoSection, l.name}
  /\ ref.port \in {NoPort, l.port}

AcceptingFirst(ref, route) ==   \* mutant: the search ends with the first listener
  LET found == {i \in DOMAIN listeners :
                  Refers(ref, listeners[i]) /\ Verdict(listeners[i], route) = "Accepted"}
  IN  IF found = {} THEN {} ELSE {listeners[Min(found)]}

Accepting(ref, route) ==
  {l \in ToSet(listeners) : Refers(ref, l) /\ Verdict(l, route) = "Accepted"}

(* The reason is the last listener's.  ResolvedRefs has no value yet.      *)
ParentStatus(ref, route) ==
  LET referred == {i \in DOMAIN listeners : Refers(ref, listeners[i])}
  IN  [ref |-> ref,
       reason |-> CASE Accepting(ref, route) # {} -> "Accepted"
                    [] referred = {} -> "NoMatchingParent"
                    [] OTHER -> Verdict(listeners[Max(referred)], route),
       resolved |-> "unset"]

(* The parents that are the Gateway.                                       *)
Ours(route) == {i \in DOMAIN route.parents : route.parents[i].ours}

Attaches(route, l) == \E i \in Ours(route) : l \in Accepting(route.parents[i], route)

(* The lister returns its routes in any order.                             *)
Gather ==
  /\ pc = "gather"
  /\ pc' = "ports"
  /\ todo' = {l.port : l \in ToSet(listeners)}
  /\ list' \in SetToSeqs({r \in routes : Ours(r) # {}})
  /\ statuses' = [r \in ToSet(list') |->
                    [i \in Ours(r) |-> ParentStatus(r.parents[i], r)]]
  /\ attached' = [l \in ToSet(listeners) |-> {r \in ToSet(list') : Attaches(r, l)}]
  /\ UNCHANGED <<inputs, port, index, next, listenerStatuses, vhosts, chains, clusters, backends, eds>>

----------------------------------------------------------------------------
(* Which listeners are translated.                                         *)

HTTPLike == {"HTTP", "HTTPS", "TLS"}
OnPort(p) == {l \in ToSet(listeners) : l.port = p}

Conflicted(l) ==
  \/ /\ \E m \in OnPort(l.port) : m.protocol \in {"TCP", "UDP"}
     /\ \E m \in OnPort(l.port) : m.protocol \in HTTPLike
  \/ /\ l.protocol \in HTTPLike
     /\ \E m \in OnPort(l.port) \ {l} : m.protocol \in HTTPLike /\ m.hostname = l.hostname

KindsSupported(l) == l.kinds \subseteq {"HTTPRoute"}

IsValid(l) == KindsSupported(l) /\ ~Conflicted(l)

----------------------------------------------------------------------------
(* buildEnvoyListenerForPort.                                              *)

ListenersAhead == {i \in DOMAIN listeners : i >= index /\ listeners[i].port = port}
Current == listeners[Min(ListenersAhead)]
InListener == pc = "listeners" /\ ListenersAhead # {}
NextListener == Min(ListenersAhead) + 1

Translated == IsValid(Current) /\ Current.protocol \in {"HTTP", "HTTPS"}

RoutesAhead == {n \in DOMAIN list : n >= next /\ list[n] \in attached[Current]}
NextRoute == list[Min(RoutesAhead)]

CertificatesResolve(l) == l.certificates \subseteq Certificates

BeginPort ==
  /\ pc = "ports"
  /\ \E p \in todo : port' = p /\ todo' = todo \ {p}
  /\ pc' = "listeners" /\ index' = 1 /\ next' = 1
  /\ vhosts' = <<>>
  /\ UNCHANGED <<inputs, list, attached, statuses, listenerStatuses, chains, clusters, backends, eds>>

(* validateListener returns no status for an invalid listener, and the     *)
(* caller dereferences it.                                                 *)
Panic ==
  /\ InListener /\ ~IsValid(Current)
  /\ pc' = "panicked"
  /\ UNCHANGED <<inputs, progress, results>>

SetListenerStatus(programmed, count) ==
  listenerStatuses' =
    [l \in DOMAIN listenerStatuses \cup {Current} |->
       IF l = Current
       THEN [programmed |-> programmed, attachedRoutes |-> count, resolved |-> CertificatesResolve(l)]
       ELSE listenerStatuses[l]]

SkipListener ==
  /\ InListener /\ IsValid(Current) /\ ~Translated
  /\ SetListenerStatus(FALSE, 0)
  /\ index' = NextListener
  /\ UNCHANGED <<inputs, pc, todo, port, next, list, attached, statuses, vhosts, chains, clusters, backends, eds>>

CompleteReferring(route) ==     \* mutant: only the parents that refer to the listener
  [statuses EXCEPT ![route] = [i \in DOMAIN @ |->
     IF @[i].reason = "Accepted" /\ Refers(@[i].ref, Current)
     THEN [@[i] EXCEPT !.resolved = IF Resolved(route) THEN "true" ELSE "false"]
     ELSE @[i]]]

(* Every accepted parent of the route gets the condition, whichever        *)
(* listener it refers to.                                                  *)
CompleteStatuses(route) ==
  [statuses EXCEPT ![route] = [i \in DOMAIN @ |->
     IF @[i].reason = "Accepted"
     THEN [@[i] EXCEPT !.resolved = IF Resolved(route) THEN "true" ELSE "false"]
     ELSE @[i]]]

(* The virtual hosts with the entries appended to those of the domains.    *)
AddToVhosts(domains, entries) ==
  [d \in DOMAIN vhosts \cup domains |->
     (IF d \in DOMAIN vhosts THEN vhosts[d] ELSE <<>>) \o (IF d \in domains THEN entries ELSE <<>>)]

NamesOf(cs) == {c.name : c \in cs}

(* Of clusters of one name a map keeps the last.                           *)
LastOfEachName(cs) ==
  {kept \in SUBSET cs : NamesOf(kept) = NamesOf(cs) /\ \A c, d \in kept : c.name = d.name => c = d}

TranslateRoute ==
  /\ InListener /\ Translated /\ RoutesAhead # {}
  /\ ~BuildClustersFails(BackendsOf(NextRoute))
  /\ backends' = backends \cup BackendsOf(NextRoute)
  /\ statuses' = CompleteStatuses(NextRoute)
  /\ \E new \in LastOfEachName(ClustersOf(BackendsOf(NextRoute))) :
       clusters' = {c \in clusters : c.name \notin NamesOf(new)} \cup new
  /\ \E entries \in SortRoutes(Unsorted(NextRoute)) :
       vhosts' = IF entries = <<>> THEN vhosts
                 ELSE AddToVhosts(IntersectingHostnames(Current.hostname, NextRoute.hostnames), entries)
  /\ next' = Min(RoutesAhead) + 1
  /\ UNCHANGED <<inputs, pc, todo, port, index, list, attached, listenerStatuses, chains, eds>>

(* The error discards everything; the sync of the Gateway is retried.      *)
Fail ==
  /\ InListener /\ Translated /\ RoutesAhead # {}
  /\ BuildClustersFails(BackendsOf(NextRoute))
  /\ pc' = "failed"
  /\ UNCHANGED <<inputs, progress, results>>

SortedVhosts ==
  {v \in [DOMAIN vhosts -> UNION {SortRoutes(vhosts[d]) : d \in DOMAIN vhosts}] :
     \A d \in DOMAIN vhosts : v[d] \in SortRoutes(vhosts[d])}

FilterChain(l, hosts) ==
  [port |-> l.port, listener |-> l.name, vhosts |-> hosts,
   server |-> IF l.protocol = "HTTPS" THEN l.hostname ELSE NoHostname]

AttachedRoutes(l) == Cardinality({r \in attached[l] : Unsorted(r) # <<>>})

(* The virtual hosts are collected per port, so a listener's filter chain  *)
(* also gets those of the listeners before it.                             *)
FinishListener ==
  /\ InListener /\ Translated /\ RoutesAhead = {}
  /\ vhosts' \in SortedVhosts
  /\ chains' = chains \cup {FilterChain(Current, vhosts')}
  /\ SetListenerStatus(TRUE, AttachedRoutes(Current))
  /\ index' = NextListener /\ next' = 1
  /\ UNCHANGED <<inputs, pc, todo, port, list, attached, statuses, clusters, backends, eds>>

(* The chain does not serialise (a text that is not UTF-8): the listener's *)
(* status says so, and its routes still count as attached.                 *)
FailListener ==
  /\ InListener /\ Translated /\ RoutesAhead = {}
  /\ vhosts' \in SortedVhosts
  /\ SetListenerStatus(FALSE, AttachedRoutes(Current))
  /\ index' = NextListener /\ next' = 1
  /\ UNCHANGED <<inputs, pc, todo, port, list, attached, statuses, chains, clusters, backends, eds>>

EndPort ==
  /\ pc = "listeners" /\ ListenersAhead = {}
  /\ pc' = "ports"
  /\ UNCHANGED <<inputs, progress, results>>

Finish ==
  /\ pc = "ports" /\ todo = {}
  /\ pc' = "done"
  /\ eds' = BuildEds(backends)
  /\ UNCHANGED <<inputs, progress, list, attached, statuses, listenerStatuses, vhosts,
                 chains, clusters, backends>>

Next ==
  \/ Gather \/ BeginPort \/ Panic \/ SkipListener \/ TranslateRoute \/ Fail
  \/ FinishListener \/ FailListener \/ EndPort \/ Finish

Spec == Init /\ [][Next]_vars

----------------------------------------------------------------------------
(* Properties of what a call returns.                                      *)

Returned == pc = "done"
Hosted(c) ==
  UNION {{[domain |-> d, entry |-> c.vhosts[d][i]] : i \in DOMAIN c.vhosts[d]} : d \in DOMAIN c.vhosts}
Serves(c, r) == \E v \in Hosted(c) : v.entry.route = r

(* The hosts of d are among those of h.                                    *)
Inside(d, h) ==
  \/ h = NoHostname
  \/ d = h
  \/ d # NoHostname /\ h.wild /\ Below(d.labels, h.labels)

(* "example.com" for "*.example.com", which takes in only what is below.   *)
IsParentDomain(d, h) == d # NoHostname /\ h.wild /\ ~d.wild /\ d.labels = h.labels

(* The listeners of the port up to the filter chain's own.                 *)
ListenersUpTo(c) ==
  {l \in OnPort(c.port) : \E i, k \in DOMAIN listeners :
     i <= k /\ listeners[i] = l /\ listeners[k].name = c.listener}

(* A request that a route gets is one that a listener admits and the route *)
(* asks for: the route refers to the listener, its namespace is allowed    *)
(* there, and the domain it is found under lies within the listener's      *)
(* hostname and within one of the route's.  Only a route's wildcard, not a *)
(* listener's, may stand for its parent domain too (routes.go:218).  The   *)
(* listener is the filter chain's or one before it on the port: virtual    *)
(* hosts, shared by the port's listeners (translator.go:411), leak to      *)
(* later filter chains but not into those already built.                   *)
ServedWithinBoth ==
  Returned => \A c \in chains : \A v \in Hosted(c) :
    LET r == v.entry.route
    IN  /\ \E l \in ListenersUpTo(c) :
             /\ \E ref \in ToSet(r.parents) : ref.ours /\ Refers(ref, l)
             /\ IsAllowedByListener(l, r)
             /\ Inside(v.domain, l.hostname)
        /\ r.hostnames = {} \/ \E h \in r.hostnames : Inside(v.domain, h) \/ IsParentDomain(v.domain, h)

(* What the statuses tell is what Envoy does: a route without an accepted  *)
(* parent is in no filter chain, and one with an accepted parent is in the *)
(* chain of every HTTP listener that the parent refers to and that lets it *)
(* attach, unless building this chain failed (translator.go:443).          *)
StatusTellsService ==
  Returned => \A r \in DOMAIN statuses :
    LET accepted == {i \in DOMAIN statuses[r] : statuses[r][i].reason = "Accepted"}
        Promised(l) == /\ \E i \in accepted : Refers(statuses[r][i].ref, l)
                       /\ Verdict(l, r) = "Accepted" /\ l.protocol \in {"HTTP", "HTTPS"}
                       /\ listenerStatuses[l].programmed
    IN  /\ accepted = {} => \A c \in chains : ~Serves(c, r)
        /\ Entries(r) # {} => \A l \in ToSet(listeners) :
             Promised(l) => \E c \in chains : c.listener = l.name /\ Serves(c, r)

(* ResolvedRefs is True only for a route all of whose rules forward or     *)
(* redirect, and False only for one where a request can get a 500 from     *)
(* Envoy itself or a match was dropped: a later rule or listener does not  *)
(* hide what an earlier one found.                                         *)
ResolvedRefsTellsTheTruth ==
  Returned => \A r \in DOMAIN statuses, c \in chains :
    LET answered == {v.entry : v \in {v \in Hosted(c) : v.entry.route = r}}
        whole == /\ {e.branch : e \in answered} = Branches(r)
                 /\ \A e \in answered : e.type # "500"
    IN  Serves(c, r) => \A i \in DOMAIN statuses[r] :
          /\ statuses[r][i].resolved = "true" => whole
          /\ statuses[r][i].resolved = "false" => ~whole

(* A route is translated once for each listener that lets it attach, the   *)
(* ports come in the order of a Go map and the routes in the lister's:     *)
(* none of it shows in the result, except which of several clusters of one *)
(* name is kept.  The clusters and assignments are those of the routes     *)
(* that some HTTP listener lets attach, and ResolvedRefs has a value for   *)
(* exactly their accepted parents (translator.go:169, :396).               *)
Translatees ==
  {r \in routes : \E l \in ToSet(listeners) : l.protocol \in {"HTTP", "HTTPS"} /\ Attaches(r, l)}

ResultFollowsFromInput ==
  Returned =>
    LET known == UNION {BackendsOf(r) : r \in Translatees}
    IN  /\ clusters \subseteq ClustersOf(known) /\ NamesOf(clusters) = NamesOf(ClustersOf(known))
        /\ eds = BuildEds(known)
        /\ \A r \in DOMAIN statuses : \A i \in DOMAIN statuses[r] :
             statuses[r][i].resolved # "unset" <=>
               statuses[r][i].reason = "Accepted" /\ r \in Translatees

(* Envoy refuses a listener whose routes name a cluster it does not have:  *)
(* every weighted cluster is among the clusters returned, though the one   *)
(* is named from the reference's port and the other from the backend's.    *)
NoDanglingCluster ==
  Returned => \A c \in chains : \A v \in Hosted(c) :
    v.entry.clusters \subseteq NamesOf(clusters)

(* An EDS cluster stays in warming until it gets the assignment of its     *)
(* name, and a snapshot with an assignment that no cluster asks for is     *)
(* inconsistent (controlplane.go:170): there is one for each and no other, *)
(* unless a DNS cluster took the name (translator.go:405).                 *)
EdsForEveryEdsCluster ==
  Returned =>
    LET assigned == {e.cluster : e \in eds}
        discovered == NamesOf({c \in clusters : c.discovery = "EDS"})
        contested == NamesOf(ClustersOf({b \in backends : b.resolution # "EDS"}))
    IN  discovered \subseteq assigned /\ assigned \subseteq discovered \cup contested

(* The precedence of the Gateway API between two matches of one request:   *)
(* an exact path, then the longer prefix, then more headers, then more     *)
(* query parameters; and what matches everything comes last.               *)
PrefixOf(match) == IF match.type = "Unset" THEN <<>> ELSE match.path.words

MatchesAll(match) ==
  /\ match.type \in {"Unset", "PathPrefix"} /\ PrefixOf(match) = <<>>
  /\ match.headers = {} /\ match.params = {}

MoreSpecific(a, b) ==
  LET Form(m) == IF m.type = "Unset" THEN "PathPrefix" ELSE m.type
      comparable == Form(a) = Form(b) /\ Form(a) # "RegularExpression"
      conditions(m) == <<Cardinality(m.headers), Cardinality(m.params)>>
      (* The number of headers decides before that of parameters.          *)
      More(c, d) == c[1] > d[1] \/ (c[1] = d[1] /\ c[2] > d[2])
  IN  \/ Form(a) = "Exact" /\ Form(b) # "Exact"
      \/ comparable /\ Len(PrefixOf(a)) > Len(PrefixOf(b))
      \/ comparable /\ PrefixOf(a) = PrefixOf(b) /\ More(conditions(a), conditions(b))
      \/ MatchesAll(b) /\ ~MatchesAll(a)

SourceOf(e) == Source(e.route, e.branch)

(* The match was changed for the sake of a new prefix (httproute.go:179).  *)
Lengthened(e) == e.match # TranslateMatch(SourceOf(e))

(* The request is answered by the most specific of the matches in its      *)
(* virtual host, whichever routes, rules and listeners they come from: the *)
(* precedence of sortRoutes, applied to each route and again to the whole  *)
(* virtual host (httproute.go:203, translator.go:432).  Only a rule with a *)
(* new prefix may precede one that has the same prefix and more conditions.*)
MostSpecificFirst ==
  Returned => \A c \in chains : \A d \in DOMAIN c.vhosts : \A q \in Requests :
    LET s == c.vhosts[d]
    IN  \A i \in Answering(s, q) : \A j \in DOMAIN s :
          MatchesRequest(s[j].match, q) /\ MoreSpecific(SourceOf(s[j]), SourceOf(s[i]))
            => Lengthened(s[i]) /\ PrefixOf(SourceOf(s[i])) = PrefixOf(SourceOf(s[j]))

(* "If all else is equal, maintain original order (stable sort)"           *)
(* (httproute.go:787): of the equal matches of one HTTPRoute the first     *)
(* rule's answers, as long as the virtual host is short enough.            *)
RuleOrderKept ==
  Returned => \A c \in chains : \A d \in DOMAIN c.vhosts : \A q \in Requests :
    LET s == c.vhosts[d]
    IN  Len(s) <= StableUpTo => \A i \in Answering(s, q) :
          ~\E j \in DOMAIN s :
             /\ s[j].route = s[i].route /\ Earlier(s[j].branch, s[i].branch)
             /\ Key(s[j].match) = Key(s[i].match) /\ MatchesRequest(s[j].match, q)

(* "... causing double-slash issues" (httproute.go:174): no request leaves *)
(* Envoy with a path in which the new prefix and the rest both bring a     *)
(* slash.  What follows the old prefix begins with one if Envoy matched it *)
(* without the separator.                                                  *)
NoDoubleSlash ==
  Returned => \A c \in chains : \A d \in DOMAIN c.vhosts : \A q \in Requests :
    LET s == c.vhosts[d]
    IN  \A i \in Answering(s, q) :
          /\ s[i].rewrite # NoRewrite /\ s[i].rewrite.modifier = "ReplacePrefixMatch"
          /\ s[i].rewrite.to.slash
          => ~(s[i].match.kind = "separated" /\ q.path # s[i].match.path)

(* "If the listener is conflicted set its status and skip Envoy config     *)
(* generation" (translator.go:534): the call returns.                      *)
NeverPanics == pc # "panicked"

(* "Supports FQDN and Kubernetes Service backends" (README.md:12): Envoy   *)
(* gets the ready endpoints of the Service that a backend stands for.      *)
EndpointsReachEnvoy ==
  Returned => \A b \in {b \in backends : b.resolution = "EDS"} : \A n \in Numbers(b) :
    \E e \in eds : e.cluster = FullName(b, n) /\ Endpoints[<<b.ns, b.host>>] \subseteq e.endpoints
=============================================================================
