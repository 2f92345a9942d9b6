-------------------------- MODULE TranslatorProofs --------------------------
(***************************************************************************)
(* What one translation of a Gateway returns, for every Gateway, any       *)
(* HTTPRoutes and backends, and any order of ports and routes: each of the *)
(* properties of Translator, from one inductive invariant.                 *)
(***************************************************************************)
EXTENDS Translator, RouteProofs

----------------------------------------------------------------------------
(* The inductive invariant.                                                *)

InputSound ==
  /\ IsGateway(listeners)
  /\ IsFiniteSet(routes)
  /\ \A r \in routes : IsHTTPRoute(r) /\ NoHostname \notin r.hostnames

ControlSound ==
  /\ pc \in {"gather", "ports", "listeners", "done", "panicked", "failed"}
  /\ index \in Nat /\ next \in Nat
  /\ pc = "gather" => chains = {} /\ clusters = {} /\ backends = {}
  /\ pc = "done" => todo = {}

(* After Gather, and unless the call failed.                               *)
Running == pc \in {"ports", "listeners", "done"}

Gathered ==
  /\ IsSeq(list) /\ ToSet(list) = {r \in routes : Ours(r) # {}}
  /\ attached = [l \in ToSet(listeners) |-> {r \in ToSet(list) : Attaches(r, l)}]

(* ResolvedRefs tells the truth or has no value yet.                       *)
ConditionOf(r) == IF Resolved(r) THEN "true" ELSE "false"

StatusesSound ==
  /\ DOMAIN statuses = ToSet(list)
  /\ \A r \in ToSet(list) :
       /\ DOMAIN statuses[r] = Ours(r)
       /\ \A i \in Ours(r) : \E v \in {"unset", ConditionOf(r)} :
            statuses[r][i] = [ParentStatus(r.parents[i], r) EXCEPT !.resolved = v]

(* A route is under the domain because one of the listeners lets it, all   *)
(* of its entries are, and its backends are among the known ones.          *)
Rightful(r, d, ls) ==
  \E l \in ls \cap ToSet(listeners) :
    r \in attached[l] /\ d \in IntersectingHostnames(l.hostname, r.hostnames)

HostSound(s, d, ls, known) ==
  /\ IsSeq(s)
  /\ \A i \in DOMAIN s :
       LET r == s[i].route
       IN  /\ s[i] \in Entries(r) /\ Entries(r) \subseteq ToSet(s)
           /\ Rightful(r, d, ls)
           /\ BackendsOf(r) \subseteq known
  /\ Len(s) <= StableUpTo => InRuleOrder(s)

HostsSound(v, ls, known) == \A d \in DOMAIN v : HostSound(v[d], d, ls, known)

(* The listeners of the port up to the current one.                        *)
Reached ==
  {listeners[i] : i \in {i \in DOMAIN listeners :
     listeners[i].port = port /\ \A j \in ListenersAhead : i <= j}}

IsHTTP(l) == l.protocol \in {"HTTP", "HTTPS"}

ChainSound(c) ==
  /\ HostsSound(c.vhosts, ListenersUpTo(c), backends)
  /\ \A d \in DOMAIN c.vhosts : InPrecedence(c.vhosts[d])
  /\ \E l \in ToSet(listeners) : l.name = c.listener /\ IsHTTP(l)

ResourcesSound ==
  /\ clusters \subseteq ClustersOf(backends) /\ NamesOf(clusters) = NamesOf(ClustersOf(backends))
  /\ pc = "done" => eds = BuildEds(backends)

Found(v, r) == \E d \in DOMAIN v : \E i \in DOMAIN v[d] : v[d][i].route = r

(* The listeners behind the loop over ports and listeners, and what there  *)
(* is of each.                                                             *)
Behind(i) ==
  /\ listeners[i].port \notin todo
  /\ pc = "listeners" /\ port = listeners[i].port => i < index

Built(l) ==
  /\ l \in DOMAIN listenerStatuses
  /\ listenerStatuses[l].programmed =>
       \E c \in chains : /\ c.listener = l.name
                         /\ \A r \in attached[l] : Entries(r) # {} => Found(c.vhosts, r)

(* The routes behind the loop over those of the current listener.          *)
RoutesBuilt ==
  /\ HostsSound(vhosts, Reached, backends)
  /\ next # 1 => InListener /\ Translated
  /\ \A n \in DOMAIN list :
       n < next /\ list[n] \in attached[Current] /\ Entries(list[n]) # {} => Found(vhosts, list[n])

TranslationSound ==
  /\ Gathered /\ StatusesSound /\ ResourcesSound
  /\ \A c \in chains : ChainSound(c)
  /\ \A i \in DOMAIN listeners : Behind(i) => Built(listeners[i])
  /\ pc = "listeners" => RoutesBuilt

IInv == InputSound /\ ControlSound /\ (Running => TranslationSound)

----------------------------------------------------------------------------
(* What the parts of the invariant depend on.                              *)

LEMMA InputKept ==
  ASSUME InputSound, UNCHANGED inputs
  PROVE  InputSound'
BY DEF InputSound, inputs

LEMMA InitSound == Init => IInv
<1> SUFFICES ASSUME Init PROVE IInv
  OBVIOUS
<1>1. InputSound
  BY InputsAssumption DEF Init, InputSound
<1>2. ControlSound /\ ~Running
  BY DEF Init, ControlSound, Running
<1> QED
  BY <1>1, <1>2 DEF IInv

LEMMA AttachesKept ==
  ASSUME UNCHANGED listeners
  PROVE  /\ \A r, l : Attaches(r, l)' = Attaches(r, l)
         /\ \A ref, r : ParentStatus(ref, r)' = ParentStatus(ref, r)
BY DEF Attaches, Accepting, ParentStatus

LEMMA GatheredKept ==
  ASSUME Gathered, UNCHANGED <<inputs, list, attached>>
  PROVE  Gathered'
<1>1. listeners' = listeners /\ routes' = routes
  BY DEF inputs
<1>2. \A r, l : Attaches(r, l)' = Attaches(r, l)
  BY <1>1, AttachesKept
<1> QED
  BY <1>1, <1>2 DEF Gathered

LEMMA StatusesKept ==
  ASSUME StatusesSound, UNCHANGED <<inputs, list, statuses>>
  PROVE  StatusesSound'
<1>1. listeners' = listeners
  BY DEF inputs
<1>2. \A ref, r : ParentStatus(ref, r)' = ParentStatus(ref, r)
  BY <1>1, AttachesKept
<1> QED
  BY <1>2 DEF StatusesSound

LEMMA HostsKept ==
  ASSUME NEW v, NEW ls, NEW ms, NEW k, NEW n, HostsSound(v, ls, k), ls \subseteq ms, k \subseteq n,
         UNCHANGED <<listeners, attached>>
  PROVE  HostsSound(v, ms, n) /\ HostsSound(v, ms, n)'
<1>1. \A r, d : Rightful(r, d, ls) => Rightful(r, d, ms) /\ Rightful(r, d, ms)'
  BY DEF Rightful
<1> QED
  BY <1>1 DEF HostsSound, HostSound

LEMMA ChainKept ==
  ASSUME NEW c, ChainSound(c), UNCHANGED <<listeners, attached>>, backends \subseteq backends'
  PROVE  ChainSound(c)'
<1>1. HostsSound(c.vhosts, ListenersUpTo(c), backends)'
  <2>1. ListenersUpTo(c)' = ListenersUpTo(c)
    BY DEF ListenersUpTo, OnPort
  <2> QED
    BY <2>1, HostsKept DEF ChainSound
<1> QED
  BY <1>1 DEF ChainSound

LEMMA BuiltKept ==
  ASSUME NEW l, Built(l), UNCHANGED attached, chains \subseteq chains',
         l \in DOMAIN listenerStatuses', listenerStatuses'[l] = listenerStatuses[l]
  PROVE  Built(l)'
BY DEF Built

(* A step of the loops themselves.                                         *)
LEMMA ResultsKept ==
  ASSUME TranslationSound, pc' # "done",
         UNCHANGED <<inputs, list, attached, statuses, chains, clusters, backends>>
  PROVE  /\ Gathered' /\ StatusesSound' /\ ResourcesSound'
         /\ \A c \in chains' : ChainSound(c)'
<1>1. Gathered' /\ StatusesSound'
  BY GatheredKept, StatusesKept DEF TranslationSound
<1>2. ResourcesSound'
  BY DEF TranslationSound, ResourcesSound
<1>3. \A c \in chains' : ChainSound(c)'
  BY ChainKept DEF TranslationSound, inputs
<1> QED
  BY <1>1, <1>2, <1>3

LEMMA CurrentKept ==
  ASSUME UNCHANGED <<inputs, pc, index, port>>
  PROVE  /\ ListenersAhead' = ListenersAhead /\ Current' = Current
         /\ InListener' = InListener /\ Translated' = Translated /\ Reached' = Reached
<1>1. listeners' = listeners
  BY DEF inputs
<1>2. ListenersAhead' = ListenersAhead
  BY <1>1 DEF ListenersAhead
<1>3. Current' = Current
  BY <1>1, <1>2 DEF Current
<1>4. InListener' = InListener
  BY <1>2 DEF InListener
<1>5. Translated' = Translated
  BY <1>1, <1>3 DEF Translated, IsValid, Conflicted, OnPort
<1>6. Reached' = Reached
  BY <1>1, <1>2 DEF Reached
<1> QED
  BY <1>2, <1>3, <1>4, <1>5, <1>6

----------------------------------------------------------------------------
(* The loops.                                                              *)

LEMMA ListenerFacts ==
  ASSUME InputSound
  PROVE  /\ DOMAIN listeners \subseteq Nat /\ DOMAIN listeners \subseteq Int
         /\ IsFiniteSet(DOMAIN listeners)
         /\ \A i \in DOMAIN listeners : listeners[i] \in ToSet(listeners)
         /\ \A i, j \in DOMAIN listeners : listeners[i].name = listeners[j].name => i = j
         /\ \A l \in ToSet(listeners) : \E i \in DOMAIN listeners : listeners[i] = l
BY SeqFacts DEF InputSound, IsGateway, ToSet

LEMMA CurrentListener ==
  ASSUME InputSound, index \in Nat, ListenersAhead # {}
  PROVE  LET m == Min(ListenersAhead)
         IN  /\ m \in DOMAIN listeners /\ m >= index /\ Current = listeners[m]
             /\ Current.port = port /\ Current \in ToSet(listeners)
             /\ m \in ListenersAhead /\ Current \in Reached
             /\ NextListener \in Nat /\ NextListener = m + 1
             /\ \A i \in DOMAIN listeners :
                  listeners[i].port = port => (i < NextListener <=> (i < index \/ i = m))
<1> DEFINE m == Min(ListenersAhead)
<1>1. ListenersAhead \subseteq DOMAIN listeners
  BY DEF ListenersAhead
<1>2. ListenersAhead \in SUBSET Int /\ IsFiniteSet(ListenersAhead)
  BY <1>1, ListenerFacts, FS_Subset
<1>3. m \in ListenersAhead /\ \A i \in ListenersAhead : m <= i
  BY <1>2, MinMax
<1>4. m \in DOMAIN listeners /\ m >= index /\ listeners[m].port = port
  BY <1>3 DEF ListenersAhead
<1>5. m \in Nat
  BY <1>4, ListenerFacts
<1>6. ASSUME NEW i \in DOMAIN listeners, listeners[i].port = port
      PROVE  i < m + 1 <=> (i < index \/ i = m)
  <2>1. i \in Nat
    BY ListenerFacts
  <2>2. i >= index => m <= i
    BY <1>3, <1>6 DEF ListenersAhead
  <2> QED
    BY <1>4, <1>5, <2>1, <2>2
<1>7. Current \in Reached
  BY <1>3, <1>4 DEF Current, Reached
<1> QED
  BY <1>3, <1>4, <1>5, <1>6, <1>7, ListenerFacts DEF Current, NextListener

LEMMA ReachedGrows ==
  ASSUME InputSound, index \in Nat, index' \in Nat, index <= index', UNCHANGED <<listeners, port>>
  PROVE  Reached \subseteq Reached'
<1>1. ListenersAhead' \subseteq ListenersAhead
  BY ListenerFacts DEF ListenersAhead
<1> QED
  BY <1>1 DEF Reached

LEMMA CurrentRoute ==
  ASSUME Gathered, next \in Nat, RoutesAhead # {}
  PROVE  LET m == Min(RoutesAhead)
         IN  /\ m \in DOMAIN list /\ NextRoute = list[m] /\ m \in Nat
             /\ NextRoute \in attached[Current]
             /\ \A n \in DOMAIN list :
                  n < m + 1 /\ list[n] \in attached[Current] => n < next \/ n = m
<1> DEFINE m == Min(RoutesAhead)
<1>1. IsFiniteSet(DOMAIN list) /\ DOMAIN list \subseteq Nat
  BY SeqFacts DEF Gathered
<1>2. RoutesAhead \subseteq DOMAIN list
  BY DEF RoutesAhead
<1>3. RoutesAhead \in SUBSET Int /\ IsFiniteSet(RoutesAhead)
  BY <1>1, <1>2, FS_Subset
<1>4. m \in RoutesAhead /\ \A n \in RoutesAhead : m <= n
  BY <1>3, MinMax
<1>5. m \in DOMAIN list /\ list[m] \in attached[Current] /\ m \in Nat
  BY <1>1, <1>4 DEF RoutesAhead
<1>6. ASSUME NEW n \in DOMAIN list, n < m + 1, list[n] \in attached[Current]
      PROVE  n < next \/ n = m
  <2>1. n \in Nat
    BY <1>1
  <2>2. n >= next => m <= n
    BY <1>4, <1>6 DEF RoutesAhead
  <2> QED
    BY <1>5, <1>6, <2>1, <2>2
<1> QED
  BY <1>5, <1>6 DEF NextRoute

(* A route attached to a listener is one of the Gateway's.                 *)
LEMMA AttachedRoute ==
  ASSUME InputSound, Gathered, NEW l \in ToSet(listeners), NEW r \in attached[l]
  PROVE  /\ r \in ToSet(list) /\ r \in routes /\ IsHTTPRoute(r) /\ NoHostname \notin r.hostnames
         /\ Attaches(r, l)
BY DEF InputSound, Gathered

LEMMA RightfulRoute ==
  ASSUME InputSound, Gathered, NEW s, NEW d, NEW ls, NEW k, HostSound(s, d, ls, k), NEW i \in DOMAIN s
  PROVE  LET r == s[i].route
         IN  /\ r \in ToSet(list) /\ IsHTTPRoute(r) /\ NoHostname \notin r.hostnames
             /\ s[i] \in Entries(r) /\ Entries(r) \subseteq ToSet(s)
             /\ IsMatch(s[i].match)
<1> DEFINE r == s[i].route
<1>1. s[i] \in Entries(r) /\ Entries(r) \subseteq ToSet(s) /\ Rightful(r, d, ls)
  BY DEF HostSound
<1>2. PICK l \in ToSet(listeners) : r \in attached[l]
  BY <1>1 DEF Rightful
<1>3. r \in ToSet(list) /\ IsHTTPRoute(r) /\ NoHostname \notin r.hostnames
  BY <1>2, AttachedRoute
<1>4. IsMatch(s[i].match)
  BY <1>1, <1>3, EntrySound
<1> QED
  BY <1>1, <1>3, <1>4

LEMMA HostIsSlice ==
  ASSUME InputSound, Gathered, NEW s, NEW d, NEW ls, NEW k, HostSound(s, d, ls, k)
  PROVE  IsSlice(s) /\ IsSeq(s)
<1>1. \A i \in DOMAIN s : IsMatch(s[i].match)
  BY RightfulRoute
<1>2. IsSeq(s)
  BY DEF HostSound
<1>3. Len(s) \in Nat /\ DOMAIN s = 1..Len(s)
  BY <1>2, SeqFacts
<1> QED
  BY <1>1, <1>2, <1>3 DEF IsSlice

----------------------------------------------------------------------------
(* One lemma for each action.                                              *)

LEMMA ListOfSet ==
  ASSUME NEW S, IsFiniteSet(S), NEW f \in SetToSeqs(S)
  PROVE  IsSeq(f) /\ ToSet(f) = S
<1> DEFINE N == 1..Cardinality(S)
<1>1. f \in [N -> S] /\ \A i, j \in N : i # j => f[i] # f[j]
  BY DEF SetToSeqs
<1>2. f \in Injection(N, S)
  BY <1>1 DEF Injection, IsInjective
<1>3. Cardinality(S) \in Nat
  BY FS_CardinalityType
<1>4. IsFiniteSet(N) /\ Cardinality(N) = Cardinality(S)
  BY <1>3, FS_Interval
<1>5. f \in Surjection(N, S)
  BY <1>2, <1>4, FS_Injection
<1>6. ToSet(f) = S
  BY <1>1, <1>5 DEF Surjection, ToSet
<1>7. f \in Seq(S)
  BY <1>1, <1>3, FunctionIsSeq
<1> QED
  BY <1>6, <1>7 DEF IsSeq

LEMMA GatherSound == IInv /\ Gather => IInv'
<1> SUFFICES ASSUME IInv, Gather PROVE IInv'
  OBVIOUS
<1> DEFINE S == {r \in routes : Ours(r) # {}}
<1>1. InputSound' /\ UNCHANGED <<inputs, index, next, vhosts, chains, clusters, backends>>
  BY InputKept DEF IInv, Gather
<1>2. pc = "gather" /\ pc' = "ports" /\ chains = {} /\ clusters = {} /\ backends = {}
  BY DEF IInv, Gather, ControlSound
<1>3. listeners' = listeners /\ routes' = routes
  BY <1>1 DEF inputs
<1>4. ControlSound'
  BY <1>1, <1>2 DEF IInv, ControlSound
<1>5. IsSeq(list') /\ ToSet(list') = S
  <2>1. IsFiniteSet(S)
    BY FS_Subset DEF IInv, InputSound
  <2> QED
    BY <2>1, ListOfSet DEF Gather
<1>6. Gathered'
  <2>1. \A r, l : Attaches(r, l)' = Attaches(r, l)
    BY <1>3, AttachesKept
  <2>2. attached' = [l \in ToSet(listeners) |-> {r \in ToSet(list') : Attaches(r, l)}]
    BY DEF Gather
  <2> QED
    BY <1>3, <1>5, <2>1, <2>2 DEF Gathered
<1>7. StatusesSound'
  <2>1. \A ref, r : ParentStatus(ref, r)' = ParentStatus(ref, r)
    BY <1>3, AttachesKept
  <2>2. statuses' = [r \in ToSet(list') |-> [i \in Ours(r) |-> ParentStatus(r.parents[i], r)]]
    BY DEF Gather
  <2>3. \A ref, r : ParentStatus(ref, r) = [ParentStatus(ref, r) EXCEPT !.resolved = "unset"]
    BY DEF ParentStatus
  <2> QED
    BY <2>1, <2>2, <2>3 DEF StatusesSound
<1>8. ResourcesSound' /\ \A c \in chains' : ChainSound(c)'
  BY <1>1, <1>2 DEF ResourcesSound, ClustersOf, NamesOf
<1>9. \A i \in DOMAIN listeners' : ~Behind(i)'
  <2>1. \A i \in DOMAIN listeners : listeners[i].port \in todo'
    BY DEF Gather, ToSet
  <2> QED
    BY <1>3, <2>1 DEF Behind
<1> QED
  BY <1>1, <1>2, <1>4, <1>6, <1>7, <1>8, <1>9 DEF IInv, TranslationSound

LEMMA BeginPortSound == IInv /\ BeginPort => IInv'
<1> SUFFICES ASSUME IInv, BeginPort PROVE IInv'
  OBVIOUS
<1>1. /\ UNCHANGED <<inputs, list, attached, statuses, listenerStatuses, chains, clusters, backends>>
      /\ pc = "ports" /\ pc' = "listeners" /\ index' = 1 /\ next' = 1 /\ vhosts' = <<>>
  BY DEF BeginPort
<1>2. InputSound' /\ listeners' = listeners
  BY <1>1, InputKept DEF IInv, inputs
<1>3. ControlSound'
  BY <1>1 DEF ControlSound
<1>4. TranslationSound
  BY <1>1 DEF IInv, Running
<1>5. /\ Gathered' /\ StatusesSound' /\ ResourcesSound'
      /\ \A c \in chains' : ChainSound(c)'
  BY <1>1, <1>4, ResultsKept
<1>6. ASSUME NEW i \in DOMAIN listeners', Behind(i)'
      PROVE  Built(listeners[i])'
  <2>1. PICK p \in todo : port' = p /\ todo' = todo \ {p}
    BY DEF BeginPort
  <2>2. i \in DOMAIN listeners /\ i \in Nat /\ i >= 1
    BY <1>2, SeqFacts DEF IInv, InputSound, IsGateway
  <2>3. listeners[i].port # p /\ listeners[i].port \notin todo
    BY <1>1, <1>2, <1>6, <2>1, <2>2 DEF Behind
  <2>4. Built(listeners[i])
    BY <1>1, <1>4, <2>2, <2>3 DEF Behind, TranslationSound
  <2> QED
    BY <1>1, <1>2, <2>4, BuiltKept DEF Built
<1>7. RoutesBuilt'
  <2>1. HostsSound(vhosts, Reached, backends)'
    BY <1>1 DEF HostsSound
  <2>2. \A n \in DOMAIN list' : n \in Nat /\ n >= 1
    BY <1>5, SeqFacts DEF Gathered
  <2> QED
    BY <1>1, <2>1, <2>2 DEF RoutesBuilt
<1> QED
  BY <1>2, <1>3, <1>5, <1>6, <1>7 DEF IInv, TranslationSound

LEMMA ListenerStatusSet ==
  ASSUME NEW b, NEW n, SetListenerStatus(b, n)
  PROVE  /\ DOMAIN listenerStatuses' = DOMAIN listenerStatuses \cup {Current}
         /\ listenerStatuses'[Current].programmed = b
         /\ \A l \in DOMAIN listenerStatuses \ {Current} : listenerStatuses'[l] = listenerStatuses[l]
BY DEF SetListenerStatus

(* The loop over the listeners of a port goes on after the current one.    *)
LEMMA BehindGrows ==
  ASSUME InputSound, ControlSound, InListener, UNCHANGED <<inputs, pc, todo, port>>, index' = NextListener,
         NEW i \in DOMAIN listeners, Behind(i)'
  PROVE  Behind(i) \/ listeners[i] = Current
<1>1. pc = "listeners" /\ ListenersAhead # {} /\ index \in Nat /\ listeners' = listeners
  BY DEF InListener, ControlSound, inputs
<1>2. CASE listeners[i].port = port
  BY <1>1, <1>2, CurrentListener DEF Behind
<1>3. CASE listeners[i].port # port
  BY <1>1, <1>3 DEF Behind
<1> QED
  BY <1>2, <1>3

LEMMA SkipListenerSound == IInv /\ SkipListener => IInv'
<1> SUFFICES ASSUME IInv, SkipListener PROVE IInv'
  OBVIOUS
<1>1. /\ UNCHANGED <<inputs, pc, todo, port, next, list, attached, statuses, vhosts, chains, clusters, backends>>
      /\ InListener /\ IsValid(Current) /\ ~Translated
      /\ SetListenerStatus(FALSE, 0) /\ index' = NextListener
  BY DEF SkipListener
<1>2. InputSound' /\ listeners' = listeners /\ InputSound /\ ControlSound
  BY <1>1, InputKept DEF IInv, inputs
<1>3. pc = "listeners" /\ ListenersAhead # {} /\ index \in Nat
  BY <1>1, <1>2 DEF InListener, ControlSound
<1>4. ControlSound'
  BY <1>1, <1>2, <1>3, CurrentListener DEF ControlSound
<1>5. TranslationSound
  BY <1>3 DEF IInv, Running
<1>6. /\ Gathered' /\ StatusesSound' /\ ResourcesSound'
      /\ \A c \in chains' : ChainSound(c)'
  BY <1>1, <1>3, <1>5, ResultsKept
<1>8. ASSUME NEW i \in DOMAIN listeners', Behind(i)'
      PROVE  Built(listeners[i])'
  <2>1. CASE listeners[i] = Current
    BY <1>1, <1>2, <2>1, ListenerStatusSet DEF Built
  <2>2. CASE listeners[i] # Current
    <3>1. Built(listeners[i])
      BY <1>1, <1>2, <1>5, <1>8, <2>2, BehindGrows DEF TranslationSound
    <3>2. /\ listeners[i] \in DOMAIN listenerStatuses'
          /\ listenerStatuses'[listeners[i]] = listenerStatuses[listeners[i]]
      BY <1>1, <2>2, <3>1, ListenerStatusSet DEF Built
    <3> QED
      BY <1>1, <1>2, <3>1, <3>2, BuiltKept
  <2> QED
    BY <2>1, <2>2
<1>9. RoutesBuilt'
  <2>1. HostsSound(vhosts, Reached, backends) /\ next = 1
    BY <1>1, <1>3, <1>5 DEF TranslationSound, RoutesBuilt
  <2>2. HostsSound(vhosts, Reached, backends)'
    <3>1. NextListener \in Nat /\ NextListener >= index
      BY <1>2, <1>3, CurrentListener, ListenerFacts
    <3>2. Reached \subseteq Reached'
      BY <1>1, <1>2, <1>3, <3>1, ReachedGrows
    <3> QED
      BY <1>1, <1>2, <2>1, <3>2, HostsKept
  <2>3. \A n \in DOMAIN list' : n \in Nat /\ n >= 1
    BY <1>6, SeqFacts DEF Gathered
  <2> QED
    BY <1>1, <2>1, <2>2, <2>3 DEF RoutesBuilt
<1> QED
  BY <1>2, <1>4, <1>6, <1>8, <1>9 DEF IInv, TranslationSound

LEMMA EndPortSound == IInv /\ EndPort => IInv'
<1> SUFFICES ASSUME IInv, EndPort PROVE IInv'
  OBVIOUS
<1>1. /\ UNCHANGED <<inputs, progress, results>>
      /\ pc = "listeners" /\ pc' = "ports" /\ ListenersAhead = {}
  BY DEF EndPort
<1>2. /\ UNCHANGED <<todo, port, index, next, list, attached, statuses, listenerStatuses, vhosts,
                     chains, clusters, backends>>
      /\ InputSound' /\ listeners' = listeners /\ InputSound /\ ControlSound
  BY <1>1, InputKept DEF IInv, inputs, progress, results
<1>3. ControlSound'
  BY <1>1, <1>2 DEF ControlSound
<1>4. TranslationSound
  BY <1>1 DEF IInv, Running
<1>5. /\ Gathered' /\ StatusesSound' /\ ResourcesSound'
      /\ \A c \in chains' : ChainSound(c)'
  BY <1>1, <1>2, <1>4, ResultsKept
<1>6. ASSUME NEW i \in DOMAIN listeners', Behind(i)'
      PROVE  Built(listeners[i])'
  <2>1. i \in DOMAIN listeners /\ i \in Nat /\ index \in Nat
    BY <1>2, ListenerFacts DEF ControlSound
  <2>2. listeners[i].port = port => i < index
    BY <1>1, <2>1 DEF ListenersAhead
  <2>3. Behind(i)
    BY <1>2, <1>6, <2>2 DEF Behind
  <2> QED
    BY <1>2, <1>4, <2>1, <2>3, BuiltKept DEF TranslationSound, Built
<1> QED
  BY <1>1, <1>2, <1>3, <1>5, <1>6 DEF IInv, TranslationSound

LEMMA FinishSound == IInv /\ Finish => IInv'
<1> SUFFICES ASSUME IInv, Finish PROVE IInv'
  OBVIOUS
<1>1. /\ UNCHANGED <<inputs, progress, list, attached, statuses, listenerStatuses, chains, clusters, backends>>
      /\ pc = "ports" /\ pc' = "done" /\ todo = {} /\ eds' = BuildEds(backends)
  BY DEF Finish
<1>2. /\ UNCHANGED <<todo, port, index, next>>
      /\ InputSound' /\ listeners' = listeners
  BY <1>1, InputKept DEF IInv, inputs, progress
<1>3. ControlSound'
  BY <1>1, <1>2 DEF ControlSound, IInv
<1>4. TranslationSound
  BY <1>1 DEF IInv, Running
<1>5. Gathered' /\ StatusesSound' /\ \A c \in chains' : ChainSound(c)'
  BY <1>1, <1>2, <1>4, GatheredKept, StatusesKept, ChainKept DEF TranslationSound
<1>6. ResourcesSound'
  BY <1>1, <1>4 DEF ResourcesSound, TranslationSound
<1>7. ASSUME NEW i \in DOMAIN listeners'
      PROVE  Built(listeners[i])'
  <2>1. Behind(i)
    BY <1>1 DEF Behind
  <2> QED
    BY <1>1, <1>2, <1>4, <2>1, BuiltKept DEF TranslationSound, Built
<1> QED
  BY <1>1, <1>2, <1>3, <1>5, <1>6, <1>7 DEF IInv, TranslationSound

(* A virtual host to which a route's entries are appended.                 *)
LEMMA AppendedHost ==
  ASSUME NEW s, NEW t, NEW d, NEW ls, NEW k, NEW r, HostSound(s, d, ls, k), IsHTTPRoute(r),
         t \in SortRoutes(Unsorted(r)), Rightful(r, d, ls), BackendsOf(r) \subseteq k
  PROVE  /\ HostSound(s \o t, d, ls, k)
         /\ ToSet(s \o t) = ToSet(s) \cup Entries(r)
<1> DEFINE u == s \o t
           E == ToSet(s) \cup ToSet(t)
<1>1. /\ IsSeq(t) /\ ToSet(t) = Entries(r)
      /\ \A i \in DOMAIN t : t[i].route = r
      /\ Len(t) <= StableUpTo => InRuleOrder(t)
  BY SortedEntries
<1>2. IsSeq(s)
  BY DEF HostSound
<1>3. s \in Seq(E) /\ t \in Seq(E)
  BY <1>1, <1>2, SeqMonotonic DEF IsSeq
<1>4. /\ Len(s) \in Nat /\ DOMAIN s = 1..Len(s) /\ Len(t) \in Nat /\ DOMAIN t = 1..Len(t)
  BY <1>1, <1>2, SeqFacts
<1>5. /\ u \in Seq(E) /\ Len(u) = Len(s) + Len(t)
      /\ \A i \in 1..(Len(s) + Len(t)) : u[i] = IF i <= Len(s) THEN s[i] ELSE t[i - Len(s)]
  BY <1>3, ConcatProperties
<1>6. DOMAIN u = 1..(Len(s) + Len(t))
  BY <1>4, <1>5, LenProperties
<1> HIDE DEF u
<1>7. \A i \in DOMAIN s : i \in DOMAIN u /\ u[i] = s[i]
  BY <1>4, <1>5, <1>6
<1>8. \A i \in DOMAIN t : i + Len(s) \in DOMAIN u /\ u[i + Len(s)] = t[i]
  <2> SUFFICES ASSUME NEW i \in DOMAIN t PROVE i + Len(s) \in DOMAIN u /\ u[i + Len(s)] = t[i]
    OBVIOUS
  <2>1. i \in Nat /\ i >= 1 /\ i <= Len(t) /\ i + Len(s) - Len(s) = i
    BY <1>4
  <2>2. i + Len(s) \in 1..(Len(s) + Len(t)) /\ ~(i + Len(s) <= Len(s))
    BY <1>4, <2>1
  <2> QED
    BY <1>5, <1>6, <2>1, <2>2
<1>9. \A i \in DOMAIN u : u[i] \in E
  <2> SUFFICES ASSUME NEW i \in DOMAIN u PROVE u[i] \in E
    OBVIOUS
  <2>1. CASE i <= Len(s)
    BY <1>4, <1>5, <1>6, <2>1 DEF ToSet
  <2>2. CASE ~(i <= Len(s))
    <3>1. i - Len(s) \in DOMAIN t
      BY <1>4, <1>6, <2>2
    <3> QED
      BY <1>5, <1>6, <2>2, <3>1 DEF ToSet
  <2> QED
    BY <2>1, <2>2
<1>10. ToSet(u) = E
  BY <1>7, <1>8, <1>9 DEF ToSet
<1>11. IsSeq(u)
  BY <1>5, <1>10 DEF IsSeq
<1>12. ASSUME NEW i \in DOMAIN u
       PROVE  LET q == u[i].route
              IN  /\ u[i] \in Entries(q) /\ Entries(q) \subseteq ToSet(u)
                  /\ Rightful(q, d, ls) /\ BackendsOf(q) \subseteq k
  <2>1. CASE u[i] \in ToSet(s)
    <3>1. PICK j \in DOMAIN s : s[j] = u[i]
      BY <2>1 DEF ToSet
    <3> QED
      BY <1>10, <3>1 DEF HostSound
  <2>2. CASE u[i] \in ToSet(t)
    <3>1. u[i].route = r
      BY <1>1, <2>2 DEF ToSet
    <3> QED
      BY <1>1, <1>10, <2>2, <3>1
  <2> QED
    BY <1>9, <2>1, <2>2
<1>13. ASSUME Len(u) <= StableUpTo
       PROVE  InRuleOrder(u)
  <2>1. Len(s) <= StableUpTo /\ Len(t) <= StableUpTo
    BY <1>4, <1>5, <1>13, StableUpToAssumption
  <2>2. InRuleOrder(s) /\ InRuleOrder(t)
    BY <1>1, <2>1 DEF HostSound
  <2>3. \A i \in DOMAIN s : s[i].route = r => ToSet(t) \subseteq ToSet(s)
    BY <1>1 DEF HostSound
  <2> QED
    BY <1>1, <1>3, <2>2, <2>3, AppendKeepsRuleOrder DEF u
<1> QED
  BY <1>1, <1>10, <1>11, <1>12, <1>13 DEF HostSound, u

LEMMA EmptyHost ==
  ASSUME NEW d, NEW ls, NEW k
  PROVE  HostSound(<<>>, d, ls, k)
<1>1. DOMAIN <<>> = {} /\ IsSeq(<<>>)
  BY EmptySeq DEF IsSeq, ToSet
<1> QED
  BY <1>1 DEF HostSound, InRuleOrder

LEMMA HostsGrow ==
  ASSUME InputSound, Gathered, RoutesBuilt, NEW r \in attached[Current], Current \in Reached,
         NEW t \in SortRoutes(Unsorted(r)), NEW k, backends \subseteq k, BackendsOf(r) \subseteq k,
         vhosts' = IF t = <<>> THEN vhosts
                   ELSE AddToVhosts(IntersectingHostnames(Current.hostname, r.hostnames), t)
  PROVE  /\ HostsSound(vhosts', Reached, k)
         /\ Entries(r) # {} => Found(vhosts', r)
         /\ \A q : Found(vhosts, q) => Found(vhosts', q)
<1> DEFINE D == IntersectingHostnames(Current.hostname, r.hostnames)
           Old(d) == IF d \in DOMAIN vhosts THEN vhosts[d] ELSE <<>>
<1>1. Current \in ToSet(listeners)
  BY DEF Reached, ToSet
<1>2. IsHTTPRoute(r) /\ Attaches(r, Current)
  BY <1>1, AttachedRoute
<1>3. HostsSound(vhosts, Reached, k)
  BY DEF RoutesBuilt, HostsSound, HostSound
<1>4. IsSeq(t) /\ ToSet(t) = Entries(r)
  BY <1>2, SortedEntries
<1>5. CASE t = <<>>
  <2>1. Entries(r) = {}
    <3>1. ToSet(<<>>) = {}
      BY DEF ToSet
    <3> QED
      BY <1>4, <1>5, <3>1
  <2> QED
    BY <1>3, <1>5, <2>1
<1>6. CASE t # <<>>
  <2>1. /\ DOMAIN vhosts' = DOMAIN vhosts \cup D
        /\ \A d \in DOMAIN vhosts' : vhosts'[d] = Old(d) \o (IF d \in D THEN t ELSE <<>>)
    BY <1>6 DEF AddToVhosts
  <2>2. \A d : HostSound(Old(d), d, Reached, k)
    BY <1>3, EmptyHost DEF HostsSound
  <2>3. \A d \in D : Rightful(r, d, Reached)
    BY <1>1 DEF Rightful
  <2> HIDE DEF Old, D
  <2>4. \A d \in D : /\ HostSound(Old(d) \o t, d, Reached, k)
                     /\ ToSet(Old(d) \o t) = ToSet(Old(d)) \cup Entries(r)
    BY <1>2, <2>2, <2>3, AppendedHost
  <2>5. \A d \in DOMAIN vhosts' \ D : vhosts'[d] = Old(d)
    <3> SUFFICES ASSUME NEW d \in DOMAIN vhosts' \ D PROVE vhosts'[d] = Old(d)
      OBVIOUS
    <3>1. Old(d) \in Seq(ToSet(Old(d)))
      BY <2>2 DEF HostSound, IsSeq
    <3> QED
      BY <2>1, <3>1, ConcatEmptySeq
  <2>6. \A d \in D : d \in DOMAIN vhosts' /\ vhosts'[d] = Old(d) \o t
    BY <2>1
  <2>7. HostsSound(vhosts', Reached, k)
    BY <2>2, <2>4, <2>5, <2>6 DEF HostsSound
  <2>8. \A d \in DOMAIN vhosts' : ToSet(Old(d)) \subseteq ToSet(vhosts'[d])
    BY <2>4, <2>5, <2>6
  <2>9. ASSUME Entries(r) # {} PROVE Found(vhosts', r)
    <3>1. D # {}
      <4>1. IsAllowedByHostname(Current.hostname, r.hostnames)
        BY <1>2 DEF Attaches, Accepting, Verdict
      <4> QED
        BY <4>1, AllowedIffIntersecting DEF D
    <3>2. PICK d \in D : TRUE
      BY <3>1
    <3>3. PICK e \in Entries(r) : e \in ToSet(vhosts'[d])
      BY <2>4, <2>6, <2>9
    <3>4. e.route = r
      BY <1>2, EntrySound
    <3> QED
      BY <2>6, <3>3, <3>4 DEF Found, ToSet
  <2>10. ASSUME NEW q, Found(vhosts, q) PROVE Found(vhosts', q)
    <3>1. PICK d \in DOMAIN vhosts : \E i \in DOMAIN vhosts[d] : vhosts[d][i].route = q
      BY <2>10 DEF Found
    <3>2. PICK e \in ToSet(vhosts[d]) : e.route = q
      BY <3>1 DEF ToSet
    <3>3. d \in DOMAIN vhosts' /\ e \in ToSet(vhosts'[d])
      BY <2>1, <2>8, <3>2 DEF Old
    <3> QED
      BY <3>2, <3>3 DEF Found, ToSet
  <2> QED
    BY <2>7, <2>9, <2>10
<1> QED
  BY <1>5, <1>6

LEMMA StatusesCompleted ==
  ASSUME StatusesSound, UNCHANGED <<inputs, list>>, NEW r \in ToSet(list), statuses' = CompleteStatuses(r)
  PROVE  StatusesSound'
<1> DEFINE P(q, i) == ParentStatus(q.parents[i], q)
<1>1. listeners' = listeners
  BY DEF inputs
<1>2. \A ref, q : ParentStatus(ref, q)' = ParentStatus(ref, q)
  BY <1>1, AttachesKept
<1>3. \A q, i, v, w :
        [[P(q, i) EXCEPT !.resolved = v] EXCEPT !.resolved = w] = [P(q, i) EXCEPT !.resolved = w]
  <2>1. \A q, i : \E a, b : P(q, i) = [ref |-> a, reason |-> b, resolved |-> "unset"]
    BY DEF ParentStatus
  <2>2. \A a, b, v, w :
          [[[ref |-> a, reason |-> b, resolved |-> "unset"] EXCEPT !.resolved = v] EXCEPT !.resolved = w]
            = [[ref |-> a, reason |-> b, resolved |-> "unset"] EXCEPT !.resolved = w]
    OBVIOUS
  <2> HIDE DEF P
  <2> QED
    BY <2>1, <2>2
<1>4. DOMAIN statuses' = ToSet(list)
  BY DEF CompleteStatuses, StatusesSound
<1>5. ASSUME NEW q \in ToSet(list)
      PROVE  /\ DOMAIN statuses'[q] = Ours(q)
             /\ \A i \in Ours(q) : \E v \in {"unset", ConditionOf(q)} :
                  statuses'[q][i] = [P(q, i) EXCEPT !.resolved = v]
  <2>1. /\ DOMAIN statuses[q] = Ours(q)
        /\ \A i \in Ours(q) : \E v \in {"unset", ConditionOf(q)} :
             statuses[q][i] = [P(q, i) EXCEPT !.resolved = v]
    BY DEF StatusesSound
  <2>2. CASE q # r
    <3>1. statuses'[q] = statuses[q]
      BY <2>2 DEF CompleteStatuses, StatusesSound
    <3> QED
      BY <2>1, <3>1
  <2>3. CASE q = r
    <3>1. statuses'[q] = [i \in Ours(q) |->
            IF statuses[q][i].reason = "Accepted"
            THEN [statuses[q][i] EXCEPT !.resolved = ConditionOf(q)]
            ELSE statuses[q][i]]
      BY <2>1, <2>3 DEF CompleteStatuses, StatusesSound, ConditionOf
    <3> HIDE DEF P
    <3>2. ASSUME NEW i \in Ours(q)
          PROVE  \E v \in {"unset", ConditionOf(q)} : statuses'[q][i] = [P(q, i) EXCEPT !.resolved = v]
      <4>1. PICK v \in {"unset", ConditionOf(q)} : statuses[q][i] = [P(q, i) EXCEPT !.resolved = v]
        BY <2>1
      <4>2. statuses'[q][i] = statuses[q][i]
              \/ statuses'[q][i] = [statuses[q][i] EXCEPT !.resolved = ConditionOf(q)]
        BY <3>1
      <4>3. [statuses[q][i] EXCEPT !.resolved = ConditionOf(q)] = [P(q, i) EXCEPT !.resolved = ConditionOf(q)]
        BY <1>3, <4>1
      <4> QED
        BY <4>1, <4>2, <4>3
    <3> QED
      BY <3>1, <3>2
  <2> QED
    BY <2>2, <2>3
<1> QED
  BY <1>2, <1>4, <1>5 DEF StatusesSound

(* A map of clusters by name stays one when those of more backends come in.*)
LEMMA ClustersGrow ==
  ASSUME NEW more, NEW old, NEW kept, kept \subseteq ClustersOf(old), NamesOf(kept) = NamesOf(ClustersOf(old)),
         NEW new \in LastOfEachName(ClustersOf(more))
  PROVE  LET grown == {c \in kept : c.name \notin NamesOf(new)} \cup new
         IN  /\ grown \subseteq ClustersOf(old \cup more)
             /\ NamesOf(grown) = NamesOf(ClustersOf(old \cup more))
<1>1. new \subseteq ClustersOf(more) /\ NamesOf(new) = NamesOf(ClustersOf(more))
  BY DEF LastOfEachName
<1>2. ClustersOf(old \cup more) = ClustersOf(old) \cup ClustersOf(more)
  BY DEF ClustersOf
<1>3. \A cs, ds : NamesOf(cs \cup ds) = NamesOf(cs) \cup NamesOf(ds)
  BY DEF NamesOf
<1> DEFINE others == {c \in kept : c.name \notin NamesOf(new)}
<1>4. NamesOf(others) = NamesOf(kept) \ NamesOf(new)
  BY DEF NamesOf
<1>5. others \cup new \subseteq ClustersOf(old \cup more)
  BY <1>1, <1>2
<1> HIDE DEF others
<1>6. NamesOf(others \cup new) = NamesOf(others) \cup NamesOf(new)
  BY <1>3
<1>7. NamesOf(others \cup new) = NamesOf(ClustersOf(old)) \cup NamesOf(ClustersOf(more))
  BY <1>1, <1>4, <1>6
<1>8. NamesOf(ClustersOf(old \cup more)) = NamesOf(ClustersOf(old)) \cup NamesOf(ClustersOf(more))
  BY <1>2, <1>3
<1>9. NamesOf(others \cup new) = NamesOf(ClustersOf(old \cup more))
  BY <1>7, <1>8
<1> QED
  BY <1>5, <1>9 DEF others

LEMMA TranslateRouteSound == IInv /\ TranslateRoute => IInv'
<1> SUFFICES ASSUME IInv, TranslateRoute PROVE IInv'
  OBVIOUS
<1>1. /\ UNCHANGED <<inputs, pc, todo, port, index, list, attached, listenerStatuses, chains, eds>>
      /\ InListener /\ Translated /\ RoutesAhead # {}
      /\ backends' = backends \cup BackendsOf(NextRoute)
      /\ statuses' = CompleteStatuses(NextRoute)
      /\ next' = Min(RoutesAhead) + 1
  BY DEF TranslateRoute
<1>2. InputSound' /\ listeners' = listeners /\ InputSound /\ ControlSound
  BY <1>1, InputKept DEF IInv, inputs
<1>3. pc = "listeners" /\ ListenersAhead # {} /\ index \in Nat /\ next \in Nat
  BY <1>1, <1>2 DEF InListener, ControlSound
<1>4. TranslationSound /\ Gathered /\ RoutesBuilt
  BY <1>3 DEF IInv, Running, TranslationSound
<1>5. Current \in ToSet(listeners) /\ Current \in Reached
  BY <1>2, <1>3, CurrentListener
<1> DEFINE m == Min(RoutesAhead)
<1>6. /\ m \in DOMAIN list /\ NextRoute = list[m] /\ m \in Nat
      /\ NextRoute \in attached[Current]
      /\ \A n \in DOMAIN list :
           n < m + 1 /\ list[n] \in attached[Current] => n < next \/ n = m
  BY <1>1, <1>3, <1>4, CurrentRoute
<1>7. ControlSound'
  BY <1>1, <1>2, <1>3, <1>6 DEF ControlSound
<1>8. Gathered'
  BY <1>1, <1>4, GatheredKept
<1>9. StatusesSound'
  <2>1. NextRoute \in ToSet(list)
    BY <1>6 DEF ToSet
  <2> QED
    BY <1>1, <1>4, <2>1, StatusesCompleted DEF TranslationSound
<1>10. ResourcesSound'
  <2>1. PICK new \in LastOfEachName(ClustersOf(BackendsOf(NextRoute))) :
          clusters' = {c \in clusters : c.name \notin NamesOf(new)} \cup new
    BY DEF TranslateRoute
  <2>2. clusters \subseteq ClustersOf(backends) /\ NamesOf(clusters) = NamesOf(ClustersOf(backends))
    BY <1>4 DEF TranslationSound, ResourcesSound
  <2>3. /\ clusters' \subseteq ClustersOf(backends')
        /\ NamesOf(clusters') = NamesOf(ClustersOf(backends'))
    BY <1>1, <2>1, <2>2, ClustersGrow
  <2> QED
    BY <1>1, <1>3, <2>3 DEF ResourcesSound
<1>11. \A c \in chains' : ChainSound(c)'
  BY <1>1, <1>2, <1>4, ChainKept DEF TranslationSound
<1>12. ASSUME NEW i \in DOMAIN listeners', Behind(i)'
       PROVE  Built(listeners[i])'
  <2>1. Behind(i)
    BY <1>1, <1>2, <1>12 DEF Behind
  <2> QED
    BY <1>1, <1>2, <1>4, <2>1, BuiltKept DEF TranslationSound, Built
<1>13. RoutesBuilt'
  <2>1. PICK t \in SortRoutes(Unsorted(NextRoute)) :
          vhosts' = IF t = <<>> THEN vhosts
                    ELSE AddToVhosts(IntersectingHostnames(Current.hostname, NextRoute.hostnames), t)
    BY DEF TranslateRoute
  <2>2. /\ HostsSound(vhosts', Reached, backends')
        /\ Entries(NextRoute) # {} => Found(vhosts', NextRoute)
        /\ \A q : Found(vhosts, q) => Found(vhosts', q)
    <3>1. backends \subseteq backends' /\ BackendsOf(NextRoute) \subseteq backends'
      BY <1>1
    <3> QED
      BY <1>2, <1>4, <1>5, <1>6, <2>1, <3>1, HostsGrow
  <2>3. HostsSound(vhosts, Reached, backends)'
    <3>1. Reached' = Reached
      BY <1>1, CurrentKept
    <3> QED
      BY <1>1, <1>2, <2>2, <3>1, HostsKept
  <2>4. InListener' /\ Translated' /\ Current' = Current
    BY <1>1, CurrentKept
  <2>5. ASSUME NEW n \in DOMAIN list, n < next', list[n] \in attached[Current], Entries(list[n]) # {}
        PROVE  Found(vhosts', list[n])
    <3>1. n < next \/ n = m
      BY <1>1, <1>6, <2>5
    <3>2. CASE n < next
      BY <1>4, <2>2, <2>5, <3>2 DEF RoutesBuilt
    <3>3. CASE n = m
      BY <1>6, <2>2, <2>5, <3>3
    <3> QED
      BY <3>1, <3>2, <3>3
  <2> QED
    BY <1>1, <2>3, <2>4, <2>5 DEF RoutesBuilt, Found
<1> QED
  BY <1>2, <1>7, <1>8, <1>9, <1>10, <1>11, <1>12, <1>13 DEF IInv, TranslationSound

(* A virtual host that is sorted.                                          *)
LEMMA SortedHost ==
  ASSUME InputSound, Gathered, NEW s, NEW d, NEW ls, NEW k, HostSound(s, d, ls, k), NEW t \in SortRoutes(s)
  PROVE  HostSound(t, d, ls, k) /\ InPrecedence(t) /\ ToSet(t) = ToSet(s)
<1>1. IsSlice(s)
  BY HostIsSlice
<1>2. IsSeq(t) /\ ToSet(t) = ToSet(s) /\ Len(t) = Len(s)
  BY <1>1, SortedSlice
<1>3. InPrecedence(t)
  BY <1>1, SortedInPrecedence
<1>4. Len(t) <= StableUpTo => InRuleOrder(t)
  BY <1>1, <1>2, SortKeepsRuleOrder DEF HostSound
<1>5. ASSUME NEW i \in DOMAIN t
      PROVE  \E j \in DOMAIN s : t[i] = s[j]
  BY <1>2 DEF ToSet
<1> QED
  BY <1>2, <1>3, <1>4, <1>5 DEF HostSound

(* The end of a listener that is translated, with a filter chain or without*)
(* one.                                                                    *)
LEMMA ListenerEnds ==
  ASSUME IInv, InListener, Translated, RoutesAhead = {},
         UNCHANGED <<inputs, pc, todo, port, list, attached, statuses, clusters, backends>>,
         vhosts' \in SortedVhosts, index' = NextListener, next' = 1,
         NEW programmed, NEW count, SetListenerStatus(programmed, count),
         chains' = IF programmed THEN chains \cup {FilterChain(Current, vhosts')} ELSE chains
  PROVE  IInv'
<1>1. chains \subseteq chains' /\ chains' \subseteq chains \cup {FilterChain(Current, vhosts')}
  OBVIOUS
<1>2. InputSound' /\ listeners' = listeners /\ InputSound /\ ControlSound
  BY InputKept DEF IInv, inputs
<1>3. pc = "listeners" /\ ListenersAhead # {} /\ index \in Nat /\ next \in Nat
  BY <1>2 DEF InListener, ControlSound
<1>4. TranslationSound /\ Gathered /\ RoutesBuilt
  BY <1>3 DEF IInv, Running, TranslationSound
<1>5. Current \in ToSet(listeners) /\ Current.port = port /\ IsHTTP(Current)
  BY <1>2, <1>3, CurrentListener DEF Translated, IsHTTP
<1>6. ControlSound'
  BY <1>2, <1>3, CurrentListener DEF ControlSound
<1>7. Gathered' /\ StatusesSound'
  BY <1>4, GatheredKept, StatusesKept DEF TranslationSound
<1>8. ResourcesSound'
  BY <1>3, <1>4 DEF ResourcesSound, TranslationSound
<1>9. /\ DOMAIN vhosts' = DOMAIN vhosts
      /\ \A d \in DOMAIN vhosts : vhosts'[d] \in SortRoutes(vhosts[d])
  BY DEF SortedVhosts
<1>10. \A d \in DOMAIN vhosts :
         /\ HostSound(vhosts'[d], d, Reached, backends)
         /\ InPrecedence(vhosts'[d]) /\ ToSet(vhosts'[d]) = ToSet(vhosts[d])
  BY <1>2, <1>4, <1>9, SortedHost DEF RoutesBuilt, HostsSound
<1>11. HostsSound(vhosts', Reached, backends)
  BY <1>9, <1>10 DEF HostsSound
<1> DEFINE chain == FilterChain(Current, vhosts')
<1>12. chain.vhosts = vhosts' /\ chain.port = port /\ chain.listener = Current.name
  BY <1>5 DEF FilterChain
<1> HIDE DEF chain
<1>13. ChainSound(chain)
  <2>1. Reached \subseteq ListenersUpTo(chain)
    <3> SUFFICES ASSUME NEW i \in DOMAIN listeners, listeners[i].port = port,
                        \A j \in ListenersAhead : i <= j
                 PROVE  listeners[i] \in ListenersUpTo(chain)
      BY DEF Reached
    <3> DEFINE m == Min(ListenersAhead)
    <3>1. m \in ListenersAhead /\ m \in DOMAIN listeners /\ Current = listeners[m]
      BY <1>2, <1>3, CurrentListener
    <3>2. i <= m /\ listeners[m].name = chain.listener
      BY <1>12, <3>1
    <3>3. listeners[i] \in OnPort(chain.port)
      BY <1>2, <1>12, ListenerFacts DEF OnPort
    <3> QED
      BY <3>1, <3>2, <3>3 DEF ListenersUpTo
  <2>2. HostsSound(vhosts', ListenersUpTo(chain), backends)
    BY <1>2, <1>11, <2>1, HostsKept
  <2> QED
    BY <1>5, <1>9, <1>10, <1>12, <2>2 DEF ChainSound
<1>14. \A c \in chains' : ChainSound(c)'
  <2>1. \A c \in chains' : ChainSound(c)
    BY <1>1, <1>4, <1>13 DEF TranslationSound, chain
  <2> QED
    BY <1>2, <2>1, ChainKept
<1>15. \A r \in attached[Current] : Entries(r) # {} => Found(vhosts', r)
  <2> SUFFICES ASSUME NEW r \in attached[Current], Entries(r) # {} PROVE Found(vhosts', r)
    OBVIOUS
  <2>1. r \in ToSet(list)
    BY <1>2, <1>4, <1>5, AttachedRoute
  <2>2. PICK n \in DOMAIN list : list[n] = r
    BY <2>1 DEF ToSet
  <2>3. n \in Nat
    BY <1>4, SeqFacts DEF Gathered
  <2>4. n < next
    BY <1>3, <2>2, <2>3 DEF RoutesAhead
  <2>5. Found(vhosts, r)
    BY <1>4, <2>2, <2>4 DEF RoutesBuilt
  <2>6. PICK d \in DOMAIN vhosts : \E e \in ToSet(vhosts[d]) : e.route = r
    BY <2>5 DEF Found, ToSet
  <2>7. d \in DOMAIN vhosts' /\ \E e \in ToSet(vhosts'[d]) : e.route = r
    BY <1>9, <1>10, <2>6
  <2> QED
    BY <2>7 DEF Found, ToSet
<1>16. ASSUME NEW i \in DOMAIN listeners', Behind(i)'
       PROVE  Built(listeners[i])'
  <2>1. CASE listeners[i] = Current
    <3>1. programmed => chain \in chains'
      BY DEF chain
    <3>2. /\ Current \in DOMAIN listenerStatuses'
          /\ listenerStatuses'[Current].programmed = programmed
      BY ListenerStatusSet
    <3>3. /\ \A r \in attached'[Current] : Entries(r) # {} => Found(chain.vhosts, r)
          /\ chain.listener = Current.name
      BY <1>12, <1>15
    <3> QED
      BY <1>2, <2>1, <3>1, <3>2, <3>3 DEF Built
  <2>2. CASE listeners[i] # Current
    <3>1. Built(listeners[i])
      BY <1>2, <1>4, <1>16, <2>2, BehindGrows DEF TranslationSound
    <3>2. /\ listeners[i] \in DOMAIN listenerStatuses'
          /\ listenerStatuses'[listeners[i]] = listenerStatuses[listeners[i]]
      BY <2>2, <3>1, ListenerStatusSet DEF Built
    <3> QED
      BY <1>1, <1>2, <3>1, <3>2, BuiltKept
  <2> QED
    BY <2>1, <2>2
<1>17. RoutesBuilt'
  <2>1. HostsSound(vhosts, Reached, backends)'
    <3>1. NextListener \in Nat /\ NextListener >= index
      BY <1>2, <1>3, CurrentListener, ListenerFacts
    <3>2. Reached \subseteq Reached'
      BY <1>2, <1>3, <3>1, ReachedGrows
    <3> QED
      BY <1>2, <1>11, <3>2, HostsKept
  <2>2. \A n \in DOMAIN list' : n \in Nat /\ n >= 1
    BY <1>7, SeqFacts DEF Gathered
  <2> QED
    BY <2>1, <2>2 DEF RoutesBuilt
<1> QED
  BY <1>2, <1>6, <1>7, <1>8, <1>14, <1>16, <1>17 DEF IInv, TranslationSound

LEMMA FinishListenerSound == IInv /\ FinishListener => IInv'
<1> SUFFICES ASSUME IInv, FinishListener PROVE IInv'
  OBVIOUS
<1>1. chains' = IF TRUE THEN chains \cup {FilterChain(Current, vhosts')} ELSE chains
  BY DEF FinishListener
<1> QED
  BY <1>1, ListenerEnds DEF FinishListener

LEMMA FailListenerSound == IInv /\ FailListener => IInv'
<1> SUFFICES ASSUME IInv, FailListener PROVE IInv'
  OBVIOUS
<1>1. chains' = IF FALSE THEN chains \cup {FilterChain(Current, vhosts')} ELSE chains
  BY DEF FailListener
<1> QED
  BY <1>1, ListenerEnds DEF FailListener

LEMMA StopSound == IInv /\ (Panic \/ Fail) => IInv'
<1> SUFFICES ASSUME IInv, Panic \/ Fail PROVE IInv'
  OBVIOUS
<1>1. UNCHANGED <<inputs, progress, results>> /\ pc' \in {"panicked", "failed"}
  BY DEF Panic, Fail
<1>2. InputSound' /\ UNCHANGED <<todo, index, next, chains, clusters, backends>>
  BY <1>1, InputKept DEF IInv, progress, results
<1>3. ControlSound' /\ ~Running'
  BY <1>1, <1>2 DEF IInv, ControlSound, Running
<1> QED
  BY <1>2, <1>3 DEF IInv

LEMMA StutterSound == IInv /\ UNCHANGED vars => IInv'
<1> SUFFICES ASSUME IInv, UNCHANGED vars PROVE IInv'
  OBVIOUS
<1>1. /\ UNCHANGED <<inputs, pc, todo, port, index, next, list, attached, statuses, listenerStatuses,
                     vhosts, chains, clusters, backends, eds>>
      /\ listeners' = listeners
  BY DEF vars, inputs, progress, results
<1>2. InputSound' /\ ControlSound' /\ Running' = Running
  BY <1>1, InputKept DEF IInv, ControlSound, Running
<1>3. ASSUME Running PROVE TranslationSound'
  <2>1. TranslationSound
    BY <1>3 DEF IInv
  <2>2. Gathered' /\ StatusesSound' /\ \A c \in chains' : ChainSound(c)'
    BY <1>1, <2>1, GatheredKept, StatusesKept, ChainKept DEF TranslationSound
  <2>3. ResourcesSound'
    BY <1>1, <2>1 DEF TranslationSound, ResourcesSound
  <2>4. \A i \in DOMAIN listeners' : Behind(i)' => Built(listeners[i])'
    BY <1>1, <2>1, BuiltKept DEF TranslationSound, Behind, Built
  <2>5. pc' = "listeners" => RoutesBuilt'
    <3> SUFFICES ASSUME pc = "listeners" PROVE RoutesBuilt'
      BY <1>1
    <3>1. RoutesBuilt
      BY <2>1 DEF TranslationSound
    <3>2. Reached' = Reached
      BY <1>1, CurrentKept
    <3>3. HostsSound(vhosts, Reached, backends)'
      BY <1>1, <3>1, <3>2, HostsKept DEF RoutesBuilt
    <3>4. InListener' = InListener /\ Translated' = Translated /\ Current' = Current
      BY <1>1, CurrentKept
    <3> QED
      BY <1>1, <3>1, <3>3, <3>4 DEF RoutesBuilt, Found
  <2> QED
    BY <2>2, <2>3, <2>4, <2>5 DEF TranslationSound
<1> QED
  BY <1>2, <1>3 DEF IInv

THEOREM Invariance == Spec => []IInv
<1>1. IInv /\ [Next]_vars => IInv'
  BY GatherSound, BeginPortSound, SkipListenerSound, TranslateRouteSound, FinishListenerSound,
     FailListenerSound, EndPortSound, FinishSound, StopSound, StutterSound DEF Next
<1> QED
  BY InitSound, <1>1, PTL DEF Spec

----------------------------------------------------------------------------
(* What holds when the call returns.                                       *)

LEMMA Returns ==
  ASSUME IInv, Returned
  PROVE  /\ InputSound /\ Gathered /\ StatusesSound
         /\ clusters \subseteq ClustersOf(backends) /\ NamesOf(clusters) = NamesOf(ClustersOf(backends))
         /\ eds = BuildEds(backends)
         /\ \A c \in chains : ChainSound(c)
         /\ \A l \in ToSet(listeners) : Built(l)
<1>1. InputSound /\ TranslationSound /\ todo = {} /\ pc = "done"
  BY DEF IInv, Returned, Running, ControlSound
<1>2. \A i \in DOMAIN listeners : Behind(i)
  BY <1>1 DEF Behind
<1>3. \A l \in ToSet(listeners) : Built(l)
  BY <1>1, <1>2, ListenerFacts DEF TranslationSound
<1> QED
  BY <1>1, <1>3 DEF TranslationSound, ResourcesSound

LEMMA HostedEntry ==
  ASSUME NEW c
  PROVE  /\ \A v \in Hosted(c) : \E d \in DOMAIN c.vhosts : \E i \in DOMAIN c.vhosts[d] :
              v.domain = d /\ v.entry = c.vhosts[d][i]
         /\ \A d \in DOMAIN c.vhosts : \A i \in DOMAIN c.vhosts[d] :
              \E v \in Hosted(c) : v.domain = d /\ v.entry = c.vhosts[d][i]
<1> DEFINE At(d) == {[domain |-> d, entry |-> c.vhosts[d][i]] : i \in DOMAIN c.vhosts[d]}
<1>1. Hosted(c) = UNION {At(d) : d \in DOMAIN c.vhosts}
  BY DEF Hosted
<1>2. \A d : \A v \in At(d) : \E i \in DOMAIN c.vhosts[d] : v.domain = d /\ v.entry = c.vhosts[d][i]
  OBVIOUS
<1>3. \A d : \A i \in DOMAIN c.vhosts[d] : \E v \in At(d) : v.domain = d /\ v.entry = c.vhosts[d][i]
  <2> SUFFICES ASSUME NEW d, NEW i \in DOMAIN c.vhosts[d]
               PROVE  \E v \in At(d) : v.domain = d /\ v.entry = c.vhosts[d][i]
    OBVIOUS
  <2>1. [domain |-> d, entry |-> c.vhosts[d][i]] \in At(d)
    OBVIOUS
  <2> QED
    BY <2>1
<1> HIDE DEF At
<1> QED
  BY <1>1, <1>2, <1>3

LEMMA ServesIffFound ==
  ASSUME NEW c, NEW r
  PROVE  Serves(c, r) <=> Found(c.vhosts, r)
BY HostedEntry DEF Serves, Found

(* What is known of an entry of a virtual host.                            *)
LEMMA HostedFacts ==
  ASSUME IInv, Returned, NEW c \in chains, NEW v \in Hosted(c)
  PROVE  LET r == v.entry.route
         IN  /\ \E l \in ListenersUpTo(c) \cap ToSet(listeners) :
                  r \in attached[l] /\ v.domain \in IntersectingHostnames(l.hostname, r.hostnames)
             /\ r \in ToSet(list) /\ IsHTTPRoute(r) /\ NoHostname \notin r.hostnames
             /\ v.entry \in Entries(r) /\ BackendsOf(r) \subseteq backends
             /\ \A e \in Entries(r) : \E w \in Hosted(c) : w.entry = e
<1>a. PICK d \in DOMAIN c.vhosts :
        \E i \in DOMAIN c.vhosts[d] : v.domain = d /\ v.entry = c.vhosts[d][i]
  BY HostedEntry
<1>1. PICK i \in DOMAIN c.vhosts[d] : v.domain = d /\ v.entry = c.vhosts[d][i]
  BY <1>a
<1> DEFINE s == c.vhosts[d]
           r == v.entry.route
<1>2. InputSound /\ Gathered /\ HostSound(s, d, ListenersUpTo(c), backends)
  BY Returns DEF ChainSound, HostsSound
<1>3. r \in ToSet(list) /\ IsHTTPRoute(r) /\ NoHostname \notin r.hostnames
  BY <1>1, <1>2, RightfulRoute
<1>4. /\ v.entry \in Entries(r) /\ BackendsOf(r) \subseteq backends
      /\ Entries(r) \subseteq ToSet(s) /\ Rightful(r, d, ListenersUpTo(c))
  BY <1>1, <1>2 DEF HostSound
<1>5. \A e \in Entries(r) : \E w \in Hosted(c) : w.entry = e
  <2> SUFFICES ASSUME NEW e \in Entries(r) PROVE \E w \in Hosted(c) : w.entry = e
    OBVIOUS
  <2>1. PICK k \in DOMAIN s : e = s[k]
    BY <1>4 DEF ToSet
  <2> QED
    BY <2>1, HostedEntry
<1> QED
  BY <1>1, <1>3, <1>4, <1>5 DEF Rightful

LEMMA DomainWithinBoth ==
  ASSUME NEW listener, NEW hostnames, NoHostname \notin hostnames,
         NEW d \in IntersectingHostnames(listener, hostnames)
  PROVE  /\ Inside(d, listener)
         /\ hostnames = {} \/ \E h \in hostnames : Inside(d, h) \/ IsParentDomain(d, h)
<1>1. CASE hostnames = {}
  BY <1>1 DEF IntersectingHostnames, Inside
<1>2. CASE hostnames # {} /\ listener = NoHostname
  BY <1>2 DEF IntersectingHostnames, Inside
<1>3. CASE hostnames # {} /\ listener # NoHostname
  <2>1. PICK h \in hostnames : IsHostnameSubset(h, listener) /\ d = MostRestrictive(h, listener)
    BY <1>3 DEF IntersectingHostnames
  <2>2. CASE h.wild /\ ~listener.wild
    <3>1. d = listener /\ d # NoHostname
      BY <1>3, <2>1, <2>2 DEF MostRestrictive
    <3>2. Inside(d, h) \/ IsParentDomain(d, h)
      BY <2>1, <2>2, <3>1 DEF IsHostnameSubset, Inside, IsParentDomain
    <3> QED
      BY <3>1, <3>2 DEF Inside
  <2>3. CASE ~(h.wild /\ ~listener.wild)
    BY <1>3, <2>1, <2>3 DEF MostRestrictive, IsHostnameSubset, Inside
  <2> QED
    BY <2>2, <2>3
<1> QED
  BY <1>1, <1>2, <1>3

(* A request reaches a route only through a domain that the route names    *)
(* and the listener, or one before it on the port, and only if this one's  *)
(* namespaces and kinds and the route's parent reference allow it          *)
(* (translator.go:411).                                                    *)
THEOREM ServedWithinBothHolds == Spec => []ServedWithinBoth
<1>1. ASSUME IInv PROVE ServedWithinBoth
  <2> SUFFICES ASSUME Returned, NEW c \in chains, NEW v \in Hosted(c)
               PROVE  LET r == v.entry.route
                      IN  /\ \E l \in ListenersUpTo(c) :
                               /\ \E ref \in ToSet(r.parents) : ref.ours /\ Refers(ref, l)
                               /\ IsAllowedByListener(l, r)
                               /\ Inside(v.domain, l.hostname)
                          /\ r.hostnames = {} \/ \E h \in r.hostnames :
                               Inside(v.domain, h) \/ IsParentDomain(v.domain, h)
    BY DEF ServedWithinBoth
  <2> DEFINE r == v.entry.route
  <2>1. PICK l \in ListenersUpTo(c) \cap ToSet(listeners) :
          r \in attached[l] /\ v.domain \in IntersectingHostnames(l.hostname, r.hostnames)
    BY <1>1, HostedFacts
  <2>2. NoHostname \notin r.hostnames
    BY <1>1, HostedFacts
  <2>3. InputSound /\ Gathered /\ l \in ToSet(listeners)
    BY <1>1, Returns
  <2>4. Attaches(r, l)
    BY <2>1, <2>3, AttachedRoute
  <2>5. PICK i \in DOMAIN r.parents :
          r.parents[i].ours /\ Refers(r.parents[i], l) /\ Verdict(l, r) = "Accepted"
    BY <2>4 DEF Attaches, Accepting, Ours
  <2>6. IsAllowedByListener(l, r)
    BY <2>5 DEF Verdict
  <2>7. /\ Inside(v.domain, l.hostname)
        /\ r.hostnames = {} \/ \E h \in r.hostnames : Inside(v.domain, h) \/ IsParentDomain(v.domain, h)
    BY <2>1, <2>2, DomainWithinBoth
  <2> QED
    BY <2>5, <2>6, <2>7 DEF ToSet
<1> QED
  BY Invariance, <1>1, PTL

LEMMA StatusFacts ==
  ASSUME IInv, Returned, NEW r \in DOMAIN statuses
  PROVE  /\ r \in ToSet(list) /\ IsHTTPRoute(r) /\ DOMAIN statuses[r] = Ours(r)
         /\ \A i \in Ours(r) :
              /\ statuses[r][i].ref = r.parents[i]
              /\ Accepting(r.parents[i], r) # {} => statuses[r][i].reason = "Accepted"
              /\ statuses[r][i].resolved \in {"unset", ConditionOf(r)}
<1>1. r \in ToSet(list) /\ DOMAIN statuses[r] = Ours(r)
  BY Returns DEF StatusesSound
<1>2. IsHTTPRoute(r)
  BY <1>1, Returns DEF Gathered, InputSound
<1>3. ASSUME NEW i \in Ours(r)
      PROVE  /\ statuses[r][i].ref = r.parents[i]
             /\ Accepting(r.parents[i], r) # {} => statuses[r][i].reason = "Accepted"
             /\ statuses[r][i].resolved \in {"unset", ConditionOf(r)}
  <2>1. PICK v \in {"unset", ConditionOf(r)} :
          statuses[r][i] = [ParentStatus(r.parents[i], r) EXCEPT !.resolved = v]
    BY <1>1, Returns DEF StatusesSound
  <2> DEFINE referred == {k \in DOMAIN listeners : Refers(r.parents[i], listeners[k])}
             a == CASE Accepting(r.parents[i], r) # {} -> "Accepted"
                    [] referred = {} -> "NoMatchingParent"
                    [] OTHER -> Verdict(listeners[Max(referred)], r)
  <2>2. /\ ParentStatus(r.parents[i], r) = [ref |-> r.parents[i], reason |-> a, resolved |-> "unset"]
        /\ Accepting(r.parents[i], r) # {} => a = "Accepted"
    <3>1. ASSUME Accepting(r.parents[i], r) # {} PROVE a = "Accepted"
      <4>1. referred # {}
        BY <3>1 DEF Accepting, ToSet
      <4> QED
        BY <3>1, <4>1
    <3>2. ParentStatus(r.parents[i], r) = [ref |-> r.parents[i], reason |-> a, resolved |-> "unset"]
      BY DEF ParentStatus
    <3> QED
      BY <3>1, <3>2
  <2> HIDE DEF a
  <2> QED
    BY <2>1, <2>2
<1> QED
  BY <1>1, <1>2, <1>3

(* The parent statuses agree with the filter chains: accepted and served,  *)
(* or neither.                                                             *)
THEOREM StatusTellsServiceHolds == Spec => []StatusTellsService
<1>1. ASSUME IInv PROVE StatusTellsService
  <2> SUFFICES ASSUME Returned, NEW r \in DOMAIN statuses
               PROVE  LET accepted == {i \in DOMAIN statuses[r] : statuses[r][i].reason = "Accepted"}
                      IN  /\ accepted = {} => \A c \in chains : ~Serves(c, r)
                          /\ Entries(r) # {} => \A l \in ToSet(listeners) :
                               /\ \E i \in accepted : Refers(statuses[r][i].ref, l)
                               /\ Verdict(l, r) = "Accepted" /\ l.protocol \in {"HTTP", "HTTPS"}
                               /\ listenerStatuses[l].programmed
                               => \E c \in chains : c.listener = l.name /\ Serves(c, r)
    BY DEF StatusTellsService
  <2> DEFINE accepted == {i \in DOMAIN statuses[r] : statuses[r][i].reason = "Accepted"}
  <2>1. /\ r \in ToSet(list) /\ DOMAIN statuses[r] = Ours(r)
        /\ \A i \in Ours(r) : /\ statuses[r][i].ref = r.parents[i]
                              /\ Accepting(r.parents[i], r) # {} => statuses[r][i].reason = "Accepted"
    BY <1>1, StatusFacts
  <2>2. InputSound /\ Gathered
    BY <1>1, Returns
  <2>3. ASSUME NEW c \in chains, Serves(c, r) PROVE accepted # {}
    <3>1. PICK v \in Hosted(c) : v.entry.route = r
      BY <2>3 DEF Serves
    <3>2. PICK l \in ToSet(listeners) : r \in attached[l]
      BY <1>1, <3>1, HostedFacts
    <3>3. Attaches(r, l)
      BY <2>2, <3>2, AttachedRoute
    <3>4. PICK i \in Ours(r) : Accepting(r.parents[i], r) # {}
      BY <3>3 DEF Attaches
    <3> QED
      BY <2>1, <3>4
  <2>4. ASSUME Entries(r) # {}, NEW i \in accepted, NEW l \in ToSet(listeners),
               Refers(statuses[r][i].ref, l), Verdict(l, r) = "Accepted", listenerStatuses[l].programmed
        PROVE  \E c \in chains : c.listener = l.name /\ Serves(c, r)
    <3>1. i \in Ours(r) /\ Refers(r.parents[i], l)
      BY <2>1, <2>4
    <3>2. Attaches(r, l)
      BY <2>4, <3>1 DEF Attaches, Accepting
    <3>3. r \in attached[l]
      BY <2>1, <2>2, <3>2 DEF Gathered
    <3>4. Built(l)
      BY <1>1, <2>4, Returns
    <3>5. PICK c \in chains : c.listener = l.name /\ Found(c.vhosts, r)
      BY <2>4, <3>3, <3>4 DEF Built
    <3> QED
      BY <3>5, ServesIffFound
  <2> QED
    BY <2>3, <2>4
<1> QED
  BY Invariance, <1>1, PTL

(* ResolvedRefs is True or False as the routes that Envoy has of the       *)
(* HTTPRoute are whole or not.                                             *)
THEOREM ResolvedRefsTellsTheTruthHolds == Spec => []ResolvedRefsTellsTheTruth
<1>1. ASSUME IInv PROVE ResolvedRefsTellsTheTruth
  <2> SUFFICES ASSUME Returned, NEW r \in DOMAIN statuses, NEW c \in chains, Serves(c, r)
               PROVE  LET answered == {v.entry : v \in {v \in Hosted(c) : v.entry.route = r}}
                          whole == /\ {e.branch : e \in answered} = Branches(r)
                                   /\ \A e \in answered : e.type # "500"
                      IN  \A i \in DOMAIN statuses[r] :
                            /\ statuses[r][i].resolved = "true" => whole
                            /\ statuses[r][i].resolved = "false" => ~whole
    BY DEF ResolvedRefsTellsTheTruth
  <2> DEFINE answered == {v.entry : v \in {v \in Hosted(c) : v.entry.route = r}}
             whole == /\ {e.branch : e \in answered} = Branches(r)
                      /\ \A e \in answered : e.type # "500"
  <2>1. IsHTTPRoute(r)
    BY <1>1, StatusFacts
  <2>2. answered = Entries(r)
    <3>1. \A v \in Hosted(c) : v.entry.route = r => v.entry \in Entries(r)
      BY <1>1, HostedFacts
    <3>2. PICK v \in Hosted(c) : v.entry.route = r
      BY DEF Serves
    <3>3. \A e \in Entries(r) : \E w \in Hosted(c) : w.entry = e
      BY <1>1, <3>2, HostedFacts
    <3>4. \A e \in Entries(r) : e.route = r
      BY <2>1, EntrySound
    <3> QED
      BY <3>1, <3>3, <3>4
  <2>3. Entries(r) = {Entry(r, b) : b \in Kept(r)}
    BY <2>1, UnsortedInRuleOrder
  <2>4. {e.branch : e \in answered} = Kept(r)
    BY <2>2, <2>3, EntryOfBranch
  <2> HIDE DEF answered
  <2>5. whole <=> Resolved(r)
    <3>1. ASSUME whole PROVE Resolved(r)
      <4> SUFFICES ASSUME NEW b \in Branches(r) PROVE ~BranchFails(r, b)
        BY DEF Resolved
      <4>1. b \in Kept(r)
        BY <2>4, <3>1
      <4>2. Entry(r, b).type # "500"
        BY <2>2, <2>3, <3>1, <4>1
      <4> QED
        BY <4>1, <4>2 DEF BranchFails, Kept
    <3>2. ASSUME Resolved(r) PROVE whole
      <4>1. \A b \in Branches(r) : Translatable(r, b) /\ Entry(r, b).type # "500"
        BY <3>2 DEF Resolved, BranchFails
      <4>2. Kept(r) = Branches(r)
        BY <4>1 DEF Kept
      <4>3. \A e \in answered : e.type # "500"
        BY <2>2, <2>3, <4>1, <4>2
      <4> QED
        BY <2>4, <4>2, <4>3
    <3> QED
      BY <3>1, <3>2
  <2> HIDE DEF whole
  <2>6. \A i \in DOMAIN statuses[r] : statuses[r][i].resolved \in {"unset", ConditionOf(r)}
    BY <1>1, StatusFacts
  <2>7. \A i \in DOMAIN statuses[r] : /\ statuses[r][i].resolved = "true" => whole
                                      /\ statuses[r][i].resolved = "false" => ~whole
    BY <2>5, <2>6 DEF ConditionOf
  <2> QED
    BY <2>7 DEF whole, answered
<1> QED
  BY Invariance, <1>1, PTL

(* Every cluster that an entry forwards to is one of a valid backend.      *)
LEMMA ClustersOfEntry ==
  ASSUME NEW route, IsHTTPRoute(route), NEW e \in Entries(route)
  PROVE  e.clusters \subseteq NamesOf(ClustersOf(BackendsOf(route)))
<1> DEFINE refs == route.rules[e.branch[1]].refs
<1>1. e = Entry(route, e.branch)
  BY EntrySound
<1>2. CASE e.type # "forward"
  BY <1>1, <1>2 DEF Entry
<1>3. CASE e.type = "forward"
  <2>1. e.clusters = WeightedClusters(refs) /\ ~ActionFails(refs)
    BY <1>1, <1>3 DEF Entry
  <2>2. ValidBackends(refs) \subseteq BackendsOf(route)
    BY <1>3 DEF BackendsOf
  <2>3. ASSUME NEW ref \in refs, ref.weight # 0
        PROVE  LET b == FetchBackend(ref)
               IN  /\ b \in BackendsOf(route)
                   /\ TargetPort(b, ref.port) \in Numbers(b)
    <3>1. FetchBackend(ref) \in BackendsOf(route)
      BY <2>2 DEF ValidBackends
    <3>2. ref.port \in DOMAIN FetchBackend(ref).ports
      BY <2>1, <2>3 DEF ActionFails, RefFails
    <3> QED
      BY <3>1, <3>2 DEF TargetPort, Numbers
  <2>4. \A b \in BackendsOf(route) : \A n \in Numbers(b) :
          FullName(b, n) \in NamesOf(ClustersOf(BackendsOf(route)))
    <3> SUFFICES ASSUME NEW b \in BackendsOf(route), NEW n \in Numbers(b)
                 PROVE  \E cl \in ClustersOf(BackendsOf(route)) : cl.name = FullName(b, n)
      BY DEF NamesOf
    <3>1. [name |-> FullName(b, n), discovery |-> b.resolution] \in ClustersOf(BackendsOf(route))
      BY DEF ClustersOf
    <3> QED
      BY <3>1
  <2> QED
    BY <2>1, <2>3, <2>4 DEF WeightedClusters
<1> QED
  BY <1>2, <1>3

(* No route names a cluster that Envoy does not get (httproute.go:437).    *)
THEOREM NoDanglingClusterHolds == Spec => []NoDanglingCluster
<1>1. ASSUME IInv PROVE NoDanglingCluster
  <2> SUFFICES ASSUME Returned, NEW c \in chains, NEW v \in Hosted(c)
               PROVE  v.entry.clusters \subseteq NamesOf(clusters)
    BY DEF NoDanglingCluster
  <2> DEFINE r == v.entry.route
  <2>1. IsHTTPRoute(r) /\ v.entry \in Entries(r) /\ BackendsOf(r) \subseteq backends
    BY <1>1, HostedFacts
  <2>2. v.entry.clusters \subseteq NamesOf(ClustersOf(BackendsOf(r)))
    BY <2>1, ClustersOfEntry
  <2>3. NamesOf(ClustersOf(BackendsOf(r))) \subseteq NamesOf(ClustersOf(backends))
    BY <2>1 DEF ClustersOf, NamesOf
  <2>4. NamesOf(clusters) = NamesOf(ClustersOf(backends))
    BY <1>1, Returns
  <2> QED
    BY <2>2, <2>3, <2>4
<1> QED
  BY Invariance, <1>1, PTL

(* Every EDS cluster gets its assignment, and no other does unless a       *)
(* backend that is not for EDS has the name: clusters and assignments are  *)
(* built in two loops, and only the clusters are a map by name.            *)
THEOREM EdsForEveryEdsClusterHolds == Spec => []EdsForEveryEdsCluster
<1>1. ASSUME IInv PROVE EdsForEveryEdsCluster
  <2> SUFFICES ASSUME Returned
               PROVE  LET assigned == {e.cluster : e \in eds}
                          discovered == NamesOf({c \in clusters : c.discovery = "EDS"})
                          contested == NamesOf(ClustersOf({b \in backends : b.resolution # "EDS"}))
                      IN  discovered \subseteq assigned /\ assigned \subseteq discovered \cup contested
    BY DEF EdsForEveryEdsCluster
  <2>1. /\ clusters \subseteq ClustersOf(backends) /\ NamesOf(clusters) = NamesOf(ClustersOf(backends))
        /\ eds = BuildEds(backends)
    BY <1>1, Returns
  <2>2. \A cl \in ClustersOf(backends) : \E b \in backends : \E n \in Numbers(b) :
          cl.name = FullName(b, n) /\ cl.discovery = b.resolution
    BY DEF ClustersOf
  <2>3. ASSUME NEW e \in eds
        PROVE  \/ \E cl \in clusters : cl.discovery = "EDS" /\ cl.name = e.cluster
               \/ \E cl \in ClustersOf({b \in backends : b.resolution # "EDS"}) : cl.name = e.cluster
    <3>1. PICK b \in backends : b.resolution = "EDS" /\ e \in EdsOf(b)
      BY <2>1 DEF BuildEds
    <3>2. PICK n \in Numbers(b) : e.cluster = FullName(b, n)
      BY <3>1 DEF EdsOf
    <3>3. [name |-> FullName(b, n), discovery |-> b.resolution] \in ClustersOf(backends)
      BY DEF ClustersOf
    <3>4. e.cluster \in NamesOf(clusters)
      BY <2>1, <3>2, <3>3 DEF NamesOf
    <3>5. PICK cl \in clusters : cl.name = e.cluster
      BY <3>4 DEF NamesOf
    <3>6. PICK a \in backends : \E k \in Numbers(a) : cl.name = FullName(a, k) /\ cl.discovery = a.resolution
      BY <2>1, <2>2, <3>5
    <3>7. CASE a.resolution = "EDS"
      BY <3>5, <3>6, <3>7
    <3>8. CASE a.resolution # "EDS"
      <4>1. PICK k \in Numbers(a) : cl.name = FullName(a, k)
        BY <3>6
      <4>2. [name |-> FullName(a, k), discovery |-> a.resolution]
              \in ClustersOf({b2 \in backends : b2.resolution # "EDS"})
        BY <3>8 DEF ClustersOf
      <4> QED
        BY <3>5, <4>1, <4>2
    <3> QED
      BY <3>7, <3>8
  <2>4. ASSUME NEW cl \in clusters, cl.discovery = "EDS"
        PROVE  \E e \in eds : e.cluster = cl.name
    <3>1. PICK b \in backends : \E n \in Numbers(b) : cl.name = FullName(b, n) /\ cl.discovery = b.resolution
      BY <2>1, <2>2
    <3>2. PICK n \in Numbers(b) : cl.name = FullName(b, n) /\ b.resolution = "EDS"
      BY <2>4, <3>1
    <3>3. \E e \in EdsOf(b) : e.cluster = FullName(b, n)
      <4>1. PICK ready : EdsOf(b) = {[cluster |-> FullName(b, k), endpoints |-> ready] : k \in Numbers(b)}
        BY DEF EdsOf
      <4>2. [cluster |-> FullName(b, n), endpoints |-> ready] \in EdsOf(b)
        BY <4>1
      <4> QED
        BY <4>2
    <3> QED
      BY <2>1, <3>2, <3>3 DEF BuildEds
  <2> QED
    BY <2>3, <2>4 DEF NamesOf
<1> QED
  BY Invariance, <1>1, PTL

(* The virtual hosts of a filter chain, entry by entry.                    *)
LEMMA EntriesOfHost ==
  ASSUME IInv, Returned, NEW c \in chains, NEW d \in DOMAIN c.vhosts
  PROVE  LET s == c.vhosts[d]
         IN  /\ IsSeq(s) /\ InPrecedence(s)
             /\ Len(s) <= StableUpTo => InRuleOrder(s)
             /\ \A i \in DOMAIN s :
                  /\ IsHTTPRoute(s[i].route) /\ s[i].branch \in Kept(s[i].route)
                  /\ s[i] = Entry(s[i].route, s[i].branch) /\ IsMatch(s[i].match)
<1> DEFINE s == c.vhosts[d]
<1>1. InputSound /\ Gathered /\ HostSound(s, d, ListenersUpTo(c), backends) /\ InPrecedence(s)
  BY Returns DEF ChainSound, HostsSound
<1>2. IsSeq(s) /\ (Len(s) <= StableUpTo => InRuleOrder(s))
  BY <1>1 DEF HostSound
<1>3. \A i \in DOMAIN s : IsHTTPRoute(s[i].route) /\ s[i] \in Entries(s[i].route)
  BY <1>1, RightfulRoute
<1>4. \A i \in DOMAIN s : /\ s[i].branch \in Kept(s[i].route)
                          /\ s[i] = Entry(s[i].route, s[i].branch) /\ IsMatch(s[i].match)
  BY <1>3, EntrySound
<1> QED
  BY <1>1, <1>2, <1>3, <1>4

(* No path leaves Envoy with two slashes where the prefix was replaced.    *)
THEOREM NoDoubleSlashHolds == Spec => []NoDoubleSlash
<1>1. ASSUME IInv PROVE NoDoubleSlash
  <2> SUFFICES ASSUME Returned, NEW c \in chains, NEW d \in DOMAIN c.vhosts, NEW q \in Requests,
                      NEW i \in Answering(c.vhosts[d], q)
               PROVE  LET s == c.vhosts[d]
                      IN  /\ s[i].rewrite # NoRewrite /\ s[i].rewrite.modifier = "ReplacePrefixMatch"
                          /\ s[i].rewrite.to.slash
                          => ~(s[i].match.kind = "separated" /\ q.path # s[i].match.path)
    BY DEF NoDoubleSlash
  <2> DEFINE e == c.vhosts[d][i]
  <2>1. IsHTTPRoute(e.route) /\ e.branch \in Kept(e.route) /\ e = Entry(e.route, e.branch)
    BY <1>1, EntriesOfHost DEF Answering
  <2>2. ASSUME e.rewrite # NoRewrite, e.rewrite.modifier = "ReplacePrefixMatch", e.rewrite.to.slash
        PROVE  e.match.kind # "separated"
    BY <2>1, <2>2, NewPrefixTakesSeparator
  <2> QED
    BY <2>2
<1> QED
  BY Invariance, <1>1, PTL

(* Of the equal matches of one HTTPRoute the first rule's answers, in a    *)
(* virtual host that sort.Slice sorts by insertion.                        *)
THEOREM RuleOrderKeptHolds == Spec => []RuleOrderKept
<1>1. ASSUME IInv PROVE RuleOrderKept
  <2> SUFFICES ASSUME Returned, NEW c \in chains, NEW d \in DOMAIN c.vhosts, NEW q \in Requests,
                      Len(c.vhosts[d]) <= StableUpTo,
                      NEW i \in Answering(c.vhosts[d], q), NEW j \in DOMAIN c.vhosts[d],
                      LET s == c.vhosts[d]
                      IN  /\ s[j].route = s[i].route /\ Earlier(s[j].branch, s[i].branch)
                          /\ Key(s[j].match) = Key(s[i].match) /\ MatchesRequest(s[j].match, q)
               PROVE  FALSE
    BY DEF RuleOrderKept
  <2> DEFINE s == c.vhosts[d]
  <2>1. IsSeq(s) /\ InRuleOrder(s) /\ i \in DOMAIN s
    BY <1>1, EntriesOfHost DEF Answering
  <2>2. PICK k \in DOMAIN s : k < i /\ s[k] = s[j]
    BY <2>1 DEF InRuleOrder
  <2>3. k \in 1..(i - 1)
    BY <2>1, <2>2, SeqFacts
  <2>4. MatchesRequest(s[k].match, q)
    BY <2>2
  <2> QED
    BY <2>3, <2>4 DEF Answering
<1> QED
  BY Invariance, <1>1, PTL

----------------------------------------------------------------------------
(* What Envoy's match of an entry keeps of the match in the HTTPRoute.     *)

(* The length of a path prefix, in letters, where no separator is added.   *)
BaseLength(a) == 2 * Len(PrefixOf(a)) + (IF PrefixOf(a) = <<>> THEN 1 ELSE 0)

Prefixed(a) == a.type \in {"Unset", "PathPrefix"}

Faithful(a, m) ==
  /\ m.headers = a.headers /\ m.params = a.params
  /\ IsCatchAll(m) <=> MatchesAll(a)
  /\ m.kind = "path" <=> a.type = "Exact"
  /\ a.type = "Exact" => m.path = a.path
  /\ Prefixed(a) => /\ Len(PrefixOf(a)) \in Nat
                    /\ PathLength(m) \in BaseLength(a)..(2 * Len(PrefixOf(a)) + 1)
                    /\ m = TranslateMatch(a) => PathLength(m) = BaseLength(a)

LEMMA PathFacts ==
  ASSUME NEW path \in Paths
  PROVE  /\ path = [words |-> path.words, slash |-> path.slash] /\ path.slash \in BOOLEAN
         /\ Len(path.words) \in Nat /\ (Len(path.words) = 0 <=> path.words = <<>>)
         /\ path = Root <=> (path.words = <<>> /\ path.slash)
<1>1. path.words \in Seq(STRING) /\ path.slash \in BOOLEAN
      /\ path = [words |-> path.words, slash |-> path.slash]
  BY DEF Paths
<1>2. Len(path.words) \in Nat /\ (Len(path.words) = 0 <=> path.words = <<>>)
  BY <1>1, EmptySeq, LenProperties
<1>3. path = Root <=> (path.words = <<>> /\ path.slash)
  BY <1>1 DEF Root
<1> QED
  BY <1>1, <1>2, <1>3

LEMMA RootPrefix ==
  ASSUME NEW a, IsHTTPMatch(a), NEW m, m.kind = "prefix", m.path = Root,
         a.type = "Unset" \/ (a.type = "PathPrefix" /\ a.path = Root),
         m.headers = a.headers, m.params = a.params
  PROVE  Faithful(a, m)
<1>1. PrefixOf(a) = <<>>
  BY DEF PrefixOf, Root
<1>2. Len(<<>>) = 0
  BY EmptySeq
<1>3. PathLength(m) = 1 /\ BaseLength(a) = 1 /\ Len(PrefixOf(a)) = 0
  BY <1>1, <1>2 DEF PathLength, Letters, Root, BaseLength
<1>4. IsCatchAll(m) <=> MatchesAll(a)
  BY <1>1 DEF IsCatchAll, MatchesAll
<1> QED
  BY <1>3, <1>4 DEF Faithful, Prefixed

LEMMA OtherPrefix ==
  ASSUME NEW a, IsHTTPMatch(a), a.type = "PathPrefix", a.path # Root,
         NEW m, m.headers = a.headers, m.params = a.params, m.path.words = a.path.words,
         \/ m.kind = "separated" /\ ~m.path.slash
         \/ m.kind = "prefix" /\ m.path.slash /\ m # TranslateMatch(a)
  PROVE  Faithful(a, m)
<1>1. a.path \in Paths /\ (a.path.words = <<>> => a.path.slash)
  BY DEF IsHTTPMatch
<1>2. a.path.words # <<>> /\ Len(a.path.words) \in Nat
  BY <1>1, PathFacts
<1>3. PrefixOf(a) = a.path.words
  BY DEF PrefixOf
<1>4. BaseLength(a) = 2 * Len(a.path.words)
  BY <1>2, <1>3 DEF BaseLength
<1>5. PathLength(m) = 2 * Len(a.path.words) + (IF m.path.slash THEN 1 ELSE 0)
  BY DEF PathLength, Letters
<1>6. ~IsCatchAll(m) /\ ~MatchesAll(a)
  BY <1>2, <1>3 DEF IsCatchAll, MatchesAll, Root
<1>7. CASE m.kind = "separated" /\ ~m.path.slash
  <2>1. PathLength(m) = BaseLength(a)
    BY <1>2, <1>4, <1>5, <1>7
  <2>2. PathLength(m) \in BaseLength(a)..(2 * Len(PrefixOf(a)) + 1)
    BY <1>2, <1>3, <1>4, <2>1
  <2> QED
    BY <1>2, <1>3, <1>6, <1>7, <2>1, <2>2 DEF Faithful
<1>8. CASE m.kind = "prefix" /\ m.path.slash /\ m # TranslateMatch(a)
  <2>1. PathLength(m) = 2 * Len(a.path.words) + 1
    BY <1>5, <1>8
  <2>2. PathLength(m) \in BaseLength(a)..(2 * Len(PrefixOf(a)) + 1)
    BY <1>2, <1>3, <1>4, <2>1
  <2> QED
    BY <1>2, <1>3, <1>6, <1>8, <2>2 DEF Faithful
<1> QED
  BY <1>7, <1>8

LEMMA EntryIsFaithful ==
  ASSUME NEW route, IsHTTPRoute(route), NEW b \in Kept(route)
  PROVE  /\ Faithful(Source(route, b), Entry(route, b).match)
         /\ Source(route, b).type \in {"Unset", "PathPrefix", "Exact", "RegularExpression"}
<1> DEFINE a == Source(route, b)
           t == TranslateMatch(a)
           m == Entry(route, b).match
<1>1. IsHTTPMatch(a) /\ a.type # "Unsupported"
  BY BranchesOfRoute DEF Kept, Translatable
<1>2. m = t \/ (t.kind = "separated" /\ m = Separated(t))
  BY MatchOfEntry
<1>3. IsMatch(t) /\ t.headers = a.headers /\ t.params = a.params
  BY <1>1, TranslatedMatch
<1>4. t = [kind |-> t.kind, path |-> t.path, headers |-> t.headers, params |-> t.params]
  BY <1>1 DEF TranslateMatch, IsHTTPMatch
<1>5. ASSUME a.type = "Unset" \/ (a.type = "PathPrefix" /\ a.path = Root) PROVE Faithful(a, m)
  <2>1. t.kind = "prefix" /\ t.path = Root
    BY <1>1, <1>5, TranslatedMatch
  <2>2. m = t
    BY <1>2, <2>1
  <2> QED
    BY <1>1, <1>3, <1>5, <2>1, <2>2, RootPrefix
<1>6. ASSUME a.type = "PathPrefix" /\ a.path # Root PROVE Faithful(a, m)
  <2>1. t.kind = "separated" /\ t.path = [a.path EXCEPT !.slash = FALSE]
    BY <1>1, <1>6, TranslatedMatch
  <2>2. a.path = [words |-> a.path.words, slash |-> a.path.slash]
    BY <1>1, <1>6, PathFacts DEF IsHTTPMatch
  <2>3. t.path.words = a.path.words /\ ~t.path.slash /\ t.path = [words |-> t.path.words, slash |-> FALSE]
    BY <2>1, <2>2
  <2> HIDE DEF t, m, a
  <2>4. CASE m = t
    BY <1>1, <1>3, <1>6, <2>1, <2>3, <2>4, OtherPrefix
  <2>5. CASE m = Separated(t)
    <3>1. /\ m.kind = "prefix" /\ m.path = [t.path EXCEPT !.slash = TRUE]
          /\ m.headers = t.headers /\ m.params = t.params
      BY <1>4, <2>5 DEF Separated
    <3>2. m.path.words = a.path.words /\ m.path.slash
      BY <2>3, <3>1
    <3>3. m # t
      BY <2>1, <3>1
    <3> QED
      BY <1>1, <1>3, <1>6, <3>1, <3>2, <3>3, OtherPrefix DEF t
  <2> QED
    BY <1>2, <2>1, <2>4, <2>5
<1>7. ASSUME a.type \in {"Exact", "RegularExpression"} PROVE Faithful(a, m)
  <2>1. /\ m = t /\ t.path = a.path
        /\ t.kind = IF a.type = "Exact" THEN "path" ELSE "regex"
    BY <1>1, <1>2, <1>7, TranslatedMatch
  <2>2. ~IsCatchAll(m) /\ ~MatchesAll(a) /\ ~Prefixed(a)
    BY <1>7, <2>1 DEF IsCatchAll, MatchesAll, Prefixed
  <2> QED
    BY <1>3, <1>7, <2>1, <2>2 DEF Faithful
<1> QED
  BY <1>1, <1>5, <1>6, <1>7 DEF IsHTTPMatch

(* Two matches of one request, as the HTTPRoutes say them (a and b) and as *)
(* Envoy gets them (m and n): a more specific one comes before the other,  *)
(* unless that one was lengthened by its separator.                        *)
MoreConditions(a, b) ==
  \/ Cardinality(a.headers) > Cardinality(b.headers)
  \/ Cardinality(a.headers) = Cardinality(b.headers) /\ Cardinality(a.params) > Cardinality(b.params)

LEMMA SpecificCases ==
  ASSUME NEW a, NEW b, MoreSpecific(a, b),
         a.type \in {"Unset", "PathPrefix", "Exact", "RegularExpression"},
         b.type \in {"Unset", "PathPrefix", "Exact", "RegularExpression"}
  PROVE  \/ a.type = "Exact" /\ b.type # "Exact"
         \/ /\ (a.type = "Exact" /\ b.type = "Exact") \/ (Prefixed(a) /\ Prefixed(b))
            /\ \/ Len(PrefixOf(a)) > Len(PrefixOf(b))
               \/ PrefixOf(a) = PrefixOf(b) /\ MoreConditions(a, b)
         \/ MatchesAll(b) /\ ~MatchesAll(a)
BY DEF MoreSpecific, Prefixed, MoreConditions

LEMMA CatchAllComesLast ==
  ASSUME NEW a, NEW b, NEW m, NEW n, Faithful(a, m), Faithful(b, n), ~MatchesAll(a), MatchesAll(b)
  PROVE  Before(m, n)
<1>1. Key(m)[1] = 1 /\ Key(n)[1] = 0
  BY DEF Faithful, Key
<1> QED
  BY <1>1, BeforeCases

LEMMA ExactComesFirst ==
  ASSUME NEW a, NEW b, NEW m, NEW n, Faithful(a, m), Faithful(b, n), a.type = "Exact", b.type # "Exact"
  PROVE  Before(m, n)
<1>1. ~MatchesAll(a)
  BY DEF MatchesAll
<1>2. /\ Key(m)[1] = 1 /\ Key(m)[2] = 1 /\ Key(n)[2] = 0
      /\ Key(n)[1] \in {0, 1}
  BY <1>1 DEF Faithful, Key
<1> QED
  BY <1>2, BeforeCases

LEMMA LongerPrefixFirst ==
  ASSUME NEW a, NEW b, NEW m, NEW n, Faithful(a, m), Faithful(b, n), Prefixed(a), Prefixed(b),
         Len(PrefixOf(a)) > Len(PrefixOf(b))
  PROVE  Before(m, n)
<1>1. /\ Len(PrefixOf(a)) \in Nat /\ Len(PrefixOf(b)) \in Nat
      /\ PathLength(m) \in BaseLength(a)..(2 * Len(PrefixOf(a)) + 1)
      /\ PathLength(n) \in BaseLength(b)..(2 * Len(PrefixOf(b)) + 1)
  BY DEF Faithful
<1>2. PrefixOf(a) # <<>>
  BY <1>1, EmptySeq
<1>3. BaseLength(a) = 2 * Len(PrefixOf(a))
  BY <1>2, <1>1 DEF BaseLength
<1>4. BaseLength(b) \in Int
  BY <1>1 DEF BaseLength
<1>5. PathLength(m) > PathLength(n)
  BY <1>1, <1>3, <1>4
<1>6. ~MatchesAll(a)
  BY <1>2 DEF MatchesAll
<1>7. /\ Key(m)[1] = 1 /\ Key(n)[1] \in {0, 1} /\ Key(m)[2] = 0 /\ Key(n)[2] = 0
      /\ Key(m)[3] = PathLength(m) /\ Key(n)[3] = PathLength(n)
  BY <1>6 DEF Faithful, Key, Prefixed
<1> QED
  BY <1>5, <1>7, BeforeCases

LEMMA MoreConditionsFirst ==
  ASSUME NEW a, NEW b, NEW m, NEW n, IsMatch(m), IsMatch(n), Faithful(a, m), Faithful(b, n),
         MoreConditions(a, b), PathLength(m) >= PathLength(n),
         m.kind = "path" <=> n.kind = "path"
  PROVE  Before(m, n)
<1>1. /\ \A k \in 1..5 : Key(m)[k] \in Int /\ Key(n)[k] \in Int
      /\ Key(m)[2] = Key(n)[2]
      /\ Key(m)[3] = PathLength(m) /\ Key(n)[3] = PathLength(n)
      /\ Key(m)[4] = Cardinality(a.headers) /\ Key(n)[4] = Cardinality(b.headers)
      /\ Key(m)[5] = Cardinality(a.params) /\ Key(n)[5] = Cardinality(b.params)
  BY KeyType DEF Key, Faithful
<1>2. Cardinality(b.headers) \in Nat /\ Cardinality(b.params) \in Nat
  BY FS_CardinalityType DEF IsMatch, Faithful
<1>3. ~MatchesAll(a)
  <2> SUFFICES ASSUME a.headers = {}, a.params = {} PROVE FALSE
    BY DEF MatchesAll
  <2>1. Cardinality(a.headers) = 0 /\ Cardinality(a.params) = 0
    BY FS_EmptySet
  <2> QED
    BY <1>2, <2>1 DEF MoreConditions
<1>4. Key(m)[1] = 1 /\ Key(n)[1] \in {0, 1}
  BY <1>3 DEF Faithful, Key
<1> QED
  BY <1>1, <1>4, BeforeCases DEF MoreConditions

LEMMA MoreSpecificBefore ==
  ASSUME NEW a, NEW b, NEW m, NEW n, NEW q,
         Faithful(a, m), Faithful(b, n), IsMatch(m), IsMatch(n),
         a.type \in {"Unset", "PathPrefix", "Exact", "RegularExpression"},
         b.type \in {"Unset", "PathPrefix", "Exact", "RegularExpression"},
         MatchesRequest(m, q), MatchesRequest(n, q), MoreSpecific(a, b), ~Before(m, n)
  PROVE  n # TranslateMatch(b) /\ PrefixOf(a) = PrefixOf(b)
<1>1. \/ /\ a.type = "Exact" /\ b.type = "Exact"
         /\ \/ Len(PrefixOf(a)) > Len(PrefixOf(b))
            \/ PrefixOf(a) = PrefixOf(b) /\ MoreConditions(a, b)
      \/ Prefixed(a) /\ Prefixed(b) /\ PrefixOf(a) = PrefixOf(b) /\ MoreConditions(a, b)
  BY SpecificCases, CatchAllComesLast, ExactComesFirst, LongerPrefixFirst
<1>2. CASE a.type = "Exact" /\ b.type = "Exact"
  <2>1. m.kind = "path" /\ n.kind = "path" /\ m.path = a.path /\ n.path = b.path
    BY <1>2 DEF Faithful
  <2>2. m.path = q.path /\ n.path = q.path
    BY <2>1 DEF MatchesRequest, PathMatches
  <2>3. PrefixOf(a) = PrefixOf(b)
    BY <1>2, <2>1, <2>2 DEF PrefixOf
  <2>4. PathLength(m) = PathLength(n) /\ PathLength(m) \in Int
    <3>1. Key(m)[3] = PathLength(m)
      BY DEF Key
    <3> QED
      BY <2>1, <2>2, <3>1, KeyType DEF PathLength
  <2>5. Len(PrefixOf(b)) \in Nat
    BY <1>2, <2>1, PathFacts DEF PrefixOf, IsMatch
  <2>6. MoreConditions(a, b)
    BY <1>1, <1>2, <2>3, <2>5 DEF Prefixed
  <2> QED
    BY <2>1, <2>4, <2>6, MoreConditionsFirst
<1>3. CASE Prefixed(a) /\ Prefixed(b) /\ PrefixOf(a) = PrefixOf(b) /\ MoreConditions(a, b)
  <2>1. m.kind # "path" /\ n.kind # "path"
    BY <1>3 DEF Faithful, Prefixed
  <2>2. ~(PathLength(m) >= PathLength(n))
    BY <1>3, <2>1, MoreConditionsFirst
  <2>3. BaseLength(a) = BaseLength(b) /\ BaseLength(a) \in Int
    BY <1>3 DEF BaseLength, Faithful
  <2>4. PathLength(m) >= BaseLength(a)
    BY <1>3, <2>3 DEF Faithful
  <2>5. n # TranslateMatch(b)
    BY <1>3, <2>2, <2>3, <2>4 DEF Faithful
  <2> QED
    BY <1>3, <2>5
<1> QED
  BY <1>1, <1>2, <1>3

(* The answer comes from the most specific of the matches that a request   *)
(* meets in its virtual host, across routes, rules and listeners; only a   *)
(* match with a new prefix precedes one of that prefix and more conditions.*)
THEOREM MostSpecificFirstHolds == Spec => []MostSpecificFirst
<1>1. ASSUME IInv PROVE MostSpecificFirst
  <2> SUFFICES ASSUME Returned, NEW c \in chains, NEW d \in DOMAIN c.vhosts, NEW q \in Requests,
                      NEW i \in Answering(c.vhosts[d], q), NEW j \in DOMAIN c.vhosts[d],
                      MatchesRequest(c.vhosts[d][j].match, q),
                      MoreSpecific(SourceOf(c.vhosts[d][j]), SourceOf(c.vhosts[d][i]))
               PROVE  LET s == c.vhosts[d]
                      IN  Lengthened(s[i]) /\ PrefixOf(SourceOf(s[i])) = PrefixOf(SourceOf(s[j]))
    BY DEF MostSpecificFirst
  <2> DEFINE s == c.vhosts[d]
             a == SourceOf(s[j])
             b == SourceOf(s[i])
             m == s[j].match
             n == s[i].match
  <2>1. i \in DOMAIN s /\ MatchesRequest(n, q) /\ \A k \in 1..(i - 1) : ~MatchesRequest(s[k].match, q)
    BY DEF Answering
  <2>2. IsSeq(s) /\ InPrecedence(s) /\ IsMatch(m) /\ IsMatch(n)
    BY <1>1, <2>1, EntriesOfHost
  <2>3. /\ Faithful(a, m) /\ a.type \in {"Unset", "PathPrefix", "Exact", "RegularExpression"}
        /\ Faithful(b, n) /\ b.type \in {"Unset", "PathPrefix", "Exact", "RegularExpression"}
    BY <1>1, <2>1, EntriesOfHost, EntryIsFaithful DEF SourceOf
  <2>4. ~Before(m, n)
    <3>1. i \in Nat /\ j \in Nat /\ j >= 1
      BY <2>1, <2>2, SeqFacts
    <3>2. ~(j < i)
      BY <2>1, <3>1
    <3>3. CASE i < j
      BY <2>1, <2>2, <3>3 DEF InPrecedence
    <3>4. CASE i = j
      BY <2>2, <3>4, EqualKeysTie
    <3> QED
      BY <3>1, <3>2, <3>3, <3>4
  <2>5. n # TranslateMatch(b) /\ PrefixOf(a) = PrefixOf(b)
    BY <2>1, <2>2, <2>3, <2>4, MoreSpecificBefore
  <2> QED
    BY <2>5 DEF Lengthened
<1> QED
  BY Invariance, <1>1, PTL

----------------------------------------------------------------------------
(* What is returned depends on the input alone: a second invariant, on top *)
(* of the first, follows the conditions and the backends.                  *)

Completed(r) ==
  /\ BackendsOf(r) \subseteq backends
  /\ \A i \in Ours(r) : statuses[r][i].reason = "Accepted" => statuses[r][i].resolved # "unset"

BackendsFollow == backends \subseteq UNION {BackendsOf(r) : r \in Translatees}

StatusesFollow ==
  \A r \in DOMAIN statuses : \A i \in DOMAIN statuses[r] :
    statuses[r][i].resolved # "unset" => statuses[r][i].reason = "Accepted" /\ r \in Translatees

CompletedBehind ==
  \A i \in DOMAIN listeners :
    Behind(i) /\ IsHTTP(listeners[i]) => \A r \in attached[listeners[i]] : Completed(r)

CompletedSoFar ==
  pc = "listeners" =>
    \A n \in DOMAIN list : n < next /\ list[n] \in attached[Current] => Completed(list[n])

FollowsInput ==
  Running => BackendsFollow /\ StatusesFollow /\ CompletedBehind /\ CompletedSoFar

LEMMA TranslateesKept ==
  ASSUME UNCHANGED inputs
  PROVE  Translatees' = Translatees
<1>1. listeners' = listeners /\ routes' = routes
  BY DEF inputs
<1>2. \A r, l : Attaches(r, l)' = Attaches(r, l)
  BY <1>1, AttachesKept
<1> QED
  BY <1>1, <1>2 DEF Translatees

LEMMA ResultsFollow ==
  ASSUME BackendsFollow, StatusesFollow, UNCHANGED <<inputs, backends, statuses>>
  PROVE  BackendsFollow' /\ StatusesFollow'
<1>1. Translatees' = Translatees
  BY TranslateesKept
<1> QED
  BY <1>1 DEF BackendsFollow, StatusesFollow

LEMMA StatusRecord ==
  ASSUME StatusesSound, NEW r \in ToSet(list), NEW i \in Ours(r)
  PROVE  \E a, b, v : statuses[r][i] = [ref |-> a, reason |-> b, resolved |-> v]
<1>1. PICK v : statuses[r][i] = [ParentStatus(r.parents[i], r) EXCEPT !.resolved = v]
  BY DEF StatusesSound
<1>2. PICK a, b : ParentStatus(r.parents[i], r) = [ref |-> a, reason |-> b, resolved |-> "unset"]
  BY DEF ParentStatus
<1>3. statuses[r][i] = [ref |-> a, reason |-> b, resolved |-> v]
  BY <1>1, <1>2
<1> QED
  BY <1>3

(* Completing the statuses of a route takes nothing from the others'.      *)
LEMMA CompletedStatuses ==
  ASSUME StatusesSound, NEW r \in ToSet(list), statuses' = CompleteStatuses(r),
         backends' = backends \cup BackendsOf(r)
  PROVE  /\ DOMAIN statuses' = DOMAIN statuses
         /\ \A q \in ToSet(list) : /\ DOMAIN statuses'[q] = DOMAIN statuses[q]
                                   /\ \A i \in Ours(q) : statuses'[q][i].reason = statuses[q][i].reason
         /\ \A q \in ToSet(list) : Completed(q) => Completed(q)'
         /\ Completed(r)'
         /\ \A i \in Ours(r) : statuses[r][i].reason # "Accepted" => statuses'[r][i] = statuses[r][i]
         /\ \A q \in ToSet(list) \ {r} : statuses'[q] = statuses[q]
<1> DEFINE c == IF Resolved(r) THEN "true" ELSE "false"
<1>1. DOMAIN statuses' = DOMAIN statuses /\ r \in DOMAIN statuses
  BY DEF CompleteStatuses, StatusesSound
<1>2. \A q \in ToSet(list) \ {r} : statuses'[q] = statuses[q]
  BY DEF CompleteStatuses, StatusesSound
<1>3. DOMAIN statuses[r] = Ours(r)
  BY DEF StatusesSound
<1>4. statuses'[r] = [i \in Ours(r) |-> IF statuses[r][i].reason = "Accepted"
                                        THEN [statuses[r][i] EXCEPT !.resolved = c]
                                        ELSE statuses[r][i]]
  BY <1>1, <1>3 DEF CompleteStatuses
<1>5. c # "unset"
  OBVIOUS
<1> HIDE DEF c
<1>6. ASSUME NEW i \in Ours(r)
      PROVE  /\ statuses'[r][i].reason = statuses[r][i].reason
             /\ statuses[r][i].reason = "Accepted" => statuses'[r][i].resolved = c
             /\ statuses[r][i].reason # "Accepted" => statuses'[r][i] = statuses[r][i]
  <2>1. PICK a, b, v : statuses[r][i] = [ref |-> a, reason |-> b, resolved |-> v]
    BY StatusRecord
  <2>2. CASE b = "Accepted"
    <3>1. statuses'[r][i] = [ref |-> a, reason |-> b, resolved |-> c]
      BY <1>4, <2>1, <2>2
    <3> QED
      BY <2>1, <2>2, <3>1
  <2>3. CASE b # "Accepted"
    <3>1. statuses'[r][i] = statuses[r][i]
      BY <1>4, <2>1, <2>3
    <3> QED
      BY <2>1, <2>3, <3>1
  <2> QED
    BY <2>2, <2>3
<1>7. Completed(r)'
  BY <1>5, <1>6 DEF Completed
<1>8. \A q \in ToSet(list) \ {r} : Completed(q) => Completed(q)'
  BY <1>2 DEF Completed
<1>9. DOMAIN statuses'[r] = DOMAIN statuses[r]
  BY <1>3, <1>4
<1> QED
  BY <1>1, <1>2, <1>6, <1>7, <1>8, <1>9

LEMMA GatherFollows == IInv /\ Gather => FollowsInput'
<1> SUFFICES ASSUME IInv, Gather PROVE FollowsInput'
  OBVIOUS
<1>1. pc' = "ports" /\ backends' = {} /\ listeners' = listeners
  BY DEF IInv, ControlSound, Gather, inputs
<1>2. statuses' = [r \in ToSet(list') |-> [i \in Ours(r) |-> ParentStatus(r.parents[i], r)]]
  BY DEF Gather
<1>3. \A ref, r : ParentStatus(ref, r).resolved = "unset"
  BY DEF ParentStatus
<1>4. StatusesFollow'
  BY <1>2, <1>3 DEF StatusesFollow
<1>5. \A i \in DOMAIN listeners' : ~Behind(i)'
  <2>1. \A i \in DOMAIN listeners : listeners[i].port \in todo'
    BY DEF Gather, ToSet
  <2> QED
    BY <1>1, <2>1 DEF Behind
<1> QED
  BY <1>1, <1>4, <1>5 DEF FollowsInput, BackendsFollow, CompletedBehind, CompletedSoFar

(* The steps of the loops over ports and listeners.                        *)
LEMMA LoopsFollow ==
  ASSUME IInv, IInv', FollowsInput, Running,
         UNCHANGED <<inputs, list, attached, statuses, backends>>,
         \A i \in DOMAIN listeners : Behind(i)' /\ IsHTTP(listeners[i]) =>
           Behind(i) \/ (listeners[i] = Current /\ \A r \in attached[Current] : Completed(r)),
         pc' = "listeners" => next' = 1
  PROVE  FollowsInput'
<1>1. BackendsFollow' /\ StatusesFollow'
  BY ResultsFollow DEF FollowsInput
<1>2. listeners' = listeners /\ \A r : Completed(r)' <=> Completed(r)
  BY DEF inputs, Completed
<1>3. CompletedBehind'
  BY <1>2 DEF FollowsInput, CompletedBehind
<1>4. CompletedSoFar'
  <2> SUFFICES ASSUME pc' = "listeners" PROVE CompletedSoFar'
    BY DEF CompletedSoFar
  <2>1. TranslationSound'
    BY DEF IInv, Running
  <2>2. \A n \in DOMAIN list' : n \in Nat /\ n >= 1
    BY <2>1, SeqFacts DEF TranslationSound, Gathered
  <2> QED
    BY <2>2 DEF CompletedSoFar
<1> QED
  BY <1>1, <1>3, <1>4 DEF FollowsInput

LEMMA BeginPortFollows == IInv /\ IInv' /\ FollowsInput /\ BeginPort => FollowsInput'
<1> SUFFICES ASSUME IInv, IInv', FollowsInput, BeginPort PROVE FollowsInput'
  OBVIOUS
<1>1. /\ UNCHANGED <<inputs, list, attached, statuses, backends>> /\ Running
      /\ pc = "ports" /\ pc' = "listeners" /\ index' = 1 /\ next' = 1
  BY DEF BeginPort, Running
<1>2. listeners' = listeners
  BY <1>1 DEF inputs
<1>3. PICK p \in todo : port' = p /\ todo' = todo \ {p}
  BY DEF BeginPort
<1>4. \A i \in DOMAIN listeners : i \in Nat /\ i >= 1
  BY SeqFacts DEF IInv, InputSound, IsGateway
<1>5. \A i \in DOMAIN listeners : Behind(i)' => Behind(i)
  BY <1>1, <1>2, <1>3, <1>4 DEF Behind
<1> QED
  BY <1>1, <1>5, LoopsFollow

LEMMA SkipListenerFollows == IInv /\ IInv' /\ FollowsInput /\ SkipListener => FollowsInput'
<1> SUFFICES ASSUME IInv, IInv', FollowsInput, SkipListener PROVE FollowsInput'
  OBVIOUS
<1>1. /\ UNCHANGED <<inputs, pc, todo, port, next, list, attached, statuses, backends>>
      /\ InListener /\ IsValid(Current) /\ ~Translated /\ index' = NextListener
  BY DEF SkipListener
<1>2. pc = "listeners" /\ Running /\ TranslationSound /\ InputSound /\ ControlSound
  BY <1>1 DEF InListener, Running, IInv
<1>3. next = 1
  BY <1>1, <1>2 DEF TranslationSound, RoutesBuilt
<1>4. ~IsHTTP(Current)
  BY <1>1 DEF Translated, IsHTTP
<1>5. \A i \in DOMAIN listeners : Behind(i)' => Behind(i) \/ listeners[i] = Current
  BY <1>1, <1>2, BehindGrows
<1> QED
  BY <1>1, <1>2, <1>3, <1>4, <1>5, LoopsFollow

LEMMA ListenerEndFollows ==
  IInv /\ IInv' /\ FollowsInput /\ (FinishListener \/ FailListener) => FollowsInput'
<1> SUFFICES ASSUME IInv, IInv', FollowsInput, FinishListener \/ FailListener PROVE FollowsInput'
  OBVIOUS
<1>1. /\ UNCHANGED <<inputs, pc, todo, port, list, attached, statuses, backends>>
      /\ InListener /\ RoutesAhead = {} /\ index' = NextListener /\ next' = 1
  BY DEF FinishListener, FailListener
<1>2. pc = "listeners" /\ Running /\ TranslationSound /\ InputSound /\ ControlSound
      /\ ListenersAhead # {} /\ index \in Nat /\ next \in Nat /\ Gathered
  BY <1>1 DEF InListener, Running, IInv, ControlSound, TranslationSound
<1>3. Current \in ToSet(listeners)
  BY <1>2, CurrentListener
<1>4. ASSUME NEW r \in attached[Current] PROVE Completed(r)
  <2>1. r \in ToSet(list)
    BY <1>2, <1>3, AttachedRoute
  <2>2. PICK n \in DOMAIN list : list[n] = r
    BY <2>1 DEF ToSet
  <2>3. n \in Nat
    BY <1>2, SeqFacts DEF Gathered
  <2>4. n < next
    BY <1>1, <1>2, <2>2, <2>3 DEF RoutesAhead
  <2> QED
    BY <1>2, <2>2, <2>4 DEF FollowsInput, CompletedSoFar
<1>5. \A i \in DOMAIN listeners : Behind(i)' => Behind(i) \/ listeners[i] = Current
  BY <1>1, <1>2, BehindGrows
<1> QED
  BY <1>1, <1>2, <1>4, <1>5, LoopsFollow

LEMMA EndPortFollows == IInv /\ IInv' /\ FollowsInput /\ EndPort => FollowsInput'
<1> SUFFICES ASSUME IInv, IInv', FollowsInput, EndPort PROVE FollowsInput'
  OBVIOUS
<1>1. /\ UNCHANGED <<inputs, todo, port, index, list, attached, statuses, backends>>
      /\ pc = "listeners" /\ pc' = "ports" /\ ListenersAhead = {} /\ Running
  BY DEF EndPort, progress, results, Running
<1>2. listeners' = listeners /\ InputSound /\ index \in Nat
  BY <1>1 DEF inputs, IInv, ControlSound
<1>3. \A i \in DOMAIN listeners : listeners[i].port = port => i < index
  BY <1>1, <1>2, ListenerFacts DEF ListenersAhead
<1>4. \A i \in DOMAIN listeners : Behind(i)' => Behind(i)
  BY <1>1, <1>2, <1>3 DEF Behind
<1> QED
  BY <1>1, <1>4, LoopsFollow

LEMMA FinishFollows == IInv /\ IInv' /\ FollowsInput /\ Finish => FollowsInput'
<1> SUFFICES ASSUME IInv, IInv', FollowsInput, Finish PROVE FollowsInput'
  OBVIOUS
<1>1. /\ UNCHANGED <<inputs, list, attached, statuses, backends>>
      /\ pc = "ports" /\ pc' = "done" /\ todo = {} /\ Running
  BY DEF Finish, Running
<1>2. \A i \in DOMAIN listeners : Behind(i)
  BY <1>1 DEF Behind
<1> QED
  BY <1>1, <1>2, LoopsFollow

LEMMA TranslateRouteFollows == IInv /\ IInv' /\ FollowsInput /\ TranslateRoute => FollowsInput'
<1> SUFFICES ASSUME IInv, IInv', FollowsInput, TranslateRoute PROVE FollowsInput'
  OBVIOUS
<1>1. /\ UNCHANGED <<inputs, pc, todo, port, index, list, attached>>
      /\ InListener /\ Translated /\ RoutesAhead # {}
      /\ backends' = backends \cup BackendsOf(NextRoute)
      /\ statuses' = CompleteStatuses(NextRoute)
      /\ next' = Min(RoutesAhead) + 1
  BY DEF TranslateRoute
<1>2. /\ pc = "listeners" /\ Running /\ TranslationSound /\ InputSound /\ ListenersAhead # {}
      /\ index \in Nat /\ next \in Nat /\ Gathered /\ StatusesSound /\ listeners' = listeners
  BY <1>1 DEF InListener, Running, IInv, ControlSound, TranslationSound, inputs
<1>3. Current \in ToSet(listeners) /\ Current' = Current
  BY <1>1, <1>2, CurrentListener, CurrentKept
<1> DEFINE m == Min(RoutesAhead)
<1>4. /\ m \in DOMAIN list /\ NextRoute = list[m] /\ NextRoute \in attached[Current]
      /\ \A n \in DOMAIN list :
           n < m + 1 /\ list[n] \in attached[Current] => n < next \/ n = m
  BY <1>1, <1>2, CurrentRoute
<1>5. NextRoute \in ToSet(list) /\ NextRoute \in routes /\ Attaches(NextRoute, Current)
  BY <1>2, <1>3, <1>4, AttachedRoute
<1>6. PICK r \in ToSet(list) : r = NextRoute
  BY <1>5
<1>7. NextRoute \in Translatees /\ Translatees' = Translatees
  BY <1>1, <1>3, <1>5, TranslateesKept DEF Translatees, Translated
<1>8. BackendsFollow'
  BY <1>1, <1>2, <1>7 DEF FollowsInput, BackendsFollow
<1>9. \A q \in ToSet(list) : Completed(q) => Completed(q)'
  BY <1>1, <1>2, <1>5, CompletedStatuses
<1>10. Completed(r)'
  BY <1>1, <1>2, <1>6, CompletedStatuses
<1>11. StatusesFollow'
  <2> SUFFICES ASSUME NEW q \in DOMAIN statuses', NEW i \in DOMAIN statuses'[q],
                      statuses'[q][i].resolved # "unset"
               PROVE  statuses'[q][i].reason = "Accepted" /\ q \in Translatees
    BY <1>7 DEF StatusesFollow
  <2>1. q \in ToSet(list) /\ q \in DOMAIN statuses /\ i \in Ours(q) /\ i \in DOMAIN statuses[q]
        /\ statuses'[q][i].reason = statuses[q][i].reason
    BY <1>1, <1>2, <1>5, CompletedStatuses DEF StatusesSound
  <2>2. CASE q # NextRoute
    BY <1>1, <1>2, <1>5, <2>1, <2>2, CompletedStatuses DEF FollowsInput, StatusesFollow
  <2>3. CASE q = NextRoute
    <3>1. CASE statuses[q][i].reason = "Accepted"
      BY <1>7, <2>1, <2>3, <3>1
    <3>2. CASE statuses[q][i].reason # "Accepted"
      <4>1. statuses'[q][i] = statuses[q][i]
        BY <1>1, <1>2, <1>5, <2>1, <2>3, <3>2, CompletedStatuses
      <4> QED
        BY <1>2, <2>1, <3>2, <4>1 DEF FollowsInput, StatusesFollow
    <3> QED
      BY <3>1, <3>2
  <2> QED
    BY <2>2, <2>3
<1>12. CompletedBehind'
  <2> SUFFICES ASSUME NEW i \in DOMAIN listeners, Behind(i)', IsHTTP(listeners[i]),
                      NEW q \in attached[listeners[i]]
               PROVE  Completed(q)'
    BY <1>1, <1>2 DEF CompletedBehind
  <2>1. Behind(i) /\ listeners[i] \in ToSet(listeners)
    BY <1>1, <1>2, ListenerFacts DEF Behind
  <2>2. q \in ToSet(list)
    BY <1>2, <2>1, AttachedRoute
  <2> QED
    BY <1>2, <1>9, <2>1, <2>2 DEF FollowsInput, CompletedBehind
<1>13. CompletedSoFar'
  <2> SUFFICES ASSUME NEW n \in DOMAIN list, n < next', NEW q \in attached[Current], q = list[n]
               PROVE  Completed(q)'
    BY <1>1, <1>3 DEF CompletedSoFar
  <2>1. q \in ToSet(list) /\ (n < next \/ n = m)
    BY <1>1, <1>4 DEF ToSet
  <2>2. CASE n < next
    BY <1>2, <1>9, <2>1, <2>2 DEF FollowsInput, CompletedSoFar
  <2>3. CASE n = m
    BY <1>4, <1>10, <1>6, <2>3
  <2> QED
    BY <2>1, <2>2, <2>3
<1> QED
  BY <1>8, <1>11, <1>12, <1>13 DEF FollowsInput

LEMMA StutterFollows == IInv /\ FollowsInput /\ UNCHANGED vars => FollowsInput'
<1> SUFFICES ASSUME FollowsInput, UNCHANGED vars PROVE FollowsInput'
  OBVIOUS
<1>1. /\ UNCHANGED <<inputs, pc, todo, port, index, next, list, attached, statuses, backends>>
      /\ listeners' = listeners
  BY DEF vars, inputs, progress, results
<1>2. SUFFICES ASSUME Running PROVE FollowsInput'
  BY <1>1 DEF FollowsInput, Running
<1>3. BackendsFollow' /\ StatusesFollow'
  BY <1>1, <1>2, ResultsFollow DEF FollowsInput
<1>4. \A r : Completed(r)' <=> Completed(r)
  BY <1>1 DEF Completed
<1>5. CompletedBehind'
  BY <1>1, <1>2, <1>4 DEF FollowsInput, CompletedBehind, Behind
<1>6. Current' = Current
  BY <1>1, CurrentKept
<1>7. CompletedSoFar'
  BY <1>1, <1>2, <1>4, <1>6 DEF FollowsInput, CompletedSoFar
<1> QED
  BY <1>3, <1>5, <1>7 DEF FollowsInput

LEMMA FollowsInputInvariant == Spec => []FollowsInput
<1>1. Init => FollowsInput
  BY DEF Init, FollowsInput, Running
<1>2. IInv /\ IInv' /\ FollowsInput /\ [Next]_vars => FollowsInput'
  <2>1. Panic \/ Fail => FollowsInput'
    BY DEF Panic, Fail, FollowsInput, Running
  <2> QED
    BY <2>1, GatherFollows, BeginPortFollows, SkipListenerFollows, TranslateRouteFollows,
       ListenerEndFollows, EndPortFollows, FinishFollows, StutterFollows DEF Next
<1> QED
  BY <1>1, <1>2, Invariance, PTL DEF Spec

(* Clusters, assignments and conditions are those of the routes that HTTP  *)
(* listeners let attach, whatever the order of ports, listing and routes.  *)
THEOREM ResultFollowsFromInputHolds == Spec => []ResultFollowsFromInput
<1>1. ASSUME IInv, FollowsInput PROVE ResultFollowsFromInput
  <2> SUFFICES ASSUME Returned
               PROVE  LET known == UNION {BackendsOf(r) : r \in Translatees}
                      IN  /\ clusters \subseteq ClustersOf(known)
                          /\ NamesOf(clusters) = NamesOf(ClustersOf(known))
                          /\ eds = BuildEds(known)
                          /\ \A r \in DOMAIN statuses : \A i \in DOMAIN statuses[r] :
                               statuses[r][i].resolved # "unset" <=>
                                 statuses[r][i].reason = "Accepted" /\ r \in Translatees
    BY DEF ResultFollowsFromInput
  <2> DEFINE known == UNION {BackendsOf(r) : r \in Translatees}
  <2>1. /\ InputSound /\ Gathered /\ StatusesSound
        /\ clusters \subseteq ClustersOf(backends) /\ NamesOf(clusters) = NamesOf(ClustersOf(backends))
        /\ eds = BuildEds(backends)
    BY <1>1, Returns
  <2>2. BackendsFollow /\ StatusesFollow /\ CompletedBehind
    BY <1>1 DEF FollowsInput, Running, Returned
  <2>3. ASSUME NEW r \in Translatees
        PROVE  \E l \in ToSet(listeners) : IsHTTP(l) /\ r \in attached[l]
    <3>1. PICK l \in ToSet(listeners) : IsHTTP(l) /\ Attaches(r, l)
      BY <2>3 DEF Translatees, IsHTTP
    <3>2. r \in ToSet(list)
      BY <2>1, <2>3, <3>1 DEF Translatees, Attaches, Gathered
    <3> QED
      BY <2>1, <3>1, <3>2 DEF Gathered
  <2>4. ASSUME NEW r \in Translatees PROVE Completed(r)
    <3>1. PICK l \in ToSet(listeners) : IsHTTP(l) /\ r \in attached[l]
      BY <2>3
    <3>2. PICK k \in DOMAIN listeners : listeners[k] = l
      BY <2>1, ListenerFacts
    <3>3. Behind(k)
      BY <1>1 DEF IInv, ControlSound, Returned, Behind
    <3> QED
      BY <2>2, <3>1, <3>2, <3>3 DEF CompletedBehind
  <2>5. backends = known
    BY <2>2, <2>4 DEF BackendsFollow, Completed
  <2>6. ASSUME NEW r \in DOMAIN statuses, NEW i \in DOMAIN statuses[r],
               statuses[r][i].reason = "Accepted", r \in Translatees
        PROVE  statuses[r][i].resolved # "unset"
    <3>5. i \in Ours(r)
      BY <2>1 DEF StatusesSound
    <3> QED
      BY <2>4, <2>6, <3>5 DEF Completed
  <2> QED
    BY <2>1, <2>2, <2>5, <2>6 DEF StatusesFollow
<1> QED
  BY Invariance, FollowsInputInvariant, <1>1, PTL
=============================================================================
