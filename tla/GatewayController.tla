-------------------------- MODULE GatewayController --------------------------
(***************************************************************************)
(* The controller from watch events to xDS snapshots and statuses          *)
(* (pkg/controllers): users edit Gateways, HTTPRoutes and backends in the  *)
(* API server; informers bring the changes, late, to caches and handlers;  *)
(* handlers add Gateway keys to the work queue; workers run syncHandler,   *)
(* which reads the caches at several moments, pushes a snapshot and writes *)
(* statuses, and those writes come back as watch events.                   *)
(*                                                                         *)
(* Abstractions.  An object's spec is the number of the edit that wrote    *)
(* it; "backend" stands for everything else a translation reads            *)
(* (XBackendDestinations, Services, Secrets, EndpointSlices, Namespaces).  *)
(* Resource versions are not counted: a cached object is current exactly   *)
(* when none of its events is undelivered, and a worker's copy carries a   *)
(* flag that every later write to the object clears.                       *)
(***************************************************************************)
EXTENDS WorkQueue, Integers

CONSTANTS
  Routes, Workers, NoKey,
  Absent,            \* no such object / no status yet
  Tombstone,         \* a deletion the watch missed (cache.DeletedFinalStateUnknown)
  Edits,             \* the kinds of user edits and watch faults of this instance
  Faults,            \* the calls that may fail for a passing reason
  BrokenBackends,    \* backend states that translation rejects (no ports, no secret)
  MaxEdits, MaxFaults, MaxRestarts    \* bounds on what the environment does

Gateways == Keys
EditKinds == {"CreateGateway", "CreateForeign", "EditGateway", "ReclassGateway", "DeleteGateway",
              "CreateRoute", "EditRoute", "MoveRoute", "DeleteRoute",
              "EditBackend", "Relist"}

ASSUME BoundsAssumption == {MaxEdits, MaxFaults, MaxRestarts} \subseteq Nat
ASSUME KindsAssumption == Edits \subseteq EditKinds /\ Faults \subseteq {"deploy", "push", "status"}
ASSUME NamesAssumption == NoKey \notin Keys /\ Keys \cap Routes = {}

VARIABLES
  apiGateway, apiRoute, apiBackend,     \* the API server
  gatewayEvents, routeEvents,           \* undelivered versions of each object, in order
  gatewayCache, routeCache, backendCache,   \* the informers' stores, read through listers
  listing,      \* objects of the initial LIST not yet delivered (HasSynced is false)
  started,      \* Run has started the workers
  adding,       \* keys that handlers still have to add, for changes already in the stores
  q,            \* gatewayqueue
  pc, item,     \* each worker's position in processNextWorkItem and syncHandler, its key
  work,         \* its local variables: copy of the Gateway, resources, statuses to write
  snapshot,     \* the xDS snapshot cache, by Gateway (node ID)
  steady,       \* history: Gateways that exist since the process started
  unnoticed,    \* history: routes that left a Gateway since a handler last added its key
  edits, faults, restarts               \* counters for the bounds

apiVars == <<apiGateway, apiRoute, apiBackend>>
watchVars == <<gatewayEvents, routeEvents>>
cacheVars == <<gatewayCache, routeCache, backendCache, listing, adding>>
workerVars == <<pc, item, work>>
historyVars == <<steady, unnoticed>>
boundVars == <<edits, faults, restarts>>
vars == <<apiVars, watchVars, cacheVars, started, q, workerVars, snapshot, historyVars, boundVars>>

Specs == 0..MaxEdits
GatewayObjects == [class : {"ours", "other"}, spec : Specs,
                   programmed : {"Unknown", "True", "False"}]
RouteStatuses == [gateway : Gateways, spec : Specs] \cup {Absent}
RouteObjects == [parents : SUBSET Gateways, spec : Specs, status : RouteStatuses]

(* What a snapshot was built from.                                         *)
Contents == [class : {"ours", "other"}, spec : Specs,
             routes : SUBSET (Routes \X Specs), backend : Specs]

ASSUME MarksAssumption ==
  /\ Absent # Tombstone
  /\ \A mark \in {Absent, Tombstone} : mark \notin GatewayObjects /\ mark \notin RouteObjects
  /\ Absent \notin Contents

NewGateway(class, spec) == [class |-> class, spec |-> spec, programmed |-> "Unknown"]
NewRoute(parents, spec) == [parents |-> parents, spec |-> spec, status |-> Absent]

(* A worker's locals; fresh: no write to the Gateway since it was copied.  *)
NoWork == [gateway |-> Absent, fresh |-> FALSE, contents |-> Absent, statuses |-> {}]

SyncSteps == {"lookup", "cleanup", "deploy", "translate", "push", "gatewayStatus",
              "routeStatus", "errorStatus", "retry"}
PCs == {"idle", "finishing"} \cup SyncSteps

TypeOK ==
  /\ apiGateway \in [Gateways -> GatewayObjects \cup {Absent}]
  /\ apiRoute \in [Routes -> RouteObjects \cup {Absent}]
  /\ apiBackend \in Specs /\ backendCache \in Specs
  /\ gatewayCache \in [Gateways -> GatewayObjects \cup {Absent}]
  /\ routeCache \in [Routes -> RouteObjects \cup {Absent}]
  /\ gatewayEvents \in [Gateways -> Seq(GatewayObjects \cup {Absent, Tombstone})]
  /\ routeEvents \in [Routes -> Seq(RouteObjects \cup {Absent, Tombstone})]
  /\ listing \subseteq Gateways \cup Routes
  /\ started \in BOOLEAN
  /\ adding \subseteq Gateways
  /\ q \in WorkQueues
  /\ pc \in [Workers -> PCs]
  /\ item \in [Workers -> Keys \cup {NoKey}]
  /\ work \in [Workers -> [gateway : GatewayObjects \cup {Absent}, fresh : BOOLEAN,
                           contents : Contents \cup {Absent},
                           statuses : SUBSET (Routes \X Specs)]]
  /\ snapshot \in [Gateways -> Contents \cup {Absent}]
  /\ steady \subseteq Gateways /\ unnoticed \in [Gateways -> SUBSET Routes]
  /\ edits \in Specs /\ faults \in 0..MaxFaults /\ restarts \in 0..MaxRestarts

----------------------------------------------------------------------------
(* The API server and the informers' watches.                              *)

(* Every write to an object emits one event, and outdates workers' copies. *)
WriteGateway(g, obj) ==
  /\ apiGateway' = [apiGateway EXCEPT ![g] = obj]
  /\ gatewayEvents' = [gatewayEvents EXCEPT ![g] = Append(@, obj)]

Outdated(g) ==
  [w \in Workers |-> IF item[w] = g THEN [work[w] EXCEPT !.fresh = FALSE] ELSE work[w]]

WriteRoute(r, obj) ==
  /\ apiRoute' = [apiRoute EXCEPT ![r] = obj]
  /\ routeEvents' = [routeEvents EXCEPT ![r] = Append(@, obj)]

(* The LIST an informer starts with: every object there is, as Add events. *)
ListOf(objects) == [o \in DOMAIN objects |-> IF objects[o] = Absent THEN <<>> ELSE <<objects[o]>>]
Existing(objects) == {o \in DOMAIN objects : objects[o] # Absent}

Init ==
  /\ apiGateway \in [Gateways -> {Absent, NewGateway("ours", 0)}]
  /\ apiRoute \in [Routes -> {Absent} \cup {NewRoute(ps, 0) : ps \in SUBSET Gateways}]
  /\ apiBackend = 0
  /\ gatewayEvents = ListOf(apiGateway)
  /\ routeEvents = ListOf(apiRoute)
  /\ gatewayCache = [g \in Gateways |-> Absent]
  /\ routeCache = [r \in Routes |-> Absent]
  /\ backendCache = 0
  /\ listing = Existing(apiGateway) \cup Existing(apiRoute)
  /\ started = FALSE
  /\ adding = {}
  /\ q = EmptyQueue
  /\ pc = [w \in Workers |-> "idle"]
  /\ item = [w \in Workers |-> NoKey]
  /\ work = [w \in Workers |-> NoWork]
  /\ snapshot = [g \in Gateways |-> Absent]
  /\ steady = Existing(apiGateway)
  /\ unnoticed = [g \in Gateways |-> {}]
  /\ edits = 0 /\ faults = 0 /\ restarts = 0

Edit(kind) == kind \in Edits /\ edits < MaxEdits /\ edits' = edits + 1

EditGateway(g) ==
  /\ \/ /\ apiGateway[g] = Absent
        /\ \/ Edit("CreateGateway") /\ WriteGateway(g, NewGateway("ours", edits + 1))
           \/ Edit("CreateForeign") /\ WriteGateway(g, NewGateway("other", edits + 1))
        /\ UNCHANGED steady
     \/ /\ Edit("EditGateway")
        /\ apiGateway[g] # Absent
        /\ WriteGateway(g, [apiGateway[g] EXCEPT !.spec = edits + 1])
        /\ UNCHANGED steady
     \/ /\ Edit("ReclassGateway")
        /\ apiGateway[g] # Absent
        /\ \E class \in {"ours", "other"} \ {apiGateway[g].class} :
             WriteGateway(g, [apiGateway[g] EXCEPT !.spec = edits + 1, !.class = class])
        /\ UNCHANGED steady
     \/ /\ Edit("DeleteGateway")
        /\ apiGateway[g] # Absent
        /\ WriteGateway(g, Absent)
        /\ steady' = steady \ {g}
  /\ work' = Outdated(g)
  /\ UNCHANGED <<apiRoute, apiBackend, routeEvents, cacheVars, started, q, pc, item,
                 snapshot, unnoticed, faults, restarts>>

EditRoute(r) ==
  /\ \/ /\ Edit("CreateRoute")
        /\ apiRoute[r] = Absent
        /\ \E ps \in SUBSET Gateways : WriteRoute(r, NewRoute(ps, edits + 1))
     \/ /\ Edit("EditRoute")
        /\ apiRoute[r] # Absent
        /\ WriteRoute(r, [apiRoute[r] EXCEPT !.spec = edits + 1])
     \/ /\ Edit("MoveRoute")
        /\ apiRoute[r] # Absent
        /\ \E ps \in SUBSET Gateways \ {apiRoute[r].parents} :
             WriteRoute(r, [apiRoute[r] EXCEPT !.spec = edits + 1, !.parents = ps])
     \/ /\ Edit("DeleteRoute")
        /\ apiRoute[r] # Absent
        /\ WriteRoute(r, Absent)
  /\ UNCHANGED <<apiGateway, apiBackend, gatewayEvents, cacheVars, started, q, workerVars,
                 snapshot, historyVars, faults, restarts>>

EditBackend ==
  /\ Edit("EditBackend")
  /\ apiBackend' = edits + 1
  /\ UNCHANGED <<apiGateway, apiRoute, watchVars, cacheVars, started, q, workerVars,
                 snapshot, historyVars, faults, restarts>>

(* A watch breaks and the reflector lists again: only the latest version   *)
(* of each object is delivered, and an object that is gone as a tombstone. *)
Relisted(objects, cache) ==
  [o \in DOMAIN objects |->
     CASE objects[o] # Absent -> <<objects[o]>>
       [] objects[o] = Absent /\ cache[o] # Absent -> <<Tombstone>>
       [] OTHER -> <<>>]

Relist ==
  /\ Edit("Relist")
  /\ listing = {}
  /\ \/ gatewayEvents' = Relisted(apiGateway, gatewayCache) /\ UNCHANGED routeEvents
     \/ routeEvents' = Relisted(apiRoute, routeCache) /\ UNCHANGED gatewayEvents
  /\ UNCHANGED <<apiVars, cacheVars, started, q, workerVars, snapshot, historyVars, faults, restarts>>

----------------------------------------------------------------------------
(* The informers' handlers.  A handler runs in a goroutine of its own with *)
(* a buffer of notifications: its additions come after the change of the   *)
(* store, one by one.  Two that are due for the same key count as one.     *)

StoredTombstone(new) == new   \* mutant: keeps the wrapper of a missed deletion

Stored(new) == IF new = Tombstone THEN Absent ELSE new

(* The object a handler gets: the new one for Add and Update, the last     *)
(* known one for Delete.  For a tombstone the type assertion fails.        *)
Handled(old, new) == IF new = Absent THEN old ELSE new

(* enqueueGateway: the class is that of the object the event carries.      *)
GatewayKeys(g, obj) ==
  IF obj # Tombstone /\ obj.class = "ours" THEN {g} ELSE {}

DeliverGateway(g) ==
  /\ gatewayEvents[g] # <<>>
  /\ LET new == Head(gatewayEvents[g])
         keys == GatewayKeys(g, Handled(gatewayCache[g], new))
     IN  /\ gatewayCache' = [gatewayCache EXCEPT ![g] = Stored(new)]
         /\ adding' = adding \cup keys
         /\ unnoticed' = [h \in Gateways |-> IF h \in keys THEN {} ELSE unnoticed[h]]
  /\ gatewayEvents' = [gatewayEvents EXCEPT ![g] = Tail(@)]
  /\ listing' = listing \ {g}
  /\ UNCHANGED <<apiVars, routeEvents, routeCache, backendCache, started, q, workerVars,
                 snapshot, steady, boundVars>>

(* enqueueHTTPRouteParentGateways: the parents of the object passed are    *)
(* added one by one, whatever their class; those that the route had before *)
(* an update are not.                                                      *)
RouteKeys(obj) == IF obj = Tombstone THEN {} ELSE obj.parents

(* The parents that an update, or a deletion the watch missed, takes away. *)
Left(old, new) ==
  CASE old = Absent \/ new = Absent -> {}
    [] new = Tombstone -> old.parents
    [] OTHER -> old.parents \ new.parents

DeliverRoute(r) ==
  /\ routeEvents[r] # <<>>
  /\ LET new == Head(routeEvents[r])
         keys == RouteKeys(Handled(routeCache[r], new))
         left == Left(routeCache[r], new)
     IN  /\ routeCache' = [routeCache EXCEPT ![r] = Stored(new)]
         /\ adding' = adding \cup keys
         /\ unnoticed' = [h \in Gateways |-> IF h \in keys THEN {}
                                             ELSE unnoticed[h] \cup {x \in {r} : h \in left}]
  /\ routeEvents' = [routeEvents EXCEPT ![r] = Tail(@)]
  /\ listing' = listing \ {r}
  /\ UNCHANGED <<apiVars, gatewayEvents, gatewayCache, backendCache, started, q,
                 workerVars, snapshot, steady, boundVars>>

HandlerAdds(g) ==
  /\ g \in adding
  /\ adding' = adding \ {g}
  /\ q' = Add(q, g)
  /\ UNCHANGED <<apiVars, watchVars, gatewayCache, routeCache, backendCache, listing, started,
                 workerVars, snapshot, historyVars, boundVars>>

(* The informers of the other types have no handler: only the store moves. *)
DeliverBackend ==
  /\ backendCache # apiBackend
  /\ backendCache' = apiBackend
  /\ UNCHANGED <<apiVars, watchVars, gatewayCache, routeCache, listing, adding, started, q,
                 workerVars, snapshot, historyVars, boundVars>>

----------------------------------------------------------------------------
(* Run and its workers.                                                    *)

HasSyncedRoutes == listing \cap Routes = {}   \* mutant: not every informer is awaited

(* WaitForCacheSync returns when every informer delivered its initial LIST.*)
HasSynced == listing = {}

StartWorkers ==
  /\ ~started
  /\ HasSynced
  /\ started' = TRUE
  /\ UNCHANGED <<apiVars, watchVars, cacheVars, q, workerVars, snapshot, historyVars, boundVars>>

GetItem(w) ==
  /\ started
  /\ pc[w] = "idle"
  /\ q.queue # <<>>
  /\ q' = Get(q)
  /\ pc' = [pc EXCEPT ![w] = "lookup"]
  /\ item' = [item EXCEPT ![w] = Head(q.queue)]
  /\ UNCHANGED <<apiVars, watchVars, cacheVars, started, work, snapshot, historyVars, boundVars>>

(* A step of syncHandler from one position to another.                     *)
Step(w, from, to) == pc[w] = from /\ pc' = [pc EXCEPT ![w] = to]

(* A step that fails for a passing reason: an error that is retried.       *)
Fault(kind) == kind \in Faults /\ faults < MaxFaults /\ faults' = faults + 1

Fails(w, from, kind) ==
  /\ Step(w, from, "retry")
  /\ Fault(kind)
  /\ UNCHANGED <<apiVars, watchVars, cacheVars, started, q, item, work, snapshot, historyVars,
                 edits, restarts>>

(* gatewayLister.Get: a copy of what the cache holds now.                  *)
Lookup(w) ==
  /\ pc[w] = "lookup"
  /\ LET g == item[w]
     IN  IF gatewayCache[g] = Absent
         THEN Step(w, "lookup", "cleanup") /\ UNCHANGED work
         ELSE /\ Step(w, "lookup", "deploy")
              /\ work' = [work EXCEPT ![w].gateway = gatewayCache[g],
                                      ![w].fresh = (gatewayEvents[g] = <<>>)]
  /\ UNCHANGED <<apiVars, watchVars, cacheVars, started, q, item, snapshot, historyVars, boundVars>>

(* DeleteGatewayInfra; the node's snapshot stays in the cache (the TODO).  *)
Cleanup(w) ==
  \/ /\ Step(w, "cleanup", "finishing")
     /\ UNCHANGED <<apiVars, watchVars, cacheVars, started, q, item, work, snapshot, historyVars,
                    boundVars>>
  \/ Fails(w, "cleanup", "deploy")

Deploy(w) ==
  \/ /\ Step(w, "deploy", "translate")
     /\ UNCHANGED <<apiVars, watchVars, cacheVars, started, q, item, work, snapshot, historyVars,
                    boundVars>>
  \/ Fails(w, "deploy", "deploy")

(* What a translation of obj for g from these routes and backends contains.*)
ContentsOf(g, obj, routes, backend) ==
  LET attached == {r \in Routes : routes[r] # Absent /\ g \in routes[r].parents}
  IN  [class |-> obj.class, spec |-> obj.spec,
       routes |-> {<<r, routes[r].spec>> : r \in attached},
       backend |-> IF attached = {} THEN 0 ELSE backend]

Translatable(contents) == contents.routes = {} \/ contents.backend \notin BrokenBackends

(* TranslateGatewayAndReferencesToXDS reads routes and backends now, but   *)
(* the Gateway as it was at Lookup.                                        *)
Translate(w) ==
  /\ pc[w] = "translate"
  /\ LET contents == ContentsOf(item[w], work[w].gateway, routeCache, backendCache)
     IN  /\ Step(w, "translate", IF Translatable(contents) THEN "push" ELSE "errorStatus")
         /\ work' = [work EXCEPT ![w].contents = contents, ![w].statuses = contents.routes]
  /\ UNCHANGED <<apiVars, watchVars, cacheVars, started, q, item, snapshot, historyVars, boundVars>>

Push(w) ==
  \/ /\ Step(w, "push", "gatewayStatus")
     /\ snapshot' = [snapshot EXCEPT ![item[w]] = work[w].contents]
     /\ UNCHANGED <<apiVars, watchVars, cacheVars, started, q, item, work, historyVars, boundVars>>
  \/ Fails(w, "push", "push")

(* updateGatewayStatus: UpdateStatus with the copy's resource version.  A  *)
(* conflict is only logged; a write that changes nothing emits no event.   *)
SetProgrammed(w, value) ==
  LET g == item[w]
      changed == [apiGateway[g] EXCEPT !.programmed = value]
  IN  \/ /\ work[w].fresh
         /\ IF changed # apiGateway[g]
            THEN WriteGateway(g, changed) /\ work' = Outdated(g)
            ELSE UNCHANGED <<apiGateway, gatewayEvents, work>>
         /\ UNCHANGED faults
      \/ ~work[w].fresh /\ UNCHANGED <<apiGateway, gatewayEvents, work, faults>>
      \/ Fault("status") /\ UNCHANGED <<apiGateway, gatewayEvents, work>>

GatewayStatus(w) ==
  /\ \/ Step(w, "gatewayStatus", "routeStatus") /\ SetProgrammed(w, "True")
     \/ Step(w, "errorStatus", "retry") /\ SetProgrammed(w, "False")
  /\ UNCHANGED <<apiRoute, apiBackend, routeEvents, cacheVars, started, q, item, snapshot,
                 historyVars, edits, restarts>>

(* updateHTTPRouteStatus: reads the route again and replaces its whole     *)
(* list of parents by the entries for this Gateway.  LastTransitionTime is *)
(* set anew, so an equal status still is a change of the object unless it  *)
(* was written within the same second.                                     *)
StatusOfCached(r, g, spec) ==   \* mutant: the generation of the route as re-read
  [gateway |-> g, spec |-> routeCache[r].spec]

StatusOf(r, g, spec) == [gateway |-> g, spec |-> spec]

RouteStatus(w) ==
  \E entry \in work[w].statuses :
    LET r == entry[1]
        changed == [routeCache[r] EXCEPT !.status = StatusOf(r, item[w], entry[2])]
    IN  /\ Step(w, "routeStatus", "routeStatus")
        /\ work' = [work EXCEPT ![w].statuses = @ \ {entry}]
        /\ \/ /\ routeCache[r] # Absent /\ routeEvents[r] = <<>>
              /\ WriteRoute(r, changed)
              /\ UNCHANGED faults
           \/ /\ \/ routeCache[r] = Absent \/ routeEvents[r] # <<>>
                 \/ routeCache[r] # Absent /\ routeCache[r] = changed
              /\ UNCHANGED <<apiRoute, routeEvents, faults>>
           \/ Fault("status") /\ UNCHANGED <<apiRoute, routeEvents>>
        /\ UNCHANGED <<apiGateway, apiBackend, gatewayEvents, cacheVars, started, q, item,
                       snapshot, historyVars, edits, restarts>>

(* syncHandler returned nil: Forget.                                       *)
Succeed(w) ==
  /\ work[w].statuses = {}
  /\ Step(w, "routeStatus", "finishing")
  /\ UNCHANGED <<apiVars, watchVars, cacheVars, started, q, item, work, snapshot, historyVars, boundVars>>

RetryForgets(w) ==   \* mutant: an error ends the item like a success
  /\ Step(w, "retry", "finishing")
  /\ UNCHANGED <<apiVars, watchVars, cacheVars, started, q, item, work, snapshot, historyVars, boundVars>>

RetryAtOnce(w) ==    \* mutant: re-adds without a delay
  /\ Step(w, "retry", "finishing")
  /\ q' = Add(q, item[w])
  /\ UNCHANGED <<apiVars, watchVars, cacheVars, started, item, work, snapshot, historyVars, boundVars>>

(* syncHandler returned an error: AddRateLimited.                          *)
Retry(w) ==
  /\ Step(w, "retry", "finishing")
  /\ q' = AddRateLimited(q, item[w])
  /\ UNCHANGED <<apiVars, watchVars, cacheVars, started, item, work, snapshot, historyVars, boundVars>>

FinishItem(w) ==
  /\ Step(w, "finishing", "idle")
  /\ q' = Done(q, item[w])
  /\ item' = [item EXCEPT ![w] = NoKey]
  /\ work' = [work EXCEPT ![w] = NoWork]
  /\ UNCHANGED <<apiVars, watchVars, cacheVars, started, snapshot, historyVars, boundVars>>

ReleaseDelayed(g) ==
  /\ g \in q.delayed
  /\ q' = Release(q, g)
  /\ UNCHANGED <<apiVars, watchVars, cacheVars, started, workerVars, snapshot, historyVars, boundVars>>

(* The process ends at any moment and is started again: everything but the *)
(* API server is lost, and the informers list anew.                        *)
Restart ==
  /\ restarts < MaxRestarts
  /\ restarts' = restarts + 1
  /\ gatewayEvents' = ListOf(apiGateway)
  /\ routeEvents' = ListOf(apiRoute)
  /\ gatewayCache' = [g \in Gateways |-> Absent]
  /\ routeCache' = [r \in Routes |-> Absent]
  /\ backendCache' = apiBackend
  /\ listing' = Existing(apiGateway) \cup Existing(apiRoute)
  /\ started' = FALSE
  /\ adding' = {}
  /\ q' = EmptyQueue
  /\ pc' = [w \in Workers |-> "idle"]
  /\ item' = [w \in Workers |-> NoKey]
  /\ work' = [w \in Workers |-> NoWork]
  /\ snapshot' = [g \in Gateways |-> Absent]
  /\ steady' = Existing(apiGateway)
  /\ unnoticed' = [g \in Gateways |-> {}]
  /\ UNCHANGED <<apiVars, edits, faults>>

Sync(w) ==
  \/ Lookup(w) \/ Cleanup(w) \/ Deploy(w) \/ Translate(w) \/ Push(w)
  \/ GatewayStatus(w) \/ RouteStatus(w) \/ Succeed(w) \/ Retry(w)

Environment ==
  \/ \E g \in Gateways : EditGateway(g)
  \/ \E r \in Routes : EditRoute(r)
  \/ EditBackend \/ Relist \/ Restart

System ==
  \/ \E g \in Gateways : DeliverGateway(g) \/ HandlerAdds(g) \/ ReleaseDelayed(g)
  \/ \E r \in Routes : DeliverRoute(r)
  \/ DeliverBackend \/ StartWorkers
  \/ \E w \in Workers : GetItem(w) \/ Sync(w) \/ FinishItem(w)

Next == Environment \/ System

(***************************************************************************)
(* Informers deliver what is outstanding, goroutines are scheduled and the *)
(* delaying queue's timer fires.  Users, faults and restarts are free.     *)
(***************************************************************************)
Fairness ==
  /\ \A g \in Gateways : /\ WF_vars(DeliverGateway(g))
                         /\ WF_vars(HandlerAdds(g))
                         /\ WF_vars(ReleaseDelayed(g))
  /\ \A r \in Routes : WF_vars(DeliverRoute(r))
  /\ WF_vars(DeliverBackend)
  /\ WF_vars(StartWorkers)
  /\ WF_vars(\E w \in Workers : GetItem(w))
  /\ \A w \in Workers : WF_vars(Sync(w)) /\ WF_vars(FinishItem(w))

Spec == Init /\ [][Next]_vars
FairSpec == Spec /\ Fairness

----------------------------------------------------------------------------
(* The controller's work loop is SyncLoop's, syncHandler filled in.        *)
Loop == INSTANCE SyncLoop WITH
          phase <- [w \in Workers |-> IF pc[w] \in SyncSteps THEN "syncing" ELSE pc[w]]
ImplementsSyncLoop == Loop!Spec

(* Cleanup never runs for a Gateway that has existed since the process     *)
(* started: the lister says NotFound only because the Gateway is deleted   *)
(* or too new, never because the caches are still filling.                 *)
NoCleanupOfSteadyGateway ==
  \A w \in Workers : pc[w] = "cleanup" => item[w] \notin steady

(* A push never replaces a node's configuration by one that was translated *)
(* from older objects.                                                     *)
NotOlder(new, old) ==
  /\ new.spec >= old.spec
  /\ \A a \in new.routes, b \in old.routes : a[1] = b[1] => a[2] >= b[2]
  /\ new.routes # {} /\ old.routes # {} => new.backend >= old.backend
SnapshotNeverRegresses ==
  [][\A g \in Gateways : snapshot[g] # Absent /\ snapshot'[g] # Absent
                           => NotOlder(snapshot'[g], snapshot[g])]_vars

(* A route's status names a Gateway only after a snapshot with that        *)
(* version of the route was pushed to the Gateway's node.                  *)
Pushed(r, status) ==
  /\ snapshot[status.gateway] # Absent
  /\ <<r, status.spec>> \in snapshot[status.gateway].routes
StatusAfterPush ==
  [][\A r \in Routes :
       apiRoute[r] # Absent /\ apiRoute'[r] # Absent /\ apiRoute'[r].status # apiRoute[r].status
         => Pushed(r, apiRoute'[r].status)]_vars

(* What the node of g is to be configured with.                            *)
Desired(g) == ContentsOf(g, apiGateway[g], apiRoute, apiBackend)

Current(g) == apiGateway[g] # Absent /\ apiGateway[g].class = "ours" /\ Translatable(Desired(g))

(* Once the users stop editing, every Gateway of our class that can be     *)
(* translated is configured from its own latest spec and the latest        *)
(* version of each attached route - after conflicts, failures, retries,    *)
(* broken watches and however late the events arrive.  Routes it keeps     *)
(* serving can only be those that left it unnoticed: a handler adds the    *)
(* new parents of a moved route only, and drops a deletion that the watch  *)
(* missed (httproute.go:16, :27).  The next key added for the Gateway, for *)
(* whatever reason, repairs that.                                          *)
RoutingConverges ==
  \A g \in Gateways :
    <>[](Current(g) =>
           /\ snapshot[g] # Absent
           /\ snapshot[g].spec = Desired(g).spec
           /\ Desired(g).routes \subseteq snapshot[g].routes
           /\ {a[1] : a \in snapshot[g].routes \ Desired(g).routes} \subseteq unnoticed[g])

(* The same for everything a translation reads, backends included.  The    *)
(* README has the controller watch XBackendDestinations, but no handler is *)
(* registered for them.                                                    *)
SnapshotConverges == \A g \in Gateways : <>[](Current(g) => snapshot[g] = Desired(g))

(* Only Gateways of our GatewayClass are processed (gateway.go:41).        *)
OnlyOurClassConfigured ==
  \A g \in Gateways : snapshot[g] # Absent => snapshot[g].class = "ours"
=============================================================================
