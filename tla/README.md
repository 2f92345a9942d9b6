# A specification of the AI Gateway backend control plane

These modules specify the controller under `src/prototypes/backend-control-plane`:
a Kubernetes Gateway API controller that watches Gateways, HTTPRoutes and
XBackendDestinations, deploys one Envoy per Gateway, translates the routing
into xDS resources and serves them. It is the only program of the repository
with state and concurrency; the rest is proposals, a website, API types,
generated code and build scripts. The prototype has no Go tests. File names
below are relative to `src/prototypes/backend-control-plane/pkg` unless they
begin with `cmd` or `README.md`.

Contents: [inventory](#inventory), [modules](#modules-and-how-they-follow-the-code),
[runs](#runs), [fairness](#fairness), [proofs](#proofs),
[where code and documents differ](#where-code-and-documents-differ),
[what else the models showed](#what-else-the-models-showed),
[what is left out](#what-is-left-out), [plan](#plan).

## Inventory

### The parts, their state, their operations

| part | code | state | operations |
| --- | --- | --- | --- |
| work loop | `controllers/controller.go` `Run`, `runWorker`, `processNextWorkItem` | the rate-limiting queue of Gateway keys, one item per worker (two workers, `cmd/main.go`) | Get, syncHandler, Forget or AddRateLimited, deferred Done, ShutDown |
| event handlers | `controllers/gateway.go`, `httproute.go` | none of their own | add the Gateway's key; add the keys of a route's parents |
| GatewayClass handler | `controllers/gatewayclass.go` | the object it works on | accept a class of ours; no queue, no retry |
| syncHandler | `controllers/controller.go` | locals of the worker: a copy of the Gateway, resources, statuses | lookup, Deploy or DeleteGatewayInfra, translation, push, Gateway status, route statuses |
| informers | client-go | one store per type, filled late; `HasSynced` | deliver an event: change the store, call the handlers |
| deployer | `deployer/envoy` | none; objects in the API server | Deploy: render, canManage and patch for each resource, wait for readiness; DeleteGatewayInfra |
| translator | `translator/envoy` | none; reads the informers' stores | match routes with listeners; validate listeners; matches, filters and rewrites, their order; clusters, endpoints, filter chains; statuses |
| xDS control plane | `xds/envoy` | `versionCounter`, go-control-plane's snapshot cache | PushXDS; serve the snapshot of a node |
| process | `cmd/main.go` | - | start informers, xDS server, controller; stop on a signal |

### How they interact

```
 users, cluster --writes--> API server --watch events--> informer stores --handlers--> gatewayqueue
       ^                        ^                              |                          |
       |                        |                       (read by listers)             workers
       |     patches (Deploy), statuses                        v                          |
       +------------------------+---------------- syncHandler: Deploy, translate, push <--+
                                                               |
                                       versionCounter, snapshot cache --responses--> Envoys
```

The status writes of syncHandler are changes of the objects it watches and come
back as events. syncHandler has no lock: it relies on the queue never handing
one key to two workers. It reads the stores at several moments, minutes apart
in the worst case, and writes with the resource version of what it read first.

### What is hard here, and what makes each part correct

- *Work loop.* Events arrive while their Gateway is being synced, failed items
  come back after a delay, shutdown comes at any moment. Correct: one sync per
  Gateway at a time; every request is followed by a sync that **begins** later.
- *Handlers and syncHandler.* Caches lag, each by its own amount; a sync mixes an
  old Gateway with newer routes; writes conflict; status failures are only
  logged; the process restarts. Correct: no cleanup of a Gateway that exists,
  no push that undoes a newer one, no status for what was not pushed,
  convergence once the users stop.
- *GatewayClass handler.* It runs from the start of the informers, not of Run;
  its update can conflict or fail and is not tried again; its own updates come
  back to it. Correct: accepts what is ours, overwrites nobody, converges
  through the events behind each conflict, and comes to rest.
- *xDS.* Two workers share a version counter and store their snapshots later;
  an Envoy keeps what it accepted. Correct: versions distinct and growing per
  node, and an equal version means equal contents.
- *Deployer.* Look, then patch, against an API server that others write to;
  four patches, any of which may fail; garbage collection. Correct: what somebody
  else owns is not taken, a Deploy without error left everything in place and
  owned, what stays gets deployed, what is deleted gets collected.
- *Translator.* Routes, hostnames, statuses, clusters and endpoints of one
  translation are computed in different functions that must agree. Correct: what
  is served was admitted by listener and route, statuses tell what is served, every
  weighted cluster exists, every EDS cluster has an assignment, the most specific
  match answers a request, and a rewritten path is the one meant.

`PROJECT.json` lists each hazard at its line with the properties that would
catch it, or with the reason why none does.

## Modules and how they follow the code

| module | what it is |
| --- | --- |
| `WorkQueue` | client-go's delaying, rate-limiting queue as a record and functions on it (external) |
| `SerialReconcile` | abstract: outstanding requests, running reconciles, and the promise between them |
| `SyncLoop` | workers on `WorkQueue`: one action per queue call in `processNextWorkItem` and `Run` |
| `GatewayController` | watch events, handlers, syncHandler step by step, statuses, restarts; implements `SyncLoop` |
| `XdsControlPlane` | `SyncLoop` extended by the steps of PushXDS, the snapshot cache and the Envoys |
| `InfraDeployer` | the deployer for one Gateway, with the API server's other writers and the garbage collector |
| `GatewayClassSync` | the GatewayClass handler with its watch, conflicts, lost updates and restarts |
| `Hostnames` | `isHostnameSubset`, `isAllowedByHostname`, `getIntersectingHostnames` |
| `Backends` | from backendRefs to weighted clusters, Envoy clusters and endpoint assignments |
| `RouteOrder` | `sortRoutes` and Envoy's first match |
| `HTTPRoutes` | from the rules of an HTTPRoute (matches, filters, backendRefs) to Envoy routes |
| `Translator` | one call of `TranslateGatewayAndReferencesToXDS`, listener by listener |
| `WorkQueueProofs`, `SyncLoopProofs`, `GatewayProofs`, `GatewayClassProofs`, `XdsProofs`, `InfraProofs`, `RouteProofs`, `TranslatorProofs` | theorems |
| `MC...` | constants and symmetry for TLC |

`SerialReconcile` <- `SyncLoop` <- `GatewayController` is a chain of
refinements; `XdsControlPlane` composes the loop with the push by EXTENDS, each
of its actions being an action of `SyncLoop` with more conjuncts, or leaving
the loop alone.

**SyncLoop.** `q` is gatewayqueue, `phase` and `item` a worker's position and
key. `SyncSucceeds` and `SyncFails` are the two ways out of syncHandler (Forget
changes only the length of the next delay and leaves the queue as it is);
`FinishItem` is the deferred Done, a step of its own since an Add may come
before it. Back-off is not timed: a delayed key is released at any moment.

**GatewayController.** An object in the API server is a record of what the
controller tells apart: class, spec (the number of the edit that wrote it),
Programmed condition; a route's parents, spec and the parents in its status.
Undelivered versions of an object are a sequence; `Deliver...` moves one into
the store, and the handlers, which client-go runs from a buffer and later than
the store, have their additions in `adding` until `HandlerAdds` makes them one
by one. The buffer is a set: two additions due for one key count as one.
Resource versions are not counted: a cached object is current exactly when none
of its events is outstanding, and `fresh` says whether the Gateway that a worker
copied was written since. `backend` is everything else a translation reads. `pc`
walks through syncHandler; `Translate` is one step, though the code reads one
store after the other: what a store holds only gets newer, and so does such a
mixture. `errorStatus` is the Programmed=False after a failed
translation. `Init` is any mixture of existing Gateways and routes; `listing`
are the objects of the initial LIST, which WaitForCacheSync awaits. `Tombstone`
is a deletion found only by listing again (`DeletedFinalStateUnknown`), which
the handlers drop. `unnoticed` is history: the routes that left a Gateway
without its key being added. A route's status always changes the object, except
within one second: `LastTransitionTime` is the clock's, hence the choice in
`RouteStatus`.

**XdsControlPlane.** Taking a version, and building and storing the snapshot,
are separate steps. A snapshot can be inconsistent, and its version stays used;
SetSnapshot may also store it and then report an error, which ends the sync.
Resource types are served independently and alike, so one stands for all.

**GatewayClassSync.** A class is its controller, its generation and the Accepted
condition with the generation that was observed. `Get` is syncGatewayClass up to its
early returns, `UpdateStatus` the call with its three outcomes: written,
conflict, another error. An update that changes nothing emits no event. `lost` is
history: classes whose last update failed for a reason other than a conflict.

**InfraDeployer.** One worker, since syncs of one Gateway are serial. `Check` is
canManage and the resource version found in the store; `Patch` is the forced
server-side apply, which sets the one owner, and `PatchFails` any error of it:
a conflict, another error, or an answer that is lost after the write. `Cleanup` is
DeleteGatewayInfra, `CleanupFails` its first error. Contents are left out except
for the managed label and the owners. Others may at any time create a resource of
that name, write a status, or delete one, whoever's it is; `removed` remembers
what they deleted since it was last applied. `BeginWait` starts the waits for readiness of
Deployment and Service; each ends by `Poll` (ready or an error, if ever) or
`TimeOut`, and since their errors are only logged `DeployDone` follows. A Deploy
that skipped a resource of somebody else's counts as deployed, as in the code.

**Hostnames, Backends, RouteOrder, HTTPRoutes, Translator.** A hostname is its
labels and whether "*." stands in front: the code's suffix tests all begin at a
dot. The ports of a Gateway are taken in any order (a Go map), the listeners of
a port in theirs. Virtual hosts are collected per port, as in the code, so later
listeners of a port also carry those of earlier ones. A path is its words and
whether it ends in a slash, which is what the code's string operations on paths
look at; a match keeps *how many* headers and parameters it has (for the order)
and which (for Envoy's matching). `sortRoutes` calls `sort.Slice`, an insertion
sort up to `StableUpTo` elements and unstable above: `SortRoutes` is the set of
slices it may leave. A listener that `validateListener` rejects leads to
`Panic`: see below.

`Gather` lists the Gateway's HTTPRoutes (`list`, in any order, since the lister
goes through a Go map), gives each the statuses of its parents and attaches it to the
listeners that accept it. The loops of `buildEnvoyListenerForPort` are positions:
`index` in `listeners`, with `ListenersAhead` those of the port still to come, and
`next` in `list`, with `RoutesAhead`. `TranslateRoute` is the body of the inner loop,
`FinishListener` what follows it, and `FailListener` the same when the filter chain
cannot be built (`translator.go:443`). That depends on whether the route
configuration serialises, which the model leaves open, so it may happen to any listener.
Clusters are kept by name, as in the code: a later one replaces an earlier one of its
name. The statuses of listeners are computed as in the code, but
`TranslateGatewayAndReferencesToXDS` drops them (`translator.go:86`), so that no
property is about what they report. `InputsAssumption` is what the API server admits, as
its validation stands in the CRDs of the Gateway API: listeners' names are the keys of a
list, a route's hostnames are not empty, and a path begins with "/". Without the first,
`listenerStatuses`, a map by name in the code too, could not tell two listeners apart.

## Runs

All runs finish within five minutes on two workers.

| run | question | bounds | states |
| --- | --- | --- | --- |
| `SyncLoop` | exclusive syncs; queue and workers agree; refinement of `SerialReconcile`, liveness included | 3 keys, 2 workers | 5,500 |
| `GatewaySafety` | cleanup, regressions of snapshots, statuses before pushes | 1 Gateway, 1 route, 2 workers, 2 edits of all kinds (relists included), 1 fault, 1 restart | 1,280,000 |
| `GatewayLiveness` | convergence of the routing; refinement of `SyncLoop` | the same without restarts | 1,130,000 |
| `GatewayClass` | acceptance, overwriting, convergence without retries, rest | 2 classes, 2 edits or relists, 1 fault, 1 restart, a second controller | 330,000 |
| `XdsSafety` | the inductive invariant and the four statements about versions and configurations | 2 nodes, 2 workers, 2 changes, 3 versions, one inconsistent configuration | 1,060,000 |
| `Infra` | takeovers, completeness of a Deploy, deployment and collection in the end | 2 kinds, both polled, one awaited; 2 uids, 2 acts of others or failed calls, 1 restart | 1,930,000 |
| `Translator` | agreement of what is served, reported to routes, clustered and assigned, in any order of ports and routes; order and rewriting of routes | see below | 135,000 |

Why these are enough. `SyncLoop`: one key more than can be in flight, so that a
key waits while both workers are busy; with two workers every race over one key
is there. `GatewaySafety`: the second worker and a second edit make two
overlapping syncs possible for every pair of edits; one fault and one restart
hit every step. Gateways interact only through a shared route's status, which no
decision of the controller reads, and the version counter, which `XdsSafety` has
with two nodes; the theorems below hold for any number of Gateways. `XdsSafety`:
the third version is the one after an inconsistent snapshot. `GatewayClass`: two
notifications in the handler's buffer, and a class that is deleted and created
again for the other controller between the read and the update. A class begins
in generation 2 so that an old observation can differ from a new one. `Infra`: a
Gateway deleted and created again under a new uid; the Deployment, whose
informer is not awaited, precedes the Service, whose is, as in the template.

`Translator` has about 5,600 inputs. In 4,620 of them 70 Gateways of one or two
listeners meet 66 sets of one or two routes: every pair of hostname shapes
(exact, wildcard, parent, child, none) on listener and route, every protocol,
route kind and namespace rule, every way in which a reference or a certificate
can fail, and a backend whose cluster has another one's name.
The others fix the hostnames and vary the rules: every pair of ten
matches (each kind of path, with and without headers and parameters) in two
rules of one HTTPRoute with six filter lists, and three matches in two
HTTPRoutes, on one listener and on two that share their virtual host.
`StableUpTo` is 3 and not Go's 12, so that both the stable and the unstable sort
occur with small virtual hosts; the theorems hold for any value. Requests are
20: five paths, with or without a header and a parameter.

`CHECK_DEADLOCK FALSE` is used where the system may really stop: after the last
edit a controller is idle until the next event, a translation returns, and the
push stops at `MaxVersion`. `SyncLoop` checks deadlock.

`Restart` is not in `GatewayLiveness`: a restart starts from a state like those
of `Init`, which the run covers. A route that leaves a Gateway by an update, and
a deletion that only a relist reveals, enqueue nothing, so that
`RoutingConverges` claims less than equality: the Gateway's own spec and the
attached routes are the latest, and whatever else is still served left
*unnoticed*.

Runs that refute a statement of the repository are listed
[below](#where-code-and-documents-differ).

## Fairness

Weak fairness only, of what the runtime schedules: a blocked Get returns when
something is queued (some worker, not each), goroutines go on - workers and the
goroutine client-go gives each handler -, informers deliver what is outstanding,
the delaying queue's timer fires, the garbage collector collects. In
`InfraDeployer` `TimeOut` is fair, since the waits have context deadlines, and
`Poll` is not, since nothing says that an Envoy ever gets ready. Users, other
controllers, faults, restarts and Envoy's requests are never obliged to act;
they are bounded (`MaxEdits`, `MaxFaults`, `MaxRestarts`, `MaxOthers`,
`MaxUids`), which stands for "once the environment is quiet". A passing fault
may hit any call, but not forever.

## Proofs

Proved for every value of the constants: any sets of Gateways, routes, classes,
kinds and workers, any bounds, any order of the manifest. The assumptions are
those the modules name: marks such as `Absent` and `NoKey` are no objects or
keys, bounds are natural numbers, the manifest lists every kind, Gateways and
HTTPRoutes are such as the API server admits. Each state
machine has an inductive invariant `IInv`; the properties are conjuncts or
consequences of it, and action properties follow from it with one step more.

- `WorkQueueProofs`: what each queue operation does to `QueueInv` (the queue
  holds exactly the dirty keys nobody processes, each once), to `processing`
  and to `Pending`. The queue is a sequence; the lemmas go through `ToSet` and
  positions.
- `SyncLoopProofs`: `TypeCorrect`, `ExclusiveSyncHolds`,
  `QueueAndWorkersAgreeHolds`. `ExclusiveSync` is not inductive by itself: Get
  keeps it only if a queued key is not in `processing`, and that means something
  only if `processing` is what the workers hold. `IInv` is the conjunction of
  the three; one lemma for each action.
  `ImplementsSerialReconcileSafety`: every step is one of `SerialReconcile` or a
  stutter, with `pending <- dirty \cup delayed`.
- `GatewayProofs`: `TypeCorrect`, `NoCleanupOfSteadyGatewayHolds`,
  `SnapshotNeverRegressesHolds`, `StatusAfterPushHolds`. The idea is that along the
  way of an object - API server, undelivered events, store, a worker's copy,
  snapshot - versions only get older. `Chains` says so up to the store, for
  Gateways, routes and the backend, relists and tombstones included;
  `SnapshotsBehind` says that every version in a snapshot is a *floor*: nothing
  cached or still to be delivered is older. No step takes a floor away, except
  a restart, which clears what rests on it. `WorkersBehind` says of a worker
  between its reads and its push that what it holds is at least as new as the
  snapshot it will replace; that this stays true while *others* push
  needs `LoopInv`, the exclusion that the queue gives. `SteadyInv` says
  that a Gateway of the initial list that nobody deleted is cached as soon as
  `listing` is without it, and workers start when `listing` is empty.
  `ImplementsSyncLoopHolds`: every step is a step of `SyncLoop` or a stutter, for one
  life of the process (`MaxRestarts = 0`; a restart, which empties the queue, is not a
  step of the loop). With it the theorems of `SyncLoopProofs` apply to the controller.
- `GatewayClassProofs`: `TypeCorrect`, `AcceptanceIsDueHolds`, `NothingOverwrittenHolds`.
  `WatchComplete`: the last undelivered event of a class, or else the
  cached object, is the object in the API server. Hence `CopySound`: a copy made
  with no event outstanding and not outdated since is what the update replaces.
- `XdsProofs`: `XdsInvHolds`, from which `UpToDateMeansSameHolds`,
  `VersionsDistinctHolds`, and with one step more `VersionsIncreaseHolds` and
  `EnvoyNeverRegressesHolds`. Every step of `XdsSpec` is a step of the loop or a stutter, so the
  loop's `IInv` comes along. `VersionsTaken` says of a version taken but not
  stored that it is newer than the snapshot it replaces and nobody else's;
  keeping that when *another* worker stores needs `ExclusiveSync`, since
  that worker must have another key. `ConfigsAge` orders configurations along
  their way: accepted <= stored <= translated <= wanted. TLC checks `XdsInv` as
  an invariant too.
- `InfraProofs`: `TypeCorrect`, `DeployedMeansOwnedHolds`, `NoTakeoverOfAwaitedHolds`.
  `AppliedSoFar`: while the Gateway of a running Deploy is the one that exists, each
  resource up to `index` is owned by it, was skipped, or was deleted by others
  (`removed`). Nothing else takes that away: the collector deletes only what has no
  living owner, which by `OwnersAreManaged` is none of the strangers' resources, and a
  late Deploy for an earlier Gateway, which would replace the owner, does not run once one for the
  existing Gateway has begun (`CacheFollows`).
  `AwaitedSeen`: an awaited kind's cache knows what existed before the
  process, from before the first look into it.
- `RouteProofs`, about the functions of the translator. Hostnames: `AllowedIffIntersecting`,
  that the check which decides on attachment and the function which computes domains
  agree for all hostnames (an accepted route always gets a virtual host and a rejected one
  would get none); `DomainsAdmitted`. Order: `BeforeIsStrictWeakOrder`, what sort.Slice
  requires of the comparison; `ShortSortIsStable`, that a slice up to `StableUpTo` comes back
  in precedence with ties in their old order (sorting is defined by counting
  predecessors, so this rests on the count being a permutation, `RankIsPermutation`);
  `AnswerComesFirst`; and `SortKeepsRuleOrder`: the rules of each HTTPRoute stay in order
  among equal matches. That has to survive the way the code sorts: each HTTPRoute's routes,
  then, for every listener of the port, the virtual host again with further routes appended, some
  of them a second time. `InRuleOrder` therefore does not speak of all occurrences but says that an
  *earlier copy* of the earlier rule's route exists, which appending and sorting
  both keep. Rules: `UnsortedInRuleOrder`, that an HTTPRoute gives one Envoy route for each
  translatable match, in order; `NewPrefixTakesSeparator`, behind `NoDoubleSlash`.
- `TranslatorProofs`: each property of the `Translator` run, from `Invariance`. The invariant
  speaks of the loops' positions: `Built` holds of every listener that is `Behind` (if it is programmed, there is a
  filter chain of it with every attached route that has an entry), `RoutesBuilt` of the routes behind
  `next` in the current one. `HostSound` says of a virtual host, sorted or not, that each entry
  is one of a route which one of some listeners let attach, under a domain of both
  (`Rightful`), that *all* entries of that route are there too, its backends among those
  collected, and in a short one the rules in order; the same is then true of filter chains, in
  precedence (`ChainSound`). `StatusesSound` says that a condition has no value or the true one,
  whenever it was set.
  These listeners are those of the port that the loop has `Reached`, which for a finished chain
  are those up to its own (`ListenersUpTo`).
  From these: `ServedWithinBothHolds` by `DomainWithinBoth`; `StatusTellsServiceHolds`,
  where `AllowedIffIntersecting` gives an accepted route its virtual host;
  `ResolvedRefsTellsTheTruthHolds`, since a route that is served at all is served with all
  its entries; `NoDanglingClusterHolds` and `EdsForEveryEdsClusterHolds`, since every served
  route's backends are among those of clusters and assignments, and replacing a cluster by one
  of the same name takes no name away (`ClustersGrow`);
  `NoDoubleSlashHolds`; `RuleOrderKeptHolds`. `MostSpecificFirstHolds` needs in addition that
  Envoy's match of an entry is `Faithful` to the HTTPRoute's: same conditions, exact for exact,
  catch-all for catch-all, and of a length between twice the prefix's words and one more.
  `ResultFollowsFromInputHolds` has a second invariant on top of the first, `FollowsInput`: only routes
  that some HTTP listener lets attach have brought conditions or backends, and those behind
  the loops all have.

Only model-checked: everything temporal under fairness (`ImplementsSerialReconcile`'s
liveness, `RoutingConverges`, `AcceptanceConverges`, `HandlerRests`,
`EventuallyDeployed`, `EventuallyCollected`) and what depends on ENABLED, both
out of the prover's reach. The statements that the runs refute are not theorems.

## Where code and documents differ

Each has a run that TLC ends with a counterexample.

| run | the statement | what the code does |
| --- | --- | --- |
| `BackendIgnored` | "Watches Gateway, HTTPRoute, and XBackendDestination" (README.md:9) | no handler for backends, Services, Secrets or EndpointSlices is registered and the resync period is 0: a change of a backend alone never reaches the Envoy |
| `ForeignClass` | "Only process Gateways that use our GatewayClass" (`controllers/gateway.go:41`) | the route handler adds every parent, and syncHandler does not look at the class |
| `XdsRestart` | "Versions must be distinct and monotonically increasing" (`controlplane.go:160`) | the counter starts at 0 again, so a new snapshot may carry the version an Envoy already has |
| `TranslatorPanic` | "Skip invalid or conflicted listeners" (`translator.go:376`) | the status of such a listener is nil and is dereferenced first |
| `TranslatorEndpoints` | "Supports FQDN and Kubernetes Service backends" (README.md:12) | EndpointSlices are selected by the cluster's name for the backend, which is no Service's label |

## What else the models showed

Without a run of their own. In the controller:

- Two Gateways of one route overwrite its list of parents in turn
  (`controller.go:379`), and each write of the route enqueues both: the loop goes on as
  long as both exist.
- A route that leaves a Gateway by an update enqueues only the new parents, and
  tombstones fail the handlers' type assertion; `RoutingConverges` says exactly what is
  kept then. A Gateway of another class, once ours, is never cleaned up; a
  deleted Gateway's snapshot stays.
- Whether a GatewayClass was accepted has no effect on Gateways: their class is
  compared by name (`gateway.go:42`).
- A GatewayClass whose update failed with an error other than a conflict stays unaccepted until
  its next event (`lost` in `AcceptanceConverges`).

In the deployer:

- The informers of ConfigMaps, ServiceAccounts and Deployments are not among
  `c.syncers`, so shortly after a start canManage does not know them and a forced patch
  can take over somebody else's object. `NoTakeoverOfAwaited` is limited to the
  awaited kinds for this reason.
- DeleteGatewayInfra deletes by node ID what Deploy names differently, and the
  Gateway's address is looked up by the node ID too (`controller.go:342`).
  Collection works through owner references: `EventuallyCollected`.
- A deleted Deployment or Service is not restored before the next event of
  its Gateway.
- `waitForGatewayReady` always returns nil, so the error branch of its caller
  (`deployer.go:147`) is dead, and a worker waits up to a minute for nothing it uses.

In the translator:

- A port's virtual hosts go into the filter chain of each listener, as far as they are collected
  then (`translator.go:411`): routes are also served behind later listeners that they do not
  attach to, though they are associated "with the listeners that will handle" them
  (`translator.go:115`). `ServedWithinBoth` bounds the leak: a route comes from the chain's own
  listener or an earlier one of the port. A route attached to two of them appears twice; two
  HTTP listeners on a port give two filter chains with the same match.
- HTTPS chains carry no certificate, and a listener is programmed whether or not its
  certificate references resolve.
- ResolvedRefs is "a property of the route itself, independent of any parent"
  (`translator.go:168`), but a parent that is rejected, or accepted only by a listener that is
  not HTTP, is returned with a condition that has no status, which the API server refuses.
  `ResultFollowsFromInput` says which parents get a value.
- One invalid backend fails the whole Gateway, even at weight 0.
- A prefix rewrite turns the match "/foo" into "/foo/" (`httproute.go:179`). So
  "/foo" itself is no longer matched; the route, one letter longer, now precedes a
  rule for "/foo" with header conditions (`Lengthened` in `MostSpecificFirst`); and
  the replacement "/xyz" makes "/xyzbar" of "/foo/bar". The code guards against a double slash in
  this way for rewrites (`NoDoubleSlash`) but not for redirects with a
  prefix replacement.
- A URLRewrite with only a hostname is dropped (`httproute.go:267-271`), filters that follow
  a redirect are not looked at, and the method of a match is ignored.
- Equal matches keep their order only in a short slice: the comment "stable sort"
  (`httproute.go:787`) stands in a call of sort.Slice, which is unstable above 12
  elements (`RuleOrderKept`). Equal matches of different HTTPRoutes come in the
  order in which the lister returns the routes, that of a Go map.
- An XBackendDestination named "synsvc-x" has the cluster of the Service "x" in its
  namespace if the ports agree (`httproute.go:61-70`): one of the two clusters replaces the other
  and gets the traffic of both. If the destination's stays, which is no EDS cluster, the Service's
  assignment has no cluster, and PushXDS refuses the snapshot as inconsistent
  (`EdsForEveryEdsCluster`).
- The statuses of listeners never leave the translator (`translator.go:86`). They would count
  routes as attached to a listener whose filter chain failed (`translator.go:466`).

## What is left out

- Generated clients, deepcopy, CRDs, protobuf conversion, GVK tables, flags and
  client set-up: no state, or no logic.
- The addresses in a Gateway's status (`updateGatewayStatus` copies them from
  a Service) and its conditions other than Programmed.
- The content of manifests, among it the ports of the Service, whose names are cut and
  cleaned and might collide (`renderer.go`).
- Time: the length of back-off and of the waits.
- In the translator: what header and query matches compare, what redirects and header modifiers
  say, how a Secret is parsed (a certificate resolves or does not), the fixed parts of the Envoy
  configuration. Cluster names join namespace, name and port with "-"; that two of such triples
  can give one text is left out, but for the name of a destination like a Service's.

## Plan

Done: the work loop, the controller, the GatewayClass handler, the xDS control
plane, the deployer and the translator, each with an inductive invariant, and
every safety and action property of the runs proved from it.

What is left, most useful first:

1. Theorems across parts: the modules of the controller, of the push and of the translation
   are joined by refinement or EXTENDS only as far as the work loop goes.
2. Two Gateways in one run of `GatewayController`, with route statuses of both; the
   state space needs a coarser model of the events.
3. Gateway addresses and Service ports.
