---------------------------- MODULE InfraDeployer ----------------------------
(***************************************************************************)
(* The Envoy infrastructure of one Gateway (pkg/deployer/envoy): Deploy    *)
(* applies a ConfigMap, a ServiceAccount, a Deployment and a Service, one  *)
(* after the other, each after a look into an informer cache (canManage)   *)
(* and with the resource version found there; DeleteGatewayInfra runs when *)
(* the Gateway is gone.  Work items are serial per Gateway (SyncLoop), so  *)
(* one worker is enough.  The API server, its garbage collector and the    *)
(* other actors of the cluster are external.                               *)
(*                                                                         *)
(* "behind" stands for resource versions: the object was written since the *)
(* version the cache holds.  What an object contains is left out, except   *)
(* for the managed label and its owner references.                         *)
(***************************************************************************)
EXTENDS Integers, Sequences, SequencesExt

CONSTANTS Absent,
          Kinds,          \* the kinds of a Gateway's resources
          ManifestOrder,  \* the documents of base.yaml.tpl, in order
          Awaited,        \* the kinds whose informers Run waits for (c.syncers)
          Polled,         \* the kinds whose readiness Deploy waits for
          MaxUids, MaxOthers, MaxRestarts   \* bounds: Gateways created, acts of others
                                            \* and failed calls, restarts

ASSUME OrderAssumption == ManifestOrder \in Seq(Kinds) /\ ToSet(ManifestOrder) = Kinds
ASSUME AwaitedAssumption == Awaited \subseteq Kinds /\ Polled \subseteq Kinds
ASSUME InfraBounds == {MaxUids, MaxOthers, MaxRestarts} \subseteq Nat

VARIABLES gateway, gatewayCache,   \* uid of the Gateway, or Absent
          uids,                    \* uids given out
          api, cache, behind,      \* the resources: in the API server, in the informers
          synced,                  \* kinds whose informer has delivered its LIST
          queued,                  \* the Gateway's key is in the work queue (or delayed)
          pc, index, uid, rv,      \* the worker in Deploy
          skipped,                 \* kinds canManage refused in this Deploy
          waiting,                 \* goroutines of waitForGatewayReady that still poll
          deployed,                \* [uid, skipped] of the last Deploy that succeeded
          preexisting,             \* history: others' resources since the process started
          removed,                 \* history: deleted by others since they were last applied
          others, restarts

gatewayVars == <<gateway, gatewayCache, uids>>
workerVars == <<pc, index, uid, rv, skipped, waiting, deployed>>
historyVars == <<preexisting, removed>>
vars == <<gatewayVars, api, cache, behind, synced, queued, workerVars, historyVars, others, restarts>>

Uids == 1..MaxUids
Resources == [managed : BOOLEAN, owners : SUBSET Uids]
NotOurs == [managed |-> FALSE, owners |-> {}]

ASSUME InfraAbsent == Absent \notin Uids \cup Resources

TypeOK ==
  /\ {gateway, gatewayCache} \subseteq Uids \cup {Absent}
  /\ uids \in 0..MaxUids
  /\ api \in [Kinds -> Resources \cup {Absent}]
  /\ cache \in [Kinds -> Resources \cup {Absent}]
  /\ behind \in [Kinds -> BOOLEAN]
  /\ synced \subseteq Kinds /\ skipped \subseteq Kinds /\ waiting \subseteq Polled
  /\ preexisting \subseteq Kinds /\ removed \subseteq Kinds
  /\ queued \in BOOLEAN
  /\ pc \in {"idle", "check", "patch", "wait", "cleanup"}
  /\ index \in 1..Len(ManifestOrder) + 1
  /\ uid \in Uids \cup {Absent}
  /\ rv \in {"none", "current", "outdated"}
  /\ deployed \in {Absent} \cup [uid : Uids, skipped : SUBSET Kinds]

Existing(objects) == {k \in Kinds : objects[k] # Absent}

Init ==
  /\ gateway = Absent /\ gatewayCache = Absent /\ uids = 0
  /\ api \in [Kinds -> {Absent, NotOurs}]
  /\ cache = [k \in Kinds |-> Absent]
  /\ behind = [k \in Kinds |-> api[k] # Absent]
  /\ synced = {}
  /\ queued = FALSE
  /\ pc = "idle" /\ index = 1 /\ uid = Absent /\ rv = "none"
  /\ skipped = {} /\ waiting = {}
  /\ deployed = Absent
  /\ preexisting = Existing(api) /\ removed = {}
  /\ others = 0 /\ restarts = 0

----------------------------------------------------------------------------
(* The API server and its other clients.                                   *)

(* Every write outdates the cache, and a resource version the worker holds.*)
Write(k, obj) ==
  /\ api' = [api EXCEPT ![k] = obj]
  /\ behind' = [behind EXCEPT ![k] = TRUE]
  /\ rv' = IF pc = "patch" /\ ManifestOrder[index] = k /\ rv = "current" THEN "outdated" ELSE rv

CreateGateway ==
  /\ gateway = Absent /\ uids < MaxUids
  /\ uids' = uids + 1
  /\ gateway' = uids + 1
  /\ UNCHANGED <<gatewayCache, api, cache, behind, synced, queued, workerVars, historyVars,
                 others, restarts>>

DeleteGateway ==
  /\ gateway # Absent
  /\ gateway' = Absent
  /\ UNCHANGED <<gatewayCache, uids, api, cache, behind, synced, queued, workerVars, historyVars,
                 others, restarts>>

(* Somebody else creates a resource of the same name, or deletes one,      *)
(* whoever's it is, or a cluster controller updates it (a status).         *)
OtherActor(k) ==
  /\ others < MaxOthers
  /\ others' = others + 1
  /\ \/ api[k] = Absent /\ Write(k, NotOurs) /\ UNCHANGED historyVars
     \/ /\ api[k] # Absent /\ Write(k, Absent)
        /\ preexisting' = preexisting \ {k}
        /\ removed' = removed \cup {k}
     \/ api[k] # Absent /\ Write(k, api[k]) /\ UNCHANGED historyVars
  /\ UNCHANGED <<gatewayVars, cache, synced, queued, pc, index, uid, skipped, waiting, deployed, restarts>>

(* The garbage collector deletes a resource all of whose owners are gone.  *)
CollectGarbage(k) ==
  /\ api[k] # Absent
  /\ api[k].owners # {} /\ gateway \notin api[k].owners
  /\ Write(k, Absent)
  /\ UNCHANGED <<gatewayVars, cache, synced, queued, pc, index, uid, skipped, waiting, deployed,
                 historyVars, others, restarts>>

----------------------------------------------------------------------------
(* The informers.  Only the Gateway's has a handler, and that drops a      *)
(* deletion which the watch missed.                                        *)
Deliver(k) ==
  /\ behind[k] \/ k \notin synced
  /\ cache' = [cache EXCEPT ![k] = api[k]]
  /\ behind' = [behind EXCEPT ![k] = FALSE]
  /\ synced' = synced \cup {k}
  /\ UNCHANGED <<gatewayVars, api, queued, workerVars, historyVars, others, restarts>>

DeliverGateway ==
  /\ gatewayCache # gateway
  /\ gatewayCache' = gateway
  /\ \/ queued' = TRUE
     \/ gateway = Absent /\ UNCHANGED queued
  /\ UNCHANGED <<gateway, uids, api, cache, behind, synced, workerVars, historyVars,
                 others, restarts>>

----------------------------------------------------------------------------
(* syncHandler on the Gateway's key.                                       *)

HasSynced == Awaited \subseteq synced

NextPhaseUnchecked == "check"   \* mutant: a Gateway that is gone is deployed all the same

NextPhase == IF gatewayCache = Absent THEN "cleanup" ELSE "check"

BeginSync ==
  /\ pc = "idle" /\ queued /\ HasSynced
  /\ queued' = FALSE
  /\ pc' = NextPhase
  /\ uid' = gatewayCache
  /\ index' = 1
  /\ skipped' = {}
  /\ UNCHANGED <<gatewayVars, api, cache, behind, synced, rv, waiting, deployed, historyVars,
                 others, restarts>>

(* canManage: a resource that the cache does not know, or knows as ours.   *)
CanManageAll(k) == TRUE   \* mutant: the label is not looked at

CanManage(k) == cache[k] # Absent => cache[k].managed

Advance == index' = index + 1

(* applyOne, up to the patch.  Without an object in the cache there is no  *)
(* resource version to protect the patch with.                             *)
Check ==
  /\ pc = "check" /\ index <= Len(ManifestOrder)
  /\ LET k == ManifestOrder[index]
     IN  \/ /\ CanManage(k) = TRUE
            /\ pc' = "patch"
            /\ rv' = IF cache[k] = Absent THEN "none"
                     ELSE IF behind[k] THEN "outdated" ELSE "current"
            /\ UNCHANGED <<index, skipped>>
         \/ /\ ~CanManage(k)
            /\ skipped' = skipped \cup {k}
            /\ Advance
            /\ UNCHANGED <<pc, rv>>
  /\ UNCHANGED <<gatewayVars, api, cache, behind, synced, queued, uid, waiting, deployed, historyVars,
                 others, restarts>>

(* The managed label is set, and the one owner is the Gateway: an apply by *)
(* the same field manager takes away the owner it named before.            *)
OwnersUnset == {}     \* mutant: the manifest has no ownerReferences

Owners == {uid}

(* An apply that changes nothing is no write.                              *)
Apply(k) ==
  LET obj == [managed |-> TRUE, owners |-> Owners]
  IN  IF obj = api[k] THEN UNCHANGED <<api, behind, rv>> ELSE Write(k, obj)

(* With a resource version the apply fails if the object was written since.*)
(* If the object is gone it may fail or create.                            *)
MayApply(k) == rv = "outdated" => api[k] = Absent

PatchForced ==           \* mutant: a conflict counts as applied
  /\ pc = "patch"
  /\ pc' = "check"
  /\ Advance
  /\ LET k == ManifestOrder[index]
     IN  /\ removed' = removed \ {k}
         /\ IF rv = "outdated" THEN UNCHANGED <<api, behind, rv>> ELSE Apply(k)
  /\ UNCHANGED <<gatewayVars, cache, synced, queued, uid, skipped, waiting, deployed, preexisting,
                 others, restarts>>

(* The forced server-side apply.                                           *)
Patch ==
  /\ pc = "patch"
  /\ LET k == ManifestOrder[index]
     IN  MayApply(k) /\ Apply(k) /\ removed' = removed \ {k}
  /\ pc' = "check"
  /\ Advance
  /\ UNCHANGED <<gatewayVars, cache, synced, queued, uid, skipped, waiting, deployed, preexisting,
                 others, restarts>>

(* An error ends the sync; earlier resources stay applied, and the key is  *)
(* re-added with a delay.                                                  *)
SyncFails == pc' = "idle" /\ queued' = TRUE

CallFails == others < MaxOthers /\ others' = others + 1

(* A conflict, another error, or the answer to an apply is lost.           *)
PatchFails ==
  /\ pc = "patch"
  /\ LET k == ManifestOrder[index]
     IN  \/ rv = "outdated" /\ UNCHANGED <<api, behind, rv, others>>
         \/ CallFails /\ UNCHANGED <<api, behind, rv>>
         \/ CallFails /\ MayApply(k) /\ Apply(k)
  /\ SyncFails
  /\ UNCHANGED <<gatewayVars, cache, synced, index, uid, skipped, waiting, deployed, historyVars,
                 restarts>>

(* All applied: waitForGatewayReady starts a goroutine for each wait.      *)
BeginWait ==
  /\ pc = "check" /\ index > Len(ManifestOrder)
  /\ pc' = "wait"
  /\ waiting' = Polled
  /\ UNCHANGED <<gatewayVars, api, cache, behind, synced, queued, index, uid, rv, skipped,
                 deployed, historyVars, others, restarts>>

WaitEnds(k) ==
  /\ k \in waiting
  /\ waiting' = waiting \ {k}
  /\ UNCHANGED <<gatewayVars, api, cache, behind, synced, queued, pc, index, uid, rv, skipped,
                 deployed, historyVars, others, restarts>>

(* A poll finds the resource ready, which it may never be, or gets an      *)
(* error: it is gone, or the call fails.                                   *)
Poll(k) == WaitEnds(k)

NoTimeOut(k) == FALSE /\ WaitEnds(k)   \* mutant: polls for as long as it takes

TimeOut(k) == WaitEnds(k)

(* However the waits ended: their errors are logged, Deploy returns nil.   *)
DeployDone ==
  /\ pc = "wait" /\ waiting = {}
  /\ pc' = "idle"
  /\ deployed' = [uid |-> uid, skipped |-> skipped]
  /\ UNCHANGED <<gatewayVars, api, cache, behind, synced, queued, index, uid, rv, skipped, waiting,
                 historyVars, others, restarts>>

(* DeleteGatewayInfra deletes resources named by the node ID, but Deploy   *)
(* names them by generateResourceName; NotFound is no error.               *)
ResourceName == "envoy-gateway"
NodeID == "envoy-proxy-hash"
DeletedKinds == IF NodeID = ResourceName THEN Kinds ELSE {}

Delete(kinds) ==
  /\ api' = [k \in Kinds |-> IF k \in kinds THEN Absent ELSE api[k]]
  /\ behind' = [k \in Kinds |-> behind[k] \/ k \in kinds]

Cleanup ==
  /\ pc = "cleanup"
  /\ Delete(DeletedKinds)
  /\ pc' = "idle"
  /\ UNCHANGED <<gatewayVars, cache, synced, queued, index, uid, rv, skipped, waiting, deployed,
                 historyVars, others, restarts>>

(* The first error returns.                                                *)
CleanupFails ==
  /\ pc = "cleanup" /\ CallFails
  /\ \E kinds \in SUBSET DeletedKinds : Delete(kinds)
  /\ SyncFails
  /\ UNCHANGED <<gatewayVars, cache, synced, index, uid, rv, skipped, waiting, deployed,
                 historyVars, restarts>>

(* The process ends at any moment and is started again.                    *)
Restart ==
  /\ restarts < MaxRestarts
  /\ restarts' = restarts + 1
  /\ gatewayCache' = Absent
  /\ cache' = [k \in Kinds |-> Absent]
  /\ behind' = [k \in Kinds |-> api[k] # Absent]
  /\ synced' = {}
  /\ queued' = FALSE
  /\ pc' = "idle" /\ index' = 1 /\ uid' = Absent /\ rv' = "none"
  /\ skipped' = {} /\ waiting' = {} /\ deployed' = Absent
  /\ preexisting' = {k \in Existing(api) : ~api[k].managed}
  /\ removed' = {}
  /\ UNCHANGED <<gateway, uids, api, others>>

Sync == BeginSync \/ Check \/ Patch \/ PatchFails \/ BeginWait \/ DeployDone \/ Cleanup \/ CleanupFails

Next ==
  \/ CreateGateway \/ DeleteGateway \/ DeliverGateway \/ Sync \/ Restart
  \/ \E k \in Kinds : OtherActor(k) \/ CollectGarbage(k) \/ Deliver(k) \/ Poll(k) \/ TimeOut(k)

(* Informers deliver, the worker is scheduled, polling times out, garbage  *)
(* is collected.  Nothing says that a resource is ever ready.              *)
Fairness ==
  /\ WF_vars(DeliverGateway) /\ WF_vars(Sync)
  /\ \A k \in Kinds : WF_vars(CollectGarbage(k)) /\ WF_vars(Deliver(k)) /\ WF_vars(TimeOut(k))

Spec == Init /\ [][Next]_vars
FairSpec == Spec /\ Fairness

----------------------------------------------------------------------------
(* A resource that somebody else had before the process started is not     *)
(* taken over (canManage, deployer.go:277), if its kind's informer is one  *)
(* that Run waits for: its cache knows every such resource before the      *)
(* first sync.  For the kinds that are not awaited this does not hold.     *)
NoTakeoverOfAwaited == \A k \in preexisting \cap Awaited : ~api[k].managed

(* A Deploy that returned without error for the Gateway that exists now    *)
(* left each resource in place and owned by it, unless it is somebody      *)
(* else's or somebody else deleted it after the apply: whatever conflicts, *)
(* failures, deletions, collections and restarts came between.             *)
DeployedMeansOwned ==
  deployed # Absent /\ deployed.uid = gateway
    => \A k \in Kinds \ (deployed.skipped \cup removed) :
         api[k] # Absent /\ gateway \in api[k].owners

(* The Gateway that stays gets deployed, in spite of stale caches, of      *)
(* writers that make applies fail and of resources that never get ready.   *)
EventuallyDeployed == <>[](gateway # Absent => deployed # Absent /\ deployed.uid = gateway)

(* Nothing of a deleted Gateway remains.  It is the owner references that  *)
(* achieve this, also for what a late sync recreates.                      *)
EventuallyCollected ==
  <>[](gateway = Absent => \A k \in Kinds : api[k] # Absent => ~api[k].managed)
=============================================================================
