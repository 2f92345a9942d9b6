----------------------------- MODULE InfraProofs -----------------------------
(***************************************************************************)
(* What InfraDeployer promises for any kinds, any order of the manifest    *)
(* and any number of Gateways, restarts and acts of others.  The argument  *)
(* for DeployedMeansOwned: while the Gateway a Deploy was started for is   *)
(* the one that exists, the garbage collector leaves what it owns alone,   *)
(* and so does any other Deploy, since an informer does not go back to an  *)
(* earlier Gateway: what was applied so far is still owned when the last   *)
(* is, unless somebody deleted it, which "removed" remembers.  The        *)
(* argument for NoTakeoverOfAwaited: the cache of an awaited kind knows    *)
(* every resource from before the start before the first look into it.     *)
(***************************************************************************)
EXTENDS InfraDeployer, TLAPS

Given(u) == u = Absent \/ u \in 1..uids

UidsGiven ==
  /\ Given(gateway) /\ Given(gatewayCache) /\ Given(uid)
  /\ deployed # Absent => deployed.uid \in 1..uids

OwnersAreManaged == \A k \in Kinds : api[k] # Absent /\ api[k].owners # {} => api[k].managed

OwnedBy(k, u) == api[k] # Absent /\ u \in api[k].owners

Deploying == pc \in {"check", "patch", "wait"}

AppliedSoFar ==
  Deploying => /\ uid # Absent
               /\ uid = gateway => \A j \in 1..(index - 1) :
                                     \/ ManifestOrder[j] \in skipped \cup removed
                                     \/ OwnedBy(ManifestOrder[j], uid)

(* No Deploy for an earlier Gateway runs once the existing one is known.   *)
CacheFollows ==
  /\ Deploying /\ uid = gateway => gatewayCache = gateway
  /\ deployed # Absent /\ deployed.uid = gateway =>
       gatewayCache = gateway /\ (Deploying => uid = gateway)

PhaseBounds ==
  /\ pc = "patch" => index <= Len(ManifestOrder)
  /\ pc = "wait" => index > Len(ManifestOrder)

AwaitedSeen ==
  /\ pc # "idle" => Awaited \subseteq synced
  /\ \A k \in preexisting \cap Awaited :
       /\ api[k] # Absent /\ ~api[k].managed
       /\ k \in synced => cache[k] # Absent /\ ~cache[k].managed
  /\ pc = "patch" => ManifestOrder[index] \notin preexisting \cap Awaited

IInv == TypeOK /\ UidsGiven /\ OwnersAreManaged /\ AppliedSoFar /\ CacheFollows /\ PhaseBounds
        /\ DeployedMeansOwned /\ AwaitedSeen

----------------------------------------------------------------------------
LEMMA ConstantsTyped ==
  /\ Len(ManifestOrder) \in Nat
  /\ \A j \in 1..Len(ManifestOrder) : ManifestOrder[j] \in Kinds
  /\ \A k \in Kinds : \E j \in 1..Len(ManifestOrder) : ManifestOrder[j] = k
  /\ MaxUids \in Nat /\ Awaited \subseteq Kinds /\ Polled \subseteq Kinds
  /\ Absent \notin Uids /\ Absent \notin Resources
<1>1. /\ ManifestOrder \in Seq(Kinds) /\ Len(ManifestOrder) \in Nat
      /\ DOMAIN ManifestOrder = 1..Len(ManifestOrder)
  BY OrderAssumption
<1>2. Kinds = {ManifestOrder[j] : j \in 1..Len(ManifestOrder)}
  BY <1>1, OrderAssumption DEF ToSet
<1> QED  BY <1>1, <1>2, AwaitedAssumption, InfraBounds, InfraAbsent

LEMMA InitImpliesIInv == Init => IInv
<1> SUFFICES ASSUME Init PROVE IInv
  OBVIOUS
<1>1. NotOurs \in Resources /\ NotOurs.owners = {} /\ NotOurs.managed = FALSE
  BY DEF NotOurs, Resources
<1>2. TypeOK
  <2>1. api \in [Kinds -> Resources \cup {Absent}]
    BY <1>1 DEF Init
  <2>2. cache \in [Kinds -> Resources \cup {Absent}] /\ behind \in [Kinds -> BOOLEAN]
    BY DEF Init
  <2>3. preexisting \subseteq Kinds /\ 0 \in 0..MaxUids /\ 1 \in 1..Len(ManifestOrder) + 1
    BY ConstantsTyped DEF Init, Existing
  <2> QED  BY <2>1, <2>2, <2>3 DEF Init, TypeOK
<1>3. OwnersAreManaged /\ UidsGiven /\ AppliedSoFar /\ CacheFollows /\ PhaseBounds
      /\ DeployedMeansOwned
  BY <1>1 DEF Init, OwnersAreManaged, UidsGiven, Given, AppliedSoFar, CacheFollows, Deploying,
              PhaseBounds, DeployedMeansOwned
<1>4. AwaitedSeen
  BY <1>1 DEF Init, AwaitedSeen, Existing
<1> QED  BY <1>2, <1>3, <1>4 DEF IInv

(* A write of somebody else that takes nothing from the living Gateway and *)
(* leaves alone what was there before the process started.                 *)
LEMMA WriteOfOthers ==
  ASSUME IInv, NEW k \in Kinds, NEW o \in Resources \cup {Absent}, Write(k, o),
         UNCHANGED <<gatewayVars, cache, synced, queued, pc, index, uid, skipped, waiting, deployed>>,
         preexisting' \subseteq preexisting,
         removed' = removed \/ removed' = removed \cup {k},
         o # Absent /\ o.owners # {} => o.managed,
         OwnedBy(k, gateway) => k \in removed' \/ (o # Absent /\ gateway \in o.owners),
         k \in preexisting' \cap Awaited => o # Absent /\ ~o.managed
  PROVE  IInv'
<1> USE DEF IInv
<1>1. /\ api' = [api EXCEPT ![k] = o] /\ behind' = [behind EXCEPT ![k] = TRUE]
      /\ rv' \in {"none", "current", "outdated"}
  BY DEF Write, TypeOK
<1>2. UNCHANGED <<gateway, gatewayCache, uids, cache, synced, queued, pc, index, uid, skipped,
                  waiting, deployed>>
  BY DEF gatewayVars
<1>3. \A j \in Kinds : api'[j] = IF j = k THEN o ELSE api[j]
  BY <1>1 DEF TypeOK
<1>4. TypeOK'
  BY <1>1, <1>2 DEF TypeOK
<1>5. UidsGiven' /\ PhaseBounds' /\ CacheFollows'
  BY <1>2 DEF UidsGiven, Given, PhaseBounds, CacheFollows, Deploying
<1>6. OwnersAreManaged'
  BY <1>3 DEF OwnersAreManaged
<1>7. \A j \in Kinds : OwnedBy(j, gateway) => j \in removed' \/ OwnedBy(j, gateway)'
  BY <1>2, <1>3 DEF OwnedBy
<1>8. AppliedSoFar'
  <2> SUFFICES ASSUME Deploying, uid = gateway, NEW j \in 1..(index - 1),
                      ManifestOrder[j] \notin skipped \cup removed'
               PROVE  OwnedBy(ManifestOrder[j], gateway)'
    BY <1>2 DEF AppliedSoFar, Deploying, OwnedBy
  <2>1. ManifestOrder[j] \in Kinds
    BY ConstantsTyped DEF TypeOK
  <2> QED  BY <1>7, <2>1 DEF AppliedSoFar
<1>9. DeployedMeansOwned'
  BY <1>2, <1>7 DEF DeployedMeansOwned, OwnedBy
<1>10. AwaitedSeen'
  <2>1. \A j \in preexisting' \cap Awaited : j \in Kinds /\ j \in preexisting
    BY ConstantsTyped
  <2> QED  BY <1>2, <1>3, <2>1 DEF AwaitedSeen
<1> QED  BY <1>4, <1>5, <1>6, <1>8, <1>9, <1>10

LEMMA OtherActorPreserves ==
  ASSUME IInv, NEW k \in Kinds, OtherActor(k)
  PROVE  IInv'
<1>1. /\ UNCHANGED <<gatewayVars, cache, synced, queued, pc, index, uid, skipped, waiting, deployed>>
      /\ api[k] \in Resources \cup {Absent}
      /\ NotOurs \in Resources /\ NotOurs.owners = {} /\ NotOurs.managed = FALSE
  BY DEF OtherActor, historyVars, IInv, TypeOK, NotOurs, Resources
<1>2. OwnedBy(k, gateway) => api[k] # Absent /\ api[k].managed
  BY DEF OwnedBy, IInv, OwnersAreManaged
<1>3. /\ api[k] # Absent /\ api[k].owners # {} => api[k].managed
      /\ k \in preexisting \cap Awaited => api[k] # Absent /\ ~api[k].managed
  BY DEF IInv, OwnersAreManaged, AwaitedSeen
<1>4. CASE api[k] = Absent /\ Write(k, NotOurs) /\ UNCHANGED <<preexisting, removed>>
  BY <1>1, <1>2, <1>3, <1>4, WriteOfOthers
<1>5. CASE /\ api[k] # Absent /\ Write(k, Absent)
           /\ preexisting' = preexisting \ {k} /\ removed' = removed \cup {k}
  BY <1>1, <1>2, <1>3, <1>5, WriteOfOthers
<1>6. CASE api[k] # Absent /\ Write(k, api[k]) /\ UNCHANGED <<preexisting, removed>>
  BY <1>1, <1>3, <1>6, WriteOfOthers DEF OwnedBy
<1> QED  BY <1>4, <1>5, <1>6 DEF OtherActor, historyVars

LEMMA CollectGarbagePreserves ==
  ASSUME IInv, NEW k \in Kinds, CollectGarbage(k)
  PROVE  IInv'
<1>1. /\ UNCHANGED <<gatewayVars, cache, synced, queued, pc, index, uid, skipped, waiting, deployed>>
      /\ UNCHANGED <<preexisting, removed>> /\ Write(k, Absent)
      /\ api[k] # Absent /\ api[k].owners # {} /\ gateway \notin api[k].owners
  BY DEF CollectGarbage, historyVars
<1>2. api[k].managed
  BY <1>1 DEF IInv, OwnersAreManaged
<1>3. k \notin preexisting' \cap Awaited /\ ~OwnedBy(k, gateway)
  BY <1>1, <1>2 DEF OwnedBy, IInv, AwaitedSeen
<1> QED  BY <1>1, <1>3, WriteOfOthers

(* Users create Gateways under new uids, so one that is gone never returns.*)
LEMMA UsersPreserve ==
  ASSUME IInv, CreateGateway \/ DeleteGateway
  PROVE  IInv'
<1> USE DEF IInv
<1>1. UNCHANGED <<gatewayCache, api, cache, behind, synced, queued, workerVars, preexisting, removed>>
  BY DEF CreateGateway, DeleteGateway, historyVars
<1>2. /\ uids \in Nat /\ uids' \in 0..MaxUids /\ uids <= uids'
      /\ gateway' = Absent \/ (gateway' = uids + 1 /\ uids' = uids + 1)
  BY ConstantsTyped DEF CreateGateway, DeleteGateway, TypeOK
<1>3. gateway' \in Uids \cup {Absent}
  BY <1>2, ConstantsTyped DEF Uids
<1>4. TypeOK'
  BY <1>1, <1>2, <1>3 DEF TypeOK, workerVars
<1>5. UidsGiven'
  BY <1>1, <1>2 DEF UidsGiven, Given, workerVars
<1>6. uid # Absent => uid # gateway'
  BY <1>2 DEF UidsGiven, Given
<1>7. deployed # Absent => deployed.uid # gateway'
  <2> SUFFICES ASSUME deployed # Absent PROVE deployed.uid # gateway'
    OBVIOUS
  <2>1. deployed.uid \in 1..uids /\ deployed.uid \in Uids
    BY DEF UidsGiven, TypeOK
  <2> QED  BY <1>2, <2>1, ConstantsTyped
<1>8. AppliedSoFar' /\ DeployedMeansOwned' /\ CacheFollows'
  BY <1>1, <1>6, <1>7 DEF AppliedSoFar, Deploying, DeployedMeansOwned, CacheFollows, workerVars
<1>9. OwnersAreManaged' /\ PhaseBounds' /\ AwaitedSeen'
  BY <1>1 DEF OwnersAreManaged, PhaseBounds, AwaitedSeen, workerVars
<1> QED  BY <1>4, <1>5, <1>8, <1>9

LEMMA DeliverPreserves ==
  ASSUME IInv, NEW k \in Kinds, Deliver(k)
  PROVE  IInv'
<1> USE DEF IInv
<1>1. /\ UNCHANGED <<gatewayVars, api, queued, workerVars, preexisting, removed>>
      /\ cache' = [cache EXCEPT ![k] = api[k]] /\ behind' = [behind EXCEPT ![k] = FALSE]
      /\ synced' = synced \cup {k}
  BY DEF Deliver, historyVars
<1>2. TypeOK'
  BY <1>1 DEF TypeOK, gatewayVars, workerVars
<1>3. UidsGiven' /\ OwnersAreManaged' /\ PhaseBounds' /\ DeployedMeansOwned' /\ CacheFollows'
  BY <1>1 DEF UidsGiven, Given, OwnersAreManaged, PhaseBounds, DeployedMeansOwned, CacheFollows,
              Deploying, gatewayVars, workerVars
<1>4. AppliedSoFar'
  BY <1>1 DEF AppliedSoFar, Deploying, OwnedBy, gatewayVars, workerVars
<1>5. \A j \in Kinds : cache'[j] = IF j = k THEN api[j] ELSE cache[j]
  BY <1>1 DEF TypeOK
<1>6. AwaitedSeen'
  <2>1. \A j \in preexisting \cap Awaited : j \in Kinds
    BY ConstantsTyped
  <2> QED  BY <1>1, <1>5, <2>1 DEF AwaitedSeen, workerVars
<1> QED  BY <1>2, <1>3, <1>4, <1>6

LEMMA DeliverGatewayPreserves ==
  ASSUME IInv, DeliverGateway
  PROVE  IInv'
<1> USE DEF IInv
<1>1. /\ UNCHANGED <<gateway, uids, api, cache, behind, synced, workerVars, preexisting, removed>>
      /\ gatewayCache' = gateway /\ queued' \in BOOLEAN
  BY DEF DeliverGateway, TypeOK, historyVars
<1>2. TypeOK' /\ UidsGiven'
  BY <1>1 DEF TypeOK, UidsGiven, Given, workerVars
<1>3. OwnersAreManaged' /\ PhaseBounds' /\ DeployedMeansOwned' /\ AwaitedSeen' /\ CacheFollows'
  BY <1>1 DEF OwnersAreManaged, PhaseBounds, DeployedMeansOwned, AwaitedSeen, CacheFollows, Deploying,
              workerVars
<1>4. AppliedSoFar'
  BY <1>1 DEF AppliedSoFar, Deploying, OwnedBy, workerVars
<1> QED  BY <1>2, <1>3, <1>4

----------------------------------------------------------------------------
(* The steps of syncHandler.                                               *)

LEMMA BeginSyncPreserves ==
  ASSUME IInv, BeginSync
  PROVE  IInv'
<1> USE DEF IInv
<1>1. /\ UNCHANGED <<gateway, gatewayCache, uids, api, cache, behind, synced, rv, waiting, deployed,
                     preexisting, removed>>
      /\ queued' = FALSE /\ uid' = gatewayCache /\ index' = 1 /\ skipped' = {}
      /\ pc' = IF gatewayCache = Absent THEN "cleanup" ELSE "check"
      /\ Awaited \subseteq synced
  BY DEF BeginSync, NextPhase, HasSynced, gatewayVars, historyVars
<1>2. TypeOK'
  <2>1. 1 \in 1..Len(ManifestOrder) + 1
    BY ConstantsTyped
  <2> QED  BY <1>1, <2>1 DEF TypeOK
<1>3. UidsGiven' /\ OwnersAreManaged' /\ PhaseBounds' /\ DeployedMeansOwned' /\ AwaitedSeen'
  BY <1>1 DEF UidsGiven, Given, OwnersAreManaged, PhaseBounds, DeployedMeansOwned, AwaitedSeen
<1>4. AppliedSoFar' /\ CacheFollows'
  BY <1>1 DEF AppliedSoFar, CacheFollows, Deploying
<1> QED  BY <1>2, <1>3, <1>4

LEMMA CheckPreserves ==
  ASSUME IInv, Check
  PROVE  IInv'
<1> USE DEF IInv
<1> DEFINE k == ManifestOrder[index]
<1>1. /\ UNCHANGED <<gateway, gatewayCache, uids, api, cache, behind, synced, queued, uid, waiting,
                     deployed, preexisting, removed>>
      /\ pc = "check" /\ index \in 1..Len(ManifestOrder) /\ index \in Nat /\ k \in Kinds
  BY ConstantsTyped DEF Check, gatewayVars, historyVars, TypeOK
<1>2. UidsGiven' /\ OwnersAreManaged'
  BY <1>1 DEF UidsGiven, Given, OwnersAreManaged
<1>3. CASE CanManage(k) /\ pc' = "patch" /\ rv' \in {"none", "current", "outdated"}
           /\ UNCHANGED <<index, skipped>>
  <2>1. TypeOK' /\ PhaseBounds' /\ DeployedMeansOwned' /\ CacheFollows'
    BY <1>1, <1>3 DEF TypeOK, PhaseBounds, DeployedMeansOwned, CacheFollows, Deploying
  <2>2. AppliedSoFar'
    BY <1>1, <1>3 DEF AppliedSoFar, Deploying, OwnedBy
  <2>3. k \notin preexisting \cap Awaited
    BY <1>1, <1>3 DEF CanManage, AwaitedSeen
  <2>4. AwaitedSeen'
    BY <1>1, <1>3, <2>3 DEF AwaitedSeen
  <2> QED  BY <1>2, <2>1, <2>2, <2>4
<1>4. CASE skipped' = skipped \cup {k} /\ index' = index + 1 /\ UNCHANGED <<pc, rv>>
  <2>1. index' \in 1..Len(ManifestOrder) + 1
    BY <1>1, <1>4, ConstantsTyped
  <2>2. TypeOK' /\ PhaseBounds' /\ DeployedMeansOwned' /\ AwaitedSeen' /\ CacheFollows'
    BY <1>1, <1>4, <2>1 DEF TypeOK, PhaseBounds, DeployedMeansOwned, AwaitedSeen, CacheFollows, Deploying
  <2>3. AppliedSoFar'
    <3> SUFFICES ASSUME uid = gateway, NEW j \in 1..(index' - 1)
                 PROVE  ManifestOrder[j] \in skipped' \cup removed \/ OwnedBy(ManifestOrder[j], uid)
      BY <1>1, <1>4 DEF AppliedSoFar, Deploying, OwnedBy
    <3>1. j = index \/ j \in 1..(index - 1)
      BY <1>1, <1>4
    <3> QED  BY <1>1, <1>4, <3>1 DEF AppliedSoFar, Deploying
  <2> QED  BY <1>2, <2>2, <2>3
<1>5. \/ CanManage(k) /\ pc' = "patch" /\ rv' \in {"none", "current", "outdated"}
         /\ UNCHANGED <<index, skipped>>
      \/ skipped' = skipped \cup {k} /\ index' = index + 1 /\ UNCHANGED <<pc, rv>>
  BY DEF Check, Advance
<1> QED  BY <1>3, <1>4, <1>5

(* An applied resource is ours; what the existing Gateway owns stays its.  *)
LEMMA ApplyEffect ==
  ASSUME IInv, pc = "patch", NEW k \in Kinds, k = ManifestOrder[index], Apply(k)
  PROVE  /\ api' \in [Kinds -> Resources \cup {Absent}] /\ behind' \in [Kinds -> BOOLEAN]
         /\ rv' \in {"none", "current", "outdated"}
         /\ \A j \in Kinds : j # k => api'[j] = api[j]
         /\ api'[k] # Absent /\ api'[k].managed /\ api'[k].owners = {uid}
         /\ k \notin preexisting \cap Awaited
<1> USE DEF IInv
<1> DEFINE o == [managed |-> TRUE, owners |-> Owners]
<1>1. uid \in Uids
  BY DEF TypeOK, AppliedSoFar, Deploying
<1>2. o \in Resources /\ o # Absent /\ o.managed = TRUE /\ o.owners = {uid}
  <2>1. o \in Resources
    BY <1>1 DEF Resources, Owners
  <2> QED  BY <2>1, ConstantsTyped DEF Owners
<1>3. CASE o = api[k] /\ UNCHANGED <<api, behind, rv>>
  BY <1>2, <1>3 DEF TypeOK, AwaitedSeen
<1>4. CASE Write(k, o)
  <2>1. api' = [api EXCEPT ![k] = o] /\ behind' = [behind EXCEPT ![k] = TRUE]
        /\ rv' \in {"none", "current", "outdated"}
    BY <1>4 DEF Write, TypeOK
  <2> QED  BY <1>2, <2>1 DEF TypeOK, AwaitedSeen
<1> QED  BY <1>3, <1>4 DEF Apply

(* After an apply, whether the sync goes on or learns of it or not.        *)
LEMMA AppliedPreserves ==
  ASSUME IInv, pc = "patch", NEW k \in Kinds, k = ManifestOrder[index], Apply(k),
         UNCHANGED <<gateway, gatewayCache, uids, cache, synced, uid, skipped, waiting, deployed,
                     preexisting>>,
         queued' \in BOOLEAN,
         \/ pc' = "check" /\ index' = index + 1 /\ removed' = removed \ {k}
         \/ pc' = "idle" /\ index' = index /\ removed' = removed
  PROVE  IInv'
<1> USE DEF IInv
<1>1. /\ index \in Nat /\ index \in 1..Len(ManifestOrder) /\ index' \in 1..Len(ManifestOrder) + 1
      /\ uid \in Uids
  BY ConstantsTyped DEF TypeOK, PhaseBounds, AppliedSoFar, Deploying
<1>2. /\ api' \in [Kinds -> Resources \cup {Absent}] /\ behind' \in [Kinds -> BOOLEAN]
      /\ rv' \in {"none", "current", "outdated"}
      /\ \A j \in Kinds : j # k => api'[j] = api[j]
      /\ api'[k] # Absent /\ api'[k].managed /\ api'[k].owners = {uid}
      /\ k \notin preexisting \cap Awaited
  BY ApplyEffect
<1>3. TypeOK'
  BY <1>1, <1>2 DEF TypeOK
<1>4. UidsGiven' /\ PhaseBounds' /\ OwnersAreManaged' /\ CacheFollows'
  BY <1>2 DEF UidsGiven, Given, PhaseBounds, OwnersAreManaged, CacheFollows, Deploying
<1>5. OwnedBy(k, uid)' /\ \A j \in Kinds : OwnedBy(j, uid) => OwnedBy(j, uid)'
  BY <1>2 DEF OwnedBy
<1>6. AppliedSoFar'
  <2> SUFFICES ASSUME pc' = "check", uid = gateway, NEW j \in 1..(index' - 1),
                      ManifestOrder[j] \notin skipped \cup removed'
               PROVE  OwnedBy(ManifestOrder[j], uid)'
    BY <1>1, ConstantsTyped DEF AppliedSoFar, Deploying, OwnedBy
  <2>1. CASE j = index
    <3>1. ManifestOrder[j] = k
      BY <2>1
    <3> QED  BY <1>5, <3>1 DEF OwnedBy
  <2>2. CASE j # index
    <3>1. j \in 1..(index - 1) /\ ManifestOrder[j] \in Kinds
      BY <1>1, <2>2, ConstantsTyped
    <3>2. CASE ManifestOrder[j] = k
      BY <1>5, <3>2 DEF OwnedBy
    <3>3. CASE ManifestOrder[j] # k
      <4>1. OwnedBy(ManifestOrder[j], uid)
        BY <3>1, <3>3 DEF AppliedSoFar, Deploying
      <4> QED  BY <1>5, <3>1, <4>1 DEF OwnedBy
    <3> QED  BY <3>2, <3>3
  <2> QED  BY <2>1, <2>2
<1>7. DeployedMeansOwned'
  <2> SUFFICES ASSUME deployed # Absent, deployed.uid = gateway,
                      NEW j \in Kinds, j \notin deployed.skipped, j \notin removed'
               PROVE  OwnedBy(j, gateway)'
    BY DEF DeployedMeansOwned, OwnedBy
  <2>1. uid = gateway
    BY DEF CacheFollows, Deploying
  <2>2. CASE j = k
    BY <1>5, <2>1, <2>2 DEF OwnedBy
  <2>3. CASE j # k
    <3>1. OwnedBy(j, uid)
      BY <2>1, <2>3 DEF DeployedMeansOwned, OwnedBy
    <3> QED  BY <1>5, <2>1, <3>1 DEF OwnedBy
  <2> QED  BY <2>2, <2>3
<1>8. AwaitedSeen'
  <2>1. \A j \in preexisting \cap Awaited : j \in Kinds /\ api'[j] = api[j]
    BY <1>2, ConstantsTyped
  <2> QED  BY <2>1 DEF AwaitedSeen
<1> QED  BY <1>3, <1>4, <1>6, <1>7, <1>8

LEMMA PatchPreserves ==
  ASSUME IInv, Patch
  PROVE  IInv'
<1>1. PICK k \in Kinds : k = ManifestOrder[index]
  BY ConstantsTyped DEF IInv, Patch, TypeOK, PhaseBounds
<1>2. /\ pc = "patch" /\ Apply(k)
      /\ UNCHANGED <<gateway, gatewayCache, uids, cache, synced, uid, skipped, waiting, deployed,
                     preexisting>>
      /\ queued' \in BOOLEAN
      /\ pc' = "check" /\ index' = index + 1 /\ removed' = removed \ {k}
  BY <1>1 DEF Patch, Advance, gatewayVars, IInv, TypeOK
<1> QED  BY <1>1, <1>2, AppliedPreserves

LEMMA PatchFailsPreserves ==
  ASSUME IInv, PatchFails
  PROVE  IInv'
<1>1. PICK k \in Kinds : k = ManifestOrder[index]
  BY ConstantsTyped DEF IInv, PatchFails, TypeOK, PhaseBounds
<1>2. /\ UNCHANGED <<gateway, gatewayCache, uids, cache, synced, index, uid, skipped, waiting,
                     deployed, preexisting, removed>>
      /\ pc = "patch" /\ pc' = "idle" /\ queued' = TRUE
  BY DEF PatchFails, SyncFails, gatewayVars, historyVars
<1>3. CASE UNCHANGED <<api, behind, rv>>
  BY <1>2, <1>3 DEF IInv, TypeOK, UidsGiven, Given, OwnersAreManaged, AppliedSoFar, CacheFollows,
                    Deploying, PhaseBounds, DeployedMeansOwned, AwaitedSeen
<1>4. CASE Apply(k)
  BY <1>1, <1>2, <1>4, AppliedPreserves
<1> QED  BY <1>1, <1>3, <1>4 DEF PatchFails

LEMMA WaitsPreserve ==
  ASSUME IInv, BeginWait \/ \E k \in Kinds : Poll(k) \/ TimeOut(k)
  PROVE  IInv'
<1> USE DEF IInv
<1>1. UNCHANGED <<gateway, gatewayCache, uids, api, cache, behind, synced, queued, index, uid, rv,
                  skipped, deployed, preexisting, removed>>
  BY DEF BeginWait, Poll, TimeOut, WaitEnds, gatewayVars, historyVars
<1>2. /\ waiting' \subseteq Polled
      /\ pc' = pc \/ (pc = "check" /\ pc' = "wait" /\ index > Len(ManifestOrder))
  <2>1. CASE BeginWait
    BY <2>1 DEF BeginWait
  <2>2. ASSUME NEW k \in Kinds, WaitEnds(k)
        PROVE  waiting' \subseteq Polled /\ pc' = pc
    BY <2>2 DEF WaitEnds, TypeOK
  <2> QED  BY <2>1, <2>2 DEF Poll, TimeOut
<1>3. TypeOK' /\ UidsGiven' /\ OwnersAreManaged' /\ PhaseBounds'
  BY <1>1, <1>2 DEF TypeOK, UidsGiven, Given, OwnersAreManaged, PhaseBounds
<1>4. AppliedSoFar'
  BY <1>1, <1>2 DEF AppliedSoFar, Deploying, OwnedBy
<1>5. DeployedMeansOwned' /\ AwaitedSeen' /\ CacheFollows'
  BY <1>1, <1>2 DEF DeployedMeansOwned, AwaitedSeen, CacheFollows, Deploying
<1> QED  BY <1>3, <1>4, <1>5

(* The last wait ended: everything of the manifest was applied.            *)
LEMMA DeployDonePreserves ==
  ASSUME IInv, DeployDone
  PROVE  IInv'
<1> USE DEF IInv
<1>1. /\ UNCHANGED <<gateway, gatewayCache, uids, api, cache, behind, synced, queued, index, uid, rv,
                     skipped, waiting, preexisting, removed>>
      /\ pc = "wait" /\ pc' = "idle" /\ deployed' = [uid |-> uid, skipped |-> skipped]
  BY DEF DeployDone, gatewayVars, historyVars
<1>2. uid \in Uids /\ uid \in 1..uids
  BY <1>1 DEF TypeOK, UidsGiven, Given, AppliedSoFar, Deploying
<1>3. deployed' \in [uid : Uids, skipped : SUBSET Kinds]
  BY <1>1, <1>2 DEF TypeOK
<1>4. TypeOK'
  BY <1>1, <1>3 DEF TypeOK
<1>5. /\ UidsGiven' /\ OwnersAreManaged' /\ PhaseBounds' /\ AwaitedSeen' /\ AppliedSoFar'
      /\ CacheFollows'
  BY <1>1, <1>2 DEF UidsGiven, Given, OwnersAreManaged, PhaseBounds, AwaitedSeen, AppliedSoFar,
                    CacheFollows, Deploying
<1>6. DeployedMeansOwned'
  <2> SUFFICES ASSUME uid = gateway, NEW k \in Kinds, k \notin skipped, k \notin removed
               PROVE  OwnedBy(k, gateway)
    BY <1>1 DEF DeployedMeansOwned, OwnedBy
  <2>1. PICK j \in 1..Len(ManifestOrder) : ManifestOrder[j] = k
    BY ConstantsTyped
  <2>2. j \in 1..(index - 1)
    BY <1>1, ConstantsTyped DEF PhaseBounds, TypeOK
  <2> QED  BY <1>1, <2>1, <2>2 DEF AppliedSoFar, Deploying
<1> QED  BY <1>4, <1>5, <1>6

(* DeleteGatewayInfra finds nothing under the names it looks for.          *)
LEMMA CleanupPreserves ==
  ASSUME IInv, Cleanup \/ CleanupFails
  PROVE  IInv'
<1> USE DEF IInv
<1>1. DeletedKinds = {}
  BY DEF DeletedKinds, NodeID, ResourceName
<1>2. Delete({})
  BY <1>1 DEF Cleanup, CleanupFails
<1>3. UNCHANGED <<api, behind>>
  BY <1>2 DEF Delete, TypeOK
<1>4. /\ UNCHANGED <<gateway, gatewayCache, uids, cache, synced, index, uid, rv, skipped,
                     waiting, deployed, preexisting, removed>>
      /\ pc' = "idle" /\ queued' \in BOOLEAN
  BY DEF Cleanup, CleanupFails, SyncFails, gatewayVars, historyVars, TypeOK
<1> QED  BY <1>3, <1>4 DEF TypeOK, UidsGiven, Given, OwnersAreManaged, AppliedSoFar, CacheFollows,
                           Deploying, PhaseBounds, DeployedMeansOwned, AwaitedSeen

LEMMA RestartPreserves ==
  ASSUME IInv, Restart
  PROVE  IInv'
<1> USE DEF IInv
<1>1. /\ UNCHANGED <<gateway, uids, api>> /\ gatewayCache' = Absent /\ synced' = {}
      /\ queued' = FALSE /\ pc' = "idle" /\ index' = 1 /\ uid' = Absent /\ rv' = "none"
      /\ skipped' = {} /\ waiting' = {} /\ deployed' = Absent
      /\ preexisting' = {k \in Existing(api) : ~api[k].managed} /\ removed' = {}
  BY DEF Restart
<1>2. /\ cache' \in [Kinds -> Resources \cup {Absent}] /\ behind' \in [Kinds -> BOOLEAN]
      /\ 1 \in 1..Len(ManifestOrder) + 1
      /\ preexisting' \subseteq Kinds
      /\ \A k \in preexisting' : api[k] # Absent /\ ~api[k].managed
  BY <1>1, ConstantsTyped DEF Restart, Existing
<1>3. TypeOK'
  BY <1>1, <1>2 DEF TypeOK
<1>4. /\ UidsGiven' /\ OwnersAreManaged' /\ PhaseBounds' /\ AppliedSoFar' /\ DeployedMeansOwned'
      /\ CacheFollows'
  BY <1>1 DEF UidsGiven, Given, OwnersAreManaged, PhaseBounds, AppliedSoFar, CacheFollows, Deploying,
              DeployedMeansOwned
<1>5. AwaitedSeen'
  BY <1>1, <1>2 DEF AwaitedSeen
<1> QED  BY <1>3, <1>4, <1>5

----------------------------------------------------------------------------
LEMMA IInvInductive == IInv /\ [Next]_vars => IInv'
<1> SUFFICES ASSUME IInv, [Next]_vars PROVE IInv'
  OBVIOUS
<1>1. CASE CreateGateway \/ DeleteGateway
  BY <1>1, UsersPreserve
<1>2. CASE DeliverGateway
  BY <1>2, DeliverGatewayPreserves
<1>3. CASE Sync
  <2>1. CASE BeginSync
    BY <2>1, BeginSyncPreserves
  <2>2. CASE Check
    BY <2>2, CheckPreserves
  <2>3. CASE Patch
    BY <2>3, PatchPreserves
  <2>4. CASE PatchFails
    BY <2>4, PatchFailsPreserves
  <2>5. CASE BeginWait
    BY <2>5, WaitsPreserve
  <2>6. CASE DeployDone
    BY <2>6, DeployDonePreserves
  <2>7. CASE Cleanup \/ CleanupFails
    BY <2>7, CleanupPreserves
  <2> QED  BY <1>3, <2>1, <2>2, <2>3, <2>4, <2>5, <2>6, <2>7 DEF Sync
<1>4. CASE Restart
  BY <1>4, RestartPreserves
<1>5. ASSUME NEW k \in Kinds, OtherActor(k) PROVE IInv'
  BY <1>5, OtherActorPreserves
<1>6. ASSUME NEW k \in Kinds, CollectGarbage(k) PROVE IInv'
  BY <1>6, CollectGarbagePreserves
<1>7. ASSUME NEW k \in Kinds, Deliver(k) PROVE IInv'
  BY <1>7, DeliverPreserves
<1>8. ASSUME NEW k \in Kinds, Poll(k) \/ TimeOut(k) PROVE IInv'
  BY <1>8, WaitsPreserve
<1>9. CASE UNCHANGED vars
  BY <1>9 DEF vars, gatewayVars, workerVars, historyVars, IInv, TypeOK, UidsGiven, Given,
              OwnersAreManaged, AppliedSoFar, CacheFollows, Deploying, OwnedBy, PhaseBounds, DeployedMeansOwned, AwaitedSeen
<1> QED  BY <1>1, <1>2, <1>3, <1>4, <1>5, <1>6, <1>7, <1>8, <1>9 DEF Next

LEMMA IInvHolds == Spec => []IInv
<1> QED  BY InitImpliesIInv, IInvInductive, PTL DEF Spec

(* The deployer's state keeps its types, for any kinds and manifest.       *)
THEOREM TypeCorrect == Spec => []TypeOK
<1>1. IInv => TypeOK
  BY DEF IInv
<1> QED  BY <1>1, IInvHolds, PTL

(* After a Deploy without error (deployer.go:140) every resource it did    *)
(* not skip exists and is owned by the Gateway, as long as that exists and *)
(* nobody else deletes it.                                                 *)
THEOREM DeployedMeansOwnedHolds == Spec => []DeployedMeansOwned
<1>1. IInv => DeployedMeansOwned
  BY DEF IInv
<1> QED  BY <1>1, IInvHolds, PTL

(* canManage (deployer.go:281) protects what others had before the process *)
(* started, for the kinds whose informers Run waits for.                   *)
THEOREM NoTakeoverOfAwaitedHolds == Spec => []NoTakeoverOfAwaited
<1>1. IInv => NoTakeoverOfAwaited
  BY DEF IInv, AwaitedSeen, NoTakeoverOfAwaited
<1> QED  BY <1>1, IInvHolds, PTL
=============================================================================
