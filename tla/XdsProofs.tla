------------------------------ MODULE XdsProofs ------------------------------
(***************************************************************************)
(* The versions of the xDS control plane, for any Gateways, workers and    *)
(* bounds.  The work loop below PushXDS is used through the theorems of    *)
(* SyncLoopProofs: no two workers push for the same node.                  *)
(***************************************************************************)
EXTENDS XdsControlPlane, SyncLoopProofs

(* Each step of the control plane is a step of the work loop or leaves its *)
(* variables alone.                                                        *)
LEMMA XdsStepIsLoopStep == [XdsNext]_xdsVars => [Next]_vars
<1> SUFFICES ASSUME [XdsNext]_xdsVars PROVE [Next]_vars
  OBVIOUS
<1>1. CASE \E k \in Keys : Change(k) \/ AddAgain(k) \/ Respond(k) \/ EnvoyRestarts(k)
  BY <1>1 DEF Change, AddAgain, Respond, EnvoyRestarts, Next
<1>2. CASE LoopStep
  BY <1>2 DEF LoopStep, Next
<1>3. CASE \E w \in Workers : Push(w) \/ GiveBack(w)
  BY <1>3 DEF Push, GiveBack, Translate, NextVersion, SetSnapshot, SyncError, SyncDone, Next
<1>4. CASE UNCHANGED xdsVars
  BY <1>4 DEF xdsVars, vars
<1> QED
  BY <1>1, <1>2, <1>3, <1>4 DEF XdsNext

FullInv == IInv /\ XdsInv

LEMMA InitXdsInv == XdsInit => FullInv
<1> SUFFICES ASSUME XdsInit PROVE FullInv
  OBVIOUS
<1>1. IInv
  BY InitIInv DEF XdsInit
<1>2. Nothing \in Versioned
  BY BoundsAssumption DEF Nothing, Versioned, Configs
<1>3. XdsTypeOK
  BY <1>2, BoundsAssumption DEF XdsInit, XdsTypeOK, Configs, Steps
<1>4. StepsInSync /\ VersionsTaken /\ ConfigsAge /\ VersionsDistinct /\ UpToDateMeansSame
  BY DEF XdsInit, StepsInSync, VersionsTaken, ConfigsAge, VersionsDistinct,
         UpToDateMeansSame, Nothing
<1> QED
  BY <1>1, <1>3, <1>4 DEF FullInv, XdsInv

(* The parts of the loop's invariant that a push relies on.                *)
LEMMA BusyKeys ==
  ASSUME IInv, NEW w \in Busy
  PROVE  /\ w \in Workers
         /\ item[w] \in Keys
         /\ \A v \in Busy : item[v] = item[w] => v = w
BY DEF IInv, TypeOK, ExclusiveSync, QueueAndWorkersAgree, Busy

(* Steps that touch neither versions nor configurations, and leave every   *)
(* worker in the middle of a push where it is.                             *)
LEMMA LoopStepKeeps ==
  ASSUME XdsInv, IInv,
         UNCHANGED <<wanted, changes, pushVars, counter, snapshot, accepted>>,
         \A w \in Workers : w \in Busy => w \in Busy' /\ item'[w] = item[w]
  PROVE  XdsInv'
<1>1. XdsTypeOK' /\ StepsInSync'
  BY DEF XdsInv, XdsTypeOK, StepsInSync, pushVars
<1>2. \A w \in Workers : step[w] # "start" => item'[w] = item[w]
  BY DEF XdsInv, StepsInSync
<1>3. VersionsTaken'
  BY <1>2 DEF XdsInv, VersionsTaken, pushVars
<1>4. ConfigsAge'
  BY <1>2 DEF XdsInv, ConfigsAge, pushVars
<1>5. VersionsDistinct' /\ UpToDateMeansSame'
  BY DEF XdsInv, VersionsDistinct, UpToDateMeansSame
<1> QED
  BY <1>1, <1>3, <1>4, <1>5 DEF XdsInv

LEMMA ChangeStep ==
  ASSUME FullInv, NEW k \in Keys, Change(k)
  PROVE  XdsInv'
<1>1. /\ changes' = changes + 1 /\ changes \in Nat /\ changes < MaxChanges
      /\ wanted' = [wanted EXCEPT ![k] = changes + 1]
      /\ UNCHANGED <<phase, item, pushVars, counter, snapshot, accepted>>
      /\ Busy' = Busy
  BY BoundsAssumption DEF Change, Enqueue, FullInv, XdsInv, XdsTypeOK, Configs, Busy
<1>2. wanted'[k] = changes + 1 /\ \A j \in Keys : wanted'[j] >= wanted[j] /\ wanted'[j] <= changes'
  BY <1>1, BoundsAssumption DEF FullInv, XdsInv, XdsTypeOK, ConfigsAge, Configs
<1>3. XdsTypeOK' /\ StepsInSync'
  BY <1>1, BoundsAssumption DEF FullInv, XdsInv, XdsTypeOK, StepsInSync, pushVars, Configs
<1>4. VersionsTaken' /\ VersionsDistinct' /\ UpToDateMeansSame'
  BY <1>1 DEF FullInv, XdsInv, VersionsTaken, VersionsDistinct, UpToDateMeansSame, pushVars
<1>5. ConfigsAge'
  <2>1. \A j \in Keys : /\ wanted[j] \in Nat /\ wanted'[j] \in Nat
                        /\ snapshot[j].config \in Nat /\ accepted[j].config \in Nat
    BY <1>1, <1>3, BoundsAssumption DEF FullInv, XdsInv, XdsTypeOK, Configs, Versioned
  <2>2. \A w \in Workers : step[w] # "start" => item[w] \in Keys /\ translated[w] \in Nat
    BY BusyKeys, BoundsAssumption DEF FullInv, XdsInv, StepsInSync, XdsTypeOK, Configs
  <2> QED
    BY <1>1, <1>2, <2>1, <2>2 DEF FullInv, XdsInv, ConfigsAge, pushVars
<1> QED
  BY <1>3, <1>4, <1>5 DEF XdsInv

LEMMA TranslateStep ==
  ASSUME FullInv, NEW w \in Workers, Translate(w)
  PROVE  XdsInv'
<1>1. /\ w \in Busy /\ item[w] \in Keys
      /\ UNCHANGED <<q, phase, item, wanted, changes, version, counter, snapshot, accepted>>
      /\ Busy' = Busy
      /\ translated' = [translated EXCEPT ![w] = wanted[item[w]]]
      /\ step' = [step EXCEPT ![w] = "translated"]
  BY BusyKeys DEF Translate, StepTo, vars, Busy, FullInv
<1>2. XdsTypeOK' /\ StepsInSync'
  BY <1>1 DEF FullInv, XdsInv, XdsTypeOK, StepsInSync, Steps
<1>3. VersionsTaken' /\ VersionsDistinct' /\ UpToDateMeansSame'
  BY <1>1 DEF FullInv, XdsInv, XdsTypeOK, VersionsTaken, VersionsDistinct, UpToDateMeansSame
<1>4. ConfigsAge'
  <2>1. wanted[item[w]] \in Nat /\ snapshot[item[w]].config \in Nat
    BY <1>1, BoundsAssumption DEF FullInv, XdsInv, XdsTypeOK, Configs, Versioned
  <2> QED
    BY <1>1, <2>1 DEF FullInv, XdsInv, XdsTypeOK, ConfigsAge
<1> QED
  BY <1>2, <1>3, <1>4 DEF XdsInv

LEMMA NextVersionStep ==
  ASSUME FullInv, NEW w \in Workers, NextVersion(w)
  PROVE  XdsInv'
<1>1. /\ w \in Busy /\ item[w] \in Keys
      /\ UNCHANGED <<q, phase, item, wanted, changes, translated, snapshot, accepted>>
      /\ Busy' = Busy
      /\ counter' = counter + 1 /\ counter \in Nat
      /\ version' = [version EXCEPT ![w] = counter + 1]
      /\ step[w] = "translated"
      /\ step' = [step EXCEPT ![w] = "numbered"]
  BY BusyKeys DEF NextVersion, StepTo, vars, Busy, FullInv, XdsInv, XdsTypeOK
<1>2. XdsTypeOK' /\ StepsInSync'
  BY <1>1 DEF FullInv, XdsInv, XdsTypeOK, StepsInSync, Steps
<1>3. ConfigsAge' /\ VersionsDistinct' /\ UpToDateMeansSame'
  BY <1>1 DEF FullInv, XdsInv, XdsTypeOK, ConfigsAge, VersionsDistinct, UpToDateMeansSame
<1>4. VersionsTaken'
  <2>1. \A k \in Keys : snapshot[k].version \in Nat /\ snapshot[k].version <= counter
    BY DEF FullInv, XdsInv, XdsTypeOK, Versioned, VersionsTaken
  <2>2. \A v \in Workers : v # w => version'[v] = version[v] /\ step'[v] = step[v]
    BY <1>1 DEF FullInv, XdsInv, XdsTypeOK
  <2>3. version'[w] = counter + 1 /\ step'[w] = "numbered"
    BY <1>1 DEF FullInv, XdsInv, XdsTypeOK
  <2> QED
    BY <1>1, <2>1, <2>2, <2>3 DEF FullInv, XdsInv, VersionsTaken
<1> QED
  BY <1>2, <1>3, <1>4 DEF XdsInv

LEMMA SetSnapshotStep ==
  ASSUME FullInv, NEW w \in Workers, SetSnapshot(w)
  PROVE  /\ XdsInv'
         /\ \A k \in Keys : snapshot'[k] # snapshot[k]
                              => snapshot'[k].version > snapshot[k].version
<1> DEFINE key == item[w]
           new == [version |-> version[w], config |-> translated[w]]
<1>1. /\ w \in Busy /\ key \in Keys
      /\ \A v \in Busy : item[v] = key => v = w
      /\ UNCHANGED <<q, phase, item, wanted, changes, translated, version, counter, accepted>>
      /\ Busy' = Busy
      /\ step[w] = "numbered"
      /\ step' = [step EXCEPT ![w] = "pushed"]
      /\ snapshot' = [snapshot EXCEPT ![key] = new]
  BY BusyKeys DEF SetSnapshot, StepTo, vars, Busy, FullInv
<1>2. /\ new \in Versioned /\ new.version = version[w] /\ new.config = translated[w]
      /\ version[w] \in Nat /\ translated[w] \in Nat /\ counter \in Nat
  BY BoundsAssumption DEF FullInv, XdsInv, XdsTypeOK, Versioned, Configs
<1>3. /\ snapshot'[key] = new
      /\ \A k \in Keys : k # key => snapshot'[k] = snapshot[k]
      /\ \A k \in Keys : snapshot[k].version \in Nat /\ snapshot[k].config \in Nat
      /\ \A k \in Keys : accepted[k].version \in Nat /\ accepted[k].config \in Nat
  BY <1>1, BoundsAssumption DEF FullInv, XdsInv, XdsTypeOK, Versioned, Configs
<1>4. /\ version[w] \in 1..counter
      /\ version[w] > snapshot[key].version
      /\ \A k \in Keys : version[w] # snapshot[k].version
      /\ \A v \in Workers : step[v] = "numbered" /\ v # w => version[v] # version[w]
  BY <1>1 DEF FullInv, XdsInv, VersionsTaken
<1>5. \A v \in Workers : v # w => step'[v] = step[v]
  BY <1>1 DEF FullInv, XdsInv, XdsTypeOK
<1>6. step'[w] = "pushed"
  BY <1>1 DEF FullInv, XdsInv, XdsTypeOK
<1>7. \A v \in Workers : step'[v] \in {"translated", "numbered"}
                           => v # w /\ step[v] = step'[v] /\ v \in Busy /\ item[v] # key
                              /\ item[v] \in Keys
  BY <1>1, <1>5, <1>6, BusyKeys DEF FullInv, XdsInv, StepsInSync
<1>8. XdsTypeOK' /\ StepsInSync'
  BY <1>1, <1>2 DEF FullInv, XdsInv, XdsTypeOK, StepsInSync, Steps
<1>9. VersionsTaken'
  <2>1. \A k \in Keys : snapshot'[k].version <= counter
    BY <1>2, <1>3, <1>4 DEF FullInv, XdsInv, VersionsTaken
  <2>2. ASSUME NEW v \in Workers, step'[v] = "numbered"
        PROVE  /\ version[v] \in 1..counter
               /\ version[v] > snapshot'[item[v]].version
               /\ \A k \in Keys : version[v] # snapshot'[k].version
               /\ \A u \in Workers : step'[u] = "numbered" /\ version[u] = version[v] => u = v
    BY <2>2, <1>2, <1>3, <1>4, <1>5, <1>6, <1>7 DEF FullInv, XdsInv, VersionsTaken
  <2> QED
    BY <1>1, <2>1, <2>2 DEF VersionsTaken
<1>10. ConfigsAge'
  <2>1. snapshot[key].config <= translated[w] /\ translated[w] <= wanted[key]
    BY <1>1 DEF FullInv, XdsInv, ConfigsAge
  <2>2. \A k \in Keys : /\ wanted[k] <= changes
                        /\ snapshot'[k].config <= wanted[k]
                        /\ accepted[k].config <= snapshot'[k].config
                        /\ accepted[k].version <= snapshot'[k].version
    BY <1>2, <1>3, <1>4, <2>1 DEF FullInv, XdsInv, ConfigsAge
  <2>3. \A v \in Workers : step'[v] \in {"translated", "numbered"} =>
          translated[v] <= wanted[item[v]] /\ snapshot'[item[v]].config <= translated[v]
    BY <1>3, <1>7 DEF FullInv, XdsInv, ConfigsAge
  <2> QED
    BY <1>1, <2>2, <2>3 DEF ConfigsAge
<1>11. VersionsDistinct'
  BY <1>2, <1>3, <1>4 DEF FullInv, XdsInv, VersionsDistinct
<1>12. UpToDateMeansSame'
  BY <1>1, <1>2, <1>3, <1>4 DEF FullInv, XdsInv, UpToDateMeansSame, ConfigsAge
<1>13. \A k \in Keys : snapshot'[k] # snapshot[k] => snapshot'[k].version > snapshot[k].version
  BY <1>2, <1>3, <1>4
<1> QED
  BY <1>8, <1>9, <1>10, <1>11, <1>12, <1>13 DEF XdsInv

LEMMA GiveBackStep ==
  ASSUME FullInv, NEW w \in Workers, GiveBack(w)
  PROVE  XdsInv'
<1>1. /\ phase' = [phase EXCEPT ![w] = "idle"]
      /\ item' = [item EXCEPT ![w] = NoKey]
      /\ step' = [step EXCEPT ![w] = "start"]
      /\ translated' = [translated EXCEPT ![w] = 0]
      /\ version' = [version EXCEPT ![w] = 0]
      /\ UNCHANGED <<wanted, changes, counter, snapshot, accepted>>
  BY DEF GiveBack, FinishItem
<1>2. \A v \in Workers : v # w => /\ v \in Busy => v \in Busy'
                                  /\ item'[v] = item[v] /\ step'[v] = step[v]
                                  /\ translated'[v] = translated[v] /\ version'[v] = version[v]
  BY <1>1 DEF FullInv, IInv, TypeOK, XdsInv, XdsTypeOK, Busy
<1>3. step'[w] = "start"
  BY <1>1 DEF FullInv, XdsInv, XdsTypeOK
<1>4. XdsTypeOK'
  BY <1>1, BoundsAssumption DEF FullInv, XdsInv, XdsTypeOK, Steps, Configs
<1>5. StepsInSync'
  BY <1>2, <1>3 DEF FullInv, XdsInv, StepsInSync
<1>6. VersionsTaken'
  BY <1>1, <1>2, <1>3 DEF FullInv, XdsInv, VersionsTaken
<1>7. ConfigsAge'
  BY <1>1, <1>2, <1>3 DEF FullInv, XdsInv, ConfigsAge
<1>8. VersionsDistinct' /\ UpToDateMeansSame'
  BY <1>1 DEF FullInv, XdsInv, VersionsDistinct, UpToDateMeansSame
<1> QED
  BY <1>4, <1>5, <1>6, <1>7, <1>8 DEF XdsInv

LEMMA EnvoyStep ==
  ASSUME FullInv, NEW k \in Keys, Respond(k) \/ EnvoyRestarts(k)
  PROVE  XdsInv'
<1>1. /\ \/ accepted' = [accepted EXCEPT ![k] = snapshot[k]]
         \/ accepted' = [accepted EXCEPT ![k] = Nothing]
      /\ UNCHANGED <<q, phase, item, wanted, changes, pushVars, counter, snapshot>>
      /\ Busy' = Busy
  BY DEF Respond, EnvoyRestarts, vars, Busy
<1>2. /\ accepted'[k] \in {snapshot[k], Nothing}
      /\ \A j \in Keys : j # k => accepted'[j] = accepted[j]
      /\ \A j \in Keys : snapshot[j] \in Versioned
      /\ Nothing \in Versioned /\ Nothing.version = 0 /\ Nothing.config = 0
  BY <1>1, BoundsAssumption DEF FullInv, XdsInv, XdsTypeOK, Versioned, Configs, Nothing
<1>3. XdsTypeOK' /\ StepsInSync' /\ VersionsTaken' /\ VersionsDistinct'
  BY <1>1, <1>2 DEF FullInv, XdsInv, XdsTypeOK, StepsInSync, VersionsTaken, VersionsDistinct,
                    pushVars
<1>4. ConfigsAge' /\ UpToDateMeansSame'
  <2>1. \A j \in Keys : snapshot[j].version \in Nat /\ snapshot[j].config \in Nat
    BY <1>2, BoundsAssumption DEF Versioned, Configs
  <2> QED
    BY <1>1, <1>2, <2>1 DEF FullInv, XdsInv, ConfigsAge, UpToDateMeansSame, pushVars
<1> QED
  BY <1>3, <1>4 DEF XdsInv

LEMMA OtherStep ==
  ASSUME FullInv,
         \/ \E k \in Keys : AddAgain(k)
         \/ LoopStep
         \/ \E w \in Workers : SyncError(w) \/ SyncDone(w)
  PROVE  XdsInv'
<1>1. UNCHANGED <<wanted, changes, pushVars, counter, snapshot, accepted>>
  BY DEF AddAgain, LoopStep, SyncError, SyncDone
<1>2. \A w \in Workers : w \in Busy => w \in Busy' /\ item'[w] = item[w]
  BY DEF AddAgain, Enqueue, LoopStep, GetItem, WorkerExits, ReleaseDelayed, Stop,
         SyncError, SyncFails, SyncDone, SyncSucceeds, Busy, FullInv, IInv, TypeOK
<1> QED
  BY <1>1, <1>2, LoopStepKeeps DEF FullInv

LEMMA NextFullInv ==
  ASSUME FullInv, [XdsNext]_xdsVars
  PROVE  FullInv'
<1>1. IInv'
  BY XdsStepIsLoopStep, NextIInv DEF FullInv
<1>2. CASE \E k \in Keys : Change(k) \/ AddAgain(k) \/ Respond(k) \/ EnvoyRestarts(k)
  BY <1>1, <1>2, ChangeStep, OtherStep, EnvoyStep DEF FullInv
<1>3. CASE LoopStep
  BY <1>1, <1>3, OtherStep DEF FullInv
<1>4. CASE \E w \in Workers : Push(w) \/ GiveBack(w)
  BY <1>1, <1>4, TranslateStep, NextVersionStep, SetSnapshotStep, OtherStep, GiveBackStep
  DEF FullInv, Push
<1>5. CASE UNCHANGED xdsVars
  <2>1. UNCHANGED <<wanted, changes, pushVars, counter, snapshot, accepted, phase, item>>
    BY <1>5 DEF xdsVars
  <2> QED
    BY <1>1, <2>1, LoopStepKeeps DEF FullInv, Busy
<1> QED
  BY <1>2, <1>3, <1>4, <1>5 DEF XdsNext

----------------------------------------------------------------------------
(* What every step of PushXDS (controlplane.go:154-185) preserves: types,  *)
(* where the workers are, that every version in use was taken from the     *)
(* counter by one push only, and that versions order configurations.       *)
THEOREM XdsInvHolds == XdsSpec => []XdsInv
<1>1. FullInv => XdsInv
  BY DEF FullInv
<1> QED
  BY InitXdsInv, NextFullInv, <1>1, PTL DEF XdsSpec

(* The snapshot cache never takes an Envoy with an outdated configuration  *)
(* for up to date, as long as the process lives.                           *)
THEOREM UpToDateMeansSameHolds == XdsSpec => []UpToDateMeansSame
<1>1. XdsInv => UpToDateMeansSame
  BY DEF XdsInv
<1> QED
  BY XdsInvHolds, <1>1, PTL

(* "Versions must be distinct" (controlplane.go:160): no two snapshots, of *)
(* any nodes, have the same version.                                       *)
THEOREM VersionsDistinctHolds == XdsSpec => []VersionsDistinct
<1>1. XdsInv => VersionsDistinct
  BY DEF XdsInv
<1> QED
  BY XdsInvHolds, <1>1, PTL

(* Versions of a node's snapshots only ever grow (controlplane.go:160),    *)
(* with any number of workers sharing the counter.                         *)
THEOREM VersionsIncreaseHolds == XdsSpec => VersionsIncrease
<1>1. ASSUME FullInv, [XdsNext]_xdsVars
      PROVE  \A k \in Keys : snapshot'[k] # snapshot[k]
                               => snapshot'[k].version > snapshot[k].version
  <2>1. CASE \E w \in Workers : SetSnapshot(w)
    BY <1>1, <2>1, SetSnapshotStep
  <2>2. CASE ~\E w \in Workers : SetSnapshot(w)
    BY <1>1, <2>2 DEF XdsNext, Change, AddAgain, Respond, EnvoyRestarts, LoopStep, Push,
                      Translate, NextVersion, SyncError, SyncDone, GiveBack, xdsVars
  <2> QED
    BY <2>1, <2>2
<1> QED
  BY InitXdsInv, NextFullInv, <1>1, PTL DEF XdsSpec, VersionsIncrease

(* No Envoy that keeps running is ever given an older configuration than   *)
(* the one it has.                                                         *)
THEOREM EnvoyNeverRegressesHolds == XdsSpec => EnvoyNeverRegresses
<1>1. ASSUME FullInv, [XdsNext]_xdsVars
      PROVE  \A k \in Keys : accepted'[k] # Nothing => accepted'[k].config >= accepted[k].config
  <2>1. \A k \in Keys : /\ accepted[k].config \in Nat
                        /\ snapshot[k].config \in Nat
                        /\ accepted[k].config <= snapshot[k].config
    BY <1>1, BoundsAssumption DEF FullInv, XdsInv, XdsTypeOK, ConfigsAge, Versioned, Configs
  <2>2. CASE \E k \in Keys : Respond(k) \/ EnvoyRestarts(k)
    BY <1>1, <2>1, <2>2 DEF Respond, EnvoyRestarts, FullInv, XdsInv, XdsTypeOK
  <2>3. CASE ~\E k \in Keys : Respond(k) \/ EnvoyRestarts(k)
    <3>1. UNCHANGED accepted
      BY <1>1, <2>3 DEF XdsNext, Change, AddAgain, LoopStep, Push, Translate, NextVersion,
                        SetSnapshot, SyncError, SyncDone, GiveBack, xdsVars
    <3> QED
      BY <2>1, <3>1
  <2> QED
    BY <2>2, <2>3
<1> QED
  BY InitXdsInv, NextFullInv, <1>1, PTL DEF XdsSpec, EnvoyNeverRegresses
=============================================================================
