--------------------------- MODULE XdsControlPlane ---------------------------
(***************************************************************************)
(* The xDS control plane (pkg/xds/envoy/controlplane.go) driven by the     *)
(* workers of SyncLoop: PushXDS takes a version from one atomic counter    *)
(* for all nodes, builds a snapshot, and stores it in the snapshot cache;  *)
(* each Envoy is served the snapshot of its node whenever the version it   *)
(* last accepted is another one.                                           *)
(*                                                                         *)
(* The snapshot cache and Envoy are external.  As go-control-plane's       *)
(* state-of-the-world cache does, a response is due exactly when a node    *)
(* has a snapshot whose version differs from the request's; Envoy puts the *)
(* version it last accepted into its requests, also on a new stream.       *)
(* Resource types are served independently and alike: one stands for all.  *)
(* A configuration is the number of the change that made it wanted.        *)
(***************************************************************************)
EXTENDS SyncLoop, Integers

CONSTANTS Inconsistent,   \* configurations whose snapshot fails Consistent()
          MaxChanges,     \* bound on changes of what is wanted
          MaxVersion      \* bound on versions taken by one process

ASSUME BoundsAssumption == MaxChanges \in Nat /\ MaxVersion \in Nat
ASSUME InconsistentAssumption == Inconsistent \subseteq Nat

VARIABLES
  wanted,      \* the configuration a translation for each Gateway yields now
  changes,     \* how many changes there were
  translated,  \* what each worker translated
  step,        \* how far each worker's sync is
  version,     \* the version each worker took from the counter
  counter,     \* versionCounter
  snapshot,    \* the snapshot cache by node; version 0 is no snapshot
  accepted     \* what each Envoy accepted last; version 0 is nothing

pushVars == <<translated, step, version>>
xdsVars == <<q, phase, item, wanted, changes, pushVars, counter, snapshot, accepted>>

Configs == 0..MaxChanges
Versioned == [version : Nat, config : Configs]
Nothing == [version |-> 0, config |-> 0]
Steps == {"start", "translated", "numbered", "pushed"}

XdsTypeOK ==
  /\ wanted \in [Keys -> Configs]
  /\ changes \in Configs
  /\ translated \in [Workers -> Configs]
  /\ step \in [Workers -> Steps]
  /\ version \in [Workers -> Nat]
  /\ counter \in Nat
  /\ snapshot \in [Keys -> Versioned]
  /\ accepted \in [Keys -> Versioned]

XdsInit ==
  /\ Init
  /\ wanted = [k \in Keys |-> 0]
  /\ changes = 0
  /\ translated = [w \in Workers |-> 0]
  /\ step = [w \in Workers |-> "start"]
  /\ version = [w \in Workers |-> 0]
  /\ counter = 0
  /\ snapshot = [k \in Keys |-> Nothing]
  /\ accepted = [k \in Keys |-> Nothing]

(* Something the translation of k reads changes, and a handler adds k.     *)
Change(k) ==
  /\ changes < MaxChanges
  /\ changes' = changes + 1
  /\ wanted' = [wanted EXCEPT ![k] = changes + 1]
  /\ Enqueue(k)
  /\ UNCHANGED <<pushVars, counter, snapshot, accepted>>

(* A handler adds k although nothing changed for it.                       *)
AddAgain(k) ==
  /\ Enqueue(k)
  /\ UNCHANGED <<wanted, changes, pushVars, counter, snapshot, accepted>>

(* A step of the work loop in which nothing is translated or pushed.       *)
LoopStep ==
  /\ \/ \E w \in Workers : GetItem(w) \/ WorkerExits(w)
     \/ \E k \in Keys : ReleaseDelayed(k)
     \/ Stop
  /\ UNCHANGED <<wanted, changes, pushVars, counter, snapshot, accepted>>

StepTo(w, from, to) ==
  /\ phase[w] = "syncing" /\ step[w] = from
  /\ step' = [step EXCEPT ![w] = to]

Translate(w) ==
  /\ StepTo(w, "start", "translated")
  /\ translated' = [translated EXCEPT ![w] = wanted[item[w]]]
  /\ UNCHANGED <<vars, wanted, changes, version, counter, snapshot, accepted>>

(* PushXDS: versionCounter.Add(1).                                         *)
NextVersionReused(w) ==   \* mutant: Load instead of Add
  /\ counter < MaxVersion
  /\ StepTo(w, "translated", "numbered")
  /\ counter' = IF counter = 0 THEN 1 ELSE counter
  /\ version' = [version EXCEPT ![w] = counter']
  /\ UNCHANGED <<vars, wanted, changes, translated, snapshot, accepted>>

NextVersion(w) ==
  /\ counter < MaxVersion
  /\ StepTo(w, "translated", "numbered")
  /\ counter' = counter + 1
  /\ version' = [version EXCEPT ![w] = counter + 1]
  /\ UNCHANGED <<vars, wanted, changes, translated, snapshot, accepted>>

SetSnapshotReloaded(w) ==   \* mutant: reads the counter again for the snapshot's version
  /\ translated[w] \notin Inconsistent
  /\ StepTo(w, "numbered", "pushed")
  /\ snapshot' = [snapshot EXCEPT ![item[w]] = [version |-> counter, config |-> translated[w]]]
  /\ UNCHANGED <<vars, wanted, changes, translated, version, counter, accepted>>

(* NewSnapshot, Consistent and SetSnapshot.                                *)
SetSnapshot(w) ==
  /\ translated[w] \notin Inconsistent
  /\ StepTo(w, "numbered", "pushed")
  /\ snapshot' = [snapshot EXCEPT ![item[w]] = [version |-> version[w], config |-> translated[w]]]
  /\ UNCHANGED <<vars, wanted, changes, translated, version, counter, accepted>>

(* The sync fails before the push (Deploy or the translation), because the *)
(* snapshot is inconsistent and the version stays used, or because         *)
(* SetSnapshot could not answer an Envoy after it stored the snapshot.     *)
SyncError(w) ==
  /\ \/ step[w] \in {"start", "pushed"}
     \/ step[w] = "numbered" /\ translated[w] \in Inconsistent
  /\ SyncFails(w)
  /\ UNCHANGED <<wanted, changes, pushVars, counter, snapshot, accepted>>

SyncDone(w) ==
  /\ step[w] = "pushed"
  /\ SyncSucceeds(w)
  /\ UNCHANGED <<wanted, changes, pushVars, counter, snapshot, accepted>>

GiveBack(w) ==
  /\ FinishItem(w)
  /\ step' = [step EXCEPT ![w] = "start"]
  /\ translated' = [translated EXCEPT ![w] = 0]
  /\ version' = [version EXCEPT ![w] = 0]
  /\ UNCHANGED <<wanted, changes, counter, snapshot, accepted>>

(* The server answers the Envoy's request, and Envoy accepts.              *)
Respond(k) ==
  /\ snapshot[k].version # 0
  /\ accepted[k].version # snapshot[k].version
  /\ accepted' = [accepted EXCEPT ![k] = snapshot[k]]
  /\ UNCHANGED <<vars, wanted, changes, pushVars, counter, snapshot>>

(* The node's Envoy is started anew and has accepted nothing.              *)
EnvoyRestarts(k) ==
  /\ accepted' = [accepted EXCEPT ![k] = Nothing]
  /\ UNCHANGED <<vars, wanted, changes, pushVars, counter, snapshot>>

Push(w) == Translate(w) \/ NextVersion(w) \/ SetSnapshot(w) \/ SyncError(w) \/ SyncDone(w)

XdsNext ==
  \/ \E k \in Keys : Change(k) \/ AddAgain(k) \/ Respond(k) \/ EnvoyRestarts(k)
  \/ LoopStep
  \/ \E w \in Workers : Push(w) \/ GiveBack(w)

XdsSpec == XdsInit /\ [][XdsNext]_xdsVars

(* The controller's process ends and is started again.  The Envoys keep    *)
(* running with what they accepted, and every Gateway is enqueued anew.    *)
Restart ==
  /\ q' = [EmptyQueue EXCEPT !.queue = SetToSeq(Keys), !.dirty = Keys]
  /\ phase' = [w \in Workers |-> "idle"]
  /\ item' = [w \in Workers |-> NoKey]
  /\ translated' = [w \in Workers |-> 0]
  /\ step' = [w \in Workers |-> "start"]
  /\ version' = [w \in Workers |-> 0]
  /\ counter' = 0
  /\ snapshot' = [k \in Keys |-> Nothing]
  /\ UNCHANGED <<wanted, changes, accepted>>

RestartSpec == XdsInit /\ [][XdsNext \/ Restart]_xdsVars

----------------------------------------------------------------------------
(* "Versions must be distinct and monotonically increasing for proper xDS  *)
(* updates" (controlplane.go:160).  The counter is shared and taken before *)
(* the snapshot is stored, so this rests on ExclusiveSync.                 *)
VersionsIncrease ==
  [][\A k \in Keys : snapshot'[k] # snapshot[k]
                       => snapshot'[k].version > snapshot[k].version]_xdsVars

(* No two nodes' snapshots have the same version.                          *)
VersionsDistinct ==
  \A j, k \in Keys : j # k /\ snapshot[j].version # 0
                       => snapshot[j].version # snapshot[k].version

(* An Envoy that the server considers up to date is: an accepted version   *)
(* equal to the snapshot's means the snapshot's configuration.             *)
UpToDateMeansSame ==
  \A k \in Keys :
    accepted[k].version = snapshot[k].version /\ snapshot[k].version # 0
      => accepted[k].config = snapshot[k].config

(* An Envoy never goes back to an earlier configuration, unless it was     *)
(* restarted.                                                              *)
EnvoyNeverRegresses ==
  [][\A k \in Keys :
       accepted'[k] # Nothing => accepted'[k].config >= accepted[k].config]_xdsVars

----------------------------------------------------------------------------
(* Why: the inductive invariant behind these properties.  A version taken  *)
(* but not stored yet is newer than the snapshot it is going to replace    *)
(* and used by nobody else; configurations are older the further they have *)
(* travelled.                                                              *)
StepsInSync == \A w \in Workers : step[w] # "start" => w \in Busy

VersionsTaken ==
  /\ \A k \in Keys : snapshot[k].version <= counter
  /\ \A w \in Workers : step[w] = "numbered" =>
       /\ version[w] \in 1..counter
       /\ version[w] > snapshot[item[w]].version
       /\ \A k \in Keys : version[w] # snapshot[k].version
       /\ \A v \in Workers : step[v] = "numbered" /\ version[v] = version[w] => v = w

ConfigsAge ==
  /\ \A k \in Keys : /\ wanted[k] <= changes
                     /\ snapshot[k].config <= wanted[k]
                     /\ accepted[k].config <= snapshot[k].config
                     /\ accepted[k].version <= snapshot[k].version
  /\ \A w \in Workers : step[w] \in {"translated", "numbered"} =>
       /\ translated[w] <= wanted[item[w]]
       /\ snapshot[item[w]].config <= translated[w]

XdsInv == /\ XdsTypeOK /\ StepsInSync /\ VersionsTaken /\ ConfigsAge
          /\ VersionsDistinct /\ UpToDateMeansSame
=============================================================================
