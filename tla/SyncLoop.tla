------------------------------ MODULE SyncLoop ------------------------------
(***************************************************************************)
(* The controller's work loop (controllers/controller.go): event handlers  *)
(* add Gateway keys to gatewayqueue, numWorkers workers take keys, run     *)
(* syncHandler on them, and either Forget the key or re-add it with a      *)
(* delay; the deferred Done gives the key back as a step of its own.       *)
(* What syncHandler does is abstracted to its outcome; GatewayController   *)
(* fills it in and is shown to implement this module.                      *)
(***************************************************************************)
EXTENDS WorkQueue

CONSTANTS Workers,   \* the goroutines Run starts (numWorkers of them)
          NoKey      \* what an idle worker holds

ASSUME NoKeyAssumption == NoKey \notin Keys

VARIABLES q,         \* the work queue
          phase,     \* where each worker is in processNextWorkItem
          item       \* the key each worker holds

vars == <<q, phase, item>>

Phases == {"idle", "syncing", "finishing", "exited"}
Busy == {w \in Workers : phase[w] \in {"syncing", "finishing"}}

TypeOK ==
  /\ q \in WorkQueues
  /\ phase \in [Workers -> Phases]
  /\ item \in [Workers -> Keys \cup {NoKey}]

Init ==
  /\ q = EmptyQueue
  /\ phase = [w \in Workers |-> "idle"]
  /\ item = [w \in Workers |-> NoKey]

(* An event handler calls gatewayqueue.Add.                                *)
Enqueue(k) == q' = Add(q, k) /\ UNCHANGED <<phase, item>>

(* Get returns a key to a blocked worker.                                  *)
GetItem(w) ==
  /\ phase[w] = "idle"
  /\ q.queue # <<>>
  /\ q' = Get(q)
  /\ phase' = [phase EXCEPT ![w] = "syncing"]
  /\ item' = [item EXCEPT ![w] = Head(q.queue)]

(* syncHandler returns nil: Forget, then Done is due.                      *)
SyncSucceeds(w) ==
  /\ phase[w] = "syncing"
  /\ phase' = [phase EXCEPT ![w] = "finishing"]
  /\ UNCHANGED <<q, item>>

SyncFailsAfterDone(w) ==   \* mutant: re-adds the item after giving it back
  /\ phase[w] = "syncing"
  /\ q' = AddRateLimited(Done(q, item[w]), NoKey)
  /\ phase' = [phase EXCEPT ![w] = "idle"]
  /\ item' = [item EXCEPT ![w] = NoKey]

(* syncHandler returns an error: AddRateLimited, then Done is due.         *)
SyncFails(w) ==
  /\ phase[w] = "syncing"
  /\ q' = AddRateLimited(q, item[w])
  /\ phase' = [phase EXCEPT ![w] = "finishing"]
  /\ UNCHANGED item

(* The deferred gatewayqueue.Done(item).                                   *)
FinishItem(w) ==
  /\ phase[w] = "finishing"
  /\ q' = Done(q, item[w])
  /\ phase' = [phase EXCEPT ![w] = "idle"]
  /\ item' = [item EXCEPT ![w] = NoKey]

(* The delay of a rate-limited key is over.                                *)
ReleaseDelayed(k) ==
  /\ ~q.closed
  /\ k \in q.delayed
  /\ q' = Release(q, k)
  /\ UNCHANGED <<phase, item>>

(* Run's deferred ShutDown, after the context is cancelled.                *)
Stop ==
  /\ ~q.closed
  /\ q' = ShutDown(q)
  /\ UNCHANGED <<phase, item>>

(* Get reports shutdown once nothing is queued, and runWorker ends.        *)
WorkerExits(w) ==
  /\ phase[w] = "idle"
  /\ q.closed
  /\ q.queue = <<>>
  /\ phase' = [phase EXCEPT ![w] = "exited"]
  /\ UNCHANGED <<q, item>>

Next ==
  \/ \E k \in Keys : Enqueue(k) \/ ReleaseDelayed(k)
  \/ \E w \in Workers :
       GetItem(w) \/ SyncSucceeds(w) \/ SyncFails(w) \/ FinishItem(w) \/ WorkerExits(w)
  \/ Stop

(***************************************************************************)
(* Get blocks on a condition variable that Add, Done and ShutDown signal,  *)
(* so some worker gets a queued key; the goroutines and the delaying       *)
(* queue's timer are scheduled; syncHandler returns (its waits are bounded *)
(* by context timeouts).  No handler is obliged to enqueue anything.       *)
(***************************************************************************)
Fairness ==
  /\ WF_vars(\E w \in Workers : GetItem(w))
  /\ \A w \in Workers : /\ WF_vars(SyncSucceeds(w) \/ SyncFails(w))
                        /\ WF_vars(FinishItem(w))
                        /\ WF_vars(WorkerExits(w))
  /\ \A k \in Keys : WF_vars(ReleaseDelayed(k))

Spec == Init /\ [][Next]_vars
FairSpec == Spec /\ Fairness

----------------------------------------------------------------------------
(* Two workers never reconcile the same Gateway at the same time, which    *)
(* syncHandler relies on: it has no lock of its own around Deploy, PushXDS *)
(* and the status updates.                                                 *)
ExclusiveSync ==
  \A v, w \in Busy : item[v] = item[w] => v = w

(* The queue and the workers agree on who owns which key, and no dirty key *)
(* is missing from the queue - such a key would never be handed out again. *)
QueueAndWorkersAgree ==
  /\ QueueInv(q)
  /\ q.processing = {item[w] : w \in Busy}
  /\ \A w \in Workers : w \in Busy <=> item[w] # NoKey

(* The work loop keeps the promise of SerialReconcile, liveness included:  *)
(* every request, also one made during a sync or after a failure, is       *)
(* followed by a sync that begins later, unless the queue is shut down.    *)
Serial == INSTANCE SerialReconcile WITH
            pending <- Pending(q), running <- q.processing, closed <- q.closed
ImplementsSerialReconcile == Serial!Spec
=============================================================================
