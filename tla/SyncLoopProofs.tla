--------------------------- MODULE SyncLoopProofs ---------------------------
(***************************************************************************)
(* The work loop is exclusive and implements SerialReconcile (its safety   *)
(* part), for any sets of Gateways and workers.                            *)
(***************************************************************************)
EXTENDS SyncLoop, WorkQueueProofs

(***************************************************************************)
(* The inductive invariant.  ExclusiveSync alone is not inductive: GetItem *)
(* keeps it only because a queued key is not being processed, and Done     *)
(* keeps that because the worker that calls it is the only one with the    *)
(* key.                                                                    *)
(***************************************************************************)
IInv == TypeOK /\ ExclusiveSync /\ QueueAndWorkersAgree

LEMMA InitIInv == Init => IInv
<1> SUFFICES ASSUME Init PROVE IInv
  OBVIOUS
<1>1. QueueInv(q)
  BY EmptyQueueInv DEF Init
<1>2. q.processing = {} /\ Busy = {}
  BY DEF Init, EmptyQueue, Busy
<1>3. TypeOK
  BY <1>1 DEF Init, TypeOK, Phases, QueueInv
<1> QED
  BY <1>1, <1>2, <1>3 DEF IInv, Init, QueueAndWorkersAgree, ExclusiveSync

(***************************************************************************)
(* Each action keeps the invariant, and is a step of SerialReconcile or    *)
(* leaves its variables alone.                                             *)
(***************************************************************************)
AbstractStep == [Serial!Next]_Serial!vars

(* A step that leaves the workers alone, and the keys they process.        *)
LEMMA QueueStep ==
  ASSUME IInv, QueueInv(q'), q'.processing = q.processing, UNCHANGED <<phase, item>>
  PROVE  IInv'
BY DEF IInv, TypeOK, ExclusiveSync, QueueAndWorkersAgree, Busy, QueueInv

LEMMA EnqueueStep ==
  ASSUME IInv, NEW k \in Keys, Enqueue(k)
  PROVE  IInv' /\ AbstractStep
<1>1. /\ QueueInv(q')
      /\ q'.processing = q.processing
      /\ q'.closed = q.closed
      /\ q.closed => q' = q
      /\ ~q.closed => Pending(q') = Pending(q) \cup {k}
  BY AddProperties DEF Enqueue, IInv, QueueAndWorkersAgree
<1>2. IInv'
  BY <1>1, QueueStep DEF Enqueue
<1>3. q.closed => UNCHANGED Serial!vars
  BY <1>1 DEF Serial!vars
<1>4. ~q.closed => Serial!Request(k)
  BY <1>1 DEF Serial!Request
<1> QED
  BY <1>2, <1>3, <1>4 DEF AbstractStep, Serial!Next

LEMMA ReleaseStep ==
  ASSUME IInv, NEW k \in Keys, ReleaseDelayed(k)
  PROVE  IInv' /\ AbstractStep
<1>1. /\ QueueInv(q')
      /\ q'.processing = q.processing
      /\ q'.closed = q.closed
      /\ Pending(q') = Pending(q)
  BY ReleaseProperties DEF ReleaseDelayed, IInv, QueueAndWorkersAgree
<1>2. IInv'
  BY <1>1, QueueStep DEF ReleaseDelayed
<1> QED
  BY <1>1, <1>2 DEF AbstractStep, Serial!vars

LEMMA StopStep ==
  ASSUME IInv, Stop
  PROVE  IInv' /\ AbstractStep
<1>1. /\ QueueInv(q')
      /\ q'.processing = q.processing
      /\ ~q.closed /\ q'.closed
      /\ Pending(q') = Pending(q)
      /\ q \in WorkQueues /\ q' \in WorkQueues
  BY ShutDownProperties DEF Stop, IInv, QueueAndWorkersAgree, QueueInv
<1>2. IInv'
  BY <1>1, QueueStep DEF Stop
<1>3. q'.closed = TRUE
  BY <1>1 DEF WorkQueues
<1>4. Serial!Close
  BY <1>1, <1>3 DEF Serial!Close
<1> QED
  BY <1>2, <1>4 DEF AbstractStep, Serial!Next

LEMMA GetItemStep ==
  ASSUME IInv, NEW w \in Workers, GetItem(w)
  PROVE  IInv' /\ AbstractStep
<1> DEFINE k == Head(q.queue)
<1>1. /\ QueueInv(q')
      /\ k \in (Keys \cap q.dirty) \ q.processing
      /\ q'.processing = q.processing \cup {k}
      /\ q'.closed = q.closed
      /\ Pending(q') \in {Pending(q), Pending(q) \ {k}}
  BY GetProperties DEF GetItem, IInv, QueueAndWorkersAgree
<1>2. /\ w \notin Busy
      /\ phase' = [phase EXCEPT ![w] = "syncing"]
      /\ item' = [item EXCEPT ![w] = k]
  BY DEF GetItem, Busy
<1>3. TypeOK'
  BY <1>1, <1>2 DEF IInv, TypeOK, Phases, QueueInv
<1>4. Busy' = Busy \cup {w}
  BY <1>2 DEF IInv, TypeOK, Busy
<1>5. /\ \A v \in Busy : item'[v] = item[v] /\ item[v] \in q.processing
      /\ item'[w] = k
  BY <1>2 DEF IInv, TypeOK, Busy, QueueAndWorkersAgree
<1>6. ExclusiveSync'
  BY <1>1, <1>4, <1>5 DEF IInv, ExclusiveSync
<1>7. q'.processing = {item'[v] : v \in Busy'}
  BY <1>1, <1>4, <1>5 DEF IInv, QueueAndWorkersAgree
<1>8. \A v \in Workers : v \in Busy' <=> item'[v] # NoKey
  BY <1>1, <1>2, <1>4, NoKeyAssumption DEF IInv, TypeOK, QueueAndWorkersAgree
<1>9. Serial!Begin(k)
  BY <1>1 DEF Serial!Begin, Pending
<1> QED
  BY <1>1, <1>3, <1>6, <1>7, <1>8, <1>9
  DEF IInv, QueueAndWorkersAgree, AbstractStep, Serial!Next

LEMMA SyncSucceedsStep ==
  ASSUME IInv, NEW w \in Workers, SyncSucceeds(w)
  PROVE  IInv' /\ AbstractStep
<1>1. Busy' = Busy /\ item' = item /\ q' = q /\ TypeOK'
  BY DEF SyncSucceeds, IInv, TypeOK, Busy, Phases
<1> QED
  BY <1>1 DEF IInv, ExclusiveSync, QueueAndWorkersAgree, AbstractStep, Serial!vars

LEMMA SyncFailsStep ==
  ASSUME IInv, NEW w \in Workers, SyncFails(w)
  PROVE  IInv' /\ AbstractStep
<1> DEFINE k == item[w]
<1>1. w \in Busy /\ k \in Keys /\ k \in q.processing
  BY DEF SyncFails, IInv, TypeOK, Busy, QueueAndWorkersAgree
<1>2. /\ QueueInv(q')
      /\ q'.processing = q.processing
      /\ q'.closed = q.closed
      /\ q.closed => q' = q
      /\ ~q.closed => Pending(q') = Pending(q) \cup {k}
  BY <1>1, AddRateLimitedProperties DEF SyncFails, IInv, QueueAndWorkersAgree
<1>3. Busy' = Busy /\ item' = item /\ TypeOK'
  BY <1>2 DEF SyncFails, IInv, TypeOK, Busy, Phases, QueueInv
<1>4. IInv'
  BY <1>2, <1>3 DEF IInv, ExclusiveSync, QueueAndWorkersAgree
<1>5. q.closed => UNCHANGED Serial!vars
  BY <1>2 DEF Serial!vars
<1>6. ~q.closed => Serial!Fail(k)
  BY <1>1, <1>2 DEF Serial!Fail
<1> QED
  BY <1>1, <1>4, <1>5, <1>6 DEF AbstractStep, Serial!Next

LEMMA FinishItemStep ==
  ASSUME IInv, NEW w \in Workers, FinishItem(w)
  PROVE  IInv' /\ AbstractStep
<1> DEFINE k == item[w]
<1>1. w \in Busy /\ k \in Keys /\ k \in q.processing
  BY DEF FinishItem, IInv, TypeOK, Busy, QueueAndWorkersAgree
<1>2. /\ QueueInv(q')
      /\ q'.processing = q.processing \ {k}
      /\ q'.closed = q.closed
      /\ Pending(q') = Pending(q)
  BY <1>1, DoneProperties DEF FinishItem, IInv, QueueAndWorkersAgree
<1>3. /\ phase' = [phase EXCEPT ![w] = "idle"]
      /\ item' = [item EXCEPT ![w] = NoKey]
  BY DEF FinishItem
<1>4. TypeOK'
  BY <1>2, <1>3 DEF IInv, TypeOK, Phases, QueueInv
<1>5. Busy' = Busy \ {w}
  BY <1>3 DEF IInv, TypeOK, Busy
<1>6. \A v \in Busy' : item'[v] = item[v] /\ item[v] # k
  BY <1>1, <1>3, <1>5 DEF IInv, TypeOK, Busy, ExclusiveSync
<1>7. ExclusiveSync'
  BY <1>5, <1>6 DEF IInv, ExclusiveSync
<1>8. q'.processing = {item'[v] : v \in Busy'}
  BY <1>1, <1>2, <1>5, <1>6 DEF IInv, QueueAndWorkersAgree
<1>9. \A v \in Workers : v \in Busy' <=> item'[v] # NoKey
  BY <1>3, <1>5 DEF IInv, TypeOK, QueueAndWorkersAgree
<1>10. Serial!End(k)
  BY <1>1, <1>2 DEF Serial!End
<1> QED
  BY <1>1, <1>2, <1>4, <1>7, <1>8, <1>9, <1>10
  DEF IInv, QueueAndWorkersAgree, AbstractStep, Serial!Next

LEMMA WorkerExitsStep ==
  ASSUME IInv, NEW w \in Workers, WorkerExits(w)
  PROVE  IInv' /\ AbstractStep
<1>1. Busy' = Busy /\ item' = item /\ q' = q /\ TypeOK'
  BY DEF WorkerExits, IInv, TypeOK, Busy, Phases
<1> QED
  BY <1>1 DEF IInv, ExclusiveSync, QueueAndWorkersAgree, AbstractStep, Serial!vars

LEMMA NextIInv ==
  ASSUME IInv, [Next]_vars
  PROVE  IInv' /\ AbstractStep
<1>1. CASE \E k \in Keys : Enqueue(k) \/ ReleaseDelayed(k)
  BY <1>1, EnqueueStep, ReleaseStep
<1>2. CASE \E w \in Workers : GetItem(w) \/ SyncSucceeds(w) \/ SyncFails(w)
                              \/ FinishItem(w) \/ WorkerExits(w)
  BY <1>2, GetItemStep, SyncSucceedsStep, SyncFailsStep, FinishItemStep, WorkerExitsStep
<1>3. CASE Stop
  BY <1>3, StopStep
<1>4. CASE UNCHANGED vars
  BY <1>4 DEF vars, IInv, TypeOK, ExclusiveSync, QueueAndWorkersAgree, Busy,
              AbstractStep, Serial!vars
<1> QED
  BY <1>1, <1>2, <1>3, <1>4 DEF Next

----------------------------------------------------------------------------
(* The variables of the work loop keep their types (controller.go 203-229).*)
THEOREM TypeCorrect == Spec => []TypeOK
<1>1. IInv /\ [Next]_vars => IInv'
  BY NextIInv
<1>2. IInv => TypeOK
  BY DEF IInv
<1> QED
  BY InitIInv, <1>1, <1>2, PTL DEF Spec

(* However many workers Run starts, no two of them ever run syncHandler    *)
(* for the same Gateway.                                                   *)
THEOREM ExclusiveSyncHolds == Spec => []ExclusiveSync
<1>1. IInv /\ [Next]_vars => IInv'
  BY NextIInv
<1>2. IInv => ExclusiveSync
  BY DEF IInv
<1> QED
  BY InitIInv, <1>1, <1>2, PTL DEF Spec

(* The queue's sets and the workers' keys agree in every reachable state,  *)
(* so no key that needs a sync is ever lost between the two.               *)
THEOREM QueueAndWorkersAgreeHolds == Spec => []QueueAndWorkersAgree
<1>1. IInv /\ [Next]_vars => IInv'
  BY NextIInv
<1>2. IInv => QueueAndWorkersAgree
  BY DEF IInv
<1> QED
  BY InitIInv, <1>1, <1>2, PTL DEF Spec

(* Every step of the work loop is a step of SerialReconcile or changes     *)
(* nothing it can see: requests are consumed only by a sync that begins,   *)
(* also when they arrive during a sync or a failed key waits for its       *)
(* delay.  (Its fairness part is checked by TLC only.)                     *)
THEOREM ImplementsSerialReconcileSafety == Spec => Serial!Init /\ [][Serial!Next]_Serial!vars
<1>1. Init => Serial!Init
  BY EmptyQueueInv DEF Init, Serial!Init, EmptyQueue
<1>2. IInv /\ [Next]_vars => IInv' /\ [Serial!Next]_Serial!vars
  BY NextIInv DEF AbstractStep
<1> QED
  BY InitIInv, <1>1, <1>2, PTL DEF Spec
=============================================================================
