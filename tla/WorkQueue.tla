----------------------------- MODULE WorkQueue -----------------------------
(***************************************************************************)
(* The rate-limiting work queue of client-go, as far as the controller     *)
(* uses it (controllers/controller.go: Add through the event handlers,     *)
(* Get, Done, AddRateLimited, Forget, ShutDown).  The library is not part  *)
(* of the repository; these are its documented semantics: a key is queued  *)
(* at most once, a key that is being processed is never handed to a second *)
(* worker, and a key added while it is processed is queued again by Done.  *)
(*                                                                         *)
(* A queue is a record, and every operation a function from queue to       *)
(* queue, so that a handler that adds several keys is still one step.      *)
(* Back-off delays are not timed: a rate-limited key sits in "delayed"     *)
(* until it is released at an arbitrary moment.  Forget only resets the    *)
(* length of the next delay and so has no operator here.                   *)
(***************************************************************************)
EXTENDS Sequences, FiniteSets, SequencesExt

CONSTANT Keys   \* "namespace/name" of every Gateway that may be enqueued

(***************************************************************************)
(* queue:      the order in which waiting keys are handed out              *)
(* dirty:      keys that need processing (waiting, or re-added meanwhile)  *)
(* processing: keys handed out by Get and not yet given back by Done       *)
(* delayed:    keys of the delaying queue's heap, one entry per key        *)
(* closed:     ShutDown was called                                         *)
(***************************************************************************)
WorkQueues == [queue : Seq(Keys), dirty : SUBSET Keys, processing : SUBSET Keys,
               delayed : SUBSET Keys, closed : BOOLEAN]

EmptyQueue == [queue |-> <<>>, dirty |-> {}, processing |-> {},
               delayed |-> {}, closed |-> FALSE]

(***************************************************************************)
(* Mutants of the operations, each a plausible slip.                       *)
(***************************************************************************)
AddDuringProcessing(q, k) ==   \* forgets that a worker holds the key
  IF q.closed \/ k \in q.dirty
  THEN q
  ELSE [q EXCEPT !.dirty = @ \cup {k}, !.queue = Append(@, k)]

AddTwice(q, k) ==              \* forgets that the key already waits
  IF q.closed
  THEN q
  ELSE [q EXCEPT !.dirty = @ \cup {k},
                 !.queue = IF k \in q.processing THEN @ ELSE Append(@, k)]

DoneForgetsDirty(q, k) ==      \* a change seen during the sync is dropped
  [q EXCEPT !.processing = @ \ {k}, !.dirty = @ \ {k}]

----------------------------------------------------------------------------
Add(q, k) ==
  IF q.closed \/ k \in q.dirty
  THEN q
  ELSE [q EXCEPT !.dirty = @ \cup {k},
                 !.queue = IF k \in q.processing THEN @ ELSE Append(@, k)]

Get(q) ==
  [q EXCEPT !.queue = Tail(@),
            !.processing = @ \cup {Head(q.queue)},
            !.dirty = @ \ {Head(q.queue)}]

Done(q, k) ==
  [q EXCEPT !.processing = @ \ {k},
            !.queue = IF k \in q.dirty THEN Append(@, k) ELSE @]

AddRateLimited(q, k) ==
  IF q.closed THEN q ELSE [q EXCEPT !.delayed = @ \cup {k}]

(* The delaying queue's loop moves a key whose delay has passed.           *)
Release(q, k) == Add([q EXCEPT !.delayed = @ \ {k}], k)

ShutDown(q) == [q EXCEPT !.closed = TRUE]

----------------------------------------------------------------------------
(* The queue holds exactly the dirty keys no worker has, each once.        *)
QueueInv(q) ==
  /\ q \in WorkQueues
  /\ \A i, j \in 1..Len(q.queue) : q.queue[i] = q.queue[j] => i = j
  /\ ToSet(q.queue) = q.dirty \ q.processing

(* Keys that still have to be handed to a worker because of a request.     *)
Pending(q) == q.dirty \cup q.delayed
=============================================================================
