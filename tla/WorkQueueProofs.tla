-------------------------- MODULE WorkQueueProofs ---------------------------
(***************************************************************************)
(* Every operation of the work queue keeps its representation consistent,  *)
(* and does to the sets of pending and processing keys what its name says. *)
(***************************************************************************)
EXTENDS WorkQueue, TLAPS

(***************************************************************************)
(* What the operations do to the set of queued keys and to its order.      *)
(***************************************************************************)
NoDuplicates(s) == \A i, j \in 1..Len(s) : s[i] = s[j] => i = j

(* Appending a key that is not queued keeps the queue free of duplicates,  *)
(* and adds just that key.                                                 *)
LEMMA AppendNew ==
  ASSUME NEW s \in Seq(Keys), NEW k \in Keys
  PROVE  /\ Append(s, k) \in Seq(Keys)
         /\ ToSet(Append(s, k)) = ToSet(s) \cup {k}
         /\ NoDuplicates(s) /\ k \notin ToSet(s) => NoDuplicates(Append(s, k))
<1>1. Append(s, k) \in Seq(Keys)
  OBVIOUS
<1>2. /\ Len(Append(s, k)) = Len(s) + 1
      /\ \A i \in 1..Len(s) : Append(s, k)[i] = s[i]
      /\ Append(s, k)[Len(s) + 1] = k
      /\ Len(s) \in Nat
  OBVIOUS
<1>3. ToSet(Append(s, k)) = ToSet(s) \cup {k}
  BY <1>1, <1>2 DEF ToSet
<1>4. NoDuplicates(s) /\ k \notin ToSet(s) => NoDuplicates(Append(s, k))
  BY <1>1, <1>2 DEF ToSet, NoDuplicates
<1> QED
  BY <1>1, <1>3, <1>4

(* Taking the head of a duplicate-free queue removes just that key.        *)
LEMMA TailOfDistinct ==
  ASSUME NEW s \in Seq(Keys), s # <<>>, NoDuplicates(s)
  PROVE  /\ Head(s) \in Keys
         /\ Head(s) \in ToSet(s)
         /\ Tail(s) \in Seq(Keys)
         /\ ToSet(Tail(s)) = ToSet(s) \ {Head(s)}
         /\ NoDuplicates(Tail(s))
<1>1. /\ Len(s) \in Nat \ {0}
      /\ Tail(s) \in Seq(Keys)
      /\ Len(Tail(s)) = Len(s) - 1
      /\ \A i \in 1..Len(Tail(s)) : Tail(s)[i] = s[i + 1]
      /\ Head(s) = s[1]
      /\ s[1] \in Keys
  OBVIOUS
<1>2. Head(s) \in ToSet(s)
  BY <1>1 DEF ToSet
<1>3. ToSet(Tail(s)) \subseteq ToSet(s) \ {Head(s)}
  BY <1>1 DEF ToSet, NoDuplicates
<1>4. ASSUME NEW x \in ToSet(s) \ {Head(s)}
      PROVE  x \in ToSet(Tail(s))
  <2>1. PICK i \in 1..Len(s) : s[i] = x
    BY DEF ToSet
  <2>2. i # 1 /\ i - 1 \in 1..Len(Tail(s)) /\ Tail(s)[i - 1] = x
    BY <1>1, <2>1
  <2>3. DOMAIN Tail(s) = 1..Len(Tail(s))
    BY <1>1
  <2> QED
    BY <2>2, <2>3 DEF ToSet
<1>5. NoDuplicates(Tail(s))
  BY <1>1 DEF NoDuplicates
<1> QED
  BY <1>1, <1>2, <1>3, <1>4, <1>5

(***************************************************************************)
(* The operations on queues.                                               *)
(***************************************************************************)
LEMMA EmptyQueueInv == QueueInv(EmptyQueue) /\ Pending(EmptyQueue) = {}
<1>1. EmptyQueue \in WorkQueues
  BY DEF EmptyQueue, WorkQueues
<1>2. ToSet(<<>>) = {}
  BY DEF ToSet
<1> QED
  BY <1>1, <1>2 DEF EmptyQueue, QueueInv, Pending

(* Add makes an open queue's key pending and nothing else.                 *)
LEMMA AddProperties ==
  ASSUME NEW q, QueueInv(q), NEW k \in Keys
  PROVE  /\ QueueInv(Add(q, k))
         /\ Add(q, k).processing = q.processing
         /\ Add(q, k).closed = q.closed
         /\ q.closed => Add(q, k) = q
         /\ ~q.closed => Pending(Add(q, k)) = Pending(q) \cup {k}
<1>1. CASE q.closed \/ k \in q.dirty
  BY <1>1 DEF Add, Pending
<1>2. CASE ~q.closed /\ k \notin q.dirty
  <2> DEFINE r == Add(q, k)
  <2>1. q \in WorkQueues
    BY DEF QueueInv
  <2>2. r = [q EXCEPT !.dirty = @ \cup {k},
                      !.queue = IF k \in q.processing THEN @ ELSE Append(@, k)]
    BY <1>2 DEF Add
  <2>3. /\ r.dirty = q.dirty \cup {k}
        /\ r.processing = q.processing
        /\ r.delayed = q.delayed
        /\ r.closed = q.closed
        /\ r.queue = IF k \in q.processing THEN q.queue ELSE Append(q.queue, k)
    BY <2>1, <2>2 DEF WorkQueues
  <2>4. k \notin ToSet(q.queue)
    BY <1>2 DEF QueueInv
  <2>5. q.queue \in Seq(Keys) /\ NoDuplicates(q.queue)
    BY <2>1 DEF WorkQueues, QueueInv, NoDuplicates
  <2>6. r \in WorkQueues
    <3>1. Append(q.queue, k) \in Seq(Keys)
      BY <2>5
    <3>2. /\ q.dirty \cup {k} \in SUBSET Keys
          /\ (IF k \in q.processing THEN q.queue ELSE Append(q.queue, k)) \in Seq(Keys)
      BY <2>1, <2>5, <3>1 DEF WorkQueues
    <3> HIDE DEF r
    <3> QED
      BY <2>1, <2>2, <3>2 DEF WorkQueues
  <2>7. ToSet(r.queue) = r.dirty \ r.processing /\ NoDuplicates(r.queue)
    <3>1. CASE k \in q.processing
      BY <3>1, <2>3, <2>5 DEF QueueInv
    <3>2. CASE k \notin q.processing
      <4>1. /\ ToSet(r.queue) = ToSet(q.queue) \cup {k}
            /\ NoDuplicates(r.queue)
        BY <3>2, <2>3, <2>4, <2>5, AppendNew
      <4> QED
        BY <4>1, <3>2, <2>3 DEF QueueInv
    <3> QED
      BY <3>1, <3>2
  <2>8. QueueInv(r)
    BY <2>6, <2>7 DEF QueueInv, NoDuplicates
  <2>9. Pending(r) = Pending(q) \cup {k}
    BY <2>3 DEF Pending
  <2> QED
    BY <1>2, <2>3, <2>8, <2>9
<1> QED
  BY <1>1, <1>2

(* Get hands out a pending key that no worker has.                         *)
LEMMA GetProperties ==
  ASSUME NEW q, QueueInv(q), q.queue # <<>>
  PROVE  /\ QueueInv(Get(q))
         /\ Head(q.queue) \in (Keys \cap q.dirty) \ q.processing
         /\ Get(q).processing = q.processing \cup {Head(q.queue)}
         /\ Get(q).closed = q.closed
         /\ Pending(Get(q)) \in {Pending(q), Pending(q) \ {Head(q.queue)}}
<1> DEFINE k == Head(q.queue)
           r == Get(q)
<1>1. q \in WorkQueues /\ q.queue \in Seq(Keys) /\ NoDuplicates(q.queue)
  BY DEF QueueInv, WorkQueues, NoDuplicates
<1>2. /\ k \in Keys
      /\ k \in ToSet(q.queue)
      /\ Tail(q.queue) \in Seq(Keys)
      /\ ToSet(Tail(q.queue)) = ToSet(q.queue) \ {k}
      /\ NoDuplicates(Tail(q.queue))
  BY <1>1, TailOfDistinct
<1>3. k \in (Keys \cap q.dirty) \ q.processing
  BY <1>2 DEF QueueInv
<1>4. /\ r.queue = Tail(q.queue)
      /\ r.processing = q.processing \cup {k}
      /\ r.dirty = q.dirty \ {k}
      /\ r.delayed = q.delayed
      /\ r.closed = q.closed
      /\ r \in WorkQueues
  BY <1>1, <1>2 DEF Get, WorkQueues
<1>5. ToSet(r.queue) = r.dirty \ r.processing
  BY <1>2, <1>3, <1>4 DEF QueueInv
<1>6. QueueInv(r)
  BY <1>2, <1>4, <1>5 DEF QueueInv, NoDuplicates
<1>7. Pending(r) \in {Pending(q), Pending(q) \ {k}}
  BY <1>3, <1>4 DEF Pending
<1> QED
  BY <1>3, <1>4, <1>6, <1>7

(* Done gives a key back, and queues it if it became dirty meanwhile.      *)
LEMMA DoneProperties ==
  ASSUME NEW q, QueueInv(q), NEW k \in q.processing
  PROVE  /\ QueueInv(Done(q, k))
         /\ Done(q, k).processing = q.processing \ {k}
         /\ Done(q, k).closed = q.closed
         /\ Pending(Done(q, k)) = Pending(q)
<1> DEFINE r == Done(q, k)
<1>1. /\ q \in WorkQueues
      /\ q.queue \in Seq(Keys)
      /\ NoDuplicates(q.queue)
      /\ k \in Keys
      /\ k \notin ToSet(q.queue)
  BY DEF QueueInv, WorkQueues, NoDuplicates
<1>2. /\ r.processing = q.processing \ {k}
      /\ r.dirty = q.dirty
      /\ r.delayed = q.delayed
      /\ r.closed = q.closed
      /\ r.queue = IF k \in q.dirty THEN Append(q.queue, k) ELSE q.queue
      /\ r \in WorkQueues
  <2>1. Append(q.queue, k) \in Seq(Keys)
    BY <1>1
  <2>2. /\ q.processing \ {k} \in SUBSET Keys
        /\ (IF k \in q.dirty THEN Append(q.queue, k) ELSE q.queue) \in Seq(Keys)
    BY <1>1, <2>1 DEF WorkQueues
  <2> QED
    BY <1>1, <2>2 DEF Done, WorkQueues
<1>3. ToSet(r.queue) = r.dirty \ r.processing /\ NoDuplicates(r.queue)
  <2>1. CASE k \in q.dirty
    <3>1. ToSet(r.queue) = ToSet(q.queue) \cup {k} /\ NoDuplicates(r.queue)
      BY <2>1, <1>1, <1>2, AppendNew
    <3> QED
      BY <3>1, <2>1, <1>2 DEF QueueInv
  <2>2. CASE k \notin q.dirty
    BY <2>2, <1>1, <1>2 DEF QueueInv
  <2> QED
    BY <2>1, <2>2
<1>4. QueueInv(r)
  BY <1>2, <1>3 DEF QueueInv, NoDuplicates
<1> QED
  BY <1>2, <1>4 DEF Pending

(* AddRateLimited makes an open queue's key pending.                       *)
LEMMA AddRateLimitedProperties ==
  ASSUME NEW q, QueueInv(q), NEW k \in Keys
  PROVE  /\ QueueInv(AddRateLimited(q, k))
         /\ AddRateLimited(q, k).processing = q.processing
         /\ AddRateLimited(q, k).closed = q.closed
         /\ q.closed => AddRateLimited(q, k) = q
         /\ ~q.closed => Pending(AddRateLimited(q, k)) = Pending(q) \cup {k}
<1>1. CASE q.closed
  BY <1>1 DEF AddRateLimited
<1>2. CASE ~q.closed
  BY <1>2 DEF AddRateLimited, QueueInv, WorkQueues, Pending
<1> QED
  BY <1>1, <1>2

(* Releasing a delayed key changes neither what is pending nor processed.  *)
LEMMA ReleaseProperties ==
  ASSUME NEW q, QueueInv(q), NEW k \in q.delayed, ~q.closed
  PROVE  /\ QueueInv(Release(q, k))
         /\ Release(q, k).processing = q.processing
         /\ Release(q, k).closed = q.closed
         /\ Pending(Release(q, k)) = Pending(q)
<1> DEFINE r == [q EXCEPT !.delayed = @ \ {k}]
<1>1. /\ r.processing = q.processing
      /\ r.closed = q.closed
      /\ r.dirty = q.dirty
      /\ r.queue = q.queue
      /\ r.delayed = q.delayed \ {k}
      /\ r \in WorkQueues
      /\ k \in Keys
  BY DEF QueueInv, WorkQueues
<1>2. QueueInv(r)
  BY <1>1 DEF QueueInv
<1>3. /\ QueueInv(Add(r, k))
      /\ Add(r, k).processing = r.processing
      /\ Add(r, k).closed = r.closed
      /\ Pending(Add(r, k)) = Pending(r) \cup {k}
  BY <1>1, <1>2, AddProperties
<1>4. Pending(r) \cup {k} = Pending(q)
  BY <1>1 DEF Pending
<1> QED
  BY <1>1, <1>3, <1>4 DEF Release

LEMMA ShutDownProperties ==
  ASSUME NEW q, QueueInv(q)
  PROVE  /\ QueueInv(ShutDown(q))
         /\ ShutDown(q).processing = q.processing
         /\ ShutDown(q).closed
         /\ Pending(ShutDown(q)) = Pending(q)
BY DEF ShutDown, QueueInv, WorkQueues, Pending
=============================================================================
