---------------------------- MODULE GatewayProofs ----------------------------
(***************************************************************************)
(* What GatewayController promises for any Gateways, routes, workers and   *)
(* bounds.  Along the way of an object - from the API server through its   *)
(* undelivered events to the informer's store, from there into a worker's  *)
(* locals and at last into a snapshot - versions only get older; and since *)
(* the work queue lets one worker at a time reconcile a Gateway, a push    *)
(* replaces a snapshot that is older still.                                *)
(***************************************************************************)
EXTENDS GatewayController, WorkQueueProofs, SequenceTheorems

(* a: the object in the API server, e: its undelivered events, c: the      *)
(* cached object.  m bounds the versions given out so far.                 *)
Newest(e, c) == IF e = <<>> THEN c ELSE e[Len(e)]

Chain(Obj, m, a, e, c) ==
  /\ Stored(Newest(e, c)) = a
  /\ \A i \in 1..Len(e) :
       e[i] \in {Absent, Tombstone} => (IF i = 1 THEN c ELSE e[i - 1]) \in Obj
  /\ c \in Obj => c.spec <= m
  /\ \A i \in 1..Len(e) : e[i] \in Obj => e[i].spec <= m
  /\ \A i \in 1..Len(e) : c \in Obj /\ e[i] \in Obj => c.spec <= e[i].spec
  /\ \A i, j \in 1..Len(e) : i < j /\ e[i] \in Obj /\ e[j] \in Obj => e[i].spec <= e[j].spec

(* Nothing that is cached or yet to be delivered is older than n.          *)
Floor(Obj, n, e, c) ==
  /\ c \in Obj => n <= c.spec
  /\ \A i \in 1..Len(e) : e[i] \in Obj => n <= e[i].spec

IsObjects(Obj) ==
  /\ \A o \in Obj : o.spec \in Nat
  /\ Absent \notin Obj /\ Tombstone \notin Obj /\ Absent # Tombstone

----------------------------------------------------------------------------
(* A write appends to an object's events.  It takes the newest version, or *)
(* a version not given out before.                                         *)
LEMMA WriteKeepsChain ==
  ASSUME NEW Obj, IsObjects(Obj), NEW m \in Nat, NEW n \in Nat, m <= n,
         NEW a \in Obj \cup {Absent}, NEW c \in Obj \cup {Absent},
         NEW e \in Seq(Obj \cup {Absent, Tombstone}), Chain(Obj, m, a, e, c),
         NEW b \in Obj \cup {Absent}, b = Absent => a \in Obj,
         b \in Obj => b.spec = n \/ (a \in Obj /\ b.spec = a.spec)
  PROVE  /\ Chain(Obj, n, b, Append(e, b), c)
         /\ Append(e, b) \in Seq(Obj \cup {Absent, Tombstone})
         /\ \A k \in Nat : k <= m /\ Floor(Obj, k, e, c) => Floor(Obj, k, Append(e, b), c)
<1> DEFINE f == Append(e, b)
           L == Len(e)
<1>1. /\ f \in Seq(Obj \cup {Absent, Tombstone}) /\ L \in Nat /\ Len(f) = L + 1
      /\ \A i \in 1..L : f[i] = e[i] /\ e[i] \in Obj \cup {Absent, Tombstone}
      /\ f[L + 1] = b /\ f # <<>>
      /\ e = <<>> <=> L = 0
  OBVIOUS
<1>2. Newest(f, c) = b /\ Stored(b) = b
  BY <1>1 DEF Newest, Stored, IsObjects
<1>3. a \in Obj => Newest(e, c) = a
  BY DEF Chain, Stored, IsObjects
<1>4. a \in Obj => /\ c \in Obj => c.spec <= a.spec
                   /\ \A i \in 1..L : e[i] \in Obj => e[i].spec <= a.spec
                   /\ a.spec <= m /\ a.spec \in Nat
  <2>1. CASE e = <<>>
    BY <2>1, <1>1, <1>3 DEF Newest, Chain, IsObjects
  <2>2. CASE e # <<>>
    <3>1. L \in 1..L /\ \A i \in 1..L : i = L \/ i < L
      BY <2>2, <1>1
    <3>2. a \in Obj => e[L] = a
      BY <2>2, <1>3 DEF Newest
    <3> QED  BY <3>1, <3>2, <1>1 DEF Chain, IsObjects
  <2> QED  BY <2>1, <2>2
<1>5. ASSUME b \in Obj
      PROVE  /\ b.spec \in Nat /\ b.spec <= n
             /\ c \in Obj => c.spec <= b.spec
             /\ \A i \in 1..L : e[i] \in Obj => e[i].spec <= b.spec
  <2>0. /\ b.spec \in Nat /\ (c \in Obj => c.spec \in Nat)
        /\ \A i \in 1..L : e[i] \in Obj => e[i].spec \in Nat
    BY <1>5 DEF IsObjects
  <2>1. CASE b.spec = n
    BY <2>0, <2>1 DEF Chain
  <2>2. CASE a \in Obj /\ b.spec = a.spec
    BY <2>0, <2>2, <1>4
  <2> QED  BY <2>1, <2>2, <1>5
<1>6. \A i \in 1..(L + 1) : f[i] \in {Absent, Tombstone} => (IF i = 1 THEN c ELSE f[i - 1]) \in Obj
  <2> SUFFICES ASSUME NEW i \in 1..(L + 1), f[i] \in {Absent, Tombstone}
               PROVE  (IF i = 1 THEN c ELSE f[i - 1]) \in Obj
    OBVIOUS
  <2>1. CASE i \in 1..L
    <3>1. i # 1 => i - 1 \in 1..L
      BY <2>1, <1>1
    <3> QED  BY <2>1, <3>1, <1>1 DEF Chain
  <2>2. CASE i = L + 1
    <3>1. b = Absent /\ Newest(e, c) \in Obj
      BY <2>2, <1>1, <1>3 DEF IsObjects
    <3>2. i # 1 => e # <<>> /\ i - 1 = L /\ L \in 1..L
      BY <2>2, <1>1
    <3>3. i = 1 => e = <<>>
      BY <2>2, <1>1
    <3> QED  BY <3>1, <3>2, <3>3, <1>1 DEF Newest
  <2> QED  BY <2>1, <2>2, <1>1
<1>7. Chain(Obj, n, b, f, c)
  <2>1. \A i \in 1..(L + 1) : i \in 1..L \/ i = L + 1
    BY <1>1
  <2>2. /\ c \in Obj => c.spec \in Nat
        /\ \A i \in 1..L : e[i] \in Obj => e[i].spec \in Nat
    BY DEF IsObjects
  <2>3. c \in Obj => c.spec <= n
    BY <2>2 DEF Chain
  <2>4. \A i \in 1..(L + 1) : f[i] \in Obj => f[i].spec <= n
    BY <2>1, <2>2, <1>1, <1>5 DEF Chain
  <2>5. \A i \in 1..(L + 1) : c \in Obj /\ f[i] \in Obj => c.spec <= f[i].spec
    BY <2>1, <1>1, <1>5 DEF Chain
  <2>6. \A i, j \in 1..(L + 1) : i < j /\ f[i] \in Obj /\ f[j] \in Obj => f[i].spec <= f[j].spec
    <3> SUFFICES ASSUME NEW i \in 1..(L + 1), NEW j \in 1..(L + 1),
                        i < j, f[i] \in Obj, f[j] \in Obj
                 PROVE  f[i].spec <= f[j].spec
      OBVIOUS
    <3>1. i \in 1..L
      BY <1>1
    <3>2. CASE j \in 1..L
      BY <3>1, <3>2, <1>1 DEF Chain
    <3>3. CASE j = L + 1
      BY <3>1, <3>3, <1>1, <1>5
    <3> QED  BY <3>2, <3>3, <1>1
  <2> HIDE DEF f
  <2> QED  BY <1>1, <1>2, <1>6, <2>3, <2>4, <2>5, <2>6 DEF Chain
<1>8. ASSUME NEW k \in Nat, k <= m, Floor(Obj, k, e, c) PROVE Floor(Obj, k, f, c)
  <2>1. b \in Obj => k <= b.spec
    <3> SUFFICES ASSUME b \in Obj PROVE k <= b.spec
      OBVIOUS
    <3>1. CASE b.spec = n
      BY <3>1, <1>8
    <3>2. CASE a \in Obj /\ b.spec = a.spec
      <4>1. k <= a.spec
        <5>1. e # <<>> => L \in 1..L
          BY <1>1
        <5> QED  BY <5>1, <3>2, <1>3, <1>8 DEF Newest, Floor
      <4> QED  BY <4>1, <3>2
    <3> QED  BY <3>1, <3>2
  <2>2. \A i \in 1..Len(f) : i \in 1..L \/ i = L + 1
    BY <1>1
  <2> HIDE DEF f
  <2> QED  BY <1>8, <2>1, <2>2, <1>1 DEF Floor
<1> QED  BY <1>1, <1>7, <1>8

(* Delivering an event moves it into the store.                            *)
LEMMA DeliveryKeepsChain ==
  ASSUME NEW Obj, IsObjects(Obj), NEW m \in Nat, NEW a, NEW c \in Obj \cup {Absent},
         NEW e \in Seq(Obj \cup {Absent, Tombstone}), Chain(Obj, m, a, e, c), e # <<>>
  PROVE  /\ Chain(Obj, m, a, Tail(e), Stored(Head(e)))
         /\ Tail(e) \in Seq(Obj \cup {Absent, Tombstone})
         /\ Stored(Head(e)) \in Obj \cup {Absent}
         /\ Head(e) \in Obj \/ (Head(e) \in {Absent, Tombstone} /\ c \in Obj)
         /\ \A k \in Nat : Floor(Obj, k, e, c) => Floor(Obj, k, Tail(e), Stored(Head(e)))
<1> DEFINE f == Tail(e)
           d == Stored(Head(e))
           L == Len(e)
<1>1. /\ f \in Seq(Obj \cup {Absent, Tombstone}) /\ L \in Nat \ {0} /\ Len(f) = L - 1
      /\ \A i \in 1..Len(f) : f[i] = e[i + 1]
      /\ Head(e) = e[1] /\ e[1] \in Obj \cup {Absent, Tombstone}
      /\ f = <<>> <=> L = 1
  <2>1. L \in Nat \ {0}
    BY EmptySeq
  <2>2. /\ f \in Seq(Obj \cup {Absent, Tombstone}) /\ Len(f) = L - 1
        /\ \A i \in 1..Len(f) : f[i] = e[i + 1]
    BY HeadTailProperties
  <2>3. f = <<>> <=> Len(f) = 0
    BY <2>2, EmptySeq
  <2>4. Head(e) = e[1] /\ e[1] \in Obj \cup {Absent, Tombstone}
    BY <2>1
  <2> QED  BY <2>1, <2>2, <2>3, <2>4
<1>2. /\ d \in Obj \cup {Absent}
      /\ e[1] \in Obj => d = e[1]
      /\ d \in Obj => d = e[1]
  BY <1>1 DEF Stored, IsObjects
<1>3. e[1] \in Obj \/ (e[1] \in {Absent, Tombstone} /\ c \in Obj)
  BY <1>1 DEF Chain
<1>4. Stored(Newest(f, d)) = a
  <2>1. CASE L = 1
    BY <2>1, <1>1 DEF Chain, Newest, Stored, IsObjects
  <2>2. CASE L # 1
    <3>1. Len(f) \in 1..Len(f) /\ Len(f) + 1 = L
      BY <2>2, <1>1
    <3> QED  BY <3>1, <2>2, <1>1 DEF Chain, Newest
  <2> QED  BY <2>1, <2>2
<1>5. \A i \in 1..Len(f) : i + 1 \in 1..L /\ i + 1 # 1 /\ 1 < i + 1 /\ (i + 1) - 1 = i
  BY <1>1
<1>6. \A i \in 1..Len(f) : f[i] \in {Absent, Tombstone} => (IF i = 1 THEN d ELSE f[i - 1]) \in Obj
  <2> SUFFICES ASSUME NEW i \in 1..Len(f), f[i] \in {Absent, Tombstone}
               PROVE  (IF i = 1 THEN d ELSE f[i - 1]) \in Obj
    OBVIOUS
  <2>1. e[i] \in Obj
    BY <1>1, <1>5 DEF Chain
  <2>2. i # 1 => f[i - 1] = e[i]
    <3>1. i # 1 => i - 1 \in 1..Len(f) /\ (i - 1) + 1 = i
      BY <1>1
    <3> QED  BY <3>1, <1>1
  <2> QED  BY <2>1, <2>2, <1>2
<1>7. Chain(Obj, m, a, f, d)
  <2>1. 1 \in 1..L
    BY <1>1
  <2>2. d \in Obj => d.spec <= m
    BY <2>1, <1>2 DEF Chain
  <2>3. \A i \in 1..Len(f) : f[i] \in Obj => f[i].spec <= m
    BY <1>1, <1>5 DEF Chain
  <2>4. \A i \in 1..Len(f) : d \in Obj /\ f[i] \in Obj => d.spec <= f[i].spec
    BY <2>1, <1>1, <1>2, <1>5 DEF Chain
  <2>5. \A i, j \in 1..Len(f) : i < j /\ f[i] \in Obj /\ f[j] \in Obj => f[i].spec <= f[j].spec
    <3> SUFFICES ASSUME NEW i \in 1..Len(f), NEW j \in 1..Len(f), i < j, f[i] \in Obj, f[j] \in Obj
                 PROVE  f[i].spec <= f[j].spec
      OBVIOUS
    <3>1. i + 1 < j + 1
      BY <1>1
    <3> QED  BY <3>1, <1>1, <1>5 DEF Chain
  <2> HIDE DEF f, d
  <2> QED  BY <1>4, <1>6, <2>2, <2>3, <2>4, <2>5 DEF Chain
<1>8. \A k \in Nat : Floor(Obj, k, e, c) => Floor(Obj, k, f, d)
  <2>1. 1 \in 1..L
    BY <1>1
  <2> QED  BY <2>1, <1>1, <1>2, <1>5 DEF Floor
<1> QED  BY <1>1, <1>2, <1>3, <1>7, <1>8

(* A new LIST: the object itself, or the tombstone of one that is cached.  *)
LEMMA ListKeepsChain ==
  ASSUME NEW Obj, IsObjects(Obj), NEW m \in Nat,
         NEW a \in Obj \cup {Absent}, NEW c \in Obj \cup {Absent},
         NEW e \in Seq(Obj \cup {Absent, Tombstone}), Chain(Obj, m, a, e, c),
         NEW d, d \in {c, Absent},
         NEW f, \/ a # Absent /\ f = <<a>>
                \/ a = Absent /\ d # Absent /\ f = <<Tombstone>>
                \/ a = Absent /\ d = Absent /\ f = <<>>
  PROVE  /\ Chain(Obj, m, a, f, d)
         /\ f \in Seq(Obj \cup {Absent, Tombstone})
         /\ \A k \in Nat : Floor(Obj, k, e, c) => Floor(Obj, k, f, d)
<1> DEFINE L == Len(e)
<1>1. L \in Nat /\ (e = <<>> <=> L = 0)
  OBVIOUS
<1>2. a \in Obj => Newest(e, c) = a
  BY DEF Chain, Stored, IsObjects
<1>3. e # <<>> => L \in 1..L
  BY <1>1
<1>4. a \in Obj => a.spec <= m
  BY <1>2, <1>3 DEF Newest, Chain
<1>5. a \in Obj /\ c \in Obj => c.spec <= a.spec
  BY <1>2, <1>3 DEF Newest, Chain, IsObjects
<1>6. /\ \A s : Len(<<s>>) = 1 /\ <<s>>[1] = s /\ <<s>> # <<>> /\ 1..1 = {1}
      /\ Len(<<>>) = 0 /\ 1..0 = {}
  OBVIOUS
<1>7. CASE a # Absent /\ f = <<a>>
  <2>1. a \in Obj /\ f \in Seq(Obj \cup {Absent, Tombstone})
    BY <1>7
  <2>2. Stored(Newest(f, d)) = a
    BY <1>6, <1>7, <2>1 DEF Newest, Stored, IsObjects
  <2>3. Chain(Obj, m, a, f, d)
    <3>1. \A i \in 1..Len(f) : i = 1 /\ f[i] = a
      BY <1>6, <1>7
    <3>2. \A i, j \in 1..Len(f) : ~(i < j)
      BY <3>1
    <3> QED  BY <2>1, <2>2, <3>1, <3>2, <1>4, <1>5 DEF Chain, IsObjects
  <2>4. ASSUME NEW k \in Nat, Floor(Obj, k, e, c) PROVE Floor(Obj, k, f, d)
    <3>1. k <= a.spec
      BY <2>1, <2>4, <1>2, <1>3 DEF Newest, Floor
    <3> QED  BY <3>1, <2>4, <1>6, <1>7 DEF Floor, IsObjects
  <2> QED  BY <2>1, <2>3, <2>4
<1>8. CASE a = Absent /\ d # Absent /\ f = <<Tombstone>>
  <2>1. \A i \in 1..Len(f) : i = 1 /\ f[i] = Tombstone
    BY <1>6, <1>8
  <2>2. \A i, j \in 1..Len(f) : ~(i < j)
    BY <2>1
  <2>3. Stored(Newest(f, d)) = a
    BY <1>6, <1>8 DEF Newest, Stored
  <2>4. d = c /\ c \in Obj /\ f \in Seq(Obj \cup {Absent, Tombstone})
    BY <1>8
  <2> QED  BY <2>1, <2>2, <2>3, <2>4 DEF Chain, Floor, IsObjects
<1>9. CASE a = Absent /\ d = Absent /\ f = <<>>
  <2>1. \A i \in 1..Len(f) : FALSE
    BY <1>6, <1>9
  <2>2. Stored(Newest(f, d)) = a
    BY <1>9 DEF Newest, Stored, IsObjects
  <2>3. f \in Seq(Obj \cup {Absent, Tombstone})
    BY <1>9
  <2> QED  BY <2>1, <2>2, <2>3, <1>9 DEF Chain, Floor, IsObjects
<1> QED  BY <1>7, <1>8, <1>9

(* Another object's edit raises the bound of the versions only.            *)
LEMMA LaterKeepsChain ==
  ASSUME NEW Obj, IsObjects(Obj), NEW m \in Nat, NEW n \in Nat, m <= n, NEW a, NEW c,
         NEW e \in Seq(Obj \cup {Absent, Tombstone}), Chain(Obj, m, a, e, c)
  PROVE  Chain(Obj, n, a, e, c)
<1>1. c \in Obj => c.spec <= n
  BY DEF Chain, IsObjects
<1>2. \A i \in 1..Len(e) : e[i] \in Obj => e[i].spec <= n
  BY DEF Chain, IsObjects
<1> QED  BY <1>1, <1>2 DEF Chain

----------------------------------------------------------------------------
Chains ==
  /\ \A g \in Gateways :
       Chain(GatewayObjects, edits, apiGateway[g], gatewayEvents[g], gatewayCache[g])
  /\ \A r \in Routes : Chain(RouteObjects, edits, apiRoute[r], routeEvents[r], routeCache[r])
  /\ backendCache <= apiBackend /\ apiBackend <= edits

GatewayFloor(g, n) == n <= edits /\ Floor(GatewayObjects, n, gatewayEvents[g], gatewayCache[g])
RouteFloor(r, n) == n <= edits /\ Floor(RouteObjects, n, routeEvents[r], routeCache[r])

(* x, contents for g, was made from objects that were cached at some time. *)
OneVersion(x) == \A a, b \in x.routes : a[1] = b[1] => a[2] = b[2]
Behind(x, g) ==
  /\ OneVersion(x)
  /\ GatewayFloor(g, x.spec)
  /\ \A b \in x.routes : RouteFloor(b[1], b[2])
  /\ x.backend <= backendCache

SnapshotsBehind == \A g \in Gateways : snapshot[g] # Absent => Behind(snapshot[g], g)

(* What a worker has read is newer than the snapshot it will replace, and  *)
(* what it reports to the routes is in the snapshot it pushed.             *)
Reading == {"deploy", "translate"}
WorkerBehind(w) ==
  /\ pc[w] \in Reading =>
       /\ work[w].gateway # Absent
       /\ GatewayFloor(item[w], work[w].gateway.spec)
       /\ snapshot[item[w]] # Absent => snapshot[item[w]].spec <= work[w].gateway.spec
  /\ pc[w] = "push" =>
       /\ work[w].contents # Absent
       /\ Behind(work[w].contents, item[w])
       /\ snapshot[item[w]] # Absent => NotOlder(work[w].contents, snapshot[item[w]])
       /\ work[w].statuses = work[w].contents.routes
  /\ pc[w] \in {"gatewayStatus", "routeStatus"} =>
       /\ snapshot[item[w]] # Absent
       /\ work[w].statuses \subseteq snapshot[item[w]].routes
WorkersBehind == \A w \in Workers : WorkerBehind(w)

FreshInv == \A w \in Workers :
              work[w].fresh => item[w] \in Gateways /\ apiGateway[item[w]] # Absent

Busy == {w \in Workers : pc[w] # "idle"}
LoopInv ==
  /\ QueueInv(q) /\ ~q.closed
  /\ q.processing = {item[w] : w \in Busy}
  /\ \A w \in Workers : w \in Busy <=> item[w] # NoKey
  /\ \A v, w \in Busy : item[v] = item[w] => v = w
  /\ \A w \in Busy : started

(* A Gateway of the initial list stays known until a user deletes it.      *)
SteadyInv ==
  /\ started => listing = {}
  /\ \A g \in steady :
       /\ apiGateway[g] # Absent
       /\ \A i \in 1..Len(gatewayEvents[g]) : gatewayEvents[g][i] \in GatewayObjects
       /\ g \notin listing => gatewayCache[g] # Absent
  /\ NoCleanupOfSteadyGateway

IInv == TypeOK /\ Chains /\ SnapshotsBehind /\ WorkersBehind /\ FreshInv /\ LoopInv /\ SteadyInv

----------------------------------------------------------------------------
LEMMA ConstantsTyped ==
  /\ IsObjects(GatewayObjects) /\ IsObjects(RouteObjects)
  /\ Specs \subseteq Nat /\ MaxEdits \in Nat
  /\ Absent \notin Contents
  /\ \A x \in Contents : /\ x.spec \in Nat /\ x.backend \in Nat
                         /\ x.routes \subseteq Routes \X Specs
  /\ NoWork.fresh = FALSE
  /\ Gateways \cap Routes = {}
<1>1. MaxEdits \in Nat
  BY BoundsAssumption
<1>2. Specs \subseteq Nat /\ \A n \in Specs : n \in Nat
  BY <1>1 DEF Specs
<1>3. \A o \in GatewayObjects : o.spec \in Nat
  BY <1>2 DEF GatewayObjects
<1>4. \A o \in RouteObjects : o.spec \in Nat
  BY <1>2 DEF RouteObjects
<1>5. IsObjects(GatewayObjects) /\ IsObjects(RouteObjects)
  BY <1>3, <1>4, MarksAssumption DEF IsObjects
<1>6. \A x \in Contents : x.spec \in Nat /\ x.backend \in Nat /\ x.routes \subseteq Routes \X Specs
  BY <1>2 DEF Contents
<1> QED  BY <1>1, <1>2, <1>5, <1>6, MarksAssumption, NamesAssumption DEF NoWork, Gateways

(* What a step does to versions: it keeps the chains, and no floor gives   *)
(* way.                                                                    *)
VersionStep ==
  /\ Chains'
  /\ backendCache' >= backendCache
  /\ \A g \in Gateways, n \in Nat : GatewayFloor(g, n) => GatewayFloor(g, n)'
  /\ \A r \in Routes, n \in Nat : RouteFloor(r, n) => RouteFloor(r, n)'

LEMMA VersionsKept ==
  ASSUME TypeOK, Chains,
         UNCHANGED <<apiVars, watchVars, gatewayCache, routeCache, backendCache, edits>>
  PROVE  VersionStep
BY ConstantsTyped DEF VersionStep, Chains, GatewayFloor, RouteFloor, apiVars, watchVars, TypeOK

LEMMA GatewayWriteStep ==
  ASSUME TypeOK, Chains, NEW g \in Gateways, NEW obj \in GatewayObjects \cup {Absent},
         WriteGateway(g, obj), obj = Absent => apiGateway[g] # Absent,
         obj # Absent => \/ obj.spec = edits'
                         \/ apiGateway[g] # Absent /\ obj.spec = apiGateway[g].spec,
         edits' \in Specs, edits <= edits',
         UNCHANGED <<apiRoute, apiBackend, routeEvents, gatewayCache, routeCache, backendCache>>
  PROVE  /\ VersionStep
         /\ apiGateway' \in [Gateways -> GatewayObjects \cup {Absent}]
         /\ gatewayEvents' \in [Gateways -> Seq(GatewayObjects \cup {Absent, Tombstone})]
         /\ \A h \in Gateways :
              /\ apiGateway'[h] = IF h = g THEN obj ELSE apiGateway[h]
              /\ gatewayEvents'[h] = IF h = g THEN Append(gatewayEvents[g], obj) ELSE gatewayEvents[h]
<1>1. /\ apiGateway' = [apiGateway EXCEPT ![g] = obj]
      /\ gatewayEvents' = [gatewayEvents EXCEPT ![g] = Append(gatewayEvents[g], obj)]
  BY DEF WriteGateway
<1>2. /\ edits \in Nat /\ edits' \in Nat /\ backendCache \in Nat /\ apiBackend \in Nat
      /\ \A h \in Gateways : /\ apiGateway[h] \in GatewayObjects \cup {Absent}
                             /\ gatewayCache[h] \in GatewayObjects \cup {Absent}
                             /\ gatewayEvents[h] \in Seq(GatewayObjects \cup {Absent, Tombstone})
      /\ \A r \in Routes : routeEvents[r] \in Seq(RouteObjects \cup {Absent, Tombstone})
  BY ConstantsTyped DEF TypeOK
<1>3. /\ Chain(GatewayObjects, edits', obj, Append(gatewayEvents[g], obj), gatewayCache[g])
      /\ Append(gatewayEvents[g], obj) \in Seq(GatewayObjects \cup {Absent, Tombstone})
      /\ \A k \in Nat : k <= edits /\ Floor(GatewayObjects, k, gatewayEvents[g], gatewayCache[g])
                          => Floor(GatewayObjects, k, Append(gatewayEvents[g], obj), gatewayCache[g])
  <2>1. IsObjects(GatewayObjects) /\ Chain(GatewayObjects, edits, apiGateway[g], gatewayEvents[g], gatewayCache[g])
    BY ConstantsTyped DEF Chains
  <2>2. /\ obj = Absent => apiGateway[g] \in GatewayObjects
        /\ obj \in GatewayObjects => obj.spec = edits' \/ (apiGateway[g] \in GatewayObjects /\ obj.spec = apiGateway[g].spec)
    BY <1>2, <2>1 DEF IsObjects
  <2> QED  BY <2>1, <2>2, <1>2, WriteKeepsChain
<1>4. /\ apiGateway' \in [Gateways -> GatewayObjects \cup {Absent}]
      /\ gatewayEvents' \in [Gateways -> Seq(GatewayObjects \cup {Absent, Tombstone})]
      /\ \A h \in Gateways :
           /\ apiGateway'[h] = IF h = g THEN obj ELSE apiGateway[h]
           /\ gatewayEvents'[h] = IF h = g THEN Append(gatewayEvents[g], obj) ELSE gatewayEvents[h]
  BY <1>1, <1>3 DEF TypeOK
<1>5. \A h \in Gateways :
        /\ Chain(GatewayObjects, edits', apiGateway'[h], gatewayEvents'[h], gatewayCache[h])
        /\ \A k \in Nat : k <= edits /\ Floor(GatewayObjects, k, gatewayEvents[h], gatewayCache[h])
                            => Floor(GatewayObjects, k, gatewayEvents'[h], gatewayCache[h])
  <2> TAKE h \in Gateways
  <2>1. CASE h = g
    BY <2>1, <1>3, <1>4
  <2>2. CASE h # g
    <3>1. apiGateway'[h] = apiGateway[h] /\ gatewayEvents'[h] = gatewayEvents[h]
      BY <2>2, <1>4
    <3>2. Chain(GatewayObjects, edits', apiGateway[h], gatewayEvents[h], gatewayCache[h])
      BY <1>2, ConstantsTyped, LaterKeepsChain DEF Chains
    <3> QED  BY <3>1, <3>2
  <2> QED  BY <2>1, <2>2
<1>6. \A r \in Routes : Chain(RouteObjects, edits', apiRoute[r], routeEvents[r], routeCache[r])
  BY <1>2, ConstantsTyped, LaterKeepsChain DEF Chains
<1>7. VersionStep
  BY <1>2, <1>5, <1>6 DEF VersionStep, Chains, GatewayFloor, RouteFloor
<1> QED  BY <1>4, <1>7

LEMMA RouteWriteStep ==
  ASSUME TypeOK, Chains, NEW r \in Routes, NEW obj \in RouteObjects \cup {Absent},
         WriteRoute(r, obj), obj = Absent => apiRoute[r] # Absent,
         obj # Absent => \/ obj.spec = edits'
                         \/ apiRoute[r] # Absent /\ obj.spec = apiRoute[r].spec,
         edits' \in Specs, edits <= edits',
         UNCHANGED <<apiGateway, apiBackend, gatewayEvents, gatewayCache, routeCache, backendCache>>
  PROVE  /\ VersionStep
         /\ apiRoute' \in [Routes -> RouteObjects \cup {Absent}]
         /\ routeEvents' \in [Routes -> Seq(RouteObjects \cup {Absent, Tombstone})]
         /\ \A s \in Routes : apiRoute'[s] = IF s = r THEN obj ELSE apiRoute[s]
<1>1. /\ apiRoute' = [apiRoute EXCEPT ![r] = obj]
      /\ routeEvents' = [routeEvents EXCEPT ![r] = Append(routeEvents[r], obj)]
  BY DEF WriteRoute
<1>2. /\ edits \in Nat /\ edits' \in Nat /\ backendCache \in Nat /\ apiBackend \in Nat
      /\ \A s \in Routes : /\ apiRoute[s] \in RouteObjects \cup {Absent}
                           /\ routeCache[s] \in RouteObjects \cup {Absent}
                           /\ routeEvents[s] \in Seq(RouteObjects \cup {Absent, Tombstone})
      /\ \A g \in Gateways : gatewayEvents[g] \in Seq(GatewayObjects \cup {Absent, Tombstone})
  BY ConstantsTyped DEF TypeOK
<1>3. /\ Chain(RouteObjects, edits', obj, Append(routeEvents[r], obj), routeCache[r])
      /\ Append(routeEvents[r], obj) \in Seq(RouteObjects \cup {Absent, Tombstone})
      /\ \A k \in Nat : k <= edits /\ Floor(RouteObjects, k, routeEvents[r], routeCache[r])
                          => Floor(RouteObjects, k, Append(routeEvents[r], obj), routeCache[r])
  <2>1. IsObjects(RouteObjects) /\ Chain(RouteObjects, edits, apiRoute[r], routeEvents[r], routeCache[r])
    BY ConstantsTyped DEF Chains
  <2>2. /\ obj = Absent => apiRoute[r] \in RouteObjects
        /\ obj \in RouteObjects => obj.spec = edits' \/ (apiRoute[r] \in RouteObjects /\ obj.spec = apiRoute[r].spec)
    BY <1>2, <2>1 DEF IsObjects
  <2> QED  BY <2>1, <2>2, <1>2, WriteKeepsChain
<1>4. /\ apiRoute' \in [Routes -> RouteObjects \cup {Absent}]
      /\ routeEvents' \in [Routes -> Seq(RouteObjects \cup {Absent, Tombstone})]
      /\ \A s \in Routes :
           /\ apiRoute'[s] = IF s = r THEN obj ELSE apiRoute[s]
           /\ routeEvents'[s] = IF s = r THEN Append(routeEvents[r], obj) ELSE routeEvents[s]
  BY <1>1, <1>3 DEF TypeOK
<1>5. \A s \in Routes :
        /\ Chain(RouteObjects, edits', apiRoute'[s], routeEvents'[s], routeCache[s])
        /\ \A k \in Nat : k <= edits /\ Floor(RouteObjects, k, routeEvents[s], routeCache[s])
                            => Floor(RouteObjects, k, routeEvents'[s], routeCache[s])
  <2> TAKE s \in Routes
  <2>1. CASE s = r
    BY <2>1, <1>3, <1>4
  <2>2. CASE s # r
    <3>1. apiRoute'[s] = apiRoute[s] /\ routeEvents'[s] = routeEvents[s]
      BY <2>2, <1>4
    <3>2. Chain(RouteObjects, edits', apiRoute[s], routeEvents[s], routeCache[s])
      BY <1>2, ConstantsTyped, LaterKeepsChain DEF Chains
    <3> QED  BY <3>1, <3>2
  <2> QED  BY <2>1, <2>2
<1>6. \A g \in Gateways :
        Chain(GatewayObjects, edits', apiGateway[g], gatewayEvents[g], gatewayCache[g])
  BY <1>2, ConstantsTyped, LaterKeepsChain DEF Chains
<1>7. VersionStep
  BY <1>2, <1>5, <1>6 DEF VersionStep, Chains, GatewayFloor, RouteFloor
<1> QED  BY <1>4, <1>7

LEMMA GatewayDeliveryStep ==
  ASSUME TypeOK, Chains, NEW g \in Gateways, DeliverGateway(g)
  PROVE  /\ VersionStep
         /\ gatewayCache' \in [Gateways -> GatewayObjects \cup {Absent}]
         /\ gatewayEvents' \in [Gateways -> Seq(GatewayObjects \cup {Absent, Tombstone})]
         /\ \A h \in Gateways : h # g => /\ gatewayEvents'[h] = gatewayEvents[h]
                                         /\ gatewayCache'[h] = gatewayCache[h]
         /\ gatewayEvents'[g] = Tail(gatewayEvents[g])
         /\ gatewayCache'[g] = Stored(Head(gatewayEvents[g]))
<1>1. /\ gatewayEvents[g] # <<>>
      /\ gatewayCache' = [gatewayCache EXCEPT ![g] = Stored(Head(gatewayEvents[g]))]
      /\ gatewayEvents' = [gatewayEvents EXCEPT ![g] = Tail(gatewayEvents[g])]
      /\ UNCHANGED <<apiGateway, apiRoute, apiBackend, routeEvents, routeCache, backendCache, edits>>
  BY DEF DeliverGateway, apiVars, boundVars
<1>2. /\ edits \in Nat /\ backendCache \in Nat /\ gatewayCache[g] \in GatewayObjects \cup {Absent}
      /\ gatewayEvents[g] \in Seq(GatewayObjects \cup {Absent, Tombstone})
  BY ConstantsTyped DEF TypeOK
<1>3. /\ Chain(GatewayObjects, edits, apiGateway[g], Tail(gatewayEvents[g]), Stored(Head(gatewayEvents[g])))
      /\ Tail(gatewayEvents[g]) \in Seq(GatewayObjects \cup {Absent, Tombstone})
      /\ Stored(Head(gatewayEvents[g])) \in GatewayObjects \cup {Absent}
      /\ \A k \in Nat : Floor(GatewayObjects, k, gatewayEvents[g], gatewayCache[g])
             => Floor(GatewayObjects, k, Tail(gatewayEvents[g]), Stored(Head(gatewayEvents[g])))
  BY <1>1, <1>2, ConstantsTyped, DeliveryKeepsChain DEF Chains
<1>4. /\ gatewayCache' \in [Gateways -> GatewayObjects \cup {Absent}]
      /\ gatewayEvents' \in [Gateways -> Seq(GatewayObjects \cup {Absent, Tombstone})]
      /\ \A h \in Gateways : h # g => /\ gatewayEvents'[h] = gatewayEvents[h]
                                      /\ gatewayCache'[h] = gatewayCache[h]
      /\ gatewayEvents'[g] = Tail(gatewayEvents[g])
      /\ gatewayCache'[g] = Stored(Head(gatewayEvents[g]))
  BY <1>1, <1>3 DEF TypeOK
<1>5. VersionStep
  BY <1>1, <1>2, <1>3, <1>4 DEF VersionStep, Chains, GatewayFloor, RouteFloor
<1> QED  BY <1>4, <1>5

LEMMA RouteDeliveryStep ==
  ASSUME TypeOK, Chains, NEW r \in Routes, DeliverRoute(r)
  PROVE  /\ VersionStep
         /\ routeCache' \in [Routes -> RouteObjects \cup {Absent}]
         /\ routeEvents' \in [Routes -> Seq(RouteObjects \cup {Absent, Tombstone})]
         /\ RouteKeys(Handled(routeCache[r], Head(routeEvents[r]))) \subseteq Gateways
<1>1. /\ routeEvents[r] # <<>>
      /\ routeCache' = [routeCache EXCEPT ![r] = Stored(Head(routeEvents[r]))]
      /\ routeEvents' = [routeEvents EXCEPT ![r] = Tail(routeEvents[r])]
      /\ UNCHANGED <<apiGateway, apiRoute, apiBackend, gatewayEvents, gatewayCache, backendCache, edits>>
  BY DEF DeliverRoute, apiVars, boundVars
<1>2. /\ edits \in Nat /\ backendCache \in Nat /\ routeCache[r] \in RouteObjects \cup {Absent}
      /\ routeEvents[r] \in Seq(RouteObjects \cup {Absent, Tombstone})
  BY ConstantsTyped DEF TypeOK
<1>3. /\ Chain(RouteObjects, edits, apiRoute[r], Tail(routeEvents[r]), Stored(Head(routeEvents[r])))
      /\ Tail(routeEvents[r]) \in Seq(RouteObjects \cup {Absent, Tombstone})
      /\ Stored(Head(routeEvents[r])) \in RouteObjects \cup {Absent}
      /\ \/ Head(routeEvents[r]) \in RouteObjects
         \/ Head(routeEvents[r]) \in {Absent, Tombstone} /\ routeCache[r] \in RouteObjects
      /\ \A k \in Nat : Floor(RouteObjects, k, routeEvents[r], routeCache[r])
             => Floor(RouteObjects, k, Tail(routeEvents[r]), Stored(Head(routeEvents[r])))
  BY <1>1, <1>2, ConstantsTyped, DeliveryKeepsChain DEF Chains
<1>4. /\ routeCache' \in [Routes -> RouteObjects \cup {Absent}]
      /\ routeEvents' \in [Routes -> Seq(RouteObjects \cup {Absent, Tombstone})]
      /\ \A s \in Routes : s # r => /\ routeEvents'[s] = routeEvents[s]
                                    /\ routeCache'[s] = routeCache[s]
      /\ routeEvents'[r] = Tail(routeEvents[r])
      /\ routeCache'[r] = Stored(Head(routeEvents[r]))
  BY <1>1, <1>3 DEF TypeOK
<1>5. VersionStep
  BY <1>1, <1>2, <1>3, <1>4 DEF VersionStep, Chains, GatewayFloor, RouteFloor
<1>6. RouteKeys(Handled(routeCache[r], Head(routeEvents[r]))) \subseteq Gateways
  BY <1>3, ConstantsTyped DEF RouteKeys, Handled, RouteObjects, IsObjects
<1> QED  BY <1>4, <1>5, <1>6

(* Lists, of one type of object after a broken watch, of all after a start.*)
LEMMA RelistStep ==
  ASSUME TypeOK, Chains, Relist
  PROVE  /\ VersionStep
         /\ gatewayEvents' \in [Gateways -> Seq(GatewayObjects \cup {Absent, Tombstone})]
         /\ routeEvents' \in [Routes -> Seq(RouteObjects \cup {Absent, Tombstone})]
         /\ \A g \in Gateways : \/ gatewayEvents'[g] = gatewayEvents[g]
                                \/ apiGateway[g] = Absent
                                \/ gatewayEvents'[g] = <<apiGateway[g]>>
<1>1. UNCHANGED <<apiGateway, apiRoute, apiBackend, gatewayCache, routeCache, backendCache>>
  BY DEF Relist, apiVars, cacheVars
<1>2. /\ edits \in Nat /\ edits' \in Nat /\ edits <= edits' /\ backendCache \in Nat /\ apiBackend \in Nat
      /\ \A g \in Gateways : /\ apiGateway[g] \in GatewayObjects \cup {Absent}
                             /\ gatewayCache[g] \in GatewayObjects \cup {Absent}
                             /\ gatewayEvents[g] \in Seq(GatewayObjects \cup {Absent, Tombstone})
      /\ \A r \in Routes : /\ apiRoute[r] \in RouteObjects \cup {Absent}
                           /\ routeCache[r] \in RouteObjects \cup {Absent}
                           /\ routeEvents[r] \in Seq(RouteObjects \cup {Absent, Tombstone})
  BY ConstantsTyped DEF TypeOK, Relist, Edit
<1>3. \A g \in Gateways : Chain(GatewayObjects, edits', apiGateway[g], gatewayEvents[g], gatewayCache[g])
  BY <1>2, ConstantsTyped, LaterKeepsChain DEF Chains
<1>4. \A r \in Routes : Chain(RouteObjects, edits', apiRoute[r], routeEvents[r], routeCache[r])
  BY <1>2, ConstantsTyped, LaterKeepsChain DEF Chains
<1>5. CASE gatewayEvents' = Relisted(apiGateway, gatewayCache) /\ UNCHANGED routeEvents
  <2> DEFINE e(g) == Relisted(apiGateway, gatewayCache)[g]
  <2>1. \A g \in Gateways :
          \/ apiGateway[g] # Absent /\ e(g) = <<apiGateway[g]>>
          \/ apiGateway[g] = Absent /\ gatewayCache[g] # Absent /\ e(g) = <<Tombstone>>
          \/ apiGateway[g] = Absent /\ gatewayCache[g] = Absent /\ e(g) = <<>>
    BY DEF Relisted, TypeOK
  <2> HIDE DEF e
  <2>2. \A g \in Gateways :
          /\ Chain(GatewayObjects, edits', apiGateway[g], e(g), gatewayCache[g])
          /\ e(g) \in Seq(GatewayObjects \cup {Absent, Tombstone})
          /\ \A k \in Nat : Floor(GatewayObjects, k, gatewayEvents[g], gatewayCache[g])
                              => Floor(GatewayObjects, k, e(g), gatewayCache[g])
    BY <2>1, <1>2, <1>3, ConstantsTyped, ListKeepsChain
  <2>3. /\ \A g \in Gateways : gatewayEvents'[g] = e(g)
        /\ gatewayEvents' = [g \in Gateways |-> e(g)]
    BY <1>5 DEF Relisted, TypeOK, e
  <2>4. gatewayEvents' \in [Gateways -> Seq(GatewayObjects \cup {Absent, Tombstone})]
    BY <2>2, <2>3
  <2>5. VersionStep
    BY <2>2, <2>3, <1>1, <1>2, <1>4, <1>5 DEF VersionStep, Chains, GatewayFloor, RouteFloor
  <2> QED  BY <2>1, <2>3, <2>4, <2>5, <1>5 DEF TypeOK
<1>6. CASE routeEvents' = Relisted(apiRoute, routeCache) /\ UNCHANGED gatewayEvents
  <2> DEFINE e(r) == Relisted(apiRoute, routeCache)[r]
  <2>1. \A r \in Routes :
          \/ apiRoute[r] # Absent /\ e(r) = <<apiRoute[r]>>
          \/ apiRoute[r] = Absent /\ routeCache[r] # Absent /\ e(r) = <<Tombstone>>
          \/ apiRoute[r] = Absent /\ routeCache[r] = Absent /\ e(r) = <<>>
    BY DEF Relisted, TypeOK
  <2> HIDE DEF e
  <2>2. \A r \in Routes :
          /\ Chain(RouteObjects, edits', apiRoute[r], e(r), routeCache[r])
          /\ e(r) \in Seq(RouteObjects \cup {Absent, Tombstone})
          /\ \A k \in Nat : Floor(RouteObjects, k, routeEvents[r], routeCache[r])
                              => Floor(RouteObjects, k, e(r), routeCache[r])
    BY <2>1, <1>2, <1>4, ConstantsTyped, ListKeepsChain
  <2>3. /\ \A r \in Routes : routeEvents'[r] = e(r)
        /\ routeEvents' = [r \in Routes |-> e(r)]
    BY <1>6 DEF Relisted, TypeOK, e
  <2>4. routeEvents' \in [Routes -> Seq(RouteObjects \cup {Absent, Tombstone})]
    BY <2>2, <2>3
  <2>5. VersionStep
    <3>1. Chains'
      BY <2>2, <2>3, <1>1, <1>2, <1>3, <1>6 DEF Chains
    <3>2. \A g \in Gateways, n \in Nat : GatewayFloor(g, n) => GatewayFloor(g, n)'
      BY <1>1, <1>2, <1>6 DEF GatewayFloor
    <3>3. \A r \in Routes, n \in Nat : RouteFloor(r, n) => RouteFloor(r, n)'
      BY <2>2, <2>3, <1>1, <1>2 DEF RouteFloor
    <3> QED  BY <3>1, <3>2, <3>3, <1>1, <1>2 DEF VersionStep
  <2> QED  BY <2>4, <2>5, <1>6 DEF TypeOK
<1> QED  BY <1>5, <1>6 DEF Relist

LEMMA StartStep ==
  ASSUME NEW Obj, IsObjects(Obj), NEW m \in Nat, NEW a \in Obj \cup {Absent},
         a \in Obj => a.spec <= m
  PROVE  LET e == IF a = Absent THEN <<>> ELSE <<a>>
         IN  Chain(Obj, m, a, e, Absent) /\ e \in Seq(Obj \cup {Absent, Tombstone})
<1>1. /\ \A s : Len(<<s>>) = 1 /\ <<s>>[1] = s /\ <<s>> # <<>> /\ 1..1 = {1}
      /\ Len(<<>>) = 0 /\ 1..0 = {}
  OBVIOUS
<1>2. CASE a = Absent
  <2>1. \A i \in 1..Len(<<>>) : FALSE
    BY <1>1
  <2> QED  BY <1>2, <2>1 DEF Chain, Newest, Stored, IsObjects
<1>3. CASE a # Absent
  <2>1. \A i \in 1..Len(<<a>>) : i = 1 /\ <<a>>[i] = a
    BY <1>1
  <2>2. \A i, j \in 1..Len(<<a>>) : ~(i < j)
    BY <2>1
  <2>3. Stored(Newest(<<a>>, Absent)) = a
    BY <1>1, <1>3 DEF Newest, Stored, IsObjects
  <2>4. a \in Obj /\ Absent \notin Obj /\ a \notin {Absent, Tombstone}
    BY <1>3 DEF IsObjects
  <2>5. Chain(Obj, m, a, <<a>>, Absent)
    BY <2>1, <2>2, <2>3, <2>4 DEF Chain
  <2> QED  BY <1>3, <2>5
<1> QED  BY <1>2, <1>3

----------------------------------------------------------------------------
(* What a step leaves alone keeps its part of the invariant.               *)
Locals == [gateway : GatewayObjects \cup {Absent}, fresh : BOOLEAN,
           contents : Contents \cup {Absent}, statuses : SUBSET (Routes \X Specs)]

SameButFresh(w) ==
  /\ work'[w].gateway = work[w].gateway
  /\ work'[w].contents = work[w].contents
  /\ work'[w].statuses = work[w].statuses

LEMMA FloorsHold ==
  ASSUME TypeOK, TypeOK', VersionStep
  PROVE  \A x \in Contents, g \in Gateways : Behind(x, g) => Behind(x, g)'
<1> SUFFICES ASSUME NEW x \in Contents, NEW g \in Gateways, Behind(x, g)
             PROVE  Behind(x, g)'
  OBVIOUS
<1>1. /\ x.spec \in Nat /\ x.backend \in Nat
      /\ \A b \in x.routes : b[1] \in Routes /\ b[2] \in Nat
      /\ backendCache \in Nat /\ backendCache' \in Nat
  <2>1. x.routes \subseteq Routes \X Specs /\ x.spec \in Nat /\ x.backend \in Nat
    BY ConstantsTyped
  <2>2. Specs \subseteq Nat
    BY ConstantsTyped
  <2> QED  BY <2>1, <2>2 DEF TypeOK
<1>2. GatewayFloor(g, x.spec)'
  BY <1>1 DEF Behind, VersionStep, GatewayFloor
<1>3. \A b \in x.routes : RouteFloor(b[1], b[2])'
  BY <1>1 DEF Behind, VersionStep, RouteFloor
<1>4. x.backend <= backendCache'
  BY <1>1 DEF Behind, VersionStep
<1> QED  BY <1>2, <1>3, <1>4 DEF Behind, OneVersion

LEMMA SnapshotsKept ==
  ASSUME IInv, TypeOK', VersionStep, UNCHANGED snapshot
  PROVE  SnapshotsBehind'
<1> SUFFICES ASSUME NEW g \in Gateways, snapshot'[g] # Absent
             PROVE  Behind(snapshot[g], g)'
  BY DEF SnapshotsBehind, Behind, OneVersion, GatewayFloor, RouteFloor
<1>1. snapshot[g] \in Contents /\ Behind(snapshot[g], g)
  BY DEF IInv, TypeOK, SnapshotsBehind
<1>2. PICK x \in Contents : x = snapshot[g] /\ x = snapshot'[g]
  BY <1>1
<1>3. Behind(x, g)'
  BY <1>1, <1>2, FloorsHold DEF IInv
<1> QED  BY <1>2, <1>3 DEF Behind, OneVersion, GatewayFloor, RouteFloor

LEMMA BusyHasGateway ==
  ASSUME IInv, NEW w \in Workers, pc[w] # "idle"
  PROVE  item[w] \in Gateways /\ item[w] \in q.processing /\ started
BY DEF IInv, TypeOK, LoopInv, Busy, Gateways

LEMMA WorkerKept ==
  ASSUME IInv, TypeOK', VersionStep, NEW w \in Workers,
         pc'[w] = pc[w], item'[w] = item[w], SameButFresh(w),
         item[w] \in Gateways => snapshot'[item[w]] = snapshot[item[w]]
  PROVE  WorkerBehind(w)'
<1>1. CASE pc[w] = "idle"
  BY <1>1 DEF WorkerBehind, Reading
<1>2. CASE pc[w] # "idle"
  <2>1. item[w] \in Gateways /\ snapshot'[item[w]] = snapshot[item[w]]
    BY <1>2, BusyHasGateway
  <2>2. /\ work[w] \in Locals /\ work'[w] \in Locals
        /\ snapshot[item[w]] \in Contents \cup {Absent}
        /\ WorkerBehind(w)
    BY <2>1 DEF IInv, TypeOK, Locals, WorkersBehind
  <2>3. PICK g \in Gateways : g = item[w] /\ g = item'[w]
    BY <2>1
  <2>4. CASE pc[w] \in Reading
    <3>1. PICK n \in Nat : n = work[w].gateway.spec /\ n = work'[w].gateway.spec
      <4>1. work[w].gateway \in GatewayObjects
        BY <2>2, <2>4 DEF Locals, WorkerBehind
      <4> QED  BY <4>1, ConstantsTyped DEF SameButFresh, IsObjects
    <3>2. GatewayFloor(g, n)
      BY <2>2, <2>3, <2>4, <3>1 DEF WorkerBehind
    <3>3. GatewayFloor(g, n)'
      BY <3>2 DEF VersionStep, GatewayFloor
    <3> QED  BY <2>1, <2>2, <2>3, <2>4, <3>1, <3>3
             DEF WorkerBehind, SameButFresh, GatewayFloor, Reading
  <2>5. CASE pc[w] = "push"
    <3>1. PICK x \in Contents : x = work[w].contents /\ x = work'[w].contents
      BY <2>2, <2>5 DEF WorkerBehind, Locals, SameButFresh
    <3>2. Behind(x, g)
      BY <2>2, <2>3, <2>5, <3>1 DEF WorkerBehind
    <3>3. Behind(x, g)'
      BY <3>2, FloorsHold DEF IInv
    <3> QED  BY <2>1, <2>2, <2>3, <2>5, <3>1, <3>3
             DEF WorkerBehind, SameButFresh, Behind, OneVersion, GatewayFloor, RouteFloor, Reading
  <2>6. CASE pc[w] \notin Reading \cup {"push"}
    BY <2>1, <2>2, <2>6 DEF WorkerBehind, SameButFresh, Reading
  <2> QED  BY <2>4, <2>5, <2>6
<1> QED  BY <1>1, <1>2

(* The queue changes, but no worker gets or gives back a key.              *)
LEMMA LoopKept ==
  ASSUME IInv, UNCHANGED <<pc, item>>, started => started',
         QueueInv(q'), q'.processing = q.processing, q'.closed = q.closed
  PROVE  LoopInv'
BY DEF IInv, LoopInv, Busy

LEMMA LoopMoves ==
  ASSUME IInv, NEW w \in Workers, pc[w] # "idle", NEW to, to # "idle",
         pc' = [pc EXCEPT ![w] = to], UNCHANGED <<item, started>>,
         QueueInv(q'), q'.processing = q.processing, q'.closed = q.closed
  PROVE  LoopInv'
<1>1. Busy' = Busy
  BY DEF IInv, TypeOK, Busy
<1> QED  BY <1>1 DEF IInv, LoopInv

LEMMA SteadyKept ==
  ASSUME IInv, UNCHANGED <<listing, started, gatewayCache, gatewayEvents, steady>>,
         \A g \in Gateways : apiGateway[g] # Absent => apiGateway'[g] # Absent,
         NoCleanupOfSteadyGateway'
  PROVE  SteadyInv'
BY DEF IInv, TypeOK, SteadyInv

LEMMA SteadyWrite ==
  ASSUME IInv, NEW g \in Gateways, NEW obj \in GatewayObjects \cup {Absent},
         UNCHANGED <<listing, started, gatewayCache>>, steady' \subseteq steady,
         obj = Absent => g \notin steady', NoCleanupOfSteadyGateway',
         \A h \in Gateways :
           /\ apiGateway'[h] = IF h = g THEN obj ELSE apiGateway[h]
           /\ gatewayEvents'[h] = IF h = g THEN Append(gatewayEvents[g], obj) ELSE gatewayEvents[h]
  PROVE  SteadyInv'
<1> SUFFICES ASSUME NEW h \in steady'
             PROVE  /\ apiGateway'[h] # Absent
                    /\ \A i \in 1..Len(gatewayEvents'[h]) : gatewayEvents'[h][i] \in GatewayObjects
                    /\ h \notin listing => gatewayCache[h] # Absent
  BY DEF IInv, SteadyInv
<1>1. h \in Gateways /\ h \in steady
  BY DEF IInv, TypeOK
<1>2. CASE h = g
  <2>1. obj # Absent /\ obj \in GatewayObjects
    BY <1>2
  <2>2. gatewayEvents[h] \in Seq(GatewayObjects \cup {Absent, Tombstone})
    BY <1>1 DEF IInv, TypeOK
  <2>3. \A i \in 1..Len(Append(gatewayEvents[h], obj)) :
          Append(gatewayEvents[h], obj)[i] \in GatewayObjects
    BY <2>1, <2>2, <1>1 DEF IInv, SteadyInv
  <2> QED  BY <2>1, <2>3, <1>1, <1>2 DEF IInv, SteadyInv
<1>3. CASE h # g
  BY <1>1, <1>3 DEF IInv, SteadyInv
<1> QED  BY <1>2, <1>3

LEMMA FreshKept ==
  ASSUME IInv,
         \A w \in Workers : work'[w].fresh => work[w].fresh /\ item'[w] = item[w],
         \A g \in Gateways : apiGateway[g] # Absent => apiGateway'[g] # Absent
  PROVE  FreshInv'
BY DEF IInv, FreshInv

LEMMA OutdatedLocals ==
  ASSUME TypeOK, NEW g \in Gateways
  PROVE  /\ Outdated(g) \in [Workers -> Locals]
         /\ \A w \in Workers :
              /\ Outdated(g)[w].gateway = work[w].gateway
              /\ Outdated(g)[w].contents = work[w].contents
              /\ Outdated(g)[w].statuses = work[w].statuses
              /\ Outdated(g)[w].fresh => work[w].fresh /\ item[w] # g
<1>1. \A w \in Workers : work[w] \in Locals
  BY DEF TypeOK, Locals
<1>2. ASSUME NEW w \in Workers
      PROVE  /\ Outdated(g)[w] \in Locals
             /\ Outdated(g)[w].gateway = work[w].gateway
             /\ Outdated(g)[w].contents = work[w].contents
             /\ Outdated(g)[w].statuses = work[w].statuses
             /\ Outdated(g)[w].fresh => work[w].fresh /\ item[w] # g
  <2>1. CASE item[w] = g
    <3>1. Outdated(g)[w] = [work[w] EXCEPT !.fresh = FALSE]
      BY <2>1 DEF Outdated
    <3> QED  BY <3>1, <1>1 DEF Locals
  <2>2. CASE item[w] # g
    BY <2>2, <1>1 DEF Outdated
  <2> QED  BY <2>1, <2>2
<1>3. Outdated(g) = [w \in Workers |-> Outdated(g)[w]]
  BY DEF Outdated
<1> QED  BY <1>2, <1>3

(* Users, informers and handlers leave the workers where they are.         *)
LEMMA OutsideStep ==
  ASSUME IInv, TypeOK', VersionStep, UNCHANGED <<pc, item, snapshot>>,
         \A w \in Workers : SameButFresh(w), FreshInv', LoopInv', SteadyInv'
  PROVE  IInv'
<1>1. \A w \in Workers : WorkerBehind(w)'
  BY WorkerKept
<1>2. SnapshotsBehind' /\ Chains'
  BY SnapshotsKept DEF VersionStep
<1> QED  BY <1>1, <1>2 DEF IInv, WorkersBehind

----------------------------------------------------------------------------
(* Users and the API server.                                               *)
LEMMA EditTyped ==
  ASSUME TypeOK, NEW kind, Edit(kind)
  PROVE  /\ edits' = edits + 1 /\ edits' \in Specs /\ edits <= edits'
         /\ edits + 1 \in Specs
BY ConstantsTyped DEF TypeOK, Edit, Specs

LEMMA RewrittenObjects ==
  ASSUME NEW n \in Specs
  PROVE  /\ \A o \in GatewayObjects : \A class \in {"ours", "other"} :
              /\ [o EXCEPT !.spec = n] \in GatewayObjects
              /\ [o EXCEPT !.spec = n].spec = n
              /\ [o EXCEPT !.spec = n, !.class = class] \in GatewayObjects
              /\ [o EXCEPT !.spec = n, !.class = class].spec = n
         /\ \A o \in RouteObjects : \A ps \in SUBSET Gateways :
              /\ [o EXCEPT !.spec = n] \in RouteObjects
              /\ [o EXCEPT !.spec = n].spec = n
              /\ [o EXCEPT !.spec = n, !.parents = ps] \in RouteObjects
              /\ [o EXCEPT !.spec = n, !.parents = ps].spec = n
<1>1. ASSUME NEW o \in GatewayObjects, NEW class \in {"ours", "other"}
      PROVE  /\ [o EXCEPT !.spec = n] \in GatewayObjects
             /\ [o EXCEPT !.spec = n].spec = n
             /\ [o EXCEPT !.spec = n, !.class = class] \in GatewayObjects
             /\ [o EXCEPT !.spec = n, !.class = class].spec = n
  BY <1>1 DEF GatewayObjects
<1>2. ASSUME NEW o \in RouteObjects, NEW ps \in SUBSET Gateways
      PROVE  /\ [o EXCEPT !.spec = n] \in RouteObjects
             /\ [o EXCEPT !.spec = n].spec = n
             /\ [o EXCEPT !.spec = n, !.parents = ps] \in RouteObjects
             /\ [o EXCEPT !.spec = n, !.parents = ps].spec = n
  BY <1>2 DEF RouteObjects
<1> QED  BY <1>1, <1>2

LEMMA EditGatewayPreserves ==
  ASSUME IInv, NEW g \in Gateways, EditGateway(g)
  PROVE  IInv'
<1>1. /\ edits' = edits + 1 /\ edits' \in Specs /\ edits <= edits'
      /\ UNCHANGED <<apiRoute, apiBackend, routeEvents, gatewayCache, routeCache, backendCache,
                     listing, adding, started, q, pc, item, snapshot, unnoticed, faults, restarts>>
      /\ work' = Outdated(g)
  BY EditTyped DEF EditGateway, cacheVars, IInv
<1>2. PICK obj \in GatewayObjects \cup {Absent} :
        /\ WriteGateway(g, obj)
        /\ obj = Absent => apiGateway[g] # Absent /\ steady' = steady \ {g}
        /\ obj # Absent => steady' = steady /\ obj.spec = edits'
  <2>1. \A class \in {"ours", "other"} :
          /\ NewGateway(class, edits + 1) \in GatewayObjects
          /\ NewGateway(class, edits + 1).spec = edits + 1
    BY <1>1 DEF NewGateway, GatewayObjects
  <2>2. ASSUME apiGateway[g] # Absent, NEW class \in {"ours", "other"}
        PROVE  /\ [apiGateway[g] EXCEPT !.spec = edits + 1, !.class = class] \in GatewayObjects
               /\ [apiGateway[g] EXCEPT !.spec = edits + 1, !.class = class].spec = edits + 1
               /\ [apiGateway[g] EXCEPT !.spec = edits + 1] \in GatewayObjects
               /\ [apiGateway[g] EXCEPT !.spec = edits + 1].spec = edits + 1
    <3>1. PICK o \in GatewayObjects : o = apiGateway[g]
      BY <2>2 DEF IInv, TypeOK
    <3>2. PICK n \in Specs : n = edits + 1
      BY <1>1
    <3> QED  BY <2>2, <3>1, <3>2, RewrittenObjects
  <2>3. Absent \notin GatewayObjects
    BY MarksAssumption
  <2>4. CASE apiGateway[g] = Absent /\ UNCHANGED steady
             /\ (WriteGateway(g, NewGateway("ours", edits + 1))
                 \/ WriteGateway(g, NewGateway("other", edits + 1)))
    BY <1>1, <2>1, <2>3, <2>4
  <2>5. CASE apiGateway[g] # Absent /\ UNCHANGED steady
             /\ WriteGateway(g, [apiGateway[g] EXCEPT !.spec = edits + 1])
    <3>1. [apiGateway[g] EXCEPT !.spec = edits + 1] \in GatewayObjects
          /\ [apiGateway[g] EXCEPT !.spec = edits + 1].spec = edits + 1
      BY <2>2, <2>5
    <3> QED  BY <1>1, <2>3, <2>5, <3>1
  <2>6. CASE /\ apiGateway[g] # Absent /\ UNCHANGED steady
             /\ \E class \in {"ours", "other"} \ {apiGateway[g].class} :
                  WriteGateway(g, [apiGateway[g] EXCEPT !.spec = edits + 1, !.class = class])
    BY <1>1, <2>2, <2>3, <2>6
  <2>7. CASE apiGateway[g] # Absent /\ WriteGateway(g, Absent) /\ steady' = steady \ {g}
    BY <2>7
  <2> QED  BY <2>4, <2>5, <2>6, <2>7 DEF EditGateway
<1>3. /\ VersionStep
      /\ apiGateway' \in [Gateways -> GatewayObjects \cup {Absent}]
      /\ gatewayEvents' \in [Gateways -> Seq(GatewayObjects \cup {Absent, Tombstone})]
      /\ \A h \in Gateways :
           /\ apiGateway'[h] = IF h = g THEN obj ELSE apiGateway[h]
           /\ gatewayEvents'[h] = IF h = g THEN Append(gatewayEvents[g], obj) ELSE gatewayEvents[h]
  BY <1>1, <1>2, GatewayWriteStep DEF IInv
<1>4. steady' \subseteq steady /\ (obj = Absent => g \notin steady')
  BY <1>2, MarksAssumption
<1>5. TypeOK'
  BY <1>1, <1>3, <1>4, OutdatedLocals DEF IInv, TypeOK, Locals
<1>6. FreshInv'
  <2> SUFFICES ASSUME NEW w \in Workers, work'[w].fresh
               PROVE  item[w] \in Gateways /\ apiGateway'[item[w]] # Absent
    BY <1>1 DEF FreshInv
  <2>1. work[w].fresh /\ item[w] # g
    BY <1>1, OutdatedLocals DEF IInv
  <2> QED  BY <2>1, <1>3 DEF IInv, FreshInv
<1>7. LoopInv'
  BY <1>1, LoopKept DEF IInv, LoopInv
<1>8. SteadyInv'
  <2>1. NoCleanupOfSteadyGateway'
    BY <1>1, <1>4 DEF IInv, SteadyInv, NoCleanupOfSteadyGateway
  <2> QED  BY <1>1, <1>3, <1>4, <2>1, SteadyWrite
<1>9. \A w \in Workers : SameButFresh(w)
  BY <1>1, OutdatedLocals DEF SameButFresh, IInv
<1> QED  BY <1>1, <1>3, <1>5, <1>6, <1>7, <1>8, <1>9, OutsideStep

LEMMA EditRoutePreserves ==
  ASSUME IInv, NEW r \in Routes, EditRoute(r)
  PROVE  IInv'
<1>1. /\ edits' = edits + 1 /\ edits' \in Specs /\ edits <= edits'
      /\ UNCHANGED <<apiGateway, apiBackend, gatewayEvents, gatewayCache, routeCache, backendCache,
                     listing, adding, started, q, pc, item, work, snapshot, steady, unnoticed,
                     faults, restarts>>
  BY EditTyped DEF EditRoute, cacheVars, workerVars, historyVars, IInv
<1>2. PICK obj \in RouteObjects \cup {Absent} :
        /\ WriteRoute(r, obj)
        /\ obj = Absent => apiRoute[r] # Absent
        /\ obj # Absent => obj.spec = edits'
  <2>1. \A ps \in SUBSET Gateways : /\ NewRoute(ps, edits + 1) \in RouteObjects
                                    /\ NewRoute(ps, edits + 1).spec = edits + 1
    BY <1>1 DEF NewRoute, RouteObjects, RouteStatuses
  <2>2. ASSUME apiRoute[r] # Absent, NEW ps \in SUBSET Gateways
        PROVE  /\ [apiRoute[r] EXCEPT !.spec = edits + 1, !.parents = ps] \in RouteObjects
               /\ [apiRoute[r] EXCEPT !.spec = edits + 1, !.parents = ps].spec = edits + 1
               /\ [apiRoute[r] EXCEPT !.spec = edits + 1] \in RouteObjects
               /\ [apiRoute[r] EXCEPT !.spec = edits + 1].spec = edits + 1
    <3>1. PICK o \in RouteObjects : o = apiRoute[r]
      BY <2>2 DEF IInv, TypeOK
    <3>2. PICK n \in Specs : n = edits + 1
      BY <1>1
    <3>3. /\ [o EXCEPT !.spec = n, !.parents = ps] \in RouteObjects
          /\ [o EXCEPT !.spec = n, !.parents = ps].spec = n
          /\ [o EXCEPT !.spec = n] \in RouteObjects
          /\ [o EXCEPT !.spec = n].spec = n
      BY RewrittenObjects
    <3> QED  BY <3>1, <3>2, <3>3
  <2>3. Absent \notin RouteObjects
    BY MarksAssumption
  <2>4. CASE \E ps \in SUBSET Gateways : WriteRoute(r, NewRoute(ps, edits + 1))
    BY <1>1, <2>1, <2>3, <2>4
  <2>5. CASE apiRoute[r] # Absent /\ WriteRoute(r, [apiRoute[r] EXCEPT !.spec = edits + 1])
    <3>1. [apiRoute[r] EXCEPT !.spec = edits + 1] \in RouteObjects
          /\ [apiRoute[r] EXCEPT !.spec = edits + 1].spec = edits + 1
      BY <2>2, <2>5
    <3> QED  BY <1>1, <2>3, <2>5, <3>1
  <2>6. CASE /\ apiRoute[r] # Absent
             /\ \E ps \in SUBSET Gateways \ {apiRoute[r].parents} :
                  WriteRoute(r, [apiRoute[r] EXCEPT !.spec = edits + 1, !.parents = ps])
    BY <1>1, <2>2, <2>3, <2>6
  <2>7. CASE apiRoute[r] # Absent /\ WriteRoute(r, Absent)
    BY <2>7
  <2> QED  BY <2>4, <2>5, <2>6, <2>7 DEF EditRoute
<1>3. /\ VersionStep
      /\ apiRoute' \in [Routes -> RouteObjects \cup {Absent}]
      /\ routeEvents' \in [Routes -> Seq(RouteObjects \cup {Absent, Tombstone})]
  BY <1>1, <1>2, RouteWriteStep DEF IInv
<1>4. TypeOK'
  BY <1>1, <1>3 DEF IInv, TypeOK
<1>5. FreshInv' /\ LoopInv' /\ NoCleanupOfSteadyGateway'
  BY <1>1, FreshKept, LoopKept DEF IInv, LoopInv, SteadyInv, NoCleanupOfSteadyGateway
<1>6. SteadyInv'
  BY <1>1, <1>5, SteadyKept
<1> QED  BY <1>1, <1>3, <1>4, <1>5, <1>6, OutsideStep DEF SameButFresh

LEMMA EditBackendPreserves ==
  ASSUME IInv, EditBackend
  PROVE  IInv'
<1>1. /\ edits' = edits + 1 /\ edits' \in Specs /\ edits <= edits' /\ apiBackend' = edits'
      /\ UNCHANGED <<apiGateway, apiRoute, gatewayEvents, routeEvents, gatewayCache, routeCache,
                     backendCache, listing, adding, started, q, pc, item, work, snapshot, steady,
                     unnoticed, faults, restarts>>
  BY EditTyped DEF EditBackend, cacheVars, workerVars, historyVars, watchVars, IInv
<1>2. TypeOK'
  BY <1>1 DEF IInv, TypeOK
<1>3. /\ edits \in Nat /\ edits' \in Nat /\ backendCache \in Nat /\ apiBackend \in Nat
      /\ \A g \in Gateways : gatewayEvents[g] \in Seq(GatewayObjects \cup {Absent, Tombstone})
      /\ \A r \in Routes : routeEvents[r] \in Seq(RouteObjects \cup {Absent, Tombstone})
  BY <1>1, ConstantsTyped DEF IInv, TypeOK
<1>4. \A g \in Gateways : Chain(GatewayObjects, edits', apiGateway[g], gatewayEvents[g], gatewayCache[g])
  BY <1>1, <1>3, ConstantsTyped, LaterKeepsChain DEF IInv, Chains
<1>5. \A r \in Routes : Chain(RouteObjects, edits', apiRoute[r], routeEvents[r], routeCache[r])
  BY <1>1, <1>3, ConstantsTyped, LaterKeepsChain DEF IInv, Chains
<1>6. Chains'
  BY <1>1, <1>3, <1>4, <1>5 DEF IInv, Chains
<1>7. VersionStep
  BY <1>1, <1>3, <1>6 DEF VersionStep, GatewayFloor, RouteFloor
<1>8. FreshInv' /\ LoopInv' /\ NoCleanupOfSteadyGateway'
  BY <1>1, FreshKept, LoopKept DEF IInv, LoopInv, SteadyInv, NoCleanupOfSteadyGateway
<1>9. SteadyInv'
  BY <1>1, <1>8, SteadyKept
<1> QED  BY <1>1, <1>2, <1>7, <1>8, <1>9, OutsideStep DEF SameButFresh

LEMMA RelistPreserves ==
  ASSUME IInv, Relist
  PROVE  IInv'
<1>1. /\ edits' = edits + 1 /\ edits' \in Specs /\ edits <= edits' /\ listing = {}
      /\ UNCHANGED <<apiGateway, apiRoute, apiBackend, gatewayCache, routeCache,
                     backendCache, listing, adding, started, q, pc, item, work, snapshot, steady,
                     unnoticed, faults, restarts>>
  BY EditTyped DEF Relist, apiVars, cacheVars, workerVars, historyVars, IInv
<1>2. /\ VersionStep
      /\ gatewayEvents' \in [Gateways -> Seq(GatewayObjects \cup {Absent, Tombstone})]
      /\ routeEvents' \in [Routes -> Seq(RouteObjects \cup {Absent, Tombstone})]
      /\ \A g \in Gateways : \/ gatewayEvents'[g] = gatewayEvents[g]
                             \/ apiGateway[g] = Absent
                             \/ gatewayEvents'[g] = <<apiGateway[g]>>
  BY RelistStep DEF IInv
<1>3. TypeOK'
  BY <1>1, <1>2 DEF IInv, TypeOK
<1>4. FreshInv' /\ LoopInv' /\ NoCleanupOfSteadyGateway'
  BY <1>1, FreshKept, LoopKept DEF IInv, LoopInv, SteadyInv, NoCleanupOfSteadyGateway
<1>5. SteadyInv'
  <2>1. ASSUME NEW g \in steady
        PROVE  \A i \in 1..Len(gatewayEvents'[g]) : gatewayEvents'[g][i] \in GatewayObjects
    <3>1. g \in Gateways /\ apiGateway[g] \in GatewayObjects
      BY DEF IInv, TypeOK, SteadyInv
    <3>2. CASE gatewayEvents'[g] = gatewayEvents[g]
      BY <3>2 DEF IInv, SteadyInv
    <3>3. CASE gatewayEvents'[g] = <<apiGateway[g]>>
      BY <3>1, <3>3
    <3> QED  BY <3>1, <3>2, <3>3, <1>2, MarksAssumption
  <2> QED  BY <2>1, <1>1, <1>4 DEF IInv, SteadyInv
<1> QED  BY <1>1, <1>2, <1>3, <1>4, <1>5, OutsideStep DEF SameButFresh

----------------------------------------------------------------------------
(* Informers, handlers and timers.                                         *)
LEMMA DeliverGatewayPreserves ==
  ASSUME IInv, NEW g \in Gateways, DeliverGateway(g)
  PROVE  IInv'
<1>1. /\ UNCHANGED <<apiGateway, apiRoute, apiBackend, routeEvents, routeCache, backendCache,
                     started, q, pc, item, work, snapshot, steady, edits, faults, restarts>>
      /\ gatewayEvents[g] # <<>>
      /\ listing' = listing \ {g}
  BY DEF DeliverGateway, apiVars, workerVars, boundVars
<1>2. /\ VersionStep
      /\ gatewayCache' \in [Gateways -> GatewayObjects \cup {Absent}]
      /\ gatewayEvents' \in [Gateways -> Seq(GatewayObjects \cup {Absent, Tombstone})]
      /\ \A h \in Gateways : h # g => /\ gatewayEvents'[h] = gatewayEvents[h]
                                      /\ gatewayCache'[h] = gatewayCache[h]
      /\ gatewayEvents'[g] = Tail(gatewayEvents[g])
      /\ gatewayCache'[g] = Stored(Head(gatewayEvents[g]))
  BY GatewayDeliveryStep DEF IInv
<1>3. adding' \subseteq Gateways /\ unnoticed' \in [Gateways -> SUBSET Routes]
  <2>1. GatewayKeys(g, Handled(gatewayCache[g], Head(gatewayEvents[g]))) \subseteq Gateways
    BY DEF GatewayKeys
  <2> QED  BY <2>1 DEF DeliverGateway, IInv, TypeOK
<1>4. TypeOK'
  BY <1>1, <1>2, <1>3 DEF IInv, TypeOK
<1>5. FreshInv' /\ LoopInv' /\ NoCleanupOfSteadyGateway'
  BY <1>1, FreshKept, LoopKept DEF IInv, LoopInv, SteadyInv, NoCleanupOfSteadyGateway
<1>6. SteadyInv'
  <2>1. ASSUME NEW h \in steady
        PROVE  /\ \A i \in 1..Len(gatewayEvents'[h]) : gatewayEvents'[h][i] \in GatewayObjects
               /\ h \notin listing' => gatewayCache'[h] # Absent
    <3>1. /\ h \in Gateways
          /\ gatewayEvents[h] \in Seq(GatewayObjects \cup {Absent, Tombstone})
          /\ \A i \in 1..Len(gatewayEvents[h]) : gatewayEvents[h][i] \in GatewayObjects
          /\ h \notin listing => gatewayCache[h] # Absent
      BY DEF IInv, TypeOK, SteadyInv
    <3>2. CASE h = g
      <4>1. /\ Len(gatewayEvents[g]) \in Nat \ {0}
            /\ Len(Tail(gatewayEvents[g])) = Len(gatewayEvents[g]) - 1
            /\ \A i \in 1..Len(Tail(gatewayEvents[g])) :
                 Tail(gatewayEvents[g])[i] = gatewayEvents[g][i + 1]
            /\ Head(gatewayEvents[g]) = gatewayEvents[g][1]
        BY <1>1, <3>1, <3>2, HeadTailProperties, EmptySeq
      <4>2. Head(gatewayEvents[g]) \in GatewayObjects
        BY <3>1, <3>2, <4>1
      <4>3. \A i \in 1..Len(Tail(gatewayEvents[g])) : i + 1 \in 1..Len(gatewayEvents[g])
        BY <4>1
      <4>4. Stored(Head(gatewayEvents[g])) # Absent
        BY <4>2, MarksAssumption DEF Stored
      <4>5. \A i \in 1..Len(Tail(gatewayEvents[g])) : Tail(gatewayEvents[g])[i] \in GatewayObjects
        BY <3>1, <3>2, <4>1, <4>3
      <4> QED  BY <1>2, <3>2, <4>4, <4>5
    <3>3. CASE h # g
      BY <1>1, <1>2, <3>1, <3>3
    <3> QED  BY <3>2, <3>3
  <2>2. started' => listing' = {}
    BY <1>1 DEF IInv, SteadyInv
  <2> QED  BY <1>1, <1>5, <2>1, <2>2 DEF IInv, SteadyInv
<1> QED  BY <1>1, <1>2, <1>4, <1>5, <1>6, OutsideStep DEF SameButFresh

LEMMA DeliverRoutePreserves ==
  ASSUME IInv, NEW r \in Routes, DeliverRoute(r)
  PROVE  IInv'
<1>1. /\ UNCHANGED <<apiGateway, apiRoute, apiBackend, gatewayEvents, gatewayCache, backendCache,
                     started, q, pc, item, work, snapshot, steady, edits, faults, restarts>>
      /\ listing' = listing \ {r}
  BY DEF DeliverRoute, apiVars, workerVars, boundVars
<1>2. /\ VersionStep
      /\ routeCache' \in [Routes -> RouteObjects \cup {Absent}]
      /\ routeEvents' \in [Routes -> Seq(RouteObjects \cup {Absent, Tombstone})]
      /\ RouteKeys(Handled(routeCache[r], Head(routeEvents[r]))) \subseteq Gateways
  BY RouteDeliveryStep DEF IInv
<1>3. adding' \subseteq Gateways /\ unnoticed' \in [Gateways -> SUBSET Routes]
  BY <1>2 DEF DeliverRoute, IInv, TypeOK
<1>4. TypeOK'
  BY <1>1, <1>2, <1>3 DEF IInv, TypeOK
<1>5. FreshInv' /\ LoopInv' /\ NoCleanupOfSteadyGateway'
  BY <1>1, FreshKept, LoopKept DEF IInv, LoopInv, SteadyInv, NoCleanupOfSteadyGateway
<1>6. SteadyInv'
  <2>1. \A g \in steady : g # r
    BY ConstantsTyped DEF IInv, TypeOK
  <2> QED  BY <1>1, <1>5, <2>1 DEF IInv, SteadyInv
<1> QED  BY <1>1, <1>2, <1>4, <1>5, <1>6, OutsideStep DEF SameButFresh

LEMMA QueueStepPreserves ==
  ASSUME IInv, QueueInv(q'), q'.processing = q.processing, q'.closed = q.closed,
         adding' \subseteq adding,
         UNCHANGED <<apiVars, watchVars, gatewayCache, routeCache, backendCache, listing, started,
                     workerVars, snapshot, historyVars, boundVars>>
  PROVE  IInv'
<1>1. UNCHANGED <<apiGateway, apiRoute, apiBackend, gatewayEvents, routeEvents, gatewayCache,
                  routeCache, backendCache, listing, started, pc, item, work, snapshot, steady,
                  unnoticed, edits, faults, restarts>>
  BY DEF apiVars, watchVars, workerVars, historyVars, boundVars
<1>2. TypeOK'
  BY <1>1 DEF IInv, TypeOK, QueueInv
<1>3. VersionStep
  BY VersionsKept DEF IInv, boundVars
<1>4. FreshInv' /\ LoopInv' /\ NoCleanupOfSteadyGateway'
  BY <1>1, FreshKept, LoopKept DEF IInv, SteadyInv, NoCleanupOfSteadyGateway
<1>5. SteadyInv'
  BY <1>1, <1>4, SteadyKept
<1> QED  BY <1>1, <1>2, <1>3, <1>4, <1>5, OutsideStep DEF SameButFresh

LEMMA HandlerAddsPreserves ==
  ASSUME IInv, NEW g \in Gateways, HandlerAdds(g)
  PROVE  IInv'
<1>1. /\ QueueInv(q') /\ q'.processing = q.processing /\ q'.closed = q.closed
      /\ adding' \subseteq adding
  BY AddProperties DEF HandlerAdds, IInv, LoopInv, Gateways
<1> QED  BY <1>1, QueueStepPreserves DEF HandlerAdds

LEMMA ReleaseDelayedPreserves ==
  ASSUME IInv, NEW g \in Gateways, ReleaseDelayed(g)
  PROVE  IInv'
<1>1. QueueInv(q') /\ q'.processing = q.processing /\ q'.closed = q.closed
  BY ReleaseProperties DEF ReleaseDelayed, IInv, LoopInv
<1> QED  BY <1>1, QueueStepPreserves DEF ReleaseDelayed, cacheVars

LEMMA DeliverBackendPreserves ==
  ASSUME IInv, DeliverBackend
  PROVE  IInv'
<1>1. /\ UNCHANGED <<apiGateway, apiRoute, apiBackend, gatewayEvents, routeEvents, gatewayCache,
                     routeCache, listing, adding, started, q, pc, item, work, snapshot, steady,
                     unnoticed, edits, faults, restarts>>
      /\ backendCache' = apiBackend
  BY DEF DeliverBackend, apiVars, watchVars, workerVars, historyVars, boundVars
<1>2. TypeOK'
  BY <1>1 DEF IInv, TypeOK
<1>3. VersionStep
  <2>1. backendCache \in Nat /\ apiBackend \in Nat /\ edits \in Nat
    BY ConstantsTyped DEF IInv, TypeOK
  <2> QED  BY <1>1, <2>1 DEF IInv, VersionStep, Chains, GatewayFloor, RouteFloor
<1>4. FreshInv' /\ LoopInv' /\ NoCleanupOfSteadyGateway'
  BY <1>1, FreshKept, LoopKept DEF IInv, LoopInv, SteadyInv, NoCleanupOfSteadyGateway
<1>5. SteadyInv'
  BY <1>1, <1>4, SteadyKept
<1> QED  BY <1>1, <1>2, <1>3, <1>4, <1>5, OutsideStep DEF SameButFresh

LEMMA StartWorkersPreserves ==
  ASSUME IInv, StartWorkers
  PROVE  IInv'
<1>1. /\ UNCHANGED <<apiGateway, apiRoute, apiBackend, gatewayEvents, routeEvents, gatewayCache,
                     routeCache, backendCache, listing, adding, q, pc, item, work, snapshot, steady,
                     unnoticed, edits, faults, restarts>>
      /\ listing = {} /\ started' = TRUE
  BY DEF StartWorkers, HasSynced, apiVars, watchVars, cacheVars, workerVars, historyVars, boundVars
<1>2. TypeOK'
  BY <1>1 DEF IInv, TypeOK
<1>3. VersionStep
  BY <1>1, VersionsKept DEF IInv, apiVars, watchVars
<1>4. FreshInv' /\ LoopInv' /\ NoCleanupOfSteadyGateway'
  BY <1>1, FreshKept, LoopKept DEF IInv, LoopInv, SteadyInv, NoCleanupOfSteadyGateway
<1>5. SteadyInv'
  BY <1>1, <1>4 DEF IInv, SteadyInv
<1> QED  BY <1>1, <1>2, <1>3, <1>4, <1>5, OutsideStep DEF SameButFresh

----------------------------------------------------------------------------
(* Workers.                                                                *)
LEMMA InsideStep ==
  ASSUME IInv, NEW w \in Workers, TypeOK', VersionStep, SnapshotsBehind',
         \A v \in Workers \ {w} :
           /\ pc'[v] = pc[v] /\ item'[v] = item[v] /\ SameButFresh(v)
           /\ item[v] \in Gateways => snapshot'[item[v]] = snapshot[item[v]],
         WorkerBehind(w)', FreshInv', LoopInv', SteadyInv'
  PROVE  IInv'
<1>1. \A v \in Workers \ {w} : WorkerBehind(v)'
  BY WorkerKept
<1>2. \A v \in Workers : WorkerBehind(v)'
  BY <1>1
<1> QED  BY <1>2 DEF IInv, WorkersBehind, VersionStep

(* A step of syncHandler that writes nothing but the worker's locals.      *)
LEMMA SyncStep ==
  ASSUME IInv, NEW w \in Workers, pc[w] # "idle", NEW to \in PCs, to # "idle",
         to = "cleanup" => item[w] \notin steady,
         pc' = [pc EXCEPT ![w] = to],
         UNCHANGED <<apiVars, watchVars, cacheVars, started, item, snapshot, historyVars, edits, restarts>>,
         faults' \in 0..MaxFaults,
         QueueInv(q'), q'.processing = q.processing, q'.closed = q.closed,
         work' \in [Workers -> Locals], \A v \in Workers \ {w} : work'[v] = work[v],
         work'[w].fresh => work[w].fresh \/ apiGateway[item[w]] # Absent,
         WorkerBehind(w)'
  PROVE  IInv'
<1>1. UNCHANGED <<apiGateway, apiRoute, apiBackend, gatewayEvents, routeEvents, gatewayCache,
                  routeCache, backendCache, listing, adding, started, item, snapshot, steady,
                  unnoticed, edits, restarts>>
  BY DEF apiVars, watchVars, cacheVars, historyVars
<1>2. pc' \in [Workers -> PCs] /\ (\A v \in Workers \ {w} : pc'[v] = pc[v]) /\ pc'[w] = to
  BY DEF IInv, TypeOK
<1>3. TypeOK'
  BY <1>1, <1>2 DEF IInv, TypeOK, QueueInv, Locals
<1>4. VersionStep
  BY <1>1, VersionsKept DEF IInv, apiVars, watchVars
<1>5. SnapshotsBehind'
  BY <1>1, <1>3, <1>4, SnapshotsKept
<1>6. item[w] \in Gateways
  BY BusyHasGateway
<1>7. FreshInv'
  BY <1>1, <1>6 DEF IInv, FreshInv
<1>8. LoopInv'
  BY <1>1, LoopMoves
<1>9. NoCleanupOfSteadyGateway'
  BY <1>1, <1>2 DEF IInv, SteadyInv, NoCleanupOfSteadyGateway
<1>10. SteadyInv'
  BY <1>1, <1>9, SteadyKept
<1> QED  BY <1>1, <1>2, <1>3, <1>4, <1>5, <1>7, <1>8, <1>10, InsideStep DEF SameButFresh

LEMMA GetItemPreserves ==
  ASSUME IInv, NEW w \in Workers, GetItem(w)
  PROVE  IInv'
<1> DEFINE k == Head(q.queue)
<1>1. /\ UNCHANGED <<apiGateway, apiRoute, apiBackend, gatewayEvents, routeEvents, gatewayCache,
                     routeCache, backendCache, listing, adding, started, work, snapshot, steady,
                     unnoticed, edits, faults, restarts>>
      /\ started /\ pc[w] = "idle"
      /\ pc' = [pc EXCEPT ![w] = "lookup"] /\ item' = [item EXCEPT ![w] = k]
  BY DEF GetItem, apiVars, watchVars, cacheVars, historyVars, boundVars
<1>2. /\ QueueInv(q') /\ q'.processing = q.processing \cup {k} /\ q'.closed = q.closed
      /\ k \in Keys \ q.processing
  BY GetProperties DEF GetItem, IInv, LoopInv
<1>3. /\ \A v \in Workers \ {w} : pc'[v] = pc[v] /\ item'[v] = item[v]
      /\ pc'[w] = "lookup" /\ item'[w] = k
  BY <1>1 DEF IInv, TypeOK
<1>4. TypeOK'
  BY <1>1, <1>2 DEF IInv, TypeOK, PCs, SyncSteps, QueueInv
<1>5. VersionStep
  BY <1>1, VersionsKept DEF IInv, apiVars, watchVars
<1>6. SnapshotsBehind'
  BY <1>1, <1>4, <1>5, SnapshotsKept
<1>7. WorkerBehind(w)'
  BY <1>3 DEF WorkerBehind, Reading
<1>8. FreshInv'
  <2>1. item[w] = NoKey
    BY <1>1 DEF IInv, LoopInv, Busy
  <2>2. ~work[w].fresh
    BY <2>1, NamesAssumption DEF IInv, FreshInv, Gateways
  <2> QED  BY <1>1, <1>3, <2>2 DEF IInv, FreshInv
<1>9. LoopInv'
  <2>1. Busy' = Busy \cup {w}
    BY <1>1, <1>3 DEF Busy
  <2>2. \A v \in Busy : item'[v] = item[v] /\ item[v] \in q.processing
    BY <1>1, <1>3 DEF IInv, LoopInv, Busy
  <2>3. q'.processing = {item'[v] : v \in Busy'}
    BY <1>2, <1>3, <2>1, <2>2 DEF IInv, LoopInv
  <2>4. \A v \in Workers : v \in Busy' <=> item'[v] # NoKey
    <3>1. k # NoKey
      BY <1>2, NamesAssumption
    <3> QED  BY <3>1, <1>3, <2>1 DEF IInv, LoopInv, Busy
  <2>5. \A u, v \in Busy' : item'[u] = item'[v] => u = v
    BY <1>2, <1>3, <2>1, <2>2 DEF IInv, LoopInv
  <2>6. \A v \in Busy' : started'
    BY <1>1
  <2> QED  BY <1>2, <2>3, <2>4, <2>5, <2>6 DEF IInv, LoopInv
<1>10. NoCleanupOfSteadyGateway'
  BY <1>1, <1>3 DEF IInv, SteadyInv, NoCleanupOfSteadyGateway
<1>11. SteadyInv'
  BY <1>1, <1>10, SteadyKept
<1> QED  BY <1>1, <1>3, <1>4, <1>5, <1>6, <1>7, <1>8, <1>9, <1>11, InsideStep DEF SameButFresh

LEMMA FinishItemPreserves ==
  ASSUME IInv, NEW w \in Workers, FinishItem(w)
  PROVE  IInv'
<1>1. /\ UNCHANGED <<apiGateway, apiRoute, apiBackend, gatewayEvents, routeEvents, gatewayCache,
                     routeCache, backendCache, listing, adding, started, snapshot, steady,
                     unnoticed, edits, faults, restarts>>
      /\ pc[w] = "finishing" /\ pc' = [pc EXCEPT ![w] = "idle"]
      /\ item' = [item EXCEPT ![w] = NoKey] /\ work' = [work EXCEPT ![w] = NoWork]
      /\ q' = Done(q, item[w])
  BY DEF FinishItem, Step, apiVars, watchVars, cacheVars, historyVars, boundVars
<1>2. item[w] \in q.processing /\ w \in Busy
  BY <1>1, BusyHasGateway DEF Busy
<1>3. QueueInv(q') /\ q'.processing = q.processing \ {item[w]} /\ q'.closed = q.closed
  BY <1>1, <1>2, DoneProperties DEF IInv, LoopInv
<1>4. /\ \A v \in Workers \ {w} : pc'[v] = pc[v] /\ item'[v] = item[v] /\ work'[v] = work[v]
      /\ pc'[w] = "idle" /\ item'[w] = NoKey /\ work'[w] = NoWork
  BY <1>1 DEF IInv, TypeOK
<1>5. NoWork \in Locals
  BY DEF NoWork, Locals
<1>6. TypeOK'
  BY <1>1, <1>3, <1>5 DEF IInv, TypeOK, PCs, QueueInv, Locals
<1>7. VersionStep
  BY <1>1, VersionsKept DEF IInv, apiVars, watchVars
<1>8. SnapshotsBehind'
  BY <1>1, <1>6, <1>7, SnapshotsKept
<1>9. WorkerBehind(w)'
  BY <1>4 DEF WorkerBehind, Reading
<1>10. FreshInv'
  BY <1>1, <1>4, ConstantsTyped DEF IInv, FreshInv
<1>11. LoopInv'
  <2>1. Busy' = Busy \ {w}
    BY <1>4 DEF Busy
  <2>2. \A v \in Busy \ {w} : item'[v] = item[v] /\ item[v] # item[w]
    BY <1>2, <1>4 DEF IInv, LoopInv, Busy
  <2>3. q'.processing = {item'[v] : v \in Busy'}
    BY <1>3, <2>1, <2>2 DEF IInv, LoopInv
  <2>4. \A v \in Workers : v \in Busy' <=> item'[v] # NoKey
    BY <1>4, <2>1 DEF IInv, LoopInv, Busy
  <2>5. \A u, v \in Busy' : item'[u] = item'[v] => u = v
    BY <2>1, <2>2 DEF IInv, LoopInv
  <2>6. \A v \in Busy' : started'
    BY <1>1, <2>1 DEF IInv, LoopInv
  <2> QED  BY <1>3, <2>3, <2>4, <2>5, <2>6 DEF IInv, LoopInv
<1>12. NoCleanupOfSteadyGateway'
  BY <1>1, <1>4 DEF IInv, SteadyInv, NoCleanupOfSteadyGateway
<1>13. SteadyInv'
  BY <1>1, <1>12, SteadyKept
<1> QED  BY <1>1, <1>4, <1>6, <1>7, <1>8, <1>9, <1>10, <1>11, <1>13, InsideStep DEF SameButFresh

(* The steps of syncHandler.                                               *)
LEMMA SyncFacts ==
  ASSUME IInv, NEW w \in Workers, pc[w] # "idle"
  PROVE  /\ item[w] \in Gateways /\ started
         /\ work[w] \in Locals /\ work \in [Workers -> Locals]
         /\ faults \in 0..MaxFaults
         /\ QueueInv(q)
         /\ snapshot[item[w]] \in Contents \cup {Absent}
         /\ WorkerBehind(w)
<1>1. item[w] \in Gateways /\ started
  BY BusyHasGateway
<1> QED  BY <1>1 DEF IInv, TypeOK, LoopInv, WorkersBehind, Locals

LEMMA FailsPreserves ==
  ASSUME IInv, NEW w \in Workers, NEW from, from # "idle", NEW kind, Fails(w, from, kind)
  PROVE  IInv'
<1>1. pc[w] = from /\ pc' = [pc EXCEPT ![w] = "retry"] /\ "retry" \in PCs
  BY DEF Fails, Step, PCs, SyncSteps
<1>2. faults' \in 0..MaxFaults
  BY BoundsAssumption DEF Fails, Fault, IInv, TypeOK
<1>3. pc'[w] = "retry"
  BY <1>1 DEF IInv, TypeOK
<1>4. WorkerBehind(w)'
  BY <1>3 DEF WorkerBehind, Reading
<1> QED  BY <1>1, <1>2, <1>4, SyncFacts, SyncStep DEF Fails

LEMMA LookupPreserves ==
  ASSUME IInv, NEW w \in Workers, Lookup(w)
  PROVE  IInv'
<1> DEFINE g == item[w]
<1>1. /\ pc[w] = "lookup"
      /\ UNCHANGED <<apiVars, watchVars, cacheVars, started, q, item, snapshot, historyVars, boundVars>>
  BY DEF Lookup
<1>2. /\ g \in Gateways /\ started /\ work[w] \in Locals /\ work \in [Workers -> Locals]
      /\ faults \in 0..MaxFaults /\ QueueInv(q)
  BY <1>1, SyncFacts
<1>3. CASE gatewayCache[g] = Absent
  <2>1. pc' = [pc EXCEPT ![w] = "cleanup"] /\ UNCHANGED work /\ "cleanup" \in PCs
    BY <1>3 DEF Lookup, Step, PCs, SyncSteps
  <2>2. g \notin steady
    BY <1>2, <1>3 DEF IInv, SteadyInv
  <2>3. WorkerBehind(w)'
    <3>1. pc'[w] = "cleanup"
      BY <2>1 DEF IInv, TypeOK
    <3> QED  BY <3>1 DEF WorkerBehind, Reading
  <2> QED  BY <1>1, <1>2, <2>1, <2>2, <2>3, SyncStep DEF boundVars
<1>4. CASE gatewayCache[g] # Absent
  <2> DEFINE o == gatewayCache[g]
  <2>1. /\ pc' = [pc EXCEPT ![w] = "deploy"] /\ "deploy" \in PCs
        /\ work' = [work EXCEPT ![w].gateway = o, ![w].fresh = (gatewayEvents[g] = <<>>)]
    BY <1>4 DEF Lookup, Step, PCs, SyncSteps
  <2>2. o \in GatewayObjects /\ o.spec \in Nat /\ edits \in Nat
    BY <1>2, <1>4, ConstantsTyped DEF IInv, TypeOK, IsObjects
  <2>3. /\ work' \in [Workers -> Locals]
        /\ \A v \in Workers \ {w} : work'[v] = work[v]
        /\ work'[w].gateway = o
        /\ work'[w].fresh => gatewayEvents[g] = <<>>
    <3>1. work' = [work EXCEPT ![w] = [work[w] EXCEPT !.gateway = o, !.fresh = (gatewayEvents[g] = <<>>)]]
      BY <2>1, <1>2
    <3>2. CASE gatewayEvents[g] = <<>>
      <4>1. work' = [work EXCEPT ![w] = [work[w] EXCEPT !.gateway = o, !.fresh = TRUE]]
        BY <3>1, <3>2
      <4> QED  BY <1>2, <2>2, <3>2, <4>1 DEF Locals
    <3>3. CASE gatewayEvents[g] # <<>>
      <4>1. work' = [work EXCEPT ![w] = [work[w] EXCEPT !.gateway = o, !.fresh = FALSE]]
        BY <3>1, <3>3
      <4> QED  BY <1>2, <2>2, <3>3, <4>1 DEF Locals
    <3> QED  BY <3>2, <3>3
  <2>4. Chain(GatewayObjects, edits, apiGateway[g], gatewayEvents[g], o)
    BY <1>2 DEF IInv, Chains
  <2>5. work'[w].fresh => apiGateway[g] # Absent
    BY <2>2, <2>3, <2>4, MarksAssumption DEF Chain, Newest, Stored
  <2>6. GatewayFloor(g, o.spec)
    BY <2>2, <2>4 DEF GatewayFloor, Floor, Chain
  <2>7. snapshot[g] # Absent => snapshot[g].spec <= o.spec
    BY <1>2, <2>2 DEF IInv, SnapshotsBehind, Behind, GatewayFloor, Floor
  <2>8. WorkerBehind(w)'
    <3>1. pc'[w] = "deploy"
      BY <2>1 DEF IInv, TypeOK
    <3>2. o # Absent
      BY <1>4
    <3>3. UNCHANGED <<item, snapshot, gatewayEvents, gatewayCache, edits>>
      BY <1>1 DEF watchVars, cacheVars, boundVars
    <3> QED  BY <2>3, <2>6, <2>7, <3>1, <3>2, <3>3 DEF WorkerBehind, Reading, GatewayFloor
  <2> HIDE DEF o
  <2> QED  BY <1>1, <1>2, <2>1, <2>3, <2>5, <2>8, SyncStep DEF boundVars
<1> QED  BY <1>3, <1>4

LEMMA CleanupPreserves ==
  ASSUME IInv, NEW w \in Workers, Cleanup(w)
  PROVE  IInv'
<1>1. CASE Fails(w, "cleanup", "deploy")
  BY <1>1, FailsPreserves
<1>2. CASE /\ Step(w, "cleanup", "finishing")
           /\ UNCHANGED <<apiVars, watchVars, cacheVars, started, q, item, work, snapshot, historyVars,
                          boundVars>>
  <2>1. pc[w] = "cleanup" /\ pc' = [pc EXCEPT ![w] = "finishing"] /\ pc'[w] = "finishing"
    BY <1>2 DEF Step, IInv, TypeOK
  <2>2. WorkerBehind(w)' /\ "finishing" \in PCs
    BY <2>1 DEF WorkerBehind, Reading, PCs
  <2> QED  BY <1>2, <2>1, <2>2, SyncFacts, SyncStep DEF boundVars
<1> QED  BY <1>1, <1>2 DEF Cleanup

LEMMA DeployPreserves ==
  ASSUME IInv, NEW w \in Workers, Deploy(w)
  PROVE  IInv'
<1>1. CASE Fails(w, "deploy", "deploy")
  BY <1>1, FailsPreserves
<1>2. CASE /\ Step(w, "deploy", "translate")
           /\ UNCHANGED <<apiVars, watchVars, cacheVars, started, q, item, work, snapshot, historyVars,
                          boundVars>>
  <2>1. pc[w] = "deploy" /\ pc' = [pc EXCEPT ![w] = "translate"] /\ pc'[w] = "translate"
    BY <1>2 DEF Step, IInv, TypeOK
  <2>2. UNCHANGED <<item, work, snapshot, gatewayEvents, gatewayCache, edits>>
    BY <1>2 DEF watchVars, cacheVars, boundVars
  <2>3. WorkerBehind(w)' /\ "translate" \in PCs
    BY <2>1, <2>2, SyncFacts DEF WorkerBehind, Reading, PCs, SyncSteps, GatewayFloor
  <2> QED  BY <1>2, <2>1, <2>3, SyncFacts, SyncStep DEF boundVars
<1> QED  BY <1>1, <1>2 DEF Deploy

(* What a translation contains is cached now, except for the Gateway.      *)
LEMMA ContentsRead ==
  ASSUME IInv, NEW g \in Gateways, NEW o \in GatewayObjects, GatewayFloor(g, o.spec),
         NEW x, x = ContentsOf(g, o, routeCache, backendCache)
  PROVE  /\ x \in Contents
         /\ Behind(x, g)
         /\ snapshot[g] # Absent /\ snapshot[g].spec <= o.spec => NotOlder(x, snapshot[g])
<1> DEFINE attached == {r \in Routes : routeCache[r] # Absent /\ g \in routeCache[r].parents}
<1>1. /\ x.spec = o.spec /\ x.class = o.class
      /\ x.routes = {<<r, routeCache[r].spec>> : r \in attached}
      /\ x.backend = IF attached = {} THEN 0 ELSE backendCache
      /\ x = [class |-> x.class, spec |-> x.spec, routes |-> x.routes, backend |-> x.backend]
  BY DEF ContentsOf
<1>2. /\ \A r \in attached : routeCache[r] \in RouteObjects /\ routeCache[r].spec \in Specs
      /\ o.spec \in Specs /\ o.class \in {"ours", "other"}
      /\ backendCache \in Specs /\ 0 \in Specs /\ backendCache \in Nat
  BY ConstantsTyped DEF IInv, TypeOK, RouteObjects, GatewayObjects, Specs
<1>3. x \in Contents
  BY <1>1, <1>2 DEF Contents
<1>4. \A r \in attached : RouteFloor(r, routeCache[r].spec)
  <2> TAKE r \in attached
  <2>1. Chain(RouteObjects, edits, apiRoute[r], routeEvents[r], routeCache[r])
    BY DEF IInv, Chains
  <2>2. routeCache[r].spec \in Nat
    BY <1>2, ConstantsTyped
  <2> QED  BY <1>2, <2>1, <2>2 DEF RouteFloor, Floor, Chain
<1>5. \A b \in x.routes : b[1] \in attached /\ b[2] = routeCache[b[1]].spec
  BY <1>1
<1>6. Behind(x, g)
  <2>1. x.backend <= backendCache
    BY <1>1, <1>2
  <2>2. OneVersion(x)
    BY <1>5 DEF OneVersion
  <2> QED  BY <1>1, <1>4, <1>5, <2>1, <2>2 DEF Behind
<1>7. ASSUME snapshot[g] # Absent, snapshot[g].spec <= o.spec
      PROVE  NotOlder(x, snapshot[g])
  <2> DEFINE y == snapshot[g]
  <2>1. /\ y \in Contents /\ Behind(y, g)
        /\ y.spec \in Nat /\ y.backend \in Nat /\ o.spec \in Nat
    BY <1>7, <1>2, ConstantsTyped DEF IInv, TypeOK, SnapshotsBehind
  <2>2. ASSUME NEW a \in x.routes, NEW b \in y.routes, a[1] = b[1] PROVE a[2] >= b[2]
    <3>1. /\ a[1] \in attached /\ a[2] = routeCache[a[1]].spec
          /\ routeCache[a[1]] \in RouteObjects /\ a[2] \in Nat
      BY <1>5, <1>2, ConstantsTyped
    <3>2. b[2] \in Nat
      <4>1. y.routes \subseteq Routes \X Specs
        BY <2>1, ConstantsTyped
      <4> QED  BY <4>1, ConstantsTyped
    <3>3. RouteFloor(a[1], b[2])
      BY <2>1, <2>2 DEF Behind
    <3> QED  BY <3>1, <3>2, <3>3 DEF RouteFloor, Floor
  <2>3. x.routes # {} /\ y.routes # {} => x.backend >= y.backend
    BY <1>1, <1>2, <2>1 DEF Behind
  <2>4. x.spec >= y.spec
    BY <1>1, <1>7, <2>1
  <2> QED  BY <2>2, <2>3, <2>4 DEF NotOlder
<1> QED  BY <1>3, <1>6, <1>7

LEMMA TranslatePreserves ==
  ASSUME IInv, NEW w \in Workers, Translate(w)
  PROVE  IInv'
<1> DEFINE x == ContentsOf(item[w], work[w].gateway, routeCache, backendCache)
           to == IF Translatable(x) THEN "push" ELSE "errorStatus"
<1>1. /\ pc[w] = "translate" /\ pc' = [pc EXCEPT ![w] = to]
      /\ work' = [work EXCEPT ![w].contents = x, ![w].statuses = x.routes]
      /\ UNCHANGED <<apiVars, watchVars, cacheVars, started, q, item, snapshot, historyVars, boundVars>>
  BY DEF Translate, Step
<1>2. /\ item[w] \in Gateways /\ work[w] \in Locals /\ work \in [Workers -> Locals]
      /\ work[w].gateway \in GatewayObjects
      /\ GatewayFloor(item[w], work[w].gateway.spec)
      /\ snapshot[item[w]] # Absent => snapshot[item[w]].spec <= work[w].gateway.spec
  BY <1>1, SyncFacts DEF WorkerBehind, Reading, Locals
<1>3. /\ x \in Contents
      /\ Behind(x, item[w])
      /\ snapshot[item[w]] # Absent => NotOlder(x, snapshot[item[w]])
  <2>1. PICK o \in GatewayObjects : o = work[w].gateway
    BY <1>2
  <2>2. PICK g \in Gateways : g = item[w]
    BY <1>2
  <2>3. x = ContentsOf(g, o, routeCache, backendCache)
    BY <2>1, <2>2
  <2> HIDE DEF x
  <2> QED  BY <1>2, <2>1, <2>2, <2>3, ContentsRead
<1> HIDE DEF x
<1>4. x # Absent /\ x.routes \subseteq Routes \X Specs
  BY <1>3, ConstantsTyped
<1>5. /\ work' \in [Workers -> Locals]
      /\ \A v \in Workers \ {w} : work'[v] = work[v]
      /\ work'[w].contents = x /\ work'[w].statuses = x.routes
      /\ work'[w].fresh = work[w].fresh
  BY <1>1, <1>2, <1>3, <1>4 DEF Locals
<1>6. pc'[w] = to /\ to \in {"push", "errorStatus"}
  BY <1>1 DEF IInv, TypeOK
<1>7. UNCHANGED <<item, snapshot, gatewayEvents, gatewayCache, routeEvents, routeCache, backendCache, edits>>
  BY <1>1 DEF watchVars, cacheVars, boundVars
<1>8. WorkerBehind(w)'
  BY <1>3, <1>4, <1>5, <1>6, <1>7
  DEF WorkerBehind, Reading, Behind, OneVersion, GatewayFloor, RouteFloor
<1>9. to \in PCs /\ to # "idle" /\ to # "cleanup"
  BY DEF PCs, SyncSteps
<1> HIDE DEF to
<1> QED  BY <1>1, <1>5, <1>8, <1>9, SyncFacts, SyncStep DEF boundVars

LEMMA SucceedPreserves ==
  ASSUME IInv, NEW w \in Workers, Succeed(w)
  PROVE  IInv'
<1>1. pc[w] = "routeStatus" /\ pc' = [pc EXCEPT ![w] = "finishing"] /\ pc'[w] = "finishing"
  BY DEF Succeed, Step, IInv, TypeOK
<1>2. WorkerBehind(w)' /\ "finishing" \in PCs
  BY <1>1 DEF WorkerBehind, Reading, PCs
<1> QED  BY <1>1, <1>2, SyncFacts, SyncStep DEF Succeed, boundVars

LEMMA RetryPreserves ==
  ASSUME IInv, NEW w \in Workers, Retry(w)
  PROVE  IInv'
<1>1. pc[w] = "retry" /\ pc' = [pc EXCEPT ![w] = "finishing"] /\ pc'[w] = "finishing"
  BY DEF Retry, Step, IInv, TypeOK
<1>2. WorkerBehind(w)' /\ "finishing" \in PCs
  BY <1>1 DEF WorkerBehind, Reading, PCs
<1>3. QueueInv(q') /\ q'.processing = q.processing /\ q'.closed = q.closed
  BY <1>1, SyncFacts, AddRateLimitedProperties DEF Retry, Gateways
<1> QED  BY <1>1, <1>2, <1>3, SyncFacts, SyncStep DEF Retry, boundVars

LEMMA PushPreserves ==
  ASSUME IInv, NEW w \in Workers, Push(w)
  PROVE  IInv'
<1>1. CASE Fails(w, "push", "push")
  BY <1>1, FailsPreserves
<1>2. CASE /\ Step(w, "push", "gatewayStatus")
           /\ snapshot' = [snapshot EXCEPT ![item[w]] = work[w].contents]
           /\ UNCHANGED <<apiVars, watchVars, cacheVars, started, q, item, work, historyVars, boundVars>>
  <2>1. /\ UNCHANGED <<apiGateway, apiRoute, apiBackend, gatewayEvents, routeEvents, gatewayCache,
                       routeCache, backendCache, listing, adding, started, q, item, work, steady,
                       unnoticed, edits, faults, restarts>>
        /\ pc[w] = "push" /\ pc' = [pc EXCEPT ![w] = "gatewayStatus"]
    BY <1>2 DEF Step, apiVars, watchVars, cacheVars, historyVars, boundVars
  <2>2. /\ item[w] \in Gateways /\ work[w] \in Locals
        /\ work[w].contents \in Contents
        /\ Behind(work[w].contents, item[w])
        /\ work[w].statuses = work[w].contents.routes
    BY <2>1, SyncFacts DEF WorkerBehind, Locals
  <2>3. /\ pc'[w] = "gatewayStatus" /\ \A v \in Workers \ {w} : pc'[v] = pc[v]
        /\ snapshot'[item[w]] = work[w].contents
        /\ \A g \in Gateways \ {item[w]} : snapshot'[g] = snapshot[g]
    BY <1>2, <2>1, <2>2 DEF IInv, TypeOK
  <2>4. TypeOK'
    BY <1>2, <2>1, <2>2 DEF IInv, TypeOK, PCs, SyncSteps
  <2>5. VersionStep
    BY <2>1, VersionsKept DEF IInv, apiVars, watchVars
  <2>6. SnapshotsBehind'
    <3> SUFFICES ASSUME NEW g \in Gateways, snapshot'[g] # Absent
                 PROVE  Behind(snapshot[g], g)'
      BY DEF SnapshotsBehind, Behind, OneVersion, GatewayFloor, RouteFloor
    <3>1. PICK x : x = snapshot'[g]
      OBVIOUS
    <3>2. Behind(x, g)
      BY <2>2, <2>3, <3>1 DEF IInv, SnapshotsBehind
    <3> QED  BY <2>1, <3>1, <3>2 DEF Behind, OneVersion, GatewayFloor, RouteFloor
  <2>7. WorkerBehind(w)'
    BY <2>1, <2>2, <2>3, ConstantsTyped DEF WorkerBehind, Reading
  <2>8. FreshInv' /\ NoCleanupOfSteadyGateway'
    BY <2>1, <2>3, FreshKept DEF IInv, SteadyInv, NoCleanupOfSteadyGateway
  <2>9. LoopInv'
    BY <2>1, LoopMoves DEF IInv, LoopInv
  <2>10. SteadyInv'
    BY <2>1, <2>8, SteadyKept
  <2>11. \A v \in Workers \ {w} : item[v] \in Gateways => item[v] # item[w]
    BY <2>1, NamesAssumption DEF IInv, LoopInv, Busy, Gateways
  <2> QED  BY <2>1, <2>3, <2>4, <2>5, <2>6, <2>7, <2>8, <2>9, <2>10, <2>11, InsideStep
           DEF SameButFresh
<1> QED  BY <1>1, <1>2 DEF Push

LEMMA GatewayStatusPreserves ==
  ASSUME IInv, NEW w \in Workers, GatewayStatus(w)
  PROVE  IInv'
<1> DEFINE g == item[w]
<1>1. PICK to \in {"routeStatus", "retry"}, value \in {"True", "False"} :
        /\ pc' = [pc EXCEPT ![w] = to]
        /\ pc[w] = IF to = "routeStatus" THEN "gatewayStatus" ELSE "errorStatus"
        /\ SetProgrammed(w, value)
  BY DEF GatewayStatus, Step
<1>2. UNCHANGED <<apiRoute, apiBackend, routeEvents, gatewayCache, routeCache, backendCache, listing,
                  adding, started, q, item, snapshot, steady, unnoticed, edits, restarts>>
  BY DEF GatewayStatus, cacheVars, historyVars
<1>3. /\ g \in Gateways /\ work \in [Workers -> Locals] /\ faults \in 0..MaxFaults /\ QueueInv(q)
      /\ WorkerBehind(w) /\ pc[w] # "idle"
  BY <1>1, SyncFacts
<1>4. /\ to \in PCs /\ to # "idle" /\ to # "cleanup"
      /\ pc' \in [Workers -> PCs] /\ pc'[w] = to /\ \A v \in Workers \ {w} : pc'[v] = pc[v]
  BY <1>1 DEF IInv, TypeOK, PCs, SyncSteps
<1>5. ASSUME SameButFresh(w)
      PROVE  WorkerBehind(w)'
  BY <1>1, <1>2, <1>3, <1>4, <1>5 DEF WorkerBehind, Reading, SameButFresh
<1>6. CASE UNCHANGED <<apiGateway, gatewayEvents, work>> /\ faults' \in 0..MaxFaults
  <2>1. WorkerBehind(w)'
    BY <1>5, <1>6 DEF SameButFresh
  <2>2. UNCHANGED <<apiVars, watchVars, cacheVars, started, q, item, snapshot, historyVars, edits,
                    restarts>>
    BY <1>2, <1>6 DEF apiVars, watchVars, cacheVars, historyVars
  <2> QED  BY <1>1, <1>3, <1>4, <1>6, <2>1, <2>2, SyncStep
<1>7. CASE /\ work[w].fresh /\ UNCHANGED faults
           /\ WriteGateway(g, [apiGateway[g] EXCEPT !.programmed = value])
           /\ work' = Outdated(g)
  <2> DEFINE obj == [apiGateway[g] EXCEPT !.programmed = value]
  <2>1. obj \in GatewayObjects /\ obj.spec = apiGateway[g].spec /\ apiGateway[g] # Absent
    <3>1. apiGateway[g] \in GatewayObjects
      BY <1>3, <1>7 DEF IInv, TypeOK, FreshInv
    <3> QED  BY <3>1, MarksAssumption DEF GatewayObjects
  <2>2. obj # Absent /\ edits' \in Specs /\ edits <= edits'
    <3>1. edits \in Specs /\ edits \in Nat
      BY ConstantsTyped DEF IInv, TypeOK
    <3> QED  BY <1>2, <2>1, <3>1, MarksAssumption
  <2> HIDE DEF obj
  <2>3. /\ VersionStep
        /\ apiGateway' \in [Gateways -> GatewayObjects \cup {Absent}]
        /\ gatewayEvents' \in [Gateways -> Seq(GatewayObjects \cup {Absent, Tombstone})]
        /\ \A h \in Gateways :
             /\ apiGateway'[h] = IF h = g THEN obj ELSE apiGateway[h]
             /\ gatewayEvents'[h] = IF h = g THEN Append(gatewayEvents[g], obj) ELSE gatewayEvents[h]
    <3>1. WriteGateway(g, obj)
      BY <1>7 DEF obj
    <3> QED  BY <1>2, <1>3, <2>1, <2>2, <3>1, GatewayWriteStep DEF IInv
  <2>4. /\ work' \in [Workers -> Locals] /\ \A v \in Workers : SameButFresh(v)
        /\ \A v \in Workers : work'[v].fresh => work[v].fresh
    BY <1>3, <1>7, OutdatedLocals DEF IInv, SameButFresh
  <2>5. TypeOK'
    BY <1>2, <1>4, <1>7, <2>3, <2>4 DEF IInv, TypeOK, Locals
  <2>6. SnapshotsBehind' /\ WorkerBehind(w)'
    BY <1>2, <1>5, <2>3, <2>4, <2>5, SnapshotsKept
  <2>7. FreshInv'
    BY <1>2, <2>2, <2>3, <2>4, FreshKept
  <2>8. LoopInv'
    BY <1>1, <1>2, <1>3, <1>4, LoopMoves
  <2>9. NoCleanupOfSteadyGateway'
    BY <1>2, <1>4 DEF IInv, SteadyInv, NoCleanupOfSteadyGateway
  <2>10. SteadyInv'
    BY <1>2, <1>3, <2>1, <2>2, <2>3, <2>9, SteadyWrite
  <2> QED  BY <1>2, <1>4, <2>3, <2>4, <2>5, <2>6, <2>7, <2>8, <2>10, InsideStep
<1>8. Fault("status") => faults' \in 0..MaxFaults
  BY <1>3, BoundsAssumption DEF Fault
<1> QED  BY <1>1, <1>3, <1>6, <1>7, <1>8 DEF SetProgrammed

LEMMA RouteStatusPreserves ==
  ASSUME IInv, NEW w \in Workers, RouteStatus(w)
  PROVE  IInv'
<1>1. PICK entry \in work[w].statuses :
        LET r == entry[1]
            changed == [routeCache[r] EXCEPT !.status = StatusOf(r, item[w], entry[2])]
        IN  /\ Step(w, "routeStatus", "routeStatus")
            /\ work' = [work EXCEPT ![w].statuses = @ \ {entry}]
            /\ \/ /\ routeCache[r] # Absent /\ routeEvents[r] = <<>>
                  /\ WriteRoute(r, changed)
                  /\ UNCHANGED faults
               \/ /\ \/ routeCache[r] = Absent \/ routeEvents[r] # <<>>
                     \/ routeCache[r] # Absent /\ routeCache[r] = changed
                  /\ UNCHANGED <<apiRoute, routeEvents, faults>>
               \/ Fault("status") /\ UNCHANGED <<apiRoute, routeEvents>>
            /\ UNCHANGED <<apiGateway, apiBackend, gatewayEvents, cacheVars, started, q, item,
                           snapshot, historyVars, edits, restarts>>
  BY DEF RouteStatus
<1> DEFINE r == entry[1]
           changed == [routeCache[r] EXCEPT !.status = StatusOf(r, item[w], entry[2])]
<1>2. /\ UNCHANGED <<apiGateway, apiBackend, gatewayEvents, gatewayCache, routeCache, backendCache,
                     listing, adding, started, q, item, snapshot, steady, unnoticed, edits, restarts>>
      /\ pc[w] = "routeStatus" /\ pc' = [pc EXCEPT ![w] = "routeStatus"]
      /\ work' = [work EXCEPT ![w].statuses = @ \ {entry}]
  BY <1>1 DEF Step, cacheVars, historyVars
<1>3. /\ item[w] \in Gateways /\ work[w] \in Locals /\ work \in [Workers -> Locals]
      /\ faults \in 0..MaxFaults /\ QueueInv(q) /\ WorkerBehind(w)
      /\ r \in Routes /\ entry[2] \in Specs
  BY <1>1, <1>2, SyncFacts DEF Locals
<1>4. /\ work' \in [Workers -> Locals] /\ \A v \in Workers \ {w} : work'[v] = work[v]
      /\ work'[w].fresh = work[w].fresh /\ work'[w].statuses \subseteq work[w].statuses
  BY <1>2, <1>3 DEF Locals
<1>5. pc' = pc
  BY <1>2 DEF IInv, TypeOK
<1>6. WorkerBehind(w)'
  BY <1>2, <1>3, <1>4, <1>5 DEF WorkerBehind, Reading
<1>7. CASE UNCHANGED <<apiRoute, routeEvents>> /\ faults' \in 0..MaxFaults
  <2>1. UNCHANGED <<apiVars, watchVars, cacheVars, started, q, item, snapshot, historyVars, edits,
                    restarts>>
    BY <1>1, <1>2, <1>7 DEF apiVars, watchVars
  <2>2. "routeStatus" \in PCs
    BY DEF PCs, SyncSteps
  <2> QED  BY <1>2, <1>3, <1>4, <1>6, <1>7, <2>1, <2>2, SyncStep
<1>8. CASE routeCache[r] # Absent /\ routeEvents[r] = <<>> /\ WriteRoute(r, changed) /\ UNCHANGED faults
  <2>1. changed \in RouteObjects /\ changed.spec = routeCache[r].spec
    <3>1. routeCache[r] \in RouteObjects
      BY <1>3, <1>8 DEF IInv, TypeOK
    <3>2. StatusOf(r, item[w], entry[2]) \in RouteStatuses
      BY <1>3 DEF StatusOf, RouteStatuses
    <3> QED  BY <3>1, <3>2 DEF RouteObjects
  <2>2. apiRoute[r] = routeCache[r]
    <3>1. Chain(RouteObjects, edits, apiRoute[r], routeEvents[r], routeCache[r])
      BY <1>3 DEF IInv, Chains
    <3>2. routeCache[r] # Tombstone
      BY <1>3, <1>8, MarksAssumption DEF IInv, TypeOK
    <3> QED  BY <1>8, <3>1, <3>2 DEF Chain, Newest, Stored
  <2>3. changed # Absent /\ edits' \in Specs /\ edits <= edits'
    <3>1. edits \in Specs /\ edits \in Nat
      BY ConstantsTyped DEF IInv, TypeOK
    <3> QED  BY <1>2, <2>1, <3>1, MarksAssumption
  <2> HIDE DEF changed
  <2>4. /\ VersionStep
        /\ apiRoute' \in [Routes -> RouteObjects \cup {Absent}]
        /\ routeEvents' \in [Routes -> Seq(RouteObjects \cup {Absent, Tombstone})]
    BY <1>2, <1>3, <1>8, <2>1, <2>2, <2>3, RouteWriteStep DEF IInv
  <2>5. TypeOK'
    BY <1>2, <1>4, <1>5, <1>8, <2>4 DEF IInv, TypeOK, Locals
  <2>6. SnapshotsBehind'
    BY <1>2, <2>4, <2>5, SnapshotsKept
  <2>7. FreshInv' /\ LoopInv' /\ NoCleanupOfSteadyGateway'
    BY <1>2, <1>4, <1>5, FreshKept, LoopKept
    DEF IInv, LoopInv, SteadyInv, NoCleanupOfSteadyGateway
  <2>8. SteadyInv'
    BY <1>2, <2>7, SteadyKept
  <2> QED  BY <1>2, <1>4, <1>5, <1>6, <2>4, <2>5, <2>6, <2>7, <2>8, InsideStep DEF SameButFresh
<1>9. Fault("status") => faults' \in 0..MaxFaults
  BY <1>3, BoundsAssumption DEF Fault
<1> QED  BY <1>1, <1>3, <1>7, <1>8, <1>9

----------------------------------------------------------------------------
(* A start, the first one or a later one.                                  *)
LEMMA ListsTyped ==
  ASSUME NEW Obj, IsObjects(Obj), NEW m \in Nat, NEW S, NEW objects \in [S -> Obj \cup {Absent}],
         \A o \in S : objects[o] # Absent => objects[o].spec <= m
  PROVE  /\ ListOf(objects) \in [S -> Seq(Obj \cup {Absent, Tombstone})]
         /\ \A o \in S : Chain(Obj, m, objects[o], ListOf(objects)[o], Absent)
         /\ Existing(objects) \subseteq S
         /\ \A o \in Existing(objects) :
              /\ objects[o] # Absent
              /\ \A i \in 1..Len(ListOf(objects)[o]) : ListOf(objects)[o][i] \in Obj
         /\ \A o \in S : objects[o] # Absent => o \in Existing(objects)
<1>1. \A o \in S : ListOf(objects)[o] = IF objects[o] = Absent THEN <<>> ELSE <<objects[o]>>
  BY DEF ListOf
<1>2. \A o \in S : /\ Chain(Obj, m, objects[o], ListOf(objects)[o], Absent)
                   /\ ListOf(objects)[o] \in Seq(Obj \cup {Absent, Tombstone})
  <2> TAKE o \in S
  <2>1. objects[o] \in Obj => objects[o].spec <= m
    BY DEF IsObjects
  <2> QED  BY <1>1, <2>1, StartStep
<1>3. ListOf(objects) \in [S -> Seq(Obj \cup {Absent, Tombstone})]
  BY <1>2 DEF ListOf
<1>4. \A o \in Existing(objects) : \A i \in 1..Len(ListOf(objects)[o]) : ListOf(objects)[o][i] \in Obj
  <2> TAKE o \in Existing(objects)
  <2>1. objects[o] \in Obj /\ ListOf(objects)[o] = <<objects[o]>>
    BY <1>1 DEF Existing
  <2> QED  BY <2>1
<1> QED  BY <1>2, <1>3, <1>4 DEF Existing

LEMMA ApiVersions ==
  ASSUME TypeOK, Chains
  PROVE  /\ \A g \in Gateways : apiGateway[g] # Absent => apiGateway[g].spec <= edits
         /\ \A r \in Routes : apiRoute[r] # Absent => apiRoute[r].spec <= edits
<1>1. ASSUME NEW Obj, IsObjects(Obj), NEW a \in Obj \cup {Absent}, NEW e \in Seq(Obj \cup {Absent, Tombstone}),
             NEW c, Chain(Obj, edits, a, e, c), a # Absent
      PROVE  a.spec <= edits
  <2>1. Newest(e, c) = a /\ a \in Obj
    BY <1>1 DEF Chain, Stored, IsObjects
  <2>2. e # <<>> => Len(e) \in 1..Len(e)
    BY EmptySeq
  <2> QED  BY <2>1, <2>2, <1>1 DEF Chain, Newest
<1>2. ASSUME NEW g \in Gateways, apiGateway[g] # Absent PROVE apiGateway[g].spec <= edits
  BY <1>1, <1>2, ConstantsTyped DEF TypeOK, Chains
<1>3. ASSUME NEW r \in Routes, apiRoute[r] # Absent PROVE apiRoute[r].spec <= edits
  BY <1>1, <1>3, ConstantsTyped DEF TypeOK, Chains
<1> QED  BY <1>2, <1>3

LEMMA RestartPreserves ==
  ASSUME IInv, Restart
  PROVE  IInv'
<1>1. /\ UNCHANGED <<apiGateway, apiRoute, apiBackend, edits, faults>>
      /\ gatewayEvents' = ListOf(apiGateway) /\ routeEvents' = ListOf(apiRoute)
      /\ gatewayCache' = [g \in Gateways |-> Absent] /\ routeCache' = [r \in Routes |-> Absent]
      /\ backendCache' = apiBackend
      /\ listing' = Existing(apiGateway) \cup Existing(apiRoute)
      /\ started' = FALSE /\ adding' = {} /\ q' = EmptyQueue
      /\ pc' = [w \in Workers |-> "idle"] /\ item' = [w \in Workers |-> NoKey]
      /\ work' = [w \in Workers |-> NoWork] /\ snapshot' = [g \in Gateways |-> Absent]
      /\ steady' = Existing(apiGateway) /\ unnoticed' = [g \in Gateways |-> {}]
  BY DEF Restart, apiVars
<1>2. edits \in Nat /\ apiBackend \in Nat
  BY ConstantsTyped DEF IInv, TypeOK
<1>3. /\ gatewayEvents' \in [Gateways -> Seq(GatewayObjects \cup {Absent, Tombstone})]
      /\ \A g \in Gateways : Chain(GatewayObjects, edits, apiGateway[g], gatewayEvents'[g], Absent)
      /\ Existing(apiGateway) \subseteq Gateways
      /\ \A g \in Existing(apiGateway) :
           /\ apiGateway[g] # Absent
           /\ \A i \in 1..Len(gatewayEvents'[g]) : gatewayEvents'[g][i] \in GatewayObjects
  <2>1. IsObjects(GatewayObjects) /\ apiGateway \in [Gateways -> GatewayObjects \cup {Absent}]
        /\ \A g \in Gateways : apiGateway[g] # Absent => apiGateway[g].spec <= edits
    BY ConstantsTyped, ApiVersions DEF IInv, TypeOK
  <2>2. /\ ListOf(apiGateway) \in [Gateways -> Seq(GatewayObjects \cup {Absent, Tombstone})]
        /\ \A g \in Gateways : Chain(GatewayObjects, edits, apiGateway[g], ListOf(apiGateway)[g], Absent)
        /\ Existing(apiGateway) \subseteq Gateways
        /\ \A g \in Existing(apiGateway) :
             /\ apiGateway[g] # Absent
             /\ \A i \in 1..Len(ListOf(apiGateway)[g]) : ListOf(apiGateway)[g][i] \in GatewayObjects
    BY <2>1, <1>2, ListsTyped
  <2> QED  BY <2>2, <1>1
<1>4. /\ routeEvents' \in [Routes -> Seq(RouteObjects \cup {Absent, Tombstone})]
      /\ \A r \in Routes : Chain(RouteObjects, edits, apiRoute[r], routeEvents'[r], Absent)
      /\ Existing(apiRoute) \subseteq Routes
  BY <1>1, <1>2, ConstantsTyped, ApiVersions, ListsTyped DEF IInv, TypeOK
<1>5. QueueInv(q') /\ q'.processing = {} /\ ~q'.closed
  BY <1>1, EmptyQueueInv DEF EmptyQueue
<1>6. NoWork \in Locals /\ "idle" \in PCs
  BY DEF NoWork, Locals, PCs
<1>7. restarts' \in 0..MaxRestarts
  BY BoundsAssumption DEF Restart, IInv, TypeOK
<1>8. TypeOK'
  BY <1>1, <1>3, <1>4, <1>5, <1>6, <1>7 DEF IInv, TypeOK, QueueInv, Locals
<1>9. Chains'
  BY <1>1, <1>2, <1>3, <1>4 DEF IInv, Chains
<1>10. SnapshotsBehind' /\ WorkersBehind'
  BY <1>1 DEF SnapshotsBehind, WorkersBehind, WorkerBehind, Reading
<1>11. FreshInv'
  BY <1>1, ConstantsTyped DEF FreshInv
<1>12. LoopInv'
  <2>1. Busy' = {}
    BY <1>1 DEF Busy
  <2> QED  BY <1>1, <1>5, <2>1 DEF LoopInv
<1>13. SteadyInv'
  BY <1>1, <1>3 DEF SteadyInv, NoCleanupOfSteadyGateway
<1> QED  BY <1>8, <1>9, <1>10, <1>11, <1>12, <1>13 DEF IInv

LEMMA InitIInv == Init => IInv
<1> SUFFICES ASSUME Init PROVE IInv
  OBVIOUS
<1>1. 0 \in Specs /\ 0 \in Nat /\ 0 \in 0..MaxFaults /\ 0 \in 0..MaxRestarts /\ 0 <= 0
  BY BoundsAssumption DEF Specs
<1>2. /\ apiGateway \in [Gateways -> GatewayObjects \cup {Absent}]
      /\ \A g \in Gateways : apiGateway[g] # Absent => apiGateway[g].spec <= 0
  BY <1>1 DEF Init, NewGateway, GatewayObjects
<1>3. /\ apiRoute \in [Routes -> RouteObjects \cup {Absent}]
      /\ \A r \in Routes : apiRoute[r] # Absent => apiRoute[r].spec <= 0
  <2>1. \A ps \in SUBSET Gateways : NewRoute(ps, 0) \in RouteObjects /\ NewRoute(ps, 0).spec = 0
    BY <1>1 DEF NewRoute, RouteObjects, RouteStatuses
  <2> QED  BY <1>1, <2>1 DEF Init
<1>4. /\ gatewayEvents \in [Gateways -> Seq(GatewayObjects \cup {Absent, Tombstone})]
      /\ \A g \in Gateways : Chain(GatewayObjects, 0, apiGateway[g], gatewayEvents[g], Absent)
      /\ Existing(apiGateway) \subseteq Gateways
      /\ \A g \in Existing(apiGateway) :
           /\ apiGateway[g] # Absent
           /\ \A i \in 1..Len(gatewayEvents[g]) : gatewayEvents[g][i] \in GatewayObjects
  <2>1. IsObjects(GatewayObjects) /\ apiGateway \in [Gateways -> GatewayObjects \cup {Absent}]
        /\ \A g \in Gateways : apiGateway[g] # Absent => apiGateway[g].spec <= 0
    BY <1>2, ConstantsTyped
  <2>2. /\ ListOf(apiGateway) \in [Gateways -> Seq(GatewayObjects \cup {Absent, Tombstone})]
        /\ \A g \in Gateways : Chain(GatewayObjects, 0, apiGateway[g], ListOf(apiGateway)[g], Absent)
        /\ Existing(apiGateway) \subseteq Gateways
        /\ \A g \in Existing(apiGateway) :
             /\ apiGateway[g] # Absent
             /\ \A i \in 1..Len(ListOf(apiGateway)[g]) : ListOf(apiGateway)[g][i] \in GatewayObjects
    BY <2>1, <1>1, ListsTyped
  <2> QED  BY <2>2 DEF Init
<1>5. /\ routeEvents \in [Routes -> Seq(RouteObjects \cup {Absent, Tombstone})]
      /\ \A r \in Routes : Chain(RouteObjects, 0, apiRoute[r], routeEvents[r], Absent)
      /\ Existing(apiRoute) \subseteq Routes
  BY <1>1, <1>3, ConstantsTyped, ListsTyped DEF Init
<1>6. QueueInv(q) /\ q.processing = {} /\ ~q.closed
  BY EmptyQueueInv DEF Init, EmptyQueue
<1>7. NoWork \in Locals /\ "idle" \in PCs
  BY DEF NoWork, Locals, PCs
<1>8. TypeOK
  <2>1. /\ apiBackend \in Specs /\ backendCache \in Specs
        /\ gatewayCache \in [Gateways -> GatewayObjects \cup {Absent}]
        /\ routeCache \in [Routes -> RouteObjects \cup {Absent}]
        /\ listing \subseteq Gateways \cup Routes /\ started \in BOOLEAN /\ adding \subseteq Gateways
    BY <1>1, <1>4, <1>5 DEF Init
  <2>2. /\ pc \in [Workers -> PCs] /\ item \in [Workers -> Keys \cup {NoKey}]
        /\ work \in [Workers -> Locals] /\ q \in WorkQueues
    BY <1>6, <1>7 DEF Init, QueueInv
  <2>3. /\ snapshot \in [Gateways -> Contents \cup {Absent}] /\ steady \subseteq Gateways
        /\ unnoticed \in [Gateways -> SUBSET Routes]
        /\ edits \in Specs /\ faults \in 0..MaxFaults /\ restarts \in 0..MaxRestarts
    BY <1>1, <1>4 DEF Init
  <2> QED  BY <1>2, <1>3, <1>4, <1>5, <2>1, <2>2, <2>3 DEF TypeOK, Locals
<1>9. Chains
  BY <1>1, <1>4, <1>5 DEF Init, Chains
<1>10. SnapshotsBehind /\ WorkersBehind
  BY DEF Init, SnapshotsBehind, WorkersBehind, WorkerBehind, Reading
<1>11. FreshInv
  BY ConstantsTyped DEF Init, FreshInv
<1>12. LoopInv
  <2>1. Busy = {}
    BY DEF Init, Busy
  <2> QED  BY <1>6, <2>1 DEF Init, LoopInv
<1>13. SteadyInv
  BY <1>4 DEF Init, SteadyInv, NoCleanupOfSteadyGateway
<1> QED  BY <1>8, <1>9, <1>10, <1>11, <1>12, <1>13 DEF IInv

LEMMA StutterPreserves == IInv /\ UNCHANGED vars => IInv'
<1> SUFFICES ASSUME IInv, UNCHANGED vars PROVE IInv'
  OBVIOUS
<1>1. UNCHANGED <<apiVars, watchVars, gatewayCache, routeCache, backendCache, listing, started,
                  workerVars, snapshot, historyVars, boundVars, adding, q>>
  BY DEF vars, cacheVars
<1> QED  BY <1>1, QueueStepPreserves DEF IInv, LoopInv

LEMMA NextPreserves == IInv /\ [Next]_vars => IInv'
<1> SUFFICES ASSUME IInv, Next PROVE IInv'
  BY StutterPreserves
<1>1. ASSUME Environment PROVE IInv'
  BY <1>1, EditGatewayPreserves, EditRoutePreserves, EditBackendPreserves, RelistPreserves,
     RestartPreserves DEF Environment
<1>2. ASSUME NEW w \in Workers, Sync(w) PROVE IInv'
  BY <1>2, LookupPreserves, CleanupPreserves, DeployPreserves, TranslatePreserves, PushPreserves,
     GatewayStatusPreserves, RouteStatusPreserves, SucceedPreserves, RetryPreserves DEF Sync
<1>3. ASSUME System PROVE IInv'
  BY <1>2, <1>3, DeliverGatewayPreserves, HandlerAddsPreserves, ReleaseDelayedPreserves,
     DeliverRoutePreserves, DeliverBackendPreserves, StartWorkersPreserves, GetItemPreserves,
     FinishItemPreserves DEF System
<1> QED  BY <1>1, <1>3 DEF Next

LEMMA IInvHolds == Spec => []IInv
BY InitIInv, NextPreserves, PTL DEF Spec

(* Every variable keeps its type, for any number of edits and faults.      *)
THEOREM TypeCorrect == Spec => []TypeOK
<1>1. IInv => TypeOK
  BY DEF IInv
<1> QED  BY <1>1, IInvHolds, PTL

(* syncHandler never takes "not found" for a deletion while the caches are *)
(* still filling: Run awaits every informer before it starts a worker.     *)
THEOREM NoCleanupOfSteadyGatewayHolds == Spec => []NoCleanupOfSteadyGateway
<1>1. IInv => NoCleanupOfSteadyGateway
  BY DEF IInv, SteadyInv
<1> QED  BY <1>1, IInvHolds, PTL

----------------------------------------------------------------------------
(* What only two kinds of step may do: replace a snapshot, report on it.   *)
LEMMA SnapshotWriters ==
  ASSUME Next
  PROVE  UNCHANGED snapshot \/ Restart \/ \E w \in Workers : Push(w)
<1>1. ASSUME Environment PROVE UNCHANGED snapshot \/ Restart
  BY <1>1 DEF Environment, EditGateway, EditRoute, EditBackend, Relist
<1>2. ASSUME NEW w \in Workers, Sync(w) PROVE UNCHANGED snapshot \/ Push(w)
  BY <1>2 DEF Sync, Lookup, Cleanup, Fails, Deploy, Translate, GatewayStatus, RouteStatus,
              Succeed, Retry
<1>3. ASSUME System PROVE UNCHANGED snapshot \/ \E w \in Workers : Push(w)
  BY <1>2, <1>3 DEF System, DeliverGateway, HandlerAdds, ReleaseDelayed, DeliverRoute,
                    DeliverBackend, StartWorkers, GetItem, FinishItem
<1> QED  BY <1>1, <1>3 DEF Next

LEMMA StatusWriters ==
  ASSUME Next
  PROVE  \/ UNCHANGED apiRoute
         \/ \E r \in Routes : EditRoute(r)
         \/ \E w \in Workers : RouteStatus(w)
<1>1. ASSUME Environment PROVE UNCHANGED apiRoute \/ \E r \in Routes : EditRoute(r)
  BY <1>1 DEF Environment, EditGateway, EditBackend, Relist, Restart, apiVars
<1>2. ASSUME NEW w \in Workers, Sync(w) PROVE UNCHANGED apiRoute \/ RouteStatus(w)
  BY <1>2 DEF Sync, Lookup, Cleanup, Fails, Deploy, Translate, Push, GatewayStatus,
              Succeed, Retry, apiVars
<1>3. ASSUME System PROVE UNCHANGED apiRoute \/ \E w \in Workers : RouteStatus(w)
  BY <1>2, <1>3 DEF System, DeliverGateway, HandlerAdds, ReleaseDelayed, DeliverRoute,
                    DeliverBackend, StartWorkers, GetItem, FinishItem, apiVars
<1> QED  BY <1>1, <1>3 DEF Next

LEMMA SnapshotStep ==
  ASSUME IInv, [Next]_vars, NEW g \in Gateways, snapshot[g] # Absent, snapshot'[g] # Absent
  PROVE  NotOlder(snapshot'[g], snapshot[g])
<1>1. snapshot[g] \in Contents /\ Behind(snapshot[g], g)
  BY DEF IInv, TypeOK, SnapshotsBehind
<1>2. CASE UNCHANGED snapshot
  <2>1. PICK x \in Contents : x = snapshot[g]
    BY <1>1
  <2>2. /\ x.spec \in Nat /\ x.backend \in Nat
        /\ \A a \in x.routes : a[2] \in Nat
    <3>1. x.routes \subseteq Routes \X Specs /\ Specs \subseteq Nat
      BY ConstantsTyped
    <3> QED  BY <3>1, ConstantsTyped
  <2>3. \A a, b \in x.routes : a[1] = b[1] => a[2] = b[2]
    BY <1>1, <2>1 DEF Behind, OneVersion
  <2> QED  BY <1>2, <2>1, <2>2, <2>3 DEF NotOlder
<1>3. CASE Restart
  BY <1>3 DEF Restart
<1>4. ASSUME NEW w \in Workers, Push(w)
      PROVE  NotOlder(snapshot'[g], snapshot[g])
  <2>1. CASE UNCHANGED snapshot
    BY <1>2, <2>1
  <2>2. CASE pc[w] = "push" /\ snapshot' = [snapshot EXCEPT ![item[w]] = work[w].contents]
    <3>1. WorkerBehind(w) /\ item[w] \in Gateways
      BY <2>2, SyncFacts
    <3>2. CASE g = item[w]
      BY <2>2, <3>1, <3>2 DEF WorkerBehind, IInv, TypeOK
    <3>3. CASE g # item[w]
      <4>1. snapshot'[g] = snapshot[g]
        BY <2>2, <3>1, <3>3 DEF IInv, TypeOK
      <4>2. PICK x \in Contents : x = snapshot[g]
        BY <1>1
      <4>3. x.spec \in Nat /\ x.backend \in Nat /\ \A a \in x.routes : a[2] \in Nat
        <5>1. x.routes \subseteq Routes \X Specs /\ Specs \subseteq Nat
          BY ConstantsTyped
        <5> QED  BY <5>1, ConstantsTyped
      <4>4. \A a, b \in x.routes : a[1] = b[1] => a[2] = b[2]
        BY <1>1, <4>2 DEF Behind, OneVersion
      <4> QED  BY <4>1, <4>2, <4>3, <4>4 DEF NotOlder
    <3> QED  BY <3>2, <3>3
  <2> QED  BY <1>4, <2>1, <2>2 DEF Push, Step, Fails
<1>5. UNCHANGED vars => UNCHANGED snapshot
  BY DEF vars
<1> QED  BY <1>2, <1>3, <1>4, <1>5, SnapshotWriters

LEMMA StatusStep ==
  ASSUME IInv, [Next]_vars, NEW r \in Routes, apiRoute[r] # Absent, apiRoute'[r] # Absent,
         apiRoute'[r].status # apiRoute[r].status
  PROVE  Pushed(r, apiRoute'[r].status)
<1>1. apiRoute' # apiRoute
  OBVIOUS
<1>2. CASE \E s \in Routes : EditRoute(s)
  <2>1. PICK s \in Routes : EditRoute(s)
    BY <1>2
  <2>2. apiRoute[r] \in RouteObjects
    BY DEF IInv, TypeOK
  <2>3. CASE s = r
    <3>1. \/ apiRoute[r] = Absent
          \/ WriteRoute(r, [apiRoute[r] EXCEPT !.spec = edits + 1])
          \/ \E ps \in SUBSET Gateways :
               WriteRoute(r, [apiRoute[r] EXCEPT !.spec = edits + 1, !.parents = ps])
          \/ WriteRoute(r, Absent)
      BY <2>1, <2>3 DEF EditRoute
    <3>2. \A o : WriteRoute(r, o) => apiRoute'[r] = o
      BY DEF WriteRoute, IInv, TypeOK
    <3>3. [apiRoute[r] EXCEPT !.spec = edits + 1].status = apiRoute[r].status
      BY <2>2 DEF RouteObjects
    <3>4. \A ps \in SUBSET Gateways :
            [apiRoute[r] EXCEPT !.spec = edits + 1, !.parents = ps].status = apiRoute[r].status
      BY <2>2 DEF RouteObjects
    <3>5. CASE WriteRoute(r, [apiRoute[r] EXCEPT !.spec = edits + 1])
      BY <3>2, <3>3, <3>5
    <3>6. CASE \E ps \in SUBSET Gateways :
                 WriteRoute(r, [apiRoute[r] EXCEPT !.spec = edits + 1, !.parents = ps])
      BY <3>2, <3>4, <3>6
    <3> QED  BY <3>1, <3>2, <3>5, <3>6
  <2>4. CASE s # r
    <3>1. apiRoute'[r] = apiRoute[r]
      BY <2>1, <2>4 DEF EditRoute, WriteRoute, IInv, TypeOK
    <3> QED  BY <3>1
  <2> QED  BY <2>3, <2>4
<1>3. CASE \E w \in Workers : RouteStatus(w)
  <2>1. PICK w \in Workers : RouteStatus(w)
    BY <1>3
  <2>2. pc[w] = "routeStatus"
    BY <2>1 DEF RouteStatus, Step
  <2>3. PICK entry \in work[w].statuses :
          WriteRoute(entry[1], [routeCache[entry[1]] EXCEPT
                                  !.status = StatusOf(entry[1], item[w], entry[2])])
          /\ routeCache[entry[1]] # Absent
    BY <1>1, <2>1 DEF RouteStatus
  <2>4. /\ item[w] \in Gateways /\ entry[1] \in Routes /\ entry = <<entry[1], entry[2]>>
        /\ snapshot[item[w]] # Absent /\ entry \in snapshot[item[w]].routes
    BY <2>2, SyncFacts DEF Locals, WorkerBehind
  <2>5. /\ r = entry[1]
        /\ apiRoute'[r] = [routeCache[r] EXCEPT !.status = StatusOf(r, item[w], entry[2])]
    BY <2>3, <2>4 DEF WriteRoute, IInv, TypeOK
  <2>6. apiRoute'[r].status = StatusOf(r, item[w], entry[2])
    <3>1. routeCache[r] \in RouteObjects
      BY <2>3, <2>5 DEF IInv, TypeOK
    <3> QED  BY <2>5, <3>1 DEF RouteObjects
  <2> QED  BY <2>4, <2>5, <2>6 DEF Pushed, StatusOf
<1>4. UNCHANGED vars => UNCHANGED apiRoute
  BY DEF vars, apiVars
<1> QED  BY <1>1, <1>2, <1>3, <1>4, StatusWriters

(* However late events and workers are, a push never takes a node back to  *)
(* an older Gateway, an older route or older backends.                     *)
THEOREM SnapshotNeverRegressesHolds == Spec => SnapshotNeverRegresses
<1>1. IInv /\ [Next]_vars =>
        [\A g \in Gateways : snapshot[g] # Absent /\ snapshot'[g] # Absent
                               => NotOlder(snapshot'[g], snapshot[g])]_vars
  BY SnapshotStep
<1> QED  BY <1>1, IInvHolds, PTL DEF Spec, SnapshotNeverRegresses

(* A route is told that a Gateway accepted a version of it only while the  *)
(* snapshot of that Gateway's node has this very version.                  *)
THEOREM StatusAfterPushHolds == Spec => StatusAfterPush
<1>1. IInv /\ [Next]_vars =>
        [\A r \in Routes :
           apiRoute[r] # Absent /\ apiRoute'[r] # Absent /\ apiRoute'[r].status # apiRoute[r].status
             => Pushed(r, apiRoute'[r].status)]_vars
  BY StatusStep
<1> QED  BY <1>1, IInvHolds, PTL DEF Spec, StatusAfterPush

----------------------------------------------------------------------------
(* The controller's work loop is SyncLoop's.                               *)
Phase == [w \in Workers |-> IF pc[w] \in SyncSteps THEN "syncing" ELSE pc[w]]
LoopStep == [Loop!Next]_Loop!vars

LEMMA LoopInit == Init => Loop!Init
<1>1. "idle" \notin SyncSteps
  BY DEF SyncSteps
<1> QED  BY <1>1 DEF Init, Loop!Init, EmptyQueue, Loop!EmptyQueue

LEMMA LoopStutter ==
  ASSUME UNCHANGED <<q, pc, item>>
  PROVE  LoopStep
BY DEF LoopStep, Loop!vars

(* A worker goes from one step of syncHandler to another.                  *)
LEMMA LoopSyncs ==
  ASSUME TypeOK, NEW w \in Workers, pc[w] \in SyncSteps, NEW to \in SyncSteps,
         pc' = [pc EXCEPT ![w] = to], UNCHANGED <<q, item>>
  PROVE  LoopStep
<1>1. Phase' = Phase
  BY DEF Phase, TypeOK
<1> QED  BY <1>1 DEF LoopStep, Loop!vars, Phase

(* syncHandler returns.                                                    *)
LEMMA LoopReturns ==
  ASSUME TypeOK, NEW w \in Workers, pc[w] \in SyncSteps,
         pc' = [pc EXCEPT ![w] = "finishing"], UNCHANGED item,
         q' = q \/ q' = AddRateLimited(q, item[w])
  PROVE  LoopStep
<1>1. Phase[w] = "syncing" /\ Phase' = [Phase EXCEPT ![w] = "finishing"]
  <2>1. "finishing" \notin SyncSteps
    BY DEF SyncSteps
  <2>2. \A v \in Workers : Phase'[v] = IF v = w THEN "finishing" ELSE Phase[v]
    BY <2>1 DEF Phase, TypeOK
  <2>3. Phase' = [v \in Workers |-> Phase'[v]]
    BY DEF Phase
  <2> QED  BY <2>2, <2>3 DEF Phase
<1>2. CASE q' = q
  <2>1. Loop!SyncSucceeds(w)
    BY <1>1, <1>2 DEF Loop!SyncSucceeds, Phase
  <2> QED  BY <2>1 DEF LoopStep, Loop!Next
<1>3. CASE q' = AddRateLimited(q, item[w])
  <2>1. Loop!SyncFails(w)
    BY <1>1, <1>3 DEF Loop!SyncFails, Loop!AddRateLimited, AddRateLimited, Phase
  <2> QED  BY <2>1 DEF LoopStep, Loop!Next
<1> QED  BY <1>2, <1>3

LEMMA LoopSyncStep ==
  ASSUME IInv, NEW w \in Workers, Sync(w)
  PROVE  LoopStep
<1>1. TypeOK
  BY DEF IInv
<1>2. \A from, kind : Fails(w, from, kind) /\ from \in SyncSteps => LoopStep
  <2>1. "retry" \in SyncSteps
    BY DEF SyncSteps
  <2> QED  BY <1>1, <2>1, LoopSyncs DEF Fails, Step
<1>3. CASE Lookup(w)
  <2>1. /\ pc[w] \in SyncSteps /\ UNCHANGED <<q, item>>
        /\ \E to \in SyncSteps : pc' = [pc EXCEPT ![w] = to]
    BY <1>3 DEF Lookup, Step, SyncSteps
  <2> QED  BY <1>1, <2>1, LoopSyncs
<1>4. CASE Cleanup(w)
  <2>1. CASE Step(w, "cleanup", "finishing") /\ UNCHANGED <<q, item>>
    BY <1>1, <2>1, LoopReturns DEF Step, SyncSteps
  <2>2. CASE Fails(w, "cleanup", "deploy")
    BY <1>2, <2>2 DEF SyncSteps
  <2> QED  BY <1>4, <2>1, <2>2 DEF Cleanup
<1>5. CASE Deploy(w)
  <2>1. CASE Step(w, "deploy", "translate") /\ UNCHANGED <<q, item>>
    BY <1>1, <2>1, LoopSyncs DEF Step, SyncSteps
  <2>2. CASE Fails(w, "deploy", "deploy")
    BY <1>2, <2>2 DEF SyncSteps
  <2> QED  BY <1>5, <2>1, <2>2 DEF Deploy
<1>6. CASE Translate(w)
  <2>1. /\ pc[w] \in SyncSteps /\ UNCHANGED <<q, item>>
        /\ \E to \in SyncSteps : pc' = [pc EXCEPT ![w] = to]
    BY <1>6 DEF Translate, Step, SyncSteps
  <2> QED  BY <1>1, <2>1, LoopSyncs
<1>7. CASE Push(w)
  <2>1. CASE Step(w, "push", "gatewayStatus") /\ UNCHANGED <<q, item>>
    BY <1>1, <2>1, LoopSyncs DEF Step, SyncSteps
  <2>2. CASE Fails(w, "push", "push")
    BY <1>2, <2>2 DEF SyncSteps
  <2> QED  BY <1>7, <2>1, <2>2 DEF Push
<1>8. CASE GatewayStatus(w)
  <2>1. /\ pc[w] \in SyncSteps /\ UNCHANGED <<q, item>>
        /\ \E to \in SyncSteps : pc' = [pc EXCEPT ![w] = to]
    BY <1>8 DEF GatewayStatus, Step, SyncSteps
  <2> QED  BY <1>1, <2>1, LoopSyncs
<1>9. CASE RouteStatus(w)
  <2>1. pc[w] \in SyncSteps /\ UNCHANGED <<q, item>> /\ pc' = [pc EXCEPT ![w] = "routeStatus"]
    BY <1>9 DEF RouteStatus, Step, SyncSteps
  <2>2. "routeStatus" \in SyncSteps
    BY DEF SyncSteps
  <2> QED  BY <1>1, <2>1, <2>2, LoopSyncs
<1>10. CASE Succeed(w)
  BY <1>1, <1>10, LoopReturns DEF Succeed, Step, SyncSteps
<1>11. CASE Retry(w)
  BY <1>1, <1>11, LoopReturns DEF Retry, Step, SyncSteps
<1> QED  BY <1>3, <1>4, <1>5, <1>6, <1>7, <1>8, <1>9, <1>10, <1>11 DEF Sync

LEMMA LoopNext ==
  ASSUME IInv, [Next]_vars, ~Restart
  PROVE  LoopStep
<1>1. CASE Environment
  BY <1>1, LoopStutter DEF Environment, EditGateway, EditRoute, EditBackend, Relist, workerVars
<1>2. ASSUME NEW g \in Gateways, HandlerAdds(g) PROVE LoopStep
  <2>1. Loop!Enqueue(g)
    BY <1>2 DEF HandlerAdds, Loop!Enqueue, Loop!Add, Add, workerVars
  <2> QED  BY <2>1 DEF LoopStep, Loop!Next, Gateways
<1>3. ASSUME NEW g \in Gateways, ReleaseDelayed(g) PROVE LoopStep
  <2>1. Loop!ReleaseDelayed(g)
    BY <1>3 DEF ReleaseDelayed, Loop!ReleaseDelayed, Loop!Release, Loop!Add, Release, Add, workerVars, IInv, LoopInv
  <2> QED  BY <2>1 DEF LoopStep, Loop!Next, Gateways
<1>4. ASSUME NEW w \in Workers, GetItem(w) PROVE LoopStep
  <2>1. Phase[w] = "idle" /\ Phase' = [Phase EXCEPT ![w] = "syncing"]
    <3>1. "idle" \notin SyncSteps /\ "lookup" \in SyncSteps
      BY DEF SyncSteps
    <3>2. \A v \in Workers : Phase'[v] = IF v = w THEN "syncing" ELSE Phase[v]
      BY <1>4, <3>1 DEF GetItem, Phase, IInv, TypeOK
    <3>3. Phase' = [v \in Workers |-> Phase'[v]]
      BY DEF Phase
    <3> QED  BY <1>4, <3>1, <3>2, <3>3 DEF Phase, GetItem
  <2>2. Loop!GetItem(w)
    BY <1>4, <2>1 DEF GetItem, Loop!GetItem, Loop!Get, Get, Phase
  <2> QED  BY <2>2 DEF LoopStep, Loop!Next
<1>5. ASSUME NEW w \in Workers, FinishItem(w) PROVE LoopStep
  <2>1. Phase[w] = "finishing" /\ Phase' = [Phase EXCEPT ![w] = "idle"]
    <3>1. "idle" \notin SyncSteps /\ "finishing" \notin SyncSteps
      BY DEF SyncSteps
    <3>2. \A v \in Workers : Phase'[v] = IF v = w THEN "idle" ELSE Phase[v]
      BY <1>5, <3>1 DEF FinishItem, Step, Phase, IInv, TypeOK
    <3>3. Phase' = [v \in Workers |-> Phase'[v]]
      BY DEF Phase
    <3> QED  BY <1>5, <3>1, <3>2, <3>3 DEF Phase, FinishItem, Step
  <2>2. Loop!FinishItem(w)
    BY <1>5, <2>1 DEF FinishItem, Loop!FinishItem, Loop!Done, Done, Phase
  <2> QED  BY <2>2 DEF LoopStep, Loop!Next
<1>6. ASSUME \/ \E g \in Gateways : DeliverGateway(g)
             \/ \E r \in Routes : DeliverRoute(r)
             \/ DeliverBackend \/ StartWorkers \/ UNCHANGED vars
      PROVE  LoopStep
  BY <1>6, LoopStutter DEF DeliverGateway, DeliverRoute, DeliverBackend, StartWorkers, workerVars, vars
<1> QED  BY <1>1, <1>2, <1>3, <1>4, <1>5, <1>6, LoopSyncStep DEF Next, System

(* Within one life of the process, every behaviour of the controller is    *)
(* one of the work loop, which SyncLoopProofs shows to be exclusive and to *)
(* implement SerialReconcile.                                              *)
THEOREM ImplementsSyncLoopHolds ==
  ASSUME MaxRestarts = 0
  PROVE  Spec => ImplementsSyncLoop
<1>1. IInv /\ [Next]_vars => LoopStep
  <2>1. IInv => ~Restart
    BY DEF IInv, TypeOK, Restart
  <2> QED  BY <2>1, LoopNext
<1> QED  BY <1>1, LoopInit, IInvHolds, PTL DEF Spec, LoopStep, ImplementsSyncLoop, Loop!Spec
=============================================================================
