------------------------- MODULE GatewayClassProofs -------------------------
(***************************************************************************)
(* What GatewayClassSync promises for any classes and bounds.  The         *)
(* argument: the last undelivered event of a class, or else the cached     *)
(* object, is the object in the API server; so a copy that was made with   *)
(* no event outstanding, and not outdated since, is what an update writes  *)
(* to.                                                                     *)
(***************************************************************************)
EXTENDS GatewayClassSync, SequenceTheorems, TLAPS

(* The newest version of a class that the informer has or is about to get. *)
Newest(c) == IF events[c] = <<>> THEN cache[c] ELSE events[c][Len(events[c])]

WatchComplete == \A c \in Classes : Newest(c) = api[c]

CopySound ==
  copy # Absent => /\ copy.object.controller = "ours"
                   /\ copy.fresh => api[copy.class] = copy.object

GenerationsBounded == \A c \in Classes : api[c] # Absent => api[c].generation <= edits + 2

IInv == TypeOK /\ WatchComplete /\ CopySound /\ GenerationsBounded /\ AcceptanceIsDue

----------------------------------------------------------------------------
(* Taking the first of a queue leaves its last element the last, unless it *)
(* was the only one.                                                       *)
LEMMA LastOfTail ==
  ASSUME NEW S, NEW s \in Seq(S), s # <<>>
  PROVE  /\ Head(s) \in S /\ Tail(s) \in Seq(S)
         /\ Tail(s) = <<>> => Head(s) = s[Len(s)]
         /\ Tail(s) # <<>> => Tail(s)[Len(Tail(s))] = s[Len(s)]
<1>1. /\ Head(s) \in S /\ Tail(s) \in Seq(S) /\ Head(s) = s[1]
      /\ Len(Tail(s)) = Len(s) - 1 /\ Len(s) \in Nat
      /\ \A n \in 1..Len(Tail(s)) : Tail(s)[n] = s[n + 1]
  BY HeadTailProperties
<1>2. Len(s) # 0 /\ (Tail(s) = <<>> <=> Len(Tail(s)) = 0)
  BY <1>1, EmptySeq
<1>3. Tail(s) # <<>> => Len(Tail(s)) \in 1..Len(Tail(s))
  BY <1>1, <1>2
<1> QED  BY <1>1, <1>2, <1>3

(* A write keeps the watch complete, whatever is written.                  *)
LEMMA WriteIsWatched ==
  ASSUME TypeOK, WatchComplete, NEW c \in Classes, NEW o \in GatewayClasses \cup {Absent},
         Write(c, o), cache' = cache
  PROVE  /\ api' \in [Classes -> GatewayClasses \cup {Absent}]
         /\ events' \in [Classes -> Seq(GatewayClasses \cup {Absent})]
         /\ WatchComplete'
<1> DEFINE Objects == GatewayClasses \cup {Absent}
<1>1. events[c] \in Seq(Objects) /\ cache[c] \in Objects
  BY DEF TypeOK
<1>2. /\ Append(events[c], o) \in Seq(Objects)
      /\ Append(events[c], o) # <<>>
      /\ Append(events[c], o)[Len(Append(events[c], o))] = o
  BY <1>1
<1>3. events' = [events EXCEPT ![c] = Append(events[c], o)] /\ api' = [api EXCEPT ![c] = o]
  BY DEF Write
<1>4. api' \in [Classes -> Objects] /\ events' \in [Classes -> Seq(Objects)]
  BY <1>2, <1>3 DEF TypeOK
<1>5. \A d \in Classes : Newest(d)' = api'[d]
  <2> TAKE d \in Classes
  <2>1. CASE d = c
    <3>1. events'[d] = Append(events[c], o) /\ api'[d] = o
      BY <1>3, <2>1 DEF TypeOK
    <3> QED  BY <1>2, <3>1 DEF Newest
  <2>2. CASE d # c
    <3>1. events'[d] = events[d] /\ api'[d] = api[d]
      BY <1>3, <2>2 DEF TypeOK
    <3> QED  BY <3>1 DEF Newest, WatchComplete
  <2> QED  BY <2>1, <2>2
<1> QED  BY <1>4, <1>5 DEF WatchComplete

(* A write by anybody else leaves the handler's copy sound.                *)
LEMMA OutdatedIsSound ==
  ASSUME TypeOK, CopySound, NEW c \in Classes, NEW o, Write(c, o), copy' = Outdated(c)
  PROVE  CopySound' /\ copy' \in Copies \cup {Absent}
<1>1. CASE copy = Absent
  BY <1>1 DEF Outdated, CopySound
<1>2. CASE copy # Absent
  <2>1. copy \in Copies
    BY <1>2 DEF TypeOK
  <2>2. CASE copy.class = c
    <3>1. copy' = [copy EXCEPT !.fresh = FALSE]
      BY <1>2, <2>2 DEF Outdated
    <3>2. copy' \in Copies /\ copy'.fresh = FALSE /\ copy'.object = copy.object
      BY <2>1, <3>1 DEF Copies
    <3> QED  BY <1>2, <3>2 DEF CopySound
  <2>3. CASE copy.class # c
    <3>1. copy' = copy /\ copy.class \in Classes
      BY <2>1, <2>3 DEF Outdated, Copies
    <3>2. api'[copy.class] = api[copy.class]
      BY <2>3, <3>1 DEF Write, TypeOK
    <3> QED  BY <1>2, <2>1, <3>1, <3>2 DEF CopySound
  <2> QED  BY <2>2, <2>3
<1> QED  BY <1>1, <1>2

(* A LIST brings the cache up to date with everything there is.            *)
LEMMA ListIsWatched ==
  ASSUME api' \in [Classes -> GatewayClasses \cup {Absent}],
         events' = ListOf(api'), cache' = [c \in Classes |-> Absent]
  PROVE  events' \in [Classes -> Seq(GatewayClasses \cup {Absent})] /\ WatchComplete'
<1>1. events' = [c \in Classes |-> IF api'[c] = Absent THEN <<>> ELSE <<api'[c]>>]
  BY DEF ListOf
<1>2. ASSUME NEW c \in Classes
      PROVE  events'[c] \in Seq(GatewayClasses \cup {Absent}) /\ Newest(c)' = api'[c]
  <2>1. api'[c] \in GatewayClasses \cup {Absent}
    OBVIOUS
  <2>2. CASE api'[c] = Absent
    <3>1. events'[c] = <<>>
      BY <1>1, <2>2
    <3> QED  BY <2>2, <3>1, EmptySeq DEF Newest
  <2>3. CASE api'[c] # Absent
    <3>1. events'[c] = <<api'[c]>>
      BY <1>1, <2>3
    <3>2. /\ <<api'[c]>> \in Seq(GatewayClasses \cup {Absent})
          /\ Len(<<api'[c]>>) = 1 /\ <<api'[c]>> # <<>> /\ <<api'[c]>>[1] = api'[c]
      BY <2>1
    <3> QED  BY <3>1, <3>2 DEF Newest
  <2> QED  BY <2>2, <2>3
<1> QED  BY <1>1, <1>2 DEF WatchComplete

LEMMA InitImpliesIInv == Init => IInv
<1> SUFFICES ASSUME Init PROVE IInv
  OBVIOUS
<1>1. \A k \in Controllers : OldClass(k) \in GatewayClasses /\ OldClass(k).generation = 2
                             /\ OldClass(k).accepted = Pending
  BY BoundsAssumption
     DEF OldClass, NewClass, GatewayClasses, Controllers, Conditions, Generations
<1>2. \A c \in Classes : api[c] = Absent \/ \E k \in Controllers : api[c] = OldClass(k)
  BY DEF Init
<1>3. api \in [Classes -> GatewayClasses \cup {Absent}]
  BY <1>1 DEF Init
<1>4. \A c \in Classes : events[c] = IF api[c] = Absent THEN <<>> ELSE <<api[c]>>
  BY DEF Init, ListOf
<1>5. events \in [Classes -> Seq(GatewayClasses \cup {Absent})]
  <2>1. ASSUME NEW c \in Classes PROVE events[c] \in Seq(GatewayClasses \cup {Absent})
    <3>1. <<>> \in Seq(GatewayClasses \cup {Absent})
      OBVIOUS
    <3>2. api[c] \in GatewayClasses \cup {Absent}
      BY <1>3
    <3>3. <<api[c]>> \in Seq(GatewayClasses \cup {Absent})
      BY <3>2
    <3>4. events[c] = <<>> \/ events[c] = <<api[c]>>
      BY <1>4
    <3> QED  BY <3>1, <3>3, <3>4
  <2>2. events = [c \in Classes |-> IF api[c] = Absent THEN <<>> ELSE <<api[c]>>]
    BY DEF Init, ListOf
  <2> QED  BY <2>1, <2>2
<1>6. TypeOK
  BY <1>3, <1>5, BoundsAssumption DEF Init, TypeOK
<1>7. WatchComplete
  <2> SUFFICES ASSUME NEW c \in Classes PROVE Newest(c) = api[c]
    BY DEF WatchComplete
  <2>1. CASE api[c] = Absent
    BY <1>4, <2>1 DEF Newest, Init
  <2>2. CASE api[c] # Absent
    <3>1. events[c] = <<api[c]>> /\ Len(<<api[c]>>) = 1 /\ <<api[c]>> # <<>>
      BY <1>4, <2>2
    <3> QED  BY <3>1 DEF Newest
  <2> QED  BY <2>1, <2>2
<1>8. CopySound
  BY DEF Init, CopySound
<1>9. GenerationsBounded /\ AcceptanceIsDue
  BY <1>1, <1>2 DEF Init, GenerationsBounded, AcceptanceIsDue
<1> QED  BY <1>6, <1>7, <1>8, <1>9 DEF IInv

LEMMA EditPreserves ==
  ASSUME IInv, NEW c \in Classes, EditClass(c)
  PROVE  IInv'
<1> USE DEF IInv
<1>1. \A k \in Controllers : /\ NewClass(k) \in GatewayClasses /\ NewClass(k).generation = 1
                             /\ NewClass(k).accepted = Pending
  BY BoundsAssumption
     DEF NewClass, GatewayClasses, Controllers, Conditions, Generations
<1>2. edits \in Nat /\ edits + 1 \in 0..MaxEdits /\ edits' = edits + 1
  BY BoundsAssumption DEF EditClass, Edit, TypeOK
<1>3. PICK o \in GatewayClasses \cup {Absent} :
        /\ Write(c, o)
        /\ \/ o = Absent
           \/ o.generation = 1 /\ o.accepted = Pending
           \/ /\ api[c] # Absent
              /\ o = [api[c] EXCEPT !.generation = api[c].generation + 1]
  <2>1. CASE api[c] = Absent
    BY <1>1, <2>1 DEF EditClass
  <2>2. CASE api[c] # Absent /\ Write(c, Absent)
    BY <2>2
  <2>3. CASE api[c] # Absent /\ Write(c, [api[c] EXCEPT !.generation = @ + 1])
    <3>1. api[c] \in GatewayClasses /\ api[c].generation <= edits + 2
      BY <2>3 DEF TypeOK, GenerationsBounded
    <3>2. api[c].generation + 1 \in Generations
      BY <1>2, <3>1, BoundsAssumption DEF GatewayClasses, Generations
    <3>3. [api[c] EXCEPT !.generation = api[c].generation + 1] \in GatewayClasses
      BY <3>1, <3>2 DEF GatewayClasses
    <3> QED  BY <2>3, <3>3
  <2> QED  BY <2>1, <2>2, <2>3 DEF EditClass
<1>4. UNCHANGED <<cache, notified, lost, faults, restarts>> /\ copy' = Outdated(c)
  BY DEF EditClass
<1>5. CopySound' /\ copy' \in Copies \cup {Absent}
  BY <1>3, <1>4, OutdatedIsSound
<1>6. /\ WatchComplete'
      /\ api' \in [Classes -> GatewayClasses \cup {Absent}]
      /\ events' \in [Classes -> Seq(GatewayClasses \cup {Absent})]
  BY <1>3, <1>4, WriteIsWatched
<1>7. TypeOK'
  BY <1>2, <1>4, <1>5, <1>6 DEF TypeOK
<1>8. api' = [api EXCEPT ![c] = o]
  BY <1>3 DEF Write
<1>9. ASSUME api[c] # Absent, o = [api[c] EXCEPT !.generation = api[c].generation + 1]
      PROVE  /\ o.generation = api[c].generation + 1 /\ o.generation \in Nat
             /\ o.accepted = api[c].accepted /\ o.controller = api[c].controller
             /\ api[c].generation \in Nat
             /\ api[c].accepted # Pending => api[c].accepted.observed \in Nat
  BY <1>9, BoundsAssumption DEF TypeOK, GatewayClasses, Generations, Conditions
<1>10. GenerationsBounded'
  <2> SUFFICES ASSUME NEW d \in Classes, api'[d] # Absent PROVE api'[d].generation <= edits' + 2
    BY DEF GenerationsBounded
  <2>1. CASE d # c
    <3>1. api'[d] = api[d] /\ api[d].generation \in Nat
      BY <1>8, <2>1, BoundsAssumption DEF TypeOK, GatewayClasses, Generations
    <3> QED  BY <1>2, <3>1 DEF GenerationsBounded
  <2>2. CASE d = c
    BY <1>2, <1>3, <1>8, <1>9, <2>2 DEF GenerationsBounded, TypeOK
  <2> QED  BY <2>1, <2>2
<1>11. AcceptanceIsDue'
  <2> SUFFICES ASSUME NEW d \in Classes, api'[d] # Absent, api'[d].accepted # Pending,
                      api'[d].accepted.by = "ours"
               PROVE  /\ api'[d].controller = "ours"
                      /\ api'[d].accepted.observed <= api'[d].generation
    BY DEF AcceptanceIsDue
  <2>1. CASE d # c
    <3>1. api'[d] = api[d]
      BY <1>8, <2>1 DEF TypeOK
    <3> QED  BY <3>1 DEF AcceptanceIsDue
  <2>2. CASE d = c
    <3>1. api'[d] = o
      BY <1>8, <2>2 DEF TypeOK
    <3>2. api[c] # Absent /\ o = [api[c] EXCEPT !.generation = api[c].generation + 1]
      BY <1>3, <3>1
    <3> QED  BY <1>9, <2>2, <3>1, <3>2 DEF AcceptanceIsDue
  <2> QED  BY <2>1, <2>2
<1> QED  BY <1>5, <1>6, <1>7, <1>10, <1>11

(* What the writes of a status leave in place: only the condition changes, *)
(* and the new one is due.                                                 *)
LEMMA StatusWritePreserves ==
  ASSUME IInv, NEW c \in Classes, api[c] # Absent,
         NEW o \in GatewayClasses, Write(c, o), edits' = edits,
         o.controller = api[c].controller, o.generation = api[c].generation,
         o.accepted.by = "ours" =>
            o.controller = "ours" /\ o.accepted.observed <= o.generation
  PROVE  GenerationsBounded' /\ AcceptanceIsDue'
<1>1. api' = [api EXCEPT ![c] = o] /\ api \in [Classes -> GatewayClasses \cup {Absent}]
  BY DEF Write, IInv, TypeOK
<1>2. \A d \in Classes : api'[d] = IF d = c THEN o ELSE api[d]
  BY <1>1
<1>3. GenerationsBounded'
  BY <1>2 DEF GenerationsBounded, IInv
<1>4. AcceptanceIsDue'
  BY <1>2 DEF AcceptanceIsDue, IInv
<1> QED  BY <1>3, <1>4

LEMMA OtherAcceptsPreserves ==
  ASSUME IInv, NEW c \in Classes, OtherAccepts(c)
  PROVE  IInv'
<1> USE DEF IInv
<1> DEFINE o == [api[c] EXCEPT !.accepted = [by |-> "other", observed |-> api[c].generation]]
<1>1. api[c] \in GatewayClasses /\ api[c] # Absent
  BY DEF OtherAccepts, TypeOK
<1>2. [by |-> "other", observed |-> api[c].generation] \in Conditions
  BY <1>1 DEF GatewayClasses, Conditions, Controllers
<1>3. /\ o \in GatewayClasses /\ o.controller = api[c].controller
      /\ o.generation = api[c].generation /\ o.accepted.by = "other"
  BY <1>1, <1>2 DEF GatewayClasses
<1>4. Write(c, o) /\ copy' = Outdated(c) /\ UNCHANGED <<cache, notified, lost, boundVars>>
  BY DEF OtherAccepts
<1>5. CopySound' /\ copy' \in Copies \cup {Absent}
  BY <1>4, OutdatedIsSound
<1>6. /\ WatchComplete'
      /\ api' \in [Classes -> GatewayClasses \cup {Absent}]
      /\ events' \in [Classes -> Seq(GatewayClasses \cup {Absent})]
  BY <1>3, <1>4, WriteIsWatched
<1>7. TypeOK'
  BY <1>4, <1>5, <1>6 DEF TypeOK, boundVars
<1>8. GenerationsBounded' /\ AcceptanceIsDue'
  <2> HIDE DEF o, IInv
  <2> QED  BY <1>1, <1>3, <1>4, StatusWritePreserves DEF boundVars
<1> QED  BY <1>5, <1>6, <1>7, <1>8

LEMMA RelistPreserves ==
  ASSUME IInv, Relist
  PROVE  IInv'
<1> USE DEF IInv
<1>1. /\ UNCHANGED <<api, cache, notified, copy, lost, faults, restarts>>
      /\ edits' = edits + 1 /\ edits' \in 0..MaxEdits /\ edits \in Nat
  BY BoundsAssumption DEF Relist, Edit, handlerVars, TypeOK
<1>2. \A c \in Classes :
        events'[c] = IF api[c] # Absent \/ cache[c] # Absent THEN <<api[c]>> ELSE <<>>
  BY DEF Relist
<1>3. ASSUME NEW c \in Classes
      PROVE  events'[c] \in Seq(GatewayClasses \cup {Absent}) /\ Newest(c)' = api[c]
  <2>1. api[c] \in GatewayClasses \cup {Absent}
    BY DEF TypeOK
  <2>2. CASE api[c] # Absent \/ cache[c] # Absent
    <3>1. events'[c] = <<api[c]>>
      BY <1>2, <2>2
    <3>2. /\ <<api[c]>> \in Seq(GatewayClasses \cup {Absent})
          /\ Len(<<api[c]>>) = 1 /\ <<api[c]>> # <<>> /\ <<api[c]>>[1] = api[c]
      BY <2>1
    <3> QED  BY <3>1, <3>2 DEF Newest
  <2>3. CASE api[c] = Absent /\ cache[c] = Absent
    <3>1. events'[c] = <<>>
      BY <1>2, <2>3
    <3> QED  BY <1>1, <2>3, <3>1 DEF Newest
  <2> QED  BY <2>2, <2>3
<1>4. events' \in [Classes -> Seq(GatewayClasses \cup {Absent})]
  <2>1. events' = [c \in Classes |-> events'[c]]
    BY DEF Relist
  <2> QED  BY <1>3, <2>1
<1>5. TypeOK'
  BY <1>1, <1>4 DEF TypeOK
<1>6. WatchComplete'
  BY <1>1, <1>3 DEF WatchComplete
<1>7. CopySound' /\ AcceptanceIsDue'
  BY <1>1 DEF CopySound, AcceptanceIsDue
<1>8. GenerationsBounded'
  <2> SUFFICES ASSUME NEW c \in Classes, api[c] # Absent PROVE api[c].generation <= edits' + 2
    BY <1>1 DEF GenerationsBounded
  <2>1. api[c].generation \in Nat /\ api[c].generation <= edits + 2
    BY BoundsAssumption DEF TypeOK, GatewayClasses, Generations, GenerationsBounded
  <2> QED  BY <1>1, <2>1
<1> QED  BY <1>5, <1>6, <1>7, <1>8

LEMMA DeliverPreserves ==
  ASSUME IInv, NEW c \in Classes, Deliver(c)
  PROVE  IInv'
<1> USE DEF IInv
<1> DEFINE Objects == GatewayClasses \cup {Absent}
<1>1. /\ UNCHANGED <<api, copy, lost, edits, faults, restarts>>
      /\ events[c] # <<>> /\ events[c] \in Seq(Objects)
      /\ events' = [events EXCEPT ![c] = Tail(events[c])]
      /\ cache' = [cache EXCEPT ![c] = Head(events[c])]
      /\ notified' \in {notified, Append(notified, c)}
  BY DEF Deliver, boundVars, TypeOK
<1>2. /\ Head(events[c]) \in Objects /\ Tail(events[c]) \in Seq(Objects)
      /\ Tail(events[c]) = <<>> => Head(events[c]) = events[c][Len(events[c])]
      /\ Tail(events[c]) # <<>> => Tail(events[c])[Len(Tail(events[c]))] = events[c][Len(events[c])]
  <2> HIDE DEF Objects
  <2> QED  BY <1>1, LastOfTail
<1>3. TypeOK'
  <2>1. notified \in Seq(Classes) /\ Append(notified, c) \in Seq(Classes)
    BY DEF TypeOK
  <2>2. notified' \in Seq(Classes)
    BY <1>1, <2>1
  <2> QED  BY <1>1, <1>2, <2>2 DEF TypeOK
<1>4. ASSUME NEW d \in Classes PROVE Newest(d)' = api[d]
  <2>1. CASE d # c
    <3>1. events'[d] = events[d] /\ cache'[d] = cache[d]
      BY <1>1, <2>1 DEF TypeOK
    <3> QED  BY <3>1 DEF Newest, WatchComplete
  <2>2. CASE d = c
    <3>1. events'[d] = Tail(events[c]) /\ cache'[d] = Head(events[c])
      BY <1>1, <2>2 DEF TypeOK
    <3>2. events[c][Len(events[c])] = api[c]
      BY <1>1 DEF Newest, WatchComplete
    <3> QED  BY <1>2, <2>2, <3>1, <3>2 DEF Newest
  <2> QED  BY <2>1, <2>2
<1>5. WatchComplete'
  BY <1>1, <1>4 DEF WatchComplete
<1>6. CopySound' /\ GenerationsBounded' /\ AcceptanceIsDue'
  BY <1>1 DEF CopySound, GenerationsBounded, AcceptanceIsDue
<1> QED  BY <1>3, <1>5, <1>6

LEMMA GetPreserves ==
  ASSUME IInv, Get
  PROVE  IInv'
<1> USE DEF IInv
<1> DEFINE c == Head(notified)
<1>1. /\ UNCHANGED <<api, events, cache, edits, faults, restarts>>
      /\ notified \in Seq(Classes) /\ notified # <<>> /\ notified' = Tail(notified)
  BY DEF Get, clusterVars, boundVars, TypeOK
<1>2. c \in Classes /\ notified' \in Seq(Classes)
  BY <1>1, HeadTailProperties
<1>3. CASE Ours(cache[c])
  <2>1. /\ copy' = [class |-> c, object |-> cache[c], fresh |-> events[c] = <<>>]
        /\ lost' = lost
    BY <1>3 DEF Get
  <2>2. cache[c] \in GatewayClasses /\ cache[c].controller = "ours"
    BY <1>2, <1>3 DEF Ours, TypeOK
  <2>3. copy' \in Copies /\ copy'.object = cache[c] /\ copy'.class = c
        /\ copy'.fresh = (events[c] = <<>>)
    BY <1>2, <2>1, <2>2 DEF Copies
  <2>4. TypeOK'
    BY <1>1, <1>2, <2>1, <2>3 DEF TypeOK
  <2>5. CopySound'
    BY <1>1, <1>2, <2>2, <2>3 DEF CopySound, WatchComplete, Newest
  <2> QED  BY <1>1, <2>4, <2>5 DEF WatchComplete, Newest, GenerationsBounded, AcceptanceIsDue
<1>4. CASE ~Ours(cache[c])
  <2>1. copy' = copy /\ lost' = lost \ {c}
    BY <1>4 DEF Get
  <2>2. TypeOK'
    BY <1>1, <1>2, <2>1 DEF TypeOK
  <2> QED  BY <1>1, <2>1, <2>2
           DEF CopySound, WatchComplete, Newest, GenerationsBounded, AcceptanceIsDue
<1> QED  BY <1>3, <1>4

(* An update writes to the very object that was copied.                    *)
LEMMA UpdateHitsTheCopy ==
  ASSUME IInv, UpdateStatus
  PROVE  /\ copy \in Copies /\ copy.object.controller = "ours" /\ copy' = Absent
         /\ UNCHANGED <<cache, notified, edits, restarts>>
         /\ lost' \subseteq Classes /\ faults' \in 0..MaxFaults
         /\ \/ UNCHANGED <<api, events>>
            \/ /\ api[copy.class] = copy.object
               /\ Write(copy.class, Accepted(copy.object))
<1>1. copy \in Copies /\ copy.class \in Classes /\ copy.object.controller = "ours"
  BY DEF UpdateStatus, IInv, TypeOK, CopySound, Copies
<1>2. copy' = Absent /\ UNCHANGED <<cache, notified, edits, restarts>>
  BY DEF UpdateStatus
<1>3. lost' \subseteq Classes
  BY <1>1 DEF UpdateStatus, IInv, TypeOK
<1>4. faults' \in 0..MaxFaults
  BY BoundsAssumption DEF UpdateStatus, IInv, TypeOK
<1>5. ASSUME ~UNCHANGED <<api, events>>
      PROVE  copy.fresh /\ Write(copy.class, Accepted(copy.object))
  BY <1>5 DEF UpdateStatus, Update, clusterVars
<1>6. copy.fresh => api[copy.class] = copy.object
  BY DEF UpdateStatus, IInv, CopySound
<1> QED  BY <1>1, <1>2, <1>3, <1>4, <1>5, <1>6

LEMMA UpdateStatusPreserves ==
  ASSUME IInv, UpdateStatus
  PROVE  IInv'
<1> DEFINE c == copy.class
           o == Accepted(copy.object)
<1>1. /\ copy \in Copies /\ copy.object.controller = "ours" /\ copy' = Absent
      /\ UNCHANGED <<cache, notified, edits, restarts>>
      /\ lost' \subseteq Classes /\ faults' \in 0..MaxFaults
      /\ UNCHANGED <<api, events>> \/ (api[c] = copy.object /\ Write(c, o))
  BY UpdateHitsTheCopy
<1>2. CopySound'
  BY <1>1 DEF CopySound
<1>3. CASE UNCHANGED <<api, events>>
  BY <1>1, <1>2, <1>3
     DEF IInv, TypeOK, WatchComplete, Newest, GenerationsBounded, AcceptanceIsDue
<1>4. CASE api[c] = copy.object /\ Write(c, o)
  <2>1. c \in Classes /\ copy.object \in GatewayClasses
    BY <1>1 DEF Copies
  <2>2. [by |-> "ours", observed |-> copy.object.generation] \in Conditions
    BY <2>1 DEF GatewayClasses, Conditions, Controllers
  <2>3. /\ o \in GatewayClasses
        /\ o.controller = copy.object.controller /\ o.generation = copy.object.generation
        /\ o.accepted.observed = copy.object.generation
    BY <2>1, <2>2 DEF Accepted, GatewayClasses
  <2>4. copy.object.generation \in Int
    BY <2>1, BoundsAssumption DEF GatewayClasses, Generations
  <2>5. /\ WatchComplete'
        /\ api' \in [Classes -> GatewayClasses \cup {Absent}]
        /\ events' \in [Classes -> Seq(GatewayClasses \cup {Absent})]
    BY <1>1, <1>4, <2>1, <2>3, WriteIsWatched DEF IInv
  <2>6. TypeOK'
    BY <1>1, <2>5 DEF IInv, TypeOK
  <2>7. /\ \A d \in Classes : api'[d] = IF d = c THEN o ELSE api[d]
        /\ \A d \in Classes : api[d] # Absent => api[d].generation <= edits + 2
        /\ edits \in Nat
    BY <1>4, BoundsAssumption DEF Write, IInv, TypeOK, GenerationsBounded
  <2>8. AcceptanceIsDue'
    BY <1>1, <2>3, <2>4, <2>7 DEF IInv, AcceptanceIsDue
  <2>9. api[c] # Absent => GenerationsBounded'
    BY <1>1, <1>4, <2>1, <2>3, <2>7 DEF GenerationsBounded
  <2>10. api[c] # Absent
    BY <1>4, <2>1, AbsentAssumption
  <2> QED  BY <1>2, <2>5, <2>6, <2>8, <2>9, <2>10 DEF IInv
<1> QED  BY <1>1, <1>3, <1>4

LEMMA RestartPreserves ==
  ASSUME IInv, Restart
  PROVE  IInv'
<1> USE DEF IInv
<1>1. /\ UNCHANGED <<api, edits, faults>> /\ events' = ListOf(api) /\ copy' = Absent
      /\ cache' = [c \in Classes |-> Absent] /\ notified' = <<>> /\ lost' = {}
      /\ restarts' \in 0..MaxRestarts
  BY BoundsAssumption DEF Restart, TypeOK
<1>2. api \in [Classes -> GatewayClasses \cup {Absent}]
  BY DEF TypeOK
<1>3. events' \in [Classes -> Seq(GatewayClasses \cup {Absent})] /\ WatchComplete'
  BY <1>1, <1>2, ListIsWatched
<1>4. TypeOK'
  BY <1>1, <1>3 DEF TypeOK
<1> QED  BY <1>1, <1>3, <1>4 DEF CopySound, GenerationsBounded, AcceptanceIsDue

----------------------------------------------------------------------------
LEMMA IInvInductive == IInv /\ [Next]_vars => IInv'
<1> SUFFICES ASSUME IInv, [Next]_vars PROVE IInv'
  OBVIOUS
<1>1. ASSUME NEW c \in Classes, EditClass(c) PROVE IInv'
  BY <1>1, EditPreserves
<1>2. ASSUME NEW c \in Classes, OtherAccepts(c) PROVE IInv'
  BY <1>2, OtherAcceptsPreserves
<1>3. ASSUME NEW c \in Classes, Deliver(c) PROVE IInv'
  BY <1>3, DeliverPreserves
<1>4. CASE Relist
  BY <1>4, RelistPreserves
<1>5. CASE Get
  BY <1>5, GetPreserves
<1>6. CASE UpdateStatus
  BY <1>6, UpdateStatusPreserves
<1>7. CASE Restart
  BY <1>7, RestartPreserves
<1>8. CASE UNCHANGED vars
  BY <1>8 DEF vars, clusterVars, handlerVars, boundVars, IInv, TypeOK, WatchComplete, Newest,
              CopySound, GenerationsBounded, AcceptanceIsDue
<1> QED  BY <1>1, <1>2, <1>3, <1>4, <1>5, <1>6, <1>7, <1>8 DEF Next

LEMMA IInvHolds == Spec => []IInv
<1> QED  BY InitImpliesIInv, IInvInductive, PTL DEF Spec

(* Objects, events and the handler's copy keep their types, for any number *)
(* of classes, edits, faults and restarts.                                 *)
THEOREM TypeCorrect == Spec => []TypeOK
<1>1. IInv => TypeOK
  BY DEF IInv
<1> QED  BY <1>1, IInvHolds, PTL

(* syncGatewayClass accepts nothing that is not its own or that it has not *)
(* seen (gatewayclass.go:59, :71), whatever happens between the lister's   *)
(* read and the update.                                                    *)
THEOREM AcceptanceIsDueHolds == Spec => []AcceptanceIsDue
<1>1. IInv => AcceptanceIsDue
  BY DEF IInv
<1> QED  BY <1>1, IInvHolds, PTL

(* The update (gatewayclass.go:75) replaces the object that was copied and *)
(* no later one.                                                           *)
THEOREM NothingOverwrittenHolds == Spec => NothingOverwritten
<1> DEFINE A == \A c \in Classes :
                  copy # Absent /\ copy' = Absent /\ api' # api /\ copy.class = c
                    => api[c] = copy.object
<1>1. IInv /\ [Next]_vars => [A]_vars
  <2> SUFFICES ASSUME IInv, Next, copy # Absent, copy' = Absent, api' # api,
                      NEW c \in Classes, copy.class = c
               PROVE  api[c] = copy.object
    OBVIOUS
  <2>1. Outdated(c) # Absent
    BY AbsentAssumption DEF Outdated, IInv, TypeOK, Copies
  <2>2. \A d \in Classes : Outdated(d) # Absent
    BY AbsentAssumption DEF Outdated, IInv, TypeOK, Copies
  <2>3. UpdateStatus
    BY <2>2 DEF Next, EditClass, OtherAccepts, Deliver, Relist, Get, Restart, clusterVars
  <2>4. UNCHANGED <<api, events>> \/ api[copy.class] = copy.object
    BY <2>3, UpdateHitsTheCopy
  <2> QED  BY <2>4
<1> QED  BY <1>1, IInvHolds, PTL DEF Spec, NothingOverwritten
=============================================================================
