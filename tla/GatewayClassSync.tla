-------------------------- MODULE GatewayClassSync --------------------------
(***************************************************************************)
(* The GatewayClass handler (pkg/controllers/gatewayclass.go).  It does    *)
(* not use the work queue: syncGatewayClass runs in the goroutine that the *)
(* informer gives the handler, one notification at a time, from the moment *)
(* the informers start, and an error of its status update is only logged.  *)
(* Nothing is retried, so what is accepted in the end rests on the watch   *)
(* events that follow every write.                                         *)
(*                                                                         *)
(* Abstractions.  An object's spec is its generation.  As in               *)
(* GatewayController, resource versions are not counted: the cached object *)
(* is current when none of its events is undelivered, and the handler's    *)
(* copy carries a flag that every later write to the object clears.        *)
(***************************************************************************)
EXTENDS Integers, Sequences, FiniteSets

CONSTANTS
  Classes,
  Absent,        \* no such object
  Pending,       \* the Accepted condition nobody has written yet
  MaxEdits, MaxFaults, MaxRestarts   \* bounds on what the environment does

ASSUME BoundsAssumption == {MaxEdits, MaxFaults, MaxRestarts} \subseteq Nat

VARIABLES
  api,         \* the GatewayClasses in the API server
  events,      \* undelivered versions of each object, in order
  cache,       \* the informer's store, read through gatewayClassLister
  notified,    \* keys whose notification waits for the handler's goroutine
  copy,        \* syncGatewayClass between the lister and UpdateStatus
  lost,        \* history: classes whose last status update failed for a passing reason
  edits, faults, restarts

clusterVars == <<api, events>>
handlerVars == <<cache, notified, copy>>
boundVars == <<edits, faults, restarts>>
vars == <<clusterVars, handlerVars, lost, boundVars>>

Controllers == {"ours", "other"}
Generations == 1..(MaxEdits + 2)

(* by: the controller that wrote the Accepted condition.                   *)
Conditions == [by : Controllers, observed : Generations] \cup {Pending}
GatewayClasses == [controller : Controllers, generation : Generations, accepted : Conditions]

NewClass(controller) == [controller |-> controller, generation |-> 1, accepted |-> Pending]

(* A class that users wrote before the process started.                    *)
OldClass(controller) == [NewClass(controller) EXCEPT !.generation = 2]

(* fresh: the class was not written to since it was copied.                *)
Copies == [class : Classes, object : GatewayClasses, fresh : BOOLEAN]

ASSUME AbsentAssumption == Absent \notin Copies \cup GatewayClasses

TypeOK ==
  /\ api \in [Classes -> GatewayClasses \cup {Absent}]
  /\ events \in [Classes -> Seq(GatewayClasses \cup {Absent})]
  /\ cache \in [Classes -> GatewayClasses \cup {Absent}]
  /\ notified \in Seq(Classes)
  /\ copy \in Copies \cup {Absent}
  /\ lost \subseteq Classes
  /\ edits \in 0..MaxEdits /\ faults \in 0..MaxFaults /\ restarts \in 0..MaxRestarts

----------------------------------------------------------------------------
(* The API server, users and other controllers.                            *)

ListOf(objects) == [c \in Classes |-> IF objects[c] = Absent THEN <<>> ELSE <<objects[c]>>]

Init ==
  /\ api \in [Classes -> {Absent} \cup {OldClass(k) : k \in Controllers}]
  /\ events = ListOf(api)
  /\ cache = [c \in Classes |-> Absent]
  /\ notified = <<>>
  /\ copy = Absent
  /\ lost = {}
  /\ edits = 0 /\ faults = 0 /\ restarts = 0

(* Every write emits one event and makes the handler's copy outdated.      *)
Write(c, object) ==
  /\ api' = [api EXCEPT ![c] = object]
  /\ events' = [events EXCEPT ![c] = Append(@, object)]

Outdated(c) ==
  IF copy # Absent /\ copy.class = c THEN [copy EXCEPT !.fresh = FALSE] ELSE copy

Edit == edits < MaxEdits /\ edits' = edits + 1

(* The controller name of a class is immutable, but a class can be deleted *)
(* and created again with another one; its generation then starts anew.    *)
EditClass(c) ==
  /\ Edit
  /\ \/ api[c] = Absent /\ \E k \in Controllers : Write(c, NewClass(k))
     \/ api[c] # Absent /\ Write(c, [api[c] EXCEPT !.generation = @ + 1])
     \/ api[c] # Absent /\ Write(c, Absent)
  /\ copy' = Outdated(c)
  /\ UNCHANGED <<cache, notified, lost, faults, restarts>>

(* The other controller accepts its class at its own pace.                 *)
OtherAccepts(c) ==
  /\ api[c] # Absent /\ api[c].controller = "other"
  /\ LET condition == [by |-> "other", observed |-> api[c].generation]
     IN  /\ api[c].accepted # condition
         /\ Write(c, [api[c] EXCEPT !.accepted = condition])
  /\ copy' = Outdated(c)
  /\ UNCHANGED <<cache, notified, lost, boundVars>>

(* A watch breaks and the reflector lists again: of each object only the   *)
(* latest version is delivered, or its disappearance.                      *)
Relist ==
  /\ Edit
  /\ events' = [c \in Classes |-> IF api[c] # Absent \/ cache[c] # Absent THEN <<api[c]>> ELSE <<>>]
  /\ UNCHANGED <<api, handlerVars, lost, faults, restarts>>

----------------------------------------------------------------------------
(* The handler.                                                            *)

NotifiedOfAdd(old, new) == old = Absent   \* mutant: UpdateFunc and DeleteFunc missing

(* AddFunc, UpdateFunc and DeleteFunc all pass the key on.                 *)
Notified(old, new) == TRUE

Deliver(c) ==
  /\ events[c] # <<>>
  /\ cache' = [cache EXCEPT ![c] = Head(events[c])]
  /\ notified' = IF Notified(cache[c], Head(events[c])) THEN Append(notified, c) ELSE notified
  /\ events' = [events EXCEPT ![c] = Tail(@)]
  /\ UNCHANGED <<api, copy, lost, boundVars>>

OursOrGone(object) ==   \* mutant: goes on after NotFound
  object = Absent \/ object.controller = "ours"

Ours(object) == object # Absent /\ object.controller = "ours"

(* syncGatewayClass up to its early returns: the lister's object, which    *)
(* may be later than the notification; a class that is gone or belongs to  *)
(* another controller is ignored.                                          *)
Get ==
  /\ copy = Absent
  /\ notified # <<>>
  /\ notified' = Tail(notified)
  /\ LET c == Head(notified)
     IN  IF Ours(cache[c])
         THEN /\ copy' = [class |-> c, object |-> cache[c], fresh |-> events[c] = <<>>]
              /\ UNCHANGED lost
         ELSE /\ lost' = lost \ {c}
              /\ UNCHANGED copy
  /\ UNCHANGED <<clusterVars, cache, boundVars>>

(* SetStatusCondition on the copy.                                         *)
Accepted(object) == [object EXCEPT !.accepted = [by |-> "ours", observed |-> object.generation]]

WriteNeeded(old, new) == TRUE   \* mutant: the condition gets a new timestamp every time

(* LastTransitionTime stays when the status stays, and an update that      *)
(* changes nothing is no write.                                            *)
Changes(old, new) == old # new

UpdateForced(c, object) ==   \* mutant: an update without the copy's resource version
  /\ api[c] # Absent
  /\ Write(c, [api[c] EXCEPT !.accepted = object.accepted])

(* UpdateStatus succeeds on the very version that was copied.              *)
Update(c, object) ==
  /\ copy.fresh
  /\ IF Changes(api[c], object) THEN Write(c, object) ELSE UNCHANGED clusterVars

UpdateStatus ==
  /\ copy # Absent
  /\ LET c == copy.class
     IN  \/ /\ Update(c, Accepted(copy.object))
            /\ lost' = lost \ {c}
            /\ UNCHANGED faults
         \/ /\ ~copy.fresh                  \* conflict or not found, logged
            /\ lost' = lost \ {c}
            /\ UNCHANGED <<clusterVars, faults>>
         \/ /\ faults < MaxFaults           \* any other error, logged
            /\ faults' = faults + 1
            /\ lost' = lost \cup {c}
            /\ UNCHANGED clusterVars
  /\ copy' = Absent
  /\ UNCHANGED <<cache, notified, edits, restarts>>

(* The process ends at any moment and is started again.                    *)
Restart ==
  /\ restarts < MaxRestarts
  /\ restarts' = restarts + 1
  /\ events' = ListOf(api)
  /\ cache' = [c \in Classes |-> Absent]
  /\ notified' = <<>>
  /\ copy' = Absent
  /\ lost' = {}
  /\ UNCHANGED <<api, edits, faults>>

Next ==
  \/ \E c \in Classes : EditClass(c) \/ OtherAccepts(c) \/ Deliver(c)
  \/ Relist \/ Get \/ UpdateStatus \/ Restart

(* The informer delivers what is outstanding and the handler's goroutine   *)
(* is scheduled.  Users, other controllers, faults and restarts are free.  *)
Fairness ==
  /\ \A c \in Classes : WF_vars(Deliver(c))
  /\ WF_vars(Get) /\ WF_vars(UpdateStatus)

Spec == Init /\ [][Next]_vars /\ Fairness

----------------------------------------------------------------------------
(* What is accepted in our name is ours, and was seen: neither a class of  *)
(* another controller nor a generation its object never had is accepted,   *)
(* though the class may be deleted and created again between the lister's  *)
(* read and the update (gatewayclass.go:50, :75).                          *)
AcceptanceIsDue ==
  \A c \in Classes :
    api[c] # Absent /\ api[c].accepted # Pending /\ api[c].accepted.by = "ours"
      => /\ api[c].controller = "ours"
         /\ api[c].accepted.observed <= api[c].generation

(* Our update never replaces what somebody else wrote after the handler    *)
(* looked: the object that is replaced is the one that was copied.         *)
NothingOverwritten ==
  [][\A c \in Classes :
       copy # Absent /\ copy' = Absent /\ api' # api /\ copy.class = c
         => api[c] = copy.object]_vars

(* Although no error is retried, every class of ours is in the end         *)
(* accepted in its latest generation: behind each conflict there is an     *)
(* event still to come.  Only an error that is no conflict can leave a     *)
(* class behind, until the next event or restart.                          *)
DueAcceptance(c) ==
  api[c] # Absent /\ api[c].controller = "ours"
    => api[c].accepted = [by |-> "ours", observed |-> api[c].generation]
AcceptanceConverges == \A c \in Classes : <>[](c \notin lost => DueAcceptance(c))

(* The handler's own updates come back to it as notifications; they do not *)
(* keep it busy.                                                           *)
HandlerRests == <>[](notified = <<>> /\ copy = Absent)
=============================================================================
