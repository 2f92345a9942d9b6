-------------------------- MODULE SerialReconcile --------------------------
(***************************************************************************)
(* What the controller's work loop promises, without a queue or workers:   *)
(* a set of keys with an outstanding request, and a set of keys being      *)
(* reconciled.  A key is reconciled by at most one worker at a time, only  *)
(* after a request, and a request made at any moment - also while the key  *)
(* is being reconciled - is followed by a reconcile that BEGINS later.     *)
(***************************************************************************)
CONSTANT Keys

VARIABLES pending, running, closed

vars == <<pending, running, closed>>

Init == pending = {} /\ running = {} /\ closed = FALSE

(* An event handler asks for k; after Close requests are ignored.          *)
Request(k) ==
  /\ ~closed
  /\ pending' = pending \cup {k}
  /\ UNCHANGED <<running, closed>>

(* A reconcile begins.  The request is consumed, unless a delayed retry of *)
(* an earlier failure is outstanding as well.                              *)
Begin(k) ==
  /\ k \in pending \ running
  /\ running' = running \cup {k}
  /\ pending' \in {pending, pending \ {k}}
  /\ UNCHANGED closed

(* The running reconcile of k fails and is to be repeated.                 *)
Fail(k) ==
  /\ k \in running
  /\ ~closed
  /\ pending' = pending \cup {k}
  /\ UNCHANGED <<running, closed>>

End(k) ==
  /\ k \in running
  /\ running' = running \ {k}
  /\ UNCHANGED <<pending, closed>>

Close == ~closed /\ closed' = TRUE /\ UNCHANGED <<pending, running>>

Next == Close \/ \E k \in Keys : Request(k) \/ Begin(k) \/ Fail(k) \/ End(k)

Fairness == \A k \in Keys : WF_vars(~closed /\ Begin(k)) /\ WF_vars(End(k))

Spec == Init /\ [][Next]_vars /\ Fairness
=============================================================================
