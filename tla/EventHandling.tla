---------------------------- MODULE EventHandling ----------------------------
(***************************************************************************)
(* What the event pipeline promises, without claims, leases, retries or    *)
(* workers: an event comes to be owed to all of its subscribers at once;   *)
(* what is owed is handled, once, or abandoned; both are final.            *)
(***************************************************************************)
EXTENDS Naturals

CONSTANTS Event, Consumer, Subscribers

Delivery == Event \X Consumer

VARIABLES
  state,    (* [Delivery -> none, owed, handled or abandoned]               *)
  runs      (* [Delivery -> handler runs that took effect]                  *)

vars == <<state, runs>>

Addressed(d) == d[2] \in Subscribers[d[1]]

Init ==
  /\ state = [d \in Delivery |-> "none"]
  /\ runs = [d \in Delivery |-> 0]

(* The events of S are announced to all their subscribers in one step. *)
Announce(S) ==
  /\ \A d \in Delivery : d[1] \in S => state[d] = "none"
  /\ state' = [d \in Delivery |->
                 IF d[1] \in S /\ Addressed(d) THEN "owed" ELSE state[d]]
  /\ UNCHANGED runs

Handle(d) ==
  /\ state[d] = "owed"
  /\ state' = [state EXCEPT ![d] = "handled"]
  /\ runs' = [runs EXCEPT ![d] = @ + 1]

Abandon(D) ==
  /\ \A d \in D : state[d] = "owed"
  /\ state' = [d \in Delivery |-> IF d \in D THEN "abandoned" ELSE state[d]]
  /\ UNCHANGED runs

Next ==
  \/ \E S \in SUBSET Event : Announce(S)
  \/ \E d \in Delivery : Handle(d)
  \/ \E D \in SUBSET Delivery : Abandon(D)

Spec == Init /\ [][Next]_vars
=============================================================================
