----------------------------- MODULE MCDelivery -----------------------------
(* Small instances of Delivery for TLC. *)
EXTENDS Delivery, TLC

CONSTANTS e1, e2, c1, c2, w1, w2

(* e1 has two subscribers, e2 has a type the registry does not know. *)
MCSubscribers == (e1 :> {c1, c2}) @@ (e2 :> {})

(* One event and one subscriber, for a deeper search of a single row. *)
MCSingle == e1 :> {c1}
=============================================================================
