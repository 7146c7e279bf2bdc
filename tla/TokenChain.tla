----------------------------- MODULE TokenChain -----------------------------
(***************************************************************************)
(* What userServer promises of a session's refresh tokens: a session is    *)
(* opened once, while it is live its tokens 0, 1, 2, ... are each accepted *)
(* once and in that order, and once ended it accepts none for ever.        *)
(***************************************************************************)
EXTENDS Naturals

CONSTANT Session

VARIABLE chain      (* [Session -> its life and the token it accepts next] *)

Link(life, next) == [life |-> life, next |-> next]

Init == chain = [s \in Session |-> Link("none", 0)]

Open(s) ==
  /\ chain[s].life = "none"
  /\ chain' = [chain EXCEPT ![s] = Link("live", 0)]

Accept(s) ==
  /\ chain[s].life = "live"
  /\ chain' = [chain EXCEPT ![s] = Link("live", @.next + 1)]

(* A logout ends one session, a new password all others of its user. *)
End(S) ==
  /\ \A s \in S : chain[s].life = "live"
  /\ chain' = [s \in Session |-> IF s \in S THEN Link("ended", chain[s].next) ELSE chain[s]]

Next ==
  \/ \E s \in Session : Open(s) \/ Accept(s)
  \/ \E S \in SUBSET Session : End(S)

Spec == Init /\ [][Next]_chain
=============================================================================
