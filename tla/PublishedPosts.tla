--------------------------- MODULE PublishedPosts ---------------------------
(***************************************************************************)
(* What contentServer promises of its posts: an author writes a draft and  *)
(* publishes it as it stands, what has been published is never changed,    *)
(* the card shows the newest publication or an earlier one and never goes  *)
(* back, and a deleted post has no card and stays deleted.                 *)
(***************************************************************************)
EXTENDS Naturals, Sequences

CONSTANTS Post, Content, Publishable, Nothing

VARIABLES
  stage,      (* [Post -> "absent", "draft", "published" or "deleted"]      *)
  text,       (* [Post -> the content of its draft, or Nothing]             *)
  history,    (* [Post -> the contents published, oldest first]             *)
  shown       (* [Post -> how many publications are known to its card]      *)

vars == <<stage, text, history, shown>>

Init ==
  /\ stage = [p \in Post |-> "absent"]
  /\ text = [p \in Post |-> Nothing]
  /\ history = [p \in Post |-> <<>>]
  /\ shown = [p \in Post |-> 0]

Write(p, c) ==
  /\ stage[p] # "deleted"
  /\ text' = [text EXCEPT ![p] = c]
  /\ stage' = [stage EXCEPT ![p] = IF @ = "absent" THEN "draft" ELSE @]
  /\ UNCHANGED <<history, shown>>

Publish(p) ==
  /\ stage[p] \in {"draft", "published"} /\ text[p] \in Publishable
  /\ stage' = [stage EXCEPT ![p] = "published"]
  /\ history' = [history EXCEPT ![p] = Append(@, text[p])]
  /\ UNCHANGED <<text, shown>>

Show(p) ==
  /\ stage[p] = "published" /\ shown[p] < Len(history[p])
  /\ shown' = [shown EXCEPT ![p] = Len(history[p])]
  /\ UNCHANGED <<stage, text, history>>

Delete(p) ==
  /\ stage[p] \in {"draft", "published"}
  /\ stage' = [stage EXCEPT ![p] = "deleted"]
  /\ shown' = [shown EXCEPT ![p] = 0]
  /\ UNCHANGED <<text, history>>

Next == \E p \in Post :
  Publish(p) \/ Show(p) \/ Delete(p) \/ \E c \in Content : Write(p, c)

Spec == Init /\ [][Next]_vars
=============================================================================
