--------------------------- MODULE MCPublication ---------------------------
(* Small instances of Publication for TLC. *)
EXTENDS Publication

CONSTANTS a1, a2

(* A cover that is also an image, a cover with another image, and an image  *)
(* without a cover.                                                         *)
SomeContent ==
  {[cover |-> a1, images |-> {a1, a2}], [cover |-> a2, images |-> {a1}],
   [cover |-> NoAsset, images |-> {a1}]}
=============================================================================
