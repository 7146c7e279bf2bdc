--------------------------- MODULE MCDraftContent ---------------------------
(* Small inputs of DraftContent for TLC: documents and tag lists apart. *)
EXTENDS DraftContent, SequencesExt

CONSTANTS x, y, d

Blocks == [id : BlockID \ {d}, parent : (BlockID \ {d}) \cup {NoParent}, assets : {<<>>, <<x>>, <<x, y>>}]
Documents == [blocks : BoundedSeq(Blocks, 3), tags : {<<>>}]
TagLists == [blocks : {<<>>}, tags : BoundedSeq(Name, 4)]
(* Documents of roots, one block longer than MaxBlocks. *)
TooLong == [blocks : {s \in SeqOf([id : BlockID, parent : {NoParent}, assets : {<<>>}], 4) :
                       ToSet(s) # {} /\ \A j, k \in DOMAIN s : s[j] = s[k] => j = k}, tags : {<<>>}]
Chains == [blocks : BoundedSeq({b \in Blocks : b.assets = <<>>}, 3), tags : {<<>>}]

(* "Trip" and "trip" are equivalent, "sea" is another tag. *)
Folded(n) == IF n = "Trip" THEN "trip" ELSE n
DocumentsAndTags == Documents \cup TooLong \cup TagLists
=============================================================================
