------------------------------- MODULE MCTags -------------------------------
(* Small instances of Tags for TLC. *)
EXTENDS Tags, SequencesExt, TLC

(* Lists of up to three names, in any order. *)
ShortLists == {l \in BoundedSeq(Name, 3) : IsInjective(l)}
Symmetry == Permutations(Publication)
=============================================================================
