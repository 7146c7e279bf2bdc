---------------------------- MODULE DraftContent ----------------------------
(***************************************************************************)
(* NewDraftContent of domain/draft_content.go and PrepareTagNames of       *)
(* domain/tag_name.go: a document's blocks are indexed one by one, and     *)
(* then the parents of every block are followed to a root.  The checks of  *)
(* single fields (lengths, encodings, types) are left out.                 *)
(***************************************************************************)
EXTENDS Naturals, Sequences, FiniteSets

CONSTANTS
  BlockID, NoParent, Asset,
  Name, Fold(_),       (* tag names, and what a name is compared by         *)
  Input,               (* the requests tried                                *)
  MaxBlocks, MaxImages, MaxTags

Block == [id : BlockID, parent : BlockID \cup {NoParent}, assets : Seq(Asset)]
ASSUME NoParentAssumption == NoParent \notin BlockID
ASSUME InputAssumption == Input \subseteq [blocks : Seq(Block), tags : Seq(Name)]
ASSUME LimitAssumption == {MaxBlocks, MaxImages, MaxTags} \subseteq Nat

VARIABLES
  req,      (* the document and the tag names of the request               *)
  pc,       (* "start", "index", "walk", "accepted" or "rejected"          *)
  i,        (* the block at hand                                           *)
  tags,     (* preparedTags                                                *)
  byID,     (* the keys of blockByID                                       *)
  refs,     (* content.AssetRefs                                           *)
  parent,   (* parentID                                                    *)
  seen      (* the parents of the block at hand that were passed           *)

vars == <<req, pc, i, tags, byID, refs, parent, seen>>

blocks == req.blocks
At(id) == CHOOSE k \in DOMAIN blocks : blocks[k].id = id

Init ==
  /\ req \in Input
  /\ pc = "start" /\ i = 1 /\ tags = <<>> /\ byID = {} /\ refs = <<>>
  /\ parent = NoParent /\ seen = {}

(* Mutant of IsRepeat: names are compared as they are shown. *)
IsSame(names, k) == \E j \in 1 .. k - 1 : names[j] = names[k]
(* seen[normalized] *)
IsRepeat(names, k) == \E j \in 1 .. k - 1 : Fold(names[j]) = Fold(names[k])

(* The names in order, without those equivalent to an earlier one. *)
PrepareTagNames(names) ==
  LET kept[k \in 0 .. Len(names)] ==
        IF k = 0 THEN <<>>
        ELSE IF IsRepeat(names, k) THEN kept[k - 1] ELSE Append(kept[k - 1], names[k])
  IN  kept[Len(names)]

Start ==
  /\ pc = "start"
  /\ IF Len(blocks) > MaxBlocks \/ Len(req.tags) > MaxTags
     THEN pc' = "rejected" /\ UNCHANGED tags
     ELSE pc' = "index" /\ tags' = PrepareTagNames(req.tags)
  /\ UNCHANGED <<req, i, byID, refs, parent, seen>>

IsDuplicate(b) == b.id \in byID

(* Mutant of TooManyImages: the limit is compared after appending. *)
TooManyAfter(b) == Len(refs) + Len(b.assets) >= MaxImages
TooManyImages(b) == Len(refs) + Len(b.assets) > MaxImages

(* One round of the first loop. *)
Index ==
  /\ pc = "index" /\ i <= Len(blocks)
  /\ LET b == blocks[i] IN
     IF IsDuplicate(b) \/ TooManyImages(b)
     THEN pc' = "rejected" /\ UNCHANGED <<i, byID, refs>>
     ELSE /\ byID' = byID \cup {b.id}
          /\ refs' = refs \o [k \in 1 .. Len(b.assets) |-> [block |-> b.id, asset |-> b.assets[k], order |-> k - 1]]
          /\ i' = i + 1 /\ UNCHANGED pc
  /\ UNCHANGED <<req, tags, parent, seen>>

(* The second loop turns to block k, or is done. *)
Turn(k) ==
  /\ i' = k /\ seen' = {}
  /\ IF k > Len(blocks) THEN pc' = "accepted" /\ parent' = NoParent
                        ELSE pc' = "walk" /\ parent' = blocks[k].parent

Indexed == pc = "index" /\ i > Len(blocks) /\ Turn(1) /\ UNCHANGED <<req, tags, byID, refs>>

(* Mutant of InCycle: only a way back to the block itself is noticed. *)
BackAtStart(id) == id = blocks[i].id
InCycle(id) == id \in seen \/ id = blocks[i].id

(* One round of the inner loop of the second loop. *)
Follow ==
  /\ pc = "walk" /\ parent # NoParent
  /\ IF InCycle(parent) \/ parent \notin byID
     THEN pc' = "rejected" /\ UNCHANGED <<parent, seen>>
     ELSE seen' = seen \cup {parent} /\ parent' = blocks[At(parent)].parent /\ UNCHANGED pc
  /\ UNCHANGED <<req, i, tags, byID, refs>>

AtRoot == pc = "walk" /\ parent = NoParent /\ Turn(i + 1) /\ UNCHANGED <<req, tags, byID, refs>>

Next == Start \/ Index \/ Indexed \/ Follow \/ AtRoot
Spec == Init /\ [][Next]_vars
FairSpec == Spec /\ WF_vars(Next)

-----------------------------------------------------------------------------
(* What a draft's document has to be, without following pointers. *)

IdsOf(S) == {blocks[k].id : k \in S}
Ids == IdsOf(DOMAIN blocks)
DistinctIDs == \A j, k \in DOMAIN blocks : blocks[j].id = blocks[k].id => j = k
ParentsExist == \A k \in DOMAIN blocks : blocks[k].parent \in Ids \cup {NoParent}
(* No set of blocks has all its parents within itself. *)
Within(S) == \A k \in S : blocks[k].parent \in IdsOf(S)
Acyclic == \A S \in (SUBSET DOMAIN blocks) \ {{}} : ~Within(S)
ImagesOf(k) == DOMAIN blocks[k].assets
ImagesTo(n) == UNION {{k} \X ImagesOf(k) : k \in 1 .. n}
Images == ImagesTo(Len(blocks))
Valid ==
  /\ Len(blocks) <= MaxBlocks /\ Len(req.tags) <= MaxTags /\ Cardinality(Images) <= MaxImages
  /\ DistinctIDs /\ ParentsExist /\ Acyclic

(* NewDraftContent accepts the forests within the limits and nothing else:
   no document is refused for the order of its blocks. *)
AcceptsForests ==
  /\ pc = "accepted" => Valid
  /\ pc = "rejected" => ~Valid

(* The first n blocks have one reference for every image, and no two of them
   have the same key in content_asset_ref, whose primary key is the block and
   the order. *)
RefsTo(n) ==
  /\ Len(refs) = Cardinality(ImagesTo(n))
  /\ \A j, k \in DOMAIN refs :
       refs[j].block = refs[k].block /\ refs[j].order = refs[k].order => j = k
  /\ {refs[j] : j \in DOMAIN refs} =
       {[block |-> blocks[m[1]].id, asset |-> blocks[m[1]].assets[m[2]], order |-> m[2] - 1] : m \in ImagesTo(n)}

(* An accepted document's references are its images. *)
RefsAreImages == pc = "accepted" => RefsTo(Len(blocks))

(* Of equivalent tag names the first is kept, in the author's order. *)
TagsKeepFirst ==
  pc = "accepted" =>
    /\ \A t \in Name : (\E k \in DOMAIN tags : tags[k] = t) <=>
         \E k \in DOMAIN req.tags : req.tags[k] = t /\ \A j \in 1 .. k - 1 : Fold(req.tags[j]) # Fold(t)
    /\ \A j, k \in DOMAIN tags : Fold(tags[j]) = Fold(tags[k]) => j = k

(* What NewDraftContent hands on to be stored is derived from what the author
   sent, nothing lost and nothing twice. *)
RefsAndTagsAreDerived == RefsAreImages /\ TagsKeepFirst

(* Following parents comes to an end, also from a block whose parents lead
   into a cycle it is not part of. *)
ValidationEnds == <>(pc \in {"accepted", "rejected"})
-----------------------------------------------------------------------------
(* The inductive invariant: what the loops have found out so far. *)

TypeOK ==
  /\ req \in Input /\ pc \in {"start", "index", "walk", "accepted", "rejected"}
  /\ i \in Nat \ {0}
  /\ refs \in Seq([block : BlockID, asset : Asset, order : Nat])
  /\ seen \subseteq BlockID

(* The first loop has passed n blocks: their ids are distinct and indexed. *)
IndexedTo(n) ==
  /\ byID = IdsOf(1 .. n)
  /\ \A j, k \in 1 .. n : blocks[j].id = blocks[k].id => j = k
  /\ Len(refs) <= MaxImages /\ RefsTo(n)

(* The second loop has passed n blocks: none of them is in a cycle or leads
   into one. *)
RootedTo(n) ==
  \A k \in 1 .. n :
    /\ blocks[k].parent \in Ids \cup {NoParent}
    /\ \A S \in SUBSET DOMAIN blocks : Within(S) => k \notin S

FirstLoop ==
  /\ pc = "start" => i = 1 /\ byID = {} /\ refs = <<>>
  /\ pc \in {"index", "walk", "accepted"} => Len(blocks) <= MaxBlocks /\ Len(req.tags) <= MaxTags
  /\ pc = "index" => i <= Len(blocks) + 1 /\ IndexedTo(i - 1)
  /\ pc \in {"walk", "accepted"} => IndexedTo(Len(blocks))

(* The blocks that were passed have their parents among those passed and the
   one at hand, which belongs to every cycle block i leads into. *)
SecondLoop ==
  /\ pc = "walk" =>
       /\ i \in DOMAIN blocks /\ RootedTo(i - 1)
       /\ \E k \in DOMAIN blocks : parent = blocks[k].parent
       /\ parent = blocks[i].parent \/ blocks[i].parent \in Ids
       /\ seen \subseteq Ids
       /\ \A k \in DOMAIN blocks :
            blocks[k].id \in seen \cup {blocks[i].id} => blocks[k].parent \in seen \cup {parent}
       /\ \A S \in SUBSET DOMAIN blocks : Within(S) /\ i \in S => parent \in IdsOf(S)
  /\ pc = "accepted" => RootedTo(Len(blocks))

DraftInv == TypeOK /\ FirstLoop /\ SecondLoop /\ AcceptsForests
=============================================================================
