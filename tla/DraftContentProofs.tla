-------------------------- MODULE DraftContentProofs --------------------------
(***************************************************************************)
(* Theorems about DraftContent, for any documents and any limits.          *)
(***************************************************************************)
EXTENDS DraftContent, FiniteSetTheorems, SequenceTheorems, WellFoundedInduction, TLAPS

USE NoParentAssumption, LimitAssumption

Ref == [block : BlockID, asset : Asset, order : Nat]

LEMMA UpTo == \A n \in Nat : IsFiniteSet(1 .. n) /\ Cardinality(1 .. n) = n
  <1> TAKE n \in Nat
  <1>1. 1 \in Int /\ n \in Int
    OBVIOUS
  <1>2. IsFiniteSet(1 .. n) /\ Cardinality(1 .. n) = IF 1 > n THEN 0 ELSE n - 1 + 1
    BY <1>1, FS_Interval, Zenon
  <1> QED
    BY <1>2

LEMMA Inputs ==
  ASSUME TypeOK
  PROVE  /\ blocks \in Seq(Block) /\ Len(blocks) \in Nat /\ DOMAIN blocks = 1 .. Len(blocks)
         /\ \A k \in DOMAIN blocks :
              /\ blocks[k].id \in BlockID /\ blocks[k].parent \in BlockID \cup {NoParent}
              /\ blocks[k].assets \in Seq(Asset) /\ Len(blocks[k].assets) \in Nat
              /\ ImagesOf(k) = 1 .. Len(blocks[k].assets)
         /\ refs \in Seq(Ref) /\ MaxBlocks \in Nat /\ MaxImages \in Nat /\ MaxTags \in Nat
  <1>1. blocks \in Seq(Block)
    BY InputAssumption DEF TypeOK, blocks
  <1>2. \A k \in DOMAIN blocks : blocks[k] \in Block
    BY <1>1, ElementOfSeq
  <1> QED
    BY <1>1, <1>2 DEF TypeOK, Block, Ref, ImagesOf

(* A request's document does not change while it is validated. *)
LEMMA Fixed ==
  ASSUME UNCHANGED req
  PROVE  /\ blocks' = blocks /\ Ids' = Ids /\ Valid' = Valid
         /\ \A S : IdsOf(S)' = IdsOf(S) /\ Within(S)' = Within(S)
         /\ \A n : ImagesTo(n)' = ImagesTo(n)
  <1>1. blocks' = blocks
    BY DEF blocks
  <1>2. \A S : IdsOf(S)' = IdsOf(S)
    BY <1>1 DEF IdsOf
  <1>3. \A S : Within(S)' = Within(S)
    BY <1>1, <1>2 DEF Within
  <1>4. \A n : ImagesTo(n)' = ImagesTo(n)
    BY <1>1 DEF ImagesTo, ImagesOf
  <1>5. Ids' = Ids
    BY <1>1 DEF Ids, IdsOf
  <1>6. Images' = Images
    BY <1>1 DEF Images, ImagesTo, ImagesOf
  <1>7. Acyclic' = Acyclic
    BY <1>1, <1>3 DEF Acyclic, Within, IdsOf
  <1>8. Valid' = Valid
    BY <1>1, <1>5, <1>6, <1>7 DEF Valid, DistinctIDs, ParentsExist
  <1> QED
    BY <1>1, <1>2, <1>3, <1>4, <1>5, <1>8

(* The images of the first n blocks, counted. *)
LEMMA ImagesFinite ==
  ASSUME TypeOK, NEW n \in 0 .. Len(blocks)
  PROVE  IsFiniteSet(ImagesTo(n)) /\ ImagesTo(n) \subseteq Images
  <1> DEFINE f == [k \in 1 .. n |-> {k} \X ImagesOf(k)]
             T == {{k} \X ImagesOf(k) : k \in 1 .. n}
  <1>1. IsFiniteSet(1 .. n)
    BY FS_Interval
  <1>2. f \in Surjection(1 .. n, T)
    BY DEF Surjection
  <1>3. IsFiniteSet(T)
    BY <1>1, <1>2, FS_Surjection DEF ExistsSurjection
  <1>4. ASSUME NEW k \in 1 .. n PROVE IsFiniteSet({k} \X ImagesOf(k))
    <2>1. IsFiniteSet({k})
      BY FS_Singleton
    <2>2. IsFiniteSet(ImagesOf(k))
      <3>1. k \in DOMAIN blocks /\ ImagesOf(k) = 1 .. Len(blocks[k].assets)
        <4>1. k \in 1 .. Len(blocks)
          BY Inputs
        <4> QED
          BY <4>1, Inputs
      <3>2. Len(blocks[k].assets) \in Nat
        BY <3>1, Inputs
      <3> QED
        BY <3>1, <3>2, UpTo
    <2> QED
      BY <2>1, <2>2, FS_Product
  <1>5. IsFiniteSet(UNION T)
    BY <1>3, <1>4, FS_UNION
  <1>6. ImagesTo(n) = UNION T
    BY DEF ImagesTo
  <1>7. 1 .. n \subseteq 1 .. Len(blocks)
    BY Inputs
  <1>8. ImagesTo(n) \subseteq Images
    BY <1>7, Zenon DEF ImagesTo, Images
  <1> QED
    BY <1>5, <1>6, <1>8

LEMMA ImagesAdd ==
  ASSUME TypeOK, NEW n \in 1 .. Len(blocks)
  PROVE  /\ ImagesTo(n) = ImagesTo(n - 1) \cup ({n} \X ImagesOf(n))
         /\ Cardinality(ImagesTo(n)) = Cardinality(ImagesTo(n - 1)) + Len(blocks[n].assets)
         /\ Cardinality(ImagesTo(n)) <= Cardinality(Images)
  <1> DEFINE new == {n} \X ImagesOf(n)
             L == Len(blocks[n].assets)
  <1>1. n \in Nat /\ n - 1 \in 0 .. Len(blocks) /\ n \in 0 .. Len(blocks) /\ Len(blocks) \in 0 .. Len(blocks)
        /\ L \in Nat /\ ImagesOf(n) = 1 .. L
    BY Inputs
  <1>2. 1 .. n = (1 .. n - 1) \cup {n}
    BY <1>1
  <1>3. ImagesTo(n) = ImagesTo(n - 1) \cup new
    BY <1>2, Zenon DEF ImagesTo
  <1>4. \A m \in ImagesTo(n - 1) : m[1] \in 1 .. n - 1
    BY DEF ImagesTo
  <1>5. ImagesTo(n - 1) \cap new = {}
    BY <1>1, <1>4
  <1>6. IsFiniteSet(new) /\ Cardinality(new) = L
    <2>1. IsFiniteSet({n}) /\ Cardinality({n}) = 1
      BY FS_Singleton
    <2>2. IsFiniteSet(1 .. L) /\ Cardinality(1 .. L) = L
      BY <1>1, UpTo
    <2>3. IsFiniteSet({n} \X (1 .. L)) /\ Cardinality({n} \X (1 .. L)) = Cardinality({n}) * Cardinality(1 .. L)
      BY <2>1, <2>2, FS_Product
    <2> QED
      BY <1>1, <2>1, <2>2, <2>3
  <1>7. IsFiniteSet(ImagesTo(n - 1)) /\ Cardinality(ImagesTo(n - 1)) \in Nat
    BY <1>1, ImagesFinite, FS_CardinalityType
  <1>8. Cardinality(ImagesTo(n)) = Cardinality(ImagesTo(n - 1)) + L
    <2>1. Cardinality(ImagesTo(n - 1) \cup new)
            = Cardinality(ImagesTo(n - 1)) + Cardinality(new) - Cardinality({})
      BY <1>5, <1>6, <1>7, FS_Union
    <2> QED
      BY <1>1, <1>3, <1>6, <1>7, <2>1, FS_EmptySet
  <1>9. IsFiniteSet(Images)
    BY <1>1, ImagesFinite DEF Images
  <1>10. ImagesTo(n) \subseteq Images
    BY <1>1, ImagesFinite
  <1>11. Cardinality(ImagesTo(n)) <= Cardinality(Images)
    BY <1>9, <1>10, FS_Subset
  <1> QED
    BY <1>3, <1>8, <1>11

LEMMA InitInv == Init => DraftInv
  BY DEF Init, DraftInv, TypeOK, FirstLoop, SecondLoop, AcceptsForests

LEMMA StartKeepsInv == DraftInv /\ Start => DraftInv'
  <1> SUFFICES ASSUME DraftInv, Start PROVE DraftInv'
    OBVIOUS
  <1> USE DEF DraftInv
  <1>1. UNCHANGED <<req, i, byID, refs, parent, seen>> /\ pc = "start" /\ i = 1 /\ byID = {} /\ refs = <<>>
    BY DEF Start, FirstLoop
  <1>2. TypeOK'
    BY <1>1 DEF TypeOK, Start
  <1>3. blocks' = blocks /\ Valid' = Valid
    BY <1>1, Fixed
  <1>4. CASE Len(blocks) > MaxBlocks \/ Len(req.tags) > MaxTags
    <2>1. pc' = "rejected"
      BY <1>4 DEF Start
    <2>2. ~Valid
      BY <1>4, Inputs, InputAssumption DEF Valid, TypeOK
    <2> QED
      BY <1>2, <1>3, <2>1, <2>2 DEF FirstLoop, SecondLoop, AcceptsForests
  <1>5. CASE ~(Len(blocks) > MaxBlocks \/ Len(req.tags) > MaxTags)
    <2>1. pc' = "index" /\ Len(blocks) <= MaxBlocks /\ Len(req.tags) <= MaxTags
      BY <1>5, Inputs, InputAssumption DEF Start, TypeOK
    <2>2. ImagesTo(0) = {} /\ ImagesTo(0)' = {}
      BY DEF ImagesTo
    <2>3. Len(refs) = 0 /\ Cardinality({}) = 0
      BY <1>1, FS_EmptySet
    <2>4. RefsTo(0)'
      <3>1. DOMAIN refs' = {} /\ Len(refs') = Cardinality(ImagesTo(0)')
        <4>1. refs' = refs /\ refs \in Seq(Ref)
          BY <1>1, Inputs
        <4>2. DOMAIN refs = 1 .. 0
          BY <2>3, <4>1
        <4>3. DOMAIN refs' = {}
          BY <4>1, <4>2
        <4>4. Len(refs') = 0
          BY <2>3, <4>1
        <4>5. Cardinality(ImagesTo(0)') = 0
          BY <2>2, <2>3
        <4> QED
          BY <4>3, <4>4, <4>5
      <3>2. {refs'[j] : j \in DOMAIN refs'} = {}
        BY <3>1
      <3> QED
        BY <2>2, <3>1, <3>2, Zenon DEF RefsTo
    <2>5. IndexedTo(0)'
      BY <1>1, <2>3, <2>4 DEF IndexedTo, IdsOf
    <2>6. (i - 1)' = 0 /\ i' <= Len(blocks) + 1
      BY <1>1, Inputs
    <2> QED
      BY <1>1, <1>2, <1>3, <2>1, <2>5, <2>6 DEF FirstLoop, SecondLoop, AcceptsForests
  <1> QED
    BY <1>4, <1>5

(* The second loop turns to a block, or ends. *)
LEMMA TurnKeepsInv ==
  ASSUME DraftInv, NEW k \in 1 .. Len(blocks) + 1, RootedTo(k - 1), IndexedTo(Len(blocks)),
         Len(blocks) <= MaxBlocks, Len(req.tags) <= MaxTags,
         Turn(k), UNCHANGED <<req, byID, refs>>
  PROVE  DraftInv'
  <1> USE DEF DraftInv
  <1>1. i' = k /\ seen' = {} /\ k \in Nat \ {0}
    BY Inputs DEF Turn
  <1>2. TypeOK'
    BY <1>1 DEF Turn, TypeOK
  <1>3. blocks' = blocks /\ Ids' = Ids /\ Valid' = Valid
        /\ \A S : IdsOf(S)' = IdsOf(S) /\ Within(S)' = Within(S)
        /\ \A n : ImagesTo(n)' = ImagesTo(n)
    BY Fixed
  <1>4. IndexedTo(Len(blocks))'
    BY <1>3 DEF IndexedTo, RefsTo, IdsOf
  <1>5. RootedTo(k - 1)'
    BY <1>3 DEF RootedTo
  <1>6. CASE k > Len(blocks)
    <2>1. pc' = "accepted" /\ k - 1 = Len(blocks)
      BY <1>6, Inputs DEF Turn
    <2>2. RootedTo(Len(blocks)) /\ RootedTo(Len(blocks))'
      BY <1>3, <2>1 DEF RootedTo
    <2>3. DistinctIDs /\ ParentsExist
      BY <2>2, Inputs DEF DistinctIDs, ParentsExist, IndexedTo, RootedTo
    <2>4. Acyclic
      BY <2>2, Inputs DEF Acyclic, RootedTo
    <2>5. Valid
      BY <2>3, <2>4 DEF Valid, Images, IndexedTo, RefsTo
    <2> QED
      BY <1>2, <1>3, <1>4, <2>1, <2>2, <2>5 DEF FirstLoop, SecondLoop, AcceptsForests
  <1>7. CASE k <= Len(blocks)
    <2>1. pc' = "walk" /\ parent' = blocks[k].parent /\ k \in DOMAIN blocks
      BY <1>7, Inputs DEF Turn
    <2>2. \A S \in SUBSET DOMAIN blocks : Within(S) /\ k \in S => parent' \in IdsOf(S)
      BY <2>1 DEF Within
    <2>3. \A j \in DOMAIN blocks : blocks[j].id \in {blocks[k].id} => blocks[j].parent = parent'
      BY <2>1, Inputs DEF IndexedTo
    <2>4. (i - 1)' = k - 1 /\ i' = k
      BY <1>1
    <2>5. SecondLoop'
      BY <1>1, <1>3, <1>5, <2>1, <2>2, <2>3, <2>4 DEF SecondLoop, RootedTo
    <2> QED
      BY <1>2, <1>3, <1>4, <2>1, <2>5 DEF FirstLoop, AcceptsForests
  <1> QED
    BY <1>6, <1>7, Inputs

LEMMA IndexedKeepsInv == DraftInv /\ Indexed => DraftInv'
  <1> SUFFICES ASSUME DraftInv, Indexed PROVE DraftInv'
    OBVIOUS
  <1>1. pc = "index" /\ i - 1 = Len(blocks) /\ Turn(1) /\ UNCHANGED <<req, byID, refs>>
    BY Inputs DEF Indexed, DraftInv, FirstLoop, TypeOK
  <1>2. IndexedTo(Len(blocks)) /\ Len(blocks) <= MaxBlocks /\ Len(req.tags) <= MaxTags
    BY <1>1 DEF DraftInv, FirstLoop
  <1>3. RootedTo(1 - 1) /\ 1 \in 1 .. Len(blocks) + 1
    BY Inputs DEF RootedTo, DraftInv
  <1> QED
    BY <1>1, <1>2, <1>3, TurnKeepsInv

LEMMA AtRootKeepsInv == DraftInv /\ AtRoot => DraftInv'
  <1> SUFFICES ASSUME DraftInv, AtRoot PROVE DraftInv'
    OBVIOUS
  <1>1. pc = "walk" /\ parent = NoParent /\ Turn(i + 1) /\ UNCHANGED <<req, byID, refs>>
    BY DEF AtRoot
  <1>2. IndexedTo(Len(blocks)) /\ Len(blocks) <= MaxBlocks /\ Len(req.tags) <= MaxTags
    BY <1>1 DEF DraftInv, FirstLoop
  <1>3. i \in 1 .. Len(blocks) /\ i + 1 \in 1 .. Len(blocks) + 1
    BY <1>1, Inputs DEF DraftInv, SecondLoop
  <1>4. blocks[i].parent \in Ids \cup {NoParent}
    BY <1>1 DEF DraftInv, SecondLoop
  <1>5. \A S \in SUBSET DOMAIN blocks : Within(S) => i \notin S
    <2> SUFFICES ASSUME NEW S \in SUBSET DOMAIN blocks, Within(S), i \in S PROVE FALSE
      OBVIOUS
    <2>1. NoParent \in IdsOf(S)
      BY <1>1 DEF DraftInv, SecondLoop
    <2> QED
      BY <2>1, Inputs DEF IdsOf, DraftInv
  <1>6. RootedTo((i + 1) - 1)
    BY <1>1, <1>3, <1>4, <1>5, Inputs DEF DraftInv, SecondLoop, RootedTo
  <1> HIDE DEF DraftInv
  <1> QED
    BY <1>1, <1>2, <1>3, <1>6, TurnKeepsInv

LEMMA FollowKeepsInv == DraftInv /\ Follow => DraftInv'
  <1> SUFFICES ASSUME DraftInv, Follow PROVE DraftInv'
    OBVIOUS
  <1> USE DEF DraftInv
  <1>1. pc = "walk" /\ parent # NoParent /\ UNCHANGED <<req, i, byID, refs>>
    BY DEF Follow
  <1>2. /\ i \in DOMAIN blocks /\ RootedTo(i - 1)
        /\ \E k \in DOMAIN blocks : parent = blocks[k].parent
        /\ parent = blocks[i].parent \/ blocks[i].parent \in Ids
        /\ seen \subseteq Ids
        /\ \A k \in DOMAIN blocks :
             blocks[k].id \in seen \cup {blocks[i].id} => blocks[k].parent \in seen \cup {parent}
        /\ \A S \in SUBSET DOMAIN blocks : Within(S) /\ i \in S => parent \in IdsOf(S)
    BY <1>1 DEF SecondLoop
  <1>3. IndexedTo(Len(blocks)) /\ byID = Ids /\ Len(blocks) <= MaxBlocks /\ Len(req.tags) <= MaxTags
        /\ \A j, k \in DOMAIN blocks : blocks[j].id = blocks[k].id => j = k
    BY <1>1, Inputs DEF FirstLoop, IndexedTo, Ids
  <1>4. blocks' = blocks /\ Ids' = Ids /\ Valid' = Valid
        /\ \A S : IdsOf(S)' = IdsOf(S) /\ Within(S)' = Within(S)
        /\ \A n : ImagesTo(n)' = ImagesTo(n)
    BY <1>1, Fixed
  <1>5. CASE InCycle(parent) \/ parent \notin byID
    <2>1. pc' = "rejected" /\ UNCHANGED seen
      BY <1>5 DEF Follow
    <2>4. ~Valid
      <3>1. CASE parent \notin byID
        <4>1. ~ParentsExist
          BY <1>1, <1>2, <1>3, <3>1 DEF ParentsExist
        <4> QED
          BY <4>1, Zenon DEF Valid
      <3>2. CASE InCycle(parent)
        <4> DEFINE P == seen \cup {blocks[i].id}
                   S == {k \in DOMAIN blocks : blocks[k].id \in P}
        <4>1. parent \in P
          BY <3>2 DEF InCycle
        <4>2. \A k \in S : blocks[k].parent \in P
          BY <1>2, <4>1
        <4>3. P \subseteq IdsOf(S)
          BY <1>2 DEF Ids, IdsOf
        <4>4. Within(S) /\ S \in (SUBSET DOMAIN blocks) \ {{}}
          BY <1>2, <4>2, <4>3 DEF Within
        <4> QED
          BY <4>4, Zenon DEF Valid, Acyclic
      <3> QED
        BY <1>5, <3>1, <3>2, Zenon
    <2>5. TypeOK'
      BY <1>1, <2>1 DEF TypeOK
    <2> QED
      BY <1>4, <2>1, <2>4, <2>5 DEF FirstLoop, SecondLoop, AcceptsForests
  <1>6. CASE ~InCycle(parent) /\ parent \in byID
    <2>1. pc' = "walk" /\ seen' = seen \cup {parent} /\ parent' = blocks[At(parent)].parent
      BY <1>1, <1>6 DEF Follow
    <2>2. PICK j \in DOMAIN blocks : blocks[j].id = parent
      BY <1>3, <1>6 DEF Ids, IdsOf
    <2>3. At(parent) = j
      BY <1>3, <2>2 DEF At
    <2>4. parent' = blocks[j].parent /\ parent \in BlockID
      BY <2>1, <2>2, <2>3, Inputs
    <2>5. TypeOK'
      BY <1>1, <2>1, <2>4 DEF TypeOK
    <2>6. IndexedTo(Len(blocks))'
      BY <1>1, <1>3, <1>4 DEF IndexedTo, RefsTo, IdsOf
    <2>7. RootedTo(i - 1)'
      BY <1>1, <1>2, <1>4 DEF RootedTo
    <2>8. parent \in Ids /\ blocks[i].parent \in Ids
      BY <1>2, <1>3, <1>6
    <2>9. \A k \in DOMAIN blocks :
            blocks[k].id \in seen' \cup {blocks[i].id} => blocks[k].parent \in seen' \cup {parent'}
      <3> SUFFICES ASSUME NEW k \in DOMAIN blocks, blocks[k].id \in seen' \cup {blocks[i].id}
                   PROVE  blocks[k].parent \in seen' \cup {parent'}
        OBVIOUS
      <3>1. CASE blocks[k].id = parent
        <4>1. k = j
          BY <1>3, <2>2, <3>1
        <4> QED
          BY <2>4, <4>1
      <3>2. CASE blocks[k].id # parent
        BY <1>2, <2>1, <3>2
      <3> QED
        BY <3>1, <3>2
    <2>10. \A S \in SUBSET DOMAIN blocks : Within(S) /\ i \in S => parent' \in IdsOf(S)
      <3> SUFFICES ASSUME NEW S \in SUBSET DOMAIN blocks, Within(S), i \in S
                   PROVE  parent' \in IdsOf(S)
        OBVIOUS
      <3>1. PICK m \in S : blocks[m].id = parent
        BY <1>2 DEF IdsOf
      <3>2. m = j
        BY <1>3, <2>2, <3>1
      <3> QED
        BY <2>4, <3>1, <3>2 DEF Within
    <2>11. SecondLoop'
      BY <1>1, <1>2, <1>4, <2>1, <2>4, <2>7, <2>8, <2>9, <2>10, <2>2 DEF SecondLoop
    <2> QED
      BY <1>1, <1>3, <1>4, <2>1, <2>5, <2>6, <2>11 DEF FirstLoop, AcceptsForests
  <1> QED
    BY <1>5, <1>6

(* One round of the first loop. *)
LEMMA IndexKeepsInv == DraftInv /\ Index => DraftInv'
  <1> SUFFICES ASSUME DraftInv, Index PROVE DraftInv'
    OBVIOUS
  <1> USE DEF DraftInv
  <1> DEFINE b == blocks[i]
             n == Len(refs)
             L == Len(b.assets)
  <1>1. /\ pc = "index" /\ UNCHANGED <<req, tags, parent, seen>>
        /\ i \in 1 .. Len(blocks) /\ i \in DOMAIN blocks /\ i \in Nat \ {0}
        /\ Len(blocks) <= MaxBlocks /\ Len(req.tags) <= MaxTags /\ IndexedTo(i - 1)
    BY Inputs DEF Index, FirstLoop, TypeOK
  <1>2. blocks' = blocks /\ Valid' = Valid /\ \A k : ImagesTo(k)' = ImagesTo(k)
    BY <1>1, Fixed
  <1>3. b.id \in BlockID /\ b.assets \in Seq(Asset) /\ n \in Nat /\ L \in Nat /\ ImagesOf(i) = 1 .. L
        /\ refs \in Seq(Ref)
    BY <1>1, Inputs
  <1>4. /\ ImagesTo(i) = ImagesTo(i - 1) \cup ({i} \X ImagesOf(i))
        /\ Cardinality(ImagesTo(i)) = n + L
        /\ Cardinality(ImagesTo(i)) <= Cardinality(Images)
    BY <1>1, ImagesAdd DEF IndexedTo, RefsTo
  <1>5. CASE IsDuplicate(b) \/ TooManyImages(b)
    <2>1. pc' = "rejected" /\ UNCHANGED <<i, refs>>
      BY <1>5 DEF Index
    <2>2. ~Valid
      <3>1. CASE IsDuplicate(b)
        <4>1. PICK k \in 1 .. i - 1 : blocks[k].id = b.id
          BY <1>1, <3>1 DEF IsDuplicate, IndexedTo, IdsOf
        <4>2. k \in DOMAIN blocks /\ k # i
          BY <1>1, <4>1, Inputs
        <4>3. ~DistinctIDs
          BY <1>1, <4>1, <4>2 DEF DistinctIDs
        <4> QED
          BY <4>3, Zenon DEF Valid
      <3>2. CASE TooManyImages(b)
        <4>1. ~(n + L <= MaxImages)
          BY <1>3, <3>2, Inputs DEF TooManyImages
        <4>2. Cardinality(Images) \in Nat
          BY Inputs, ImagesFinite, FS_CardinalityType DEF Images
        <4>3. ~(Cardinality(Images) <= MaxImages)
          BY <1>3, <1>4, <4>1, <4>2, Inputs
        <4> QED
          BY <4>3, Zenon DEF Valid
      <3> QED
        BY <1>5, <3>1, <3>2, Zenon
    <2>3. TypeOK'
      BY <1>1, <2>1 DEF TypeOK
    <2> QED
      BY <1>2, <2>1, <2>2, <2>3 DEF FirstLoop, SecondLoop, AcceptsForests
  <1>6. CASE ~(IsDuplicate(b) \/ TooManyImages(b))
    <2> PICK at \in Nat : at = i
      BY <1>1
    <2> DEFINE RefOf(m) == [block |-> blocks[m[1]].id, asset |-> blocks[m[1]].assets[m[2]], order |-> m[2] - 1]
               c == [k \in 1 .. L |-> RefOf(<<i, k>>)]
               Old == {refs[k] : k \in DOMAIN refs}
               New == {refs'[k] : k \in DOMAIN refs'}
    <2>1. /\ pc' = "index" /\ i' = i + 1 /\ byID' = byID \cup {b.id}
          /\ b.id \notin byID /\ refs' = refs \o c
      BY <1>1, <1>6 DEF Index, IsDuplicate
    <2>2. n + L <= MaxImages
      BY <1>3, <1>6, Inputs DEF TooManyImages
    <2>3. RefsTo(at - 1) /\ DOMAIN refs = 1 .. n
      BY <1>1, <1>3 DEF IndexedTo
    <2>4. /\ \A j, k \in 1 .. n : refs[j].block = refs[k].block /\ refs[j].order = refs[k].order => j = k
          /\ Old = {RefOf(m) : m \in ImagesTo(at - 1)}
      BY <2>3 DEF RefsTo
    <2>5. /\ \A k \in 1 .. L : c[k] = RefOf(<<i, k>>)
          /\ c \in Seq(Ref) /\ Len(c) = L
      <3>1. \A k \in 1 .. L : RefOf(<<i, k>>) \in Ref
        <4> TAKE k \in 1 .. L
        <4>1. b.assets[k] \in Asset /\ k - 1 \in Nat
          BY <1>3, ElementOfSeq
        <4> QED
          BY <1>3, <4>1 DEF Ref
      <3> QED
        BY <1>3, <3>1
    <2>6. \A k \in 1 .. L : c[k].block = b.id /\ c[k].order = k - 1
      BY <2>5
    <2>7. \A r : (\E k \in 1 .. L : r = c[k]) <=> \E m \in {at} \X ImagesOf(at) : r = RefOf(m)
      <3> TAKE r
      <3>1. ASSUME NEW k \in 1 .. L, r = c[k] PROVE \E m \in {at} \X ImagesOf(at) : r = RefOf(m)
        BY <1>3, <2>5, <3>1
      <3>2. ASSUME NEW m \in {at} \X ImagesOf(at), r = RefOf(m) PROVE \E k \in 1 .. L : r = c[k]
        <4>1. m = <<i, m[2]>> /\ m[2] \in 1 .. L
          BY <1>3
        <4> QED
          BY <2>5, <3>2, <4>1
      <3> QED
        BY <3>1, <3>2
    <2> HIDE DEF c, n, L
    <2>8a. refs \in Seq(Ref) /\ c \in Seq(Ref)
      BY <1>3, <2>5
    <2>8. /\ refs \o c \in Seq(Ref) /\ Len(refs \o c) = Len(refs) + Len(c)
          /\ \A k \in 1 .. Len(refs) + Len(c) :
               (refs \o c)[k] = IF k <= Len(refs) THEN refs[k] ELSE c[k - Len(refs)]
      BY <2>8a, ConcatProperties
    <2>9. /\ refs' \in Seq(Ref) /\ Len(refs') = n + L /\ DOMAIN refs' = 1 .. n + L
          /\ \A k \in 1 .. n + L : refs'[k] = IF k <= n THEN refs[k] ELSE c[k - n]
      BY <1>3, <2>1, <2>5, <2>8 DEF n
    <2>10. /\ \A k \in 1 .. n : refs'[k] = refs[k]
           /\ \A k \in 1 .. L : n + k \in 1 .. n + L /\ refs'[n + k] = c[k]
           /\ \A k \in 1 .. n + L : k \in 1 .. n \/ \E l \in 1 .. L : k = n + l
      <3>1. \A k \in 1 .. n : k \in 1 .. n + L /\ k <= n
        BY <1>3
      <3>2. \A k \in 1 .. L : n + k \in 1 .. n + L /\ ~(n + k <= n) /\ (n + k) - n = k
        BY <1>3
      <3>3. \A k \in 1 .. n + L : k \in 1 .. n \/ (k - n \in 1 .. L /\ k = n + (k - n))
        BY <1>3
      <3> QED
        BY <2>9, <3>1, <3>2, <3>3
    <2>11. \A k \in 1 .. n : refs[k].block \in byID
      <3> TAKE k \in 1 .. n
      <3>1. refs[k] \in Old
        BY <2>3
      <3>2. PICK m \in ImagesTo(at - 1) : refs[k] = RefOf(m)
        BY <2>4, <3>1
      <3>3. m[1] \in 1 .. i - 1
        BY DEF ImagesTo
      <3>4. blocks[m[1]].id \in byID
        BY <1>1, <3>3 DEF IndexedTo, IdsOf
      <3> QED
        BY <3>2, <3>4
    <2>12. \A j, k \in DOMAIN refs' :
             refs'[j].block = refs'[k].block /\ refs'[j].order = refs'[k].order => j = k
      <3> SUFFICES ASSUME NEW j \in 1 .. n + L, NEW k \in 1 .. n + L,
                          refs'[j].block = refs'[k].block, refs'[j].order = refs'[k].order
                   PROVE  j = k
        BY <2>9
      <3>1. CASE j \in 1 .. n /\ k \in 1 .. n
        BY <2>4, <2>10, <3>1
      <3>2. ASSUME NEW x \in 1 .. n, NEW l \in 1 .. L PROVE refs'[x].block # refs'[n + l].block
        BY <2>1, <2>6, <2>10, <2>11
      <3>3. ASSUME NEW x \in 1 .. L, NEW l \in 1 .. L, refs'[n + x].order = refs'[n + l].order PROVE x = l
        BY <2>6, <2>10, <3>3
      <3> QED
        BY <2>10, <3>1, <3>2, <3>3
    <2>13. New = {RefOf(m) : m \in ImagesTo(at)}
      <3>1. \A r : r \in New <=> r \in Old \/ \E k \in 1 .. L : r = c[k]
        <4> TAKE r
        <4>1. ASSUME r \in New PROVE r \in Old \/ \E k \in 1 .. L : r = c[k]
          BY <2>3, <2>9, <2>10, <4>1
        <4>2. ASSUME r \in Old PROVE r \in New
          <5>1. \A k \in 1 .. n : k \in 1 .. n + L
            BY <1>3
          <5> QED
            BY <2>3, <2>9, <2>10, <4>2, <5>1
        <4>3. ASSUME NEW k \in 1 .. L, r = c[k] PROVE r \in New
          BY <2>9, <2>10, <4>3
        <4> QED
          BY <4>1, <4>2, <4>3
      <3>2. ImagesTo(at) = ImagesTo(at - 1) \cup ({at} \X ImagesOf(at))
        BY <1>4
      <3>3. \A r : r \in New <=> \E m \in ImagesTo(at) : r = RefOf(m)
        <4>1. \A r : r \in Old <=> \E m \in ImagesTo(at - 1) : r = RefOf(m)
          BY <2>4
        <4>2. \A m : m \in ImagesTo(at) <=> m \in ImagesTo(at - 1) \/ m \in {at} \X ImagesOf(at)
          BY <3>2
        <4> TAKE r
        <4>3. r \in New <=> r \in Old \/ \E k \in 1 .. L : r = c[k]
          BY <3>1
        <4>4. r \in Old <=> \E m \in ImagesTo(at - 1) : r = RefOf(m)
          BY <4>1
        <4>5. (\E k \in 1 .. L : r = c[k]) <=> \E m \in {at} \X ImagesOf(at) : r = RefOf(m)
          BY <2>7
        <4> HIDE DEF RefOf, Old, New
        <4> QED
          BY <4>2, <4>3, <4>4, <4>5
      <3> QED
        BY <3>3
    <2>14. RefsTo(at)'
      <3>1. Len(refs') = Cardinality(ImagesTo(at)) /\ ImagesTo(at)' = ImagesTo(at)
        BY <1>2, <1>4, <2>9
      <3> QED
        BY <1>2, <2>12, <2>13, <3>1 DEF RefsTo
    <2>15. byID' = IdsOf(1 .. i) /\ IdsOf(1 .. at)' = IdsOf(1 .. at)
      <3>1. 1 .. i = (1 .. i - 1) \cup {i}
        BY <1>1
      <3> QED
        BY <1>1, <1>2, <2>1, <3>1 DEF IndexedTo, IdsOf
    <2>16. \A j, k \in 1 .. i : blocks[j].id = blocks[k].id => j = k
      <3>1. \A j \in 1 .. i : j = i \/ j \in 1 .. i - 1
        BY <1>1
      <3>2. \A j \in 1 .. i - 1 : blocks[j].id # b.id
        BY <1>1, <2>1 DEF IndexedTo, IdsOf
      <3> QED
        BY <1>1, <3>1, <3>2 DEF IndexedTo
    <2>17. TypeOK'
      BY <1>1, <2>1, <2>9 DEF TypeOK, Ref
    <2>18. IndexedTo(at)'
      BY <1>2, <2>2, <2>9, <2>14, <2>15, <2>16 DEF IndexedTo
    <2>19. i' - 1 = at /\ i' <= Len(blocks) + 1
      BY <1>1, <2>1, Inputs
    <2>20. FirstLoop'
      BY <1>1, <1>2, <2>1, <2>18, <2>19 DEF FirstLoop
    <2> QED
      BY <2>1, <2>17, <2>20 DEF SecondLoop, AcceptsForests
  <1> QED
    BY <1>5, <1>6

(* The invariant of the two loops holds. *)
THEOREM SpecDraftInv == Spec => []DraftInv
  <1>1. DraftInv /\ [Next]_vars => DraftInv'
    <2> SUFFICES ASSUME DraftInv, [Next]_vars PROVE DraftInv'
      OBVIOUS
    <2>1. CASE Next
      BY <2>1, StartKeepsInv, IndexKeepsInv, IndexedKeepsInv, FollowKeepsInv, AtRootKeepsInv, Zenon DEF Next
    <2>2. CASE UNCHANGED vars
      <3>1. UNCHANGED <<req, pc, i, tags, byID, refs, parent, seen>>
        BY <2>2 DEF vars
      <3>2. blocks' = blocks /\ Ids' = Ids /\ Valid' = Valid
            /\ \A S : IdsOf(S)' = IdsOf(S) /\ Within(S)' = Within(S)
            /\ \A n : ImagesTo(n)' = ImagesTo(n)
        BY <3>1, Fixed
      <3>3. TypeOK' /\ AcceptsForests'
        BY <3>1, <3>2 DEF DraftInv, TypeOK, AcceptsForests
      <3>4. FirstLoop'
        <4>1. \A n : RefsTo(n)' <=> RefsTo(n)
          BY <3>1, <3>2 DEF RefsTo
        <4>2. \A n : IndexedTo(n)' <=> IndexedTo(n)
          BY <3>1, <3>2, <4>1 DEF IndexedTo
        <4> QED
          BY <3>1, <3>2, <4>2 DEF DraftInv, FirstLoop
      <3>5. SecondLoop'
        BY <3>1, <3>2 DEF DraftInv, SecondLoop, RootedTo
      <3> QED
        BY <3>3, <3>4, <3>5 DEF DraftInv
    <2> QED
      BY <2>1, <2>2
  <1> QED
    BY InitInv, <1>1, PTL DEF Spec

(* NewDraftContent accepts exactly the forests within the limits. *)
THEOREM SpecAcceptsForests == Spec => []AcceptsForests
  <1>1. DraftInv => AcceptsForests
    BY DEF DraftInv
  <1> QED
    BY <1>1, SpecDraftInv, PTL

(* The references of an accepted document are its images, each once. *)
THEOREM SpecRefsAreImages == Spec => []RefsAreImages
  <1>1. DraftInv => RefsAreImages
    BY DEF DraftInv, FirstLoop, IndexedTo, RefsAreImages
  <1> QED
    BY <1>1, SpecDraftInv, PTL

-----------------------------------------------------------------------------
(* PrepareTagNames.  Its recursion is unfolded by least counterexamples. *)

LEMMA LeastNumber ==
  ASSUME NEW T, T \subseteq Nat, T # {}
  PROVE  \E n \in T : \A m \in T : ~(m < n)
  <1>1. PICK n \in T : \A m \in T : ~(<<m, n>> \in OpToRel(<, Nat))
    BY WFMin, NatLessThanWellFounded
  <1> QED
    BY <1>1 DEF OpToRel

(* f is the list of kept names after each of the first n names. *)
Keeps(names, f, n) ==
  f = [k \in 0 .. n |->
         IF k = 0 THEN <<>>
         ELSE IF IsRepeat(names, k) THEN f[k - 1] ELSE Append(f[k - 1], names[k])]

LEMMA KeepsExists == ASSUME NEW names, NEW n \in Nat PROVE \E f : Keeps(names, f, n)
  <1> DEFINE T == {m \in Nat : \A f : ~Keeps(names, f, m)}
  <1> SUFFICES ASSUME T # {} PROVE FALSE
    OBVIOUS
  <1>1. PICK m \in T : \A l \in T : ~(l < m)
    BY LeastNumber
  <1>2. CASE m = 0
    <2>1. 0 .. 0 = {0}
      OBVIOUS
    <2>2. Keeps(names, [k \in {0} |-> <<>>], 0)
      BY <2>1 DEF Keeps
    <2> QED
      BY <1>2, <2>2
  <1>3. CASE m # 0
    <2>1. m - 1 \in Nat /\ m - 1 \notin T
      BY <1>1, <1>3
    <2>2. PICK f : Keeps(names, f, m - 1)
      BY <2>1
    <2> DEFINE g == [k \in 0 .. m |->
                       IF k < m THEN f[k]
                       ELSE IF IsRepeat(names, m) THEN f[m - 1] ELSE Append(f[m - 1], names[m])]
    <2>3. \A k \in 0 .. m - 1 : g[k] = f[k] /\ k \in 0 .. m
      BY <1>1
    <2>4. \A k \in 0 .. m - 1 :
            f[k] = IF k = 0 THEN <<>>
                   ELSE IF IsRepeat(names, k) THEN f[k - 1] ELSE Append(f[k - 1], names[k])
      BY <2>2, Zenon DEF Keeps
    <2>5. \A k \in 0 .. m :
            g[k] = IF k = 0 THEN <<>>
                   ELSE IF IsRepeat(names, k) THEN g[k - 1] ELSE Append(g[k - 1], names[k])
      <3> TAKE k \in 0 .. m
      <3>1. CASE k = m
        BY <1>1, <1>3, <2>3, <3>1
      <3>2. CASE k # m
        <4>1. k \in 0 .. m - 1 /\ (k # 0 => k - 1 \in 0 .. m - 1)
          BY <1>1, <3>2
        <4> QED
          BY <2>3, <2>4, <4>1
      <3> QED
        BY <3>1, <3>2
    <2>6. g = [k \in 0 .. m |-> g[k]]
      OBVIOUS
    <2> HIDE DEF g
    <2>7. Keeps(names, g, m)
      BY <2>5, <2>6 DEF Keeps
    <2> QED
      BY <2>7
  <1> QED
    BY <1>2, <1>3

(* What is kept of the first n names: of equivalent ones the first. *)
KeepsFirst(names, kept) ==
  /\ \A t \in Name : (\E k \in DOMAIN kept : kept[k] = t) <=>
       \E k \in DOMAIN names : names[k] = t /\ \A j \in 1 .. k - 1 : Fold(names[j]) # Fold(t)
  /\ \A j, k \in DOMAIN kept : Fold(kept[j]) = Fold(kept[k]) => j = k

LEMMA TagsPreparedOnce ==
  ASSUME NEW names \in Seq(Name)
  PROVE  KeepsFirst(names, PrepareTagNames(names))
  <1> DEFINE N == Len(names)
             f == CHOOSE g : Keeps(names, g, N)
             First(t, n) == \E k \in 1 .. n : names[k] = t /\ \A j \in 1 .. k - 1 : Fold(names[j]) # Fold(t)
             Right(n) ==
               /\ f[n] \in Seq(Name)
               /\ \A t \in Name : (\E k \in DOMAIN f[n] : f[n][k] = t) <=> First(t, n)
               /\ \A j, k \in DOMAIN f[n] : Fold(f[n][j]) = Fold(f[n][k]) => j = k
             T == {n \in 0 .. N : ~Right(n)}
  <1>1. N \in Nat /\ DOMAIN names = 1 .. N /\ \A k \in 1 .. N : names[k] \in Name
    BY ElementOfSeq
  <1>2. Keeps(names, f, N)
    <2>1. \E g : Keeps(names, g, N)
      BY <1>1, KeepsExists
    <2> QED
      BY <2>1, Zenon
  <1>3. PrepareTagNames(names) = f[N]
    BY DEF PrepareTagNames, Keeps
  <1> HIDE DEF f
  <1>4. \A n \in 0 .. N :
          f[n] = IF n = 0 THEN <<>>
                 ELSE IF IsRepeat(names, n) THEN f[n - 1] ELSE Append(f[n - 1], names[n])
    BY <1>2, Zenon DEF Keeps
  <1>5. T = {}
    <2> SUFFICES ASSUME T # {} PROVE FALSE
      OBVIOUS
    <2>1. PICK n \in T : \A l \in T : ~(l < n)
      <3>1. T \subseteq Nat
        BY <1>1
      <3> HIDE DEF T
      <3> QED
        BY <3>1, LeastNumber
    <2>2. CASE n = 0
      <3>1. f[0] = <<>>
        BY <1>1, <1>4
      <3>2. \A t : ~First(t, 0)
        OBVIOUS
      <3>3. <<>> \in Seq(Name) /\ DOMAIN (<<>>) = {}
        OBVIOUS
      <3>4. Right(0)
        BY <3>1, <3>2, <3>3
      <3> QED
        BY <2>1, <2>2, <3>4
    <2>3. CASE n # 0
      <3> DEFINE r == f[n - 1]
      <3>1. n \in 1 .. N /\ n - 1 \in 0 .. N /\ n - 1 \in Nat /\ n - 1 < n
        BY <1>1, <2>1, <2>3
      <3>2. Right(n - 1)
        BY <2>1, <3>1
      <3>3. f[n] = IF IsRepeat(names, n) THEN r ELSE Append(r, names[n])
        BY <1>4, <2>3, <3>1
      <3>4. \A t : First(t, n) <=> First(t, n - 1) \/ (names[n] = t /\ ~IsRepeat(names, n))
        <4>1. \A k \in 1 .. n : k = n \/ k \in 1 .. n - 1
          BY <3>1
        <4>2. \A k \in 1 .. n - 1 : k \in 1 .. n
          BY <3>1
        <4>3. n \in 1 .. n
          BY <3>1
        <4> QED
          BY <4>1, <4>2, <4>3 DEF IsRepeat
      <3> HIDE DEF First
      <3>5. CASE IsRepeat(names, n)
        BY <2>1, <3>2, <3>3, <3>4, <3>5
      <3>6. CASE ~IsRepeat(names, n)
        <4>1. /\ f[n] = Append(r, names[n]) /\ r \in Seq(Name) /\ names[n] \in Name
              /\ f[n] \in Seq(Name) /\ Len(f[n]) = Len(r) + 1 /\ Len(r) \in Nat
              /\ DOMAIN r = 1 .. Len(r) /\ DOMAIN f[n] = 1 .. Len(r) + 1
              /\ \A k \in 1 .. Len(r) : f[n][k] = r[k] /\ k \in 1 .. Len(r) + 1
              /\ f[n][Len(r) + 1] = names[n] /\ Len(r) + 1 \in 1 .. Len(r) + 1
              /\ \A k \in 1 .. Len(r) + 1 : k = Len(r) + 1 \/ k \in 1 .. Len(r)
          <5>1. f[n] = Append(r, names[n])
            BY <3>3, <3>6
          <5>2. r \in Seq(Name) /\ names[n] \in Name
            BY <1>1, <3>1, <3>2
          <5> HIDE DEF r
          <5> QED
            BY <5>1, <5>2
        <4>2. \A t \in Name : (\E k \in DOMAIN f[n] : f[n][k] = t) <=> First(t, n)
          <5> TAKE t \in Name
          <5>1. (\E k \in 1 .. Len(r) : r[k] = t) <=> First(t, n - 1)
            BY <3>2, <4>1
          <5>2. (\E k \in DOMAIN f[n] : f[n][k] = t) <=> (\E k \in 1 .. Len(r) : r[k] = t) \/ names[n] = t
            BY <4>1
          <5> QED
            BY <3>4, <3>6, <5>1, <5>2
        <4>3. \A k \in 1 .. Len(r) : Fold(r[k]) # Fold(names[n])
          <5> TAKE k \in 1 .. Len(r)
          <5>1. r[k] \in Name /\ First(r[k], n - 1)
            BY <3>2, <4>1, ElementOfSeq
          <5>2. PICK j \in 1 .. n - 1 : names[j] = r[k]
            BY <5>1 DEF First
          <5> QED
            BY <3>6, <5>2 DEF IsRepeat
        <4>4. \A j, k \in DOMAIN f[n] : Fold(f[n][j]) = Fold(f[n][k]) => j = k
          BY <3>2, <4>1, <4>3
        <4> QED
          BY <2>1, <4>1, <4>2, <4>4
      <3> QED
        BY <3>5, <3>6
    <2> QED
      BY <2>2, <2>3
  <1>6. Right(N)
    <2>1. N \in 0 .. N
      BY <1>1
    <2> HIDE DEF N, Right
    <2> QED
      BY <1>5, <2>1
  <1>7. \A t : First(t, N) <=>
          \E k \in DOMAIN names : names[k] = t /\ \A j \in 1 .. k - 1 : Fold(names[j]) # Fold(t)
    BY <1>1
  <1> HIDE DEF First
  <1> QED
    BY <1>3, <1>6, <1>7 DEF KeepsFirst

(* What is stored with an accepted document is derived from the request. *)
THEOREM SpecRefsAndTagsAreDerived == Spec => []RefsAndTagsAreDerived
  <1> DEFINE Prepared ==
        /\ req \in Input
        /\ pc \in {"index", "walk", "accepted"} => tags = PrepareTagNames(req.tags)
  <1>1. Init => Prepared
    BY DEF Init
  <1>2. Prepared /\ [Next]_vars => Prepared'
    <2> SUFFICES ASSUME Prepared, [Next]_vars PROVE Prepared'
      OBVIOUS
    <2>1. CASE Start
      BY <2>1 DEF Start
    <2>2. CASE Index \/ Indexed \/ Follow \/ AtRoot \/ UNCHANGED vars
      <3>1. req' = req /\ tags' = tags /\ (pc \in {"index", "walk", "accepted"} \/ pc' = pc)
        BY <2>2 DEF Index, Indexed, Follow, AtRoot, vars
      <3> QED
        BY <3>1
    <2> QED
      BY <2>1, <2>2 DEF Next
  <1>3. Prepared /\ RefsAreImages => RefsAndTagsAreDerived
    <2> SUFFICES ASSUME Prepared, RefsAreImages, pc = "accepted" PROVE TagsKeepFirst
      BY DEF RefsAndTagsAreDerived, TagsKeepFirst
    <2>1. tags = PrepareTagNames(req.tags) /\ req.tags \in Seq(Name)
      BY InputAssumption
    <2>2. KeepsFirst(req.tags, PrepareTagNames(req.tags))
      BY <2>1, TagsPreparedOnce
    <2> QED
      BY <2>1, <2>2 DEF KeepsFirst, TagsKeepFirst
  <1> QED
    BY <1>1, <1>2, <1>3, SpecRefsAreImages, PTL DEF Spec

-----------------------------------------------------------------------------
(* How long validation takes. *)

(* How many rounds of the loops are left at most. *)
RoundsLeft ==
  LET n == Len(blocks) IN
  CASE pc = "start" -> n * n + n + 2
    [] pc = "index" -> n * n + (n + 2 - i)
    [] pc = "walk"  -> (n - i) * n + (n - Cardinality(seen))
    [] OTHER        -> 0

(* The block at hand is not among the parents passed, or its walk would have
   ended: so a walk passes fewer parents than there are blocks. *)
SeenOthers == pc = "walk" => seen \subseteq Ids \ {blocks[i].id}

(* Every round brings the end nearer, whatever the document: it is validated in
   at most n * n + n + 2 of them, n the number of its blocks, although parents
   may lead in a circle (draft_content.go:92-106). *)
RoundsFall ==
  /\ [](RoundsLeft \in 0 .. Len(blocks) * Len(blocks) + Len(blocks) + 2)
  /\ [][RoundsLeft' < RoundsLeft]_vars

LEMMA Products ==
  ASSUME NEW n \in Nat
  PROVE  /\ n * n \in Nat
         /\ \A k \in 1 .. n : /\ (n - k) * n \in Nat /\ (n - k) * n <= n * n - n
                            /\ (n - (k + 1)) * n = (n - k) * n - n
  <1>1. n * n \in Nat
    BY SMT
  <1>2. ASSUME NEW k \in 1 .. n
        PROVE  /\ (n - k) * n \in Nat /\ (n - k) * n <= n * n - n
               /\ (n - (k + 1)) * n = (n - k) * n - n
    <2>1. (n - k) * n = n * n - k * n /\ (n - (k + 1)) * n = n * n - k * n - n
      BY SMT
    <2>2. n - k \in Nat /\ k - 1 \in Nat
      BY SMT
    <2>3. (n - k) * n \in Nat /\ (k - 1) * n \in Nat
      BY <2>2, SMT
    <2>4. (k - 1) * n = k * n - n
      BY SMT
    <2> QED
      BY <2>1, <2>3, <2>4, SMT
  <1> QED
    BY <1>1, <1>2

(* A walk has passed fewer parents than there are blocks. *)
LEMMA FewSeen ==
  ASSUME DraftInv, SeenOthers, pc = "walk"
  PROVE  IsFiniteSet(seen) /\ Cardinality(seen) \in Nat /\ Cardinality(seen) < Len(blocks)
  <1>1. DOMAIN blocks = 1 .. Len(blocks) /\ Len(blocks) \in Nat /\ i \in DOMAIN blocks
    BY Inputs DEF DraftInv, SecondLoop
  <1>2. IsFiniteSet(DOMAIN blocks) /\ Cardinality(DOMAIN blocks) = Len(blocks)
    BY <1>1, UpTo
  <1>3. [k \in DOMAIN blocks |-> blocks[k].id] \in Surjection(DOMAIN blocks, Ids)
    BY DEF Ids, IdsOf, Surjection
  <1>4. IsFiniteSet(Ids) /\ Cardinality(Ids) <= Len(blocks)
    BY <1>2, <1>3, FS_Surjection
  <1>5. blocks[i].id \in Ids
    BY <1>1 DEF Ids, IdsOf
  <1>6. /\ IsFiniteSet(Ids \ {blocks[i].id})
        /\ Cardinality(Ids \ {blocks[i].id}) = Cardinality(Ids) - 1
    BY <1>4, <1>5, FS_RemoveElement
  <1>7. /\ IsFiniteSet(seen)
        /\ Cardinality(seen) <= Cardinality(Ids \ {blocks[i].id})
    BY <1>6, FS_Subset DEF SeenOthers
  <1>8. Cardinality(seen) \in Nat /\ Cardinality(Ids) \in Nat
    BY <1>4, <1>7, FS_CardinalityType
  <1> QED
    BY <1>1, <1>4, <1>6, <1>7, <1>8

LEMMA StepKeepsSeenOthers == DraftInv /\ SeenOthers /\ [Next]_vars => SeenOthers'
  <1> SUFFICES ASSUME DraftInv, SeenOthers, [Next]_vars, pc' = "walk"
               PROVE  seen' \subseteq (Ids \ {blocks[i].id})'
    BY DEF SeenOthers
  <1>1. UNCHANGED req
    BY DEF Next, Start, Index, Indexed, Follow, AtRoot, vars
  <1>2. blocks' = blocks /\ Ids' = Ids
    BY <1>1, Fixed
  <1>3. CASE Follow
    <2>1. /\ pc = "walk" /\ i' = i
          /\ parent \in byID /\ parent # blocks[i].id /\ seen' = seen \cup {parent}
      BY <1>3 DEF Follow, InCycle
    <2>2. byID = Ids
      BY <2>1, Inputs DEF DraftInv, FirstLoop, IndexedTo, Ids
    <2> QED
      BY <1>2, <2>1, <2>2 DEF SeenOthers
  <1>4. CASE Indexed \/ AtRoot
    BY <1>4 DEF Indexed, AtRoot, Turn
  <1>5. CASE Start \/ Index \/ UNCHANGED vars
    <2>1. pc = "walk" /\ UNCHANGED <<i, seen>>
      BY <1>5 DEF Start, Index, vars
    <2> QED
      BY <1>2, <2>1 DEF SeenOthers
  <1> QED
    BY <1>3, <1>4, <1>5 DEF Next

LEMMA RoundsAreBounded ==
  ASSUME DraftInv, SeenOthers
  PROVE  RoundsLeft \in 0 .. Len(blocks) * Len(blocks) + Len(blocks) + 2
  <1>0. Len(blocks) \in Nat
    BY Inputs DEF DraftInv
  <1>1. PICK n \in Nat : n = Len(blocks)
    BY <1>0, Zenon
  <1>2. PICK m \in Nat : m = n * n
    BY Products
  <1>3. pc = "index" => i \in 1 .. n + 1
    BY <1>1 DEF DraftInv, TypeOK, FirstLoop
  <1>4. CASE pc = "walk"
    <2>1. i \in 1 .. n
      BY <1>1, <1>4, Inputs DEF DraftInv, SecondLoop
    <2>2. PICK r \in Nat : r = (n - i) * n /\ r <= m - n
      BY <1>2, <2>1, Products
    <2>3. PICK c \in Nat : c = Cardinality(seen) /\ c < n
      BY <1>1, <1>4, FewSeen
    <2>4. RoundsLeft = r + (n - c)
      BY <1>1, <1>4, <2>2, <2>3 DEF RoundsLeft
    <2>5. r + (n - c) \in 0 .. m + n + 2
      BY <1>1, <2>2, <2>3
    <2> QED
      BY <1>1, <1>2, <2>4, <2>5
  <1>5. CASE pc = "start"
    <2>1. RoundsLeft = m + n + 2
      BY <1>1, <1>2, <1>5 DEF RoundsLeft
    <2> QED
      BY <1>1, <1>2, <2>1
  <1>6. CASE pc = "index"
    <2>1. RoundsLeft = m + (n + 2 - i)
      BY <1>1, <1>2, <1>6 DEF RoundsLeft
    <2>2. m + (n + 2 - i) \in 0 .. m + n + 2
      BY <1>3, <1>6
    <2> QED
      BY <1>1, <1>2, <2>1, <2>2
  <1>7. CASE pc \notin {"start", "index", "walk"}
    <2>1. RoundsLeft = 0
      BY <1>7 DEF RoundsLeft
    <2>2. 0 \in 0 .. m + n + 2
      OBVIOUS
    <2> QED
      BY <1>1, <1>2, <2>1, <2>2
  <1> QED
    BY <1>4, <1>5, <1>6, <1>7

LEMMA StepLowersRounds ==
  ASSUME DraftInv, SeenOthers, DraftInv', SeenOthers', Next
  PROVE  RoundsLeft' < RoundsLeft
  <1>0. Len(blocks) \in Nat
    BY Inputs DEF DraftInv
  <1>1. PICK n \in Nat : n = Len(blocks)
    BY <1>0, Zenon
  <1>2. PICK m \in Nat : m = n * n
    BY Products
  <1>3. Len(blocks)' = n
    <2>1. UNCHANGED req
      BY DEF Next, Start, Index, Indexed, Follow, AtRoot
    <2> QED
      BY <1>1, <2>1 DEF blocks
  <1>4. pc' \notin {"start", "index", "walk"} => RoundsLeft' = 0
    BY DEF RoundsLeft
  <1>5. pc' = "index" => RoundsLeft' = m + (n + 2 - i')
    BY <1>2, <1>3 DEF RoundsLeft
  <1>6. pc' = "walk" => RoundsLeft' = (n - i') * n + (n - Cardinality(seen'))
    BY <1>3 DEF RoundsLeft
  <1>7. i \in Nat /\ i # 0
    BY DEF DraftInv, TypeOK
  <1>8. CASE Start
    <2>1. RoundsLeft = m + n + 2
      BY <1>1, <1>2, <1>8 DEF Start, RoundsLeft
    <2>2. pc' = "rejected" \/ (pc' = "index" /\ i' = i)
      BY <1>8 DEF Start
    <2> QED
      BY <1>4, <1>5, <1>7, <2>1, <2>2
  <1>9. CASE Index
    <2>1. i <= n /\ RoundsLeft = m + (n + 2 - i)
      BY <1>1, <1>2, <1>9 DEF Index, RoundsLeft
    <2>2. pc' = "rejected" \/ (pc' = "index" /\ i' = i + 1)
      BY <1>9 DEF Index
    <2> QED
      BY <1>4, <1>5, <1>7, <2>1, <2>2
  <1>10. CASE Indexed
    <2>1. i = n + 1 /\ RoundsLeft = m + (n + 2 - i)
      BY <1>1, <1>2, <1>10 DEF Indexed, RoundsLeft, DraftInv, FirstLoop, TypeOK
    <2>2. pc' = "accepted" \/ (pc' = "walk" /\ i' = 1 /\ seen' = {} /\ 1 <= n)
      BY <1>1, <1>10 DEF Indexed, Turn
    <2>3. 1 <= n => (n - 1) * n <= m - n /\ (n - 1) * n \in Nat
      BY <1>2, Products
    <2>4. ASSUME pc' = "walk" PROVE 1 <= n /\ RoundsLeft' = (n - 1) * n + (n - 0)
      <3>1. i' = 1 /\ seen' = {} /\ 1 <= n
        BY <2>2, <2>4
      <3>2. Cardinality(seen') = 0
        BY <3>1, FS_EmptySet
      <3>3. RoundsLeft' = (n - i') * n + (n - Cardinality(seen'))
        BY <1>6, <2>4
      <3> QED
        BY <3>1, <3>2, <3>3, Zenon
    <2>5. RoundsLeft = m + 1
      BY <2>1
    <2>6. pc' = "walk" => RoundsLeft' <= m
      BY <2>3, <2>4
    <2>7. pc' = "accepted" => RoundsLeft' = 0
      BY <1>4
    <2> QED
      BY <2>2, <2>3, <2>4, <2>5, <2>6, <2>7
  <1>11. CASE Follow
    <2>1. pc = "walk" /\ i' = i /\ RoundsLeft = (n - i) * n + (n - Cardinality(seen))
      BY <1>1, <1>11 DEF Follow, RoundsLeft
    <2>2. \/ pc' = "rejected"
          \/ pc' = "walk" /\ parent \notin seen /\ seen' = seen \cup {parent}
      BY <1>11 DEF Follow, InCycle
    <2>3. IsFiniteSet(seen) /\ Cardinality(seen) \in Nat /\ Cardinality(seen) < n
      BY <1>1, <2>1, FewSeen
    <2>4. parent \notin seen => Cardinality(seen \cup {parent}) = Cardinality(seen) + 1
      BY <2>3, FS_AddElement
    <2>5. (n - i) * n \in Nat
      BY <1>1, <2>1, Products, Inputs DEF DraftInv, SecondLoop
    <2>6. PICK r \in Nat : r = (n - i) * n
      BY <2>5, Zenon
    <2>7. PICK c \in Nat : c = Cardinality(seen) /\ c < n
      BY <2>3
    <2>8. RoundsLeft = r + (n - c)
      BY <2>1, <2>6, <2>7
    <2>9. pc' = "rejected" => RoundsLeft' = 0
      BY <1>4
    <2>10. pc' = "walk" => RoundsLeft' = r + (n - (c + 1))
      BY <1>6, <2>1, <2>2, <2>4, <2>6, <2>7
    <2> QED
      BY <2>2, <2>7, <2>8, <2>9, <2>10
  <1>12. CASE AtRoot
    <2>1. pc = "walk" /\ RoundsLeft = (n - i) * n + (n - Cardinality(seen))
      BY <1>1, <1>12 DEF AtRoot, RoundsLeft
    <2>2. pc' = "accepted" \/ (pc' = "walk" /\ i' = i + 1 /\ seen' = {})
      BY <1>12 DEF AtRoot, Turn
    <2>3. Cardinality(seen) \in Nat /\ Cardinality(seen) < n
      BY <1>1, <2>1, FewSeen
    <2>4. (n - (i + 1)) * n = (n - i) * n - n /\ (n - i) * n \in Nat
      BY <1>1, <2>1, Products, Inputs DEF DraftInv, SecondLoop
    <2> QED
      BY <1>4, <1>6, <2>1, <2>2, <2>3, <2>4, FS_EmptySet
  <1> QED
    BY <1>8, <1>9, <1>10, <1>11, <1>12 DEF Next

(* Every step lowers the number of rounds that are left, which is bounded. *)
THEOREM SpecRoundsFall == Spec => RoundsFall
  <1>1. Init => SeenOthers
    BY DEF Init, SeenOthers
  <1>2. Spec => []SeenOthers
    BY <1>1, StepKeepsSeenOthers, SpecDraftInv, PTL DEF Spec
  <1>3. DraftInv /\ SeenOthers => RoundsLeft \in 0 .. Len(blocks) * Len(blocks) + Len(blocks) + 2
    BY RoundsAreBounded
  <1>4. DraftInv /\ SeenOthers /\ DraftInv' /\ SeenOthers' /\ [Next]_vars
        => [RoundsLeft' < RoundsLeft]_vars
    BY StepLowersRounds
  <1> QED
    BY <1>2, <1>3, <1>4, SpecDraftInv, PTL DEF Spec, RoundsFall
=============================================================================
