------------------------- MODULE PublicationProofs -------------------------
(***************************************************************************)
(* Theorems about Publication, for every set of posts, assets, requests,   *)
(* handlers and contents.                                                  *)
(***************************************************************************)
EXTENDS Publication, SequenceTheorems, TLAPS

USE ContentAssumption, NoAssetAssumption

Tx == [op : {"create", "save", "publish"}, post : Post, row : Row, version : Nat,
       expected : Nat, content : ContentType, checked : BOOLEAN]

Consistent == RefsFollowDraft /\ NumbersArePast /\ RevisionKeepsItsAssets

LEMMA AbsentRow == Absent \in Row /\ Absent.life = "absent" /\ Absent.rev = 0
  BY DEF Absent, Row

LEMMA NoDraftType ==
  /\ NoDraft \in [version : Nat, content : ContentType]
  /\ NoDraft.version = 0
  /\ ImageRefs(NoDraft.content.images, NoDraft.version) = {}
  BY DEF NoDraft, ContentType, ImageRefs

-----------------------------------------------------------------------------
LEMMA InitRowsInv == Init => RowsInv
  <1> SUFFICES ASSUME Init PROVE RowsInv
    OBVIOUS
  <1>1. TypeOK
    BY AbsentRow, NoDraftType DEF Init, TypeOK
  <1>2. OneWriterPerPost /\ ReadsAreCurrent /\ ChecksHold
    BY DEF Init, OneWriterPerPost, ReadsAreCurrent, ChecksHold
  <1>3. AbsentIsEmpty
    BY DEF Init, AbsentIsEmpty
  <1>4. RefsFollowDraft
    BY NoDraftType DEF Init, RefsFollowDraft
  <1>5. NumbersArePast /\ RevisionKeepsItsAssets
    BY AbsentRow DEF Init, NumbersArePast, RevisionKeepsItsAssets
  <1> QED
    BY <1>1, <1>2, <1>3, <1>4, <1>5 DEF RowsInv

(* A transaction that reads an unlocked post. *)
LEMMA OpenKeepsRowsInv ==
  ASSUME RowsInv, NEW w \in Writer, NEW op \in {"create", "save", "publish"},
         NEW p \in Post, NEW content \in ContentType,
         tx[w] = None, ~Locked(p), Open(w, op, p, draft[p].version, content),
         IF op = "create" THEN post[p] = Absent ELSE Editable(post[p]),
         op = "publish" =>
           content = draft[p].content /\ content.cover # NoAsset,
         UNCHANGED <<rows, asset, job, get>>
  PROVE  RowsInv'
  <1> DEFINE t == [op |-> op, post |-> p, row |-> post[p],
                   version |-> draft[p].version, expected |-> draft[p].version,
                   content |-> content, checked |-> FALSE]
  <1> USE DEF rows
  <1>1. tx' = [tx EXCEPT ![w] = t]
    BY DEF Open
  <1>2. t \in Tx
    BY DEF RowsInv, TypeOK, Tx
  <1>3. tx'[w] = t /\ \A v \in Writer \ {w} : tx'[v] = tx[v]
    BY <1>1 DEF RowsInv, TypeOK
  <1>4. TypeOK'
    BY <1>1, <1>2 DEF RowsInv, TypeOK, Tx
  <1>5. OneWriterPerPost'
    BY <1>3 DEF RowsInv, OneWriterPerPost, Locked
  <1>6. ReadsAreCurrent'
    <2> SUFFICES ASSUME NEW v \in Writer, tx'[v] # None
                 PROVE  (LET u == tx[v] IN
                         /\ u.row = post[u.post] /\ u.version = draft[u.post].version
                         /\ u.expected = u.version
                         /\ IF u.op = "create" THEN u.row = Absent ELSE Editable(u.row)
                         /\ u.op = "publish" => /\ u.content = draft[u.post].content
                                                /\ u.content.cover # NoAsset)'
      BY DEF ReadsAreCurrent
    <2>1. CASE v = w
      BY <1>3, <2>1 DEF Editable, Absent
    <2>2. CASE v # w
      BY <1>3, <2>2 DEF RowsInv, ReadsAreCurrent, Editable, Absent
    <2> QED
      BY <2>1, <2>2
  <1>7. ChecksHold'
    BY <1>3 DEF RowsInv, ChecksHold, Assets
  <1>8. (AbsentIsEmpty /\ Consistent)'
    BY DEF RowsInv, Consistent, AbsentIsEmpty, RefsFollowDraft, NumbersArePast,
           RevisionKeepsItsAssets, ImageRefs, Assets
  <1> QED
    BY <1>4, <1>5, <1>6, <1>7, <1>8 DEF RowsInv, Consistent

LEMMA BeginKeepsRowsInv ==
  ASSUME RowsInv, NEW w \in Writer, NEW p \in Post
  PROVE  /\ \A c \in Content : CreateBegin(w, p, c) => RowsInv'
         /\ \A c \in Content, v \in DraftVersion : SaveBegin(w, p, v, c) => RowsInv'
         /\ \A v \in PostVersion, d \in DraftVersion : PublishBegin(w, p, v, d) => RowsInv'
  <1>1. ASSUME NEW c \in Content, CreateBegin(w, p, c) PROVE RowsInv'
    <2>1. draft[p].version = 0
      BY <1>1, AbsentRow, NoDraftType DEF CreateBegin, RowsInv, AbsentIsEmpty
    <2> QED
      BY <1>1, <2>1, OpenKeepsRowsInv DEF CreateBegin
  <1>2. ASSUME NEW c \in Content, NEW v \in DraftVersion, SaveBegin(w, p, v, c)
        PROVE  RowsInv'
    BY <1>2, OpenKeepsRowsInv DEF SaveBegin
  <1>3. ASSUME NEW v \in PostVersion, NEW d \in DraftVersion, PublishBegin(w, p, v, d)
        PROVE  RowsInv'
    <2>1. draft[p].content \in ContentType
      BY DEF RowsInv, TypeOK
    <2> QED
      BY <1>3, <2>1, OpenKeepsRowsInv DEF PublishBegin
  <1> QED
    BY <1>1, <1>2, <1>3

-----------------------------------------------------------------------------
LEMMA CheckedTx ==
  ASSUME NEW t \in Tx
  PROVE  LET u == [t EXCEPT !.checked = TRUE] IN
         /\ u \in Tx /\ u.checked
         /\ u.op = t.op /\ u.post = t.post /\ u.row = t.row
         /\ u.version = t.version /\ u.expected = t.expected /\ u.content = t.content
  BY DEF Tx

(* A checked transaction: the assets of a publication are ready. *)
LEMMA CheckKeepsRowsInv ==
  ASSUME RowsInv, NEW w \in Writer, tx[w] # None,
         tx' = [tx EXCEPT ![w].checked = TRUE],
         tx[w].op = "publish" => \A a \in Assets(tx[w].content) : asset[a] = "ready",
         UNCHANGED <<rows, asset, job, get>>
  PROVE  RowsInv'
  <1> USE DEF rows
  <1>1. tx[w] \in Tx
    BY DEF RowsInv, TypeOK, Tx
  <1>2. /\ tx'[w] = [tx[w] EXCEPT !.checked = TRUE]
        /\ \A v \in Writer \ {w} : tx'[v] = tx[v]
    BY DEF RowsInv, TypeOK
  <1>3. tx'[w] \in Tx /\ tx'[w].checked
    BY <1>1, <1>2, CheckedTx
  <1>4. /\ tx'[w].op = tx[w].op /\ tx'[w].post = tx[w].post
        /\ tx'[w].row = tx[w].row /\ tx'[w].version = tx[w].version
        /\ tx'[w].expected = tx[w].expected /\ tx'[w].content = tx[w].content
    BY <1>1, <1>2 DEF Tx
  <1>5. TypeOK'
    <2>1. tx \in [Writer -> Tx \cup {None}]
      BY DEF RowsInv, TypeOK, Tx
    <2>2. tx' = [tx EXCEPT ![w] = tx'[w]]
      BY <2>1
    <2>3. tx' \in [Writer -> Tx \cup {None}]
      BY <2>1, <2>2, <1>3
    <2> QED
      BY <2>3 DEF RowsInv, TypeOK, Tx
  <1>6. OneWriterPerPost'
    BY <1>2, <1>4 DEF RowsInv, OneWriterPerPost
  <1>7. ReadsAreCurrent'
    BY <1>2, <1>4 DEF RowsInv, ReadsAreCurrent, Editable
  <1>8. ChecksHold'
    BY <1>2, <1>4 DEF RowsInv, ChecksHold
  <1>9. (AbsentIsEmpty /\ Consistent)'
    BY DEF RowsInv, Consistent, AbsentIsEmpty, RefsFollowDraft, NumbersArePast,
           RevisionKeepsItsAssets
  <1> QED
    BY <1>5, <1>6, <1>7, <1>8, <1>9 DEF RowsInv, Consistent

(* The image rows of a draft are of its images. *)
LEMMA AssetsOfImageRefs ==
  ASSUME NEW images, NEW version
  PROVE  {r.asset : r \in ImageRefs(images, version)} = images
  <1> DEFINE row(a) == [asset |-> a, version |-> version]
  <1>1. ASSUME NEW a \in images PROVE a \in {r.asset : r \in ImageRefs(images, version)}
    <2>1. row(a) \in ImageRefs(images, version) /\ row(a).asset = a
      BY <1>1 DEF ImageRefs
    <2> QED
      BY <2>1
  <1>2. ASSUME NEW r \in ImageRefs(images, version) PROVE r.asset \in images
    BY <1>2 DEF ImageRefs
  <1> QED
    BY <1>1, <1>2

(* The image rows that a publication copies are those of its document. *)
LEMMA RefsOfTransaction ==
  ASSUME RowsInv, NEW w \in Writer, tx[w] # None, tx[w].op = "publish"
  PROVE  /\ {r.asset : r \in ref[tx[w].post]} = tx[w].content.images
         /\ tx[w].content.cover \in Asset
         /\ Assets(tx[w].content) = tx[w].content.images \cup {tx[w].content.cover}
  <1>1. /\ tx[w] \in Tx /\ tx[w].content.cover # NoAsset
        /\ tx[w].content = draft[tx[w].post].content
    BY DEF RowsInv, TypeOK, Tx, ReadsAreCurrent
  <1>2. ref[tx[w].post] = ImageRefs(tx[w].content.images, draft[tx[w].post].version)
    BY <1>1 DEF RowsInv, RefsFollowDraft, Tx
  <1>3. {r.asset : r \in ref[tx[w].post]} = tx[w].content.images
    BY <1>2, AssetsOfImageRefs
  <1> QED
    BY <1>1, <1>3 DEF Assets, Tx, ContentType

LEMMA SaveCheckKeepsRowsInv ==
  ASSUME RowsInv, NEW w \in Writer, SaveCheck(w)
  PROVE  RowsInv'
  BY CheckKeepsRowsInv DEF SaveCheck

LEMMA PublishCheckKeepsRowsInv ==
  ASSUME RowsInv, NEW w \in Writer, PublishCheck(w)
  PROVE  RowsInv'
  <1>1. tx[w] # None /\ tx[w].op = "publish"
    BY DEF PublishCheck
  <1>2. ASSUME NEW a \in tx[w].content.images PROVE asset[a] = "ready"
    BY <1>1, <1>2, RefsOfTransaction DEF PublishCheck
  <1>3. \A a \in Assets(tx[w].content) : asset[a] = "ready"
    BY <1>1, <1>2, RefsOfTransaction DEF PublishCheck
  <1> QED
    BY <1>1, <1>3, CheckKeepsRowsInv DEF PublishCheck

LEMMA RollbackKeepsRowsInv ==
  ASSUME RowsInv, NEW w \in Writer, Rollback(w)
  PROVE  RowsInv'
  <1> USE DEF rows
  <1>1. tx'[w] = None /\ \A v \in Writer \ {w} : tx'[v] = tx[v]
    BY DEF Rollback, RowsInv, TypeOK
  <1>2. TypeOK'
    BY DEF Rollback, RowsInv, TypeOK
  <1>3. (OneWriterPerPost /\ ReadsAreCurrent /\ ChecksHold)'
    BY <1>1 DEF Rollback, RowsInv, OneWriterPerPost, ReadsAreCurrent, ChecksHold
  <1>4. (AbsentIsEmpty /\ Consistent)'
    BY DEF Rollback, RowsInv, Consistent, AbsentIsEmpty, RefsFollowDraft,
           NumbersArePast, RevisionKeepsItsAssets
  <1> QED
    BY <1>2, <1>3, <1>4 DEF RowsInv, Consistent

(* A commit that only touches the rows of its own post does not disturb the *)
(* transactions on other posts.                                             *)
LEMMA OthersUndisturbed ==
  ASSUME RowsInv, NEW w \in Writer, tx[w] # None, tx' = [tx EXCEPT ![w] = None],
         \A q \in Post : q # tx[w].post => post'[q] = post[q] /\ draft'[q] = draft[q],
         asset' = asset
  PROVE  (OneWriterPerPost /\ ReadsAreCurrent /\ ChecksHold)'
  <1>1. tx'[w] = None /\ \A v \in Writer \ {w} : tx'[v] = tx[v]
    BY DEF RowsInv, TypeOK
  <1>2. ASSUME NEW v \in Writer, tx'[v] # None
        PROVE  /\ v # w /\ tx'[v] = tx[v]
               /\ post'[tx[v].post] = post[tx[v].post]
               /\ draft'[tx[v].post] = draft[tx[v].post]
    <2>1. v # w /\ tx'[v] = tx[v]
      BY <1>1, <1>2
    <2>2. tx[v].post # tx[w].post /\ tx[v].post \in Post
      BY <2>1, <1>2 DEF RowsInv, OneWriterPerPost, TypeOK
    <2> QED
      BY <2>1, <2>2
  <1>3. OneWriterPerPost'
    BY <1>2 DEF RowsInv, OneWriterPerPost
  <1>4. ReadsAreCurrent'
    BY <1>2 DEF RowsInv, ReadsAreCurrent
  <1>5. ChecksHold'
    BY <1>2 DEF RowsInv, ChecksHold
  <1> QED
    BY <1>3, <1>4, <1>5

LEMMA SaveCommitKeepsRowsInv ==
  ASSUME RowsInv, NEW w \in Writer, SaveCommit(w)
  PROVE  RowsInv'
  <1> DEFINE t == tx[w]
             p == tx[w].post
             d == [version |-> t.version + 1, content |-> t.content]
             new == [life |-> "draft", version |-> 1, rev |-> 0]
  <1>1. /\ t # None /\ t \in Tx /\ p \in Post
        /\ t.row = post[p] /\ post[p] \in Row
        /\ IF t.op = "create" THEN t.row = Absent ELSE Editable(t.row)
        /\ t.op \in {"create", "save"}
    BY DEF SaveCommit, RowsInv, TypeOK, ReadsAreCurrent, Tx
  <1>2. /\ draft' = [draft EXCEPT ![p] = d]
        /\ ref' = [ref EXCEPT ![p] = ImageRefs(t.content.images, t.version + 1)]
        /\ post' = IF t.op = "save" THEN post ELSE [post EXCEPT ![p] = new]
        /\ tx' = [tx EXCEPT ![w] = None]
        /\ UNCHANGED <<revision, revRef, event, card, asset, job, get>>
    BY DEF SaveCommit, UpdateWithVersion
  <1>3. /\ d \in [version : Nat, content : ContentType] /\ new \in Row
        /\ ImageRefs(t.content.images, t.version + 1)
             \in SUBSET [asset : Asset, version : Nat]
    BY <1>1 DEF Tx, Row, ImageRefs, ContentType
  <1>4. TypeOK'
    BY <1>1, <1>2, <1>3 DEF RowsInv, TypeOK
  <1>5. /\ \A q \in Post : q # p => /\ post'[q] = post[q] /\ draft'[q] = draft[q]
                                    /\ ref'[q] = ref[q]
        /\ draft'[p] = d
        /\ ref'[p] = ImageRefs(t.content.images, t.version + 1)
        /\ post'[p].rev = post[p].rev /\ post'[p].life # "absent"
    BY <1>1, <1>2, AbsentRow DEF RowsInv, TypeOK, Editable
  <1>6. (OneWriterPerPost /\ ReadsAreCurrent /\ ChecksHold)'
    BY <1>1, <1>2, <1>5, OthersUndisturbed
  <1>7. AbsentIsEmpty'
    BY <1>5 DEF RowsInv, AbsentIsEmpty
  <1>8. RefsFollowDraft'
    BY <1>5 DEF RowsInv, RefsFollowDraft, ImageRefs
  <1>9. NumbersArePast'
    BY <1>2, <1>5 DEF RowsInv, NumbersArePast, TypeOK, Revision
  <1>10. RevisionKeepsItsAssets'
    BY <1>2 DEF RowsInv, RevisionKeepsItsAssets
  <1> QED
    BY <1>4, <1>6, <1>7, <1>8, <1>9, <1>10 DEF RowsInv

(* The new revision has a number that no revision or reference of its post  *)
(* has, and gets the references of its own content.                         *)
LEMMA PublishCommitKeepsRowsInv ==
  ASSUME RowsInv, NEW w \in Writer, PublishCommit(w)
  PROVE  RowsInv'
  <1> DEFINE t == tx[w]
             p == tx[w].post
             n == t.row.rev + 1
             v == t.row.version + 1
             owned == {r.asset : r \in ref[p]}
             new == [life |-> "published", version |-> v, rev |-> n]
             r0 == [post |-> p, number |-> n, source |-> t.version, content |-> t.content]
             image(a) == [post |-> p, number |-> n, usage |-> "image", asset |-> a]
             cover == [post |-> p, number |-> n, usage |-> "cover",
                       asset |-> t.content.cover]
             e0 == [post |-> p, number |-> n, version |-> v, state |-> "pending",
                     attempts |-> 0]
             Owned(r, of) == {y \in of : y.post = r.post /\ y.number = r.number}
  <1>1. /\ t # None /\ t \in Tx /\ p \in Post /\ t.op = "publish"
        /\ t.row = post[p] /\ post[p] \in Row /\ Editable(post[p])
    BY DEF PublishCommit, RowsInv, TypeOK, ReadsAreCurrent, Tx
  <1>2. /\ owned = t.content.images /\ t.content.cover \in Asset
        /\ Assets(t.content) = owned \cup {t.content.cover}
    BY <1>1, RefsOfTransaction
  <1>3. /\ revision' = revision \cup {r0}
        /\ post' = [post EXCEPT ![p] = new]
        /\ revRef' = revRef \cup {image(a) : a \in owned} \cup {cover}
        /\ event' = event \cup {e0}
        /\ tx' = [tx EXCEPT ![w] = None]
        /\ UNCHANGED <<draft, ref, card, asset, job, get>>
    BY DEF PublishCommit, Published
  <1>4. n \in Nat /\ v \in Nat /\ n = post[p].rev + 1 /\ post[p].rev \in Nat
    BY <1>1 DEF Row
  <1>5. TypeOK'
    <2>1. post' \in [Post -> Row]
      BY <1>3, <1>4 DEF RowsInv, TypeOK, Row
    <2>2. tx' \in [Writer -> Tx \cup {None}]
      BY <1>3 DEF RowsInv, TypeOK, Tx
    <2>3. revision' \subseteq Revision
      BY <1>1, <1>3, <1>4 DEF RowsInv, TypeOK, Tx, Revision
    <2>4. revRef' \subseteq
            [post : Post, number : Nat, usage : {"image", "cover"}, asset : Asset]
      <3>1. owned \subseteq Asset
        BY <1>1, <1>2 DEF Tx, ContentType
      <3> DEFINE R == [post : Post, number : Nat, usage : {"image", "cover"}, asset : Asset]
      <3>2. \A a \in owned : image(a) \in R
        BY <1>1, <1>4, <3>1
      <3>3. cover \in R
        BY <1>1, <1>2, <1>4
      <3>4. revRef \subseteq R
        BY DEF RowsInv, TypeOK
      <3> HIDE DEF R, image, cover, owned
      <3>5. revRef' \subseteq R
        BY <1>3, <3>2, <3>3, <3>4
      <3> QED
        BY <3>5 DEF R
    <2>5. event' \subseteq Event
      <3>1. e0 \in Event
        BY <1>1, <1>4, AttemptsAssumption DEF Event
      <3>2. event \subseteq Event
        BY DEF RowsInv, TypeOK
      <3> HIDE DEF e0
      <3> QED
        BY <1>3, <3>1, <3>2
    <2> QED
      BY <1>3, <2>1, <2>2, <2>3, <2>4, <2>5 DEF RowsInv, TypeOK, Tx
  <1>6. post'[p] = new /\ \A q \in Post : q # p => post'[q] = post[q]
    BY <1>1, <1>3 DEF RowsInv, TypeOK
  <1>7. (OneWriterPerPost /\ ReadsAreCurrent /\ ChecksHold)'
    BY <1>1, <1>3, <1>6, OthersUndisturbed
  <1>8. (AbsentIsEmpty /\ RefsFollowDraft)'
    BY <1>3, <1>6 DEF RowsInv, AbsentIsEmpty, RefsFollowDraft, ImageRefs
  <1>9. \A q \in Post : post[q].rev \in Nat /\ post'[q].rev \in Nat
                        /\ post[q].rev <= post'[q].rev
    BY <1>1, <1>4, <1>6 DEF RowsInv, TypeOK, Row
  <1>10. NumbersArePast'
    <2>1. ASSUME NEW r \in revision' PROVE r.number <= post'[r.post].rev
      <3>1. CASE r \in revision
        <4>1. r.post \in Post /\ r.number \in Nat /\ r.number <= post[r.post].rev
          BY <3>1 DEF RowsInv, NumbersArePast, TypeOK, Revision
        <4> QED
          BY <4>1, <1>9
      <3>2. CASE r = r0
        BY <3>2, <1>4, <1>6
      <3> QED
        BY <2>1, <3>1, <3>2, <1>3
    <2>2. ASSUME NEW x \in revRef' PROVE x.number <= post'[x.post].rev
      <3>1. CASE x \in revRef
        <4>1. x.post \in Post /\ x.number \in Nat /\ x.number <= post[x.post].rev
          BY <3>1 DEF RowsInv, NumbersArePast, TypeOK, Revision
        <4> QED
          BY <4>1, <1>9
      <3>2. CASE x.post = p /\ x.number = n
        BY <3>2, <1>4, <1>6
      <3> QED
        BY <2>2, <3>1, <3>2, <1>3
    <2>3. ASSUME NEW q \in Post, NEW k \in 1 .. post'[q].rev
          PROVE  \E r \in revision' : r.post = q /\ r.number = k
      <3>1. CASE k \in 1 .. post[q].rev
        BY <3>1, <1>3 DEF RowsInv, NumbersArePast
      <3>2. CASE k \notin 1 .. post[q].rev
        <4>1. q = p /\ k = n
          BY <2>3, <3>2, <1>4, <1>6
        <4>2. r0 \in revision' /\ r0.post = p /\ r0.number = n
          BY <1>3
        <4> QED
          BY <4>1, <4>2
      <3> QED
        BY <3>1, <3>2
    <2> QED
      BY <2>1, <2>2, <2>3 DEF NumbersArePast
  <1>11. /\ \A r \in revision : ~(r.post = p /\ r.number = n)
         /\ \A x \in revRef : ~(x.post = p /\ x.number = n)
    BY <1>4 DEF RowsInv, NumbersArePast
  <1>12. RevisionKeepsItsAssets'
    <2>1. \A r, s \in revision' : r.post = s.post /\ r.number = s.number => r = s
      BY <1>3, <1>11 DEF RowsInv, RevisionKeepsItsAssets
    <2>2. ASSUME NEW r \in revision
          PROVE  {x.asset : x \in Owned(r, revRef')} = Assets(r.content)
      <3>1. Owned(r, revRef') = Owned(r, revRef)
        BY <1>3, <1>11
      <3>2. {x.asset : x \in Owned(r, revRef)} = Assets(r.content)
        BY DEF RowsInv, RevisionKeepsItsAssets
      <3> QED
        BY <3>1, <3>2
    <2>3. {x.asset : x \in Owned(r0, revRef')} = Assets(r0.content)
      <3>1. Owned(r0, revRef') = {image(a) : a \in owned} \cup {cover}
        BY <1>3, <1>11
      <3>2. ASSUME NEW x \in Owned(r0, revRef') PROVE x.asset \in owned \cup {t.content.cover}
        <4>1. (\E a \in owned : x = image(a)) \/ x = cover
          BY <3>1, <3>2
        <4> QED
          BY <4>1
      <3>3. ASSUME NEW a \in owned \cup {t.content.cover}
            PROVE  a \in {x.asset : x \in Owned(r0, revRef')}
        <4>1. CASE a \in owned
          <5>1. image(a) \in Owned(r0, revRef') /\ image(a).asset = a
            BY <3>1, <4>1
          <5> QED
            BY <5>1
        <4>2. CASE a = t.content.cover
          <5>1. cover \in Owned(r0, revRef') /\ cover.asset = a
            BY <3>1, <4>2
          <5> QED
            BY <5>1
        <4> QED
          BY <3>3, <4>1, <4>2
      <3>4. {x.asset : x \in Owned(r0, revRef')} = owned \cup {t.content.cover}
        BY <3>2, <3>3
      <3> QED
        BY <3>4, <1>2
    <2>4. \A r \in revision' : {x.asset : x \in Owned(r, revRef')} = Assets(r.content)
      <3>1. ASSUME NEW r \in revision'
            PROVE  {x.asset : x \in Owned(r, revRef')} = Assets(r.content)
        <4>1. r \in revision \/ r = r0
          BY <1>3
        <4> HIDE DEF Owned, r0
        <4> QED
          BY <4>1, <2>2, <2>3
      <3> QED
        BY <3>1
    <2> QED
      BY <2>1, <2>4 DEF RevisionKeepsItsAssets
  <1> QED
    BY <1>5, <1>7, <1>8, <1>10, <1>12 DEF RowsInv

LEMMA DeleteKeepsRowsInv ==
  ASSUME RowsInv, NEW w \in Writer, NEW p \in Post, NEW expected \in PostVersion,
         Delete(w, p, expected)
  PROVE  RowsInv'
  <1> DEFINE new == [life |-> "deleted", version |-> expected + 1, rev |-> post[p].rev]
  <1>1. /\ post' = [post EXCEPT ![p] = new] /\ card' = [card EXCEPT ![p] = None]
        /\ UNCHANGED <<draft, ref, revision, revRef, event, asset, tx, job, get>>
        /\ ~Locked(p) /\ Editable(post[p]) /\ post[p].version = expected
    BY DEF Delete
  <1>2. post[p] \in Row /\ new \in Row
    BY <1>1 DEF RowsInv, TypeOK, Row
  <1>3. TypeOK'
    BY <1>1, <1>2 DEF RowsInv, TypeOK
  <1>4. /\ \A q \in Post : post'[q].rev = post[q].rev
        /\ \A q \in Post : q # p => post'[q] = post[q]
        /\ post'[p].life # "absent"
    BY <1>1, <1>2 DEF RowsInv, TypeOK
  <1>5. \A v \in Writer : tx[v] # None => tx[v].post # p /\ tx[v].post \in Post
    BY <1>1 DEF Locked, RowsInv, TypeOK
  <1>6. (OneWriterPerPost /\ ReadsAreCurrent /\ ChecksHold)'
    BY <1>1, <1>4, <1>5 DEF RowsInv, OneWriterPerPost, ReadsAreCurrent, ChecksHold
  <1>7. (AbsentIsEmpty /\ RefsFollowDraft /\ RevisionKeepsItsAssets)'
    BY <1>1, <1>4
       DEF RowsInv, AbsentIsEmpty, RefsFollowDraft, RevisionKeepsItsAssets
  <1>8. NumbersArePast'
    BY <1>1, <1>4 DEF RowsInv, NumbersArePast, TypeOK, Revision
  <1> QED
    BY <1>3, <1>6, <1>7, <1>8 DEF RowsInv

(* Handlers touch nothing of what the first half is about but the types. *)
LEMMA HandlersKeepRowsInv ==
  ASSUME RowsInv, TypeOK',
         UNCHANGED <<post, draft, ref, revision, revRef, asset, tx>>
  PROVE  RowsInv'
  BY DEF RowsInv, OneWriterPerPost, ReadsAreCurrent, ChecksHold, AbsentIsEmpty,
         RefsFollowDraft, NumbersArePast, RevisionKeepsItsAssets

(* What becomes of an execution; pending is another attempt. *)
Verdict == {"pending", "succeeded", "superseded", "failed"}

LEMMA SettledEvent ==
  ASSUME NEW e \in Event, NEW s \in Verdict
  PROVE  LET f == [e EXCEPT !.state = s] IN
         /\ f \in Event /\ f.state = s /\ f.attempts = e.attempts
         /\ f.post = e.post /\ f.number = e.number /\ f.version = e.version
  BY DEF Event, Verdict

LEMMA ClaimedEvent ==
  ASSUME NEW e \in Event, Ready(e)
  PROVE  LET f == [e EXCEPT !.attempts = @ + 1] IN
         /\ f \in Event /\ f.state = "pending"
         /\ f.post = e.post /\ f.number = e.number /\ f.version = e.version
  BY AttemptsAssumption DEF Event, Ready

LEMMA FailedVerdict ==
  ASSUME RowsInv, NEW h \in Handler, HandlerFails(h)
  PROVE  /\ job[h] # None /\ UNCHANGED card
         /\ \/ Settle(h, "pending")
            \/ Settle(h, "failed") /\ job[h].event.attempts = MaxAttempts
  <1>1. job[h] # None => job[h].event.attempts \in 0 .. MaxAttempts
    BY DEF RowsInv, TypeOK, Event
  <1>2. CASE job[h].event.attempts >= MaxAttempts
    <2>1. Settle(h, "failed")
      BY <1>2 DEF HandlerFails
    <2> QED
      BY <1>1, <1>2, <2>1, AttemptsAssumption DEF HandlerFails
  <1>3. CASE ~(job[h].event.attempts >= MaxAttempts)
    <2>1. Settle(h, "pending")
      BY <1>3 DEF HandlerFails
    <2> QED
      BY <2>1 DEF HandlerFails
  <1> QED
    BY <1>2, <1>3

(* A settled event is replaced, and its handler is free. *)
LEMMA SettleStep ==
  ASSUME RowsInv, NEW h \in Handler, job[h] # None,
         NEW s \in Verdict, Settle(h, s)
  PROVE  LET e == job[h].event
             f == [job[h].event EXCEPT !.state = s]
         IN /\ e \in Event /\ e.post \in Post
            /\ f \in Event /\ f.state = s /\ f.attempts = e.attempts
            /\ f.post = e.post /\ f.number = e.number /\ f.version = e.version
            /\ event' = (event \ {e}) \cup {f} /\ event' \subseteq Event
            /\ job'[h] = None /\ \A i \in Handler \ {h} : job'[i] = job[i]
            /\ job' \in [Handler -> [event : Event, card : Card \cup {None}] \cup {None}]
            /\ UNCHANGED <<post, draft, ref, revision, revRef, asset, tx, get>>
  <1> DEFINE e == job[h].event
             f == [e EXCEPT !.state = s]
  <1>1. e \in Event /\ e.post \in Post
    BY DEF RowsInv, TypeOK, Event
  <1>2. /\ f \in Event /\ f.state = s /\ f.attempts = e.attempts
        /\ f.post = e.post /\ f.number = e.number /\ f.version = e.version
    BY <1>1, SettledEvent
  <1>3. event' = (event \ {e}) \cup {f} /\ job' = [job EXCEPT ![h] = None]
    BY DEF Settle
  <1>4. event' \subseteq Event
    BY <1>2, <1>3 DEF RowsInv, TypeOK
  <1>5. /\ job'[h] = None /\ \A i \in Handler \ {h} : job'[i] = job[i]
        /\ job' \in [Handler -> [event : Event, card : Card \cup {None}] \cup {None}]
    BY <1>3 DEF RowsInv, TypeOK
  <1> QED
    BY <1>1, <1>2, <1>3, <1>4, <1>5 DEF Settle

LEMMA SettleTypes ==
  ASSUME RowsInv, NEW h \in Handler, job[h] # None,
         NEW s \in Verdict, Settle(h, s),
         card' \in [Post -> Card \cup {None}]
  PROVE  RowsInv'
  <1>1. /\ event' \subseteq Event
        /\ job' \in [Handler -> [event : Event, card : Card \cup {None}] \cup {None}]
        /\ UNCHANGED <<post, draft, ref, revision, revRef, asset, tx, get>>
    BY SettleStep
  <1>2. TypeOK
    BY DEF RowsInv
  <1>3. TypeOK'
    BY <1>1, <1>2 DEF TypeOK
  <1> QED
    BY <1>1, <1>3, HandlersKeepRowsInv

LEMMA HandlerStepKeepsRowsInv ==
  ASSUME RowsInv, NEW h \in Handler, HandlerStep(h)
  PROVE  RowsInv'
  <1>1. ASSUME NEW e \in event, HandlerTake(h, e) PROVE RowsInv'
    <2> DEFINE f == [e EXCEPT !.attempts = @ + 1]
    <2>1. f \in Event /\ e.post \in Post
      BY <1>1, ClaimedEvent DEF HandlerTake, RowsInv, TypeOK, Event
    <2>2. [event |-> f, card |-> card[e.post]]
            \in [event : Event, card : Card \cup {None}]
      BY <2>1 DEF RowsInv, TypeOK
    <2>3. /\ event' = (event \ {e}) \cup {f}
          /\ job' = [job EXCEPT ![h] = [event |-> f, card |-> card[e.post]]]
          /\ UNCHANGED <<post, draft, ref, revision, revRef, card, asset, tx, get>>
      BY <1>1 DEF HandlerTake
    <2>4. TypeOK'
      <3> HIDE DEF f
      <3> QED
        BY <2>1, <2>2, <2>3 DEF RowsInv, TypeOK
    <2> QED
      BY <2>3, <2>4, HandlersKeepRowsInv
  <1>2. ASSUME HandlerRejects(h) PROVE RowsInv'
    <2>1. PICK s \in Verdict : Settle(h, s)
      BY <1>2 DEF HandlerRejects, Verdict
    <2>2. job[h] # None /\ UNCHANGED card
      BY <1>2 DEF HandlerRejects
    <2>3. card' \in [Post -> Card \cup {None}]
      BY <2>2 DEF RowsInv, TypeOK
    <2> QED
      BY <2>1, <2>2, <2>3, SettleTypes
  <1>3. ASSUME HandlerProjects(h) PROVE RowsInv'
    <2>1. job[h] # None /\ Settle(h, "succeeded")
      BY <1>3 DEF HandlerProjects
    <2>2. /\ job[h].event \in Event /\ job[h].event.post \in Post
      BY <2>1, SettleStep DEF Verdict
    <2>3. [rev |-> job[h].event.number, version |-> post[job[h].event.post].version]
            \in Card
      BY <2>2 DEF RowsInv, TypeOK, Event, Row, Card
    <2>4. card' \in [Post -> Card \cup {None}]
      BY <1>3, <2>2, <2>3 DEF HandlerProjects, RowsInv, TypeOK
    <2> QED
      BY <2>1, <2>4, SettleTypes DEF Verdict
  <1>4. ASSUME HandlerFails(h) PROVE RowsInv'
    <2>1. card' \in [Post -> Card \cup {None}]
      BY <1>4, FailedVerdict DEF RowsInv, TypeOK
    <2> QED
      BY <1>4, <2>1, FailedVerdict, SettleTypes DEF Verdict
  <1> QED
    BY <1>1, <1>2, <1>3, <1>4 DEF HandlerStep

LEMMA AssetChangesKeepsRowsInv ==
  ASSUME RowsInv, NEW a \in Asset, AssetChanges(a)
  PROVE  RowsInv'
  <1> USE DEF rows
  <1>1. TypeOK'
    BY DEF AssetChanges, RowsInv, TypeOK
  <1>2. \A b \in Asset : b # a => asset'[b] = asset[b]
    BY DEF AssetChanges, RowsInv, TypeOK
  <1>3. ChecksHold'
    <2> SUFFICES ASSUME NEW w \in Writer, tx[w] # None,
                        tx[w].op = "publish", tx[w].checked,
                        NEW b \in Assets(tx[w].content)
                 PROVE  asset'[b] = "ready"
      BY DEF ChecksHold, AssetChanges
    <2>1. b # a
      BY DEF AssetChanges, Shared
    <2>2. b \in Asset /\ asset[b] = "ready"
      <3>1. tx[w].content \in ContentType
        BY DEF RowsInv, TypeOK
      <3> QED
        BY <3>1 DEF RowsInv, ChecksHold, Assets, ContentType
    <2> QED
      BY <2>1, <2>2, <1>2
  <1>4. (OneWriterPerPost /\ ReadsAreCurrent)'
    BY DEF AssetChanges, RowsInv, OneWriterPerPost, ReadsAreCurrent
  <1>5. (AbsentIsEmpty /\ Consistent)'
    BY DEF AssetChanges, RowsInv, Consistent, AbsentIsEmpty, RefsFollowDraft,
           NumbersArePast, RevisionKeepsItsAssets
  <1> QED
    BY <1>1, <1>3, <1>4, <1>5 DEF RowsInv, Consistent

LEMMA NextRowsInv == RowsInv /\ [Next]_vars => RowsInv'
  <1> SUFFICES ASSUME RowsInv, [Next]_vars PROVE RowsInv'
    OBVIOUS
  <1>1. ASSUME NEW w \in Writer, WriterBegins(w) PROVE RowsInv'
    BY <1>1, BeginKeepsRowsInv, DeleteKeepsRowsInv DEF WriterBegins
  <1>2. ASSUME NEW w \in Writer, WriterStep(w) PROVE RowsInv'
    BY <1>2, SaveCheckKeepsRowsInv, SaveCommitKeepsRowsInv, PublishCheckKeepsRowsInv,
       PublishCommitKeepsRowsInv, RollbackKeepsRowsInv DEF WriterStep
  <1>3. ASSUME NEW h \in Handler, HandlerStep(h) PROVE RowsInv'
    BY <1>3, HandlerStepKeepsRowsInv
  <1>4. ASSUME NEW a \in Asset, AssetChanges(a) PROVE RowsInv'
    BY <1>4, AssetChangesKeepsRowsInv
  <1>5. ASSUME NEW r \in Reader, NEW p \in Post, FindPost(r, p) PROVE RowsInv'
    <2>1. [post |-> p, rev |-> post[p].rev, version |-> post[p].version]
            \in [post : Post, rev : Nat, version : Nat]
      BY DEF RowsInv, TypeOK, Row
    <2>2. TypeOK'
      BY <1>5, <2>1 DEF FindPost, RowsInv, TypeOK, rows
    <2> QED
      BY <1>5, <2>2, HandlersKeepRowsInv DEF FindPost, rows
  <1>6. ASSUME NEW r \in Reader, FindRevision(r) PROVE RowsInv'
    <2>1. TypeOK'
      BY <1>6 DEF FindRevision, RowsInv, TypeOK, rows
    <2> QED
      BY <1>6, <2>1, HandlersKeepRowsInv DEF FindRevision, rows
  <1>7. CASE UNCHANGED vars
    <2>1. TypeOK'
      BY <1>7 DEF vars, RowsInv, TypeOK
    <2> QED
      BY <1>7, <2>1, HandlersKeepRowsInv DEF vars
  <1> QED
    BY <1>1, <1>2, <1>3, <1>4, <1>5, <1>6, <1>7 DEF Next

-----------------------------------------------------------------------------
LEMMA InitCardInv == Init => CardInv
  BY AbsentRow
     DEF Init, CardInv, EventsMatchPosts, OneEventPerRevision, JobsArePending,
         OnlySpentEventsFail, CardsArePublished, CardFollowsRevision, SnapshotIsFresh

LEMMA EventTypes ==
  ASSUME RowsInv, NEW e \in event
  PROVE  /\ e \in Event /\ e.post \in Post /\ e.number \in Nat /\ e.version \in Nat
         /\ post[e.post].rev \in Nat /\ post[e.post].version \in Nat
  BY DEF RowsInv, TypeOK, Event, Row

(* Most steps of requests touch nothing of what the second half is about. *)
LEMMA CardUntouched ==
  ASSUME CardInv, UNCHANGED <<post, revision, event, card, job>>
  PROVE  CardInv'
  BY DEF CardInv, EventsMatchPosts, OneEventPerRevision, JobsArePending,
         OnlySpentEventsFail, CardsArePublished, CardFollowsRevision, SnapshotIsFresh,
         Obsolete

(* A created post was absent: no event and no card is about it. *)
LEMMA SaveCommitKeepsCardInv ==
  ASSUME RowsInv, CardInv, NEW w \in Writer, SaveCommit(w)
  PROVE  CardInv'
  <1> DEFINE p == tx[w].post
             new == [life |-> "draft", version |-> 1, rev |-> 0]
  <1>1. UNCHANGED <<revision, event, card, job>>
    BY DEF SaveCommit
  <1>2. CASE tx[w].op = "save"
    BY <1>1, <1>2, CardUntouched DEF SaveCommit
  <1>3. CASE tx[w].op # "save"
    <2>1. post[p] = Absent /\ p \in Post /\ post' = [post EXCEPT ![p] = new]
      BY <1>3 DEF SaveCommit, RowsInv, ReadsAreCurrent, TypeOK
    <2>2. /\ post'[p] = new /\ post[p].life = "absent"
          /\ \A q \in Post : q # p => post'[q] = post[q]
      BY <2>1, AbsentRow DEF RowsInv, TypeOK
    <2>3. /\ \A e \in event : e.post \in Post /\ e.post # p
          /\ card[p] = None
      BY <2>1, <2>2, EventTypes DEF CardInv, EventsMatchPosts, CardsArePublished
    <2>4. EventsMatchPosts'
      BY <1>1, <2>2, <2>3 DEF CardInv, EventsMatchPosts
    <2>5. (OneEventPerRevision /\ JobsArePending /\ OnlySpentEventsFail)'
      BY <1>1 DEF CardInv, OneEventPerRevision, JobsArePending, OnlySpentEventsFail
    <2>6. CardsArePublished'
      BY <1>1, <2>2, <2>3 DEF CardInv, CardsArePublished
    <2>7. CardFollowsRevision'
      <3> SUFFICES ASSUME NEW q \in Post, post'[q].life = "published"
                   PROVE  \E e \in event :
                            /\ e.post = q /\ e.number = post'[q].rev
                            /\ Reflected(e, card[q])
        BY <1>1 DEF CardFollowsRevision, Reflected, GivenUp
      <3>1. q # p /\ post'[q] = post[q]
        BY <2>2
      <3>2. PICK e \in event :
              /\ e.post = q /\ e.number = post[q].rev
              /\ Reflected(e, card[q])
        BY <3>1 DEF CardInv, CardFollowsRevision
      <3> QED
        BY <3>1, <3>2
    <2>8. SnapshotIsFresh'
      BY <1>1, <2>2, <2>3
         DEF CardInv, SnapshotIsFresh, JobsArePending, Obsolete
    <2> QED
      BY <2>4, <2>5, <2>6, <2>7, <2>8 DEF CardInv
  <1> QED
    BY <1>2, <1>3

(* All earlier events of the post become obsolete, and its card outdated. *)
LEMMA PublishCommitKeepsCardInv ==
  ASSUME RowsInv, CardInv, NEW w \in Writer, PublishCommit(w)
  PROVE  CardInv'
  <1> DEFINE t == tx[w]
             p == tx[w].post
             n == post[p].rev + 1
             v == post[p].version + 1
             new == [life |-> "published", version |-> v, rev |-> n]
             r0 == [post |-> p, number |-> n, source |-> t.version, content |-> t.content]
             e0 == [post |-> p, number |-> n, version |-> v, state |-> "pending",
                     attempts |-> 0]
  <1>1. /\ p \in Post /\ t.row = post[p] /\ t.content.cover # NoAsset
        /\ post[p].rev \in Nat /\ post[p].version \in Nat
    BY DEF PublishCommit, RowsInv, TypeOK, ReadsAreCurrent, Row
  <1>2. /\ revision' = revision \cup {r0} /\ event' = event \cup {e0}
        /\ post' = [post EXCEPT ![p] = new]
        /\ UNCHANGED <<card, job>>
    BY <1>1 DEF PublishCommit, Published
  <1>3. post'[p] = new /\ \A q \in Post : q # p => post'[q] = post[q]
    BY <1>1, <1>2 DEF RowsInv, TypeOK
  <1>4. \A e \in event : /\ e.post \in Post
                         /\ e.post = p => e.number < n /\ e.version < v
    BY <1>1, EventTypes DEF CardInv, EventsMatchPosts
  <1>5. EventsMatchPosts'
    <2> SUFFICES ASSUME NEW e \in event'
                 PROVE  LET row == post'[e.post] IN
                        /\ row.life \in {"published", "deleted"}
                        /\ e.number > 0 /\ e.number <= row.rev
                        /\ e.version <= row.version
                        /\ row.life = "published" /\ e.number = row.rev
                             => e.version = row.version
                        /\ \E r \in revision' : /\ r.post = e.post
                                                /\ r.number = e.number
                                                /\ r.content.cover # NoAsset
      BY DEF EventsMatchPosts
    <2>1. CASE e = e0
      <3>1. /\ r0 \in revision' /\ r0.post = e0.post /\ r0.number = e0.number
            /\ r0.content.cover # NoAsset
        BY <1>1, <1>2
      <3>2. /\ post'[e0.post].life = "published" /\ post'[e0.post].rev = e0.number
            /\ post'[e0.post].version = e0.version
        BY <1>3
      <3>3. e0.number \in Nat /\ e0.version \in Nat /\ e0.number > 0
        BY <1>1
      <3> QED
        BY <2>1, <3>1, <3>2, <3>3
    <2>2. CASE e \in event /\ e.post = p
      <3>1. /\ e.number < n /\ e.version < v /\ e.number \in Nat /\ e.version \in Nat
            /\ e.number > 0
        BY <2>2, <1>4, EventTypes DEF CardInv, EventsMatchPosts
      <3>2. \E r \in revision' : /\ r.post = e.post /\ r.number = e.number
                                  /\ r.content.cover # NoAsset
        BY <2>2, <1>2 DEF CardInv, EventsMatchPosts
      <3>3. /\ new.life = "published" /\ new.rev = n /\ new.version = v /\ n \in Nat /\ v \in Nat
            /\ post'[e.post] = new
        BY <2>2, <1>1, <1>3
      <3> HIDE DEF n, v, new
      <3> QED
        BY <3>1, <3>2, <3>3
    <2>3. CASE e \in event /\ e.post # p
      BY <2>3, <1>2, <1>3, <1>4 DEF CardInv, EventsMatchPosts
    <2> QED
      BY <2>1, <2>2, <2>3, <1>2
  <1>6. OneEventPerRevision'
    <2>1. ASSUME NEW e \in event, e.post = p, e.number = n PROVE FALSE
      <3>1. e.number < n /\ e.number \in Nat
        BY <2>1, <1>4, EventTypes
      <3> HIDE DEF n
      <3> QED
        BY <2>1, <3>1
    <2>2. e0.post = p /\ e0.number = n
      OBVIOUS
    <2> HIDE DEF e0, p, n
    <2> QED
      BY <1>2, <2>1, <2>2 DEF CardInv, OneEventPerRevision
  <1>7. (JobsArePending /\ OnlySpentEventsFail)'
    <2>1. e0.state = "pending"
      OBVIOUS
    <2>2. JobsArePending /\ OnlySpentEventsFail
      BY DEF CardInv
    <2>3. event' = event \cup {e0} /\ job' = job
      BY <1>2
    <2> HIDE DEF e0
    <2>4. JobsArePending'
      BY <2>2, <2>3 DEF JobsArePending
    <2>5. OnlySpentEventsFail'
      BY <2>1, <2>2, <2>3 DEF OnlySpentEventsFail
    <2> QED
      BY <2>4, <2>5
  <1>8. CardsArePublished'
    <2> SUFFICES ASSUME NEW q \in Post, card[q] # None
                 PROVE  /\ post'[q].life = "published"
                        /\ card[q].version <= post'[q].version
                        /\ card[q].rev <= post'[q].rev
                        /\ \A e \in event' : e.post = q /\ e.number = post'[q].rev
                                             /\ e.state = "pending"
                             => card[q].version < post'[q].version
      BY <1>2 DEF CardsArePublished
    <2>1. /\ card[q].version <= post[q].version /\ card[q].version \in Nat
          /\ card[q].rev <= post[q].rev /\ card[q].rev \in Nat
      BY DEF CardInv, CardsArePublished, RowsInv, TypeOK, Card
    <2>2. CASE q = p
      <3>1. /\ new.life = "published" /\ new.version = post[p].version + 1
            /\ new.rev = post[p].rev + 1
        BY <1>1
      <3>2. post'[q] = new /\ post[p].version \in Nat /\ post[p].rev \in Nat
        BY <2>2, <1>1, <1>3 DEF Row
      <3> HIDE DEF new, p
      <3> QED
        BY <2>1, <2>2, <3>1, <3>2
    <2>3. CASE q # p
      <3>1. post'[q] = post[q]
        BY <2>3, <1>3
      <3>2. \A e \in event' : e.post = q => e \in event
        BY <2>3, <1>2
      <3>3. /\ post[q].life = "published" /\ card[q].version <= post[q].version
            /\ card[q].rev <= post[q].rev
            /\ \A e \in event : e.post = q /\ e.number = post[q].rev
                                /\ e.state = "pending"
                 => card[q].version < post[q].version
        BY DEF CardInv, CardsArePublished
      <3> HIDE DEF e0, new, p, n, v
      <3> QED
        BY <3>1, <3>2, <3>3
    <2> QED
      BY <2>2, <2>3
  <1>9. CardFollowsRevision'
    <2> SUFFICES ASSUME NEW q \in Post, post'[q].life = "published"
                 PROVE  \E e \in event' :
                          /\ e.post = q /\ e.number = post'[q].rev
                          /\ Reflected(e, card[q])
      BY <1>2 DEF CardFollowsRevision, Reflected, GivenUp
    <2>1. CASE q = p
      <3>1. /\ e0 \in event' /\ e0.post = p /\ e0.number = new.rev
            /\ e0.state = "pending"
        BY <1>2
      <3>2. Reflected(e0, card[q])
        BY <3>1 DEF Reflected
      <3> QED
        BY <2>1, <3>1, <3>2, <1>3
    <2>2. CASE q # p
      <3>1. post'[q] = post[q]
        BY <2>2, <1>3
      <3>2. PICK e \in event :
              /\ e.post = q /\ e.number = post[q].rev
              /\ Reflected(e, card[q])
        BY <3>1 DEF CardInv, CardFollowsRevision
      <3> QED
        BY <3>1, <3>2, <1>2
    <2> QED
      BY <2>1, <2>2
  <1>10. SnapshotIsFresh'
    <2> SUFFICES ASSUME NEW h \in Handler, job[h] # None, ~Obsolete(job[h].event)'
                 PROVE  job[h].card = card[job[h].event.post]
      BY <1>2 DEF SnapshotIsFresh
    <2>1. job[h].event \in event
      BY DEF CardInv, JobsArePending
    <2>2. job[h].event.post # p
      <3>1. post'[p].rev = n /\ n \in Nat
        BY <1>1, <1>3
      <3>2. job[h].event.post = p => job[h].event.number < n /\ job[h].event.number \in Nat
        BY <2>1, <1>4, EventTypes
      <3>3. job[h].event.post = p => ~(job[h].event.number < post'[p].rev)
        <4>1. job' = job
          BY <1>2
        <4>2. ~(post'[job[h].event.post].rev # job[h].event.number)
          BY <4>1 DEF Obsolete
        <4>3. job[h].event.post = p => post'[p].rev = job[h].event.number
          BY <4>2
        <4> HIDE DEF p
        <4> QED
          BY <4>3, <3>2
      <3> HIDE DEF n
      <3> QED
        BY <3>1, <3>2, <3>3
    <2>3. Obsolete(job[h].event)' = Obsolete(job[h].event)
      BY <2>1, <2>2, <1>2, <1>3, <1>4 DEF Obsolete
    <2> QED
      BY <2>3 DEF CardInv, SnapshotIsFresh
  <1> QED
    BY <1>5, <1>6, <1>7, <1>8, <1>9, <1>10 DEF CardInv

LEMMA DeleteKeepsCardInv ==
  ASSUME RowsInv, CardInv, NEW w \in Writer, NEW p \in Post,
         NEW expected \in PostVersion, Delete(w, p, expected)
  PROVE  CardInv'
  <1> DEFINE new == [life |-> "deleted", version |-> expected + 1, rev |-> post[p].rev]
  <1>1. /\ post' = [post EXCEPT ![p] = new] /\ card' = [card EXCEPT ![p] = None]
        /\ UNCHANGED <<revision, event, job>> /\ post[p].version = expected
    BY DEF Delete
  <1>2. /\ post'[p] = new /\ card'[p] = None
        /\ \A q \in Post : q # p => post'[q] = post[q] /\ card'[q] = card[q]
        /\ new.version = post[p].version + 1 /\ new.rev = post[p].rev
        /\ new.life = "deleted"
    BY <1>1 DEF RowsInv, TypeOK
  <1>3. EventsMatchPosts'
    BY <1>1, <1>2, EventTypes DEF CardInv, EventsMatchPosts
  <1>4. (OneEventPerRevision /\ JobsArePending /\ OnlySpentEventsFail)'
    BY <1>1 DEF CardInv, OneEventPerRevision, JobsArePending, OnlySpentEventsFail
  <1>5. CardsArePublished'
    BY <1>1, <1>2 DEF CardInv, CardsArePublished
  <1>6. CardFollowsRevision'
    <2> SUFFICES ASSUME NEW q \in Post, post'[q].life = "published"
                 PROVE  \E e \in event :
                          /\ e.post = q /\ e.number = post'[q].rev
                          /\ Reflected(e, card'[q])
      BY <1>1 DEF CardFollowsRevision, Reflected, GivenUp
    <2>1. q # p /\ post'[q] = post[q] /\ card'[q] = card[q]
      BY <1>2
    <2>2. PICK e \in event :
            /\ e.post = q /\ e.number = post[q].rev
            /\ Reflected(e, card[q])
      BY <2>1, <1>2 DEF CardInv, CardFollowsRevision
    <2> QED
      BY <2>1, <2>2, <1>2
  <1>7. SnapshotIsFresh'
    <2> SUFFICES ASSUME NEW h \in Handler, job[h] # None, ~Obsolete(job[h].event)'
                 PROVE  job[h].card = card'[job[h].event.post]
      BY <1>1 DEF SnapshotIsFresh
    <2>1. job[h].event \in event /\ job[h].event.post \in Post
      BY EventTypes DEF CardInv, JobsArePending
    <2>2. /\ post'[job[h].event.post].life # "deleted"
          /\ post'[job[h].event.post].rev = job[h].event.number
      BY <1>1 DEF Obsolete
    <2>3. job[h].event.post # p
      BY <2>2, <1>2
    <2>4. /\ post[job[h].event.post] = post'[job[h].event.post]
          /\ card[job[h].event.post] = card'[job[h].event.post]
      BY <2>1, <2>3, <1>2
    <2>5. ~Obsolete(job[h].event)
      BY <2>2, <2>4 DEF Obsolete
    <2> QED
      BY <2>4, <2>5 DEF CardInv, SnapshotIsFresh
  <1> QED
    BY <1>3, <1>4, <1>5, <1>6, <1>7 DEF CardInv

(* An event whose row changes in state and attempts alone.                  *)
LEMMA SameAnnouncement ==
  ASSUME CardInv, NEW e \in event, NEW f,
         f.post = e.post, f.number = e.number, f.version = e.version,
         f.state = "failed" => GivenUp(f),
         event' = (event \ {e}) \cup {f}, UNCHANGED <<post, revision>>
  PROVE  (EventsMatchPosts /\ OneEventPerRevision /\ OnlySpentEventsFail)'
  <1>1. EventsMatchPosts'
    <2>1. ASSUME NEW g \in event'
          PROVE  \E o \in event : /\ o.post = g.post /\ o.number = g.number
                                  /\ o.version = g.version
      OBVIOUS
    <2> QED
      BY <2>1 DEF CardInv, EventsMatchPosts
  <1>2. OneEventPerRevision'
    <2> SUFFICES ASSUME NEW g \in event', NEW k \in event',
                        g.post = k.post, g.number = k.number
                 PROVE  g = k
      BY DEF OneEventPerRevision
    <2>1. \A o \in event : o.post = e.post /\ o.number = e.number => o = e
      BY DEF CardInv, OneEventPerRevision
    <2>2. CASE g = f
      BY <2>1, <2>2
    <2>3. CASE k = f
      BY <2>1, <2>3
    <2>4. CASE g \in event /\ k \in event
      BY <2>4 DEF CardInv, OneEventPerRevision
    <2> QED
      BY <2>2, <2>3, <2>4
  <1>3. OnlySpentEventsFail'
    BY DEF CardInv, OnlySpentEventsFail, GivenUp
  <1> QED
    BY <1>1, <1>2, <1>3

(* A settled event: what is left of CardInv depends only on the card.       *)
LEMMA SettleKeeps ==
  ASSUME RowsInv, CardInv, NEW h \in Handler, job[h] # None,
         NEW s \in Verdict, Settle(h, s),
         s = "failed" => job[h].event.attempts = MaxAttempts
  PROVE  (EventsMatchPosts /\ OneEventPerRevision /\ JobsArePending /\ OnlySpentEventsFail)'
  <1> DEFINE e == job[h].event
             f == [e EXCEPT !.state = s]
  <1>1. /\ f.state = s /\ f.post = e.post /\ f.number = e.number
        /\ f.version = e.version /\ f.attempts = e.attempts
        /\ event' = (event \ {e}) \cup {f} /\ e \in event
        /\ job'[h] = None /\ \A i \in Handler \ {h} : job'[i] = job[i]
        /\ post' = post /\ revision' = revision
    <2>1. e \in event
      BY DEF CardInv, JobsArePending
    <2> QED
      BY <2>1, SettleStep
  <1>2. f.state = "failed" => GivenUp(f)
    BY <1>1 DEF GivenUp
  <1>3. (EventsMatchPosts /\ OneEventPerRevision /\ OnlySpentEventsFail)'
    <2> HIDE DEF e, f
    <2> QED
      BY <1>1, <1>2, SameAnnouncement
  <1>4. JobsArePending'
    BY <1>1 DEF CardInv, JobsArePending
  <1> QED
    BY <1>3, <1>4

(* The only verdict against an event of this code is that it is obsolete. *)
LEMMA HandlerRejectsKeepsCardInv ==
  ASSUME RowsInv, CardInv, NEW h \in Handler, HandlerRejects(h)
  PROVE  CardInv'
  <1> DEFINE e == job[h].event
             f == [e EXCEPT !.state = "superseded"]
  <1>1. job[h] # None /\ e \in event /\ card' = card
    BY DEF HandlerRejects, CardInv, JobsArePending
  <1>2. ~Mismatch(e)
    BY <1>1, EventTypes DEF Mismatch, CardInv, EventsMatchPosts
  <1>3. ~Obsolete(e) => Projectable(e)
    BY <1>1 DEF Obsolete, Projectable, CardInv, EventsMatchPosts
  <1>4. Obsolete(e) /\ Settle(h, "superseded")
    BY <1>2, <1>3 DEF HandlerRejects
  <1>5. /\ f.state = "superseded" /\ f.post = e.post /\ f.number = e.number
        /\ event' = (event \ {e}) \cup {f}
        /\ job'[h] = None /\ \A i \in Handler \ {h} : job'[i] = job[i]
        /\ post' = post
    BY <1>1, <1>4, SettleStep DEF Verdict
  <1>6. (EventsMatchPosts /\ OneEventPerRevision /\ JobsArePending /\ OnlySpentEventsFail)'
    BY <1>1, <1>4, SettleKeeps DEF Verdict
  <1>7. CardsArePublished'
    BY <1>1, <1>5 DEF CardInv, CardsArePublished
  <1>8. CardFollowsRevision'
    <2> SUFFICES ASSUME NEW p \in Post, post[p].life = "published"
                 PROVE  \E g \in event' :
                          /\ g.post = p /\ g.number = post[p].rev
                          /\ Reflected(g, card[p])
      BY <1>1, <1>5 DEF CardFollowsRevision, Reflected, GivenUp
    <2>1. PICK g \in event :
            /\ g.post = p /\ g.number = post[p].rev
            /\ Reflected(g, card[p])
      BY DEF CardInv, CardFollowsRevision
    <2>2. g # e
      BY <2>1, <1>4 DEF Obsolete
    <2> QED
      BY <2>1, <2>2, <1>5
  <1>9. SnapshotIsFresh'
    BY <1>1, <1>5 DEF CardInv, SnapshotIsFresh, Obsolete
  <1> QED
    BY <1>6, <1>7, <1>8, <1>9 DEF CardInv

(* The projected event is the current one, and the card in the snapshot is  *)
(* the card: it is absent or older than the post, and gets written.         *)
LEMMA HandlerProjectsKeepsCardInv ==
  ASSUME RowsInv, CardInv, NEW h \in Handler, HandlerProjects(h)
  PROVE  CardInv'
  <1> DEFINE e == job[h].event
             p == job[h].event.post
             f == [e EXCEPT !.state = "succeeded"]
             new == [rev |-> e.number, version |-> post[p].version]
  <1>1. /\ job[h] # None /\ Settle(h, "succeeded") /\ ~Obsolete(e) /\ Projectable(e)
        /\ e \in event /\ e.state = "pending"
    BY DEF HandlerProjects, CardInv, JobsArePending
  <1>2. /\ p \in Post /\ post[p].life = "published" /\ post[p].rev = e.number
        /\ post[p].version = e.version /\ post[p].version \in Nat /\ post[p].rev \in Nat
    BY <1>1, EventTypes DEF Projectable, Obsolete, CardInv, EventsMatchPosts
  <1>3. job[h].card = card[p]
    BY <1>1 DEF CardInv, SnapshotIsFresh
  <1>4. card[p] # None => card[p].version < post[p].version /\ card[p].version \in Nat
    BY <1>1, <1>2 DEF CardInv, CardsArePublished, RowsInv, TypeOK, Card
  <1>5. card' = [card EXCEPT ![p] = new]
    <2> DEFINE seen == job[h].card
    <2>1. \/ seen # None /\ seen.version >= post[p].version
          \/ seen # None /\ card' = IF card[p] = None THEN card ELSE [card EXCEPT ![p] = new]
          \/ seen = None /\ card' = [card EXCEPT ![p] = new]
      BY DEF HandlerProjects
    <2>2. seen = card[p] /\ (seen # None => ~(seen.version >= post[p].version))
      BY <1>2, <1>3, <1>4
    <2> HIDE DEF seen, new, p
    <2> QED
      BY <2>1, <2>2
  <1>6. card'[p] = new /\ \A q \in Post : q # p => card'[q] = card[q]
    BY <1>2, <1>5 DEF RowsInv, TypeOK
  <1>7. /\ f.state = "succeeded" /\ f.post = p /\ f.number = e.number
        /\ f.version = e.version /\ event' = (event \ {e}) \cup {f}
        /\ job'[h] = None /\ \A i \in Handler \ {h} : job'[i] = job[i]
        /\ post' = post
    BY <1>1, SettleStep DEF Verdict
  <1>8. (EventsMatchPosts /\ OneEventPerRevision /\ JobsArePending /\ OnlySpentEventsFail)'
    BY <1>1, SettleKeeps DEF Verdict
  <1>9. \A g \in event : g.post = p /\ g.number = e.number => g = e
    BY <1>1 DEF CardInv, OneEventPerRevision
  <1>10. CardsArePublished'
    <2> SUFFICES ASSUME NEW q \in Post, card'[q] # None
                 PROVE  /\ post[q].life = "published"
                        /\ card'[q].version <= post[q].version
                        /\ card'[q].rev <= post[q].rev
                        /\ \A g \in event' : g.post = q /\ g.number = post[q].rev
                                             /\ g.state = "pending"
                             => card'[q].version < post[q].version
      BY <1>7 DEF CardsArePublished
    <2>1. CASE q = p
      <3>1. \A g \in event' : ~(g.post = p /\ g.number = e.number /\ g.state = "pending")
        BY <1>7, <1>9
      <3> QED
        BY <2>1, <3>1, <1>2, <1>6
    <2>2. CASE q # p
      BY <2>2, <1>6, <1>7 DEF CardInv, CardsArePublished
    <2> QED
      BY <2>1, <2>2
  <1>11. CardFollowsRevision'
    <2> SUFFICES ASSUME NEW q \in Post, post[q].life = "published"
                 PROVE  \E g \in event' :
                          /\ g.post = q /\ g.number = post[q].rev
                          /\ Reflected(g, card'[q])
      BY <1>7 DEF CardFollowsRevision, Reflected, GivenUp
    <2>1. CASE q = p
      <3>1. /\ f \in event' /\ f.post = p /\ f.number = post[p].rev
            /\ f.version = post[p].version
        BY <1>2, <1>7
      <3>2. card'[p] = [rev |-> f.number, version |-> f.version] /\ f.state = "succeeded"
        BY <1>2, <1>6, <1>7
      <3> HIDE DEF f, p
      <3>3. Reflected(f, card'[p])
        BY <3>2 DEF Reflected
      <3> QED
        BY <2>1, <3>1, <3>3
    <2>2. CASE q # p
      <3>1. PICK g \in event :
              /\ g.post = q /\ g.number = post[q].rev
              /\ Reflected(g, card[q])
        BY DEF CardInv, CardFollowsRevision
      <3> QED
        BY <2>2, <3>1, <1>6, <1>7
    <2> QED
      BY <2>1, <2>2
  <1>12. SnapshotIsFresh'
    <2> SUFFICES ASSUME NEW i \in Handler, job'[i] # None, ~Obsolete(job[i].event)'
                 PROVE  job'[i].card = card'[job'[i].event.post]
      BY DEF SnapshotIsFresh
    <2>1. /\ i # h /\ job'[i] = job[i] /\ job[i].event \in event
          /\ job[i].event # e
      BY <1>1, <1>7 DEF CardInv, JobsArePending
    <2>2. /\ ~Obsolete(job[i].event) /\ job[i].event.post \in Post
          /\ job[i].card = card[job[i].event.post]
      BY <2>1, <1>7, EventTypes DEF Obsolete, CardInv, SnapshotIsFresh
    <2>3. job[i].event.post # p
      BY <2>1, <2>2, <1>2, <1>9 DEF Obsolete
    <2> QED
      BY <2>1, <2>2, <2>3, <1>6
  <1> QED
    BY <1>8, <1>10, <1>11, <1>12 DEF CardInv

LEMMA HandlerStepKeepsCardInv ==
  ASSUME RowsInv, CardInv, NEW h \in Handler, HandlerStep(h)
  PROVE  CardInv'
  <1> USE DEF rows
  <1>1. ASSUME NEW e \in event, HandlerTake(h, e) PROVE CardInv'
    <2> DEFINE f == [e EXCEPT !.attempts = @ + 1]
    <2>1. /\ job'[h] = [event |-> f, card |-> card[e.post]]
          /\ \A i \in Handler \ {h} : job'[i] = job[i]
          /\ UNCHANGED <<post, revision, card>>
          /\ event' = (event \ {e}) \cup {f}
          /\ \A i \in Handler : job[i] # None => job[i].event # e
      BY <1>1 DEF HandlerTake, RowsInv, TypeOK
    <2>2. /\ f.state = "pending" /\ e.state = "pending"
          /\ f.post = e.post /\ f.number = e.number /\ f.version = e.version
      BY <1>1, ClaimedEvent, EventTypes DEF HandlerTake, Ready
    <2> HIDE DEF f
    <2>3. \A i \in Handler : job[i] # None => job[i].event # f
      <3>1. ASSUME NEW i \in Handler, job[i] # None, job[i].event = f PROVE FALSE
        <4>1. f \in event
          BY <3>1 DEF CardInv, JobsArePending
        <4>2. f = e
          BY <4>1, <2>2 DEF CardInv, OneEventPerRevision
        <4> QED
          BY <2>1, <3>1, <4>2
      <3> QED
        BY <3>1
    <2>4. JobsArePending'
      BY <2>1, <2>2, <2>3 DEF CardInv, JobsArePending
    <2>5. SnapshotIsFresh'
      <3> SUFFICES ASSUME NEW i \in Handler, job'[i] # None, ~Obsolete(job[i].event)'
                   PROVE  job'[i].card = card[job'[i].event.post]
        BY <2>1 DEF SnapshotIsFresh
      <3>1. CASE i = h
        BY <2>1, <2>2, <3>1
      <3>2. CASE i # h
        <4>1. job'[i] = job[i] /\ ~Obsolete(job[i].event)
          BY <2>1, <3>2 DEF Obsolete
        <4> QED
          BY <4>1 DEF CardInv, SnapshotIsFresh
      <3> QED
        BY <3>1, <3>2
    <2>6. (EventsMatchPosts /\ OneEventPerRevision /\ OnlySpentEventsFail)'
      BY <2>1, <2>2, SameAnnouncement
    <2>7. CardsArePublished'
      BY <2>1, <2>2 DEF CardInv, CardsArePublished
    <2>8. CardFollowsRevision'
      BY <2>1, <2>2 DEF CardInv, CardFollowsRevision, Reflected, GivenUp
    <2> QED
      BY <2>4, <2>5, <2>6, <2>7, <2>8 DEF CardInv
  <1>2. ASSUME HandlerFails(h) PROVE CardInv'
    <2>1. PICK s \in {"pending", "failed"} :
            Settle(h, s) /\ (s = "failed" => job[h].event.attempts = MaxAttempts)
      BY <1>2, FailedVerdict
    <2> DEFINE e == job[h].event
               f == [e EXCEPT !.state = s]
    <2>2. job[h] # None /\ card' = card
      BY <1>2, FailedVerdict
    <2>3. e \in event
      BY <2>2 DEF CardInv, JobsArePending
    <2>4. /\ f.state = s /\ f.post = e.post /\ f.number = e.number
          /\ f.attempts = e.attempts /\ event' = (event \ {e}) \cup {f}
          /\ job'[h] = None /\ \A i \in Handler \ {h} : job'[i] = job[i]
          /\ post' = post
      BY <2>1, <2>2, SettleStep DEF Verdict
    <2>5. (EventsMatchPosts /\ OneEventPerRevision /\ JobsArePending /\ OnlySpentEventsFail)'
      BY <2>1, <2>2, SettleKeeps DEF Verdict
    <2>6. e.state = "pending" /\ (f.state = "failed" => GivenUp(f))
      BY <2>1, <2>2, <2>4 DEF CardInv, JobsArePending, GivenUp
    <2> HIDE DEF e, f
    <2>7. CardsArePublished'
      BY <2>2, <2>3, <2>4, <2>6 DEF CardInv, CardsArePublished
    <2>8. CardFollowsRevision'
      <3> SUFFICES ASSUME NEW q \in Post, post[q].life = "published"
                   PROVE  \E g \in event' :
                            /\ g.post = q /\ g.number = post[q].rev
                            /\ Reflected(g, card[q])
        BY <2>2, <2>4 DEF CardFollowsRevision, Reflected, GivenUp
      <3>1. PICK g \in event :
              g.post = q /\ g.number = post[q].rev /\ Reflected(g, card[q])
        BY DEF CardInv, CardFollowsRevision
      <3>2. Reflected(f, card[q])
        BY <2>1, <2>4, <2>6 DEF Reflected
      <3> QED
        BY <2>4, <3>1, <3>2
    <2>9. SnapshotIsFresh'
      BY <2>2, <2>4 DEF CardInv, SnapshotIsFresh, Obsolete
    <2> QED
      BY <2>5, <2>7, <2>8, <2>9 DEF CardInv
  <1> QED
    BY <1>1, <1>2, HandlerRejectsKeepsCardInv, HandlerProjectsKeepsCardInv
       DEF HandlerStep

LEMMA NextCardInv == RowsInv /\ CardInv /\ [Next]_vars => CardInv'
  <1> SUFFICES ASSUME RowsInv, CardInv, [Next]_vars PROVE CardInv'
    OBVIOUS
  <1>1. ASSUME NEW w \in Writer, WriterBegins(w) PROVE CardInv'
    <2>1. CASE UNCHANGED <<rows, job>>
      BY <2>1, CardUntouched DEF rows
    <2>2. CASE \E p \in Post, v \in PostVersion : Delete(w, p, v)
      BY <2>2, DeleteKeepsCardInv
    <2> QED
      BY <1>1, <2>1, <2>2 DEF WriterBegins, CreateBegin, SaveBegin, PublishBegin
  <1>2. ASSUME NEW w \in Writer, WriterStep(w) PROVE CardInv'
    <2>1. CASE UNCHANGED <<rows, job>>
      BY <2>1, CardUntouched DEF rows
    <2>2. CASE SaveCommit(w) \/ PublishCommit(w)
      BY <2>2, SaveCommitKeepsCardInv, PublishCommitKeepsCardInv
    <2> QED
      BY <1>2, <2>1, <2>2 DEF WriterStep, SaveCheck, PublishCheck, Rollback
  <1>3. ASSUME NEW h \in Handler, HandlerStep(h) PROVE CardInv'
    BY <1>3, HandlerStepKeepsCardInv
  <1>4. ASSUME NEW a \in Asset, AssetChanges(a) PROVE CardInv'
    BY <1>4, CardUntouched DEF AssetChanges, rows
  <1>5. ASSUME NEW r \in Reader, FindRevision(r) \/ \E p \in Post : FindPost(r, p)
        PROVE  CardInv'
    BY <1>5, CardUntouched DEF FindRevision, FindPost, rows
  <1>6. CASE UNCHANGED vars
    BY <1>6, CardUntouched DEF vars
  <1> QED
    BY <1>1, <1>2, <1>3, <1>4, <1>5, <1>6 DEF Next

-----------------------------------------------------------------------------
(* What is published and announced stays: steps add revisions and events,   *)
(* and change no more of an event than its delivery's state and attempts.   *)
PastStays ==
  /\ revision \subseteq revision'
  /\ \A e \in event : \E f \in event' :
       f.post = e.post /\ f.number = e.number /\ f.version = e.version

LEMMA SettleKeepsPast ==
  ASSUME RowsInv, NEW h \in Handler, job[h] # None,
         NEW s \in Verdict, Settle(h, s)
  PROVE  PastStays
  <1>1. ASSUME NEW e \in event
        PROVE  \E f \in event' : f.post = e.post /\ f.number = e.number /\ f.version = e.version
    <2> DEFINE g == job[h].event
               f == [job[h].event EXCEPT !.state = s]
    <2>0. /\ event' = (event \ {g}) \cup {f}
          /\ f.post = g.post /\ f.number = g.number /\ f.version = g.version
      BY SettleStep
    <2> HIDE DEF f, g
    <2>1. CASE e = g
      BY <2>0, <2>1
    <2>2. CASE e # g
      BY <2>0, <2>2
    <2> QED
      BY <2>1, <2>2
  <1> QED
    BY <1>1, SettleStep DEF PastStays

LEMMA NextKeepsPast == RowsInv /\ [Next]_vars => PastStays
  <1> SUFFICES ASSUME RowsInv, [Next]_vars PROVE PastStays
    OBVIOUS
  <1>1. CASE UNCHANGED <<revision, event>>
    BY <1>1 DEF PastStays
  <1>2. ASSUME NEW w \in Writer, WriterBegins(w) PROVE UNCHANGED <<revision, event>>
    BY <1>2 DEF WriterBegins, CreateBegin, SaveBegin, PublishBegin, Delete, rows
  <1>3. ASSUME NEW w \in Writer, WriterStep(w) PROVE PastStays
    <2>1. CASE PublishCommit(w)
      BY <2>1 DEF PublishCommit, PastStays
    <2>2. CASE ~PublishCommit(w)
      BY <1>1, <1>3, <2>2 DEF WriterStep, SaveCheck, SaveCommit, PublishCheck, Rollback, rows
    <2> QED
      BY <2>1, <2>2
  <1>4. ASSUME NEW h \in Handler, HandlerStep(h) PROVE PastStays
    <2>2. CASE job[h] # None /\ \E s \in Verdict : Settle(h, s)
      BY <2>2, SettleKeepsPast
    <2>3. ASSUME NEW e \in event, HandlerTake(h, e) PROVE PastStays
      <3> DEFINE f == [e EXCEPT !.attempts = @ + 1]
      <3>1. event' = (event \ {e}) \cup {f} /\ UNCHANGED revision
        BY <2>3 DEF HandlerTake
      <3>2. f.post = e.post /\ f.number = e.number /\ f.version = e.version
        BY <2>3, ClaimedEvent, EventTypes DEF HandlerTake
      <3> HIDE DEF f
      <3> QED
        BY <3>1, <3>2 DEF PastStays
    <2>4. HandlerFails(h) => job[h] # None /\ \E s \in Verdict : Settle(h, s)
      BY FailedVerdict DEF Verdict
    <2>5. HandlerRejects(h) \/ HandlerProjects(h)
            => job[h] # None /\ \E s \in Verdict : Settle(h, s)
      BY DEF HandlerRejects, HandlerProjects, Verdict
    <2> QED
      BY <1>4, <2>2, <2>3, <2>4, <2>5 DEF HandlerStep
  <1>5. ASSUME NEW a \in Asset, AssetChanges(a) PROVE UNCHANGED <<revision, event>>
    BY <1>5 DEF AssetChanges, rows
  <1>6. ASSUME NEW r \in Reader, FindRevision(r) \/ \E p \in Post : FindPost(r, p)
        PROVE  UNCHANGED <<revision, event>>
    BY <1>6 DEF FindRevision, FindPost, rows
  <1>7. CASE UNCHANGED vars
    BY <1>1, <1>7 DEF vars
  <1> QED
    BY <1>1, <1>2, <1>3, <1>4, <1>5, <1>6, <1>7 DEF Next

(* What a request has read of a post row was announced, with its revision. *)
Announced(g) ==
  /\ \E x \in revision : x.post = g.post /\ x.number = g.rev
  /\ \E e \in event : e.post = g.post /\ e.number = g.rev /\ e.version = g.version

LEMMA AnswersAreAnnounced ==
  AnswersWerePublic <=> \A r \in Reader : get[r] # None => Announced(get[r])
  <1>1. ASSUME NEW g
        PROVE  (/\ Answers(g) # {}
                /\ \A a \in Answers(g) : \E e \in event :
                     e.post = a.post /\ e.number = a.number /\ e.version = a.version)
               <=> Announced(g)
    <2> DEFINE a0 == [post |-> g.post, number |-> g.rev, version |-> g.version]
    <2>1. \A a \in Answers(g) : a = a0
      BY DEF Answers, RevisionRead
    <2>2. Answers(g) # {} <=> \E x \in revision : x.post = g.post /\ x.number = g.rev
      BY DEF Answers, RevisionRead
    <2>3. a0.post = g.post /\ a0.number = g.rev /\ a0.version = g.version
      OBVIOUS
    <2> QED
      BY <2>1, <2>2, <2>3 DEF Announced
  <1> QED
    BY <1>1 DEF AnswersWerePublic

LEMMA GetWrites ==
  ASSUME [Next]_vars, get' # get
  PROVE  \E r \in Reader : FindRevision(r) \/ \E p \in Post : FindPost(r, p)
  <1>1. ASSUME NEW w \in Writer, WriterBegins(w) PROVE FALSE
    BY <1>1 DEF WriterBegins, CreateBegin, SaveBegin, PublishBegin, Delete
  <1>2. ASSUME NEW w \in Writer, WriterStep(w) PROVE FALSE
    BY <1>2 DEF WriterStep, SaveCheck, SaveCommit, PublishCheck, PublishCommit, Rollback
  <1>3. ASSUME NEW h \in Handler, HandlerStep(h) PROVE FALSE
    BY <1>3 DEF HandlerStep, HandlerTake, HandlerRejects, HandlerProjects,
                HandlerFails, Settle
  <1>4. ASSUME NEW a \in Asset, AssetChanges(a) PROVE FALSE
    BY <1>4 DEF AssetChanges
  <1> QED
    BY <1>1, <1>2, <1>3, <1>4 DEF Next, vars

LEMMA NextAnswers == IInv /\ [Next]_vars => AnswersWerePublic'
  <1>0. (AnswersWerePublic <=> \A r \in Reader : get[r] # None => Announced(get[r]))'
    BY AnswersAreAnnounced, PTL
  <1> SUFFICES ASSUME IInv, [Next]_vars, NEW r \in Reader, get'[r] # None
               PROVE  /\ \E x \in revision' : x.post = get'[r].post /\ x.number = get'[r].rev
                      /\ \E e \in event' : /\ e.post = get'[r].post /\ e.number = get'[r].rev
                                           /\ e.version = get'[r].version
    BY <1>0 DEF Announced
  <1>1. PastStays
    BY NextKeepsPast DEF IInv
  <1>2. CASE get'[r] = get[r]
    <2>1. Announced(get[r])
      BY <1>2, AnswersAreAnnounced DEF IInv
    <2> QED
      BY <1>1, <1>2, <2>1 DEF Announced, PastStays
  <1>3. CASE get'[r] # get[r]
    <2>1. PICK p \in Post : FindPost(r, p)
      BY <1>3, GetWrites DEF FindPost, FindRevision, IInv, RowsInv, TypeOK
    <2>2. get'[r] = [post |-> p, rev |-> post[p].rev, version |-> post[p].version]
      BY <2>1 DEF FindPost, IInv, RowsInv, TypeOK
    <2>3. PICK e \in event : e.post = p /\ e.number = post[p].rev
      BY <2>1 DEF FindPost, IInv, CardInv, CardFollowsRevision
    <2>4. /\ e.version = post[p].version
          /\ \E x \in revision : x.post = p /\ x.number = post[p].rev
      BY <2>1, <2>3 DEF FindPost, IInv, CardInv, EventsMatchPosts
    <2> QED
      BY <1>1, <2>2, <2>3, <2>4 DEF Announced, PastStays
  <1> QED
    BY <1>2, <1>3

-----------------------------------------------------------------------------
(* The inductive invariant: what open transactions have read and checked    *)
(* still holds, references follow their documents, and each card agrees     *)
(* with the events and the posts (respository/post.go, publication.go,      *)
(* post_card.go).                                                           *)
THEOREM SpecIInv == Spec => []IInv
  <1>1. Init => IInv
    BY InitRowsInv, InitCardInv DEF IInv, Init, AnswersWerePublic
  <1>2. IInv /\ [Next]_vars => IInv'
    BY NextRowsInv, NextCardInv, NextAnswers DEF IInv
  <1> QED
    BY <1>1, <1>2, PTL DEF Spec

(* A revision owns references to exactly the assets of its document, though *)
(* PublishPost copies the two from different tables (publication.go:23-138).*)
THEOREM SpecRevisionKeepsItsAssets == Spec => []RevisionKeepsItsAssets
  <1>1. IInv => RevisionKeepsItsAssets
    BY DEF IInv, RowsInv
  <1> QED
    BY <1>1, SpecIInv, PTL

(* Deleted posts have no cards, and old events give them none               *)
(* (post.go:212-284, post_card.go:55-58).                                   *)
THEOREM SpecDeletedHasNoCard == Spec => []DeletedHasNoCard
  <1>1. IInv => DeletedHasNoCard
    BY DEF IInv, CardInv, CardsArePublished, DeletedHasNoCard
  <1> QED
    BY <1>1, SpecIInv, PTL

(* The card shows the current revision once its event is settled, in        *)
(* whatever order the events are taken and retried (post_card.go:34-95),    *)
(* unless every attempt at that event failed.                               *)
THEOREM SpecCardFollowsRevision == Spec => []CardFollowsRevision
  <1>1. IInv => CardFollowsRevision
    BY DEF IInv, CardInv
  <1> QED
    BY <1>1, SpecIInv, PTL

(* GetPost finds the revision it has read of, and answers with a pair that  *)
(* was announced (get_post_logic.go:53-100).                                *)
THEOREM SpecAnswersWerePublic == Spec => []AnswersWerePublic
  <1>1. IInv => AnswersWerePublic
    BY DEF IInv
  <1> QED
    BY <1>1, SpecIInv, PTL

(* No event this code writes is rejected for good (post_card.go:52-72): one *)
(* fails only with its attempts spent (task.go:164-165, 201-202).           *)
THEOREM SpecOnlySpentEventsFail == Spec => []OnlySpentEventsFail
  <1>1. IInv => OnlySpentEventsFail
    BY DEF IInv, CardInv
  <1> QED
    BY <1>1, SpecIInv, PTL

(* A card read from the snapshot is current when it is written              *)
(* (post_card.go:74-95).                                                    *)
THEOREM SpecSnapshotIsFresh == Spec => []SnapshotIsFresh
  <1>1. IInv => SnapshotIsFresh
    BY DEF IInv, CardInv
  <1> QED
    BY <1>1, SpecIInv, PTL

(* Which steps replace a draft, and which write a revision. *)
LEMMA DraftWrites ==
  ASSUME [Next]_vars, draft' # draft
  PROVE  \E w \in Writer : SaveCommit(w)
  <1>1. ASSUME NEW w \in Writer, WriterBegins(w) PROVE FALSE
    BY <1>1 DEF WriterBegins, CreateBegin, SaveBegin, PublishBegin, Delete, rows
  <1>2. ASSUME NEW w \in Writer, WriterStep(w) PROVE SaveCommit(w)
    BY <1>2 DEF WriterStep, SaveCheck, PublishCommit, PublishCheck, Rollback, rows
  <1>3. ASSUME NEW h \in Handler, HandlerStep(h) PROVE FALSE
    BY <1>3 DEF HandlerStep, HandlerTake, HandlerRejects, HandlerProjects,
                HandlerFails, Settle, rows
  <1>4. ASSUME NEW a \in Asset, AssetChanges(a) PROVE FALSE
    BY <1>4 DEF AssetChanges, rows
  <1>5. ASSUME NEW r \in Reader, FindRevision(r) \/ \E p \in Post : FindPost(r, p)
        PROVE  FALSE
    BY <1>5 DEF FindRevision, FindPost, rows
  <1> QED
    BY <1>1, <1>2, <1>3, <1>4, <1>5 DEF Next, vars

LEMMA RevisionWrites ==
  ASSUME [Next]_vars, revision' # revision
  PROVE  \E w \in Writer : PublishCommit(w)
  <1>1. ASSUME NEW w \in Writer, WriterBegins(w) PROVE FALSE
    BY <1>1 DEF WriterBegins, CreateBegin, SaveBegin, PublishBegin, Delete, rows
  <1>2. ASSUME NEW w \in Writer, WriterStep(w) PROVE PublishCommit(w)
    BY <1>2 DEF WriterStep, SaveCheck, SaveCommit, PublishCheck, Rollback, rows
  <1>3. ASSUME NEW h \in Handler, HandlerStep(h) PROVE FALSE
    BY <1>3 DEF HandlerStep, HandlerTake, HandlerRejects, HandlerProjects,
                HandlerFails, Settle, rows
  <1>4. ASSUME NEW a \in Asset, AssetChanges(a) PROVE FALSE
    BY <1>4 DEF AssetChanges, rows
  <1>5. ASSUME NEW r \in Reader, FindRevision(r) \/ \E p \in Post : FindPost(r, p)
        PROVE  FALSE
    BY <1>5 DEF FindRevision, FindPost, rows
  <1> QED
    BY <1>1, <1>2, <1>3, <1>4, <1>5 DEF Next, vars

(* No accepted save is overwritten unseen, and a publication is of the very *)
(* draft it was asked for (post_draft_model.go:62-96).                      *)
THEOREM SpecNoLostSave == Spec => NoLostSave
  <1> DEFINE Replaces(p) ==
               \E w \in Writer : /\ tx[w] # None /\ tx[w].post = p
                                 /\ tx[w].expected = draft[p].version
                                 /\ draft'[p].version = draft[p].version + 1
             Publishes(r) ==
               /\ r.source = draft[r.post].version /\ r.content = draft[r.post].content
               /\ \E w \in Writer : /\ tx[w] # None /\ tx[w].post = r.post
                                    /\ tx[w].expected = r.source
  <1>1. ASSUME IInv, [Next]_vars
        PROVE  /\ \A p \in Post : draft'[p] # draft[p] => Replaces(p)
               /\ \A r \in revision' \ revision : Publishes(r)
    <2>1. ASSUME NEW p \in Post, draft'[p] # draft[p] PROVE Replaces(p)
      <3>1. PICK w \in Writer : SaveCommit(w)
        BY <1>1, <2>1, DraftWrites
      <3>2. /\ tx[w] # None /\ tx[w].expected = draft[tx[w].post].version
            /\ tx[w].post \in Post /\ tx[w].version = draft[tx[w].post].version
        BY <1>1, <3>1 DEF SaveCommit, UpdateWithVersion, IInv, RowsInv, ReadsAreCurrent, TypeOK
      <3>3. p = tx[w].post /\ draft'[p].version = draft[p].version + 1
        BY <1>1, <2>1, <3>1, <3>2 DEF SaveCommit, UpdateWithVersion, IInv, RowsInv, TypeOK
      <3> QED
        BY <3>2, <3>3
    <2>2. ASSUME NEW r \in revision', r \notin revision PROVE Publishes(r)
      <3>1. PICK w \in Writer : PublishCommit(w)
        BY <1>1, <2>2, RevisionWrites
      <3>2. /\ tx[w] # None /\ tx[w].expected = tx[w].version
            /\ tx[w].version = draft[tx[w].post].version
            /\ tx[w].content = draft[tx[w].post].content
        BY <1>1, <3>1 DEF PublishCommit, IInv, RowsInv, ReadsAreCurrent
      <3>3. r.post = tx[w].post /\ r.source = tx[w].version /\ r.content = tx[w].content
        BY <2>2, <3>1 DEF PublishCommit
      <3> QED
        BY <3>2, <3>3
    <2> QED
      BY <2>1, <2>2
  <1> QED
    BY <1>1, SpecIInv, PTL DEF Spec, NoLostSave

(* What is published is ready at the commit (publication.go:178-238). *)
THEOREM SpecPublishesReadyAssets == Spec => PublishesReadyAssets
  <1>1. ASSUME IInv, [Next]_vars
        PROVE  \A r \in revision' \ revision :
                 \A a \in Assets(r.content) : asset[a] = "ready"
    <2> SUFFICES ASSUME NEW r \in revision', r \notin revision
                 PROVE  \A a \in Assets(r.content) : asset[a] = "ready"
      OBVIOUS
    <2>1. PICK w \in Writer : PublishCommit(w)
      BY <1>1, RevisionWrites
    <2>2. r.content = tx[w].content
      BY <2>1 DEF PublishCommit
    <2>3. \A a \in Assets(tx[w].content) : asset[a] = "ready"
      BY <1>1, <2>1 DEF PublishCommit, IInv, RowsInv, ChecksHold
    <2> QED
      BY <2>2, <2>3
  <1> QED
    BY <1>1, SpecIInv, PTL DEF Spec, PublishesReadyAssets

-----------------------------------------------------------------------------
(* The refinement: a post's history is the contents of its revisions.       *)
HistoriesAreOfRevisions ==
  \A p \in Post : \A r \in revision :
    r.post = p /\ r.number \in 1 .. post[p].rev => History[p][r.number] = r.content

LEMMA HistoryOf == RowsInv => HistoriesAreOfRevisions
  <1> SUFFICES ASSUME RowsInv, NEW p \in Post, NEW r \in revision,
                      r.post = p, r.number \in 1 .. post[p].rev
               PROVE  History[p][r.number] = r.content
    BY DEF HistoriesAreOfRevisions
  <1> DEFINE x == CHOOSE x \in revision : x.post = p /\ x.number = r.number
  <1>1. x \in revision /\ x.post = p /\ x.number = r.number
    OBVIOUS
  <1>2. x = r
    BY <1>1 DEF RowsInv, RevisionKeepsItsAssets
  <1> QED
    BY <1>2 DEF History

HistoriesAreSequences ==
  \A p \in Post : /\ post[p].rev \in Nat
                  /\ History[p] \in [1 .. post[p].rev -> ContentType]
                  /\ History[p] \in Seq(ContentType)
                  /\ Len(History[p]) = post[p].rev

LEMMA HistoryType == RowsInv => HistoriesAreSequences
  <1> SUFFICES ASSUME RowsInv, NEW p \in Post
               PROVE  /\ post[p].rev \in Nat
                      /\ History[p] \in [1 .. post[p].rev -> ContentType]
                      /\ History[p] \in Seq(ContentType)
                      /\ Len(History[p]) = post[p].rev
    BY DEF HistoriesAreSequences
  <1>1. post[p].rev \in Nat
    BY DEF RowsInv, TypeOK, Row
  <1>2. ASSUME NEW n \in 1 .. post[p].rev
        PROVE  History[p][n] \in ContentType
    <2>1. PICK r \in revision : r.post = p /\ r.number = n
      BY DEF RowsInv, NumbersArePast
    <2>2. History[p][n] = r.content
      BY <2>1, HistoryOf DEF HistoriesAreOfRevisions
    <2> QED
      BY <2>2 DEF RowsInv, TypeOK, Revision
  <1>3. History[p] = [n \in 1 .. post[p].rev |-> History[p][n]]
    BY DEF History
  <1>4. History[p] \in [1 .. post[p].rev -> ContentType]
    BY <1>2, <1>3
  <1>5. History[p] \in Seq(ContentType)
    BY <1>1, <1>4
  <1>6. Len(History[p]) = post[p].rev
    BY <1>1, <1>4, <1>5
  <1> QED
    BY <1>1, <1>4, <1>5, <1>6

(* A history without a new number is unchanged: revisions are never edited. *)
LEMMA HistoryKept ==
  ASSUME RowsInv, RowsInv', revision \subseteq revision', NEW p \in Post,
         post'[p].rev = post[p].rev
  PROVE  History'[p] = History[p]
  <1>0. \A x \in revision' : x.post = p /\ x.number \in 1 .. post'[p].rev
          => History'[p][x.number] = x.content
    <2>1. HistoriesAreOfRevisions'
      BY HistoryOf, PTL
    <2> QED
      BY <2>1, Zenon DEF HistoriesAreOfRevisions
  <1>1. ASSUME NEW n \in 1 .. post[p].rev PROVE History'[p][n] = History[p][n]
    <2>1. PICK r \in revision : r.post = p /\ r.number = n
      BY DEF RowsInv, NumbersArePast
    <2>2. History[p][n] = r.content
      BY <2>1, HistoryOf DEF HistoriesAreOfRevisions
    <2>3. History'[p][n] = r.content
      BY <2>1, <1>0
    <2> QED
      BY <2>2, <2>3
  <1>2. /\ History'[p] = [n \in 1 .. post'[p].rev |-> History'[p][n]]
        /\ History[p] = [n \in 1 .. post[p].rev |-> History[p][n]]
    BY DEF History
  <1> QED
    BY <1>1, <1>2

LEMMA HistoryUnchanged ==
  ASSUME RowsInv, RowsInv', revision \subseteq revision',
         \A p \in Post : post'[p].rev = post[p].rev
  PROVE  History' = History
  <1>1. \A p \in Post : History'[p] = History[p]
    BY HistoryKept
  <1>2. History' = [p \in Post |-> History'[p]] /\ History = [p \in Post |-> History[p]]
    BY DEF History
  <1> QED
    BY <1>1, <1>2

LEMMA QuietSteps ==
  ASSUME RowsInv, RowsInv', UNCHANGED <<post, draft, card, revision>>
  PROVE  UNCHANGED PP!vars
  <1>1. History' = History
    BY HistoryUnchanged
  <1>2. Stage' = Stage /\ Text' = Text /\ Shown' = Shown
    BY DEF Stage, Text, Shown
  <1> QED
    BY <1>1, <1>2 DEF PP!vars

(* A saved draft; a created post gets its first. *)
LEMMA SaveCommitWrites ==
  ASSUME RowsInv, RowsInv', NEW w \in Writer, NEW p \in Post, tx[w].post = p,
         SaveCommit(w)
  PROVE  PP!Next
  <1> DEFINE t == tx[w]
             new == [life |-> "draft", version |-> 1, rev |-> 0]
  <1>1. /\ t # None /\ t \in Tx /\ t.content \in ContentType
        /\ t.row = post[p]
        /\ IF t.op = "create" THEN t.row = Absent ELSE Editable(t.row)
        /\ t.op \in {"create", "save"}
    BY DEF SaveCommit, RowsInv, TypeOK, ReadsAreCurrent, Tx
  <1>2. /\ draft' = [draft EXCEPT ![p] = [version |-> t.version + 1, content |-> t.content]]
        /\ post' = IF t.op = "save" THEN post ELSE [post EXCEPT ![p] = new]
        /\ UNCHANGED <<card, revision>>
    BY DEF SaveCommit, UpdateWithVersion
  <1>3. /\ \A q \in Post : q # p => post'[q] = post[q] /\ draft'[q] = draft[q]
        /\ draft'[p].content = t.content
        /\ post'[p].rev = post[p].rev
        /\ post'[p].life = IF post[p].life = "absent" THEN "draft" ELSE post[p].life
        /\ post[p].life # "deleted" /\ post'[p].life # "absent"
    BY <1>1, <1>2, AbsentRow DEF RowsInv, TypeOK, Editable
  <1>4. History' = History
    BY <1>2, <1>3, HistoryUnchanged
  <1>5. Stage' = [Stage EXCEPT ![p] = IF @ = "absent" THEN "draft" ELSE @]
    BY <1>3 DEF Stage
  <1>6. Text' = [Text EXCEPT ![p] = t.content]
    BY <1>3 DEF Text
  <1>7. Shown' = Shown
    BY <1>2 DEF Shown
  <1>8. Stage[p] # "deleted"
    BY <1>3 DEF Stage
  <1>9. PP!Write(p, t.content)
    BY <1>4, <1>5, <1>6, <1>7, <1>8 DEF PP!Write
  <1> QED
    BY <1>1, <1>9 DEF PP!Next

(* A publication appends the draft of the moment. *)
LEMMA PublishCommitPublishes ==
  ASSUME RowsInv, RowsInv', NEW w \in Writer, NEW p \in Post, tx[w].post = p,
         PublishCommit(w)
  PROVE  PP!Next
  <1> DEFINE t == tx[w]
             c == tx[w].content
             m == post[p].rev
             r0 == [post |-> p, number |-> m + 1, source |-> t.version, content |-> c]
  <1>1. /\ t # None /\ t \in Tx /\ c \in ContentType
        /\ t.row = post[p] /\ Editable(post[p]) /\ m \in Nat
        /\ c = draft[p].content /\ c.cover # NoAsset
    <2>1. t # None /\ t.op = "publish" /\ t \in Tx
      BY DEF PublishCommit, RowsInv, TypeOK, Tx
    <2>2. /\ t.row = post[p] /\ Editable(t.row) /\ c = draft[p].content /\ c.cover # NoAsset
      BY <2>1 DEF RowsInv, ReadsAreCurrent
    <2>3. c \in ContentType
      BY <2>1 DEF Tx
    <2>4. m \in Nat
      BY DEF RowsInv, TypeOK, Row
    <2> QED
      BY <2>1, <2>2, <2>3, <2>4
  <1>2. /\ revision' = revision \cup {r0}
        /\ post' = [post EXCEPT ![p] =
             [life |-> "published", version |-> post[p].version + 1, rev |-> m + 1]]
        /\ UNCHANGED <<draft, card>>
    BY <1>1 DEF PublishCommit, Published
  <1>3. /\ \A q \in Post : q # p => post'[q] = post[q]
        /\ post'[p].life = "published" /\ post'[p].rev = m + 1
        /\ post[p].life \in {"draft", "published"}
    BY <1>1, <1>2 DEF RowsInv, TypeOK, Editable
  <1>4. \A q \in Post : q # p => History'[q] = History[q]
    BY <1>2, <1>3, HistoryKept
  <1>5. History'[p] = Append(History[p], c)
    <2>1. /\ History[p] \in Seq(ContentType) /\ Len(History[p]) = m
          /\ History[p] \in [1 .. m -> ContentType]
      BY HistoryType DEF HistoriesAreSequences
    <2>2. /\ Append(History[p], c) \in Seq(ContentType)
          /\ Len(Append(History[p], c)) = m + 1
          /\ Append(History[p], c)[m + 1] = c
          /\ \A k \in 1 .. m : Append(History[p], c)[k] = History[p][k]
      BY <2>1, <1>1
    <2>3. HistoriesAreOfRevisions' /\ HistoriesAreSequences'
      BY HistoryOf, HistoryType, PTL
    <2>4. \A x \in revision' : x.post = p /\ x.number \in 1 .. post'[p].rev
            => History'[p][x.number] = x.content
      BY <2>3, Zenon DEF HistoriesAreOfRevisions
    <2>5. History'[p] \in Seq(ContentType) /\ Len(History'[p]) = m + 1
      <3>1. History'[p] \in Seq(ContentType) /\ Len(History'[p]) = post'[p].rev
        BY <2>3, Zenon DEF HistoriesAreSequences
      <3> QED
        BY <3>1, <1>3
    <2>6. History'[p][m + 1] = c
      <3>1. r0 \in revision' /\ r0.post = p /\ r0.number = m + 1 /\ r0.content = c
        BY <1>2
      <3>2. m + 1 \in 1 .. post'[p].rev
        BY <1>1, <1>3
      <3> QED
        BY <3>1, <3>2, <2>4
    <2>7. ASSUME NEW k \in 1 .. m PROVE History'[p][k] = History[p][k]
      <3>1. PICK r \in revision : r.post = p /\ r.number = k
        BY DEF RowsInv, NumbersArePast
      <3>2. History[p][k] = r.content
        BY <3>1, HistoryOf DEF HistoriesAreOfRevisions
      <3>3. r \in revision' /\ r.number \in 1 .. post'[p].rev
        BY <3>1, <1>1, <1>2, <1>3
      <3> QED
        BY <3>1, <3>2, <3>3, <2>4
    <2>8. \A k \in 1 .. m + 1 : k \in 1 .. m \/ k = m + 1
      BY <1>1
    <2>9. \A k \in 1 .. m + 1 : History'[p][k] = Append(History[p], c)[k]
      BY <2>2, <2>6, <2>7, <2>8
    <2> QED
      BY <2>2, <2>5, <2>9, SeqEqual
  <1>6. History' = [History EXCEPT ![p] = Append(History[p], c)]
    <2>1. History' = [q \in Post |-> History'[q]] /\ History = [q \in Post |-> History[q]]
      BY DEF History
    <2> QED
      BY <2>1, <1>4, <1>5
  <1>7. Stage' = [Stage EXCEPT ![p] = "published"] /\ Stage[p] \in {"draft", "published"}
    BY <1>3 DEF Stage
  <1>8. Text[p] = c /\ Text' = Text
    <2>1. Text[p] = c
      BY <1>1, <1>3 DEF Text
    <2>2. \A q \in Post : (post'[q].life = "absent") = (post[q].life = "absent")
      BY <1>3
    <2> QED
      BY <2>1, <2>2, <1>2 DEF Text
  <1>9. Shown' = Shown
    BY <1>2 DEF Shown
  <1>10. PP!Publish(p)
    BY <1>1, <1>6, <1>7, <1>8, <1>9 DEF PP!Publish
  <1> QED
    BY <1>10 DEF PP!Next

LEMMA DeleteDeletes ==
  ASSUME RowsInv, RowsInv', NEW w \in Writer, NEW p \in Post, NEW v \in PostVersion,
         Delete(w, p, v)
  PROVE  PP!Next
  <1>1. /\ post' = [post EXCEPT ![p] = [life |-> "deleted", version |-> v + 1, rev |-> post[p].rev]]
        /\ card' = [card EXCEPT ![p] = None]
        /\ UNCHANGED <<draft, revision>> /\ post[p].life \in {"draft", "published"}
    BY DEF Delete, Editable
  <1>2. /\ \A q \in Post : q # p => post'[q] = post[q] /\ card'[q] = card[q]
        /\ post'[p].life = "deleted" /\ post'[p].rev = post[p].rev /\ card'[p] = None
    BY <1>1 DEF RowsInv, TypeOK
  <1>3. History' = History
    BY <1>1, <1>2, HistoryUnchanged
  <1>4. Stage' = [Stage EXCEPT ![p] = "deleted"] /\ Stage[p] \in {"draft", "published"}
    <2>1. Stage' = [Stage EXCEPT ![p] = "deleted"]
      BY <1>2 DEF Stage
    <2>2. Stage[p] \in {"draft", "published"}
      BY <1>1 DEF Stage
    <2> QED
      BY <2>1, <2>2
  <1>5. Text' = Text
    <2>1. \A q \in Post : (post'[q].life = "absent") = (post[q].life = "absent")
      BY <1>1, <1>2
    <2> QED
      BY <2>1, <1>1 DEF Text
  <1>6. Shown' = [Shown EXCEPT ![p] = 0]
    BY <1>2 DEF Shown
  <1>7. PP!Delete(p)
    BY <1>3, <1>4, <1>5, <1>6 DEF PP!Delete
  <1> QED
    BY <1>7 DEF PP!Next

(* A handler shows the newest publication, or what is shown already. *)
LEMMA HandlerProjectsShows ==
  ASSUME RowsInv, RowsInv', CardInv, NEW h \in Handler, NEW p \in Post,
         job[h].event.post = p, HandlerProjects(h)
  PROVE  PP!Next \/ UNCHANGED PP!vars
  <1> DEFINE e == job[h].event
             new == [rev |-> post[p].rev, version |-> post[p].version]
  <1>1. /\ job[h] # None /\ Settle(h, "succeeded") /\ ~Obsolete(e) /\ Projectable(e)
        /\ e \in event /\ e.state = "pending"
    BY DEF HandlerProjects, CardInv, JobsArePending
  <1>2. /\ post[p].life = "published" /\ post[p].rev = e.number
        /\ post[p].version \in Nat /\ post[p].rev \in Nat
    BY <1>1 DEF Projectable, Obsolete, RowsInv, TypeOK, Row
  <1>3. job[h].card = card[p]
    BY <1>1 DEF CardInv, SnapshotIsFresh
  <1>4. card[p] # None => /\ card[p].version < post[p].version /\ card[p].version \in Nat
                          /\ card[p].rev <= post[p].rev /\ card[p].rev \in Nat
    BY <1>1, <1>2 DEF CardInv, CardsArePublished, RowsInv, TypeOK, Card
  <1>5. card' = [card EXCEPT ![p] = new]
    BY <1>2, <1>3, <1>4 DEF HandlerProjects
  <1>6. /\ card'[p] = new /\ \A q \in Post : q # p => card'[q] = card[q]
        /\ UNCHANGED <<post, draft, revision>>
    BY <1>1, <1>2, <1>5 DEF RowsInv, TypeOK, Settle
  <1>7. History' = History /\ Stage' = Stage /\ Text' = Text
    BY <1>6, HistoryUnchanged DEF Stage, Text
  <1>8. card'[p] # None
    BY <1>2, <1>6, NoneAssumption DEF Card
  <1>9. Len(History[p]) = post[p].rev
    BY HistoryType DEF HistoriesAreSequences
  <1>10. Shown' = [Shown EXCEPT ![p] = post[p].rev]
    <2>1. card'[p].rev = post[p].rev
      BY <1>6
    <2>2. \A q \in Post : q # p => card'[q] = card[q]
      BY <1>6
    <2> QED
      BY <2>1, <2>2, <1>8 DEF Shown
  <1>11. Shown[p] \in Nat /\ Shown[p] <= post[p].rev
    BY <1>2, <1>4 DEF Shown
  <1>12. CASE Shown[p] < post[p].rev
    <2>1. PP!Show(p)
      BY <1>2, <1>7, <1>9, <1>10, <1>12 DEF PP!Show, Stage
    <2> QED
      BY <2>1 DEF PP!Next
  <1>13. CASE ~(Shown[p] < post[p].rev)
    <2>1. Shown[p] = post[p].rev
      BY <1>2, <1>11, <1>13
    <2>2. Shown' = Shown
      BY <2>1, <1>10 DEF Shown
    <2> QED
      BY <2>2, <1>7 DEF PP!vars
  <1> QED
    BY <1>12, <1>13

LEMMA StepImplements ==
  ASSUME IInv, IInv', [Next]_vars
  PROVE  [PP!Next]_(PP!vars)
  <1> USE DEF IInv
  <1>1. ASSUME UNCHANGED <<post, draft, card, revision>>
        PROVE  UNCHANGED PP!vars
    BY <1>1, QuietSteps
  <1>2. ASSUME NEW w \in Writer, WriterStep(w)
        PROVE  PP!Next \/ UNCHANGED PP!vars
    <2>1. CASE SaveCheck(w) \/ PublishCheck(w) \/ Rollback(w)
      BY <2>1, <1>1 DEF SaveCheck, PublishCheck, Rollback, rows
    <2>2. CASE SaveCommit(w)
      <3>1. PICK p \in Post : tx[w].post = p
        BY <2>2 DEF SaveCommit, RowsInv, TypeOK
      <3> QED
        BY <2>2, <3>1, SaveCommitWrites
    <2>3. CASE PublishCommit(w)
      <3>1. PICK p \in Post : tx[w].post = p
        BY <2>3 DEF PublishCommit, RowsInv, TypeOK
      <3> QED
        BY <2>3, <3>1, PublishCommitPublishes
    <2> QED
      BY <1>2, <2>1, <2>2, <2>3 DEF WriterStep
  <1>3. ASSUME NEW w \in Writer, WriterBegins(w)
        PROVE  PP!Next \/ UNCHANGED PP!vars
    <2>1. PICK p \in Post :
            \/ \E v \in PostVersion : Delete(w, p, v)
            \/ \E c \in Content : CreateBegin(w, p, c)
            \/ \E c \in Content, v \in DraftVersion : SaveBegin(w, p, v, c)
            \/ \E v \in PostVersion, d \in DraftVersion : PublishBegin(w, p, v, d)
      BY <1>3 DEF WriterBegins
    <2>2. CASE \E v \in PostVersion : Delete(w, p, v)
      BY <2>2, DeleteDeletes
    <2>3. CASE \E c \in Content : CreateBegin(w, p, c)
      BY <2>3, <1>1 DEF CreateBegin, rows
    <2>4. CASE \E c \in Content, v \in DraftVersion : SaveBegin(w, p, v, c)
      BY <2>4, <1>1 DEF SaveBegin, rows
    <2>5. CASE \E v \in PostVersion, d \in DraftVersion : PublishBegin(w, p, v, d)
      BY <2>5, <1>1 DEF PublishBegin, rows
    <2> QED
      BY <2>1, <2>2, <2>3, <2>4, <2>5
  <1>4. ASSUME NEW h \in Handler, HandlerStep(h)
        PROVE  PP!Next \/ UNCHANGED PP!vars
    <2>1. CASE HandlerProjects(h)
      <3>1. PICK p \in Post : job[h].event.post = p
        BY <2>1 DEF HandlerProjects, RowsInv, TypeOK, Event
      <3> QED
        BY <2>1, <3>1, HandlerProjectsShows
    <2>2. CASE ~HandlerProjects(h)
      BY <1>4, <2>2, <1>1 DEF HandlerStep, HandlerTake, HandlerRejects, HandlerFails, Settle, rows
    <2> QED
      BY <2>1, <2>2
  <1>5. CASE \/ UNCHANGED vars \/ \E a \in Asset : AssetChanges(a)
             \/ \E r \in Reader : FindRevision(r) \/ \E p \in Post : FindPost(r, p)
    BY <1>5, <1>1 DEF vars, AssetChanges, FindRevision, FindPost, rows
  <1> QED
    BY <1>2, <1>3, <1>4, <1>5 DEF Next

LEMMA InitImplements == Init => PP!Init
  <1> SUFFICES ASSUME Init PROVE PP!Init
    OBVIOUS
  <1>1. \A p \in Post : post[p].rev = 0 /\ post[p].life = "absent" /\ card[p] = None
    BY AbsentRow DEF Init
  <1>2. \A p \in Post : History[p] = <<>>
    <2> SUFFICES ASSUME NEW p \in Post PROVE History[p] = <<>>
      OBVIOUS
    <2>1. HistoriesAreSequences
      BY InitRowsInv, HistoryType
    <2>2. History[p] \in Seq(ContentType) /\ Len(History[p]) = 0
      BY <1>1, <2>1 DEF HistoriesAreSequences
    <2> QED
      BY <2>2, EmptySeq
  <1>3. History = [p \in Post |-> History[p]]
    BY DEF History
  <1>4. History = [p \in Post |-> <<>>]
    BY <1>2, <1>3
  <1>5. /\ Stage = [p \in Post |-> "absent"] /\ Text = [p \in Post |-> None]
        /\ Shown = [p \in Post |-> 0]
    BY <1>1 DEF Stage, Text, Shown
  <1> QED
    BY <1>4, <1>5 DEF PP!Init

(* Every behaviour of posts, drafts, revisions and cards is one of module   *)
(* PublishedPosts: what is published is the draft of that moment, whole, it *)
(* is never edited or dropped afterwards, and the card only moves forward.  *)
THEOREM SpecImplementsPublishedPosts == Spec => ImplementsPublishedPosts
  <1>1. Init => PP!Init
    BY InitImplements
  <1>2. IInv /\ IInv' /\ [Next]_vars => [PP!Next]_(PP!vars)
    BY StepImplements
  <1> QED
    BY <1>1, <1>2, SpecIInv, PTL DEF Spec, ImplementsPublishedPosts, PP!Spec
=============================================================================
