---------------------------- MODULE Publication ----------------------------
(***************************************************************************)
(* Posts, drafts, revisions and the post card projection of contentServer: *)
(* domain/post.go, respository/post.go, publication.go and post_card.go.   *)
(*                                                                         *)
(* A writer (a save, publish or delete request) runs one transaction that  *)
(* locks the post row first, so that for each post transactions follow one *)
(* another; assets are shared by posts and by transactions outside this    *)
(* code, and are locked FOR SHARE when they are checked.  A handler of a   *)
(* PostPublished event reads its outbox row before it locks the post, and  *)
(* from then on its plain reads see the snapshot of that moment.           *)
(*                                                                         *)
(* A draft's content is its cover and the assets of its image blocks.      *)
(* Requests of a user who is not the author change nothing and are left    *)
(* out; so are tags, text and times.  Revision n of a post stands for the  *)
(* revision with revision_number n.                                        *)
(***************************************************************************)
EXTENDS Naturals, FiniteSets

CONSTANTS
  Post, Asset, NoAsset,
  Writer,       (* concurrent requests                                      *)
  Handler,      (* workers executing PostPublished deliveries               *)
  Content,      (* the contents requests may ask for                        *)
  MaxAttempts,  (* event_delivery.max_attempts                              *)
  MaxDraftVersion, MaxPostVersion,   (* bounds: no request is tried at a    *)
                (* higher version                                          *)
  Reader,       (* concurrent GetPost requests                              *)
  None          (* no transaction, no job, no card, no answer               *)

ContentType == [cover : Asset \cup {NoAsset}, images : SUBSET Asset]
ASSUME ContentAssumption == Content \subseteq ContentType
ASSUME NoAssetAssumption == NoAsset \notin Asset
ASSUME AttemptsAssumption == MaxAttempts \in Nat \ {0}

VARIABLES
  post,       (* [Post -> the row of table post; rev is RevisionSequence    *)
              (*          and the number of PublishedRevisionID]            *)
  draft,      (* [Post -> the row of post_draft]                            *)
  ref,        (* [Post -> the draft's image rows of content_asset_ref]      *)
  revision,   (* the rows of post_revision                                  *)
  revRef,     (* the revisions' rows of content_asset_ref                   *)
  event,      (* outbox_event with state and attempts of its delivery       *)
  card,       (* [Post -> the row of post_card_projection]                  *)
  asset,      (* [Asset -> its state]                                       *)
  tx,         (* [Writer -> its open transaction]                           *)
  job,        (* [Handler -> its event, and the card in its snapshot]       *)
  get         (* [Reader -> what it has read of the post row]               *)

vars == <<post, draft, ref, revision, revRef, event, card, asset, tx, job, get>>
rows == <<post, draft, ref, revision, revRef, event, card>>

Assets(content) ==
  content.images \cup (IF content.cover = NoAsset THEN {} ELSE {content.cover})
Absent == [life |-> "absent", version |-> 0, rev |-> 0]
NoDraft == [version |-> 0, content |-> [cover |-> NoAsset, images |-> {}]]
Editable(row) == row.life \in {"draft", "published"}

(* Mutant of Locked: the post row is not locked. *)
Unlocked(p) == FALSE

(* The row lock of FindOneForUpdate, or of an insert, held to the end. *)
Locked(p) == \E w \in Writer : tx[w] # None /\ tx[w].post = p

(* Mutant of Shared: the assets are read without FOR SHARE. *)
NotShared(a) == FALSE

Shared(a) ==
  \E w \in Writer : tx[w] # None /\ tx[w].checked /\ a \in Assets(tx[w].content)

Init ==
  /\ post = [p \in Post |-> Absent]
  /\ draft = [p \in Post |-> NoDraft]
  /\ ref = [p \in Post |-> {}]
  /\ revision = {} /\ revRef = {} /\ event = {}
  /\ card = [p \in Post |-> None]
  /\ asset \in [Asset -> {"uploading", "ready"}]
  /\ tx = [w \in Writer |-> None]
  /\ job = [h \in Handler |-> None]
  /\ get = [r \in Reader |-> None]

-----------------------------------------------------------------------------
(* CreatePost and SavePostDraft.  A created post has no row to lock: it is  *)
(* a save at version 0 whose commit inserts the rows.                       *)

Open(w, op, p, expected, content) ==
  tx' = [tx EXCEPT ![w] =
           [op |-> op, post |-> p, row |-> post[p], version |-> draft[p].version,
            expected |-> expected, content |-> content, checked |-> FALSE]]

CreateBegin(w, p, content) ==
  /\ tx[w] = None /\ ~Locked(p) /\ post[p] = Absent
  /\ Open(w, "create", p, 0, content)
  /\ UNCHANGED <<rows, asset, job, get>>

(* Mutant of SaveBegin: the expected version is not compared. *)
SaveBeginBlindly(w, p, expected, content) ==
  /\ tx[w] = None /\ ~Locked(p) /\ Editable(post[p])
  /\ draft[p].version < MaxDraftVersion
  /\ Open(w, "save", p, expected, content)
  /\ UNCHANGED <<rows, asset, job, get>>

(* Lock post, lock draft, Post.ReplaceDraft. *)
SaveBegin(w, p, expected, content) ==
  /\ tx[w] = None /\ ~Locked(p) /\ Editable(post[p])
  /\ draft[p].version = expected /\ expected < MaxDraftVersion
  /\ Open(w, "save", p, expected, content)
  /\ UNCHANGED <<rows, asset, job, get>>

(* validateDraftAssets: images may still be uploading. *)
SaveCheck(w) ==
  /\ tx[w] # None /\ tx[w].op \in {"create", "save"} /\ ~tx[w].checked
  /\ \A a \in Assets(tx[w].content) : asset[a] \in {"uploading", "ready"}
  /\ tx' = [tx EXCEPT ![w].checked = TRUE]
  /\ UNCHANGED <<rows, asset, job, get>>

ImageRefs(images, version) == {[asset |-> a, version |-> version] : a \in images}

(* The update finds the draft at the version that was read. *)
UpdateWithVersion(p, version, content) ==
  /\ draft[p].version = version
  /\ draft' = [draft EXCEPT ![p] = [version |-> version + 1, content |-> content]]

(* UpdateWithVersion and replaceDraftRefs. *)
SaveCommit(w) ==
  LET t == tx[w] IN
  /\ t # None /\ t.op \in {"create", "save"} /\ t.checked
  /\ UpdateWithVersion(t.post, t.version, t.content)
  /\ ref' = [ref EXCEPT ![t.post] = ImageRefs(t.content.images, t.version + 1)]
  /\ post' = IF t.op = "save" THEN post
             ELSE [post EXCEPT ![t.post] = [life |-> "draft", version |-> 1, rev |-> 0]]
  /\ tx' = [tx EXCEPT ![w] = None]
  /\ UNCHANGED <<revision, revRef, event, card, asset, job, get>>

(* Any failure, up to and in the commit: the transaction is rolled back.    *)
Rollback(w) ==
  /\ tx[w] # None /\ tx' = [tx EXCEPT ![w] = None]
  /\ UNCHANGED <<rows, asset, job, get>>

-----------------------------------------------------------------------------
(* PublishPost. *)

(* Lock post, lock draft, compare the versions, Post.Publish. *)
PublishBegin(w, p, postVersion, draftVersion) ==
  /\ tx[w] = None /\ ~Locked(p) /\ Editable(post[p])
  /\ post[p].version = postVersion /\ postVersion < MaxPostVersion
  /\ draft[p].version = draftVersion
  /\ draft[p].content.cover # NoAsset
  /\ Open(w, "publish", p, draftVersion, draft[p].content)
  /\ UNCHANGED <<rows, asset, job, get>>

(* checkPublicationAssets: the draft's references agree in number and       *)
(* version, and every asset is ready.                                       *)
PublishCheck(w) ==
  LET t == tx[w] IN
  /\ t # None /\ t.op = "publish" /\ ~t.checked
  /\ Cardinality(ref[t.post]) = Cardinality(t.content.images)
  /\ \A r \in ref[t.post] : r.version = t.version
  /\ \A r \in ref[t.post] : asset[r.asset] = "ready"
  /\ asset[t.content.cover] = "ready"
  /\ tx' = [tx EXCEPT ![w].checked = TRUE]
  /\ UNCHANGED <<rows, asset, job, get>>

(* What Post.Publish makes of the post. *)
Published(row) == [life |-> "published", version |-> row.version + 1, rev |-> row.rev + 1]

(* The revision, the post, the revision's references (the image rows are    *)
(* copied from the draft's current ones) and the event, in one commit.      *)
PublishCommit(w) ==
  LET t == tx[w]
      n == Published(t.row).rev
      v == Published(t.row).version
      owned == {r.asset : r \in ref[t.post]}
  IN
  /\ t # None /\ t.op = "publish" /\ t.checked
  /\ revision' = revision \cup
       {[post |-> t.post, number |-> n, source |-> t.version, content |-> t.content]}
  /\ post' = [post EXCEPT ![t.post] = Published(t.row)]
  /\ revRef' = revRef \cup
       {[post |-> t.post, number |-> n, usage |-> "image", asset |-> a] : a \in owned}
       \cup {[post |-> t.post, number |-> n, usage |-> "cover",
              asset |-> t.content.cover]}
  /\ event' = event \cup
       {[post |-> t.post, number |-> n, version |-> v, state |-> "pending",
         attempts |-> 0]}
  /\ tx' = [tx EXCEPT ![w] = None]
  /\ UNCHANGED <<draft, ref, card, asset, job, get>>

-----------------------------------------------------------------------------
(* DeletePost: nothing but the locked post and its card is touched. *)

(* Mutant of Delete: the card stays. *)
DeleteKeepsCard(w, p, expected) ==
  /\ tx[w] = None /\ ~Locked(p) /\ Editable(post[p])
  /\ post[p].version = expected /\ expected < MaxPostVersion
  /\ post' = [post EXCEPT ![p] = [life |-> "deleted", version |-> expected + 1,
                                  rev |-> post[p].rev]]
  /\ UNCHANGED <<draft, ref, revision, revRef, event, card, asset, tx, job, get>>

Delete(w, p, expected) ==
  /\ tx[w] = None /\ ~Locked(p) /\ Editable(post[p])
  /\ post[p].version = expected /\ expected < MaxPostVersion
  /\ post' = [post EXCEPT ![p] = [life |-> "deleted", version |-> expected + 1,
                                  rev |-> post[p].rev]]
  /\ card' = [card EXCEPT ![p] = None]
  /\ UNCHANGED <<draft, ref, revision, revRef, event, asset, tx, job, get>>

-----------------------------------------------------------------------------
(* The post_card consumer.  Delivery guarantees that one handler at a time  *)
(* executes a pending event; an event stays pending here until it is        *)
(* settled, in a handler's hands or not.                                    *)

(* Mutant of Ready: no claim for the last attempt. *)
ReadyButForTheLast(e) == e.state = "pending" /\ e.attempts + 1 < MaxAttempts
(* What a claim finds: attempt_count < max_attempts. *)
Ready(e) == e.state = "pending" /\ e.attempts < MaxAttempts

(* The claim, which costs an attempt, and the first plain read of the       *)
(* transaction that executes it, of the outbox row.                         *)
HandlerTake(h, e) ==
  LET claimed == [e EXCEPT !.attempts = @ + 1] IN
  /\ job[h] = None /\ Ready(e)
  /\ \A i \in Handler : job[i] # None => job[i].event # e
  /\ event' = (event \ {e}) \cup {claimed}
  /\ job' = [job EXCEPT ![h] = [event |-> claimed, card |-> card[e.post]]]
  /\ UNCHANGED <<post, draft, ref, revision, revRef, card, asset, tx, get>>

(* The event does not match the locked post: a permanent failure. *)
Mismatch(e) ==
  post[e.post].life = "absent" \/ post[e.post].version < e.version

(* Mutant of Obsolete: a newer revision does not make an event obsolete. *)
ObsoleteIfDeleted(e) == post[e.post].life = "deleted"
Obsolete(e) ==
  post[e.post].life = "deleted" \/ post[e.post].rev # e.number

(* FindCardSnapshot finds a revision of this post with a cover. *)
Projectable(e) ==
  /\ post[e.post].life = "published"
  /\ \E r \in revision : /\ r.post = e.post /\ r.number = e.number
                         /\ r.content.cover # NoAsset

Settle(h, state) ==
  /\ event' = (event \ {job[h].event}) \cup {[job[h].event EXCEPT !.state = state]}
  /\ job' = [job EXCEPT ![h] = None]
  /\ UNCHANGED <<post, draft, ref, revision, revRef, asset, tx, get>>

(* ApplyPublication up to its verdict, under the post's lock. *)
HandlerRejects(h) ==
  /\ job[h] # None /\ ~Locked(job[h].event.post)
  /\ LET e == job[h].event IN
     \/ Mismatch(e) /\ Settle(h, "failed")
     \/ ~Mismatch(e) /\ Obsolete(e) /\ Settle(h, "superseded")
     \/ ~Mismatch(e) /\ ~Obsolete(e) /\ ~Projectable(e) /\ Settle(h, "failed")
  /\ UNCHANGED card

(* The card is inserted or updated, unless the one in the snapshot is       *)
(* recent enough.  An insert that finds a row is an error, an update that   *)
(* finds none changes nothing.                                              *)
HandlerProjects(h) ==
  /\ job[h] # None /\ ~Locked(job[h].event.post)
  /\ LET e == job[h].event
         seen == job[h].card
         new == [rev |-> e.number, version |-> post[e.post].version]
     IN /\ ~Mismatch(e) /\ ~Obsolete(e) /\ Projectable(e)
        /\ \/ /\ seen # None /\ seen.version >= post[e.post].version
              /\ UNCHANGED card
           \/ /\ seen # None /\ seen.version < post[e.post].version
              /\ card' = IF card[e.post] = None THEN card
                         ELSE [card EXCEPT ![e.post] = new]
           \/ /\ seen = None /\ card[e.post] = None
              /\ card' = [card EXCEPT ![e.post] = new]
  /\ Settle(h, "succeeded")

(* Any other error, or a lost process: rolled back, and ScheduleRetry or    *)
(* RecoverExpired makes the delivery pending again, or failed for good once *)
(* its attempts are spent.                                                  *)
HandlerFails(h) ==
  /\ job[h] # None
  /\ Settle(h, IF job[h].event.attempts >= MaxAttempts THEN "failed" ELSE "pending")
  /\ UNCHANGED card

-----------------------------------------------------------------------------
(* Uploads and deletions of assets, by code outside this repository: they   *)
(* lock the asset row.                                                      *)

AssetChanges(a) ==
  /\ ~Shared(a)
  /\ \/ asset[a] = "uploading" /\ asset' = [asset EXCEPT ![a] = "ready"]
     \/ asset[a] = "uploading" /\ asset' = [asset EXCEPT ![a] = "failed"]
     \/ asset[a] # "deleted" /\ asset' = [asset EXCEPT ![a] = "deleted"]
  /\ UNCHANGED <<rows, tx, job, get>>

-----------------------------------------------------------------------------
(* GetPost: two plain reads outside any transaction, with commits between.  *)

(* FindPost, and CurrentPublicRevision allows to show the post. *)
FindPost(r, p) ==
  /\ get[r] = None /\ post[p].life = "published"
  /\ get' = [get EXCEPT ![r] = [post |-> p, rev |-> post[p].rev, version |-> post[p].version]]
  /\ UNCHANGED <<rows, asset, tx, job>>

(* Mutant of RevisionRead: the post's newest revision, not the one it named. *)
NewestRevision(g) == {x \in revision : x.post = g.post /\ x.number = post[g.post].rev}
(* The row FindRevision finds; it must be of this post and have this id. *)
RevisionRead(g) == {x \in revision : x.post = g.post /\ x.number = g.rev}

(* What GetPost can answer now: the revision found, and the version of the
   post row that was read before. *)
Answers(g) ==
  {[post |-> x.post, number |-> x.number, version |-> g.version] : x \in RevisionRead(g)}

(* FindRevision, and the request ends. *)
FindRevision(r) ==
  /\ get[r] # None /\ get' = [get EXCEPT ![r] = None]
  /\ UNCHANGED <<rows, asset, tx, job>>

-----------------------------------------------------------------------------
DraftVersion == 0 .. MaxDraftVersion
PostVersion == 0 .. MaxPostVersion

WriterStep(w) ==
  \/ SaveCheck(w) \/ SaveCommit(w) \/ PublishCheck(w) \/ PublishCommit(w)
  \/ Rollback(w)

WriterBegins(w) ==
  \E p \in Post :
    \/ \E c \in Content :
         CreateBegin(w, p, c) \/ \E v \in DraftVersion : SaveBegin(w, p, v, c)
    \/ \E v \in PostVersion :
         Delete(w, p, v) \/ \E d \in DraftVersion : PublishBegin(w, p, v, d)

HandlerStep(h) ==
  \/ (\E e \in event : HandlerTake(h, e))
  \/ HandlerRejects(h) \/ HandlerProjects(h) \/ HandlerFails(h)

Next ==
  \/ \E w \in Writer : WriterBegins(w) \/ WriterStep(w)
  \/ \E h \in Handler : HandlerStep(h)
  \/ \E a \in Asset : AssetChanges(a)
  \/ \E r \in Reader : (\E p \in Post : FindPost(r, p)) \/ FindRevision(r)

Spec == Init /\ [][Next]_vars

(* The handlers go on: a ready delivery is taken, and its execution ends,   *)
(* if only because it fails; all its executions may fail.                   *)
FairSpec == Spec /\ WF_vars(\E h \in Handler : HandlerStep(h))

-----------------------------------------------------------------------------
Row == [life : {"absent", "draft", "published", "deleted"}, version : Nat, rev : Nat]
Event == [post : Post, number : Nat, version : Nat,
          state : {"pending", "succeeded", "superseded", "failed"},
          attempts : 0 .. MaxAttempts]
Revision == [post : Post, number : Nat, source : Nat, content : ContentType]
Card == [rev : Nat, version : Nat]
ASSUME NoneAssumption == None \notin Card

TypeOK ==
  /\ post \in [Post -> Row]
  /\ draft \in [Post -> [version : Nat, content : ContentType]]
  /\ ref \in [Post -> SUBSET [asset : Asset, version : Nat]]
  /\ revision \subseteq Revision
  /\ revRef \subseteq
       [post : Post, number : Nat, usage : {"image", "cover"}, asset : Asset]
  /\ event \subseteq Event
  /\ card \in [Post -> Card \cup {None}]
  /\ asset \in [Asset -> {"uploading", "ready", "failed", "deleted"}]
  /\ tx \in [Writer -> [op : {"create", "save", "publish"}, post : Post, row : Row,
                        version : Nat, expected : Nat, content : ContentType,
                        checked : BOOLEAN]
                       \cup {None}]
  /\ job \in [Handler -> [event : Event, card : Card \cup {None}] \cup {None}]
  /\ get \in [Reader -> [post : Post, rev : Nat, version : Nat] \cup {None}]

(* The draft's reference rows are those of its content and version: a       *)
(* publication never meets the mismatch it checks for (publication.go:      *)
(* 188-197, docs/publication-flow.md:13-15).                                *)
RefsFollowDraft ==
  \A p \in Post : ref[p] = ImageRefs(draft[p].content.images, draft[p].version)

(* Each revision of a post has one content, and owns references to exactly  *)
(* the assets of that content, although its document and its references     *)
(* are copied from different tables at different moments.                   *)
RevisionKeepsItsAssets ==
  /\ \A r, s \in revision : r.post = s.post /\ r.number = s.number => r = s
  /\ \A r \in revision :
       {x.asset : x \in {y \in revRef : y.post = r.post /\ y.number = r.number}}
         = Assets(r.content)

(* A post has one open transaction, and what that has read is still so. *)
OneWriterPerPost ==
  \A v, w \in Writer : tx[v] # None /\ tx[w] # None /\ tx[v].post = tx[w].post => v = w
ReadsAreCurrent ==
  \A w \in Writer : tx[w] # None =>
    LET t == tx[w] IN
    /\ t.row = post[t.post] /\ t.version = draft[t.post].version
    /\ t.expected = t.version
    /\ IF t.op = "create" THEN t.row = Absent ELSE Editable(t.row)
    /\ t.op = "publish" => /\ t.content = draft[t.post].content
                           /\ t.content.cover # NoAsset

(* The assets of a publication that has passed its check stay ready. *)
ChecksHold ==
  \A w \in Writer : tx[w] # None =>
    (tx[w].op = "publish" /\ tx[w].checked =>
       \A a \in Assets(tx[w].content) : asset[a] = "ready")

AbsentIsEmpty == \A p \in Post : post[p].life = "absent" => draft[p] = NoDraft

(* Revisions are numbered from 1 up to the post's. *)
NumbersArePast ==
  /\ \A r \in revision : r.number <= post[r.post].rev
  /\ \A x \in revRef : x.number <= post[x.post].rev
  /\ \A p \in Post : \A n \in 1 .. post[p].rev :
       \E r \in revision : r.post = p /\ r.number = n

(* The first half of the inductive invariant, behind RevisionKeepsItsAssets,*)
(* NoLostSave and PublishesReadyAssets: a publication copies the document   *)
(* it has read and the references of the moment, and they agree because the *)
(* post is locked in between.                                               *)
RowsInv ==
  /\ TypeOK /\ OneWriterPerPost /\ ReadsAreCurrent /\ ChecksHold
  /\ AbsentIsEmpty /\ RefsFollowDraft /\ NumbersArePast /\ RevisionKeepsItsAssets

(* What is published consists of assets that are ready at the commit, not   *)
(* only when they were checked (publication.go:178-179).                    *)
PublishesReadyAssets ==
  [][\A r \in revision' \ revision : \A a \in Assets(r.content) : asset[a] = "ready"]_vars

(* A draft is replaced only by a request that asked to replace that very    *)
(* version, and a publication is of the very draft it was asked for: no     *)
(* accepted save is overwritten unseen.                                     *)
NoLostSave ==
  [][/\ \A p \in Post : draft'[p] # draft[p] =>
          \E w \in Writer : /\ tx[w] # None /\ tx[w].post = p
                            /\ tx[w].expected = draft[p].version
                            /\ draft'[p].version = draft[p].version + 1
     /\ \A r \in revision' \ revision :
          /\ r.source = draft[r.post].version /\ r.content = draft[r.post].content
          /\ \E w \in Writer : /\ tx[w] # None /\ tx[w].post = r.post
                               /\ tx[w].expected = r.source]_vars

(* A deleted post has no card, and keeps none: an old event does not bring  *)
(* it back (docs/publication-flow.md:28).                                   *)
DeletedHasNoCard == \A p \in Post : post[p].life = "deleted" => card[p] = None

(* A delivery is given up: each of its MaxAttempts executions failed.       *)
GivenUp(e) == e.state = "failed" /\ e.attempts = MaxAttempts

(* How the event of a post's current revision may stand to its card c.      *)
Reflected(e, c) ==
  \/ e.state = "pending" \/ GivenUp(e)
  \/ e.state = "succeeded" /\ c = [rev |-> e.number, version |-> e.version]

(* The card of a published post shows the current revision as soon as the   *)
(* event of that revision is settled, whatever the order of the events; no  *)
(* event is settled wrongly.  Only where MaxAttempts executions failed may  *)
(* the card stay behind (respository/task.go:164-165, 201-202).             *)
CardFollowsRevision ==
  \A p \in Post : post[p].life = "published" =>
    \E e \in event : e.post = p /\ e.number = post[p].rev /\ Reflected(e, card[p])

(* The events this code writes are never permanent failures: one fails only *)
(* when its attempts are spent.                                             *)
OnlySpentEventsFail == \A e \in event : e.state = "failed" => GivenUp(e)

(* The card read from the handler's old snapshot is still the card when it  *)
(* is written: no duplicate insert, no update that is lost.                 *)
SnapshotIsFresh ==
  \A h \in Handler :
    job[h] # None /\ ~Obsolete(job[h].event)
      => job[h].card = card[job[h].event.post]

(* Events announce revisions of posts that have been published since; the   *)
(* event of the current revision has the post's version until a deletion.   *)
EventsMatchPosts ==
  \A e \in event : LET row == post[e.post] IN
    /\ row.life \in {"published", "deleted"}
    /\ e.number > 0 /\ e.number <= row.rev /\ e.version <= row.version
    /\ row.life = "published" /\ e.number = row.rev => e.version = row.version
    /\ \E r \in revision : /\ r.post = e.post /\ r.number = e.number
                           /\ r.content.cover # NoAsset
OneEventPerRevision ==
  \A e, f \in event : e.post = f.post /\ e.number = f.number => e = f
JobsArePending ==
  /\ \A h \in Handler : job[h] # None =>
       job[h].event \in event /\ job[h].event.state = "pending"
  /\ \A h, i \in Handler :
       job[h] # None /\ job[i] # None /\ job[h].event = job[i].event => h = i

(* Only published posts have cards, and a card is older than the post while *)
(* the current event is pending.                                            *)
CardsArePublished ==
  \A p \in Post : card[p] # None =>
    /\ post[p].life = "published" /\ card[p].version <= post[p].version
    /\ card[p].rev <= post[p].rev
    /\ \A e \in event : e.post = p /\ e.number = post[p].rev /\ e.state = "pending"
         => card[p].version < post[p].version

(* The second half: why the card is right whatever the order of the events. *)
CardInv ==
  /\ EventsMatchPosts /\ OneEventPerRevision /\ JobsArePending /\ OnlySpentEventsFail
  /\ CardsArePublished /\ CardFollowsRevision /\ SnapshotIsFresh

(* Although GetPost reads twice, with commits between, it finds the revision
   it looks for, and answers with a revision and a post version that were
   committed, and announced, together; a later deletion or publication does
   not show in its answer. *)
AnswersWerePublic ==
  \A r \in Reader : get[r] # None =>
    /\ Answers(get[r]) # {}
    /\ \A a \in Answers(get[r]) :
         \E e \in event : e.post = a.post /\ e.number = a.number /\ e.version = a.version

(* The inductive invariant. *)
IInv == RowsInv /\ CardInv /\ AnswersWerePublic

(* What module PublishedPosts promises: publications are only appended, each
   is the draft of that moment whole, and the card never goes back. *)
Stage == [p \in Post |-> post[p].life]
Text == [p \in Post |-> IF post[p].life = "absent" THEN None ELSE draft[p].content]
History == [p \in Post |->
  [n \in 1 .. post[p].rev |-> (CHOOSE x \in revision : x.post = p /\ x.number = n).content]]
Shown == [p \in Post |-> IF card[p] = None THEN 0 ELSE card[p].rev]
PP == INSTANCE PublishedPosts WITH
  Content <- ContentType,
  Publishable <- {c \in ContentType : c.cover # NoAsset},
  Nothing <- None,
  stage <- Stage, text <- Text, history <- History, shown <- Shown
ImplementsPublishedPosts == PP!Spec

(* A published revision is shown, or replaced, or its post deleted, unless its
   delivery is given up after MaxAttempts failures; as a post has
   MaxPostVersion versions at most, its card catches up with the last. *)
CardCatchesUp ==
  \A p \in Post :
    []<>(post[p].life = "published" =>
           \/ card[p] # None /\ card[p].rev = post[p].rev
           \/ \E e \in event : e.post = p /\ e.number = post[p].rev /\ GivenUp(e))
=============================================================================
