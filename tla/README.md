# A verification project for lets_go

lets_go is a pair of go-zero services over MySQL and Redis: `contentServer`
(posts, drafts, publication, an event pipeline) and `userServer` (logins,
sessions, passwords). This directory holds TLA+ modules translated from their
source, TLC configurations that check them on small instances, abstract
specifications they implement, and theorems that TLAPS checks for every size.
Paths below are relative to `src/`; `PROJECT.json` maps every definition to its
lines.

## 1. Inventory

| Component | Source | State | Operations | Modules |
|---|---|---|---|---|
| Event delivery | `contentServer/internal/respository/dispatch.go`, `task.go`, `model/event_delivery_model.go`, `outbox_event_model.go` | rows of `outbox_event` and `event_delivery` with status, claim token, lease, attempts, next attempt | fan-out, claim, execute, schedule retry, recover expired claims | `EventHandling` (abstract), `Delivery`, `DeliveryProofs` |
| Worker pool | `contentServer/internal/event/worker.go` | mutex-guarded flags, a buffered channel, two contexts, goroutines | Submit, Run, Ready, Done | `WorkerPool`, `WorkerPoolProofs` |
| Event pipeline | `event/pipeline.go`, `scheduler.go`, `dispatcher.go`, `reclaimer.go` | one-place wake channels, timers, local batches | Run, Notify, NotifyOutboxCommitted | `Pipeline`, `PipelineProofs` |
| Publication | `domain/post*.go`, `respository/post.go`, `publication.go`, `logic/*_post*_logic.go` | rows `post`, `post_draft`, `post_revision`, `content_asset_ref`, `outbox_event` | create, save draft, publish, delete | `PublishedPosts` (abstract), `Publication`, `PublicationProofs` |
| Post reads | `logic/get_post_logic.go`, `respository/post_read.go` | none | GetPost: the post, then its current revision | `Publication`, `PublicationProofs` |
| Post card projection | `respository/post_card.go`, `taskhandler/post_card.go` | `post_card_projection` | handler of PostPublished | `Publication`, `PublicationProofs` |
| Tags | `respository/publication.go`, `model/tag_model.go` | rows `tag`, `post_revision_tag` | find or create the tags of a revision, refer to them | `Tags`, `TagsProofs` |
| Draft content, tag names | `domain/draft_content.go`, `tag_name.go` | none (pure) | validate a document, prepare tags | `DraftContent`, `DraftContentProofs` |
| Sessions, logins, passwords | `userServer/internal/logic/*.go`, `model/users*model.go` | rows `users`, `user_devices`, `user_sessions`; codes, reset tickets and their locks in Redis | two logins, refresh, logout, change and reset password | `TokenChain` (abstract), `Sessions`, `SessionsProofs` |
| Refresh token cookie | `userServer/internal/handler/refreshhandler.go`, `logouthandler.go` | the browser's cookie | write with every token, clear on some refusals | `Sessions`, `CookieProofs` |
| Registration, user information, identifiers, HTTP surface, configuration, stubs | see section 6 | | | not modelled |

How they interact:

* A publishing transaction inserts an `outbox_event` row; after its commit the
  logic calls `NotifyOutboxCommitted`. The dispatcher turns outbox rows into
  deliveries, one per subscriber, and notifies the scheduler. The scheduler
  claims deliveries (one transaction, a fresh token and a lease per row) and
  submits them to the pool. A pool goroutine runs the handler in a transaction
  that also writes the delivery's final status. The reclaimer returns claims
  whose lease is over. Several service processes may do this on one database.
* Posts, drafts and assets meet in transactions only. Each locks the post row
  first; assets are locked FOR SHARE when they are checked.
* A publishing transaction also resolves the names of its tags, which it shares
  with the publications of other posts: one by one, in their sorted order, with
  a row lock for each.
* Requests of `userServer` share the tables and Redis. Row locks are their only
  synchronisation, and whole rows that were read earlier are written back. A
  browser sends the token its cookie had when it sent the request, and its
  cookie follows the answers in the order in which they arrive.

What is hard here: stale workers against a reclaimer; commits that are not
acknowledged; claims lost between database and memory; signals sent between a
scan and a select; shutdown while callers and handlers block; events applied
out of order under a snapshot older than the row lock; row updates computed
from earlier reads; locks that expire under their owner; deadlocks between
transactions that lock rows in opposite orders. `PROJECT.json` lists these
hazards with their lines and the properties that watch them.

What makes the components correct, in one sentence each:

* *Delivery*: every delivery ends, and its handler's writes are committed
  exactly once if it ends handled, never otherwise.
* *Pool*: nothing is sent on a closed channel, `Done` means that no goroutine
  touches a task any more, a graceful drain loses nothing.
* *Pipeline*: no announced work waits for a poll interval, the scheduler never
  blocks with claims in hand, a cancelled pipeline returns.
* *Publication*: a revision is the draft its author asked to publish, with
  references to exactly its assets; the card follows the current revision;
  a reader is answered with a revision that was public.
* *Tags*: revisions with a tag name in common share one committed tag, and
  publications do not deadlock over tags.
* *Draft content*: exactly the forests within the limits are accepted.
* *Sessions*: a refresh token is accepted once, revocation is final, a new
  password ends the sessions it has to end, every request is answered, and a
  browser does not lose a live session by its own fault.

## 2. Modules

### EventHandling and Delivery

`EventHandling` is the promise without mechanism: a delivery is `none`, `owed`,
`handled` or `abandoned`; announcing an event makes all its deliveries owed in
one step, handling counts one effective run, and both ends are final.

`Delivery` is the two tables and every transaction that writes them. A row is
`absent`, `pending`, `processing`, `succeeded`, `superseded` or `failed`, with
its attempts, claim token, and two booleans for time: `due`
(next_attempt_at has come) and `lease` (locked_until is ahead). Tokens are
numbers of a counter, one per delivery, because `uuid.NewString` never repeats.

| Action | Code |
|---|---|
| `InsertOutbox` | the outbox insert of a publishing transaction |
| `FanOut(S)` | `DispatchRepository` over a locked batch |
| `Claim(S, acknowledged)` | `TaskRepository.Claim`; a lost acknowledgement loses the batch |
| `Take`, `Drop` | the task reaches a worker, or never does (refused Submit, forced stop, crash) |
| `ExecuteBegin`, `ExecuteCommit`, `ExecuteFail` | `TaskRepository.Execute`: row lock and claim check; handler and MarkTerminal in one commit, which may be unacknowledged; any error |
| `ScheduleRetry` | `TaskRepository.ScheduleRetry`, in a transaction of its own |
| `Crash` | the process dies, or ScheduleRetry fails and is only logged |
| `RecoverExpired(S)` | `TaskRepository.RecoverExpired` |
| `LeaseExpires`, `BecomesDue` | the database clock |

Execute is two steps because leases run out, processes die and other
transactions run while the handler does; the row lock between them is `Locked`.

### WorkerPool and Pipeline

`WorkerPool` is `worker.go` goroutine by goroutine. `run` is where `Worker.Run`
stands (new, serving, closing, draining, forced, and its three ways to return);
`pc` and `job` are the goroutines; `sender` the callers inside Submit; `fate`
records what became of each task. Reading the mutex-guarded flag and entering
the select are separate steps, as in the code.

`Pipeline` EXTENDS `WorkerPool` and adds the publisher, the three loops, their
one-place wake channels and timers, and `EventPipeline.Run`. A timer is `off`
(consumed), `soon` (zero or the error backoff) or `poll`. A delivery row is
reduced to what the loops see of it; `Delivery` has the rest. A row is `lost`
when its claim was committed but the scheduler was told that Claim failed
(`ClaimFails`): it is leased and nobody works on it until `LeaseExpires` makes it
the reclaimer's. `ClaimLimit` is the 100 at which Claim cuts its limit. `owing`
and `unheard` mark commits whose notification has yet to be sent.

`PoolInv` and `PipelineInv` are their inductive invariants. The second one has
a part per hazard of the loops: what the scheduler has claimed fits the queue
(`Serving`, `HandOver`), a loop that sleeps has heard of everything that was
announced (`Announced`), and only a stopping pipeline drops a claim it knows of
(`KnownClaimsInHand`).

### Publication, PublishedPosts

A writer opens a transaction by locking the post (`SaveBegin`, `PublishBegin`),
checks its assets (`SaveCheck`, `PublishCheck`) and commits; `Delete` and the
commits write all their rows at once, `Rollback` is any failure. `CreateBegin`
has no row to lock. A handler first takes its snapshot (`HandlerTake`), then
waits for the post's lock and rejects (`HandlerRejects`), projects
(`HandlerProjects`) or fails (`HandlerFails`): the event is pending again, or
failed for good when its `attempts` have reached `MaxAttempts`. `AssetChanges` is
external: nothing under `src/` uploads or deletes assets yet. A content is a
cover and a set of images; titles, texts and times are left out (a revision's
tags are module `Tags`), and so are requests of users who are not the author,
which change nothing. A reader is GetPost: `FindPost` and `FindRevision` are
two reads in no transaction, with anything committed between them.

`PublishedPosts` is the promise: an author writes and publishes, `history` only
grows, the card shows a publication and never an older one than before, and a
deleted post has no card.

### Tags

`Begin` gives a publication its list of names, `Insert` and `Select` are the two
statements of `FindOrCreate`, `Commit` writes the references and commits,
`Rollback` is any failure. A row is locked from the INSERT that finds or makes
it to the end of its transaction, so `Insert` waits; a rolled back transaction
takes its new tags with it. A tag is its name and who inserted it, because its
id and its display name come from there. External: `SetStatus`, an operator
who hides a tag, and InnoDB's locks.

### DraftContent

`NewDraftContent` loop by loop: `Start` (limits, tags), `Index` (duplicate ids,
image limit, references), `Follow` and `AtRoot` (from every block to its root,
with the set of passed parents). The reference definition `Valid` follows no
pointers: distinct ids, existing parents, and no set of blocks that has all its
parents within itself. Checks of single fields are left out.

### Sessions, TokenChain

One action per statement that can wait for another request, or commit. A
transaction's writes appear at its commit (`CommitLogin`, `CommitRefresh`,
`CommitLogout`, `CommitPassword`); `held[p]` are the rows, index entries and
ranges that it has locked (InnoDB at REPEATABLE READ). The UPDATE that revokes
the sessions of a user scans `idx_sessions_user_device_status`: each step of
`RevokeSessions` locks one index entry or the row it belongs to (`ScanNext`), in
any order of the sessions, and the last one the range, against sessions to be
inserted. A logout changes the status and so the index entry of a row it has
locked; a login inserts row and entry. `arg[p]` keeps what it has read, so that writing a whole row
back writes old values. Redis scripts are atomic. `Refuse` and `Rollback` give
the locks back. A session is named by its login, a token is a session and a
counter. External: expiry of lock key, ticket and session, an operator who
disables accounts (`DisableAccount`), InnoDB's deadlock detection (`Victim`),
and failing calls (`Abort`, lost acknowledgements, Redis errors before or after
the script), at most `MaxFaults`. The wait for the very first row of a request
is not a state: the request begins when it gets it.

With `OneBrowser` all requests come from one browser: a refresh is sent with
the `cookie` of that moment, `Deliver` lets an answer arrive, at any time, in any
order or never, and `CookieExpires` is the cookie's Max-Age. Without it a client
may send any token that was ever issued.

`TokenChain` is the promise of a session's tokens: a session is opened once,
accepts its tokens 0, 1, 2, ... once each and in that order, and accepts none
after it has ended.

## 3. Runs

Each run has its `.cfg`; `MC*.tla` holds the small instances. Deadlock is not
reported (`CHECK_DEADLOCK FALSE`), because all these systems stop: deliveries
are final, a pool exits, every request is answered, version bounds are reached.
What must not stop is stated as liveness.

| Run | Instance | Shows |
|---|---|---|
| `delivery_rows` | 2 events (two subscribers; unknown type), 2 workers, 2 attempts, batches of 2; 59 000 states | `HandledOnce`, `LeaseIsRespected`, `FailsOnlyWhenSpent`, `RowsAdvance`; `Settles`; `ImplementsEventHandling` |
| `delivery_backoff` | 1 event, 1 subscriber | finding 1 |
| `pool_shutdown` | 2 goroutines, 2 submitters, 3 tasks; 13 000 states | `NoSendOnClosedQueue`, `DoneIsTruthful`, `GracefulDrain`, `FatesAdvance`; `Stops` |
| `pool_cancel` | the same | finding 2 |
| `pipeline_live` | 2 published events, 1 goroutine; 285 000 states | `PromptDispatch`, `PublishedIsTaken` |
| `pipeline_stop` | a ready row, a claim whose lease is over, 1 goroutine with a queue of 1, handlers that need not return; 500 000 states | `SubmitNeverBlocks`, `PromptClaim`, `KnownClaimsInHand`, `ReturnLeavesNothing`; `PipelineReturns` |
| `pipeline_done` | 1 goroutine, an expired claim | finding 3 |
| `publication` | 1 post, 2 assets, 3 contents, 2 writers, 2 handlers, 1 reader, 2 attempts, post versions up to 4, draft versions up to 2; 682 000 states | `RevisionKeepsItsAssets`, `PublishesReadyAssets`, `NoLostSave`, `CardFollowsRevision`, `AnswersWerePublic`; `CardCatchesUp`; `ImplementsPublishedPosts` |
| `draft_content` | all documents of up to 3 blocks over 3 ids, documents of 4 roots, all lists of up to 4 tags over 3 names; 246 000 states | `AcceptsForests`, `RefsAndTagsAreDerived`; `ValidationEnds` |
| `tags` | 3 publications, each with any list of up to 3 names; 1 240 000 states | `RevisionsShareTags`, `NoDeadlock` |
| `sessions_tokens` | one browser: a login, 2 refreshes, a logout, a reset, 1 fault; 403 000 states | `CookieLagsByOneAnswer`, `UsedMeansAccepted`, `LiveCookieKept`; `RequestsReturn`; `ImplementsTokenChain` |
| `sessions_passwords` | 2 phone logins, a logout, a password change, 2 resets of one ticket, 1 fault; 754 000 states up to symmetry | `UserRowKept`, `PasswordChangeEndsSessions`, `TicketResetsOnce`, `LockLeavesByOwner`, `DeadlocksArePairs` |

### Bounds, and why they are enough

* *Delivery.* Deliveries meet only in batches and workers meet only on one
  row: two of each. With two attempts a row goes through a stale claim, a
  current one and both sides of `attempt_count = max_attempts` (the default is
  10). The safety properties are also proved for all values.
* *Pool and pipeline.* With two goroutines the queue holds two; three tasks
  fill it while a caller blocks. Two submitters are more than the pipeline has
  but what Submit admits. `pipeline_stop` has more work than its queue takes,
  so that claims wait for room; its queue holds one task, so that `ClaimLimit`
  never cuts a claim short. What a cut claim leaves waits for the poll interval:
  `PromptClaim` excludes it by the hypothesis `ClaimFits`, and only its theorem
  is about batches that come near the limit. The dispatcher needs two events: one announced
  while the other is scanned. Larger batches, queues and pools, which multiply
  the states without a new kind of step, are covered by the theorems: every
  safety property here is proved for all values.
* *Publication.* Posts share nothing but assets, so one post. Version bound 4:
  two revisions and a deletion, or three revisions; draft bound 2: creation and
  one save, which two requests want. The contents are a cover that is also an
  image, a cover with another image, and an image without a cover, which
  cannot be published. Two attempts: a failure that is retried, and one that
  gives the event up.
* *Draft content.* Three blocks make a cycle with a tail, a duplicate and a
  forward parent; the proof has no bound. The limits are 3 instead of 256
  blocks, 100 images and 10 tags; documents and lists reach one past them.
* *Tags.* Three publications, because a circle of waiting may have more than
  two, and three names, so that each may wait for the next.
* *Sessions.* Each property is about two or three requests that meet on a row;
  each run has those and one more of another kind. One fault at any place, in
  each of its forms. One user: what these properties relate belongs to one user.
  For `DeadlocksArePairs` there are a login (the code serves one of the two), a
  logout and three new passwords at once; larger rings, and rings across users,
  are excluded by its theorem. The two phone logins of `sessions_passwords` are
  alike, and so are its two resets: no definition names a request, so the states
  that exchange them are one (`PasswordsSymmetry`). That run checks safety only.

### Fairness, and why the code justifies it

* `Delivery`: the loops poll for ever in some process (WF on dispatcher,
  scheduler and reclaimer), the clock moves on, a handler runs under a timeout
  (WF on `Execute`). No fairness for `Take`: a claim need not reach a worker,
  and any worker may crash; the attempt budget alone bounds the recoveries.
* `WorkerPool`: goroutines that can run do and timers fire. Handlers need not
  return; `Stops` assumes it as a premise (`HandlersReturn`), which
  `worker.go:52-53` asks of them.
* `Pipeline`: the same for the loops, and leases run out; a select with several ready cases picks
  each in the end (SF on the scheduler's return). `ServingPipeline`, for
  `PublishedIsTaken`, is a pipeline nobody cancels, whose handlers return and
  whose database does not fail for ever a transaction that finds work (SF).
* `Publication`: the handlers go on (WF): a ready delivery is taken and its
  execution ends, be it with a failure. Nothing says that a try succeeds; after
  `MaxAttempts` failures the event is given up, and the properties say so.
* `Sessions`: a request that can go on does, and InnoDB resolves deadlocks.

`Settles`, `PublishedIsTaken`, `CardCatchesUp` and `RequestsReturn` say that there
is always a later moment when nothing is owed (`[]<>`). As what ends stays ended,
and a post has finitely many versions, this is the same as every single
delivery, event, revision or request reaching its end, and it is one formula
to check instead of one per value.

## 4. Findings

1. `delivery_backoff`. `docs/event-delivery-schema.md:23` has the recovery of
   an expired claim schedule a backed-off retry; the code makes it due at once.
2. `pool_cancel`. `docs/worker.md:43` says that cancelling the service's
   context stops taking tasks and cancels running ones; the pool goes on taking
   queued tasks and cancels after `shutdownGrace`.
3. `pipeline_done`. `docs/event-pipeline.md:61` promises that `Done()` is
   closed only when all workers have exited, also after
   `ErrWorkerShutdownTimeout`. That holds of `Worker.Done` (`DoneIsTruthful`),
   not of `EventPipeline.Done`, which is closed by a `defer`.

All are disagreements of code and documentation.

## 5. Theorems

The runs of section 3 name the properties that say something of their own. The
inductive invariants (`IInv`, `PoolInv`, `PipelineInv`, `TagsInv`, `DraftInv`) were
found with TLC on the same instances; they and what follows from them
(`SpecOneHolder`, `SpecClaimsAreUnique`, `SpecImplementsPool`, `SpecLoopsServe`,
`SpecTokenAcceptedOnce`, `SpecCurrentTokenIssued`, ...) are theorems without a
bound and need no run.

Proofs have one lemma per action and, in it, one step per conjunct the action
can disturb. In each module the theorem about the inductive invariant
(`SpecIInv`, `SpecPoolInv`, `SpecPipelineInv`, `SpecTagsInv`, `SpecDraftInv`) comes first.

`DeliveryProofs` proves, for every number of events, consumers, workers,
attempts and every batch size, from the assumptions named in `Delivery`
(subscribers are consumers; attempts and batch are positive):

* `SpecIInv`: the inductive invariant `IInv`. `HandledOnce` is not inductive
  alone: a commit is only known to find its row unfinished if the row still has
  the worker's claim (`ExecutorOwnsClaim`), and that stays so only if no other
  worker, no claim scan and no recovery gets past the row's lock
  (`LockIsExclusive`). `PendingIsClaimable` and `FanOutIsAtomic` complete it:
  a new claim stays within the attempts, and an inserted row was absent.
* `SpecHandledOnce`, `SpecExecutorOwnsClaim`, `SpecPendingIsClaimable`,
  `SpecFanOutIsAtomic`, `SpecTypeOK` follow from it.
* `SpecTerminalIsFinal`, `SpecLeaseIsRespected`, `SpecFailsOnlyWhenSpent`:
  action properties. The first rests on the lemma `RowStep`, which lists
  what a step may do to a row.
* `SpecRowsAdvance`: the safety half of `Settles`. Each change of a row raises
  its `Progress`, which never exceeds `4 * MaxAttempts + 4`; so no interplay of
  retries, recoveries and lost claims goes round in a circle, and all that
  liveness adds is that the next change comes.
* `SpecClaimInv`, `SpecClaimsAreUnique`, `SpecClaimsAreBounded`: every claim
  minted one token and one attempt (`ClaimsAreCounted`) and is on its way or
  with one worker (`ClaimsAreUnique`). The pool assumes that each task is
  submitted once; this is why it may. Executions, even if all are lost, are at
  most as many as attempts.
* `SpecImplementsEventHandling`: every step of the tables is a step of
  `EventHandling` or invisible to it. Commits map to `Handle`, fan-out to
  `Announce`, failing retries and recoveries to `Abandon`.

`PublicationProofs` proves, for every set of posts, assets, requests, handlers
and contents, from `ContentAssumption`, `NoAssetAssumption` and `AttemptsAssumption` (the version
bounds play no part: no step of the argument uses them):

* `SpecIInv`, whose inductive invariant has two halves. `RowsInv` is about
  requests: each post has one open transaction (`OneWriterPerPost`, the row
  lock), so what it read (`ReadsAreCurrent`) and checked (`ChecksHold`, the
  FOR SHARE locks) still holds at its commit, references follow their drafts
  and revision numbers are fresh. `CardInv` is about handlers: the event of a
  post's current revision has the post's version (`EventsMatchPosts`), is the
  only one of that revision (`OneEventPerRevision`), is executed by one handler
  (`JobsArePending`) and, while pending, is newer than the card
  (`CardsArePublished`). Together these make the snapshot a handler reads
  harmless: as long as its event is current, nobody else writes that card.
* `SpecRevisionKeepsItsAssets`, `SpecCardFollowsRevision`,
  `SpecDeletedHasNoCard`, `SpecSnapshotIsFresh`, `SpecOnlySpentEventsFail` follow.
  An event whose `MaxAttempts` executions have all failed (`GivenUp`) is the one
  exception: the card may then stay behind the post.
* `SpecNoLostSave` and `SpecPublishesReadyAssets`: action properties, from
  the invariant and the lemmas `DraftWrites` and `RevisionWrites`, which name
  the only steps that write those tables.

* `SpecAnswersWerePublic`: revisions are never changed and a post's revision
  number never falls, so the two reads of GetPost fit together whatever is
  committed between them.
* `SpecImplementsPublishedPosts`: a publication's commit maps to `Publish`, a
  handler that projects maps to `Show`. The history of the abstract post is
  computed from the revisions; the lemmas say that it grows at its end only.

`WorkerPoolProofs` proves, for any tasks, submitters and finite set of
goroutines, `SpecPoolInv` and from it `SpecNoSendOnClosedQueue`,
`SpecDoneIsTruthful` and `SpecGracefulDrain`. The queue is closed only after the
callers inside Submit have left, and none enters after the flag is set; the
strengthening says which goroutines may still be live at each place of
`Run` (`GoroutinesLive`) and says of each task who has it (`FatesAreTrue`).
`SpecOneHolder` makes that exclusive: a task is with one caller, at one place of
the queue or with one goroutine, or nowhere. `SpecFatesAdvance`: a task takes the
steps of `Course` and no other, so it is queued once and run at most once, and
what was refused, settled or abandoned is not touched again.

`PipelineProofs` proves the same of the pipeline around that pool, for any
batch sizes and a finite set of rows, and assumes the scheduler to be the only
submitter, as in `pipeline.go`. `SpecImplementsPool`: a step of the pipeline is a
step of the pool or leaves it alone. Hence `PoolInv` is reused, not proved again,
and `PipelineKeepsPoolSafe` carries the pool's theorems over to the pool inside
the pipeline.
`SpecSubmitNeverBlocks`: between QueueStats and the last Submit only goroutines
touch the queue and they only make room, so what was claimed for the room
seen then still fits. `SpecPromptClaim` and `SpecPromptDispatch`: a one-place
channel keeps the fact, not the number, of notifications; a loop about to sleep
on its poll timer has either scanned after the commit or has a token to wake it.
`SpecPromptClaim` supposes that the limit inside Claim does not cut what the
scheduler asks for (`ClaimFits`). `SpecKnownClaimsInHand` follows from the order
in which the loops and the pool are stopped; it does not speak of claims whose
COMMIT was not acknowledged, which wait for the end of their leases. `SpecReturnLeavesNothing` is how much of the promise of
`EventPipeline.Done` (finding 3) does hold: the loops are gone, and so is every
goroutine unless `Worker.Run` gave up with `ErrWorkerShutdownTimeout`; it needs
only that `Run` waits for its group before it returns (`GroupWaits`).
`SpecLoopsServe` is the safety half of `PublishedIsTaken`: until the service is
cancelled no loop returns, whatever transaction or claim fails, and a loop
that sleeps, or is on its way to its select, has its timer set. So an event
whose announcement was lost with the acknowledgement of its commit is found by
the next scan; liveness adds that timers fire and that not every scan fails.

`TagsProofs` proves, for any set of publications and any finite set of names,
from `NameAssumption` (names are ordered like numbers), `NoneAssumption` and
`TagListAssumption` (no list has a name twice, which is `TagsKeepFirst` of
`DraftContent`): `SpecTagsInv`, whose main part is that a transaction holds
exactly the rows of the names it has resolved (`LocksAreHeld`,
`ResolvedIsLocked`); `SpecRevisionsShareTags`; and `SpecNoDeadlock`. The last
takes, in a set of publications that all wait for one another, the greatest
name waited for: its holder waits for a greater one.

`DraftContentProofs` proves, for any documents, tag lists and limits:

* `SpecDraftInv` and `SpecAcceptsForests`. The first loop's invariant
  (`IndexedTo`) counts the images of the blocks it has passed. The second
  loop's (`SecondLoop`) has a half for each answer: the block at hand belongs to
  every set closed under parents that holds block `i`, so that reaching a root
  shows there is none; and the blocks that were passed have their parents
  among those passed and the one at hand, so that meeting one again shows such
  a set.
* `SpecRoundsFall`, the safety half of `ValidationEnds`: each round of the loops
  lowers `RoundsLeft`, which is at most `n * n + n + 2` for `n` blocks. A walk
  never passes the block it began at (`SeenOthers`), so it passes at most
  `n - 1` parents before it ends, also where parents lead in a circle.
* `SpecRefsAndTagsAreDerived`. `PrepareTagNames` is a recursive function of the
  list; that it exists and what it returns is shown by least counterexamples
  (`LeastNumber`), because the library's induction theorems take operators.

`SessionsProofs` proves, for any requests, users, passwords and tickets, with
one browser or many clients and any number of faults:

* `SpecIInv`. Row locks exclude each other (`LocksAreExclusive`) and each
  place of a request implies the locks it holds (`LocksHeld`); hence what it
  has read is still in the table when it writes the whole row back
  (`RowsAreFresh`). `TokensAreSpent` and `TokensAreDistinct` relate counters to
  the requests that raised them, `RevokedAreLocked` and `LockedAreInserted` keep
  logins out while a new password revokes, `TicketsHeld` is about the lock in
  Redis, which, unlike a row lock, may be lost (`lapsed`, the resets it happened
  to). Steps are divided
  into those that change no row (`Local`), commits, and steps of the
  environment; only commits can disturb what another request knows.
* `SpecTokenAcceptedOnce`, `SpecCurrentTokenIssued`, `SpecUsedMeansAccepted`,
  `SpecTicketResetsOnce`: from the invariant. A ticket can serve twice in three
  cases, and no other: the first reset did not hear of its COMMIT, released the
  lock and failed for its client; one of the two lost the lock to expiry while
  it ran; or Redis failed to consume the ticket.
* `SpecUserRowKept`, `SpecPasswordChangeEndsSessions`, `SpecLockLeavesByOwner`:
  action properties.
* `SpecDeadlocksArePairs`, `SpecCyclesHavePairs`: which requests can wait for
  each other. `LocksAtMost` bounds the rows a request holds at each place where
  it waits: a login waits for its user with its device's and its session's locks
  at most, a logout for the index entry with its session's row, a new password
  for the sessions with its user's row and the sessions it has scanned, and for
  its first row a request waits with none. So if one who holds rows waits for
  one who waits, they are a new password and a login or logout of one user, and
  if the first is the new password they wait for each other. Every cycle of
  waits, whatever its length, contains such a pair, so the action `Victim`,
  which looks at pairs, breaks every cycle of these waits. This is said of the
  locks the model has: rows, the entries of one index, and one range per user
  that counts as locked when the scan ends. Gap by gap, and in other indexes,
  InnoDB has more.
* `SpecWaitsAreShort` and `SpecRequestsAdvance`, the safety half of
  `RequestsReturn`. Whoever is waited for, or else all he waits for, are one of
  such a pair or wait only for requests that go on; and a request only moves on
  (`Progress`), by a rollback and a lost ticket lock too, so that it changes its
  place seven times at most. What liveness adds is that who can go on does.
* `SpecImplementsTokenChain`: only the commits of logins, refreshes, logouts and
  new passwords move a chain, and each does it by one step of `TokenChain`.

`CookieProofs` builds on that invariant, for any number of requests of one
browser, with answers delivered in any order or never:

* `SpecTokensArriveInOrder` and `SpecCookieLagsByOneAnswer`. A refresh is sent
  with the cookie, so the token it spends has arrived; hence the tokens of a
  session arrive in their order (`TokensArriveInOrder`), the cookie is the last
  of them, and a counter two ahead of it would need a refresh sent with a token
  that has not arrived.
* `SpecAnswersAreFinal` and `SpecLiveCookieKept`. "inactive", "expired" and a
  logout's success stay true of their session however late they arrive
  (`EndedForGood`, from the refinement of `TokenChain`).

Only model-checked: all liveness (`Settles`, `Stops`, `PublishedIsTaken`,
`PipelineReturns`, `CardCatchesUp`, `ValidationEnds`, `RequestsReturn`), as fairness
and ENABLED are beyond the prover. For most of them a theorem above says that
no safety violation stands in the way: progress is bounded (`SpecRowsAdvance`,
`SpecRoundsFall`, `SpecRequestsAdvance`, `SpecFatesAdvance`), nobody stops making
it (`SpecLoopsServe`, `SpecWaitsAreShort`), and what it leads to is right
whatever the order (`SpecCardFollowsRevision`).

## 6. What is not modelled

* *Registration.* It reads and then inserts; which of two registrations of one
  phone number wins is decided by a unique key that no file of the repository
  creates. With the key there is nothing to show, without it nothing holds.
* *User information*: one read. *Identifiers*: UUIDs are opaque values.
* *HTTP surfaces*: routing, parsing and error mapping are stateless; of the
  handlers only what they do to the cookie is modelled.
* *Start-up and configuration*: wiring; `Pipeline`'s cancellation stands for the
  end of a service.
* *Generated table models*: one statement per method, part of the actions that
  call them. *Stub endpoints* have no behaviour yet; what other parts need of
  them (assets that become ready, codes and tickets) is external.

Within the models: contents of messages and rows beyond what a guard compares,
time other than as passed or not, encoding and signatures of tokens, device
status, the checks of single fields of a document, and the optional reads of
tags and counters in GetPost, whose failure is ignored.

## 7. Plan

The order in which the project was planned, and where it stands:

1. `EventHandling`, `Delivery`, the refinement and their proofs: done.
2. `WorkerPool`, `Pipeline` composed from it, and their proofs: done.
3. `Publication` with the card projection and a reader, its proofs, and the
   refinement of `PublishedPosts`: done.
4. `Sessions` with the browser's cookie, the proofs of both, and the refinement
   of `TokenChain`: done.
5. `Tags`, `DraftContent` and their proofs: done.
6. Left: the unique keys of `users` once the repository creates that table;
   asset upload once its endpoints are written.
