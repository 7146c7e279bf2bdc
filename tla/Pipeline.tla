------------------------------ MODULE Pipeline ------------------------------
(***************************************************************************)
(* event/pipeline.go with the three loops it starts around the worker pool *)
(* (scheduler.go, dispatcher.go, reclaimer.go).  Delivery says what their  *)
(* transactions do to the tables; this module says who wakes whom.         *)
(*                                                                         *)
(*   publisher --commit, NotifyOutboxCommitted--> dispatcher               *)
(*   dispatcher, reclaimer --commit, Notify--> scheduler --Submit--> pool  *)
(*   pool --SpaceAvailable--> scheduler                                    *)
(*                                                                         *)
(* Every signal is a one-place channel that a sender finds full or fills,  *)
(* and is sent after the commit it announces.  The polling timers are the  *)
(* safety net: an announced task should not need them.                     *)
(*                                                                         *)
(* One process is modelled, each event with one consumer.  A task's row is *)
(*   unpublished -> outbox -> ready -> claimed                             *)
(* and outbox (no consumer registered) or expired (attempts exhausted) can *)
(* go to failed.  A row is lost when the claim was committed but the       *)
(* scheduler was told that it failed: it is leased, and nobody works on    *)
(* it.  Its lease runs out, and an expired claim is the reclaimer's.  What *)
(* happens to a task whose lease runs out while it is in hand (a second    *)
(* claim of one row) is the subject of Delivery and left out here.         *)
(***************************************************************************)
EXTENDS WorkerPool

CONSTANTS
  Backlog,        (* ready tasks an earlier process left behind             *)
  Expired,        (* tasks whose claims an earlier process left behind      *)
  MaxClaimBatch,  (* SchedulerConfig.MaxClaimBatch                          *)
  ClaimLimit,     (* the most rows one Claim takes (respository/task.go:37) *)
  BatchSize       (* the BatchSize of dispatcher and reclaimer              *)

(* The scheduler is the only producer of the queue (worker.go:152-153). *)
Sched == "scheduler"
ASSUME SoleProducer == Submitter = {Sched}
ASSUME LeftBehindAssumption ==
  Backlog \subseteq Task /\ Expired \subseteq Task \ Backlog
ASSUME TaskAssumption == IsFiniteSet(Task)
ASSUME BatchAssumption ==
  /\ MaxClaimBatch \in Nat \ {0} /\ ClaimLimit \in Nat \ {0} /\ BatchSize \in Nat \ {0}

Feeder == {"dispatcher", "reclaimer"}
Loop == Feeder \cup {Sched}

VARIABLES
  pipeline,   (* "new", "starting", "running", "aborting", "returned"       *)
  row,        (* [Task -> the row's state in the database]                  *)
  owing,      (* published tasks whose NotifyOutboxCommitted is to come     *)
  unheard,    (* tasks made ready by a commit no Notify has followed yet    *)
  wake,       (* [{"dispatcher", Sched} -> its wake channel holds a token]  *)
  timer,      (* [Loop -> set to fire at once or after the error backoff    *)
              (*          ("soon"), after the poll interval, or consumed    *)
  at,         (* [Loop -> control state]                                    *)
  avail,      (* the scheduler's local available, 0 outside its scope       *)
  batch       (* tasks it has claimed and not yet submitted                 *)

loopVars == <<pipeline, row, owing, unheard, wake, timer, at, avail, batch>>
vars == <<poolVars, loopVars>>

Rows(state) == {t \in Task : row[t] = state}
Least(a, b) == IF a <= b THEN a ELSE b
SetRows(S, state) == [t \in Task |-> IF t \in S THEN state ELSE row[t]]

PipelineInit ==
  /\ PoolInit
  /\ pipeline = "new"
  /\ row = [t \in Task |-> IF t \in Backlog THEN "ready"
                          ELSE IF t \in Expired THEN "expired" ELSE "unpublished"]
  /\ owing = {} /\ unheard = Backlog
  /\ wake = [l \in {"dispatcher", Sched} |-> FALSE]
  /\ timer = [l \in Loop |-> "off"]
  /\ at = [l \in Loop |-> "off"]
  /\ avail = 0 /\ batch = {}

-----------------------------------------------------------------------------
(* EventPipeline.Run. *)

RunPipeline ==
  /\ pipeline = "new" /\ pipeline' = "starting"
  /\ UNCHANGED <<poolVars, row, owing, unheard, wake, timer, at, avail, batch>>

(* worker.Ready() opens before the loops are started; the loops' timers     *)
(* start at zero, the scheduler's once it has seen Ready itself.            *)
StartLoops ==
  /\ pipeline = "starting" /\ run # "new" /\ pipeline' = "running"
  /\ at' = [l \in Loop |-> IF l = Sched THEN "waiting" ELSE "select"]
  /\ timer' = [l \in Loop |-> "soon"]
  /\ UNCHANGED <<poolVars, row, owing, unheard, wake, avail, batch>>

Abort ==
  /\ pipeline = "starting" /\ ctxDone /\ pipeline' = "aborting"
  /\ UNCHANGED <<poolVars, row, owing, unheard, wake, timer, at, avail, batch>>

(* Mutant of ReturnFromRun: Run also waits for Worker.Done. *)
ReturnWhenDone ==
  /\ pipeline = "running" /\ \A l \in Loop : at[l] = "returned"
  /\ Returned /\ stopped
  /\ pipeline' = "returned"
  /\ UNCHANGED <<poolVars, row, owing, unheard, wake, timer, at, avail, batch>>

(* Mutant of ReturnFromRun: the worker is not one of the group. *)
ReturnWithLoops ==
  /\ \/ pipeline = "aborting"
     \/ pipeline = "running" /\ \A l \in Loop : at[l] = "returned"
  /\ pipeline' = "returned"
  /\ UNCHANGED <<poolVars, row, owing, unheard, wake, timer, at, avail, batch>>

(* group.Wait returns, and the deferred close(p.done) runs. *)
ReturnFromRun ==
  /\ \/ pipeline = "aborting"
     \/ pipeline = "running" /\ \A l \in Loop : at[l] = "returned"
  /\ Returned
  /\ pipeline' = "returned"
  /\ UNCHANGED <<poolVars, row, owing, unheard, wake, timer, at, avail, batch>>

(* The worker's goroutine is started by Run. *)
PoolRuns ==
  /\ pipeline # "new" /\ RunStep
  /\ UNCHANGED loopVars

-----------------------------------------------------------------------------
(* A publishing request: its transaction commits, then it notifies. *)

PublishCommit(t) ==
  /\ row[t] = "unpublished"
  /\ row' = [row EXCEPT ![t] = "outbox"]
  /\ owing' = owing \cup {t}
  /\ UNCHANGED <<poolVars, pipeline, unheard, wake, timer, at, avail, batch>>

(* Mutant of Signal: an unbuffered channel, which only a loop that is       *)
(* waiting in its select can receive from.                                  *)
SignalUnbuffered(l) ==
  wake' = [wake EXCEPT ![l] = @ \/ at[l] = "select"]

(* The non-blocking send of Scheduler.Notify and Dispatcher.Notify. *)
Signal(l) == wake' = [wake EXCEPT ![l] = TRUE]

NotifyOutboxCommitted(t) ==
  /\ t \in owing /\ owing' = owing \ {t}
  /\ Signal("dispatcher")
  /\ UNCHANGED <<poolVars, pipeline, row, unheard, timer, at, avail, batch>>

-----------------------------------------------------------------------------
(* The select at the head of a loop.  A timer that is set can fire; its     *)
(* value is dead until the loop's next resetTimer.                          *)

(* A return, before or in the select, or after a failed call. *)
LoopReturns(l) ==
  /\ at[l] \in {"waiting", "select"}
  /\ ctxDone \/ (l = Sched /\ stopped)
  /\ at' = [at EXCEPT ![l] = "returned"]
  /\ UNCHANGED <<poolVars, pipeline, row, owing, unheard, wake, timer, avail, batch>>

WakesUp(l) ==
  /\ at[l] = "select"
  /\ at' = [at EXCEPT ![l] = IF l = Sched THEN "stats" ELSE "scan"]
  /\ \/ /\ l # "reclaimer" /\ wake[l] /\ wake' = [wake EXCEPT ![l] = FALSE]
        /\ UNCHANGED poolVars
     \/ timer[l] # "off" /\ UNCHANGED <<poolVars, wake>>
     \/ l = Sched /\ TakeSpace /\ UNCHANGED wake
  /\ timer' = [timer EXCEPT ![l] = "off"]
  /\ UNCHANGED <<pipeline, row, owing, unheard, avail, batch>>

-----------------------------------------------------------------------------
(* Dispatcher.Run and Reclaimer.Run: FanOut or RecoverExpired scans up to   *)
(* BatchSize rows and makes the good ones ready; a full batch means another *)
(* scan at once.  Their transactions, and the scheduler's, run under the    *)
(* context and cannot be committed once it is cancelled.                    *)

Scanned(f) == IF f = "dispatcher" THEN "outbox" ELSE "expired"

Sorted(S, good) ==
  [t \in Task |-> IF t \in good THEN "ready"
                  ELSE IF t \in S THEN "failed" ELSE row[t]]
Batch(f) ==
  {S \in SUBSET Rows(Scanned(f)) :
     Cardinality(S) = Least(BatchSize, Cardinality(Rows(Scanned(f))))}

Scan(f) ==
  /\ at[f] = "scan" /\ ~ctxDone
  /\ \E S \in Batch(f) : \E good \in SUBSET S :
       /\ row' = Sorted(S, good)
       /\ at' = [at EXCEPT ![f] = IF good # {} THEN "notify" ELSE "select"]
       /\ timer' = [timer EXCEPT ![f] = IF Cardinality(S) = BatchSize
                                        THEN "soon" ELSE "poll"]
       /\ unheard' = unheard \cup good
  /\ UNCHANGED <<poolVars, pipeline, owing, wake, avail, batch>>

(* Mutant of ScanFails: no resetTimer on the error path. *)
ScanFailsForGood(f) ==
  /\ at[f] = "scan"
  /\ at' = [at EXCEPT ![f] = IF ctxDone THEN "returned" ELSE "select"]
  /\ UNCHANGED <<poolVars, pipeline, row, owing, unheard, wake, timer, avail, batch>>

(* The transaction returns an error: it is rolled back, or committed and    *)
(* not acknowledged; then nobody announces what it made ready.              *)
ScanFails(f) ==
  /\ at[f] = "scan"
  /\ at' = [at EXCEPT ![f] = IF ctxDone THEN "returned" ELSE "select"]
  /\ timer' = [timer EXCEPT ![f] = "soon"]
  /\ \E S \in Batch(f) \cup {{}} : \E good \in SUBSET S :
       row' = Sorted(S, good) /\ unheard' = unheard \cup good
  /\ UNCHANGED <<poolVars, pipeline, owing, wake, avail, batch>>

NotifyScheduler(f) ==
  /\ at[f] = "notify"
  /\ at' = [at EXCEPT ![f] = "select"]
  /\ Signal(Sched) /\ unheard' = {}
  /\ UNCHANGED <<poolVars, pipeline, row, owing, timer, avail, batch>>

-----------------------------------------------------------------------------
(* Scheduler.Run. *)

WorkerIsReady ==
  /\ at[Sched] = "waiting" /\ run # "new"
  /\ at' = [at EXCEPT ![Sched] = "select"]
  /\ UNCHANGED <<poolVars, pipeline, row, owing, unheard, wake, timer, avail, batch>>

(* Mutant of Available: the queue's capacity, whatever is queued. *)
AvailableAtAll == Capacity

(* QueueStats().Available *)
Available == Capacity - Len(queue)

QueueStats ==
  /\ at[Sched] = "stats"
  /\ IF Available = 0
     THEN /\ at' = [at EXCEPT ![Sched] = "select"]
          /\ timer' = [timer EXCEPT ![Sched] = "poll"]
          /\ UNCHANGED avail
     ELSE /\ at' = [at EXCEPT ![Sched] = "claim"]
          /\ avail' = Least(Available, MaxClaimBatch)
          /\ UNCHANGED timer
  /\ UNCHANGED <<poolVars, pipeline, row, owing, unheard, wake, batch>>

(* Claim takes up to avail ready rows, and never more than ClaimLimit: as   *)
(* many as there are.  The scheduler compares what it gets with avail.      *)
Claimable ==
  {S \in SUBSET Rows("ready") :
     Cardinality(S) = Least(Least(avail, ClaimLimit), Cardinality(Rows("ready")))}

(* Mutant of Claim: a full batch is claimed whatever the room, and what the *)
(* queue can take of it is handed over.                                     *)
ClaimFullBatch ==
  /\ at[Sched] = "claim" /\ ~ctxDone /\ at' = [at EXCEPT ![Sched] = "submit"]
  /\ \E S \in SUBSET Rows("ready") : \E T \in SUBSET S :
       /\ Cardinality(S) = Least(MaxClaimBatch, Cardinality(Rows("ready")))
       /\ Cardinality(T) = Least(avail, Cardinality(S))
       /\ row' = SetRows(S, "claimed") /\ batch' = T
  /\ timer' = [timer EXCEPT ![Sched] = "soon"]
  /\ unheard' = unheard \cap {t \in Task : row'[t] = "ready"}
  /\ UNCHANGED <<poolVars, pipeline, owing, wake, avail>>

Claim ==
  /\ at[Sched] = "claim" /\ ~ctxDone /\ at' = [at EXCEPT ![Sched] = "submit"]
  /\ \E S \in Claimable :
       /\ row' = SetRows(S, "claimed") /\ batch' = S
       /\ timer' = [timer EXCEPT ![Sched] = IF Cardinality(S) = avail
                                            THEN "soon" ELSE "poll"]
  /\ unheard' = unheard \cap {t \in Task : row'[t] = "ready"}
  /\ UNCHANGED <<poolVars, pipeline, owing, wake, avail>>

(* Claim returns an error.  Its transaction may have been committed all the *)
(* same; the scheduler drops what it does not know it has.                  *)
ClaimFails ==
  /\ at[Sched] = "claim"
  /\ at' = [at EXCEPT ![Sched] = IF ctxDone THEN "returned" ELSE "select"]
  /\ timer' = [timer EXCEPT ![Sched] = "soon"]
  /\ \E S \in Claimable \cup {{}} : row' = SetRows(S, "lost")
  /\ unheard' = unheard \cap {t \in Task : row'[t] = "ready"}
  /\ avail' = 0
  /\ UNCHANGED <<poolVars, pipeline, owing, wake, batch>>

(* The lease of a claim nobody knows of runs out: RecoverExpired sees it.   *)
LeaseExpires(t) ==
  /\ row[t] = "lost" /\ row' = [row EXCEPT ![t] = "expired"]
  /\ UNCHANGED <<poolVars, pipeline, owing, unheard, wake, timer, at, avail, batch>>

(* worker.Submit of the next task: it enters, then its select decides. *)
SubmitNext(t) ==
  /\ at[Sched] = "submit" /\ t \in batch
  /\ SubmitEnter(Sched, t)
  /\ batch' = batch \ {t}
  /\ at' = [at EXCEPT ![Sched] = IF Accepting THEN "sending" ELSE "returned"]
  /\ UNCHANGED <<pipeline, row, owing, unheard, wake, timer, avail>>

SubmitReturns ==
  /\ at[Sched] = "sending"
  /\ \/ SubmitSend(Sched) /\ at' = [at EXCEPT ![Sched] = "submit"]
     \/ SubmitAbort(Sched) /\ at' = [at EXCEPT ![Sched] = "returned"]
  /\ UNCHANGED <<pipeline, row, owing, unheard, wake, timer, avail, batch>>

BatchSubmitted ==
  /\ at[Sched] = "submit" /\ batch = {}
  /\ at' = [at EXCEPT ![Sched] = "select"] /\ avail' = 0
  /\ UNCHANGED <<poolVars, pipeline, row, owing, unheard, wake, timer, batch>>

-----------------------------------------------------------------------------
PipelineStep == RunPipeline \/ StartLoops \/ Abort \/ ReturnFromRun
LoopStep(l) == LoopReturns(l) \/ WakesUp(l)
FeederStep(f) == Scan(f) \/ ScanFails(f) \/ NotifyScheduler(f)
SchedulerStep ==
  \/ WorkerIsReady \/ QueueStats \/ Claim \/ ClaimFails
  \/ (\E t \in Task : SubmitNext(t)) \/ SubmitReturns \/ BatchSubmitted
GoroutineStep(g) == PoolLoopStep(g) /\ UNCHANGED loopVars
HandlerStep(g) == HandlerReturns(g) /\ UNCHANGED loopVars

RunningNext ==
  \/ PipelineStep \/ PoolRuns \/ SchedulerStep
  \/ \E t \in Task : PublishCommit(t) \/ NotifyOutboxCommitted(t) \/ LeaseExpires(t)
  \/ \E l \in Loop : LoopStep(l)
  \/ \E f \in Feeder : FeederStep(f)
  \/ \E g \in Goroutine : GoroutineStep(g) \/ HandlerStep(g)

PipelineNext == (Cancel /\ UNCHANGED loopVars) \/ RunningNext

PipelineSpec == PipelineInit /\ [][PipelineNext]_vars

(* Goroutines run, timers fire, leases run out; the database may fail now   *)
(* and then, but a transaction that finds work again and again is committed *)
(* once (SF), and a select with several ready cases picks each of them now  *)
(* and then (SF on the scheduler's return).  Handlers need not return.      *)
LoopFairness ==
  /\ WF_vars(PipelineStep) /\ WF_vars(PoolRuns) /\ WF_vars(SchedulerStep)
  /\ SF_vars(LoopReturns(Sched))
  /\ \A t \in Task : WF_vars(NotifyOutboxCommitted(t)) /\ WF_vars(LeaseExpires(t))
  /\ \A l \in Loop : WF_vars(LoopStep(l))
  /\ \A f \in Feeder : WF_vars(FeederStep(f))
  /\ \A g \in Goroutine : WF_vars(GoroutineStep(g))

FairPipeline == PipelineSpec /\ LoopFairness

(* The pipeline while nobody stops it, with handlers that return. *)
ServingPipeline ==
  /\ PipelineInit /\ [][RunningNext]_vars /\ LoopFairness
  /\ SF_vars(Claim /\ batch' # {})
  /\ \A f \in Feeder : SF_vars(Scan(f) /\ row' # row)
  /\ \A g \in Goroutine : WF_vars(HandlerStep(g))

-----------------------------------------------------------------------------
LoopTypeOK ==
  /\ pipeline \in {"new", "starting", "running", "aborting", "returned"}
  /\ row \in [Task -> {"unpublished", "outbox", "expired", "ready", "claimed",
                       "lost", "failed"}]
  /\ owing \subseteq Task /\ unheard \subseteq Rows("ready")
  /\ wake \in [{"dispatcher", Sched} -> BOOLEAN]
  /\ timer \in [Loop -> {"off", "soon", "poll"}]
  /\ at \in [Loop -> {"off", "waiting", "select", "scan", "notify", "stats",
                      "claim", "submit", "sending", "returned"}]
  /\ avail \in 0 .. Least(Capacity, MaxClaimBatch)
  /\ batch \subseteq Task /\ Cardinality(batch) <= avail

PipelineTypeOK == TypeOK /\ LoopTypeOK

(* The scheduler, sole producer, claims no more than it can hand over: a    *)
(* claimed task never waits for room in Submit while its lease runs         *)
(* (scheduler.go:75-76, worker.go:152-153).                                 *)
SubmitNeverBlocks == sender[Sched] # NoTask => Len(queue) < Capacity

(* No lost wakeup on the way to the pool: while the scheduler waits in its  *)
(* select with a ready task announced and room in the queue, a signal or an *)
(* expired timer is there or on its way; it never sits out the poll         *)
(* interval.  After a failed claim it may sit out the error backoff.  With  *)
(* a batch and room above ClaimLimit it may: it takes what a full claim     *)
(* leaves behind for the end of the work.                                   *)
ClaimFits == Least(Capacity, MaxClaimBatch) <= ClaimLimit
PromptClaim ==
  (ClaimFits /\ at[Sched] = "select" /\ Rows("ready") \ unheard # {} /\ Available > 0)
  => \/ wake[Sched] \/ space \/ timer[Sched] = "soon"
     \/ \E g \in Goroutine : pc[g] = "received"

(* The same for the dispatcher and committed events that were announced.    *)
PromptDispatch ==
  (at["dispatcher"] = "select" /\ Rows("outbox") \ owing # {})
  => wake["dispatcher"] \/ timer["dispatcher"] = "soon"

(* A claim the scheduler was told of is dropped only by a pipeline that is  *)
(* stopping: otherwise the task is in its hands or in the pool's.  A claim  *)
(* it was not told of (a lost row) has no worker until its lease is over.   *)
KnownClaimsInHand ==
  \A t \in Task : row[t] = "claimed" /\ fate[t] \in {"outside", "refused"}
    => t \in batch \/ ctxDone

(* A returned pipeline leaves nothing running but what a forced stop could   *)
(* not end: no loop that could still claim or dispatch, and no goroutine    *)
(* unless Worker.Run gave up with ErrWorkerShutdownTimeout.  So far goes    *)
(* the promise of EventPipeline.Done (pipeline.go:124-148).                 *)
ReturnLeavesNothing ==
  pipeline = "returned" =>
    /\ \A l \in Loop : at[l] \in {"off", "returned"}
    /\ run = "timedout" \/ AllExited

(* Before their start the loops are off; a returned pipeline has waited for *)
(* the loops it started and for the worker.                                 *)
GroupWaits ==
  /\ pipeline \in {"new", "starting", "aborting"} => \A l \in Loop : at[l] = "off"
  /\ pipeline = "returned" =>
       Returned /\ \A l \in Loop : at[l] \in {"off", "returned"}

(* The inductive invariant: past its wait the scheduler has a running pool, *)
(* which stops only for the context; what it is about to hand over fits in  *)
(* the queue; and a task that becomes ready, or an event that is committed, *)
(* behind the back of a busy loop leaves it a signal or a timer.            *)
Serving ==
  /\ run \notin {"new", "serving"} => ctxDone
  /\ pipeline \in {"new", "starting"} => at[Sched] = "off"
  /\ at[Sched] \notin {"off", "waiting", "returned"} => run # "new"
HandOver ==
  /\ sender[Sched] # NoTask <=> at[Sched] = "sending"
  /\ at[Sched] \notin {"submit", "sending", "returned"} => batch = {}
  /\ at[Sched] = "claim" => avail + Len(queue) <= Capacity
  /\ at[Sched] = "submit" => Cardinality(batch) + Len(queue) <= Capacity
  /\ at[Sched] = "sending" => Cardinality(batch) + Len(queue) < Capacity
Announced ==
  /\ at[Sched] = "waiting" => timer[Sched] = "soon"
  /\ ClaimFits /\ at[Sched] \in {"submit", "sending"} =>
       Rows("ready") \subseteq unheard \/ wake[Sched] \/ timer[Sched] = "soon"
  /\ at["dispatcher"] \in {"select", "notify"} =>
       Rows("outbox") \subseteq owing \/ wake["dispatcher"] \/ timer["dispatcher"] = "soon"
PipelineInv ==
  /\ PoolInv /\ LoopTypeOK /\ Serving /\ HandOver /\ Announced
  /\ PromptClaim /\ KnownClaimsInHand

(* The pipeline uses the pool as WorkerPool allows it to, so what is true   *)
(* of any pool is true of this one.                                         *)
ImplementsPool == PoolInit /\ [][Next]_poolVars

(* With a pipeline that keeps running, a published event, like a backlog or *)
(* an expired claim, reaches the pool or is failed: for good, so there is   *)
(* always a later moment when none is left out.                             *)
PublishedIsTaken ==
  []<>(\A t \in Task :
         row[t] # "unpublished" => fate[t] # "outside" \/ row[t] = "failed")

(* A cancelled pipeline returns, whatever the handlers do. *)
PipelineReturns == ctxDone /\ pipeline # "new" ~> pipeline = "returned"

(* docs/event-pipeline.md:61: after ErrWorkerShutdownTimeout "Done() is     *)
(* still closed only when all workers have really exited".                  *)
PipelineDoneIsTruthful ==
  pipeline = "returned" => \A g \in Goroutine : pc[g] # "executing"
=============================================================================
