--------------------------- MODULE PipelineProofs ---------------------------
(***************************************************************************)
(* Theorems about Pipeline, for any finite set of tasks, any backlog, any  *)
(* number of goroutines and any batch sizes.                               *)
(***************************************************************************)
EXTENDS Pipeline, WorkerPoolProofs

USE GoroutineAssumption, NoTaskAssumption, TaskAssumption, BatchAssumption, SoleProducer
USE DEF Sched, Loop, Feeder

LEMMA RoomInQueue ==
  ASSUME TypeOK
  PROVE  Len(queue) \in Nat /\ Len(queue) <= Capacity /\ Available \in 0 .. Capacity
  BY CapacityIsNat DEF TypeOK, Available

(* What Scan and Claim take: all there is, unless the limit is reached. *)
LEMMA TakesAll ==
  ASSUME NEW R, R \subseteq Task, NEW n \in Nat, NEW S \in SUBSET R,
         Cardinality(S) = Least(n, Cardinality(R))
  PROVE  Cardinality(S) <= n /\ (Cardinality(S) # n => S = R)
  <1>1. IsFiniteSet(R) /\ IsFiniteSet(S)
    BY FS_Subset
  <1>2. Cardinality(R) \in Nat /\ Cardinality(S) \in Nat
    BY <1>1, FS_CardinalityType
  <1>3. Cardinality(S) <= n
    BY <1>2 DEF Least
  <1>4. ASSUME Cardinality(S) # n PROVE S = R
    <2>1. Cardinality(R) = Cardinality(S)
      BY <1>2, <1>4 DEF Least
    <2> QED
      BY <1>1, <2>1, FS_Subset
  <1> QED
    BY <1>3, <1>4

LEMMA BatchIsFinite ==
  ASSUME LoopTypeOK
  PROVE  IsFiniteSet(batch) /\ Cardinality(batch) \in Nat
  BY FS_Subset, FS_CardinalityType DEF LoopTypeOK

(* Every step of the pipeline is one of the pool's, or none of its business. *)
LEMMA PoolStep == [PipelineNext]_vars => [Next]_poolVars
  <1> SUFFICES ASSUME [PipelineNext]_vars PROVE [Next]_poolVars
    OBVIOUS
  <1>1. CASE UNCHANGED vars
    BY <1>1 DEF vars
  <1>2. CASE Cancel /\ UNCHANGED loopVars
    BY <1>2 DEF Next
  <1>3. CASE PipelineStep
    BY <1>3 DEF PipelineStep, RunPipeline, StartLoops, Abort, ReturnFromRun
  <1>4. CASE PoolRuns
    BY <1>4 DEF PoolRuns, Next
  <1>5. CASE SchedulerStep
    <2>1. CASE \E t \in Task : SubmitNext(t)
      BY <2>1 DEF SubmitNext, Next
    <2>2. CASE SubmitReturns
      BY <2>2 DEF SubmitReturns, Next
    <2> QED
      BY <1>5, <2>1, <2>2 DEF SchedulerStep, WorkerIsReady, QueueStats, Claim, ClaimFails,
                              BatchSubmitted
  <1>6. CASE \E t \in Task : PublishCommit(t) \/ NotifyOutboxCommitted(t) \/ LeaseExpires(t)
    BY <1>6 DEF PublishCommit, NotifyOutboxCommitted, LeaseExpires
  <1>7. CASE \E l \in Loop : LoopStep(l)
    <2>1. CASE \E l \in Loop : WakesUp(l) /\ TakeSpace
      BY <2>1 DEF Next
    <2> QED
      BY <1>7, <2>1 DEF LoopStep, LoopReturns, WakesUp
  <1>8. CASE \E f \in Feeder : FeederStep(f)
    BY <1>8 DEF FeederStep, Scan, ScanFails, NotifyScheduler
  <1>9. CASE \E g \in Goroutine : GoroutineStep(g) \/ HandlerStep(g)
    BY <1>9 DEF GoroutineStep, HandlerStep, Next
  <1> QED
    BY <1>1, <1>2, <1>3, <1>4, <1>5, <1>6, <1>7, <1>8, <1>9 DEF PipelineNext, RunningNext

LEMMA PoolKept == PoolInv /\ [PipelineNext]_vars => PoolInv'
  BY PoolStep, PoolStepKeepsInv

LEMMA PipelineInitInv == PipelineInit => PipelineInv
  <1> SUFFICES ASSUME PipelineInit PROVE PipelineInv
    OBVIOUS
  <1>1. PoolInv
    BY PoolInitInv DEF PipelineInit
  <1>2. LoopTypeOK
    <2>1. Least(Capacity, MaxClaimBatch) \in Nat
      BY CapacityIsNat DEF Least
    <2>2. batch \subseteq Task /\ Cardinality(batch) <= avail
      BY FS_EmptySet DEF PipelineInit
    <2>3. owing \subseteq Task /\ unheard \subseteq Rows("ready")
      BY LeftBehindAssumption DEF PipelineInit, Rows
    <2>4. avail = 0
      BY DEF PipelineInit
    <2> QED
      BY <2>1, <2>2, <2>3, <2>4 DEF PipelineInit, LoopTypeOK
  <1>3. Serving /\ HandOver /\ Announced /\ PromptClaim /\ KnownClaimsInHand
    BY DEF PipelineInit, PoolInit, Serving, HandOver, Announced, PromptClaim, KnownClaimsInHand
  <1> QED
    BY <1>1, <1>2, <1>3 DEF PipelineInv

-----------------------------------------------------------------------------
(* Steps of the pool that the loops take no part in. *)
LEMMA PoolSteps ==
  ASSUME PipelineInv, PoolInv', UNCHANGED loopVars,
         Cancel \/ RunStep \/ \E g \in Goroutine : PoolLoopStep(g) \/ HandlerReturns(g)
  PROVE  PipelineInv'
  <1> USE DEF PipelineInv, PoolInv
  <1>0. UNCHANGED <<pipeline, row, owing, unheard, wake, timer, at, avail, batch>>
    BY DEF loopVars
  <1>1. UNCHANGED sender
    BY DEF Cancel, RunStep, Start, StopAccepting, CloseQueue, Finish, GraceExpires,
           ForceGraceExpires, LateFinish, PoolLoopStep, Receive, Exit, Begin, RetryReturns,
           HandlerReturns, ExecuteReturns
  <1>2. Len(queue) \in Nat /\ Len(queue') \in Nat /\ Len(queue') <= Len(queue)
    <2>1. CASE \E g \in Goroutine : Receive(g)
      BY <2>1, HeadTailProperties DEF Receive, TypeOK
    <2>2. CASE ~\E g \in Goroutine : Receive(g)
      <3>1. UNCHANGED queue
        BY <2>2 DEF Cancel, RunStep, Start, StopAccepting, CloseQueue, Finish, GraceExpires,
           ForceGraceExpires, LateFinish, PoolLoopStep, Exit, Begin, RetryReturns,
           HandlerReturns, ExecuteReturns
      <3> QED
        BY <3>1 DEF TypeOK
    <2> QED
      BY <2>1, <2>2
  <1>3. LoopTypeOK'
    BY <1>0 DEF LoopTypeOK, Rows
  <1>4. Serving'
    BY <1>0 DEF Serving, TypeOK, Cancel, RunStep, Start, StopAccepting, CloseQueue, Finish,
           GraceExpires, ForceGraceExpires, LateFinish, PoolLoopStep, Receive, Exit, Begin,
           RetryReturns, HandlerReturns, ExecuteReturns
  <1>5. HandOver'
    BY <1>0, <1>1, <1>2, CapacityIsNat, BatchIsFinite DEF HandOver, LoopTypeOK
  <1>6. Announced'
    BY <1>0 DEF Announced, Rows
  <1>7. PromptClaim'
    <2> SUFFICES ASSUME ClaimFits, at[Sched] = "select", Rows("ready") \ unheard # {},
                        Available' > 0
                 PROVE  \/ wake[Sched] \/ space' \/ timer[Sched] = "soon"
                        \/ \E g \in Goroutine : pc'[g] = "received"
      BY <1>0 DEF PromptClaim, Rows
    <2>1. run # "new"
      BY DEF Serving
    <2>2. CASE \E g \in Goroutine : Receive(g)
      BY <2>2 DEF Receive, TypeOK
    <2>3. CASE \E g \in Goroutine : Begin(g)
      BY <2>3 DEF Begin
    <2>4. CASE ~\E g \in Goroutine : Receive(g) \/ Begin(g)
      <3>1. UNCHANGED <<queue, space>>
        BY <2>4 DEF Cancel, RunStep, Start, StopAccepting, CloseQueue, Finish, GraceExpires,
           ForceGraceExpires, LateFinish, PoolLoopStep, Exit, RetryReturns,
           HandlerReturns, ExecuteReturns
      <3>2. \A g \in Goroutine : pc[g] = "received" => pc'[g] = "received"
        BY <2>1, <2>4 DEF TypeOK, Cancel, RunStep, Start, StopAccepting, CloseQueue, Finish,
           GraceExpires, ForceGraceExpires, LateFinish, PoolLoopStep, Exit, RetryReturns,
           HandlerReturns, ExecuteReturns
      <3> QED
        BY <3>1, <3>2 DEF PromptClaim, Available
    <2> QED
      BY <2>2, <2>3, <2>4
  <1>8. KnownClaimsInHand'
    <2>1. ctxDone => ctxDone'
      BY DEF Cancel, RunStep, Start, StopAccepting, CloseQueue, Finish, GraceExpires,
           ForceGraceExpires, LateFinish, PoolLoopStep, Receive, Exit, Begin, RetryReturns,
           HandlerReturns, ExecuteReturns
    <2>2. \A t \in Task : fate'[t] \in {"outside", "refused"} => fate[t] = fate'[t]
      BY DEF TypeOK, Cancel, RunStep, Start, StopAccepting, CloseQueue, Finish, GraceExpires,
           ForceGraceExpires, LateFinish, PoolLoopStep, Receive, Exit, Begin, RetryReturns,
           HandlerReturns, ExecuteReturns
    <2> QED
      BY <1>0, <2>1, <2>2 DEF KnownClaimsInHand
  <1> QED
    BY <1>3, <1>4, <1>5, <1>6, <1>7, <1>8

(* Run itself, and the publishers. *)
LEMMA RunAndPublishers ==
  ASSUME PipelineInv, PoolInv',
         PipelineStep \/ \E t \in Task : PublishCommit(t) \/ NotifyOutboxCommitted(t)
  PROVE  PipelineInv'
  <1> USE DEF PipelineInv
  <1>0. UNCHANGED <<poolVars, unheard, avail, batch>>
    BY DEF PipelineStep, RunPipeline, StartLoops, Abort, ReturnFromRun, PublishCommit,
           NotifyOutboxCommitted
  <1>00. UNCHANGED <<ctxDone, run, stopped, queue, sender, pc, job, space, fate>>
    BY <1>0 DEF poolVars
  <1>1. CASE StartLoops
    <2>1. UNCHANGED <<row, owing, wake>> /\ pipeline' = "running" /\ run # "new"
          /\ at' = [l \in Loop |-> IF l = Sched THEN "waiting" ELSE "select"]
          /\ timer' = [l \in Loop |-> "soon"] /\ at[Sched] = "off"
      BY <1>1 DEF StartLoops, Serving
    <2>2. LoopTypeOK'
      BY <1>0, <2>1 DEF LoopTypeOK, Rows
    <2>3. Serving' /\ HandOver' /\ Announced' /\ PromptClaim' /\ KnownClaimsInHand'
      BY <1>0, <1>00, <2>1 DEF Serving, HandOver, Announced, PromptClaim, KnownClaimsInHand
    <2> QED
      BY <2>2, <2>3
  <1>2. CASE RunPipeline \/ Abort \/ ReturnFromRun
    <2>1. UNCHANGED <<row, owing, wake, timer, at>>
          /\ pipeline' \in {"starting", "aborting", "returned"}
          /\ (pipeline' = "starting" => pipeline = "new")
      BY <1>2 DEF RunPipeline, Abort, ReturnFromRun
    <2>2. LoopTypeOK'
      BY <1>0, <2>1 DEF LoopTypeOK, Rows
    <2>3. Serving' /\ HandOver' /\ Announced' /\ PromptClaim' /\ KnownClaimsInHand'
      BY <1>0, <1>00, <2>1
      DEF Serving, HandOver, Announced, PromptClaim, KnownClaimsInHand, Rows, Available
    <2> QED
      BY <2>2, <2>3
  <1>3. ASSUME NEW t \in Task, PublishCommit(t) PROVE PipelineInv'
    <2>1. UNCHANGED <<pipeline, wake, timer, at>> /\ owing' = owing \cup {t}
          /\ row[t] = "unpublished" /\ row' = [row EXCEPT ![t] = "outbox"]
      BY <1>3 DEF PublishCommit
    <2>2. Rows("ready")' = Rows("ready") /\ Rows("outbox")' = Rows("outbox") \cup {t}
      BY <2>1 DEF Rows, LoopTypeOK
    <2>3. LoopTypeOK'
      BY <1>0, <2>1, <2>2 DEF LoopTypeOK
    <2>4. Serving' /\ HandOver' /\ Announced' /\ PromptClaim'
      BY <1>0, <1>00, <2>1, <2>2 DEF Serving, HandOver, Announced, PromptClaim, Available
    <2>5. KnownClaimsInHand'
      BY <1>0, <1>00, <2>1 DEF KnownClaimsInHand, LoopTypeOK
    <2> QED
      BY <2>3, <2>4, <2>5
  <1>4. ASSUME NEW t \in Task, NotifyOutboxCommitted(t) PROVE PipelineInv'
    <2>1. UNCHANGED <<pipeline, row, timer, at>> /\ owing' = owing \ {t}
          /\ wake' = [wake EXCEPT !["dispatcher"] = TRUE]
      BY <1>4 DEF NotifyOutboxCommitted, Signal
    <2>2. LoopTypeOK' /\ wake'["dispatcher"] /\ wake'[Sched] = wake[Sched]
      BY <1>0, <2>1 DEF LoopTypeOK, Rows
    <2>3. Serving' /\ HandOver' /\ Announced' /\ PromptClaim' /\ KnownClaimsInHand'
      BY <1>0, <1>00, <2>1, <2>2
      DEF Serving, HandOver, Announced, PromptClaim, KnownClaimsInHand, Rows, Available
    <2> QED
      BY <2>2, <2>3
  <1> QED
    BY <1>1, <1>2, <1>3, <1>4 DEF PipelineStep

(* A lost claim whose lease runs out was in nobody's hands. *)
LEMMA LeaseSteps ==
  ASSUME PipelineInv, PoolInv', NEW t \in Task, LeaseExpires(t)
  PROVE  PipelineInv'
  <1> USE DEF PipelineInv
  <1>0. UNCHANGED <<ctxDone, run, stopped, queue, sender, pc, job, space, fate, pipeline, owing,
                    unheard, wake, timer, at, avail, batch>>
    BY DEF LeaseExpires, poolVars
  <1>1. row[t] = "lost" /\ row' = [row EXCEPT ![t] = "expired"]
    BY DEF LeaseExpires
  <1>2. /\ Rows("ready")' = Rows("ready") /\ Rows("outbox")' = Rows("outbox")
        /\ \A u \in Task : row'[u] = "claimed" => row[u] = "claimed"
    BY <1>1 DEF Rows, LoopTypeOK
  <1>3. LoopTypeOK'
    BY <1>0, <1>1, <1>2 DEF LoopTypeOK
  <1>4. Serving' /\ HandOver' /\ Announced' /\ PromptClaim' /\ KnownClaimsInHand'
    BY <1>0, <1>2 DEF Serving, HandOver, Announced, PromptClaim, KnownClaimsInHand, Available
  <1> QED
    BY <1>3, <1>4

-----------------------------------------------------------------------------
(* The head of a loop. *)
LEMMA LoopSteps ==
  ASSUME PipelineInv, PoolInv', NEW l \in Loop, LoopStep(l)
  PROVE  PipelineInv'
  <1> USE DEF PipelineInv
  <1>0. UNCHANGED <<pipeline, row, owing, unheard, avail, batch, ctxDone, run, stopped, queue,
                    sender, pc, job, fate>>
    BY DEF LoopStep, LoopReturns, WakesUp, TakeSpace, poolVars
  <1>1. CASE LoopReturns(l)
    <2>1. UNCHANGED <<wake, timer, space>> /\ at' = [at EXCEPT ![l] = "returned"]
          /\ at[l] \in {"waiting", "select"}
      BY <1>1 DEF LoopReturns, poolVars
    <2>2. LoopTypeOK' /\ at'[l] = "returned" /\ \A k \in Loop \ {l} : at'[k] = at[k]
      BY <1>0, <2>1 DEF LoopTypeOK, Rows
    <2>3. pipeline \notin {"new", "starting"} \/ l # Sched
      BY <2>1 DEF Serving
    <2>4. Serving' /\ HandOver' /\ Announced' /\ PromptClaim' /\ KnownClaimsInHand'
      BY <1>0, <2>1, <2>2, <2>3
      DEF Serving, HandOver, Announced, PromptClaim, KnownClaimsInHand, Rows, Available
    <2> QED
      BY <2>2, <2>4
  <1>2. CASE WakesUp(l)
    <2>1. /\ at[l] = "select"
          /\ at' = [at EXCEPT ![l] = IF l = Sched THEN "stats" ELSE "scan"]
          /\ timer' = [timer EXCEPT ![l] = "off"]
      BY <1>2 DEF WakesUp
    <2>2. wake' = [wake EXCEPT ![l] = FALSE] \/ UNCHANGED wake
      BY <1>2 DEF WakesUp
    <2>3. space' = space \/ l = Sched
      BY <1>2 DEF WakesUp, poolVars
    <2>4. LoopTypeOK' /\ at'[l] = (IF l = Sched THEN "stats" ELSE "scan")
      <3>1. at' \in [Loop -> {"off", "waiting", "select", "scan", "notify", "stats",
                              "claim", "submit", "sending", "returned"}]
            /\ at'[l] = (IF l = Sched THEN "stats" ELSE "scan")
        BY <2>1 DEF LoopTypeOK
      <3>2. timer' \in [Loop -> {"off", "soon", "poll"}]
        BY <2>1 DEF LoopTypeOK
      <3>3. wake' \in [{"dispatcher", Sched} -> BOOLEAN]
        BY <2>2 DEF LoopTypeOK
      <3> QED
        BY <1>0, <3>1, <3>2, <3>3 DEF LoopTypeOK, Rows
    <2>5. \A k \in Loop \ {l} : at'[k] = at[k] /\ timer'[k] = timer[k]
      BY <2>1 DEF LoopTypeOK
    <2>6. \A k \in {"dispatcher", Sched} \ {l} : wake'[k] = wake[k]
      BY <2>2 DEF LoopTypeOK
    <2>7. pipeline \notin {"new", "starting"} \/ l # Sched
      BY <2>1 DEF Serving
    <2>8. Serving' /\ HandOver'
      BY <1>0, <2>1, <2>4, <2>5, <2>7 DEF Serving, HandOver
    <2>9. Announced' /\ PromptClaim'
      BY <1>0, <2>1, <2>3, <2>4, <2>5, <2>6 DEF Announced, PromptClaim, Rows, Available
    <2>10. KnownClaimsInHand'
      BY <1>0 DEF KnownClaimsInHand
    <2> QED
      BY <2>4, <2>8, <2>9, <2>10
  <1> QED
    BY <1>1, <1>2 DEF LoopStep

-----------------------------------------------------------------------------
(* The dispatcher and the reclaimer. *)

(* What a scan, committed or not, does to the rows. *)
LEMMA ScanRows ==
  ASSUME LoopTypeOK, NEW f \in Feeder, NEW S \in Batch(f) \cup {{}}, NEW good \in SUBSET S,
         row' = Sorted(S, good)
  PROVE  /\ row' \in [Task -> {"unpublished", "outbox", "expired", "ready", "claimed",
                           "lost", "failed"}]
         /\ Rows("ready")' = Rows("ready") \cup good
         /\ Rows("outbox")' \subseteq Rows("outbox")
         /\ \A t \in Task : row'[t] = "claimed" => row[t] = "claimed"
         /\ (f = "dispatcher" => Rows("outbox")' \cap S = {})
  <1>1. S \subseteq Task /\ \A t \in S : row[t] \in {"outbox", "expired"}
    BY DEF Batch, Rows, Scanned
  <1> QED
    BY <1>1 DEF Sorted, Rows, LoopTypeOK

LEMMA FeederSteps ==
  ASSUME PipelineInv, PoolInv', NEW f \in Feeder, FeederStep(f)
  PROVE  PipelineInv'
  <1> USE DEF PipelineInv
  <1>0. UNCHANGED <<ctxDone, run, stopped, queue, sender, pc, job, space, fate, pipeline, owing,
                    avail, batch>>
    BY DEF FeederStep, Scan, ScanFails, NotifyScheduler, poolVars
  <1>1. CASE NotifyScheduler(f)
    <2>1. UNCHANGED <<row, timer>> /\ unheard' = {} /\ wake' = [wake EXCEPT ![Sched] = TRUE]
          /\ at[f] = "notify" /\ at' = [at EXCEPT ![f] = "select"]
      BY <1>1 DEF NotifyScheduler, Signal
    <2>2. LoopTypeOK' /\ wake'[Sched] /\ wake'["dispatcher"] = wake["dispatcher"]
      BY <1>0, <2>1 DEF LoopTypeOK, Rows
    <2>3. at'[Sched] = at[Sched] /\ at'[f] = "select" /\ \A k \in Loop \ {f} : at'[k] = at[k]
      BY <2>1 DEF LoopTypeOK
    <2>4. Serving' /\ HandOver' /\ Announced' /\ PromptClaim' /\ KnownClaimsInHand'
      BY <1>0, <2>1, <2>2, <2>3
      DEF Serving, HandOver, Announced, PromptClaim, KnownClaimsInHand, Rows, Available
    <2> QED
      BY <2>2, <2>4
  <1>2. CASE Scan(f) \/ ScanFails(f)
    <2> DEFINE Did(S, good) ==
            /\ row' = Sorted(S, good) /\ unheard' = unheard \cup good
            /\ \/ /\ S \in Batch(f)
                  /\ at' = [at EXCEPT ![f] = IF good # {} THEN "notify" ELSE "select"]
                  /\ timer' = [timer EXCEPT ![f] = IF Cardinality(S) = BatchSize
                                                   THEN "soon" ELSE "poll"]
               \/ /\ at' = [at EXCEPT ![f] = IF ctxDone THEN "returned" ELSE "select"]
                  /\ timer' = [timer EXCEPT ![f] = "soon"]
    <2>0. PICK S \in Batch(f) \cup {{}} : \E good \in SUBSET S : Did(S, good)
      BY <1>2 DEF Scan, ScanFails
    <2>1. PICK good \in SUBSET S : Did(S, good)
      BY <2>0
    <2>2. UNCHANGED wake
      BY <1>2 DEF Scan, ScanFails
    <2>3. /\ row' \in [Task -> {"unpublished", "outbox", "expired", "ready", "claimed",
                           "lost", "failed"}]
          /\ Rows("ready")' = Rows("ready") \cup good
          /\ Rows("outbox")' \subseteq Rows("outbox")
          /\ \A t \in Task : row'[t] = "claimed" => row[t] = "claimed"
          /\ (f = "dispatcher" => Rows("outbox")' \cap S = {})
      BY <2>1, ScanRows
    <2>4. at' \in [Loop -> {"off", "waiting", "select", "scan", "notify", "stats",
                            "claim", "submit", "sending", "returned"}]
          /\ timer' \in [Loop -> {"off", "soon", "poll"}]
      BY <2>1 DEF LoopTypeOK
    <2>5. LoopTypeOK'
      BY <1>0, <2>1, <2>2, <2>3, <2>4 DEF LoopTypeOK
    <2>6. \A k \in Loop \ {f} : at'[k] = at[k] /\ timer'[k] = timer[k]
      BY <2>1 DEF LoopTypeOK
    <2>7. Serving' /\ HandOver' /\ KnownClaimsInHand'
      BY <1>0, <2>3, <2>6 DEF Serving, HandOver, KnownClaimsInHand
    <2>8. Rows("ready")' \ unheard' \subseteq Rows("ready") \ unheard
      BY <2>1, <2>3
    <2>9. PromptClaim'
      BY <1>0, <2>2, <2>6, <2>8 DEF PromptClaim, Available
    <2>10. f = "dispatcher" => Rows("outbox")' = {} \/ timer'["dispatcher"] = "soon"
      <3> SUFFICES ASSUME f = "dispatcher", timer'["dispatcher"] # "soon"
                   PROVE  Rows("outbox")' = {}
        OBVIOUS
      <3>1. S \in Batch(f) /\ Cardinality(S) # BatchSize
        BY <2>1 DEF LoopTypeOK
      <3>2. S = Rows("outbox")
        BY <3>1, TakesAll DEF Batch, Scanned, Rows
      <3> QED
        BY <2>3, <3>2
    <2>11. Announced'
      BY <1>0, <2>2, <2>3, <2>6, <2>8, <2>10 DEF Announced
    <2> QED
      BY <2>5, <2>7, <2>9, <2>11
  <1> QED
    BY <1>1, <1>2 DEF FeederStep

-----------------------------------------------------------------------------
(* The scheduler. *)

LEMMA WaitAndStats ==
  ASSUME PipelineInv, PoolInv', WorkerIsReady \/ QueueStats \/ BatchSubmitted
  PROVE  PipelineInv'
  <1> USE DEF PipelineInv
  <1>0. UNCHANGED <<ctxDone, run, stopped, queue, sender, pc, job, space, fate, pipeline, row,
                    owing, unheard, wake, batch>>
    BY DEF WorkerIsReady, QueueStats, BatchSubmitted, poolVars
  <1>1. \A k \in Feeder : at'[k] = at[k] /\ timer'[k] = timer[k]
    BY DEF WorkerIsReady, QueueStats, BatchSubmitted, LoopTypeOK
  <1>2. CASE WorkerIsReady
    <2>1. at[Sched] = "waiting" /\ at' = [at EXCEPT ![Sched] = "select"] /\ run # "new"
          /\ UNCHANGED <<timer, avail>>
      BY <1>2 DEF WorkerIsReady
    <2>2. LoopTypeOK' /\ at'[Sched] = "select"
      BY <1>0, <2>1 DEF LoopTypeOK, Rows
    <2>3. Serving' /\ HandOver' /\ Announced' /\ PromptClaim' /\ KnownClaimsInHand'
      BY <1>0, <1>1, <2>1, <2>2
      DEF Serving, HandOver, Announced, PromptClaim, KnownClaimsInHand, Rows, Available
    <2> QED
      BY <2>2, <2>3
  <1>3. CASE QueueStats
    <2>1. at[Sched] = "stats" /\ batch = {}
      BY <1>3 DEF QueueStats, HandOver
    <2>2. Cardinality(batch) = 0
      BY <2>1, FS_EmptySet
    <2>3. Available \in 0 .. Capacity /\ Capacity \in Nat /\ Len(queue) \in Nat
      BY RoomInQueue, CapacityIsNat DEF PoolInv
    <2>4. CASE Available = 0
      <3>1. at' = [at EXCEPT ![Sched] = "select"] /\ UNCHANGED avail
            /\ timer' = [timer EXCEPT ![Sched] = "poll"]
        BY <1>3, <2>4 DEF QueueStats
      <3>2. LoopTypeOK' /\ at'[Sched] = "select"
        BY <1>0, <3>1 DEF LoopTypeOK, Rows
      <3>3. Serving' /\ HandOver' /\ Announced' /\ PromptClaim' /\ KnownClaimsInHand'
        BY <1>0, <1>1, <2>1, <2>4, <3>2
        DEF Serving, HandOver, Announced, PromptClaim, KnownClaimsInHand, Rows, Available
      <3> QED
        BY <3>2, <3>3
    <2>5. CASE Available # 0
      <3>1. at' = [at EXCEPT ![Sched] = "claim"] /\ UNCHANGED timer
            /\ avail' = Least(Available, MaxClaimBatch)
        BY <1>3, <2>5 DEF QueueStats
      <3>2. avail' \in 0 .. Least(Capacity, MaxClaimBatch) /\ avail' <= Available
            /\ Cardinality(batch) <= avail'
        BY <2>2, <2>3, <3>1 DEF Least
      <3>3. LoopTypeOK' /\ at'[Sched] = "claim"
        BY <1>0, <3>1, <3>2 DEF LoopTypeOK, Rows
      <3>4. avail' + Len(queue) <= Capacity
        BY <2>3, <3>2 DEF Available
      <3>5. Serving' /\ HandOver' /\ Announced' /\ PromptClaim' /\ KnownClaimsInHand'
        BY <1>0, <1>1, <2>1, <3>3, <3>4
        DEF Serving, HandOver, Announced, PromptClaim, KnownClaimsInHand, Rows, Available
      <3> QED
        BY <3>3, <3>5
    <2> QED
      BY <2>4, <2>5
  <1>4. CASE BatchSubmitted
    <2>1. at[Sched] = "submit" /\ at' = [at EXCEPT ![Sched] = "select"] /\ avail' = 0
          /\ batch = {} /\ UNCHANGED timer
      BY <1>4 DEF BatchSubmitted
    <2>2. 0 \in 0 .. Least(Capacity, MaxClaimBatch) /\ Cardinality(batch) <= 0
      BY <2>1, CapacityIsNat, FS_EmptySet DEF Least
    <2>3. LoopTypeOK' /\ at'[Sched] = "select"
      BY <1>0, <2>1, <2>2 DEF LoopTypeOK, Rows
    <2>4. Serving' /\ HandOver' /\ Announced' /\ PromptClaim' /\ KnownClaimsInHand'
      BY <1>0, <1>1, <2>1, <2>3
      DEF Serving, HandOver, Announced, PromptClaim, KnownClaimsInHand, Rows, Available
    <2> QED
      BY <2>3, <2>4
  <1> QED
    BY <1>2, <1>3, <1>4

LEMMA ClaimSteps ==
  ASSUME PipelineInv, PoolInv', Claim \/ ClaimFails
  PROVE  PipelineInv'
  <1> USE DEF PipelineInv
  <1>0. UNCHANGED <<ctxDone, run, stopped, queue, sender, pc, job, space, fate, pipeline, owing,
                    wake>>
    BY DEF Claim, ClaimFails, poolVars
  <1>1. at[Sched] = "claim" /\ batch = {} /\ avail + Len(queue) <= Capacity /\ run # "new"
    BY DEF Claim, ClaimFails, HandOver, Serving
  <1>2. avail \in Nat /\ Len(queue) \in Nat /\ Capacity \in Nat
        /\ 0 \in 0 .. Least(Capacity, MaxClaimBatch) /\ Cardinality({}) = 0
    BY RoomInQueue, CapacityIsNat, FS_EmptySet DEF PoolInv, LoopTypeOK, Least
  <1>3. PICK S \in SUBSET Rows("ready") :
          \/ /\ S \in Claimable /\ Claim
             /\ row' = SetRows(S, "claimed") /\ batch' = S
             /\ at' = [at EXCEPT ![Sched] = "submit"]
             /\ timer' = [timer EXCEPT ![Sched] = IF Cardinality(S) = avail
                                                  THEN "soon" ELSE "poll"]
             /\ UNCHANGED avail
          \/ /\ row' = SetRows(S, "lost") /\ UNCHANGED batch /\ avail' = 0
             /\ at' = [at EXCEPT ![Sched] = IF ctxDone THEN "returned" ELSE "select"]
             /\ timer' = [timer EXCEPT ![Sched] = "soon"]
    BY DEF Claim, ClaimFails, Claimable
  <1>4. unheard' = unheard \cap {t \in Task : row'[t] = "ready"}
    BY DEF Claim, ClaimFails
  <1>5. Rows("ready")' = Rows("ready") \ S /\ Rows("outbox")' = Rows("outbox")
        /\ row' \in [Task -> {"unpublished", "outbox", "expired", "ready", "claimed",
                           "lost", "failed"}]
    BY <1>3 DEF SetRows, Rows, LoopTypeOK
  <1>6. at' \in [Loop -> {"off", "waiting", "select", "scan", "notify", "stats",
                          "claim", "submit", "sending", "returned"}]
        /\ timer' \in [Loop -> {"off", "soon", "poll"}]
        /\ \A k \in Feeder : at'[k] = at[k] /\ timer'[k] = timer[k]
    BY <1>3 DEF LoopTypeOK
  <1>7. unheard' \subseteq Rows("ready")' /\ Rows("ready")' \ unheard' \subseteq Rows("ready") \ unheard
    BY <1>4, <1>5 DEF Rows
  <1>8. Serving'
    BY <1>0, <1>1, <1>3 DEF Serving, LoopTypeOK
  <1>9. CASE batch' = S /\ S \in Claimable /\ row' = SetRows(S, "claimed") /\ UNCHANGED avail
             /\ at' = [at EXCEPT ![Sched] = "submit"]
             /\ timer' = [timer EXCEPT ![Sched] = IF Cardinality(S) = avail
                                                  THEN "soon" ELSE "poll"]
    <2>1. Cardinality(S) <= avail
          /\ (ClaimFits => Cardinality(S) = avail \/ S = Rows("ready"))
      <3>1. Least(avail, ClaimLimit) \in Nat /\ Least(avail, ClaimLimit) <= avail
        BY <1>2 DEF Least
      <3>2. Cardinality(S) = Least(Least(avail, ClaimLimit), Cardinality(Rows("ready")))
        BY <1>9 DEF Claimable
      <3>3. Cardinality(S) <= Least(avail, ClaimLimit)
            /\ (Cardinality(S) # Least(avail, ClaimLimit) => S = Rows("ready"))
        BY <3>1, <3>2, TakesAll DEF Rows
      <3>4. ClaimFits => avail <= ClaimLimit
        BY <1>2 DEF ClaimFits, LoopTypeOK, Least
      <3>5. ClaimFits => Least(avail, ClaimLimit) = avail
        BY <1>2, <3>4 DEF Least
      <3>6. Cardinality(S) \in Nat
        BY FS_Subset, FS_CardinalityType DEF Rows
      <3> QED
        BY <1>2, <3>1, <3>3, <3>5, <3>6
    <2>2. S \subseteq Task /\ IsFiniteSet(S) /\ Cardinality(S) \in Nat
      BY FS_Subset, FS_CardinalityType DEF Rows
    <2>3. at'[Sched] = "submit"
      BY <1>9 DEF LoopTypeOK
    <2>4. LoopTypeOK'
      BY <1>0, <1>5, <1>6, <1>7, <1>9, <2>1, <2>2 DEF LoopTypeOK
    <2>5. HandOver'
      <3>1. Cardinality(S) + Len(queue) <= Capacity
        BY <1>1, <1>2, <2>1, <2>2
      <3> QED
        BY <1>0, <1>1, <1>9, <2>3, <3>1 DEF HandOver
    <2>6. Announced'
      <3>1. ClaimFits => timer'[Sched] = "soon" \/ Rows("ready")' = {}
        BY <1>5, <1>9, <2>1 DEF LoopTypeOK
      <3> QED
        BY <1>0, <1>5, <1>6, <2>3, <3>1 DEF Announced
    <2>7. PromptClaim'
      BY <2>3 DEF PromptClaim
    <2>8. KnownClaimsInHand'
      BY <1>0, <1>1, <1>9 DEF KnownClaimsInHand, SetRows, LoopTypeOK
    <2> QED
      BY <1>8, <2>4, <2>5, <2>6, <2>7, <2>8
  <1>10. CASE batch' = batch /\ row' = SetRows(S, "lost") /\ avail' = 0
              /\ at' = [at EXCEPT ![Sched] = IF ctxDone THEN "returned" ELSE "select"]
              /\ timer' = [timer EXCEPT ![Sched] = "soon"]
    <2>1. at'[Sched] \in {"returned", "select"} /\ timer'[Sched] = "soon"
      BY <1>10 DEF LoopTypeOK
    <2>2. LoopTypeOK'
      BY <1>0, <1>1, <1>2, <1>5, <1>6, <1>7, <1>10 DEF LoopTypeOK
    <2>3. HandOver' /\ PromptClaim'
      BY <1>0, <1>1, <1>10, <2>1 DEF HandOver, PromptClaim
    <2>4. Announced'
      BY <1>0, <1>5, <1>6, <2>1 DEF Announced
    <2>5. KnownClaimsInHand'
      BY <1>0, <1>1, <1>10 DEF KnownClaimsInHand, SetRows, LoopTypeOK
    <2> QED
      BY <1>8, <2>2, <2>3, <2>4, <2>5
  <1> QED
    BY <1>3, <1>9, <1>10

LEMMA SubmitToPool ==
  ASSUME PipelineInv, PoolInv', SubmitReturns \/ \E t \in Task : SubmitNext(t)
  PROVE  PipelineInv'
  <1> USE DEF PipelineInv, PoolInv
  <1>0. UNCHANGED <<ctxDone, run, stopped, pc, job, space, pipeline, row, owing, unheard, wake,
                    timer, avail>>
    BY DEF SubmitReturns, SubmitNext, SubmitSend, SubmitAbort, SubmitEnter
  <1>1. at[Sched] \in {"submit", "sending"} /\ run # "new"
    BY DEF SubmitReturns, SubmitNext, Serving
  <1>2. Len(queue) \in Nat /\ Capacity \in Nat /\ IsFiniteSet(batch) /\ Cardinality(batch) \in Nat
    BY RoomInQueue, CapacityIsNat, BatchIsFinite
  <1>3. \A k \in Feeder : at'[k] = at[k]
    BY DEF SubmitReturns, SubmitNext, LoopTypeOK
  <1>4. ASSUME NEW t \in Task, SubmitNext(t) PROVE PipelineInv'
    <2>1. /\ at[Sched] = "submit" /\ t \in batch /\ batch' = batch \ {t}
          /\ at' = [at EXCEPT ![Sched] = IF Accepting THEN "sending" ELSE "returned"]
          /\ sender[Sched] = NoTask /\ UNCHANGED queue
      BY <1>4 DEF SubmitNext, SubmitEnter
    <2>2. Cardinality(batch') = Cardinality(batch) - 1
      BY <1>2, <2>1, FS_RemoveElement
    <2>3. at'[Sched] = IF Accepting THEN "sending" ELSE "returned"
      BY <2>1 DEF LoopTypeOK
    <2>4. LoopTypeOK'
      <3>1. batch' \subseteq Task /\ Cardinality(batch') <= avail
        BY <1>2, <2>1, <2>2 DEF LoopTypeOK
      <3> QED
        BY <1>0, <2>1, <3>1 DEF LoopTypeOK, Rows
    <2>5. sender' = (IF Accepting THEN [sender EXCEPT ![Sched] = t] ELSE sender)
      BY <1>4 DEF SubmitNext, SubmitEnter
    <2>6. HandOver'
      <3>1. sender'[Sched] # NoTask <=> at'[Sched] = "sending"
        BY <2>1, <2>3, <2>5 DEF TypeOK
      <3>2. Cardinality(batch') + Len(queue) < Capacity
        BY <1>2, <2>1, <2>2 DEF HandOver
      <3> QED
        BY <2>1, <2>3, <3>1, <3>2 DEF HandOver
    <2>7. Serving' /\ Announced' /\ PromptClaim'
      BY <1>0, <1>1, <1>3, <2>1, <2>3 DEF Serving, Announced, PromptClaim, Rows
    <2>8. KnownClaimsInHand'
      <3>1. fate' = [fate EXCEPT ![t] = IF Accepting THEN "sending" ELSE "refused"]
        BY <1>4 DEF SubmitNext, SubmitEnter
      <3>2. ~Accepting => ctxDone
        BY <1>1 DEF Accepting, Serving
      <3> QED
        BY <1>0, <2>1, <3>1, <3>2 DEF KnownClaimsInHand, TypeOK
    <2> QED
      BY <2>4, <2>6, <2>7, <2>8
  <1>5. CASE SubmitReturns
    <2>1. /\ at[Sched] = "sending" /\ UNCHANGED batch /\ sender[Sched] # NoTask
          /\ sender' = [sender EXCEPT ![Sched] = NoTask]
      BY <1>5 DEF SubmitReturns, SubmitSend, SubmitAbort
    <2>2. \/ at' = [at EXCEPT ![Sched] = "submit"] /\ SubmitSend(Sched)
          \/ at' = [at EXCEPT ![Sched] = "returned"] /\ SubmitAbort(Sched)
      BY <1>5 DEF SubmitReturns
    <2>3. LoopTypeOK' /\ at'[Sched] \in {"submit", "returned"}
      BY <1>0, <2>1, <2>2 DEF LoopTypeOK, Rows
    <2>4. HandOver'
      <3>1. at'[Sched] = "submit" => Cardinality(batch) + Len(queue') <= Capacity
        <4> SUFFICES ASSUME SubmitSend(Sched)
                     PROVE  Cardinality(batch) + Len(queue') <= Capacity
          BY <2>2 DEF LoopTypeOK
        <4>1. Len(queue') = Len(queue) + 1
          BY <2>1, AppendProperties DEF SubmitSend, TypeOK
        <4> QED
          BY <1>2, <2>1, <4>1 DEF HandOver
      <3>2. sender'[Sched] = NoTask
        BY <2>1 DEF TypeOK
      <3> QED
        BY <2>1, <2>3, <3>1, <3>2 DEF HandOver
    <2>5. Serving' /\ Announced' /\ PromptClaim'
      BY <1>0, <1>1, <1>3, <2>1, <2>3 DEF Serving, Announced, PromptClaim, Rows
    <2>6. KnownClaimsInHand'
      <3>1. CASE SubmitSend(Sched)
        BY <1>0, <2>1, <3>1 DEF SubmitSend, KnownClaimsInHand, TypeOK
      <3>2. CASE SubmitAbort(Sched)
        <4>1. ctxDone
          BY <1>1, <3>2 DEF SubmitAbort, StopSubmitting, Serving
        <4> QED
          BY <1>0, <4>1 DEF KnownClaimsInHand
      <3> QED
        BY <2>2, <3>1, <3>2
    <2> QED
      BY <2>3, <2>4, <2>5, <2>6
  <1> QED
    BY <1>4, <1>5

LEMMA PipelineStepKeepsInv == PipelineInv /\ [PipelineNext]_vars => PipelineInv'
  <1> SUFFICES ASSUME PipelineInv, [PipelineNext]_vars PROVE PipelineInv'
    OBVIOUS
  <1>0. PoolInv'
    BY PoolKept DEF PipelineInv
  <1>1. CASE UNCHANGED vars
    <2>1. UNCHANGED <<poolVars, pipeline, row, owing, unheard, wake, timer, at, avail, batch>>
      BY <1>1 DEF vars, loopVars
    <2>2. UNCHANGED <<ctxDone, run, queue, sender, pc, space, fate>>
      BY <2>1 DEF poolVars
    <2> QED
      BY <1>0, <2>1, <2>2 DEF PipelineInv, LoopTypeOK, Serving, HandOver, Announced, PromptClaim,
                              KnownClaimsInHand, Rows, Available
  <1>2. CASE Cancel /\ UNCHANGED loopVars
    BY <1>0, <1>2, PoolSteps
  <1>3. CASE PoolRuns
    BY <1>0, <1>3, PoolSteps DEF PoolRuns
  <1>4. CASE \E g \in Goroutine : GoroutineStep(g) \/ HandlerStep(g)
    BY <1>0, <1>4, PoolSteps DEF GoroutineStep, HandlerStep
  <1>5. CASE PipelineStep \/ \E t \in Task : PublishCommit(t) \/ NotifyOutboxCommitted(t)
    BY <1>0, <1>5, RunAndPublishers
  <1>9. CASE \E t \in Task : LeaseExpires(t)
    BY <1>0, <1>9, LeaseSteps
  <1>6. CASE SchedulerStep
    BY <1>0, <1>6, WaitAndStats, ClaimSteps, SubmitToPool DEF SchedulerStep
  <1>7. CASE \E l \in Loop : LoopStep(l)
    BY <1>0, <1>7, LoopSteps
  <1>8. CASE \E f \in Feeder : FeederStep(f)
    BY <1>0, <1>8, FeederSteps
  <1> QED
    BY <1>1, <1>2, <1>3, <1>4, <1>5, <1>6, <1>7, <1>8, <1>9 DEF PipelineNext, RunningNext

-----------------------------------------------------------------------------
(* The inductive invariant holds in every reachable state: types, room for  *)
(* what is claimed, and no busy loop that misses what is committed.         *)
THEOREM SpecPipelineInv == PipelineSpec => []PipelineInv
  BY PipelineInitInv, PipelineStepKeepsInv, PTL DEF PipelineSpec

(* Every variable keeps its type; a batch is never larger than the room     *)
(* QueueStats saw.                                                          *)
THEOREM SpecPipelineTypeOK == PipelineSpec => []PipelineTypeOK
  <1>1. PipelineInv => PipelineTypeOK
    BY DEF PipelineInv, PoolInv, PipelineTypeOK
  <1> QED
    BY <1>1, SpecPipelineInv, PTL

(* A claimed task never waits for room in Submit while its lease runs.      *)
THEOREM SpecSubmitNeverBlocks == PipelineSpec => []SubmitNeverBlocks
  <1>1. PipelineInv => SubmitNeverBlocks
    <2> SUFFICES ASSUME PipelineInv, sender[Sched] # NoTask PROVE Len(queue) < Capacity
      BY DEF SubmitNeverBlocks
    <2>1. Cardinality(batch) + Len(queue) < Capacity
      BY DEF PipelineInv, HandOver
    <2> QED
      BY <2>1, RoomInQueue, BatchIsFinite, CapacityIsNat DEF PipelineInv, PoolInv
  <1> QED
    BY <1>1, SpecPipelineInv, PTL

(* No lost wakeup of the scheduler, where a batch fits in one claim: an     *)
(* announced ready task and room in the queue never wait for the poll       *)
(* interval.                                                                *)
THEOREM SpecPromptClaim == PipelineSpec => []PromptClaim
  <1>1. PipelineInv => PromptClaim
    BY DEF PipelineInv
  <1> QED
    BY <1>1, SpecPipelineInv, PTL

(* Nor of the dispatcher: an announced event never waits for its poll.      *)
THEOREM SpecPromptDispatch == PipelineSpec => []PromptDispatch
  <1>1. PipelineInv => PromptDispatch
    BY DEF PipelineInv, Announced, PromptDispatch
  <1> QED
    BY <1>1, SpecPipelineInv, PTL

(* Only a pipeline that is stopping drops claims it was told of; a claim    *)
(* whose COMMIT was not acknowledged has no worker, and is not told here.   *)
THEOREM SpecKnownClaimsInHand == PipelineSpec => []KnownClaimsInHand
  <1>1. PipelineInv => KnownClaimsInHand
    BY DEF PipelineInv
  <1> QED
    BY <1>1, SpecPipelineInv, PTL

-----------------------------------------------------------------------------
(* The pipeline's pool is a WorkerPool: every behaviour of the pipeline is  *)
(* one of the pool, seen through the pool's variables.                      *)
THEOREM SpecImplementsPool == PipelineSpec => ImplementsPool
  <1>1. PipelineInit => PoolInit
    BY DEF PipelineInit
  <1> QED
    BY <1>1, PoolStep, PTL DEF PipelineSpec, ImplementsPool

(* Hence, between the loops too, nothing is sent on the closed queue, Done  *)
(* is truthful, a graceful drain loses nothing, a task is in one place, is  *)
(* queued once and run once, and what was refused, settled or abandoned is  *)
(* never touched again, whatever the scheduler does.                        *)
THEOREM PipelineKeepsPoolSafe ==
  PipelineSpec =>
    /\ [](NoSendOnClosedQueue /\ DoneIsTruthful /\ GracefulDrain /\ OneHolder)
    /\ FatesAdvance
  <1>1. ImplementsPool => Spec
    BY DEF ImplementsPool, Spec
  <1> QED
    BY <1>1, SpecImplementsPool, SpecNoSendOnClosedQueue, SpecDoneIsTruthful,
       SpecGracefulDrain, SpecOneHolder, SpecFatesAdvance, PTL

-----------------------------------------------------------------------------
(* What Run has waited for when it returns.                                 *)
LEMMA InitGroupWaits == PipelineInit => GroupWaits
  BY DEF PipelineInit, GroupWaits

LEMMA StepKeepsGroupWaits == PipelineInv /\ GroupWaits /\ [PipelineNext]_vars => GroupWaits'
  <1> SUFFICES ASSUME PipelineInv, GroupWaits, [PipelineNext]_vars PROVE GroupWaits'
    OBVIOUS
  <1>0. Returned => Returned'
    <2> SUFFICES ASSUME Returned, Next PROVE run' = run
      BY PoolStep DEF Returned, poolVars
    <2> QED
      BY DEF Next, Returned, Cancel, RunStep, Start, StopAccepting, CloseQueue, Finish,
             GraceExpires, ForceGraceExpires, LateFinish, TakeSpace, SubmitSend, SubmitAbort,
             SubmitEnter, PoolLoopStep, HandlerReturns, Receive, Exit, Begin, ExecuteReturns,
             RetryReturns
  <1>1. CASE UNCHANGED <<pipeline, at>>
    BY <1>0, <1>1 DEF GroupWaits
  <1>2. CASE PipelineStep
    <2>1. CASE RunPipeline \/ Abort
      BY <2>1 DEF RunPipeline, Abort, GroupWaits
    <2>2. CASE StartLoops
      BY <2>2 DEF StartLoops, GroupWaits
    <2>3. CASE ReturnFromRun
      <3>1. UNCHANGED at /\ pipeline' = "returned" /\ Returned'
            /\ (pipeline = "aborting" \/ \A l \in Loop : at[l] = "returned")
        BY <1>0, <2>3 DEF ReturnFromRun
      <3> QED
        BY <3>1 DEF GroupWaits
    <2> QED
      BY <1>2, <2>1, <2>2, <2>3 DEF PipelineStep
  <1>3. CASE \E l \in Loop : UNCHANGED pipeline /\ at[l] \notin {"off", "returned"}
    <2>1. pipeline \notin {"new", "starting", "aborting", "returned"}
      BY <1>3 DEF GroupWaits
    <2> QED
      BY <1>3, <2>1 DEF GroupWaits
  <1>4. CASE SchedulerStep
    <2>1. UNCHANGED pipeline /\ at[Sched] \notin {"off", "returned"}
      BY <1>4 DEF SchedulerStep, WorkerIsReady, QueueStats, Claim, ClaimFails, SubmitNext,
                  SubmitReturns, BatchSubmitted
    <2> QED
      BY <1>3, <2>1
  <1>5. CASE \E f \in Feeder : FeederStep(f)
    <2>1. \E f \in Feeder : UNCHANGED pipeline /\ at[f] \notin {"off", "returned"}
      BY <1>5 DEF FeederStep, Scan, ScanFails, NotifyScheduler
    <2> QED
      BY <1>3, <2>1
  <1>6. CASE \E l \in Loop : LoopStep(l)
    <2>1. \E l \in Loop : UNCHANGED pipeline /\ at[l] \notin {"off", "returned"}
      BY <1>6 DEF LoopStep, LoopReturns, WakesUp
    <2> QED
      BY <1>3, <2>1
  <1>7. CASE \/ UNCHANGED vars \/ UNCHANGED loopVars
             \/ \E t \in Task : PublishCommit(t) \/ NotifyOutboxCommitted(t) \/ LeaseExpires(t)
    BY <1>1, <1>7 DEF vars, loopVars, PublishCommit, NotifyOutboxCommitted, LeaseExpires
  <1> QED
    BY <1>2, <1>4, <1>5, <1>6, <1>7
    DEF PipelineNext, RunningNext, PoolRuns, GoroutineStep, HandlerStep

(* A returned pipeline leaves no loop running, and no goroutine unless the  *)
(* forced stop timed out.                                                   *)
THEOREM SpecReturnLeavesNothing == PipelineSpec => []ReturnLeavesNothing
  <1>1. PipelineInv /\ GroupWaits => ReturnLeavesNothing
    BY DEF PipelineInv, PoolInv, GoroutinesLive, GroupWaits, ReturnLeavesNothing, Returned
  <1>2. PipelineSpec => []GroupWaits
    BY InitGroupWaits, StepKeepsGroupWaits, SpecPipelineInv, PTL DEF PipelineSpec
  <1> QED
    BY <1>1, <1>2, SpecPipelineInv, PTL

(* No loop gives up before the service is cancelled: one that runs goes on  *)
(* whatever call fails, and while it sleeps, or is on its way to its select,*)
(* its timer is set.  So work that nobody announces, after a transaction    *)
(* that failed and yet was committed, is looked for all the same            *)
(* (dispatcher.go:138-170, reclaimer.go:59-91, scheduler.go:86-136).        *)
LoopsServe ==
  /\ pipeline \in {"aborting", "returned"} => ctxDone
  /\ \A l \in Loop :
       /\ at[l] = "off" => pipeline # "running"
       /\ at[l] = "returned" => ctxDone
       /\ at[l] \in {"waiting", "select", "notify", "submit", "sending"} => timer[l] # "off"

LEMMA StepKeepsLoopsServe == PipelineInv /\ LoopsServe /\ [PipelineNext]_vars => LoopsServe'
  <1> SUFFICES ASSUME PipelineInv, LoopsServe, [PipelineNext]_vars PROVE LoopsServe'
    OBVIOUS
  <1> DEFINE Sleeps(place, t) ==
        place \in {"waiting", "select", "notify", "submit", "sending"} => t # "off"
  <1>0. ctxDone => ctxDone'
    BY PoolStep DEF poolVars, Next, Cancel, RunStep, Start, StopAccepting, CloseQueue, Finish,
             GraceExpires, ForceGraceExpires, LateFinish, TakeSpace, SubmitSend, SubmitAbort,
             SubmitEnter, PoolLoopStep, HandlerReturns, Receive, Exit, Begin, ExecuteReturns,
             RetryReturns
  <1>1. CASE UNCHANGED <<pipeline, at, timer>>
    BY <1>0, <1>1 DEF LoopsServe
  <1>2. LoopTypeOK
    BY DEF PipelineInv
  <1>3. CASE PipelineStep
    <2>1. CASE RunPipeline
      BY <1>0, <2>1 DEF RunPipeline, LoopsServe
    <2>2. CASE StartLoops
      BY <2>2 DEF StartLoops, LoopsServe
    <2>3. CASE Abort
      BY <1>0, <2>3 DEF Abort, LoopsServe
    <2>4. CASE ReturnFromRun
      <3>1. UNCHANGED <<at, timer>> /\ pipeline' = "returned"
            /\ (pipeline = "aborting" \/ \A l \in Loop : at[l] = "returned")
        BY <2>4 DEF ReturnFromRun
      <3>2. ctxDone
        BY <3>1 DEF LoopsServe
      <3> QED
        BY <1>0, <3>1, <3>2 DEF LoopsServe
    <2> QED
      BY <1>3, <2>1, <2>2, <2>3, <2>4 DEF PipelineStep
  (* One loop steps. *)
  <1>4. ASSUME NEW l \in Loop, UNCHANGED pipeline,
               \A k \in Loop : k # l => at'[k] = at[k] /\ timer'[k] = timer[k],
               at'[l] # "off", at'[l] = "returned" => ctxDone, Sleeps(at'[l], timer'[l])
        PROVE  LoopsServe'
    BY <1>0, <1>4 DEF LoopsServe
  <1>5. CASE \E l \in Loop : LoopStep(l)
    <2>1. PICK l \in Loop : LoopReturns(l) \/ WakesUp(l)
      BY <1>5 DEF LoopStep
    <2>2. UNCHANGED pipeline /\ \A k \in Loop : k # l => at'[k] = at[k] /\ timer'[k] = timer[k]
      BY <1>2, <2>1 DEF LoopReturns, WakesUp, LoopTypeOK
    <2>3. stopped => ctxDone
      BY DEF PipelineInv, Serving, PoolInv, GoroutinesLive, Returned
    <2>4. LoopReturns(l) => at'[l] = "returned" /\ ctxDone
      BY <1>2, <2>3 DEF LoopReturns, LoopTypeOK
    <2>5. WakesUp(l) => at'[l] \in {"stats", "scan"}
      BY <1>2 DEF WakesUp, LoopTypeOK
    <2> QED
      BY <1>4, <2>1, <2>2, <2>4, <2>5
  <1>6. CASE \E f \in Feeder : FeederStep(f)
    <2>1. PICK f \in Feeder : Scan(f) \/ ScanFails(f) \/ NotifyScheduler(f)
      BY <1>6 DEF FeederStep
    <2>2. UNCHANGED pipeline /\ \A k \in Loop : k # f => at'[k] = at[k] /\ timer'[k] = timer[k]
      BY <1>2, <2>1 DEF Scan, ScanFails, NotifyScheduler, LoopTypeOK
    <2>3. Scan(f) => at'[f] \in {"notify", "select"} /\ timer'[f] \in {"soon", "poll"}
      BY <1>2 DEF Scan, LoopTypeOK
    <2>4. ScanFails(f) => /\ at'[f] = (IF ctxDone THEN "returned" ELSE "select")
                          /\ timer'[f] = "soon"
      BY <1>2 DEF ScanFails, LoopTypeOK
    <2>5. NotifyScheduler(f) => /\ at[f] = "notify" /\ at'[f] = "select"
                                /\ timer'[f] = timer[f]
      BY <1>2 DEF NotifyScheduler, LoopTypeOK
    <2>6. at[f] = "notify" => timer[f] # "off"
      BY DEF LoopsServe
    <2> QED
      BY <1>4, <2>1, <2>2, <2>3, <2>4, <2>5, <2>6
  <1>7. CASE SchedulerStep
    <2>1. UNCHANGED pipeline
          /\ \A k \in Loop : k # Sched => at'[k] = at[k] /\ timer'[k] = timer[k]
      BY <1>2, <1>7 DEF SchedulerStep, WorkerIsReady, QueueStats, Claim, ClaimFails, SubmitNext,
                  SubmitReturns, BatchSubmitted, LoopTypeOK
    <2>2. WorkerIsReady => at'[Sched] = "select" /\ at[Sched] = "waiting" /\ UNCHANGED timer
      BY <1>2 DEF WorkerIsReady, LoopTypeOK
    <2>3. QueueStats => at'[Sched] = "claim" \/ (at'[Sched] = "select" /\ timer'[Sched] = "poll")
      BY <1>2 DEF QueueStats, LoopTypeOK
    <2>4. Claim => at'[Sched] = "submit" /\ timer'[Sched] \in {"soon", "poll"}
      <3> SUFFICES ASSUME Claim
                   PROVE  at'[Sched] = "submit" /\ timer'[Sched] \in {"soon", "poll"}
        OBVIOUS
      <3>1. \E c \in {"soon", "poll"} : timer' = [timer EXCEPT ![Sched] = c]
        BY DEF Claim
      <3>2. at' = [at EXCEPT ![Sched] = "submit"]
        BY DEF Claim
      <3> QED
        BY <1>2, <3>1, <3>2 DEF LoopTypeOK
    <2>5. ClaimFails => /\ at'[Sched] = (IF ctxDone THEN "returned" ELSE "select")
                        /\ timer'[Sched] = "soon"
      BY <1>2 DEF ClaimFails, LoopTypeOK
    <2>6. ~Accepting \/ StopSubmitting => run = "new" \/ ctxDone
      BY DEF Accepting, StopSubmitting, PipelineInv, Serving
    <2>7. ASSUME NEW t \in Task, SubmitNext(t)
          PROVE  /\ at[Sched] = "submit" /\ UNCHANGED timer
                 /\ at'[Sched] = "sending" \/ (at'[Sched] = "returned" /\ ctxDone)
      <3>1. at[Sched] = "submit" /\ run # "new"
        BY <2>7 DEF SubmitNext, PipelineInv, Serving
      <3>2. at' = [at EXCEPT ![Sched] = IF Accepting THEN "sending" ELSE "returned"]
            /\ UNCHANGED timer
        BY <2>7 DEF SubmitNext
      <3>3. at'[Sched] = IF Accepting THEN "sending" ELSE "returned"
        BY <1>2, <3>2 DEF LoopTypeOK
      <3> QED
        BY <2>6, <3>1, <3>2, <3>3
    <2>8. SubmitReturns => /\ at[Sched] = "sending" /\ UNCHANGED timer
                           /\ at'[Sched] = "submit" \/ (at'[Sched] = "returned" /\ ctxDone)
      <3>1. at[Sched] = "sending" => run # "new"
        BY DEF PipelineInv, Serving
      <3> QED
        BY <1>2, <2>6, <3>1 DEF SubmitReturns, SubmitAbort, LoopTypeOK
    <2>9. BatchSubmitted => at[Sched] = "submit" /\ at'[Sched] = "select" /\ UNCHANGED timer
      BY <1>2 DEF BatchSubmitted, LoopTypeOK
    <2>10. at[Sched] \in {"waiting", "submit", "sending"} => timer[Sched] # "off"
      BY DEF LoopsServe
    <2>11. /\ at'[Sched] # "off" /\ (at'[Sched] = "returned" => ctxDone)
           /\ Sleeps(at'[Sched], timer'[Sched])
      BY <1>7, <2>2, <2>3, <2>4, <2>5, <2>7, <2>8, <2>9, <2>10 DEF SchedulerStep
    <2> QED
      BY <1>4, <2>1, <2>11
  <1>8. CASE \/ UNCHANGED vars \/ UNCHANGED loopVars
             \/ \E t \in Task : PublishCommit(t) \/ NotifyOutboxCommitted(t) \/ LeaseExpires(t)
    BY <1>1, <1>8 DEF vars, loopVars, PublishCommit, NotifyOutboxCommitted, LeaseExpires
  <1> QED
    BY <1>3, <1>5, <1>6, <1>7, <1>8
    DEF PipelineNext, RunningNext, PoolRuns, GoroutineStep, HandlerStep

(* A loop never goes to sleep without a timer, and never gives up.          *)
THEOREM SpecLoopsServe == PipelineSpec => []LoopsServe
  <1>1. PipelineInit => LoopsServe
    BY DEF PipelineInit, LoopsServe
  <1> QED
    BY <1>1, StepKeepsLoopsServe, SpecPipelineInv, PTL DEF PipelineSpec
=============================================================================
