----------------------------- MODULE WorkerPool -----------------------------
(***************************************************************************)
(* The in-memory half of the event pipeline: event/worker.go.  A fixed     *)
(* number of goroutines receive claimed tasks from a bounded channel;      *)
(* callers of Submit block while the channel is full; cancelling the       *)
(* context stops submissions, drains the channel and, if that takes longer *)
(* than shutdownGrace, cancels the running handlers.                       *)
(*                                                                         *)
(* run is where Worker.Run stands:                                         *)
(*   new -> serving -> closing (submissions.Wait) -> draining -> drained   *)
(*                                       draining -> forced -> cancelled   *)
(*                                                   forced -> timedout    *)
(* drained, cancelled and timedout are its three ways to return.           *)
(***************************************************************************)
EXTENDS Naturals, Sequences, FiniteSets

CONSTANTS
  Task,        (* claimed tasks, each submitted at most once                *)
  Goroutine,   (* the worker goroutines                                     *)
  Submitter,   (* concurrent callers of Submit                              *)
  NoTask

ASSUME GoroutineAssumption == IsFiniteSet(Goroutine) /\ Goroutine # {}
ASSUME NoTaskAssumption == NoTask \notin Task

Capacity == Cardinality(Goroutine)      (* make(chan ClaimedTask, count) *)

VARIABLES
  ctxDone,   (* the context of Run, and of Submit, is cancelled             *)
  run,       (* where Worker.Run stands                                     *)
  stopped,   (* the channel behind Done() is closed                         *)
  queue,     (* the buffered channel                                        *)
  sender,    (* [Submitter -> the task it is sending, registered in         *)
             (*               submissions], NoTask outside Submit           *)
  pc, job,   (* [Goroutine -> control state], [Goroutine -> its task]       *)
  space,     (* the one-place channel spaceAvailable holds a token          *)
  fate       (* [Task -> what has become of it]                             *)

poolVars == <<ctxDone, run, stopped, queue, sender, pc, job, space, fate>>

Returned == run \in {"drained", "cancelled", "timedout"}
Accepting == run = "serving"
StopSubmitting == run \notin {"new", "serving"}
QueueClosed == run \notin {"new", "serving", "closing"}
ExecutionCancelled == run = "forced" \/ Returned   (* forceStop, also deferred *)
AllExited == \A g \in Goroutine : pc[g] = "exited"

PoolInit ==
  /\ ctxDone = FALSE /\ run = "new" /\ stopped = FALSE
  /\ queue = <<>>
  /\ sender = [s \in Submitter |-> NoTask]
  /\ pc = [g \in Goroutine |-> "unborn"]
  /\ job = [g \in Goroutine |-> NoTask]
  /\ space = FALSE
  /\ fate = [t \in Task |-> "outside"]

-----------------------------------------------------------------------------
(* Worker.Run. *)

Cancel ==
  /\ ~ctxDone /\ ctxDone' = TRUE
  /\ UNCHANGED <<run, stopped, queue, sender, pc, job, space, fate>>

Start ==
  /\ run = "new" /\ run' = "serving"
  /\ pc' = [g \in Goroutine |-> "select"]
  /\ UNCHANGED <<ctxDone, stopped, queue, sender, job, space, fate>>

(* accepting = false and close(stopSubmitting), under the mutex. *)
StopAccepting ==
  /\ run = "serving" /\ ctxDone
  /\ run' = "closing"
  /\ UNCHANGED <<ctxDone, stopped, queue, sender, pc, job, space, fate>>

(* Mutant of CloseQueue: the queue is closed without submissions.Wait. *)
CloseQueueAtOnce ==
  /\ run = "closing" /\ run' = "draining"
  /\ UNCHANGED <<ctxDone, stopped, queue, sender, pc, job, space, fate>>

(* submissions.Wait returns, then close(queue). *)
CloseQueue ==
  /\ run = "closing"
  /\ \A s \in Submitter : sender[s] = NoTask
  /\ run' = "draining"
  /\ UNCHANGED <<ctxDone, stopped, queue, sender, pc, job, space, fate>>

(* All goroutines are seen to have exited in time, and finish() runs. *)
Finish ==
  /\ AllExited
  /\ \/ run = "draining" /\ run' = "drained"
     \/ run = "forced" /\ run' = "cancelled"
  /\ stopped' = TRUE
  /\ UNCHANGED <<ctxDone, queue, sender, pc, job, space, fate>>

GraceExpires ==
  /\ run = "draining" /\ run' = "forced"
  /\ UNCHANGED <<ctxDone, stopped, queue, sender, pc, job, space, fate>>

(* Mutant of ForceGraceExpires: Done is closed with Run's return. *)
ForceGraceCloses ==
  /\ run = "forced" /\ run' = "timedout"
  /\ stopped' = TRUE
  /\ UNCHANGED <<ctxDone, queue, sender, pc, job, space, fate>>

(* forceStopGrace passes: Run gives up waiting and leaves finish() to a     *)
(* goroutine that keeps waiting.                                            *)
ForceGraceExpires ==
  /\ run = "forced" /\ run' = "timedout"
  /\ UNCHANGED <<ctxDone, stopped, queue, sender, pc, job, space, fate>>

(* Mutant of LateFinish: nobody waits for the goroutines left behind. *)
LateFinishForgotten == FALSE /\ UNCHANGED poolVars

LateFinish ==
  /\ run = "timedout" /\ ~stopped /\ AllExited
  /\ stopped' = TRUE
  /\ UNCHANGED <<ctxDone, run, queue, sender, pc, job, space, fate>>

-----------------------------------------------------------------------------
(* Worker.Submit: a check under the mutex, then a select. *)

SubmitEnter(s, t) ==
  /\ sender[s] = NoTask /\ fate[t] = "outside"
  /\ IF Accepting
     THEN sender' = [sender EXCEPT ![s] = t] /\ fate' = [fate EXCEPT ![t] = "sending"]
     ELSE fate' = [fate EXCEPT ![t] = "refused"] /\ UNCHANGED sender
  /\ UNCHANGED <<ctxDone, run, stopped, queue, pc, job, space>>

SubmitSend(s) ==
  /\ sender[s] # NoTask /\ Len(queue) < Capacity
  /\ queue' = Append(queue, sender[s])
  /\ fate' = [fate EXCEPT ![sender[s]] = "queued"]
  /\ sender' = [sender EXCEPT ![s] = NoTask]
  /\ UNCHANGED <<ctxDone, run, stopped, pc, job, space>>

SubmitAbort(s) ==
  /\ sender[s] # NoTask /\ (ctxDone \/ StopSubmitting)
  /\ fate' = [fate EXCEPT ![sender[s]] = "refused"]
  /\ sender' = [sender EXCEPT ![s] = NoTask]
  /\ UNCHANGED <<ctxDone, run, stopped, queue, pc, job, space>>

-----------------------------------------------------------------------------
(* Worker.work and Worker.execute of goroutine g. *)

Receive(g) ==
  /\ pc[g] = "select" /\ queue # <<>>
  /\ queue' = Tail(queue)
  /\ job' = [job EXCEPT ![g] = Head(queue)]
  /\ pc' = [pc EXCEPT ![g] = "received"]
  /\ UNCHANGED <<ctxDone, run, stopped, sender, space, fate>>

(* Mutant of Exit: a goroutine leaves as soon as the queue is closed. *)
ExitWhenClosed(g) ==
  /\ pc[g] = "select" /\ (QueueClosed \/ ExecutionCancelled)
  /\ pc' = [pc EXCEPT ![g] = "exited"]
  /\ UNCHANGED <<ctxDone, run, stopped, queue, sender, job, space, fate>>

(* The receive of a closed, empty channel, or executionCtx.Done(). *)
Exit(g) ==
  /\ pc[g] = "select"
  /\ (QueueClosed /\ queue = <<>>) \/ ExecutionCancelled
  /\ pc' = [pc EXCEPT ![g] = "exited"]
  /\ UNCHANGED <<ctxDone, run, stopped, queue, sender, job, space, fate>>

(* notifySpaceAvailable, then the last look at the execution context. *)
Begin(g) ==
  /\ pc[g] = "received"
  /\ space' = TRUE
  /\ IF ExecutionCancelled
     THEN /\ pc' = [pc EXCEPT ![g] = "exited"]
          /\ fate' = [fate EXCEPT ![job[g]] = "abandoned"]
          /\ job' = [job EXCEPT ![g] = NoTask]
     ELSE /\ pc' = [pc EXCEPT ![g] = "executing"]
          /\ fate' = [fate EXCEPT ![job[g]] = "running"]
          /\ UNCHANGED job
  /\ UNCHANGED <<ctxDone, run, stopped, queue, sender>>

(* repo.Execute returns: nil or ErrClaimLost ends the task, any other error *)
(* leads to ScheduleRetry.                                                  *)
ExecuteReturns(g, failed) ==
  /\ pc[g] = "executing"
  /\ IF failed
     THEN pc' = [pc EXCEPT ![g] = "retrying"] /\ UNCHANGED <<job, fate>>
     ELSE /\ pc' = [pc EXCEPT ![g] = "select"]
          /\ fate' = [fate EXCEPT ![job[g]] = "settled"]
          /\ job' = [job EXCEPT ![g] = NoTask]
  /\ UNCHANGED <<ctxDone, run, stopped, queue, sender, space>>

(* Mutant of RetryReturns: the failed task is also queued again in memory. *)
RetryRequeues(g) ==
  /\ pc[g] = "retrying" /\ Len(queue) < Capacity
  /\ queue' = Append(queue, job[g])
  /\ pc' = [pc EXCEPT ![g] = "select"]
  /\ fate' = [fate EXCEPT ![job[g]] = "settled"]
  /\ job' = [job EXCEPT ![g] = NoTask]
  /\ UNCHANGED <<ctxDone, run, stopped, sender, space>>

(* ScheduleRetry returns, under a context of its own. *)
RetryReturns(g) ==
  /\ pc[g] = "retrying"
  /\ pc' = [pc EXCEPT ![g] = "select"]
  /\ fate' = [fate EXCEPT ![job[g]] = "settled"]
  /\ job' = [job EXCEPT ![g] = NoTask]
  /\ UNCHANGED <<ctxDone, run, stopped, queue, sender, space>>

(* The scheduler receives from SpaceAvailable(). *)
TakeSpace ==
  /\ space /\ space' = FALSE
  /\ UNCHANGED <<ctxDone, run, stopped, queue, sender, pc, job, fate>>

-----------------------------------------------------------------------------
RunStep ==
  Start \/ StopAccepting \/ CloseQueue \/ Finish \/ GraceExpires
        \/ ForceGraceExpires \/ LateFinish
PoolLoopStep(g) == Receive(g) \/ Exit(g) \/ Begin(g) \/ RetryReturns(g)
HandlerReturns(g) == \E failed \in BOOLEAN : ExecuteReturns(g, failed)

Next ==
  \/ Cancel \/ RunStep \/ TakeSpace
  \/ \E s \in Submitter :
       SubmitSend(s) \/ SubmitAbort(s) \/ \E t \in Task : SubmitEnter(s, t)
  \/ \E g \in Goroutine : PoolLoopStep(g) \/ HandlerReturns(g)

Spec == PoolInit /\ [][Next]_poolVars

(* The Go scheduler runs every goroutine that can run, and timers fire.     *)
(* Nothing obliges a handler to return.                                     *)
Fairness ==
  /\ WF_poolVars(RunStep)
  /\ \A s \in Submitter : WF_poolVars(SubmitSend(s)) /\ WF_poolVars(SubmitAbort(s))
  /\ \A g \in Goroutine : WF_poolVars(PoolLoopStep(g))

FairSpec == Spec /\ Fairness

(* Handlers respect their context, as worker.go:52-53 requires of them. *)
HandlersReturn == \A g \in Goroutine : WF_poolVars(HandlerReturns(g))

-----------------------------------------------------------------------------
TypeOK ==
  /\ ctxDone \in BOOLEAN /\ stopped \in BOOLEAN /\ space \in BOOLEAN
  /\ run \in {"new", "serving", "closing", "draining", "forced",
              "drained", "cancelled", "timedout"}
  /\ queue \in Seq(Task) /\ Len(queue) <= Capacity
  /\ sender \in [Submitter -> Task \cup {NoTask}]
  /\ pc \in [Goroutine -> {"unborn", "select", "received", "executing",
                           "retrying", "exited"}]
  /\ job \in [Goroutine -> Task \cup {NoTask}]
  /\ fate \in [Task -> {"outside", "sending", "refused", "queued", "running",
                        "settled", "abandoned"}]

(* Go panics on a send to a closed channel: when the queue is closed, no    *)
(* caller is left in Submit's select (worker.go:115-128).                   *)
NoSendOnClosedQueue ==
  QueueClosed => \A s \in Submitter : sender[s] = NoTask

(* Done() is truthful: once it is closed no goroutine touches a task again, *)
(* also after ErrWorkerShutdownTimeout (worker.go:95-112, 140).             *)
DoneIsTruthful == stopped => AllExited

(* A drain within the grace period settles every task that was accepted:    *)
(* nothing stays in the queue, nothing is abandoned.                        *)
GracefulDrain ==
  run = "drained" => \A t \in Task : fate[t] \in {"outside", "refused", "settled"}

(* A task is in one place at most: with one caller of Submit, once in the    *)
(* queue, or with one goroutine; and one that was refused, settled or       *)
(* abandoned is nowhere.                                                    *)
Waiting(s) == sender[s] # NoTask
Busy(g) == job[g] # NoTask
OneHolder ==
  /\ \A s \in Submitter : Waiting(s) =>
       /\ fate[sender[s]] = "sending"
       /\ \A r \in Submitter : sender[r] = sender[s] => r = s
  /\ \A i \in DOMAIN queue :
       /\ fate[queue[i]] = "queued"
       /\ \A j \in DOMAIN queue : queue[j] = queue[i] => j = i
       /\ \A g \in Goroutine : job[g] # queue[i]
  /\ \A g \in Goroutine : Busy(g) =>
       /\ \/ pc[g] = "received" /\ fate[job[g]] = "queued"
          \/ pc[g] \in {"executing", "retrying"} /\ fate[job[g]] = "running"
       /\ \A h \in Goroutine : job[h] = job[g] => h = g
  /\ \A g \in Goroutine :
       pc[g] \in {"received", "executing", "retrying"} => Busy(g)

(* The inductive invariant: goroutines are born with Run and exit only when *)
(* the queue is closed, before forceStop only when it is empty as well;     *)
(* and the fate of a task says who has it.                                  *)
GoroutinesLive ==
  /\ \A g \in Goroutine : pc[g] = "unborn" <=> run = "new"
  /\ \A g \in Goroutine : pc[g] = "exited" =>
       QueueClosed /\ (ExecutionCancelled \/ queue = <<>>)
  /\ stopped \/ run \in {"drained", "cancelled"} => AllExited
  /\ stopped => Returned
FatesAreTrue ==
  \A t \in Task :
    /\ fate[t] = "sending" => \E s \in Submitter : sender[s] = t
    /\ fate[t] = "queued" => \/ \E i \in DOMAIN queue : queue[i] = t
                            \/ \E g \in Goroutine : pc[g] = "received" /\ job[g] = t
    /\ fate[t] = "running" => \E g \in Goroutine : pc[g] \in {"executing", "retrying"} /\ job[g] = t
    /\ fate[t] = "abandoned" => ExecutionCancelled
PoolInv ==
  TypeOK /\ NoSendOnClosedQueue /\ GoroutinesLive /\ FatesAreTrue /\ GracefulDrain

(* A task takes this course and no other: it is queued once, run at most    *)
(* once, and what runs is settled.  What Submit refused, and a task that    *)
(* was settled or abandoned, is never touched again by this pool            *)
(* (worker.go:164-230): whoever recovers the claim has it to himself.       *)
Course == {<<"outside", "sending">>, <<"outside", "refused">>,
           <<"sending", "queued">>, <<"sending", "refused">>,
           <<"queued", "running">>, <<"queued", "abandoned">>,
           <<"running", "settled">>}
FatesAdvance ==
  [][\A t \in Task : fate'[t] # fate[t] => <<fate[t], fate'[t]>> \in Course]_poolVars

(* With handlers that return, Done is closed after a cancellation.          *)
Stops == HandlersReturn => (ctxDone ~> stopped)

(* docs/worker.md:43: "cancelling serviceCtx stops taking tasks and cancels *)
(* the tasks being executed".                                               *)
CancelStopsTaking ==
  [][ctxDone => \A g \in Goroutine : pc'[g] = "received" => pc[g] = "received"]_poolVars
=============================================================================
