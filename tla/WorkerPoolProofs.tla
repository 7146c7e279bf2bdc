-------------------------- MODULE WorkerPoolProofs --------------------------
(***************************************************************************)
(* Theorems about WorkerPool, for any number of tasks, goroutines and      *)
(* callers of Submit.                                                      *)
(***************************************************************************)
EXTENDS WorkerPool, FiniteSetTheorems, SequenceTheorems, TLAPS

USE GoroutineAssumption, NoTaskAssumption

LEMMA CapacityIsNat == Capacity \in Nat \ {0}
  <1>1. Cardinality(Goroutine) \in Nat /\ Cardinality(Goroutine) # 0
    BY FS_CardinalityType, FS_EmptySet
  <1> QED
    BY <1>1 DEF Capacity

LEMMA PoolInitInv == PoolInit => PoolInv
  <1> SUFFICES ASSUME PoolInit PROVE PoolInv
    OBVIOUS
  <1>1. queue \in Seq(Task) /\ Len(queue) = 0
    BY DEF PoolInit
  <1>2. Len(queue) <= Capacity
    BY <1>1, CapacityIsNat
  <1>3. TypeOK
    BY <1>1, <1>2 DEF PoolInit, TypeOK
  <1> QED
    BY <1>3 DEF PoolInit, PoolInv, NoSendOnClosedQueue, QueueClosed, GoroutinesLive,
                FatesAreTrue, GracefulDrain, Returned

(* Steps of Run that change neither tasks nor goroutines. *)
LEMMA RunSteps ==
  ASSUME PoolInv, Cancel \/ RunStep \/ TakeSpace
  PROVE  PoolInv'
  <1> USE DEF PoolInv
  <1>1. TypeOK'
    BY DEF TypeOK, Cancel, RunStep, Start, StopAccepting, CloseQueue, Finish, GraceExpires,
           ForceGraceExpires, LateFinish, TakeSpace
  <1>2. NoSendOnClosedQueue'
    BY DEF NoSendOnClosedQueue, QueueClosed, Cancel, RunStep, Start, StopAccepting, CloseQueue,
           Finish, GraceExpires, ForceGraceExpires, LateFinish, TakeSpace
  <1>3. GoroutinesLive'
    <2>1. CASE Start
      BY <2>1 DEF Start, GoroutinesLive, TypeOK, AllExited, Returned, QueueClosed, ExecutionCancelled
    <2>2. CASE ~Start
      BY <2>2 DEF GoroutinesLive, TypeOK, AllExited, Returned, QueueClosed, ExecutionCancelled,
           Cancel, RunStep, StopAccepting, CloseQueue, Finish, GraceExpires,
           ForceGraceExpires, LateFinish, TakeSpace
    <2> QED
      BY <2>1, <2>2
  <1>4. FatesAreTrue'
    <2>1. CASE Start
      <3>1. \A g \in Goroutine : pc[g] = "unborn"
        BY <2>1 DEF Start, GoroutinesLive
      <3> QED
        BY <2>1, <3>1 DEF Start, FatesAreTrue, ExecutionCancelled, Returned
    <2>2. CASE ~Start
      <3>1. UNCHANGED <<queue, sender, pc, job, fate>> /\ (ExecutionCancelled => ExecutionCancelled')
        BY <2>2 DEF Cancel, RunStep, StopAccepting, CloseQueue, Finish, GraceExpires,
           ForceGraceExpires, LateFinish, TakeSpace, ExecutionCancelled, Returned
      <3> QED
        BY <3>1 DEF FatesAreTrue
    <2> QED
      BY <2>1, <2>2
  <1>5. GracefulDrain'
    <2>1. CASE run = "draining" /\ Finish
      <3>1. \E g \in Goroutine : pc[g] = "exited"
        BY <2>1 DEF Finish, AllExited
      <3>2. queue = <<>> /\ ~ExecutionCancelled
        BY <2>1, <3>1 DEF GoroutinesLive, ExecutionCancelled, Returned
      <3>3. \A s \in Submitter : sender[s] = NoTask
        BY <2>1 DEF NoSendOnClosedQueue, QueueClosed
      <3>4. \A t \in Task : fate[t] \in {"outside", "refused", "settled"}
        BY <2>1, <3>2, <3>3 DEF Finish, AllExited, FatesAreTrue, TypeOK
      <3> QED
        BY <2>1, <3>4 DEF Finish, GracefulDrain
    <2>2. CASE ~(run = "draining" /\ Finish)
      BY <2>2 DEF GracefulDrain, Cancel, RunStep, Start, StopAccepting, CloseQueue, Finish,
           GraceExpires, ForceGraceExpires, LateFinish, TakeSpace
    <2> QED
      BY <2>1, <2>2
  <1> QED
    BY <1>1, <1>2, <1>3, <1>4, <1>5

LEMMA SubmitSteps ==
  ASSUME PoolInv, NEW s \in Submitter,
         SubmitSend(s) \/ SubmitAbort(s) \/ \E t \in Task : SubmitEnter(s, t)
  PROVE  PoolInv'
  <1> USE DEF PoolInv
  <1>0. UNCHANGED <<run, stopped, pc, job>>
    BY DEF SubmitSend, SubmitAbort, SubmitEnter
  <1>1. CASE SubmitSend(s)
    <2>1. /\ sender[s] \in Task /\ Len(queue) < Capacity /\ queue \in Seq(Task)
          /\ sender' = [sender EXCEPT ![s] = NoTask]
          /\ fate' = [fate EXCEPT ![sender[s]] = "queued"]
          /\ queue' = Append(queue, sender[s])
      BY <1>1 DEF SubmitSend, TypeOK
    <2>2. /\ queue' \in Seq(Task) /\ Len(queue') = Len(queue) + 1
          /\ \A i \in DOMAIN queue : i \in DOMAIN queue' /\ queue'[i] = queue[i]
          /\ Len(queue) + 1 \in DOMAIN queue' /\ queue'[Len(queue) + 1] = sender[s]
      BY <2>1
    <2>3. TypeOK'
      BY <1>0, <1>1, <2>1, <2>2, CapacityIsNat DEF TypeOK, SubmitSend
    <2>4. ~QueueClosed /\ run # "drained"
      BY <2>1 DEF NoSendOnClosedQueue, QueueClosed
    <2>5. FatesAreTrue'
      <3> SUFFICES ASSUME NEW t \in Task
            PROVE  /\ fate'[t] = "sending" => \E r \in Submitter : sender'[r] = t
                   /\ fate'[t] = "queued" => \/ \E i \in DOMAIN queue' : queue'[i] = t
                                             \/ \E g \in Goroutine : pc[g] = "received" /\ job[g] = t
                   /\ fate'[t] = "running" =>
                        \E g \in Goroutine : pc[g] \in {"executing", "retrying"} /\ job[g] = t
                   /\ fate'[t] = "abandoned" => ExecutionCancelled'
        BY <1>0 DEF FatesAreTrue
      <3>1. CASE t = sender[s]
        BY <2>1, <2>2, <3>1 DEF TypeOK
      <3>2. CASE t # sender[s]
        BY <1>0, <2>1, <2>2, <3>2 DEF TypeOK, FatesAreTrue, ExecutionCancelled, Returned
      <3> QED
        BY <3>1, <3>2
    <2>6. GoroutinesLive'
      BY <1>0, <2>4 DEF GoroutinesLive, AllExited, Returned, QueueClosed, ExecutionCancelled
    <2> QED
      BY <1>0, <2>3, <2>4, <2>5, <2>6 DEF NoSendOnClosedQueue, QueueClosed, GracefulDrain
  <1>2. CASE SubmitAbort(s)
    <2>1. /\ sender[s] \in Task /\ sender' = [sender EXCEPT ![s] = NoTask]
          /\ fate' = [fate EXCEPT ![sender[s]] = "refused"] /\ queue' = queue
      BY <1>2 DEF SubmitAbort, TypeOK
    <2>2. TypeOK'
      BY <1>0, <1>2, <2>1 DEF TypeOK, SubmitAbort
    <2>3. NoSendOnClosedQueue' /\ GracefulDrain'
      BY <1>0, <2>1 DEF NoSendOnClosedQueue, GracefulDrain, QueueClosed, TypeOK
    <2>4. GoroutinesLive'
      BY <1>0, <2>1 DEF GoroutinesLive, AllExited, Returned, QueueClosed, ExecutionCancelled
    <2>5. FatesAreTrue'
      BY <1>0, <2>1 DEF FatesAreTrue, TypeOK, ExecutionCancelled, Returned
    <2> QED
      BY <2>2, <2>3, <2>4, <2>5
  <1>3. ASSUME NEW t \in Task, SubmitEnter(s, t) PROVE PoolInv'
    <2>1. /\ fate[t] = "outside" /\ queue' = queue /\ sender[s] = NoTask
          /\ \/ /\ run = "serving" /\ sender' = [sender EXCEPT ![s] = t]
                /\ fate' = [fate EXCEPT ![t] = "sending"]
             \/ fate' = [fate EXCEPT ![t] = "refused"] /\ sender' = sender
      BY <1>3 DEF SubmitEnter, Accepting
    <2>2. TypeOK'
      BY <1>0, <1>3, <2>1 DEF TypeOK, SubmitEnter
    <2>3. NoSendOnClosedQueue' /\ GracefulDrain'
      BY <1>0, <2>1 DEF NoSendOnClosedQueue, GracefulDrain, QueueClosed, TypeOK
    <2>4. GoroutinesLive'
      BY <1>0, <2>1 DEF GoroutinesLive, AllExited, Returned, QueueClosed, ExecutionCancelled
    <2>5. FatesAreTrue'
      <3>1. \A r \in Submitter : r # s => sender'[r] = sender[r]
        BY <2>1 DEF TypeOK
      <3>2. \A u \in Task : u # t => fate'[u] = fate[u]
        BY <2>1 DEF TypeOK
      <3>3. fate'[t] = "refused" \/ (fate'[t] = "sending" /\ sender'[s] = t)
        BY <2>1 DEF TypeOK
      <3> QED
        BY <1>0, <2>1, <3>1, <3>2, <3>3 DEF FatesAreTrue, ExecutionCancelled, Returned
    <2> QED
      BY <2>2, <2>3, <2>4, <2>5
  <1> QED
    BY <1>1, <1>2, <1>3

LEMMA GoroutineSteps ==
  ASSUME PoolInv, NEW g \in Goroutine, PoolLoopStep(g) \/ HandlerReturns(g)
  PROVE  PoolInv'
  <1> USE DEF PoolInv
  <1>0. UNCHANGED <<ctxDone, run, stopped, sender>>
    BY DEF PoolLoopStep, HandlerReturns, Receive, Exit, Begin, ExecuteReturns, RetryReturns
  <1>1. pc[g] \notin {"unborn", "exited"} /\ run # "new" /\ ~stopped
        /\ run \notin {"drained", "cancelled"}
    BY DEF PoolLoopStep, HandlerReturns, Receive, Exit, Begin, ExecuteReturns, RetryReturns,
           GoroutinesLive, AllExited
  <1>2. NoSendOnClosedQueue' /\ GracefulDrain'
    BY <1>0, <1>1 DEF NoSendOnClosedQueue, QueueClosed, GracefulDrain
  <1>3. CASE Receive(g)
    <2>1. /\ queue # <<>> /\ queue \in Seq(Task) /\ queue' = Tail(queue)
          /\ job' = [job EXCEPT ![g] = Head(queue)] /\ pc' = [pc EXCEPT ![g] = "received"]
          /\ fate' = fate /\ space' = space /\ pc[g] = "select"
      BY <1>3 DEF Receive, TypeOK
    <2>2. /\ Head(queue) \in Task /\ Tail(queue) \in Seq(Task) /\ Len(Tail(queue)) = Len(queue) - 1
          /\ \A i \in DOMAIN queue : i = 1 \/ (i - 1 \in DOMAIN Tail(queue) /\ Tail(queue)[i - 1] = queue[i])
          /\ Head(queue) = queue[1]
      BY <2>1
    <2>3. TypeOK'
      BY <1>0, <2>1, <2>2, CapacityIsNat DEF TypeOK
    <2>4. GoroutinesLive'
      BY <1>0, <1>1, <2>1 DEF GoroutinesLive, AllExited, Returned, QueueClosed, ExecutionCancelled, TypeOK
    <2>5. FatesAreTrue'
      <3> SUFFICES ASSUME NEW t \in Task
            PROVE  /\ fate[t] = "sending" => \E r \in Submitter : sender[r] = t
                   /\ fate[t] = "queued" => \/ \E i \in DOMAIN queue' : queue'[i] = t
                                            \/ \E h \in Goroutine : pc'[h] = "received" /\ job'[h] = t
                   /\ fate[t] = "running" =>
                        \E h \in Goroutine : pc'[h] \in {"executing", "retrying"} /\ job'[h] = t
                   /\ fate[t] = "abandoned" => ExecutionCancelled
        BY <1>0, <2>1 DEF FatesAreTrue, ExecutionCancelled, Returned
      <3>1. /\ \A h \in Goroutine : h # g => pc'[h] = pc[h] /\ job'[h] = job[h]
            /\ pc'[g] = "received" /\ job'[g] = Head(queue)
        BY <2>1 DEF TypeOK
      <3>2. ASSUME fate[t] = "queued"
            PROVE  \/ \E i \in DOMAIN queue' : queue'[i] = t
                   \/ \E h \in Goroutine : pc'[h] = "received" /\ job'[h] = t
        <4>1. CASE \E h \in Goroutine : pc[h] = "received" /\ job[h] = t
          BY <2>1, <3>1, <4>1
        <4>2. ASSUME NEW i \in DOMAIN queue, queue[i] = t
              PROVE  \/ \E j \in DOMAIN queue' : queue'[j] = t
                     \/ \E h \in Goroutine : pc'[h] = "received" /\ job'[h] = t
          BY <2>1, <2>2, <3>1, <4>2
        <4> QED
          BY <3>2, <4>1, <4>2 DEF FatesAreTrue
      <3> QED
        BY <2>1, <3>1, <3>2 DEF FatesAreTrue
    <2> QED
      BY <1>2, <2>3, <2>4, <2>5
  <1>4. CASE Exit(g)
    <2>1. /\ pc' = [pc EXCEPT ![g] = "exited"] /\ UNCHANGED <<queue, job, space, fate>>
          /\ pc[g] = "select" /\ ((QueueClosed /\ queue = <<>>) \/ ExecutionCancelled)
      BY <1>4 DEF Exit
    <2>2. TypeOK'
      BY <1>0, <2>1 DEF TypeOK
    <2>3. GoroutinesLive'
      BY <1>0, <1>1, <2>1 DEF GoroutinesLive, AllExited, Returned, QueueClosed, ExecutionCancelled, TypeOK
    <2>4. FatesAreTrue'
      BY <1>0, <2>1 DEF FatesAreTrue, ExecutionCancelled, Returned, TypeOK
    <2> QED
      BY <1>2, <2>2, <2>3, <2>4
  <1>5. CASE Begin(g)
    <2>1. /\ pc[g] = "received" /\ UNCHANGED queue /\ space' = TRUE
          /\ \/ /\ ExecutionCancelled /\ pc' = [pc EXCEPT ![g] = "exited"]
                /\ fate' = [fate EXCEPT ![job[g]] = "abandoned"]
                /\ job' = [job EXCEPT ![g] = NoTask]
             \/ /\ pc' = [pc EXCEPT ![g] = "executing"] /\ job' = job
                /\ fate' = [fate EXCEPT ![job[g]] = "running"]
      BY <1>5 DEF Begin
    <2>2. TypeOK'
      BY <1>0, <2>1 DEF TypeOK
    <2>3. GoroutinesLive'
      BY <1>0, <1>1, <2>1 DEF GoroutinesLive, AllExited, Returned, QueueClosed, ExecutionCancelled, TypeOK
    <2>4. FatesAreTrue'
      BY <1>0, <2>1 DEF FatesAreTrue, ExecutionCancelled, Returned, TypeOK
    <2> QED
      BY <1>2, <2>2, <2>3, <2>4
  <1>6. CASE HandlerReturns(g) \/ RetryReturns(g)
    <2>1. /\ pc[g] \in {"executing", "retrying"} /\ UNCHANGED <<queue, space>>
          /\ \/ pc' = [pc EXCEPT ![g] = "retrying"] /\ UNCHANGED <<job, fate>>
             \/ /\ pc' = [pc EXCEPT ![g] = "select"]
                /\ fate' = [fate EXCEPT ![job[g]] = "settled"]
                /\ job' = [job EXCEPT ![g] = NoTask]
      BY <1>6 DEF HandlerReturns, ExecuteReturns, RetryReturns
    <2>2. TypeOK'
      BY <1>0, <2>1 DEF TypeOK
    <2>3. GoroutinesLive'
      BY <1>0, <1>1, <2>1 DEF GoroutinesLive, AllExited, Returned, QueueClosed, ExecutionCancelled, TypeOK
    <2>4. FatesAreTrue'
      BY <1>0, <2>1 DEF FatesAreTrue, ExecutionCancelled, Returned, TypeOK
    <2> QED
      BY <1>2, <2>2, <2>3, <2>4
  <1> QED
    BY <1>3, <1>4, <1>5, <1>6 DEF PoolLoopStep

(* Any step of the pool, and any step of a system it is a part of. *)
LEMMA PoolStepKeepsInv == PoolInv /\ [Next]_poolVars => PoolInv'
  <1>1. ASSUME PoolInv, Next PROVE PoolInv'
    BY <1>1, RunSteps, SubmitSteps, GoroutineSteps DEF Next
  <1>2. ASSUME PoolInv, UNCHANGED poolVars PROVE PoolInv'
    BY <1>2 DEF poolVars, PoolInv, TypeOK, NoSendOnClosedQueue, QueueClosed, GoroutinesLive,
                FatesAreTrue, GracefulDrain, ExecutionCancelled, Returned, AllExited
  <1> QED
    BY <1>1, <1>2

-----------------------------------------------------------------------------
(* The pool keeps its invariant. *)
THEOREM SpecPoolInv == Spec => []PoolInv
  BY PoolInitInv, PoolStepKeepsInv, PTL DEF Spec

(* Nothing is ever sent on the closed queue: Go would panic. *)
THEOREM SpecNoSendOnClosedQueue == Spec => []NoSendOnClosedQueue
  <1>1. PoolInv => NoSendOnClosedQueue
    BY DEF PoolInv
  <1> QED
    BY <1>1, SpecPoolInv, PTL

(* Once Done() is closed every goroutine has exited, also after a timeout. *)
THEOREM SpecDoneIsTruthful == Spec => []DoneIsTruthful
  <1>1. PoolInv => DoneIsTruthful
    BY DEF PoolInv, GoroutinesLive, DoneIsTruthful
  <1> QED
    BY <1>1, SpecPoolInv, PTL

(* A drain within the grace period settles every accepted task. *)
THEOREM SpecGracefulDrain == Spec => []GracefulDrain
  <1>1. PoolInv => GracefulDrain
    BY DEF PoolInv
  <1> QED
    BY <1>1, SpecPoolInv, PTL

-----------------------------------------------------------------------------
(* No task is ever in two places.  A step moves one task from one place to  *)
(* the next, and its fate with it.                                          *)
LEMMA InitOneHolder == PoolInit => OneHolder
  BY DEF PoolInit, OneHolder, Waiting, Busy

LEMMA RunKeepsOneHolder ==
  ASSUME PoolInv, OneHolder, Cancel \/ RunStep \/ TakeSpace
  PROVE  OneHolder'
  <1>1. UNCHANGED <<queue, sender, job, fate>>
    BY DEF Cancel, RunStep, Start, StopAccepting, CloseQueue, Finish, GraceExpires,
           ForceGraceExpires, LateFinish, TakeSpace
  <1>2. CASE Start
    <2>1. \A g \in Goroutine : pc[g] = "unborn" /\ pc'[g] = "select"
      BY <1>2 DEF Start, PoolInv, GoroutinesLive
    <2>2. \A g \in Goroutine : ~Busy(g)
      BY <2>1 DEF OneHolder
    <2> QED
      BY <1>1, <2>1, <2>2 DEF OneHolder, Waiting, Busy
  <1>3. CASE ~Start
    <2>1. UNCHANGED pc
      BY <1>3 DEF Cancel, RunStep, StopAccepting, CloseQueue, Finish, GraceExpires,
             ForceGraceExpires, LateFinish, TakeSpace
    <2> QED
      BY <1>1, <2>1 DEF OneHolder, Waiting, Busy
  <1> QED
    BY <1>2, <1>3

LEMMA SubmitKeepsOneHolder ==
  ASSUME PoolInv, OneHolder, NEW s \in Submitter,
         SubmitSend(s) \/ SubmitAbort(s) \/ \E t \in Task : SubmitEnter(s, t)
  PROVE  OneHolder'
  <1> USE DEF PoolInv, Waiting, Busy
  <1>0. UNCHANGED <<pc, job>> /\ TypeOK
    BY DEF SubmitSend, SubmitAbort, SubmitEnter
  <1>1. CASE SubmitSend(s) \/ SubmitAbort(s)
    <2>1. PICK t \in Task : t = sender[s]
      BY <1>0, <1>1 DEF SubmitSend, SubmitAbort, TypeOK
    <2>2. /\ fate[t] = "sending" /\ sender' = [sender EXCEPT ![s] = NoTask]
          /\ \A r \in Submitter : r # s => sender[r] # t
      BY <1>1, <2>1 DEF SubmitSend, SubmitAbort, OneHolder
    <2>3. /\ \A i \in DOMAIN queue : queue[i] # t
          /\ \A g \in Goroutine : job[g] # t
      BY <1>0, <2>2 DEF OneHolder
    <2>4. \E f \in {"queued", "refused"} : fate' = [fate EXCEPT ![t] = f]
      BY <1>1, <2>1 DEF SubmitSend, SubmitAbort
    <2>5. \A u \in Task : u # t => fate'[u] = fate[u]
      BY <1>0, <2>4 DEF TypeOK
    <2>6. \A r \in Submitter : Waiting(r)' =>
            sender'[r] = sender[r] /\ sender[r] \in Task \ {t}
      BY <1>0, <2>2 DEF TypeOK
    <2>7. \A i \in DOMAIN queue : queue[i] \in Task
      BY <1>0 DEF TypeOK
    <2>8. \A g \in Goroutine : Busy(g) => job[g] \in Task
      BY <1>0 DEF TypeOK
    <2>9. /\ \A r \in Submitter : Waiting(r)' =>
               /\ fate'[sender'[r]] = "sending"
               /\ \A q \in Submitter : sender'[q] = sender'[r] => q = r
      BY <2>5, <2>6 DEF OneHolder
    <2>10. \A g \in Goroutine : Busy(g) => fate'[job[g]] = fate[job[g]]
      BY <2>3, <2>5, <2>8
    <2>11. /\ \A g \in Goroutine : Busy(g)' =>
                /\ \/ pc'[g] = "received" /\ fate'[job'[g]] = "queued"
                   \/ pc'[g] \in {"executing", "retrying"} /\ fate'[job'[g]] = "running"
                /\ \A h \in Goroutine : job'[h] = job'[g] => h = g
           /\ \A g \in Goroutine :
                pc'[g] \in {"received", "executing", "retrying"} => Busy(g)'
      BY <1>0, <2>10 DEF OneHolder
    <2>12. \A i \in DOMAIN queue' :
             /\ fate'[queue'[i]] = "queued"
             /\ \A j \in DOMAIN queue' : queue'[j] = queue'[i] => j = i
             /\ \A g \in Goroutine : job'[g] # queue'[i]
      <3>1. CASE UNCHANGED queue
        BY <1>0, <2>3, <2>5, <2>7, <3>1 DEF OneHolder
      <3>2. CASE queue' = Append(queue, t) /\ fate' = [fate EXCEPT ![t] = "queued"]
        <4>1. queue \in Seq(Task) /\ fate'[t] = "queued"
          BY <1>0, <3>2 DEF TypeOK
        <4>2. /\ DOMAIN queue' = DOMAIN queue \cup {Len(queue) + 1}
              /\ Len(queue) + 1 \notin DOMAIN queue
              /\ \A i \in DOMAIN queue : queue'[i] = queue[i]
              /\ queue'[Len(queue) + 1] = t
          BY <3>2, <4>1
        <4>3. \A i \in DOMAIN queue : fate'[queue'[i]] = "queued" /\ queue'[i] # t
          BY <2>3, <2>5, <2>7, <4>2 DEF OneHolder
        <4> QED
          BY <1>0, <2>3, <4>1, <4>2, <4>3 DEF OneHolder
      <3> QED
        BY <1>1, <2>1, <3>1, <3>2 DEF SubmitSend, SubmitAbort
    <2> QED
      BY <2>9, <2>11, <2>12 DEF OneHolder
  <1>2. ASSUME NEW t \in Task, SubmitEnter(s, t) PROVE OneHolder'
    <2>1. fate[t] = "outside" /\ UNCHANGED queue
      BY <1>2 DEF SubmitEnter
    <2>2. \E f \in {"sending", "refused"} :
            /\ fate' = [fate EXCEPT ![t] = f]
            /\ sender' = (IF f = "sending" THEN [sender EXCEPT ![s] = t] ELSE sender)
      BY <1>2 DEF SubmitEnter
    <2>3. \A u \in Task : u # t => fate'[u] = fate[u]
      BY <1>0, <2>2 DEF TypeOK
    <2>4. /\ \A i \in DOMAIN queue : queue[i] # t /\ queue[i] \in Task
          /\ \A g \in Goroutine : job[g] # t /\ (Busy(g) => job[g] \in Task)
          /\ \A r \in Submitter : sender[r] # t /\ (Waiting(r) => sender[r] \in Task)
      BY <1>0, <2>1 DEF OneHolder, TypeOK
    <2>5. \A i \in DOMAIN queue' :
             /\ fate'[queue'[i]] = "queued"
             /\ \A j \in DOMAIN queue' : queue'[j] = queue'[i] => j = i
             /\ \A g \in Goroutine : job'[g] # queue'[i]
      BY <1>0, <2>1, <2>3, <2>4 DEF OneHolder
    <2>6. \A g \in Goroutine : Busy(g) => fate'[job[g]] = fate[job[g]]
      BY <2>3, <2>4
    <2>7. /\ \A g \in Goroutine : Busy(g)' =>
               /\ \/ pc'[g] = "received" /\ fate'[job'[g]] = "queued"
                  \/ pc'[g] \in {"executing", "retrying"} /\ fate'[job'[g]] = "running"
               /\ \A h \in Goroutine : job'[h] = job'[g] => h = g
          /\ \A g \in Goroutine :
               pc'[g] \in {"received", "executing", "retrying"} => Busy(g)'
      BY <1>0, <2>6 DEF OneHolder
    <2>8. \A r \in Submitter : Waiting(r)' =>
            /\ fate'[sender'[r]] = "sending"
            /\ \A q \in Submitter : sender'[q] = sender'[r] => q = r
      <3>1. CASE UNCHANGED sender
        BY <2>3, <2>4, <3>1 DEF OneHolder
      <3>2. CASE sender' = [sender EXCEPT ![s] = t] /\ fate' = [fate EXCEPT ![t] = "sending"]
        <4>1. fate'[t] = "sending" /\ sender'[s] = t
              /\ \A r \in Submitter : r # s => sender'[r] = sender[r]
          BY <1>0, <3>2 DEF TypeOK
        <4> QED
          BY <2>3, <2>4, <4>1 DEF OneHolder
      <3> QED
        BY <2>2, <3>1, <3>2
    <2> QED
      BY <2>5, <2>7, <2>8 DEF OneHolder
  <1> QED
    BY <1>1, <1>2

LEMMA GoroutineKeepsOneHolder ==
  ASSUME PoolInv, OneHolder, NEW g \in Goroutine, PoolLoopStep(g) \/ HandlerReturns(g)
  PROVE  OneHolder'
  <1> USE DEF PoolInv, Waiting, Busy
  <1>0. UNCHANGED sender /\ TypeOK
    BY DEF PoolLoopStep, HandlerReturns, Receive, Exit, Begin, ExecuteReturns, RetryReturns
  <1>1. CASE Receive(g)
    <2>1. /\ queue # <<>> /\ queue \in Seq(Task) /\ queue' = Tail(queue) /\ fate' = fate
          /\ job' = [job EXCEPT ![g] = Head(queue)] /\ pc' = [pc EXCEPT ![g] = "received"]
      BY <1>0, <1>1 DEF Receive, TypeOK
    <2>2. /\ 1 \in DOMAIN queue /\ Head(queue) = queue[1]
          /\ \A i \in DOMAIN queue' :
               /\ i + 1 \in DOMAIN queue /\ queue'[i] = queue[i + 1]
               /\ i + 1 # 1 /\ \A j \in DOMAIN queue' : i + 1 = j + 1 => i = j
      BY <2>1
    <2>3. \A i \in DOMAIN queue' : queue'[i] # queue[1]
      BY <2>2 DEF OneHolder
    <2>4. /\ job'[g] = queue[1] /\ pc'[g] = "received"
          /\ \A h \in Goroutine : h # g => job'[h] = job[h] /\ pc'[h] = pc[h]
      BY <1>0, <2>1, <2>2 DEF TypeOK
    <2>5. queue[1] # NoTask /\ \A h \in Goroutine : job[h] # queue[1]
      BY <2>1, <2>2 DEF OneHolder
    <2>6. \A i \in DOMAIN queue' :
             /\ fate'[queue'[i]] = "queued"
             /\ \A j \in DOMAIN queue' : queue'[j] = queue'[i] => j = i
             /\ \A h \in Goroutine : job'[h] # queue'[i]
      BY <2>1, <2>2, <2>3, <2>4 DEF OneHolder
    <2>7. \A h \in Goroutine : Busy(h)' =>
             /\ \/ pc'[h] = "received" /\ fate'[job'[h]] = "queued"
                \/ pc'[h] \in {"executing", "retrying"} /\ fate'[job'[h]] = "running"
             /\ \A k \in Goroutine : job'[k] = job'[h] => k = h
      BY <2>1, <2>2, <2>4, <2>5 DEF OneHolder
    <2>8. \A h \in Goroutine :
             pc'[h] \in {"received", "executing", "retrying"} => Busy(h)'
      BY <2>4, <2>5 DEF OneHolder
    <2> QED
      BY <1>0, <2>1, <2>6, <2>7, <2>8 DEF OneHolder
  <1>2. CASE Exit(g) \/ (HandlerReturns(g) /\ UNCHANGED job)
    <2>1. /\ UNCHANGED <<queue, job, fate>>
          /\ \A h \in Goroutine : h # g => pc'[h] = pc[h]
          /\ \/ pc[g] = "select" /\ pc'[g] = "exited"
             \/ pc[g] = "executing" /\ pc'[g] = "retrying"
      <3>1. CASE Exit(g)
        BY <1>0, <3>1 DEF Exit, TypeOK
      <3>2. CASE HandlerReturns(g) /\ UNCHANGED job
        <4>1. pc[g] = "executing" /\ Busy(g) /\ UNCHANGED queue
          BY <3>2 DEF HandlerReturns, ExecuteReturns, OneHolder
        <4>2. pc' = [pc EXCEPT ![g] = "retrying"] /\ UNCHANGED fate
          BY <1>0, <3>2, <4>1 DEF HandlerReturns, ExecuteReturns, TypeOK
        <4> QED
          BY <1>0, <3>2, <4>1, <4>2 DEF TypeOK
      <3> QED
        BY <1>2, <3>1, <3>2
    <2> QED
      BY <1>0, <2>1 DEF OneHolder
  <1>3. CASE Begin(g) \/ RetryReturns(g) \/ (HandlerReturns(g) /\ job' # job)
    <2>1. /\ pc[g] \in {"received", "executing", "retrying"} /\ UNCHANGED queue
          /\ \/ /\ pc[g] = "received" /\ pc' = [pc EXCEPT ![g] = "executing"]
                /\ fate' = [fate EXCEPT ![job[g]] = "running"] /\ UNCHANGED job
             \/ \E f \in {"settled", "abandoned"}, p \in {"exited", "select"} :
                  /\ pc' = [pc EXCEPT ![g] = p]
                  /\ fate' = [fate EXCEPT ![job[g]] = f]
                  /\ job' = [job EXCEPT ![g] = NoTask]
      BY <1>3 DEF Begin, RetryReturns, HandlerReturns, ExecuteReturns
    <2>2. PICK t \in Task : t = job[g]
      BY <1>0, <2>1 DEF OneHolder, TypeOK
    <2>3. /\ fate[t] \in {"queued", "running"}
          /\ \A i \in DOMAIN queue : queue[i] # t /\ queue[i] \in Task
          /\ \A h \in Goroutine : h # g => job[h] # t /\ (Busy(h) => job[h] \in Task)
          /\ \A r \in Submitter : sender[r] # t /\ (Waiting(r) => sender[r] \in Task)
      BY <1>0, <2>2 DEF OneHolder, TypeOK
    <2>4. \A u \in Task : u # t => fate'[u] = fate[u]
      BY <1>0, <2>1, <2>2 DEF TypeOK
    <2>5. \A h \in Goroutine : h # g => pc'[h] = pc[h] /\ job'[h] = job[h]
      BY <1>0, <2>1 DEF TypeOK
    <2>6. \/ job'[g] = t /\ pc'[g] = "executing" /\ fate'[t] = "running"
          \/ job'[g] = NoTask /\ pc'[g] \in {"exited", "select"}
      BY <1>0, <2>1, <2>2 DEF TypeOK
    <2>7. \A r \in Submitter : Waiting(r) =>
            /\ fate'[sender[r]] = "sending"
            /\ \A q \in Submitter : sender[q] = sender[r] => q = r
      BY <2>3, <2>4 DEF OneHolder
    <2>8. \A i \in DOMAIN queue :
             /\ fate'[queue[i]] = "queued"
             /\ \A j \in DOMAIN queue : queue[j] = queue[i] => j = i
             /\ \A h \in Goroutine : job'[h] # queue[i]
      BY <2>3, <2>4, <2>5, <2>6 DEF OneHolder
    <2>9. \A h \in Goroutine : Busy(h)' =>
             /\ \/ pc'[h] = "received" /\ fate'[job'[h]] = "queued"
                \/ pc'[h] \in {"executing", "retrying"} /\ fate'[job'[h]] = "running"
             /\ \A k \in Goroutine : job'[k] = job'[h] => k = h
      BY <2>2, <2>3, <2>4, <2>5, <2>6 DEF OneHolder
    <2>10. \A h \in Goroutine :
             pc'[h] \in {"received", "executing", "retrying"} => Busy(h)'
      BY <2>5, <2>6 DEF OneHolder
    <2> QED
      BY <1>0, <2>1, <2>7, <2>8, <2>9, <2>10 DEF OneHolder
  <1> QED
    BY <1>1, <1>2, <1>3 DEF PoolLoopStep

LEMMA PoolStepKeepsOneHolder == PoolInv /\ OneHolder /\ [Next]_poolVars => OneHolder'
  <1>1. ASSUME PoolInv, OneHolder, Next PROVE OneHolder'
    BY <1>1, RunKeepsOneHolder, SubmitKeepsOneHolder, GoroutineKeepsOneHolder DEF Next
  <1>2. ASSUME OneHolder, UNCHANGED poolVars PROVE OneHolder'
    BY <1>2 DEF poolVars, OneHolder, Waiting, Busy
  <1> QED
    BY <1>1, <1>2

(* At any moment a task is with one caller of Submit, once in the queue, or *)
(* with one goroutine.                                                      *)
THEOREM SpecOneHolder == Spec => []OneHolder
  BY InitOneHolder, PoolStepKeepsOneHolder, SpecPoolInv, PTL DEF Spec

(* A step takes a task one step along its course, if it changes its fate.   *)
LEMMA PoolStepAdvancesFates ==
  ASSUME PoolInv, OneHolder, [Next]_poolVars, NEW t \in Task, fate'[t] # fate[t]
  PROVE  <<fate[t], fate'[t]>> \in Course
  <1> USE DEF PoolInv
  <1>1. ~(Cancel \/ RunStep \/ TakeSpace \/ UNCHANGED poolVars)
    BY DEF Cancel, RunStep, Start, StopAccepting, CloseQueue, Finish, GraceExpires,
           ForceGraceExpires, LateFinish, TakeSpace, poolVars
  <1>2. ASSUME NEW s \in Submitter, SubmitSend(s)
        PROVE  fate[t] = "sending" /\ fate'[t] = "queued"
    BY <1>2 DEF SubmitSend, OneHolder, Waiting, TypeOK
  <1>3. ASSUME NEW s \in Submitter, SubmitAbort(s)
        PROVE  fate[t] = "sending" /\ fate'[t] = "refused"
    BY <1>3 DEF SubmitAbort, OneHolder, Waiting, TypeOK
  <1>4. ASSUME NEW s \in Submitter, NEW u \in Task, SubmitEnter(s, u)
        PROVE  fate[t] = "outside" /\ fate'[t] \in {"sending", "refused"}
    BY <1>4 DEF SubmitEnter, TypeOK
  <1>5. ASSUME NEW g \in Goroutine, PoolLoopStep(g) \/ HandlerReturns(g)
        PROVE  \/ fate[t] = "queued" /\ fate'[t] \in {"running", "abandoned"}
               \/ fate[t] = "running" /\ fate'[t] = "settled"
    <2>1. CASE Receive(g) \/ Exit(g)
      BY <2>1 DEF Receive, Exit
    <2>2. CASE Begin(g)
      <3>1. t = job[g] /\ fate'[t] \in {"running", "abandoned"}
        BY <2>2 DEF Begin, TypeOK
      <3>2. pc[g] = "received" /\ fate[job[g]] = "queued"
        BY <2>2 DEF Begin, OneHolder
      <3> QED
        BY <3>1, <3>2
    <2>3. CASE RetryReturns(g) \/ HandlerReturns(g)
      <3>1. t = job[g] /\ fate'[t] = "settled" /\ pc[g] \in {"executing", "retrying"}
        BY <2>3 DEF HandlerReturns, ExecuteReturns, RetryReturns, TypeOK
      <3>2. fate[job[g]] = "running"
        BY <3>1 DEF OneHolder
      <3> QED
        BY <3>1, <3>2
    <2> QED
      BY <1>5, <2>1, <2>2, <2>3 DEF PoolLoopStep
  <1> QED
    BY <1>1, <1>2, <1>3, <1>4, <1>5 DEF Next, Course

(* A task is queued once and run once; what was refused, settled or         *)
(* abandoned stays so.                                                      *)
THEOREM SpecFatesAdvance == Spec => FatesAdvance
  <1>1. PoolInv /\ OneHolder /\ [Next]_poolVars
        => [\A t \in Task : fate'[t] # fate[t] => <<fate[t], fate'[t]>> \in Course]_poolVars
    BY PoolStepAdvancesFates
  <1> QED
    BY <1>1, SpecPoolInv, SpecOneHolder, PTL DEF Spec, FatesAdvance
=============================================================================
