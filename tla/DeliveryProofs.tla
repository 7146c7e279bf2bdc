--------------------------- MODULE DeliveryProofs ---------------------------
(***************************************************************************)
(* Theorems about Delivery, for every set of events, consumers and         *)
(* workers, every subscription table and every positive attempt budget.    *)
(***************************************************************************)
EXTENDS Delivery, TLAPS

USE SubscribersAssumption, MaxAttemptsAssumption, BatchAssumption

(* What the row updates of the model do to the columns of a row. *)
LEMMA MarkProcessingRow ==
  ASSUME NEW r \in Row, NEW t \in Nat, r.attempts < MaxAttempts
  PROVE  /\ MarkProcessing(r, t) \in Row
         /\ MarkProcessing(r, t).status = "processing"
         /\ MarkProcessing(r, t).token = t
  BY DEF MarkProcessing, Row, Status, Terminal

LEMMA InsertPendingRow ==
  /\ InsertPending \in Row
  /\ InsertPending.status = "pending"
  /\ InsertPending.attempts = 0
  BY DEF InsertPending, Row, Status, Terminal

(* Retry, rejection and recovery: pending with attempts left, or failed. *)
LEMMA MarkExpiredRow ==
  ASSUME NEW r \in Row
  PROVE  /\ MarkExpired(r) \in Row
         /\ \/ MarkExpired(r).status = "pending" /\ r.attempts < MaxAttempts
            \/ MarkExpired(r).status = "failed" /\ r.attempts = MaxAttempts
         /\ MarkExpired(r).attempts = r.attempts
  BY DEF MarkExpired, MarkFailed, Release, Row, Status, Terminal

LEMMA RetryOrFailRow ==
  ASSUME NEW r \in Row, NEW permanent \in BOOLEAN
  PROVE  /\ RetryOrFail(r, permanent) \in Row
         /\ \/ RetryOrFail(r, permanent).status = "pending" /\ r.attempts < MaxAttempts
            \/ /\ RetryOrFail(r, permanent).status = "failed"
               /\ permanent \/ r.attempts = MaxAttempts
         /\ RetryOrFail(r, permanent).attempts = r.attempts
  BY DEF RetryOrFail, MarkFailed, MarkPending, Release, Row, Status, Terminal

LEMMA MarkTerminalRow ==
  ASSUME NEW r \in Row, NEW s \in {"succeeded", "superseded"}
  PROVE  /\ MarkTerminal(r, s) \in Row
         /\ MarkTerminal(r, s).status = s
  BY DEF MarkTerminal, Release, Row, Status, Terminal

---------------------------------------------------------------------------------
LEMMA InitIInv == Init => IInv
  <1> SUFFICES ASSUME Init PROVE IInv
    OBVIOUS
  <1>1. NoRow \in Row /\ NoRow.status = "absent"
    BY DEF NoRow, Row, Status, Terminal
  <1>2. TypeOK
    BY <1>1 DEF Init, TypeOK
  <1>3. BusyHasTask /\ LockIsExclusive /\ ExecutorOwnsClaim
    BY DEF Init, BusyHasTask, LockIsExclusive, ExecutorOwnsClaim
  <1>4. HandledOnce /\ PendingIsClaimable
    BY <1>1 DEF Init, HandledOnce, PendingIsClaimable
  <1>5. FanOutIsAtomic
    BY <1>1 DEF Init, FanOutIsAtomic, Delivery
  <1>6. QED
    BY <1>2, <1>3, <1>4, <1>5 DEF IInv

(* Actions that leave every row and every worker alone. *)
LEMMA InsertOutboxIInv ==
  ASSUME NEW e \in Event, IInv, InsertOutbox(e)
  PROVE  IInv'
  <1>1. TypeOK'
    BY DEF IInv, TypeOK, InsertOutbox
  <1>2. (BusyHasTask /\ LockIsExclusive /\ ExecutorOwnsClaim)'
    BY DEF IInv, InsertOutbox, BusyHasTask, LockIsExclusive, ExecutorOwnsClaim
  <1>3. (HandledOnce /\ PendingIsClaimable)'
    BY DEF IInv, InsertOutbox, HandledOnce, PendingIsClaimable
  <1>4. FanOutIsAtomic'
    BY DEF IInv, TypeOK, InsertOutbox, FanOutIsAtomic, Delivery
  <1>5. QED
    BY <1>1, <1>2, <1>3, <1>4 DEF IInv

LEMMA DropIInv ==
  ASSUME NEW c \in held, IInv, Drop(c)
  PROVE  IInv'
  BY DEF IInv, Drop, TypeOK, BusyHasTask, LockIsExclusive, HandledOnce,
         ExecutorOwnsClaim, PendingIsClaimable, FanOutIsAtomic

(* Fan-out writes only rows that were absent, of events still pending. *)
LEMMA FanOutIInv ==
  ASSUME NEW S \in SUBSET Event, IInv, FanOut(S)
  PROVE  IInv'
  <1> USE DEF IInv
  <1>1. TypeOK'
    BY InsertPendingRow DEF TypeOK, FanOut, Delivery
  <1>2. ASSUME NEW d \in Delivery, row'[d] # row[d]
        PROVE  row[d].status = "absent" /\ row'[d] = InsertPending
    BY <1>2 DEF FanOut, FanOutIsAtomic, TypeOK
  <1>3. (BusyHasTask /\ LockIsExclusive)'
    BY DEF FanOut, BusyHasTask, LockIsExclusive
  <1>4. HandledOnce'
    BY <1>2, InsertPendingRow DEF FanOut, HandledOnce
  <1>5. ExecutorOwnsClaim'
    BY <1>2 DEF FanOut, BusyHasTask, ClaimedTask, ExecutorOwnsClaim
  <1>6. PendingIsClaimable'
    BY <1>2, InsertPendingRow DEF PendingIsClaimable
  <1>7. FanOutIsAtomic'
    <2> SUFFICES ASSUME NEW d \in Delivery
                 PROVE  row'[d].status # "absent" <=>
                          outbox'[d[1]] = "dispatched" /\ d[2] \in Subscribers[d[1]]
      BY DEF FanOutIsAtomic
    <2>1. d[1] \in Event
      BY DEF Delivery
    <2>2. CASE d[1] \notin S
      BY <2>1, <2>2 DEF FanOut, FanOutIsAtomic
    <2>3. CASE d[1] \in S
      BY <2>1, <2>3, InsertPendingRow DEF FanOut, FanOutIsAtomic
    <2>4. QED
      BY <2>2, <2>3
  <1>8. QED
    BY <1>1, <1>3, <1>4, <1>5, <1>6, <1>7

(* A claim turns pending rows, which no handler runs on, into processing. *)
LEMMA ClaimIInv ==
  ASSUME NEW S \in SUBSET Delivery, NEW ok \in BOOLEAN, IInv, Claim(S, ok)
  PROVE  IInv'
  <1> USE DEF IInv
  <1>1. ASSUME NEW d \in S
        PROVE  /\ row[d].status = "pending"
               /\ row'[d] \in Row
               /\ row'[d].status = "processing"
    <2>1. row[d] \in Row /\ row[d].attempts < MaxAttempts /\ minted[d] + 1 \in Nat
      BY DEF TypeOK, Claim, Ready
    <2>2. row'[d] = MarkProcessing(row[d], minted[d] + 1)
      BY DEF Claim
    <2>3. QED
      BY <2>1, <2>2, MarkProcessingRow DEF Claim, Ready
  <1>2. ASSUME NEW d \in Delivery, d \notin S
        PROVE  row'[d] = row[d]
    BY <1>2 DEF Claim
  <1>3. TypeOK'
    <2>1. row' \in [Delivery -> Row]
      BY <1>1, <1>2 DEF Claim, TypeOK
    <2>2. held' \subseteq ClaimedTask
      BY DEF Claim, TypeOK, ClaimedTask
    <2>3. minted' \in [Delivery -> Nat]
      BY DEF Claim, TypeOK
    <2>4. QED
      BY <2>1, <2>2, <2>3 DEF Claim, TypeOK
  <1>4. (BusyHasTask /\ LockIsExclusive)'
    BY DEF Claim, BusyHasTask, LockIsExclusive
  <1>5. HandledOnce'
    BY <1>1, <1>2 DEF Claim, HandledOnce
  <1>6. ExecutorOwnsClaim'
    BY <1>1, <1>2 DEF Claim, BusyHasTask, ClaimedTask, ExecutorOwnsClaim
  <1>7. PendingIsClaimable'
    BY <1>1, <1>2 DEF PendingIsClaimable
  <1>8. FanOutIsAtomic'
    BY <1>1, <1>2 DEF Claim, FanOutIsAtomic
  <1>9. QED
    BY <1>3, <1>4, <1>5, <1>6, <1>7, <1>8

LEMMA TakeIInv ==
  ASSUME NEW w \in Worker, NEW c \in held, IInv, Take(w, c)
  PROVE  IInv'
  <1> USE DEF IInv
  <1>1. TypeOK'
    BY DEF Take, TypeOK
  <1>2. (BusyHasTask /\ LockIsExclusive /\ ExecutorOwnsClaim)'
    BY DEF Take, TypeOK, BusyHasTask, LockIsExclusive, ExecutorOwnsClaim
  <1>3. (HandledOnce /\ PendingIsClaimable /\ FanOutIsAtomic)'
    BY DEF Take, HandledOnce, PendingIsClaimable, FanOutIsAtomic
  <1>4. QED
    BY <1>1, <1>2, <1>3

(* The row lock is taken only when free, and only under a current claim. *)
LEMMA ExecuteBeginIInv ==
  ASSUME NEW w \in Worker, IInv, ExecuteBegin(w)
  PROVE  IInv'
  <1> USE DEF IInv
  <1>1. TypeOK'
    BY DEF ExecuteBegin, Finish, TypeOK
  <1>2. BusyHasTask'
    BY DEF ExecuteBegin, Finish, TypeOK, BusyHasTask
  <1>3. LockIsExclusive'
    BY DEF ExecuteBegin, Finish, TypeOK, Locked, LockIsExclusive
  <1>4. ExecutorOwnsClaim'
    BY DEF ExecuteBegin, Finish, TypeOK, ClaimedBy, ExecutorOwnsClaim
  <1>5. (HandledOnce /\ PendingIsClaimable /\ FanOutIsAtomic)'
    BY DEF ExecuteBegin, HandledOnce, PendingIsClaimable, FanOutIsAtomic
  <1>6. QED
    BY <1>1, <1>2, <1>3, <1>4, <1>5

(* A commit ends a delivery whose claim it still holds, and only then the   *)
(* handler's writes count.                                                  *)
LEMMA ExecuteCommitIInv ==
  ASSUME NEW w \in Worker, NEW s \in {"succeeded", "superseded"}, NEW ok \in BOOLEAN,
         IInv, ExecuteCommit(w, s, ok)
  PROVE  IInv'
  <1> USE DEF IInv
  <1> DEFINE k == task[w].key
  <1>1. /\ k \in Delivery
        /\ row[k] \in Row
        /\ row[k].status = "processing" /\ row[k].token = task[w].token
    BY DEF ExecuteCommit, TypeOK, BusyHasTask, ClaimedTask, ExecutorOwnsClaim
  <1>2. /\ row' = [row EXCEPT ![k] = MarkTerminal(@, s)]
        /\ handled' = [handled EXCEPT ![k] = @ + 1]
    BY <1>1 DEF ExecuteCommit, ClaimedBy
  <1>3. row'[k] \in Row /\ row'[k].status = s
    BY <1>1, <1>2, MarkTerminalRow DEF TypeOK
  <1>4. \A d \in Delivery : d # k => row'[d] = row[d] /\ handled'[d] = handled[d]
    BY <1>2 DEF TypeOK
  <1>5. TypeOK'
    <2>1. row' \in [Delivery -> Row]
      BY <1>1, <1>2, <1>3 DEF TypeOK
    <2>2. handled' \in [Delivery -> Nat]
      BY <1>1, <1>2 DEF TypeOK
    <2>3. QED
      BY <2>1, <2>2 DEF ExecuteCommit, Finish, TypeOK
  <1>6. (BusyHasTask /\ LockIsExclusive)'
    BY DEF ExecuteCommit, Finish, TypeOK, BusyHasTask, LockIsExclusive
  <1>7. HandledOnce'
    BY <1>1, <1>2, <1>3, <1>4 DEF HandledOnce, TypeOK
  <1>8. ExecutorOwnsClaim'
    <2>1. ASSUME NEW v \in Worker, pc'[v] = "handling"
          PROVE  pc[v] = "handling" /\ task'[v] = task[v] /\ task[v].key \in Delivery \ {k}
      BY <2>1 DEF ExecuteCommit, Finish, TypeOK, LockIsExclusive, BusyHasTask, ClaimedTask
    <2>2. QED
      BY <1>4, <2>1 DEF ExecutorOwnsClaim
  <1>9. PendingIsClaimable'
    BY <1>3, <1>4 DEF PendingIsClaimable
  <1>10. FanOutIsAtomic'
    BY <1>1, <1>3, <1>4 DEF ExecuteCommit, FanOutIsAtomic
  <1>11. QED
    BY <1>5, <1>6, <1>7, <1>8, <1>9, <1>10

LEMMA ExecuteFailIInv ==
  ASSUME NEW w \in Worker, NEW permanent \in BOOLEAN, IInv, ExecuteFail(w, permanent)
  PROVE  IInv'
  <1> USE DEF IInv
  <1>1. TypeOK'
    BY DEF ExecuteFail, TypeOK
  <1>2. (BusyHasTask /\ LockIsExclusive /\ ExecutorOwnsClaim)'
    BY DEF ExecuteFail, TypeOK, BusyHasTask, LockIsExclusive, ExecutorOwnsClaim
  <1>3. (HandledOnce /\ PendingIsClaimable /\ FanOutIsAtomic)'
    BY DEF ExecuteFail, HandledOnce, PendingIsClaimable, FanOutIsAtomic
  <1>4. QED
    BY <1>1, <1>2, <1>3

LEMMA CrashIInv ==
  ASSUME NEW w \in Worker, IInv, Crash(w)
  PROVE  IInv'
  <1> USE DEF IInv
  <1>1. TypeOK'
    BY DEF Crash, Finish, TypeOK
  <1>2. (BusyHasTask /\ LockIsExclusive /\ ExecutorOwnsClaim)'
    BY DEF Crash, Finish, TypeOK, BusyHasTask, LockIsExclusive, ExecutorOwnsClaim
  <1>3. (HandledOnce /\ PendingIsClaimable /\ FanOutIsAtomic)'
    BY DEF Crash, HandledOnce, PendingIsClaimable, FanOutIsAtomic
  <1>4. QED
    BY <1>1, <1>2, <1>3

(* What is left of IInv when a step changes rows that no handler runs on,   *)
(* from processing to pending or failed, and ends no handler.               *)
LEMMA ReleaseIInv ==
  ASSUME IInv, row' \in [Delivery -> Row],
         \A d \in Delivery : row'[d] # row[d] =>
            /\ row[d].status = "processing" /\ ~Locked(d)
            /\ \/ row'[d].status = "pending" /\ row'[d].attempts < MaxAttempts
               \/ row'[d].status = "failed",
         \A v \in Worker : pc'[v] = "handling" => pc[v] = "handling" /\ task'[v] = task[v],
         UNCHANGED <<outbox, handled>>
  PROVE  (HandledOnce /\ ExecutorOwnsClaim /\ PendingIsClaimable /\ FanOutIsAtomic)'
  <1> USE DEF IInv
  <1>1. HandledOnce'
    BY DEF HandledOnce
  <1>2. ExecutorOwnsClaim'
    BY DEF ExecutorOwnsClaim, Locked, BusyHasTask, ClaimedTask
  <1>3. PendingIsClaimable'
    BY DEF PendingIsClaimable
  <1>4. FanOutIsAtomic'
    BY DEF FanOutIsAtomic
  <1>5. QED
    BY <1>1, <1>2, <1>3, <1>4

LEMMA ScheduleRetryIInv ==
  ASSUME NEW w \in Worker, IInv, ScheduleRetry(w)
  PROVE  IInv'
  <1> USE DEF IInv
  <1> DEFINE k == task[w].key
             p == pc[w] = "reject"
  <1>1. k \in Delivery /\ row[k] \in Row
    BY DEF ScheduleRetry, TypeOK, BusyHasTask, ClaimedTask
  <1>2. \A d \in Delivery : row'[d] # row[d] =>
          d = k /\ row'[d] = RetryOrFail(row[d], p) /\ row[d].status = "processing"
    BY <1>1 DEF ScheduleRetry, TypeOK, ClaimedBy
  <1>3. /\ RetryOrFail(row[k], p) \in Row
        /\ \/ RetryOrFail(row[k], p).status = "pending" /\ row[k].attempts < MaxAttempts
           \/ RetryOrFail(row[k], p).status = "failed"
        /\ RetryOrFail(row[k], p).attempts = row[k].attempts
    BY <1>1, RetryOrFailRow
  <1>4. row' \in [Delivery -> Row]
    BY <1>1, <1>3 DEF ScheduleRetry, TypeOK
  <1>5. TypeOK'
    BY <1>4 DEF ScheduleRetry, Finish, TypeOK
  <1>6. (BusyHasTask /\ LockIsExclusive)'
    BY DEF ScheduleRetry, Finish, TypeOK, BusyHasTask, LockIsExclusive
  <1>7. \A v \in Worker : pc'[v] = "handling" => pc[v] = "handling" /\ task'[v] = task[v]
    BY DEF ScheduleRetry, Finish, TypeOK
  <1>8. (HandledOnce /\ ExecutorOwnsClaim /\ PendingIsClaimable /\ FanOutIsAtomic)'
    <2>1. ~Locked(k) /\ UNCHANGED <<outbox, handled>>
      BY DEF ScheduleRetry
    <2>2. QED
      BY <1>2, <1>3, <1>4, <1>7, <2>1, ReleaseIInv
  <1>9. QED
    BY <1>5, <1>6, <1>8

LEMMA RecoverExpiredIInv ==
  ASSUME NEW S \in SUBSET Delivery, IInv, RecoverExpired(S)
  PROVE  IInv'
  <1> USE DEF IInv
  <1>1. \A d \in Delivery : row'[d] # row[d] =>
          row'[d] = MarkExpired(row[d]) /\ row[d].status = "processing" /\ ~Locked(d)
    BY DEF RecoverExpired, Expired
  <1>2. \A d \in Delivery :
          /\ MarkExpired(row[d]) \in Row
          /\ \/ MarkExpired(row[d]).status = "pending" /\ row[d].attempts < MaxAttempts
             \/ MarkExpired(row[d]).status = "failed"
          /\ MarkExpired(row[d]).attempts = row[d].attempts
    BY MarkExpiredRow DEF TypeOK
  <1>3. row' \in [Delivery -> Row]
    BY <1>2 DEF RecoverExpired, TypeOK
  <1>4. (TypeOK /\ BusyHasTask /\ LockIsExclusive)'
    BY <1>3 DEF RecoverExpired, TypeOK, BusyHasTask, LockIsExclusive
  <1>5. (HandledOnce /\ ExecutorOwnsClaim /\ PendingIsClaimable /\ FanOutIsAtomic)'
    <2>1. UNCHANGED <<outbox, pc, task, handled>>
      BY DEF RecoverExpired
    <2>2. QED
      BY <1>1, <1>2, <1>3, <2>1, ReleaseIInv
  <1>6. QED
    BY <1>4, <1>5

(* The clock changes neither status, nor attempts, nor token of any row. *)
LEMMA ClockIInv ==
  ASSUME NEW d \in Delivery, IInv, LeaseExpires(d) \/ BecomesDue(d)
  PROVE  IInv'
  <1> USE DEF IInv
  <1>1. row' \in [Delivery -> Row]
    <2>1. row[d] \in Row
      BY DEF TypeOK
    <2>2. [row[d] EXCEPT !.lease = FALSE] \in Row /\ [row[d] EXCEPT !.due = TRUE] \in Row
      BY <2>1 DEF Row
    <2>3. QED
      BY <2>2 DEF LeaseExpires, BecomesDue, TypeOK
  <1>2. \A x \in Delivery : /\ row'[x].status = row[x].status
                            /\ row'[x].attempts = row[x].attempts
                            /\ row'[x].token = row[x].token
    BY DEF LeaseExpires, BecomesDue, TypeOK, Row
  <1>3. UNCHANGED <<outbox, held, pc, task, minted, handled>>
    BY DEF LeaseExpires, BecomesDue
  <1>4. (TypeOK /\ BusyHasTask /\ LockIsExclusive)'
    BY <1>1, <1>3 DEF TypeOK, BusyHasTask, LockIsExclusive
  <1>5. ExecutorOwnsClaim'
    BY <1>2, <1>3 DEF ExecutorOwnsClaim, BusyHasTask, ClaimedTask
  <1>6. (HandledOnce /\ PendingIsClaimable /\ FanOutIsAtomic)'
    BY <1>2, <1>3 DEF HandledOnce, PendingIsClaimable, FanOutIsAtomic
  <1>7. QED
    BY <1>4, <1>5, <1>6

LEMMA NextIInv == IInv /\ [Next]_vars => IInv'
  <1> SUFFICES ASSUME IInv, [Next]_vars PROVE IInv'
    OBVIOUS
  <1>1. CASE \E e \in Event : InsertOutbox(e)
    BY <1>1, InsertOutboxIInv
  <1>2. CASE Dispatcher
    BY <1>2, FanOutIInv DEF Dispatcher
  <1>3. CASE Scheduler
    BY <1>3, ClaimIInv DEF Scheduler
  <1>4. CASE Reclaimer
    BY <1>4, RecoverExpiredIInv DEF Reclaimer
  <1>5. CASE Clock
    BY <1>5, ClockIInv DEF Clock
  <1>6. ASSUME NEW w \in Worker, Execute(w)
        PROVE  IInv'
    BY <1>6, ExecuteBeginIInv, ExecuteCommitIInv, ExecuteFailIInv, ScheduleRetryIInv
       DEF Execute
  <1>7. CASE \E w \in Worker : Crash(w) \/ \E c \in held : Take(w, c)
    BY <1>7, CrashIInv, TakeIInv
  <1>8. CASE \E c \in held : Drop(c)
    BY <1>8, DropIInv
  <1>9. CASE UNCHANGED vars
    BY <1>9 DEF vars, IInv, TypeOK, BusyHasTask, LockIsExclusive, HandledOnce,
                ExecutorOwnsClaim, PendingIsClaimable, FanOutIsAtomic, Locked
  <1>10. QED
    BY <1>1, <1>2, <1>3, <1>4, <1>5, <1>6, <1>7, <1>8, <1>9 DEF Next

(* The inductive invariant holds of every execution of the tables' code. *)
THEOREM SpecIInv == Spec => []IInv
  BY InitIInv, NextIInv, PTL DEF Spec

(* Every column, program counter and in-memory task has its type. *)
THEOREM SpecTypeOK == Spec => []TypeOK
  <1>1. IInv => TypeOK
    BY DEF IInv
  <1>2. QED
    BY <1>1, SpecIInv, PTL

(* A handler's writes are committed once for a delivery that ends succeeded *)
(* or superseded, and never otherwise (task.go:76-127).                     *)
THEOREM SpecHandledOnce == Spec => []HandledOnce
  <1>1. IInv => HandledOnce
    BY DEF IInv
  <1>2. QED
    BY <1>1, SpecIInv, PTL

(* The worker whose handler runs holds the row's current claim, lease or    *)
(* no lease (task.go:80-89, 110).                                           *)
THEOREM SpecExecutorOwnsClaim == Spec => []ExecutorOwnsClaim
  <1>1. IInv => ExecutorOwnsClaim
    BY DEF IInv
  <1>2. QED
    BY <1>1, SpecIInv, PTL

(* No delivery is left pending with its attempts used up, out of reach of   *)
(* every scan (event_delivery_model.go:83-98, 165-180).                     *)
THEOREM SpecPendingIsClaimable == Spec => []PendingIsClaimable
  <1>1. IInv => PendingIsClaimable
    BY DEF IInv
  <1>2. QED
    BY <1>1, SpecIInv, PTL

(* Deliveries exist for all subscribers of a dispatched event, and for      *)
(* nothing else (dispatch.go:49-88).                                        *)
THEOREM SpecFanOutIsAtomic == Spec => []FanOutIsAtomic
  <1>1. IInv => FanOutIsAtomic
    BY DEF IInv
  <1>2. QED
    BY <1>1, SpecIInv, PTL

-----------------------------------------------------------------------------
(* The rows one step can change, and how: every action property and the     *)
(* refinement read a step through this table.                               *)
Inserted(d) == row[d].status = "absent" /\ row'[d] = InsertPending
Claimed(d) ==
  row[d].status = "pending" /\ row'[d] = MarkProcessing(row[d], minted[d] + 1)
Ticked(d) ==
  /\ row[d].status \in {"pending", "processing"}
  /\ row'[d].status = row[d].status /\ row'[d].token = row[d].token
  /\ row'[d].attempts = row[d].attempts
  /\ IF row[d].status = "processing" THEN row[d].lease /\ ~row'[d].lease
                                      ELSE ~row[d].due /\ row'[d].due
Recovered(d) == Expired(row[d]) /\ row'[d] = MarkExpired(row[d])
Confirmed(d, w) ==
  /\ pc[w] = "handling" /\ pc'[w] # "handling"
  /\ task[w] = [key |-> d, token |-> row[d].token]
  /\ row[d].status = "processing"
  /\ \E s \in {"succeeded", "superseded"} : row'[d] = MarkTerminal(row[d], s)
Retried(d, w) ==
  /\ pc[w] \in {"retry", "reject"} /\ pc'[w] = "idle"
  /\ task[w] = [key |-> d, token |-> row[d].token]
  /\ row[d].status = "processing"
  /\ row'[d] = RetryOrFail(row[d], pc[w] = "reject")

LEMMA RowStep ==
  ASSUME IInv, [Next]_vars, NEW d \in Delivery, row'[d] # row[d]
  PROVE  \/ Inserted(d) \/ Claimed(d) \/ Ticked(d) \/ Recovered(d)
         \/ \E w \in Worker : Confirmed(d, w) \/ Retried(d, w)
  <1> USE DEF IInv
  <1>1. ASSUME NEW S \in SUBSET Event, FanOut(S)
        PROVE  Inserted(d)
    BY <1>1 DEF FanOut, FanOutIsAtomic, Inserted, TypeOK
  <1>2. ASSUME NEW S \in SUBSET Delivery, NEW ok \in BOOLEAN, Claim(S, ok)
        PROVE  Claimed(d)
    BY <1>2 DEF Claim, Ready, Claimed
  <1>3. ASSUME NEW S \in SUBSET Delivery, RecoverExpired(S)
        PROVE  Recovered(d)
    BY <1>3 DEF RecoverExpired, Recovered
  <1>4. ASSUME NEW x \in Delivery, LeaseExpires(x) \/ BecomesDue(x)
        PROVE  Ticked(d)
    BY <1>4 DEF LeaseExpires, BecomesDue, Ticked, TypeOK, Row
  <1>5. ASSUME NEW w \in Worker, Execute(w)
        PROVE  Confirmed(d, w) \/ Retried(d, w)
    <2>1. ASSUME NEW s \in {"succeeded", "superseded"}, NEW ok \in BOOLEAN,
                 ExecuteCommit(w, s, ok)
          PROVE  Confirmed(d, w)
      <3>1. /\ task[w] \in ClaimedTask /\ d = task[w].key
            /\ ClaimedBy(row[d], task[w].token)
            /\ row'[d] = MarkTerminal(row[d], s)
        BY <2>1 DEF ExecuteCommit, TypeOK, BusyHasTask
      <3>2. task[w] = [key |-> d, token |-> row[d].token]
        BY <3>1 DEF ClaimedBy, ClaimedTask
      <3>3. pc[w] = "handling" /\ pc'[w] # "handling"
        BY <2>1 DEF ExecuteCommit, Finish, TypeOK
      <3>4. QED
        BY <3>1, <3>2, <3>3 DEF ClaimedBy, Confirmed
    <2>2. ASSUME ScheduleRetry(w)
          PROVE  Retried(d, w)
      <3>1. /\ task[w] \in ClaimedTask /\ d = task[w].key
            /\ ClaimedBy(row[d], task[w].token)
            /\ row'[d] = RetryOrFail(row[d], pc[w] = "reject")
        BY <2>2 DEF ScheduleRetry, TypeOK, BusyHasTask
      <3>2. task[w] = [key |-> d, token |-> row[d].token]
        BY <3>1 DEF ClaimedBy, ClaimedTask
      <3>3. pc[w] \in {"retry", "reject"} /\ pc'[w] = "idle"
        BY <2>2 DEF ScheduleRetry, Finish, TypeOK
      <3>4. QED
        BY <3>1, <3>2, <3>3 DEF ClaimedBy, Retried
    <2>3. row' = row \/ (\E s \in {"succeeded", "superseded"}, ok \in BOOLEAN :
                             ExecuteCommit(w, s, ok)) \/ ScheduleRetry(w)
      BY <1>5 DEF Execute, ExecuteBegin, ExecuteFail
    <2>4. QED
      BY <2>1, <2>2, <2>3
  <1>6. row' = row \/ Dispatcher \/ Scheduler \/ Reclaimer \/ Clock
          \/ \E w \in Worker : Execute(w)
    BY DEF Next, vars, InsertOutbox, Crash, Take, Drop
  <1>7. QED
    BY <1>1, <1>2, <1>3, <1>4, <1>5, <1>6
       DEF Dispatcher, Scheduler, Reclaimer, Clock

(* succeeded, superseded and failed rows never change again. *)
THEOREM SpecTerminalIsFinal == Spec => TerminalIsFinal
  <1>1. IInv /\ [Next]_vars =>
          \A d \in Delivery : row[d].status \in Terminal => row'[d] = row[d]
    BY RowStep DEF Inserted, Claimed, Ticked, Recovered, Expired, Confirmed, Retried,
                   Terminal
  <1>2. QED
    BY <1>1, SpecIInv, PTL DEF Spec, TerminalIsFinal

(* A claim under a valid lease ends only by the step of the worker that     *)
(* executes it: a stale worker and the reclaimer cannot touch it.           *)
THEOREM SpecLeaseIsRespected == Spec => LeaseIsRespected
  <1>1. ASSUME IInv, [Next]_vars, NEW d \in Delivery,
               row[d].status = "processing", row[d].lease, row'[d].token # row[d].token
        PROVE  \E w \in Worker :
                 /\ task[w] = [key |-> d, token |-> row[d].token]
                 /\ pc[w] \in {"handling", "retry", "reject"}
                 /\ pc'[w] # pc[w]
    <2>1. \E w \in Worker : Confirmed(d, w) \/ Retried(d, w)
      BY <1>1, RowStep DEF Inserted, Claimed, Ticked, Recovered, Expired
    <2>2. QED
      BY <2>1 DEF Confirmed, Retried
  <1>2. IInv /\ [Next]_vars =>
          \A d \in Delivery :
            row[d].status = "processing" /\ row[d].lease /\ row'[d].token # row[d].token
            => \E w \in Worker :
                 /\ task[w] = [key |-> d, token |-> row[d].token]
                 /\ pc[w] \in {"handling", "retry", "reject"}
                 /\ pc'[w] # pc[w]
    BY <1>1
  <1>3. QED
    BY <1>2, SpecIInv, PTL DEF Spec, LeaseIsRespected

(* A delivery fails only with its attempts used up, or because the          *)
(* execution of its current claim failed for good.                          *)
THEOREM SpecFailsOnlyWhenSpent == Spec => FailsOnlyWhenSpent
  <1>1. ASSUME IInv, [Next]_vars, NEW d \in Delivery,
               row'[d].status = "failed", row[d].status # "failed"
        PROVE  \/ row[d].attempts = MaxAttempts
               \/ \E w \in Worker : /\ pc[w] = "reject"
                                    /\ task[w] = [key |-> d, token |-> row[d].token]
    <2>1. row[d] \in Row /\ minted[d] + 1 \in Nat
      BY <1>1 DEF IInv, TypeOK
    <2>2. CASE Inserted(d) \/ Claimed(d) \/ Ticked(d)
      BY <1>1, <2>2, InsertPendingRow DEF Inserted, Claimed, Ticked, MarkProcessing
    <2>3. CASE Recovered(d)
      BY <1>1, <2>1, <2>3, MarkExpiredRow DEF Recovered
    <2>4. ASSUME NEW w \in Worker, Confirmed(d, w)
          PROVE  FALSE
      BY <1>1, <2>1, <2>4, MarkTerminalRow DEF Confirmed
    <2>5. ASSUME NEW w \in Worker, Retried(d, w)
          PROVE  row[d].attempts = MaxAttempts \/ pc[w] = "reject"
      <3> DEFINE p == pc[w] = "reject"
      <3>1. p \in BOOLEAN /\ row'[d] = RetryOrFail(row[d], p)
        BY <2>5 DEF Retried
      <3>2. RetryOrFail(row[d], p).status = "failed" => p \/ row[d].attempts = MaxAttempts
        BY <2>1, <3>1, RetryOrFailRow
      <3>3. QED
        BY <1>1, <3>1, <3>2
    <2>6. QED
      BY <1>1, <2>2, <2>3, <2>4, <2>5, RowStep DEF Retried
  <1>2. IInv /\ [Next]_vars =>
          \A d \in Delivery :
            row'[d].status = "failed" /\ row[d].status # "failed"
            => \/ row[d].attempts = MaxAttempts
               \/ \E w \in Worker : /\ pc[w] = "reject"
                                    /\ task[w] = [key |-> d, token |-> row[d].token]
    BY <1>1
  <1>3. QED
    BY <1>2, SpecIInv, PTL DEF Spec, FailsOnlyWhenSpent

-----------------------------------------------------------------------------
(* A row's way to its end. *)

LEMMA ProgressOf ==
  ASSUME NEW r \in Row
  PROVE  /\ r.attempts \in Nat /\ r.attempts <= MaxAttempts
         /\ r.status = "absent" => Progress(r) = 0
         /\ r.status = "processing" /\ r.lease => Progress(r) = 4 * r.attempts
         /\ r.status = "processing" /\ ~r.lease => Progress(r) = 4 * r.attempts + 1
         /\ r.status = "pending" /\ ~r.due => Progress(r) = 4 * r.attempts + 2
         /\ r.status = "pending" /\ r.due => Progress(r) = 4 * r.attempts + 3
         /\ r.status \in Terminal => Progress(r) = 4 * MaxAttempts + 4
  BY DEF Progress, Row, Status, Terminal

(* Claims raise the attempts, and everything else moves a row on within its *)
(* attempt: no row comes back to where it was.                              *)
THEOREM SpecRowsAdvance == Spec => RowsAdvance
  <1>1. ASSUME IInv, IInv', [Next]_vars, NEW d \in Delivery, row'[d] # row[d]
        PROVE  Progress(row[d]) < Progress(row'[d])
    <2> DEFINE r == row[d]
               s == row'[d]
    <2> SUFFICES Progress(r) < Progress(s)
      OBVIOUS
    <2>1. r \in Row /\ s \in Row /\ minted[d] + 1 \in Nat
      BY <1>1 DEF IInv, TypeOK
    <2>2. r.status = "pending" => r.attempts < MaxAttempts
      BY <1>1 DEF IInv, PendingIsClaimable
    <2>3. CASE Inserted(d)
      <3>1. s.status = "pending" /\ s.due /\ s.attempts = 0 /\ r.status = "absent"
        BY <2>3 DEF Inserted, InsertPending
      <3> HIDE DEF r, s
      <3> QED
        BY <2>1, <3>1, ProgressOf
    <2>4. CASE Claimed(d)
      <3>1. s.status = "processing" /\ s.lease /\ s.attempts = r.attempts + 1 /\ r.status = "pending"
        BY <2>4 DEF Claimed, MarkProcessing
      <3> HIDE DEF r, s
      <3> QED
        BY <2>1, <3>1, ProgressOf
    <2>5. CASE Ticked(d)
      <3>1. /\ r.status \in {"pending", "processing"} /\ s.status = r.status
            /\ s.attempts = r.attempts
            /\ IF r.status = "processing" THEN r.lease /\ ~s.lease ELSE ~r.due /\ s.due
        BY <2>5 DEF Ticked
      <3> HIDE DEF r, s
      <3> QED
        BY <2>1, <3>1, ProgressOf
    <2>6. ASSUME r.status = "processing", s.status \in Terminal
          PROVE  Progress(r) < Progress(s)
      <3> HIDE DEF r, s
      <3> QED
        BY <2>1, <2>6, ProgressOf
    <2>7. ASSUME r.status = "processing", s.status = "pending", s.attempts = r.attempts
          PROVE  Progress(r) < Progress(s)
      <3> HIDE DEF r, s
      <3> QED
        BY <2>1, <2>7, ProgressOf
    <2>8. CASE Recovered(d)
      BY <2>1, <2>6, <2>7, <2>8, MarkExpiredRow DEF Recovered, Expired, Terminal
    <2>9. ASSUME NEW w \in Worker, Confirmed(d, w) PROVE Progress(r) < Progress(s)
      BY <2>1, <2>6, <2>9, MarkTerminalRow DEF Confirmed, Terminal
    <2>10. ASSUME NEW w \in Worker, Retried(d, w) PROVE Progress(r) < Progress(s)
      <3> DEFINE x == pc[w] = "reject"
      <3>1. x \in BOOLEAN /\ s = RetryOrFail(r, x)
        BY <2>10 DEF Retried
      <3> HIDE DEF x
      <3>2. s.status \in {"pending", "failed"} /\ s.attempts = r.attempts
        BY <2>1, <3>1, RetryOrFailRow
      <3> QED
        BY <2>6, <2>7, <2>10, <3>2 DEF Retried, Terminal
    <2> QED
      BY <1>1, <2>3, <2>4, <2>5, <2>8, <2>9, <2>10, RowStep
  <1>2. IInv /\ IInv' /\ [Next]_vars =>
          \A d \in Delivery : row'[d] # row[d] => Progress(row[d]) < Progress(row'[d])
    BY <1>1
  <1>3. QED
    BY <1>2, SpecIInv, PTL DEF Spec, RowsAdvance

-----------------------------------------------------------------------------
(* Where a claim is, and how many there are. *)

ClaimInv == ClaimsAreCounted /\ ClaimsAreUnique

(* No task is handed over: workers keep theirs or lose it. *)
Settling ==
  /\ held' \subseteq held
  /\ \A w \in Worker : pc'[w] # "idle" => pc[w] # "idle" /\ task'[w] = task[w]
(* A row keeps its attempts, and its token or none. *)
Kept(r, s) == s.attempts = r.attempts /\ s.token \in {0, r.token}

LEMMA ReleaseKeeps ==
  ASSUME NEW r \in Row
  PROVE  /\ Kept(r, MarkExpired(r)) /\ MarkExpired(r).status # "absent"
         /\ \A s \in {"succeeded", "superseded"} :
              Kept(r, MarkTerminal(r, s)) /\ MarkTerminal(r, s).status # "absent"
         /\ \A x \in BOOLEAN : Kept(r, RetryOrFail(r, x)) /\ RetryOrFail(r, x).status # "absent"
  BY DEF Kept, MarkExpired, MarkTerminal, RetryOrFail, MarkFailed, MarkPending, Release

(* Only claims count attempts and draw tokens. *)
LEMMA OthersKeep ==
  ASSUME IInv, ClaimsAreCounted, [Next]_vars,
         ~(\E S \in SUBSET Delivery, ok \in BOOLEAN : Claim(S, ok)), NEW d \in Delivery
  PROVE  /\ minted' = minted /\ Kept(row[d], row'[d])
         /\ row'[d].status = "absent" => row'[d].attempts = 0
  <1> USE DEF IInv
  <1>1. row[d] \in Row /\ (row[d].status = "absent" => row[d].attempts = 0)
    BY DEF TypeOK, ClaimsAreCounted
  <1>2. CASE row' = row /\ minted' = minted
    BY <1>1, <1>2 DEF Kept
  <1>3. ASSUME NEW S \in SUBSET Event, FanOut(S)
        PROVE  /\ minted' = minted /\ Kept(row[d], row'[d])
               /\ row'[d].status = "absent" => row'[d].attempts = 0
    <2>1. minted' = minted /\ row'[d] \in {row[d], InsertPending}
      BY <1>3 DEF FanOut
    <2>2. row'[d] # row[d] => row[d].status = "absent"
      BY <1>3 DEF FanOut, FanOutIsAtomic, TypeOK
    <2> QED
      BY <1>1, <2>1, <2>2 DEF Kept, InsertPending
  <1>4. ASSUME NEW S \in SUBSET Delivery, RecoverExpired(S)
        PROVE  /\ minted' = minted /\ Kept(row[d], row'[d])
               /\ row'[d].status = "absent" => row'[d].attempts = 0
    <2>1. minted' = minted /\ row'[d] \in {row[d], MarkExpired(row[d])}
      BY <1>4 DEF RecoverExpired
    <2> QED
      BY <1>1, <2>1, ReleaseKeeps DEF Kept
  <1>5. ASSUME NEW x \in Delivery, LeaseExpires(x) \/ BecomesDue(x)
        PROVE  /\ minted' = minted /\ Kept(row[d], row'[d])
               /\ row'[d].status = "absent" => row'[d].attempts = 0
    <2>1. /\ minted' = minted
          /\ row'[d] \in {row[d], [row[d] EXCEPT !.lease = FALSE], [row[d] EXCEPT !.due = TRUE]}
      BY <1>5 DEF LeaseExpires, BecomesDue, TypeOK
    <2> QED
      BY <1>1, <2>1 DEF Kept, Row
  <1>6. ASSUME NEW w \in Worker, NEW s \in {"succeeded", "superseded"}, NEW ok \in BOOLEAN,
               ExecuteCommit(w, s, ok)
        PROVE  /\ minted' = minted /\ Kept(row[d], row'[d])
               /\ row'[d].status = "absent" => row'[d].attempts = 0
    <2>1. minted' = minted /\ row'[d] \in {row[d], MarkTerminal(row[d], s)}
      BY <1>6 DEF ExecuteCommit, TypeOK
    <2> QED
      BY <1>1, <2>1, ReleaseKeeps DEF Kept
  <1>7. ASSUME NEW w \in Worker, ScheduleRetry(w)
        PROVE  /\ minted' = minted /\ Kept(row[d], row'[d])
               /\ row'[d].status = "absent" => row'[d].attempts = 0
    <2> DEFINE x == pc[w] = "reject"
    <2>1. /\ minted' = minted /\ x \in BOOLEAN
          /\ row'[d] \in {row[d], RetryOrFail(row[d], x)}
      BY <1>7 DEF ScheduleRetry, TypeOK
    <2> HIDE DEF x
    <2> QED
      BY <1>1, <2>1, ReleaseKeeps DEF Kept
  <1>8. \/ row' = row /\ minted' = minted
        \/ Dispatcher \/ Reclaimer \/ Clock
        \/ \E w \in Worker : Execute(w)
    BY DEF Next, Scheduler, vars, InsertOutbox, Crash, Take, Drop
  <1>9. ASSUME NEW w \in Worker, Execute(w)
        PROVE  \/ row' = row /\ minted' = minted
               \/ \E s \in {"succeeded", "superseded"}, ok \in BOOLEAN : ExecuteCommit(w, s, ok)
               \/ ScheduleRetry(w)
    BY <1>9 DEF Execute, ExecuteBegin, ExecuteFail
  <1> QED
    BY <1>2, <1>3, <1>4, <1>5, <1>6, <1>7, <1>8, <1>9 DEF Dispatcher, Reclaimer, Clock

(* Only claims and Take hand tasks over. *)
LEMMA OthersSettle ==
  ASSUME IInv, [Next]_vars,
         ~(\E S \in SUBSET Delivery, ok \in BOOLEAN : Claim(S, ok)),
         ~(\E w \in Worker, c \in held : Take(w, c))
  PROVE  Settling
  <1>1. CASE UNCHANGED <<held, pc, task>>
    BY <1>1 DEF Settling
  <1>2. ASSUME NEW c \in held, Drop(c) PROVE Settling
    BY <1>2 DEF Drop, Settling
  <1>3. ASSUME NEW w \in Worker, Execute(w) \/ Crash(w) PROVE Settling
    <2>1. /\ held' = held /\ pc[w] # "idle"
          /\ \A v \in Worker : v # w => pc'[v] = pc[v] /\ task'[v] = task[v]
          /\ pc'[w] = "idle" \/ task'[w] = task[w]
      BY <1>3 DEF Execute, ExecuteBegin, ExecuteCommit, ExecuteFail, ScheduleRetry, Crash,
                  Finish, IInv, TypeOK
    <2> QED
      BY <2>1 DEF Settling
  <1>4. \/ UNCHANGED <<held, pc, task>>
        \/ \E c \in held : Drop(c)
        \/ \E w \in Worker : Execute(w) \/ Crash(w)
    BY DEF Next, Scheduler, Dispatcher, Reclaimer, Clock, FanOut, RecoverExpired,
           LeaseExpires, BecomesDue, InsertOutbox, vars
  <1> QED
    BY <1>1, <1>2, <1>3, <1>4

LEMMA ClaimStep ==
  ASSUME IInv, ClaimInv, NEW S \in SUBSET Delivery, NEW ok \in BOOLEAN, Claim(S, ok)
  PROVE  ClaimInv'
  <1> USE DEF IInv, ClaimInv
  <1>1. /\ \A d \in S : minted'[d] = minted[d] + 1
        /\ \A d \in Delivery \ S : minted'[d] = minted[d]
        /\ \A d \in Delivery : minted[d] \in Nat
    BY DEF Claim, TypeOK
  <1>2. /\ \A d \in S : /\ row'[d].attempts = row[d].attempts + 1
                        /\ row'[d].token = minted[d] + 1
                        /\ row'[d].status = "processing"
        /\ \A d \in Delivery \ S : row'[d] = row[d]
    BY DEF Claim, MarkProcessing
  <1>3. /\ \A c \in held' \ held : c.key \in S /\ c.token = minted[c.key] + 1
        /\ held \subseteq held'
        /\ \A c \in held : c.key \in Delivery /\ c.token \in Nat
        /\ pc' = pc /\ task' = task
    BY DEF Claim, TypeOK, ClaimedTask
  <1>4. \A w \in Worker : pc[w] # "idle" => task[w].key \in Delivery /\ task[w].token \in Nat
    BY DEF BusyHasTask, ClaimedTask
  <1>5. ClaimsAreCounted'
    <2>1. ASSUME NEW d \in Delivery
          PROVE  /\ minted'[d] = row'[d].attempts /\ row'[d].token <= minted'[d]
                 /\ row'[d].status = "absent" => row'[d].attempts = 0
      BY <1>1, <1>2 DEF ClaimsAreCounted
    <2>2. ASSUME NEW c \in held' PROVE c.token <= minted'[c.key]
      BY <1>1, <1>3 DEF ClaimsAreCounted
    <2>3. ASSUME NEW w \in Worker, pc'[w] # "idle" PROVE task'[w].token <= minted'[task'[w].key]
      BY <1>1, <1>3, <1>4, <2>3 DEF ClaimsAreCounted
    <2> QED
      BY <2>1, <2>2, <2>3 DEF ClaimsAreCounted
  <1>6. ClaimsAreUnique'
    <2>1. ASSUME NEW w \in Worker, pc[w] # "idle", task[w] \in held' PROVE FALSE
      <3>1. task[w] \in held' \ held
        BY <2>1 DEF ClaimsAreUnique
      <3>2. task[w].token = minted[task[w].key] + 1 /\ task[w].token <= minted[task[w].key]
        BY <1>3, <2>1, <3>1 DEF ClaimsAreCounted
      <3> QED
        BY <1>1, <1>4, <2>1, <3>2
    <2> QED
      BY <1>3, <2>1 DEF ClaimsAreUnique
  <1> QED
    BY <1>5, <1>6

LEMMA NextClaimInv == IInv /\ ClaimInv /\ [Next]_vars => ClaimInv'
  <1> SUFFICES ASSUME IInv, ClaimInv, [Next]_vars PROVE ClaimInv'
    OBVIOUS
  <1>1. CASE \E S \in SUBSET Delivery, ok \in BOOLEAN : Claim(S, ok)
    BY <1>1, ClaimStep
  <1>2. CASE ~(\E S \in SUBSET Delivery, ok \in BOOLEAN : Claim(S, ok))
    <2>1. /\ minted' = minted
          /\ \A d \in Delivery : /\ Kept(row[d], row'[d])
                                 /\ row'[d].status = "absent" => row'[d].attempts = 0
      <3>1. ASSUME NEW d \in Delivery
            PROVE  /\ minted' = minted /\ Kept(row[d], row'[d])
                   /\ row'[d].status = "absent" => row'[d].attempts = 0
        BY <1>2, OthersKeep DEF ClaimInv
      <3>2. CASE Delivery = {}
        <4>1. minted \in [Delivery -> Nat] /\ minted' \in [Delivery -> Nat]
          BY NextIInv DEF IInv, TypeOK
        <4> QED
          BY <3>1, <3>2, <4>1
      <3> QED
        BY <3>1, <3>2
    <2>2. \A d \in Delivery : minted[d] \in Nat /\ row[d].token \in Nat
      BY DEF IInv, TypeOK, Row
    <2>3. \A d \in Delivery :
            /\ minted'[d] = row'[d].attempts /\ row'[d].token <= minted'[d]
            /\ row'[d].status = "absent" => row'[d].attempts = 0
      <3> TAKE d \in Delivery
      <3>1. minted[d] = row[d].attempts /\ row[d].token <= minted[d]
        BY DEF ClaimInv, ClaimsAreCounted
      <3>0. Kept(row[d], row'[d])
        BY <2>1
      <3>2. row'[d].attempts = row[d].attempts /\ row'[d].token \in {0, row[d].token}
        BY <3>0 DEF Kept
      <3>3. row'[d].status = "absent" => row'[d].attempts = 0
        BY <2>1
      <3> QED
        BY <2>1, <2>2, <3>1, <3>2, <3>3
    <2>4. CASE \E w \in Worker, c \in held : Take(w, c)
      <3>1. PICK w \in Worker, c \in held : Take(w, c)
        BY <2>4
      <3>2. /\ held' = held \ {c} /\ pc[w] = "idle" /\ task'[w] = c
            /\ \A v \in Worker : v # w => pc'[v] = pc[v] /\ task'[v] = task[v]
        BY <3>1 DEF Take, IInv, TypeOK
      <3>3. ClaimsAreCounted'
        BY <2>1, <2>3, <3>2 DEF ClaimInv, ClaimsAreCounted
      <3>4. ClaimsAreUnique'
        BY <3>2 DEF ClaimInv, ClaimsAreUnique
      <3> QED
        BY <3>3, <3>4 DEF ClaimInv
    <2>5. CASE ~(\E w \in Worker, c \in held : Take(w, c))
      <3>1. Settling
        BY <1>2, <2>5, OthersSettle
      <3>2. ClaimsAreCounted'
        BY <2>1, <2>3, <3>1 DEF ClaimInv, ClaimsAreCounted, Settling
      <3>3. ClaimsAreUnique'
        BY <3>1 DEF ClaimInv, ClaimsAreUnique, Settling
      <3> QED
        BY <3>2, <3>3 DEF ClaimInv
    <2> QED
      BY <2>4, <2>5
  <1> QED
    BY <1>1, <1>2

(* Attempts, tokens and places of claims agree in every reachable state.    *)
THEOREM SpecClaimInv == Spec => []ClaimInv
  <1>1. Init => ClaimInv
    <2> SUFFICES ASSUME Init PROVE ClaimInv
      OBVIOUS
    <2>1. ClaimsAreCounted
      BY DEF Init, ClaimsAreCounted, NoRow
    <2>2. ClaimsAreUnique
      BY DEF Init, ClaimsAreUnique
    <2> QED
      BY <2>1, <2>2 DEF ClaimInv
  <1>2. QED
    BY <1>1, NextClaimInv, SpecIInv, PTL DEF Spec

(* No two workers ever have the same claim, and none has one that waits to  *)
(* be taken: what the pool is given, it is given once.                      *)
THEOREM SpecClaimsAreUnique == Spec => []ClaimsAreUnique
  <1>1. ClaimInv => ClaimsAreUnique
    BY DEF ClaimInv
  <1>2. QED
    BY <1>1, SpecClaimInv, PTL

(* A delivery is claimed MaxAttempts times at the most, and each worker's   *)
(* token is one of those claims: executions are bounded by the budget even  *)
(* if every one of them is lost.                                            *)
THEOREM SpecClaimsAreBounded ==
  Spec => []((\A d \in Delivery : minted[d] <= MaxAttempts)
             /\ \A w \in Worker : pc[w] # "idle" => task[w].token <= MaxAttempts)
  <1> DEFINE Bounded == /\ \A d \in Delivery : minted[d] <= MaxAttempts
                        /\ \A w \in Worker : pc[w] # "idle" => task[w].token <= MaxAttempts
  <1>1. IInv /\ ClaimInv => Bounded
    <2> SUFFICES ASSUME IInv, ClaimInv PROVE Bounded
      OBVIOUS
    <2>1. \A d \in Delivery : minted[d] \in Nat /\ minted[d] <= MaxAttempts
      BY DEF ClaimInv, ClaimsAreCounted, IInv, TypeOK, Row
    <2>2. ASSUME NEW w \in Worker, pc[w] # "idle" PROVE task[w].token <= MaxAttempts
      <3>1. task[w].key \in Delivery /\ task[w].token \in Nat
        BY <2>2 DEF IInv, BusyHasTask, ClaimedTask
      <3>2. task[w].token <= minted[task[w].key]
        BY <2>2 DEF ClaimInv, ClaimsAreCounted
      <3> QED
        BY <2>1, <3>1, <3>2
    <2> QED
      BY <2>1, <2>2
  <1>2. QED
    BY <1>1, SpecIInv, SpecClaimInv, PTL

-----------------------------------------------------------------------------
(* Refinement: the tables implement EventHandling. *)

LEMMA SettlementOf ==
  /\ \A r \in Row : Settlement(r) \in {"none", "owed", "handled", "abandoned"}
  /\ \A r \in Row : Settlement(r) = "none" <=> r.status = "absent"
  /\ \A r \in Row : Settlement(r) = "owed" <=> r.status \in {"pending", "processing"}
  /\ \A r \in Row : Settlement(r) = "handled" <=> r.status \in {"succeeded", "superseded"}
  /\ \A r \in Row : Settlement(r) = "abandoned" <=> r.status = "failed"
  BY DEF Settlement, Row, Status, Terminal

LEMMA InitRefines == Init => Handling!Init
  <1>1. NoRow \in Row /\ NoRow.status = "absent"
    BY DEF NoRow, Row, Status, Terminal
  <1>2. QED
    BY <1>1, SettlementOf DEF Init, Handling!Init, Handling!Delivery, Delivery

(* A step that only moves deliveries within "owed", or from "owed" to       *)
(* "abandoned", is an Abandon step (of nothing, if it moves none).          *)
LEMMA AbandonRefines ==
  ASSUME IInv, row' \in [Delivery -> Row], handled' = handled,
         \A d \in Delivery : row'[d] # row[d] =>
            /\ row[d].status \in {"pending", "processing"}
            /\ row'[d].status \in {"pending", "processing", "failed"}
  PROVE  Handling!Next
  <1> DEFINE state == [d \in Delivery |-> Settlement(row[d])]
             D == {d \in Delivery : row'[d].status = "failed" /\ row[d].status # "failed"}
  <1>1. row \in [Delivery -> Row]
    BY DEF IInv, TypeOK
  <1>2. \A d \in D : state[d] = "owed"
    BY <1>1, SettlementOf DEF Row
  <1>3. ASSUME NEW d \in Delivery
        PROVE  Settlement(row'[d]) = IF d \in D THEN "abandoned" ELSE state[d]
    <2>1. CASE d \in D
      BY <2>1, SettlementOf
    <2>2. CASE d \notin D /\ row'[d].status = "failed"
      BY <1>1, <2>2, SettlementOf
    <2>3. CASE d \notin D /\ row'[d].status # "failed"
      BY <1>1, <2>3, SettlementOf
    <2>4. QED
      BY <2>1, <2>2, <2>3
  <1>4. Handling!Abandon(D)
    BY <1>2, <1>3 DEF Handling!Abandon, Handling!Delivery, Delivery
  <1>5. D \in SUBSET Handling!Delivery
    BY DEF Handling!Delivery, Delivery
  <1>6. QED
    BY <1>4, <1>5 DEF Handling!Next

LEMMA FanOutRefines ==
  ASSUME IInv, IInv', NEW S \in SUBSET Event, FanOut(S)
  PROVE  Handling!Next
  <1> DEFINE state == [d \in Delivery |-> Settlement(row[d])]
  <1>1. row \in [Delivery -> Row] /\ row' \in [Delivery -> Row]
    BY DEF IInv, TypeOK
  <1>2. ASSUME NEW d \in Delivery, d[1] \in S
        PROVE  state[d] = "none"
    BY <1>1, <1>2, SettlementOf DEF IInv, FanOutIsAtomic, FanOut
  <1>3. ASSUME NEW d \in Delivery
        PROVE  Settlement(row'[d]) =
                 IF d[1] \in S /\ Handling!Addressed(d) THEN "owed" ELSE state[d]
    <2>1. CASE d[1] \in S /\ Handling!Addressed(d)
      BY <1>1, <2>1, SettlementOf, InsertPendingRow DEF FanOut, Handling!Addressed
    <2>2. CASE ~(d[1] \in S /\ Handling!Addressed(d))
      BY <2>2 DEF FanOut, Handling!Addressed
    <2>3. QED
      BY <2>1, <2>2
  <1>4. Handling!Announce(S)
    BY <1>2, <1>3 DEF Handling!Announce, Handling!Delivery, Delivery, FanOut
  <1>5. QED
    BY <1>4 DEF Handling!Next

LEMMA CommitRefines ==
  ASSUME IInv, IInv', NEW w \in Worker, NEW s \in {"succeeded", "superseded"},
         NEW ok \in BOOLEAN, ExecuteCommit(w, s, ok)
  PROVE  Handling!Next
  <1> DEFINE state == [d \in Delivery |-> Settlement(row[d])]
             k == task[w].key
  <1>1. row \in [Delivery -> Row] /\ row' \in [Delivery -> Row]
    BY DEF IInv, TypeOK
  <1>2. k \in Delivery /\ row[k].status = "processing" /\ row[k].token = task[w].token
    BY DEF IInv, ExecuteCommit, BusyHasTask, ClaimedTask, ExecutorOwnsClaim, TypeOK
  <1>3. /\ row' = [row EXCEPT ![k] = MarkTerminal(@, s)]
        /\ handled' = [handled EXCEPT ![k] = @ + 1]
    BY <1>2 DEF ExecuteCommit, ClaimedBy
  <1>4. row'[k].status = s
    BY <1>1, <1>2, <1>3, MarkTerminalRow
  <1>5. state[k] = "owed" /\ Settlement(row'[k]) = "handled"
    BY <1>1, <1>2, <1>4, SettlementOf
  <1>6. [d \in Delivery |-> Settlement(row'[d])] = [state EXCEPT ![k] = "handled"]
    BY <1>1, <1>2, <1>3, <1>5
  <1>7. Handling!Handle(k)
    BY <1>3, <1>5, <1>6 DEF Handling!Handle, Handling!Delivery, Delivery
  <1>8. QED
    BY <1>2, <1>7 DEF Handling!Next, Handling!Delivery, Delivery

LEMMA NextRefines == IInv /\ IInv' /\ [Next]_vars => [Handling!Next]_(Handling!vars)
  <1> SUFFICES ASSUME IInv, IInv', [Next]_vars
               PROVE  Handling!Next \/ UNCHANGED Handling!vars
    OBVIOUS
  <1>1. row \in [Delivery -> Row] /\ row' \in [Delivery -> Row]
        /\ minted \in [Delivery -> Nat]
    BY DEF IInv, TypeOK
  <1>2. CASE Dispatcher
    BY <1>2, FanOutRefines DEF Dispatcher
  <1>3. CASE \E w \in Worker, s \in {"succeeded", "superseded"}, ok \in BOOLEAN :
               ExecuteCommit(w, s, ok)
    BY <1>3, CommitRefines
  <1>4. CASE /\ ~Dispatcher
             /\ ~ \E w \in Worker, s \in {"succeeded", "superseded"}, ok \in BOOLEAN :
                    ExecuteCommit(w, s, ok)
    <2>1. handled' = handled
      BY <1>4 DEF Next, vars, InsertOutbox, Scheduler, Claim, Reclaimer, RecoverExpired,
                  Clock, LeaseExpires, BecomesDue, Execute, ExecuteBegin, ExecuteFail,
                  ScheduleRetry, Crash, Take, Drop
    <2>2. CASE row' = row
      BY <2>1, <2>2 DEF Handling!vars
    <2>3. CASE row' # row
      <3>1. CASE Scheduler
        BY <1>1, <2>1, <3>1, MarkProcessingRow, AbandonRefines DEF Scheduler, Claim, Ready
      <3>2. CASE Reclaimer
        BY <1>1, <2>1, <3>2, MarkExpiredRow, AbandonRefines
           DEF Reclaimer, RecoverExpired, Expired
      <3>3. CASE Clock
        <4>1. \A d \in Delivery : row'[d] # row[d] =>
                /\ row[d].status \in {"pending", "processing"}
                /\ row'[d].status = row[d].status
          BY <1>1, <3>3 DEF Clock, LeaseExpires, BecomesDue, Row
        <4>2. QED
          BY <1>1, <2>1, <4>1, AbandonRefines
      <3>4. ASSUME NEW w \in Worker, ScheduleRetry(w)
            PROVE  Handling!Next
        <4> DEFINE p == pc[w] = "reject"
        <4>1. \A d \in Delivery : row'[d] # row[d] =>
                row[d].status = "processing" /\ row'[d] = RetryOrFail(row[d], p)
          BY <1>1, <3>4 DEF ScheduleRetry, ClaimedBy
        <4>2. \A d \in Delivery : RetryOrFail(row[d], p).status \in {"pending", "failed"}
          BY <1>1, RetryOrFailRow
        <4>3. QED
          BY <1>1, <2>1, <4>1, <4>2, AbandonRefines
      <3>5. Scheduler \/ Reclaimer \/ Clock \/ \E w \in Worker : ScheduleRetry(w)
        BY <1>4, <2>3 DEF Next, vars, InsertOutbox, Execute, ExecuteBegin, ExecuteFail,
                          Crash, Take, Drop
      <3>6. QED
        BY <3>1, <3>2, <3>3, <3>4, <3>5
    <2>4. QED
      BY <2>2, <2>3
  <1>5. QED
    BY <1>2, <1>3, <1>4

(* The pipeline's tables implement EventHandling: owed to all subscribers   *)
(* at once, handled once or abandoned, both final.                          *)
THEOREM SpecImplementsEventHandling == Spec => ImplementsEventHandling
  <1>1. Init => Handling!Init
    BY InitRefines
  <1>2. IInv /\ IInv' /\ [Next]_vars => [Handling!Next]_(Handling!vars)
    BY NextRefines
  <1>3. QED
    BY <1>1, <1>2, SpecIInv, PTL DEF Spec, Handling!Spec, ImplementsEventHandling
=============================================================================
