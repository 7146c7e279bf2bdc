------------------------------ MODULE Delivery ------------------------------
(***************************************************************************)
(* The durable half of the content server's event pipeline: the tables     *)
(* outbox_event and event_delivery, and every transaction that writes      *)
(* them (respository/dispatch.go, respository/task.go), run by any number  *)
(* of service instances at once.                                           *)
(*                                                                         *)
(*   FanOut          outbox row  -> one pending delivery per subscriber    *)
(*   Claim           pending     -> processing, under a fresh claim token  *)
(*   Execute         processing  -> succeeded / superseded, in the same    *)
(*                   transaction as the handler's business writes          *)
(*   ScheduleRetry   processing  -> pending / failed, after a failure      *)
(*   RecoverExpired  processing  -> pending / failed, after lease expiry   *)
(*                                                                         *)
(* A transaction whose rows stay locked from its first read to its commit  *)
(* is one action.  Execute is two (begin, end), because leases expire,     *)
(* processes die and other transactions run while the handler does.        *)
(*                                                                         *)
(* Time is abstract: a row knows only whether next_attempt_at has come     *)
(* (due) and whether locked_until is still ahead (lease); two actions of   *)
(* the clock flip them at any moment.                                      *)
(***************************************************************************)
EXTENDS Naturals, FiniteSets

CONSTANTS
  Event,        (* outbox_event.event_id                                   *)
  Consumer,     (* names in the consumer registry                          *)
  Subscribers,  (* Subscribers[e]: the consumers of e's type, {} if the    *)
                (* registry does not know the type                         *)
  Worker,       (* worker goroutines of every instance                     *)
  MaxAttempts,  (* event_delivery.max_attempts                             *)
  Batch         (* LIMIT of the dispatch, claim and recovery scans         *)

ASSUME SubscribersAssumption == Subscribers \in [Event -> SUBSET Consumer]
ASSUME MaxAttemptsAssumption == MaxAttempts \in Nat \ {0}
ASSUME BatchAssumption == Batch \in Nat \ {0}

Delivery == Event \X Consumer          (* primary key of event_delivery *)

VARIABLES
  outbox,   (* [Event -> status of the outbox row]                          *)
  row,      (* [Delivery -> event_delivery row]                             *)
  held,     (* ClaimedTasks in memory, on their way to a worker             *)
  pc,       (* [Worker -> where the goroutine is]                           *)
  task,     (* [Worker -> the ClaimedTask it executes]                      *)
  minted,   (* [Delivery -> number of claim tokens ever drawn for it]       *)
  handled   (* [Delivery -> handler runs whose writes were committed]       *)

vars == <<outbox, row, held, pc, task, minted, handled>>

-----------------------------------------------------------------------------
(* Rows.  Token 0 is NULL; uuid.NewString is a token never drawn before.     *)

Terminal == {"succeeded", "superseded", "failed"}
Status == {"absent", "pending", "processing"} \cup Terminal

Row == [status : Status, attempts : 0..MaxAttempts, token : Nat,
        lease : BOOLEAN, due : BOOLEAN]

NoRow == [status |-> "absent", attempts |-> 0, token |-> 0,
          lease |-> FALSE, due |-> FALSE]

ClaimedTask == [key : Delivery, token : Nat]
Idle == [key |-> <<>>, token |-> 0]

(* INSERT with the column defaults: pending, no attempts, due now. *)
InsertPending == [status |-> "pending", attempts |-> 0, token |-> 0,
                  lease |-> FALSE, due |-> TRUE]

Ready(r) == r.status = "pending" /\ r.due /\ r.attempts < MaxAttempts

Expired(r) == r.status = "processing" /\ ~r.lease

(* Mutant of ClaimedBy: confirmations forget the claim token. *)
ClaimedByAnyone(r, token) == r.status = "processing"

(* WHERE status=2 AND claim_token=? of every confirmation. *)
ClaimedBy(r, token) == r.status = "processing" /\ r.token = token

MarkProcessing(r, token) ==
  [status |-> "processing", attempts |-> r.attempts + 1, token |-> token,
   lease |-> TRUE, due |-> r.due]

Release(r, status, due) ==
  [status |-> status, attempts |-> r.attempts, token |-> 0,
   lease |-> FALSE, due |-> due]

MarkTerminal(r, status) == Release(r, status, r.due)
MarkFailed(r)  == Release(r, "failed", r.due)
MarkPending(r) == Release(r, "pending", FALSE)      (* NOW + backoff delay *)

(* Mutant of MarkExpired: the lost claim is not counted. *)
MarkExpiredForgives(r) == [Release(r, "pending", TRUE) EXCEPT !.attempts = @ - 1]

(* RecoverExpired: due at once, or failed once the attempts are used up. *)
MarkExpired(r) ==
  IF r.attempts >= MaxAttempts THEN MarkFailed(r)
                               ELSE Release(r, "pending", TRUE)

(* Mutants of RetryOrFail: the last attempt is never made; the budget is    *)
(* compared one too late.                                                   *)
FailEarly(r, permanent) ==
  IF permanent \/ r.attempts + 1 >= MaxAttempts THEN MarkFailed(r) ELSE MarkPending(r)
FailLate(r, permanent) ==
  IF permanent \/ r.attempts > MaxAttempts THEN MarkFailed(r) ELSE MarkPending(r)

(* The row a failed execution leaves behind. *)
RetryOrFail(r, permanent) ==
  IF permanent \/ r.attempts >= MaxAttempts THEN MarkFailed(r)
                                            ELSE MarkPending(r)

(* The row lock that Execute takes with SELECT ... FOR UPDATE. *)
Locked(d) == \E w \in Worker : pc[w] = "handling" /\ task[w].key = d

-----------------------------------------------------------------------------
Init ==
  /\ outbox = [e \in Event |-> "absent"]
  /\ row = [d \in Delivery |-> NoRow]
  /\ held = {}
  /\ pc = [w \in Worker |-> "idle"]
  /\ task = [w \in Worker |-> Idle]
  /\ minted = [d \in Delivery |-> 0]
  /\ handled = [d \in Delivery |-> 0]

(* A business transaction commits its outbox row (publication.go). *)
InsertOutbox(e) ==
  /\ outbox[e] = "absent"
  /\ outbox' = [outbox EXCEPT ![e] = "pending"]
  /\ UNCHANGED <<row, held, pc, task, minted, handled>>

(* Dispatcher: one transaction over a batch of locked outbox rows. *)
FanOut(S) ==
  /\ S # {} /\ Cardinality(S) <= Batch
  /\ \A e \in S : outbox[e] = "pending"
  /\ outbox' = [e \in Event |->
                  IF e \notin S THEN outbox[e]
                  ELSE IF Subscribers[e] = {} THEN "failed" ELSE "dispatched"]
  /\ row' = [d \in Delivery |->
               IF d[1] \in S /\ d[2] \in Subscribers[d[1]]
               THEN InsertPending ELSE row[d]]
  /\ UNCHANGED <<held, pc, task, minted, handled>>

(* Scheduler: claim a batch.  The commit may be acknowledged or not; only   *)
(* an acknowledged batch is handed on.                                      *)
Claim(S, acknowledged) ==
  /\ S # {} /\ Cardinality(S) <= Batch
  /\ \A d \in S : Ready(row[d]) /\ ~Locked(d)
  /\ row' = [d \in Delivery |->
               IF d \in S THEN MarkProcessing(row[d], minted[d] + 1) ELSE row[d]]
  /\ minted' = [d \in Delivery |->
                  IF d \in S THEN minted[d] + 1 ELSE minted[d]]
  /\ held' = IF acknowledged
             THEN held \cup {[key |-> d, token |-> minted[d] + 1] : d \in S}
             ELSE held
  /\ UNCHANGED <<outbox, pc, task, handled>>

(* A worker receives a queued task. *)
Take(w, c) ==
  /\ pc[w] = "idle" /\ c \in held
  /\ held' = held \ {c}
  /\ pc' = [pc EXCEPT ![w] = "begin"]
  /\ task' = [task EXCEPT ![w] = c]
  /\ UNCHANGED <<outbox, row, minted, handled>>

(* The task never reaches a worker: Submit was refused, the queue was       *)
(* abandoned by a forced stop, or the process died.                         *)
Drop(c) ==
  /\ c \in held
  /\ held' = held \ {c}
  /\ UNCHANGED <<outbox, row, pc, task, minted, handled>>

Finish(w) ==
  /\ pc' = [pc EXCEPT ![w] = "idle"]
  /\ task' = [task EXCEPT ![w] = Idle]

(* Execute, first half: lock the row, then check that the claim is still    *)
(* current and its lease valid; otherwise ErrClaimLost ends the task.       *)
ExecuteBegin(w) ==
  LET d == task[w].key IN
  /\ pc[w] = "begin" /\ ~Locked(d)
  /\ IF ClaimedBy(row[d], task[w].token) /\ row[d].lease
     THEN pc' = [pc EXCEPT ![w] = "handling"] /\ UNCHANGED task
     ELSE Finish(w)
  /\ UNCHANGED <<outbox, row, held, minted, handled>>

(* Mutant of ExecuteCommit: the handler commits its writes itself, the task *)
(* row is left for a later transaction.                                     *)
ExecuteCommitSplit(w, status, acknowledged) ==
  /\ pc[w] = "handling"
  /\ handled' = [handled EXCEPT ![task[w].key] = @ + 1]
  /\ pc' = [pc EXCEPT ![w] = "retry"]
  /\ UNCHANGED <<outbox, row, held, task, minted>>

(* Execute, second half: the handler returned nil or ErrSuperseded, and its *)
(* writes commit together with MarkTerminal, which needs the claim again.   *)
(* If the commit is not acknowledged the worker sees a transient error.     *)
ExecuteCommit(w, status, acknowledged) ==
  LET d == task[w].key
      affected == ClaimedBy(row[d], task[w].token)
  IN
  /\ pc[w] = "handling"
  /\ row' = IF affected THEN [row EXCEPT ![d] = MarkTerminal(@, status)] ELSE row
  /\ handled' = IF affected THEN [handled EXCEPT ![d] = @ + 1] ELSE handled
  /\ IF affected /\ ~acknowledged
     THEN pc' = [pc EXCEPT ![w] = "retry"] /\ UNCHANGED task
     ELSE Finish(w)
  /\ UNCHANGED <<outbox, held, minted>>

(* Execute fails before or inside the handler - database error, timeout,    *)
(* handler error, forced stop, panic - and the transaction rolls back.      *)
ExecuteFail(w, permanent) ==
  /\ pc[w] \in {"begin", "handling"}
  /\ pc' = [pc EXCEPT ![w] = IF permanent THEN "reject" ELSE "retry"]
  /\ UNCHANGED <<outbox, row, held, task, minted, handled>>

(* Mutant of ScheduleRetry: an UPDATE by primary key alone. *)
ScheduleRetryBlindly(w) ==
  /\ pc[w] \in {"retry", "reject"} /\ ~Locked(task[w].key)
  /\ row' = [row EXCEPT ![task[w].key] = RetryOrFail(@, pc[w] = "reject")]
  /\ Finish(w)
  /\ UNCHANGED <<outbox, held, minted, handled>>

(* ScheduleRetry: a transaction of its own, void if the claim has moved on. *)
ScheduleRetry(w) ==
  LET d == task[w].key IN
  /\ pc[w] \in {"retry", "reject"} /\ ~Locked(d)
  /\ row' = IF ClaimedBy(row[d], task[w].token)
            THEN [row EXCEPT ![d] = RetryOrFail(@, pc[w] = "reject")]
            ELSE row
  /\ Finish(w)
  /\ UNCHANGED <<outbox, held, minted, handled>>

(* The goroutine is lost with its process, or ScheduleRetry failed and was  *)
(* only logged: no row changes, an open transaction is rolled back.         *)
Crash(w) ==
  /\ pc[w] # "idle"
  /\ Finish(w)
  /\ UNCHANGED <<outbox, row, held, minted, handled>>

(* Reclaimer: one transaction over a batch of expired, unlocked rows. *)
RecoverExpired(S) ==
  /\ S # {} /\ Cardinality(S) <= Batch
  /\ \A d \in S : Expired(row[d]) /\ ~Locked(d)
  /\ row' = [d \in Delivery |-> IF d \in S THEN MarkExpired(row[d]) ELSE row[d]]
  /\ UNCHANGED <<outbox, held, pc, task, minted, handled>>

(* The database clock passes locked_until, or next_attempt_at. *)
LeaseExpires(d) ==
  /\ row[d].status = "processing" /\ row[d].lease
  /\ row' = [row EXCEPT ![d].lease = FALSE]
  /\ UNCHANGED <<outbox, held, pc, task, minted, handled>>

BecomesDue(d) ==
  /\ row[d].status = "pending" /\ ~row[d].due
  /\ row' = [row EXCEPT ![d].due = TRUE]
  /\ UNCHANGED <<outbox, held, pc, task, minted, handled>>

-----------------------------------------------------------------------------
Dispatcher == \E S \in SUBSET Event : FanOut(S)
Scheduler == \E S \in SUBSET Delivery, ok \in BOOLEAN : Claim(S, ok)
Reclaimer == \E S \in SUBSET Delivery : RecoverExpired(S)
Clock == \E d \in Delivery : LeaseExpires(d) \/ BecomesDue(d)

(* What a live worker does with the task it has taken. *)
Execute(w) ==
  \/ ExecuteBegin(w)
  \/ \E s \in {"succeeded", "superseded"}, ok \in BOOLEAN : ExecuteCommit(w, s, ok)
  \/ \E permanent \in BOOLEAN : ExecuteFail(w, permanent)
  \/ ScheduleRetry(w)

Next ==
  \/ \E e \in Event : InsertOutbox(e)
  \/ Dispatcher \/ Scheduler \/ Reclaimer \/ Clock
  \/ \E w \in Worker : Execute(w) \/ Crash(w) \/ \E c \in held : Take(w, c)
  \/ \E c \in held : Drop(c)

Spec == Init /\ [][Next]_vars

(* The polling loops run for ever in some instance, a handler respects the  *)
(* timeout of its context, time passes.  Nothing obliges a claim to reach   *)
(* a worker, and any worker may crash at any time.                          *)
Fairness ==
  /\ WF_vars(Dispatcher) /\ WF_vars(Scheduler) /\ WF_vars(Reclaimer)
  /\ \A d \in Delivery : WF_vars(LeaseExpires(d)) /\ WF_vars(BecomesDue(d))
  /\ \A w \in Worker : WF_vars(Execute(w))

FairSpec == Spec /\ Fairness
-----------------------------------------------------------------------------
TypeOK ==
  /\ outbox \in [Event -> {"absent", "pending", "dispatched", "failed"}]
  /\ row \in [Delivery -> Row]
  /\ held \subseteq ClaimedTask
  /\ pc \in [Worker -> {"idle", "begin", "handling", "retry", "reject"}]
  /\ task \in [Worker -> ClaimedTask \cup {Idle}]
  /\ minted \in [Delivery -> Nat]
  /\ handled \in [Delivery -> Nat]

(* A handler's writes are committed exactly once for a delivery that ends   *)
(* succeeded or superseded, and never for any other, whatever workers       *)
(* crash, leases expire or commits go unacknowledged (task.go: MarkTerminal *)
(* shares the handler's transaction; every confirmation tests the claim).   *)
HandledOnce ==
  \A d \in Delivery :
    handled[d] = IF row[d].status \in {"succeeded", "superseded"} THEN 1 ELSE 0

(* While a handler runs, the row still carries this worker's claim: neither *)
(* the reclaimer nor another claim can take it away, even after the lease   *)
(* has run out (task.go:110, the row lock of FindClaimStateForUpdate).      *)
ExecutorOwnsClaim ==
  \A w \in Worker : pc[w] = "handling" =>
    /\ row[task[w].key].status = "processing"
    /\ row[task[w].key].token = task[w].token

(* No delivery is parked in pending with its attempts used up, where no     *)
(* scan would ever find it again: FindReadyForUpdate wants                  *)
(* attempt_count < max_attempts, the reclaimer wants status = 2.            *)
PendingIsClaimable ==
  \A d \in Delivery : row[d].status = "pending" => row[d].attempts < MaxAttempts

(* Fan-out is atomic: a dispatched event has a delivery for every           *)
(* subscriber and for no one else; any other event has none.                *)
FanOutIsAtomic ==
  \A d \in Delivery :
    row[d].status # "absent" <=>
      outbox[d[1]] = "dispatched" /\ d[2] \in Subscribers[d[1]]

(* The row lock has one holder. *)
LockIsExclusive ==
  \A v, w \in Worker :
    pc[v] = "handling" /\ pc[w] = "handling" /\ task[v].key = task[w].key => v = w

BusyHasTask == \A w \in Worker : pc[w] # "idle" => task[w] \in ClaimedTask

(* The inductive invariant: the parts above need one another, and the       *)
(* exclusiveness of the row lock.                                           *)
IInv ==
  /\ TypeOK /\ BusyHasTask /\ LockIsExclusive
  /\ HandledOnce /\ ExecutorOwnsClaim /\ PendingIsClaimable /\ FanOutIsAtomic

(* Each claim costs an attempt and has a token of its own, and a claim is   *)
(* in one place: however often a delivery is lost, recovered or retried, at *)
(* most MaxAttempts claims of it are ever handed to workers, and no two     *)
(* workers have the same one.  The pool counts on it: a ClaimedTask is      *)
(* submitted once (task.go:29-74, scheduler.go:118-127).                    *)
ClaimsAreCounted ==
  /\ \A d \in Delivery :
       /\ minted[d] = row[d].attempts /\ row[d].token <= minted[d]
       /\ row[d].status = "absent" => row[d].attempts = 0
  /\ \A c \in held : c.token <= minted[c.key]
  /\ \A w \in Worker : pc[w] # "idle" => task[w].token <= minted[task[w].key]
ClaimsAreUnique ==
  \A w \in Worker : pc[w] # "idle" =>
    /\ task[w] \notin held
    /\ \A v \in Worker : pc[v] # "idle" /\ task[v] = task[w] => v = w

(* succeeded, superseded and failed are final: no late confirmation, retry  *)
(* or recovery changes a finished row.                                      *)
TerminalIsFinal ==
  [][\A d \in Delivery : row[d].status \in Terminal => row'[d] = row[d]]_vars

(* A claim under a valid lease is ended only by the worker that executes    *)
(* that very claim, never by the reclaimer or by a worker whose own claim   *)
(* of the same delivery is stale.                                           *)
LeaseIsRespected ==
  [][\A d \in Delivery :
       row[d].status = "processing" /\ row[d].lease /\ row'[d].token # row[d].token
       => \E w \in Worker :
            /\ task[w] = [key |-> d, token |-> row[d].token]
            /\ pc[w] \in {"handling", "retry", "reject"}
            /\ pc'[w] # pc[w]]_vars

(* A delivery is given up only when its attempts are used up or the         *)
(* execution of its current claim failed for good.                          *)
FailsOnlyWhenSpent ==
  [][\A d \in Delivery :
       row'[d].status = "failed" /\ row[d].status # "failed"
       => \/ row[d].attempts = MaxAttempts
          \/ \E w \in Worker : /\ pc[w] = "reject"
                               /\ task[w] = [key |-> d, token |-> row[d].token]]_vars

(* How far a delivery has come: its attempts, and the way through one of    *)
(* them from the claim to the next, or to the end.                          *)
Progress(r) ==
  CASE r.status = "absent"     -> 0
    [] r.status = "processing" -> 4 * r.attempts + (IF r.lease THEN 0 ELSE 1)
    [] r.status = "pending"    -> 4 * r.attempts + (IF r.due THEN 3 ELSE 2)
    [] r.status \in Terminal   -> 4 * MaxAttempts + 4

(* A delivery never goes back: retries, recoveries and lost claims cannot   *)
(* keep it in a circle, it changes at most 4 * MaxAttempts + 4 times.       *)
RowsAdvance ==
  [][\A d \in Delivery : row'[d] # row[d] => Progress(row[d]) < Progress(row'[d])]_vars

(* Every outbox row is dispatched or rejected, and every delivery ends,     *)
(* even if each claim is lost on its way to a worker: the attempt budget    *)
(* bounds the number of recoveries.  Both are for good, so there is always  *)
(* a later moment when nothing is owed.                                     *)
Settles ==
  []<>(/\ \A e \in Event : outbox[e] # "pending"
       /\ \A d \in Delivery : row[d].status \in {"absent"} \cup Terminal)

(* docs/event-delivery-schema.md:23 has the recovery of an expired claim    *)
(* "schedule a backed-off retry"; the retry would then not be due at once.  *)
RecoveryBacksOff ==
  [][\A d \in Delivery :
       Expired(row[d]) /\ ~Locked(d) /\ row'[d].status = "pending"
       => ~row'[d].due]_vars

(* What the tables promise their users: EventHandling. *)
Settlement(r) ==
  CASE r.status = "absent" -> "none"
    [] r.status \in {"pending", "processing"} -> "owed"
    [] r.status \in {"succeeded", "superseded"} -> "handled"
    [] r.status = "failed" -> "abandoned"

Handling == INSTANCE EventHandling WITH
              state <- [d \in Delivery |-> Settlement(row[d])],
              runs <- handled

(* Every step of the tables is a step of that promise, or invisible to it.  *)
ImplementsEventHandling == Handling!Spec
=============================================================================
