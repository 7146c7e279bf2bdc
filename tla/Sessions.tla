------------------------------ MODULE Sessions ------------------------------
(***************************************************************************)
(* Logins, sessions and passwords of userServer: internal/logic/login.go,  *)
(* loginbypasswordlogic.go, loginbyphonelogic.go, refreshlogic.go,         *)
(* logoutlogic.go, changepasswordlogic.go and resetpasswordlogic.go.       *)
(*                                                                         *)
(* Requests run concurrently and share only the database and Redis.  A     *)
(* transaction's writes appear when it commits.  The rows it has written   *)
(* or has read FOR UPDATE stay locked until then: held[p].  A plain read   *)
(* sees committed rows and locks nothing.  This is InnoDB at REPEATABLE    *)
(* READ, its default.  A script runs in Redis without interruption.        *)
(*                                                                         *)
(* UPDATE ... WHERE user_id = ? scans idx_sessions_user_device_status (the *)
(* one index that begins with user_id): of one session after the other it  *)
(* locks the index entry, then the row.  The gaps between the entries,     *)
(* which it locks on the way, count as locked when the scan ends: from     *)
(* then on no session of the user can be inserted until the transaction    *)
(* ends.  A write that changes status changes the entry too.               *)
(*                                                                         *)
(* A session has the name of the login that creates it, and a refresh      *)
(* token is a session with a counter: its signature is always genuine      *)
(* here.  Every request is made once; Op[p] says of which kind it is.  A   *)
(* refresh is sent with a token and may arrive much later.  A request      *)
(* begins with its first read: the wait for that row's lock is not a state.*)
(***************************************************************************)
EXTENDS Naturals, FiniteSets

CONSTANTS
  Request, Op,      (* Op[p] is the endpoint request p calls                *)
  User, Password, Ticket,
  OneBrowser,       (* all requests come from one browser with one cookie   *)
  None,             (* no user, no device, no owner of a lock               *)
  MaxFaults         (* bound: how many calls to MySQL or Redis may fail     *)

ASSUME OpAssumption ==
  Op \in [Request -> {"password", "phone", "refresh", "logout", "change", "reset"}]
ASSUME NoneAssumption == None \notin Request \cup User
ASSUME OneBrowserAssumption == OneBrowser \in BOOLEAN
ASSUME MaxFaultsAssumption == MaxFaults \in Nat

VARIABLES
  user,       (* [User -> row of users]                                     *)
  device,     (* [Request -> the user of the row of user_devices, or None]  *)
  session,    (* [Request -> row of user_sessions]                          *)
  over,       (* the sessions whose not_after has passed                    *)
  code,       (* the users with a login code in Redis                       *)
  ticket,     (* [Ticket -> the user of the reset ticket in Redis, or None] *)
  owner,      (* [Ticket -> the owner of the ticket's lock key, or None]    *)
  held,       (* [Request -> the rows and ranges its transaction has locked]*)
  pc,         (* [Request -> where the request is]                          *)
  arg,        (* [Request -> what it was given and what it has read]        *)
  out,        (* [Request -> its answer]                                    *)
  cookie,     (* the browser's refresh_token, or NoToken                    *)
  delivered,  (* the requests whose answer has reached the browser          *)
  committed,  (* history: the requests whose transaction has committed      *)
  lapsed,     (* history: resets that lost their ticket's lock, or could not*)
              (* consume it                                                 *)
  faults      (* how many calls have failed                                 *)

db == <<user, device, session>>
redis == <<code, ticket, owner, lapsed>>
client == <<cookie, delivered>>
vars == <<db, redis, over, client, held, pc, arg, out, committed, faults>>

Login == {p \in Request : Op[p] \in {"password", "phone"}}
UserRow == [pw : Password, normal : BOOLEAN, lastLogin : Request \cup {None}]
SessionRow == [user : User \cup {None}, device : Request \cup {None}, active : BOOLEAN, ctr : Nat]
NoSession == [user |-> None, device |-> None, active |-> FALSE, ctr |-> 0]
Token == [sid : Request, ctr : Nat]
NoToken == [sid |-> None, ctr |-> 0]

InTransaction == {"device", "insert", "stamp", "login", "account", "refresh",
                  "logout", "user", "revoke", "newPassword"}
PC == InTransaction \cup {"idle", "sent", "code", "consume", "release", "done"}

Locks == ({"user", "range"} \X User) \cup ({"session", "entry", "device"} \X Request)
UserLock(u) == <<"user", u>>
SessionLock(s) == <<"session", s>>
EntryLock(s) == <<"entry", s>>
DeviceLock(d) == <<"device", d>>
RangeLock(u) == <<"range", u>>

Free(p, rows) == \A q \in Request \ {p} : held[q] \cap rows = {}

(* Mutant of SessionRead and UserRead: a plain SELECT, without FOR UPDATE. *)
PlainRead(row) == {}
(* What FindOneForUpdate locks when it reads a session or a user. *)
SessionRead(s) == {SessionLock(s)}
UserRead(u) == {UserLock(u)}

(* The sessions logins create for u, and those of them that are in the table
   already, be it by a transaction that is still open. *)
SessionsOf(u) == {s \in Login : arg[s].user = u}
Inserted(u) == {s \in SessionsOf(u) : session[s] # NoSession \/ pc[s] \in {"stamp", "login"}}

Arg == [user : User \cup {None}, device : Request \cup {None},
        revoked : SUBSET Request, sid : Request \cup {None},
        token : Token \cup {NoToken}, row : SessionRow,
        account : UserRow \cup {None}, new : Password \cup {None},
        ticket : Ticket \cup {None}]
NoArg == [user |-> None, device |-> None, revoked |-> {}, sid |-> None,
          token |-> NoToken, row |-> NoSession,
          account |-> None, new |-> None, ticket |-> None]

Answer == [ok : BOOLEAN, code : {"none", "success", "used", "inactive", "expired"},
           token : Token \cup {NoToken}]
NoAnswer == [ok |-> FALSE, code |-> "none", token |-> NoToken]
Success == [ok |-> TRUE, code |-> "success", token |-> NoToken]
SuccessWith(token) == [Success EXCEPT !.token = token]

(* The requests that were answered with a token: logins and refreshes. *)
Receives(q) == out[q].ok /\ Op[q] \in {"password", "phone", "refresh"}
Issued == {out[q].token : q \in {r \in Request : Receives(r)}}
(* The tokens a refresh may be sent with. *)
Presented == IF OneBrowser THEN {cookie} \ {NoToken} ELSE Issued
(* The sessions clients have an access token of: it came with a refresh token. *)
Known == {out[q].token.sid : q \in {r \in Request : Receives(r) /\ (OneBrowser => r \in delivered)}}

TypeOK ==
  /\ user \in [User -> UserRow]
  /\ device \in [Request -> User \cup {None}]
  /\ session \in [Request -> SessionRow]
  /\ over \subseteq Request
  /\ code \subseteq User
  /\ ticket \in [Ticket -> User \cup {None}]
  /\ owner \in [Ticket -> Request \cup {None}]
  /\ held \in [Request -> SUBSET Locks]
  /\ pc \in [Request -> PC]
  /\ arg \in [Request -> Arg]
  /\ out \in [Request -> Answer]
  /\ cookie \in Token \cup {NoToken} /\ delivered \subseteq Request
  /\ committed \subseteq Request
  /\ lapsed \subseteq Request
  /\ faults \in 0 .. MaxFaults

Init ==
  /\ \E w \in Password : user = [u \in User |-> [pw |-> w, normal |-> TRUE, lastLogin |-> None]]
  /\ device = [p \in Request |-> None]
  /\ session = [p \in Request |-> NoSession]
  /\ over = {}
  /\ code = User
  /\ ticket \in [Ticket -> User]
  /\ owner = [t \in Ticket |-> None]
  /\ held = [p \in Request |-> {}]
  /\ pc = [p \in Request |-> "idle"]
  /\ arg = [p \in Request |-> NoArg]
  /\ out = [p \in Request |-> NoAnswer]
  /\ cookie = NoToken /\ delivered = {}
  /\ committed = {}
  /\ lapsed = {}
  /\ faults = 0

-----------------------------------------------------------------------------
(* Steps that several requests share. *)

Goto(p, place) == pc' = [pc EXCEPT ![p] = place]
Lock(p, rows) == held' = [held EXCEPT ![p] = @ \cup rows]
Unlock(p) == held' = [held EXCEPT ![p] = {}]
Fail == faults < MaxFaults /\ faults' = faults + 1

(* A transaction that ends without a write, or a request refused before it. *)
Refuse(p, place) == Goto(p, place) /\ Unlock(p)

(* Refresh's early returns of nil commit the transaction. *)
Refused(p) == Refuse(p, "done")

(* COMMIT.  Its acknowledgement may be lost: then TransactCtx reports an
   error although the writes are there. *)
Commit(p, answer, place, failed) ==
  /\ Unlock(p)
  /\ committed' = committed \cup {p}
  /\ \/ Goto(p, place) /\ out' = [out EXCEPT ![p] = answer] /\ UNCHANGED faults
     \/ Fail /\ Goto(p, failed) /\ UNCHANGED out

-----------------------------------------------------------------------------
(* Logins *)

(* The user is read, the password compared and the status checked before
   any transaction. *)
LoginByPassword(p) ==
  /\ Op[p] = "password" /\ pc[p] = "idle"
  /\ \E u \in User, w \in Password :
       IF user[u].pw = w /\ user[u].normal
       THEN Goto(p, "device") /\ arg' = [arg EXCEPT ![p].user = u]
       ELSE Goto(p, "done") /\ UNCHANGED arg
  /\ UNCHANGED <<db, redis, over, client, held, out, committed, faults>>

LoginByPhone(p) ==
  /\ Op[p] = "phone" /\ pc[p] = "idle"
  /\ \E u \in User :
       IF user[u].normal
       THEN Goto(p, "code") /\ arg' = [arg EXCEPT ![p].user = u]
       ELSE Goto(p, "done") /\ UNCHANGED arg
  /\ UNCHANGED <<db, redis, over, client, held, out, committed, faults>>

(* consumeLoginVerificationCodeScript, when the code matches. *)
ConsumeScript(u) == code' = code \ {u}

(* The script runs, the code does not match, or EvalCtx fails before or
   after the script has run. *)
ConsumeLoginCode(p) ==
  /\ pc[p] = "code"
  /\ \/ arg[p].user \in code /\ ConsumeScript(arg[p].user) /\ Goto(p, "device") /\ UNCHANGED faults
     \/ Goto(p, "done") /\ UNCHANGED <<code, faults>>
     \/ Fail /\ Goto(p, "done") /\ (UNCHANGED code \/ ConsumeScript(arg[p].user))
  /\ UNCHANGED <<db, ticket, owner, lapsed, over, client, held, arg, out, committed>>

(* resolveLoginDevice: the device the client names if it is the user's, a
   new one otherwise.  No code in src/ gives a device another status than 1. *)
ResolveLoginDevice(p) ==
  /\ pc[p] = "device"
  /\ \E d \in Request \cup {None} :
       LET known == d # None /\ device[d] = arg[p].user
           mine  == IF known THEN d ELSE p
       IN  /\ d # None => device[d] # None
           /\ Free(p, {DeviceLock(mine)}) /\ Lock(p, {DeviceLock(mine)})
           /\ arg' = [arg EXCEPT ![p].device = mine]
  /\ Goto(p, "insert")
  /\ UNCHANGED <<db, redis, over, client, out, committed, faults>>

InsertSession(p) ==
  /\ pc[p] = "insert"
  /\ Free(p, {RangeLock(arg[p].user)}) /\ Lock(p, {SessionLock(p), EntryLock(p)})
  /\ Goto(p, "stamp")
  /\ UNCHANGED <<db, redis, over, client, arg, out, committed, faults>>

UpdateLastLoginAt(p) ==
  /\ pc[p] = "stamp"
  /\ Free(p, {UserLock(arg[p].user)}) /\ Lock(p, {UserLock(arg[p].user)})
  /\ Goto(p, "login")
  /\ UNCHANGED <<db, redis, over, client, arg, out, committed, faults>>

CommitLogin(p) ==
  /\ pc[p] = "login"
  /\ device' = [device EXCEPT ![arg[p].device] = arg[p].user]
  /\ session' = [session EXCEPT ![p] =
       [user |-> arg[p].user, device |-> arg[p].device, active |-> TRUE, ctr |-> 0]]
  /\ user' = [user EXCEPT ![arg[p].user].lastLogin = p]
  /\ Commit(p, SuccessWith([sid |-> p, ctr |-> 0]), "done", "done")
  /\ UNCHANGED <<redis, over, client, arg>>

-----------------------------------------------------------------------------
(* Refresh and logout *)

(* A client sends the token it has, a browser's that of its cookie: no matter
   how long ago it was received. *)
SendRefresh(p) ==
  /\ Op[p] = "refresh" /\ pc[p] = "idle"
  /\ \E t \in Presented : arg' = [arg EXCEPT ![p].token = t]
  /\ Goto(p, "sent")
  /\ UNCHANGED <<db, redis, over, client, held, out, committed, faults>>

Refusal(t) ==
  CASE session[t.sid].ctr # t.ctr -> "used"
    [] session[t.sid].ctr = t.ctr /\ ~session[t.sid].active -> "inactive"
    [] OTHER -> "expired"

Refresh(p) ==
  LET t == arg[p].token IN
  /\ pc[p] = "sent"
  /\ Free(p, SessionRead(t.sid))
  /\ IF session[t.sid].ctr = t.ctr /\ session[t.sid].active /\ t.sid \notin over
     THEN /\ Goto(p, "account") /\ Lock(p, SessionRead(t.sid)) /\ UNCHANGED out
          /\ arg' = [arg EXCEPT ![p] = [NoArg EXCEPT
               !.token = t, !.row = session[t.sid], !.user = session[t.sid].user]]
     ELSE /\ out' = [out EXCEPT ![p] = [NoAnswer EXCEPT !.code = Refusal(t)]]
          /\ Refused(p) /\ UNCHANGED arg
  /\ UNCHANGED <<db, redis, over, client, committed, faults>>

(* The account's status, by a plain read. *)
RefreshAccount(p) ==
  /\ pc[p] = "account"
  /\ IF user[arg[p].user].normal
     THEN Goto(p, "refresh") /\ UNCHANGED held
     ELSE Refused(p)
  /\ UNCHANGED <<db, redis, over, client, arg, out, committed, faults>>

(* Mutant of NewToken: the token is encoded before the counter is raised. *)
TokenRead(s, row) == [sid |-> s, ctr |-> row.ctr]
NewToken(s, row) == [sid |-> s, ctr |-> row.ctr + 1]

(* sessionModel.Update writes every column of the row that was read. *)
CommitRefresh(p) ==
  LET s == arg[p].token.sid IN
  /\ pc[p] = "refresh"
  /\ Free(p, {SessionLock(s)})
  /\ session' = [session EXCEPT ![s] = [arg[p].row EXCEPT !.ctr = @ + 1]]
  /\ Commit(p, SuccessWith(NewToken(s, arg[p].row)), "done", "done")
  /\ UNCHANGED <<user, device, redis, over, client, arg>>

Logout(p) ==
  /\ Op[p] = "logout" /\ pc[p] = "idle"
  /\ \E s \in Known :
       /\ Free(p, SessionRead(s))
       /\ IF session[s].active
          THEN Goto(p, "logout") /\ Lock(p, SessionRead(s)) /\ UNCHANGED out
          ELSE Refused(p) /\ out' = [out EXCEPT ![p] = Success]
       /\ arg' = [arg EXCEPT ![p] = [NoArg EXCEPT
            !.user = session[s].user, !.sid = s, !.row = session[s]]]
  /\ UNCHANGED <<db, redis, over, client, committed, faults>>

(* The new status moves the session's index entry. *)
CommitLogout(p) ==
  /\ pc[p] = "logout"
  /\ Free(p, {SessionLock(arg[p].sid), EntryLock(arg[p].sid)})
  /\ session' = [session EXCEPT ![arg[p].sid] = [arg[p].row EXCEPT !.active = FALSE]]
  /\ Commit(p, Success, "done", "done")
  /\ UNCHANGED <<user, device, redis, over, client, arg>>

-----------------------------------------------------------------------------
(* New passwords *)

(* Mutant of ChangePassword: the session is locked before the user, as logins do. *)
ChangeFromSession(p) ==
  /\ Op[p] = "change" /\ pc[p] = "idle"
  /\ \E s \in Known, new \in Password :
       /\ Free(p, SessionRead(s)) /\ Lock(p, SessionRead(s)) /\ Goto(p, "user")
       /\ arg' = [arg EXCEPT ![p] = [NoArg EXCEPT !.user = session[s].user, !.sid = s, !.new = new]]
  /\ UNCHANGED <<db, redis, over, client, out, committed, faults>>

ChangePassword(p) ==
  /\ Op[p] = "change" /\ pc[p] = "idle"
  /\ \E s \in Known, current \in Password, new \in Password :
       LET u == session[s].user IN
       /\ Free(p, UserRead(u))
       /\ IF user[u].normal /\ user[u].pw = current
          THEN /\ Goto(p, "revoke") /\ Lock(p, UserRead(u))
               /\ arg' = [arg EXCEPT ![p] = [NoArg EXCEPT
                    !.user = u, !.sid = s, !.account = user[u], !.new = new]]
          ELSE Goto(p, "done") /\ UNCHANGED <<arg, held>>
  /\ UNCHANGED <<db, redis, over, client, out, committed, faults>>

(* Mutant of ClaimScript: SET without NX. *)
ClaimScriptSteals(p, t) == owner' = [owner EXCEPT ![t] = p]
(* claimResetTicketScript, when it acquires the lock. *)
ClaimScript(p, t) == owner[t] = None /\ owner' = [owner EXCEPT ![t] = p]

(* The ticket is missing, busy or claimed, or EvalCtx fails before or after
   the script has run. *)
ResetPassword(p) ==
  /\ Op[p] = "reset" /\ pc[p] = "idle"
  /\ \E t \in Ticket, new \in Password :
       \/ /\ ticket[t] # None /\ ClaimScript(p, t) /\ Goto(p, "user")
          /\ arg' = [arg EXCEPT ![p] = [NoArg EXCEPT
               !.user = ticket[t], !.ticket = t, !.new = new]]
          /\ UNCHANGED faults
       \/ /\ ticket[t] = None \/ owner[t] # None
          /\ Goto(p, "done") /\ UNCHANGED <<owner, arg, faults>>
       \/ /\ Fail /\ Goto(p, "done") /\ UNCHANGED arg
          /\ UNCHANGED owner \/ (ticket[t] # None /\ ClaimScript(p, t))
  /\ UNCHANGED <<db, code, ticket, lapsed, over, client, held, out, committed>>

LockResetUser(p) ==
  LET u == arg[p].user IN
  /\ pc[p] = "user"
  /\ Free(p, UserRead(u))
  /\ IF user[u].normal
     THEN /\ Goto(p, "revoke") /\ Lock(p, UserRead(u))
          /\ arg' = [arg EXCEPT ![p].account = user[u]]
     ELSE Refuse(p, "release") /\ UNCHANGED arg
  /\ UNCHANGED <<db, redis, over, client, out, committed, faults>>

(* What the UPDATE's scan may lock next: the row of the entry it has locked
   last, or else any entry it has not seen; ids come in no order. *)
ScanNext(p) ==
  LET found == {s \in Inserted(arg[p].user) : EntryLock(s) \in held[p]}
      rows  == {SessionLock(s) : s \in found} \ held[p]
  IN  IF rows # {} THEN rows ELSE {EntryLock(s) : s \in Inserted(arg[p].user) \ found}

(* Mutant of Scanned: the sessions are listed by a plain SELECT first. *)
ScanSkipped(p) == TRUE
(* The scan has locked all that is there. *)
Scanned(p) == ScanNext(p) = {}

(* users.Update, then RevokeAllByUserID or RevokeOtherByUserID: a step of its
   scan, or its end. *)
RevokeSessions(p) ==
  LET u == arg[p].user IN
  /\ pc[p] = "revoke" /\ Free(p, {UserLock(u)})
  /\ \/ \E lock \in ScanNext(p) :
          Free(p, {lock}) /\ Lock(p, {UserLock(u), lock}) /\ UNCHANGED <<pc, arg>>
     \/ /\ Scanned(p) /\ Free(p, {RangeLock(u)})
        /\ Lock(p, {UserLock(u), RangeLock(u)})
        /\ arg' = [arg EXCEPT ![p].revoked =
             {s \in Request : session[s].user = u /\ session[s].active /\ s # arg[p].sid}]
        /\ Goto(p, "newPassword")
  /\ UNCHANGED <<db, redis, over, client, out, committed, faults>>

(* users.Update writes every column of the row that was read. *)
CommitPassword(p) ==
  /\ pc[p] = "newPassword"
  /\ user' = [user EXCEPT ![arg[p].user] = [arg[p].account EXCEPT !.pw = arg[p].new]]
  /\ session' = [s \in Request |-> IF s \in arg[p].revoked
                                   THEN [session[s] EXCEPT !.active = FALSE] ELSE session[s]]
  /\ IF Op[p] = "change" THEN Commit(p, Success, "done", "done")
                         ELSE Commit(p, Success, "consume", "release")
  /\ UNCHANGED <<device, redis, over, client, arg>>

(* consumeResetTicketScript, when p owns the lock. *)
ConsumeTicketScript(p, t) ==
  owner' = [owner EXCEPT ![t] = None] /\ ticket' = [ticket EXCEPT ![t] = None]

(* Mutant of OwnershipLost: the script is tried again until it consumes. *)
OwnershipRetried(p) == UNCHANGED pc
(* The script finds another owner: the ticket stays, the loss is logged. *)
OwnershipLost(p) == Goto(p, "release")

(* The answer is Success whatever the script returns. *)
ConsumeResetTicket(p) ==
  LET t == arg[p].ticket IN
  /\ pc[p] = "consume"
  /\ \/ /\ owner[t] = p /\ ConsumeTicketScript(p, t)
        /\ Goto(p, IF ticket[t] = None THEN "release" ELSE "done")
        /\ UNCHANGED <<lapsed, faults>>
     \/ owner[t] # p /\ OwnershipLost(p) /\ UNCHANGED <<ticket, owner, lapsed, faults>>
     \/ /\ Fail /\ Goto(p, "release")
        /\ \/ UNCHANGED <<ticket, owner>> /\ lapsed' = lapsed \cup {p}
           \/ owner[t] = p /\ ConsumeTicketScript(p, t) /\ UNCHANGED lapsed
  /\ UNCHANGED <<db, code, over, client, held, arg, out, committed>>

(* Mutant of ReleaseScript: DEL without looking at the owner. *)
ReleaseScriptAny(p, t) == owner' = [owner EXCEPT ![t] = None]
(* releaseResetTicketScript *)
ReleaseScript(p, t) == owner' = [owner EXCEPT ![t] = IF @ = p THEN None ELSE @]

(* The deferred release; a failure is only logged. *)
ReleaseTicketLock(p) ==
  /\ pc[p] = "release"
  /\ \/ ReleaseScript(p, arg[p].ticket) /\ UNCHANGED faults
     \/ Fail /\ UNCHANGED owner
  /\ Goto(p, "done")
  /\ UNCHANGED <<db, code, ticket, lapsed, over, client, held, arg, out, committed>>

-----------------------------------------------------------------------------
(* The browser.  Answers arrive late, in any order or, like requests, never;
   those to new passwords set no cookie. *)

(* Mutant of Clears: every refusal clears the cookie. *)
ClearsOnRefusal(p) == ~out[p].ok
(* shouldClearRefreshTokenCookie, and LogoutHandler's condition. *)
Clears(p) == out[p].code \in {"used", "inactive", "expired"} \/ (Op[p] = "logout" /\ out[p].ok)

(* The answer arrives: SetCookie writes or clears, other answers leave the
   cookie as it is. *)
Deliver(p) ==
  /\ OneBrowser /\ pc[p] = "done" /\ p \notin delivered /\ Op[p] \notin {"change", "reset"}
  /\ delivered' = delivered \cup {p}
  /\ cookie' = IF out[p].token # NoToken THEN out[p].token
               ELSE IF Clears(p) THEN NoToken ELSE cookie
  /\ UNCHANGED <<db, redis, over, held, pc, arg, out, committed, faults>>

(* Max-Age is what is left until not_after. *)
CookieExpires ==
  /\ cookie # NoToken /\ cookie.sid \in over
  /\ cookie' = NoToken
  /\ UNCHANGED <<db, redis, over, delivered, held, pc, arg, out, committed, faults>>

-----------------------------------------------------------------------------
(* What MySQL, Redis, time and other programs do *)

(* The rows p's next statement has to lock. *)
Wants(p) ==
  CASE pc[p] = "sent"   -> SessionRead(arg[p].token.sid)
    [] pc[p] = "user"   -> UserRead(arg[p].user)
    [] pc[p] = "insert" -> {RangeLock(arg[p].user)}
    [] pc[p] = "stamp"  -> {UserLock(arg[p].user)}
    [] pc[p] = "logout" -> {EntryLock(arg[p].sid)}
    [] pc[p] = "revoke" -> {UserLock(arg[p].user)} \cup ScanNext(p)
    [] OTHER            -> {}

WaitsFor(p, q) == Wants(p) \cap held[q] # {}

(* Two transactions that wait for each other; by DeadlocksArePairs no cycle of
   these waits is without such two. *)
Deadlocked(p) == \E q \in Request \ {p} : WaitsFor(p, q) /\ WaitsFor(q, p)

Rollback(p) ==
  /\ pc[p] \in InTransaction
  /\ Refuse(p, IF Op[p] = "reset" THEN "release" ELSE "done")
  /\ UNCHANGED <<db, redis, over, client, arg, out, committed>>

(* InnoDB rolls one of the two back. *)
Victim(p) == Deadlocked(p) /\ Rollback(p) /\ UNCHANGED faults

(* A statement fails, or the client is gone and the context is cancelled. *)
Abort(p) == Fail /\ Rollback(p)

(* The lock key expires after resetTicketLockSeconds, whatever its owner does. *)
LockExpires(t) ==
  /\ owner[t] # None
  /\ owner' = [owner EXCEPT ![t] = None]
  /\ lapsed' = IF pc[owner[t]] \in {"user", "revoke", "newPassword", "consume"}
               THEN lapsed \cup {owner[t]} ELSE lapsed
  /\ UNCHANGED <<db, code, ticket, over, client, held, pc, arg, out, committed, faults>>

TicketExpires(t) ==
  /\ ticket[t] # None
  /\ ticket' = [ticket EXCEPT ![t] = None]
  /\ UNCHANGED <<db, code, owner, lapsed, over, client, held, pc, arg, out, committed, faults>>

(* not_after passes; no code moves it. *)
SessionExpires(s) ==
  /\ session[s].user # None /\ s \notin over
  /\ over' = over \cup {s}
  /\ UNCHANGED <<db, redis, client, held, pc, arg, out, committed, faults>>

(* An operator disables an account, outside this code. *)
DisableAccount(u) ==
  /\ user[u].normal /\ Free(None, {UserLock(u)})
  /\ user' = [user EXCEPT ![u].normal = FALSE]
  /\ UNCHANGED <<device, session, redis, over, client, held, pc, arg, out, committed, faults>>

Begin(p) ==
  \/ LoginByPassword(p) \/ LoginByPhone(p) \/ SendRefresh(p) \/ Refresh(p)
  \/ Logout(p) \/ ChangePassword(p) \/ ResetPassword(p)

Continue(p) ==
  \/ ConsumeLoginCode(p) \/ ResolveLoginDevice(p) \/ InsertSession(p)
  \/ UpdateLastLoginAt(p) \/ CommitLogin(p)
  \/ RefreshAccount(p) \/ CommitRefresh(p) \/ CommitLogout(p)
  \/ LockResetUser(p) \/ RevokeSessions(p) \/ CommitPassword(p)
  \/ ConsumeResetTicket(p) \/ ReleaseTicketLock(p)

Environment ==
  \/ \E p \in Request : Abort(p) \/ SessionExpires(p)
  \/ \E t \in Ticket : LockExpires(t) \/ TicketExpires(t)
  \/ \E u \in User : DisableAccount(u)

Next ==
  \/ \E p \in Request : Begin(p) \/ Continue(p) \/ Victim(p)
  \/ (\E p \in Request : Deliver(p)) \/ CookieExpires
  \/ Environment

Spec == Init /\ [][Next]_vars

(* A goroutine that can go on does, and InnoDB resolves deadlocks; nothing
   makes a client send or a network deliver. *)
FairSpec == Spec /\ \A p \in Request : WF_vars(Continue(p) \/ Victim(p))

-----------------------------------------------------------------------------
(* The inductive invariant *)

(* Which places the requests of an endpoint can be at. *)
Places(op) ==
  CASE op = "password" -> {"idle", "device", "insert", "stamp", "login", "done"}
    [] op = "phone"    -> {"idle", "code", "device", "insert", "stamp", "login", "done"}
    [] op = "refresh"  -> {"idle", "sent", "account", "refresh", "done"}
    [] op = "logout"   -> {"idle", "logout", "done"}
    [] op = "change"   -> {"idle", "revoke", "newPassword", "done"}
    [] op = "reset"    -> {"idle", "user", "revoke", "newPassword", "consume", "release", "done"}

AtPlaces == \A p \in Request : pc[p] \in Places(Op[p])

(* Two transactions never hold the same row. *)
LocksAreExclusive == \A p, q \in Request : p # q => held[p] \cap held[q] = {}

(* A request outside a transaction holds no row, and one inside holds what it
   has read or written. *)
Holds(p, place, rows, a) ==
  /\ place \notin InTransaction => rows = {}
  /\ place \in {"stamp", "login"} => {SessionLock(p), EntryLock(p)} \subseteq rows
  /\ place = "login" => UserLock(a.user) \in rows
  /\ place \in {"account", "refresh"} => SessionLock(a.token.sid) \in rows
  /\ place = "logout" => SessionLock(a.sid) \in rows
  /\ place \in {"revoke", "newPassword"} => UserLock(a.user) \in rows
  /\ place = "newPassword" => RangeLock(a.user) \in rows
LocksHeld == \A p \in Request : Holds(p, pc[p], held[p], arg[p])

(* A new password about to be committed has locked all sessions of its user,
   and no login is about to insert another. *)
RevokedAreLocked ==
  \A p \in Request : pc[p] = "newPassword" => \A s \in SessionsOf(arg[p].user) :
    /\ session[s] # NoSession => SessionLock(s) \in held[p]
    /\ pc[s] \notin {"stamp", "login"}

(* Another request than its login locks only a session that is committed. *)
LockedAreInserted ==
  \A p \in Request : \A s \in Login \ {p} :
    SessionLock(s) \in held[p] \/ EntryLock(s) \in held[p] => session[s] # NoSession

(* A row a transaction is about to write back whole is still the one in the
   table, and what a new password revokes is still all there is to revoke. *)
Revocable(u, sid) == {s \in Request : session[s].user = u /\ session[s].active /\ s # sid}
Fresh(place, a) ==
  /\ place \in {"account", "refresh"} =>
       a.row = session[a.token.sid] /\ a.row.active /\ a.row.ctr = a.token.ctr
  /\ place = "logout" => a.row = session[a.sid] /\ a.row.active
  /\ place \in {"revoke", "newPassword"} => a.account = user[a.user]
  /\ place = "newPassword" => a.revoked = Revocable(a.user, a.sid)
RowsAreFresh == \A p \in Request : Fresh(pc[p], arg[p])

(* A session is in the table only if its login has committed. *)
SessionsAreCommitted ==
  \A s \in Request : session[s] # NoSession =>
    /\ s \in Login /\ pc[s] = "done"
    /\ session[s].user \in User /\ session[s].user = arg[s].user

(* What has committed is answered.  A session's tokens were spent one after
   the other by refreshes that have committed, up to its counter, and nobody
   has a later token. *)
TokensAreSpent ==
  /\ \A p \in committed : pc[p] \in {"consume", "release", "done"}
  /\ \A p \in committed : Op[p] = "refresh" =>
       arg[p].token \in Token /\ arg[p].token.ctr < session[arg[p].token.sid].ctr
  /\ \A s \in Request : \A n \in 0 .. session[s].ctr - 1 :
       \E q \in committed : Op[q] = "refresh" /\ arg[q].token = [sid |-> s, ctr |-> n]
  /\ \A q \in Request : Receives(q) =>
       /\ pc[q] = "done" /\ out[q].token \in Token
       /\ session[out[q].token.sid] # NoSession
       /\ out[q].token.ctr <= session[out[q].token.sid].ctr

(* A token is handed out once, and without faults the current one is. *)
TokensAreDistinct ==
  /\ \A p, q \in Request : Receives(p) /\ Receives(q) /\ out[p].token = out[q].token => p = q
  /\ faults = 0 => \A s \in Request : session[s] # NoSession =>
       \E q \in Request : Receives(q) /\ out[q].token = [sid |-> s, ctr |-> session[s].ctr]

(* The cookie is a token that was handed out. *)
CookieIsIssued ==
  /\ \A p \in Request : out[p].token # NoToken => Receives(p)
  /\ cookie # NoToken => cookie \in Issued

(* What a request knows at the place it has reached. *)
Knows(op, place, a) ==
  /\ place = "idle" => a = NoArg
  /\ place \in {"code", "device", "insert", "stamp", "login", "user", "revoke", "newPassword"} =>
       a.user \in User
  /\ place \in {"insert", "stamp", "login"} => a.device \in Request
  /\ place \in {"sent", "account", "refresh"} =>
       /\ a.token \in Token /\ session[a.token.sid] # NoSession
       /\ a.token.ctr <= session[a.token.sid].ctr
  /\ place = "logout" =>
       a.sid \in Request /\ session[a.sid] # NoSession /\ a.user = session[a.sid].user
  /\ place \in {"revoke", "newPassword"} => a.account \in UserRow
  /\ place \in {"user", "revoke", "newPassword"} => a.new \in Password
  /\ op = "reset" /\ place \notin {"idle", "done"} => a.ticket \in Ticket
Informed == \A p \in Request : Knows(Op[p], pc[p], arg[p])

(* A reset that runs and has not lapsed owns the lock of its ticket, which no
   other that has not lapsed was answered for; once it is answered itself and
   has consumed the ticket, that is gone. *)
Resetting(p) == Op[p] = "reset" /\ pc[p] \in {"user", "revoke", "newPassword", "consume"}
TicketsHeld ==
  \A p \in Request : Op[p] = "reset" =>
    /\ out[p].ok => pc[p] \in {"consume", "release", "done"} /\ arg[p].ticket \in Ticket
    /\ p \notin lapsed =>
         /\ Resetting(p) =>
              /\ owner[arg[p].ticket] = p
              /\ \A q \in Request \ {p} :
                   Op[q] = "reset" /\ arg[q].ticket = arg[p].ticket /\ out[q].ok => q \in lapsed
         /\ out[p].ok /\ pc[p] # "consume" => ticket[arg[p].ticket] = None

IInv ==
  /\ TypeOK /\ AtPlaces
  /\ LocksAreExclusive /\ LocksHeld /\ RevokedAreLocked /\ LockedAreInserted
  /\ RowsAreFresh /\ SessionsAreCommitted /\ TokensAreSpent /\ TokensAreDistinct
  /\ CookieIsIssued /\ Informed /\ TicketsHeld

(* What the browser has received.  A session's tokens arrive in their order,
   because a refresh is sent with the cookie, and the cookie is the last one. *)
Arrived(t) == \E q \in delivered : Receives(q) /\ out[q].token = t
TokensArriveInOrder ==
  /\ delivered # {} \/ cookie # NoToken => OneBrowser
  /\ \A q \in delivered : pc[q] = "done"
  /\ OneBrowser => \A p \in Request :
       Op[p] = "refresh" /\ (pc[p] \in {"sent", "account", "refresh"} \/ p \in committed) =>
         Arrived(arg[p].token)
  /\ OneBrowser => \A q \in Request : Receives(q) =>
       \A n \in 0 .. out[q].token.ctr - 1 : Arrived([sid |-> out[q].token.sid, ctr |-> n])
  /\ \A q \in committed : Op[q] = "refresh" /\ out[q].ok =>
       out[q].token = [sid |-> arg[q].token.sid, ctr |-> arg[q].token.ctr + 1]
  /\ cookie # NoToken =>
       /\ Arrived(cookie)
       /\ \A q \in delivered : Receives(q) /\ out[q].token.sid = cookie.sid =>
            out[q].token.ctr <= cookie.ctr

(* A refusal that clears the cookie is final: the session it is about will
   not be live again. *)
Ended(s) == s \in Request /\ session[s] # NoSession /\ ~session[s].active
AnswersAreFinal ==
  \A p \in Request :
    /\ Op[p] = "refresh" => arg[p].sid = None
    /\ Op[p] = "logout" => arg[p].token = NoToken
    /\ out[p].code \in {"used", "inactive", "expired"} => Op[p] = "refresh" /\ pc[p] = "done"
    /\ out[p].code = "inactive" => Ended(arg[p].token.sid)
    /\ out[p].code = "expired" => arg[p].token.sid \in over
    /\ Op[p] = "logout" /\ out[p].ok => pc[p] = "done" /\ Ended(arg[p].sid)

-----------------------------------------------------------------------------
(* Properties *)

(* A refresh token is accepted once: of concurrent refreshes with the same
   token one raises the counter and the others find it raised. *)
TokenAcceptedOnce ==
  \A p, q \in committed :
    Op[p] = "refresh" /\ Op[q] = "refresh" /\ arg[p].token = arg[q].token => p = q

(* The counter in the table is that of the last token handed out: a live
   session has one usable token, and loses it only with a lost COMMIT. *)
CurrentTokenIssued ==
  \A s \in Request : session[s].active =>
    LET holders == {q \in Request : Receives(q) /\ out[q].token = [sid |-> s, ctr |-> session[s].ctr]}
    IN  Cardinality(holders) <= 1 /\ (faults = 0 => Cardinality(holders) = 1)

(* "already used" is true: another refresh has spent that very token. *)
UsedMeansAccepted ==
  \A p \in Request : out[p].code = "used" =>
    \E q \in committed \ {p} : Op[q] = "refresh" /\ arg[q].token = arg[p].token

(* The cookie is the token its session accepts next, or the one before it
   and then the answer to the refresh that spent it has not arrived, being
   under way or lost, or was an error because its COMMIT's was lost. *)
CookieLagsByOneAnswer ==
  cookie # NoToken =>
    LET s == cookie.sid IN
    \/ session[s].ctr = cookie.ctr
    \/ /\ session[s].ctr = cookie.ctr + 1
       /\ \E q \in committed : /\ Op[q] = "refresh" /\ arg[q].token = cookie
                               /\ q \in delivered => ~out[q].ok

(* The browser loses the cookie of a live session only to an answer about
   another session, or to "already used": a second refresh was sent before
   the answer of the first, or that answer was lost. *)
LiveCookieKept ==
  [][cookie # NoToken /\ cookie' = NoToken /\ session[cookie.sid].active /\ cookie.sid \notin over =>
       \E p \in delivered' \ delivered :
         \/ out[p].code = "used"
         \/ {arg[p].sid, arg[p].token.sid} \cap {cookie.sid} = {}]_vars

(* What module TokenChain says of a session's tokens: requests that race
   for the row of a session change it one after the other. *)
Life(s) == IF session[s].user = None THEN "none"
           ELSE IF session[s].active THEN "live" ELSE "ended"
TC == INSTANCE TokenChain WITH
  Session <- Request,
  chain <- [s \in Request |-> [life |-> Life(s), next |-> session[s].ctr]]
ImplementsTokenChain == TC!Spec

(* A new password writes back a whole user row; it neither enables a disabled
   account again nor restores an older last login. *)
UserRowKept ==
  [][\A u \in User :
       /\ user'[u].normal => user[u].normal
       /\ user'[u].lastLogin # user[u].lastLogin => user'[u].lastLogin \in committed' \ committed]_vars

(* When a new password is committed, no session of the user is live but the
   one that asked for the change, nor is one inserted and still uncommitted. *)
PasswordChangeEndsSessions ==
  [][\A p \in committed' \ committed : Op[p] \in {"change", "reset"} =>
       /\ \A s \in Request : session'[s].user = arg[p].user /\ session'[s].active => s = arg[p].sid
       /\ \A s \in SessionsOf(arg[p].user) : pc[s] \notin {"stamp", "login"}]_vars

(* A ticket that has changed a password changes another only after a reset
   that did not hear of its COMMIT and was answered with a failure, or if one
   of the two resets lost the lock to expiry while it ran, or if Redis failed
   to consume the ticket (resetpasswordlogic.go:248-281). *)
TicketResetsOnce ==
  [][\A p, q \in committed' :
       /\ p \notin committed /\ q # p /\ Op[p] = "reset" /\ Op[q] = "reset"
       /\ arg[p].ticket = arg[q].ticket
       => ~out[q].ok \/ p \in lapsed \/ q \in lapsed]_vars

(* A lock key leaves its owner by the owner's own step or by expiry: a reset
   whose lock has expired never frees the lock of the one that came after. *)
LockLeavesByOwner ==
  [][\A t \in Ticket : owner[t] # None /\ owner'[t] # owner[t] =>
       pc' = pc \/ pc'[owner[t]] # pc[owner[t]]]_vars

(* What a request that waits for a lock has locked at most: a login before
   its session, its device; before the user, its own session too; a logout
   before the entry, the row; a new password the user, and sessions as far as
   it has scanned them. *)
DeviceLocks == {DeviceLock(d) : d \in Request}
HoldsAtMost(p, place, rows, a) ==
  /\ place \in {"device", "user"} => rows = {}
  /\ place = "insert" => rows \subseteq DeviceLocks
  /\ place = "stamp" => rows \subseteq DeviceLocks \cup {SessionLock(p), EntryLock(p)}
  /\ place = "logout" => rows \subseteq {SessionLock(a.sid)}
  /\ place = "revoke" => rows \subseteq
       {UserLock(a.user)} \cup UNION {{SessionLock(s), EntryLock(s)} : s \in SessionsOf(a.user)}
LocksAtMost == \A p \in Request : HoldsAtMost(p, pc[p], held[p], arg[p])

(* When a request that holds rows waits for one that waits itself, they are of
   one user.  A login or a logout so waits only for a new password; and whom a
   new password so waits for, a login or a logout, waits for it.  So no cycle
   of waits is without a new password and a login or logout that wait for each
   other, whose orders of locking are opposite (login.go:67-85,
   logoutlogic.go:59-98, resetpasswordlogic.go:201-246). *)
Blocked(p) == \E q \in Request \ {p} : WaitsFor(p, q)
NewPassword(p) == Op[p] \in {"change", "reset"}
InOrOut(p) == Op[p] \in {"password", "phone", "logout"}
DeadlocksArePairs ==
  \A p, q \in Request :
    p # q /\ held[p] # {} /\ WaitsFor(p, q) /\ Blocked(q) =>
      /\ arg[p].user = arg[q].user
      /\ (InOrOut(p) /\ NewPassword(q)) \/ (NewPassword(p) /\ InOrOut(q) /\ WaitsFor(q, p))

(* Every request is answered, as none begins twice and there is always a later
   moment when none is under way: the deadlocks of a new password with a login
   or a logout, which lock user, sessions and their index entries in opposite
   orders, are resolved. *)
RequestsReturn == []<>(\A p \in Request : pc[p] \in {"idle", "sent", "done"})
=============================================================================
