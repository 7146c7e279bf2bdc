----------------------------- MODULE CookieProofs -----------------------------
(***************************************************************************)
(* Theorems about the browser's refresh cookie, for every set of requests: *)
(* answers arrive late, in any order or never, and the cookie still is the *)
(* current token of its session or one answer behind it.                   *)
(***************************************************************************)
EXTENDS SessionsProofs

USE NoneAssumption, MaxFaultsAssumption

Acts(p) == Begin(p) \/ Continue(p) \/ Victim(p) \/ Abort(p)

(* A request that acts is not answered yet, and no other request moves. *)
LEMMA Actors ==
  ASSUME TypeOK, Core, NEW p \in Request, Acts(p)
  PROVE  /\ Moves(p) /\ pc[p] # "done" /\ client' = client
         /\ Local(p) \/ (CommitOf(p) /\ Commits(p))
  <1>1. CASE Begin(p)
    BY <1>1, LoginBeginIsLocal, SendRefreshIsLocal, RefreshIsLocal, LogoutIsLocal,
       ChangePasswordIsLocal, ResetPasswordIsLocal DEF Begin, Local, Quiet, Proceeds
  <1>2. CASE CommitOf(p)
    <2>1. Moves(p) /\ Commits(p)
      BY <1>2, CommitLoginCommits, CommitRefreshCommits, CommitLogoutCommits,
         CommitPasswordCommits DEF CommitOf
    <2> QED
      BY <1>2, <2>1 DEF Commits
  <1>3. CASE Continue(p) /\ ~CommitOf(p)
    <2>1. ConsumeLoginCode(p) \/ ResolveLoginDevice(p) \/ InsertSession(p) \/ UpdateLastLoginAt(p)
            => Local(p)
      BY ConsumeLoginCodeIsLocal, ResolveLoginDeviceIsLocal, InsertSessionIsLocal,
         UpdateLastLoginAtIsLocal
    <2>2. RefreshAccount(p) \/ LockResetUser(p) \/ RevokeSessions(p) => Local(p)
      BY RefreshAccountIsLocal, LockResetUserIsLocal, RevokeSessionsIsLocal
    <2>3. ConsumeResetTicket(p) \/ ReleaseTicketLock(p) => Local(p)
      BY ConsumeResetTicketIsLocal, ReleaseTicketLockIsLocal
    <2>4. Local(p)
      BY <1>3, <2>1, <2>2, <2>3 DEF Continue, CommitOf
    <2> QED
      BY <2>4 DEF Local, Quiet, Proceeds
  <1>4. CASE Victim(p) \/ Abort(p)
    BY <1>4, RollbackIsLocal DEF Victim, Abort, Local, Quiet, Proceeds
  <1> QED
    BY <1>1, <1>2, <1>3, <1>4 DEF Acts

LEMMA ActOrWorld ==
  ASSUME Next
  PROVE  (\E p \in Request : Acts(p)) \/ World
  BY DEF Next, Environment, World, Acts

(* The steps of a refresh, of a logout, and those of other requests. *)
LEMMA RefreshActs ==
  ASSUME TypeOK, Core, NEW p \in Request, Acts(p), Op[p] = "refresh"
  PROVE  SendRefresh(p) \/ Refresh(p) \/ RefreshAccount(p) \/ CommitRefresh(p) \/ Victim(p) \/ Abort(p)
  <1>1. pc[p] \in {"idle", "sent", "account", "refresh", "done"}
    BY CoreAt DEF Places
  <1> QED
    BY <1>1 DEF Acts, Begin, LoginByPassword, LoginByPhone, Logout, ChangePassword, ResetPassword,
       Continue, ConsumeLoginCode, ResolveLoginDevice, InsertSession, UpdateLastLoginAt,
       CommitLogin, CommitLogout, LockResetUser, RevokeSessions, CommitPassword,
       ConsumeResetTicket, ReleaseTicketLock

LEMMA LogoutActs ==
  ASSUME TypeOK, Core, NEW p \in Request, Acts(p), Op[p] = "logout"
  PROVE  Logout(p) \/ CommitLogout(p) \/ Victim(p) \/ Abort(p)
  <1>1. pc[p] \in {"idle", "logout", "done"}
    BY CoreAt DEF Places
  <1> QED
    BY <1>1 DEF Acts, Begin, LoginByPassword, LoginByPhone, SendRefresh, Refresh, ChangePassword,
       ResetPassword, Continue, ConsumeLoginCode, ResolveLoginDevice, InsertSession,
       UpdateLastLoginAt, CommitLogin, RefreshAccount, CommitRefresh, LockResetUser,
       RevokeSessions, CommitPassword, ConsumeResetTicket, ReleaseTicketLock

LEMMA RefreshAnswer ==
  ASSUME TypeOK, Core, NEW p \in Request, CommitRefresh(p), out'[p].ok
  PROVE  out'[p].token = [sid |-> arg[p].token.sid, ctr |-> arg[p].token.ctr + 1]
  <1>1. /\ pc[p] = "refresh" /\ arg[p].row.ctr = arg[p].token.ctr /\ ~Receives(p) /\ Op[p] = "refresh"
    BY CoreAt, PlaceOps DEF CommitRefresh, Fresh, Core
  <1>2. out \in [Request -> Answer] /\ ~out[p].ok
    BY <1>1 DEF TypeOK, Receives
  <1>3. out' = [out EXCEPT ![p] = SuccessWith(NewToken(arg[p].token.sid, arg[p].row))]
    BY <1>2 DEF CommitRefresh, Commit
  <1>4. out'[p].token = NewToken(arg[p].token.sid, arg[p].row)
    BY <1>2, <1>3 DEF SuccessWith, Success
  <1> QED
    BY <1>1, <1>4 DEF NewToken

LEMMA LoginAnswer ==
  ASSUME TypeOK, Core, NEW p \in Request, CommitLogin(p), Receives(p)'
  PROVE  out'[p].token.ctr = 0
  <1>1. out \in [Request -> Answer] /\ ~Receives(p)
    BY CoreAt DEF TypeOK, CommitLogin
  <1>2. out' = [out EXCEPT ![p] = SuccessWith([sid |-> p, ctr |-> 0])]
    BY <1>1 DEF CommitLogin, Commit, Receives
  <1> QED
    BY <1>1, <1>2 DEF SuccessWith, Success

-----------------------------------------------------------------------------
(* The order of arrival *)

(* A request's own step changes nothing of what has arrived. *)
LEMMA ArrivedStays ==
  ASSUME TypeOK, Core, NEW p \in Request, Acts(p), \A q \in delivered : pc[q] = "done"
  PROVE  /\ delivered' = delivered /\ cookie' = cookie
         /\ \A q \in delivered : /\ q # p /\ pc'[q] = pc[q] /\ out'[q] = out[q]
                                 /\ Receives(q)' = Receives(q)
         /\ \A t : Arrived(t) => Arrived(t)'
  <1>1. Moves(p) /\ pc[p] # "done" /\ client' = client
    BY Actors
  <1>2. \A q \in delivered : q \in Request /\ q # p
    BY <1>1 DEF TypeOK
  <1>3. \A q \in delivered : pc'[q] = pc[q] /\ out'[q] = out[q] /\ Receives(q)' = Receives(q)
    BY <1>1, <1>2, OthersStay DEF Receives
  <1> QED
    BY <1>1, <1>2, <1>3 DEF Arrived, client

LEMMA OrderAtActs ==
  ASSUME TypeOK, Core, TokensArriveInOrder, NEW p \in Request, Acts(p)
  PROVE  TokensArriveInOrder'
  <1>1. /\ delivered' = delivered /\ cookie' = cookie
        /\ \A q \in delivered : /\ q # p /\ pc'[q] = pc[q] /\ out'[q] = out[q]
                                /\ Receives(q)' = Receives(q)
        /\ \A t : Arrived(t) => Arrived(t)'
    BY ArrivedStays DEF TokensArriveInOrder
  <1>2. /\ Moves(p) /\ pc[p] # "done" /\ ~Receives(p)
        /\ Local(p) \/ (CommitOf(p) /\ Commits(p))
        /\ committed' = committed \/ (committed' = committed \cup {p} /\ arg' = arg)
    <2>1. Moves(p) /\ pc[p] # "done" /\ (Local(p) \/ (CommitOf(p) /\ Commits(p)))
      BY Actors
    <2> QED
      BY <2>1, CoreAt DEF Local, Quiet, Commits
  <1>3. \A q \in Request : q # p => /\ pc'[q] = pc[q] /\ arg'[q] = arg[q] /\ out'[q] = out[q]
                                    /\ Receives(q)' = Receives(q)
    BY <1>2, OthersStay DEF Receives
  <1>4. Op[p] = "refresh" =>
          /\ OneBrowser /\ (pc'[p] \in {"sent", "account", "refresh"} \/ p \in committed') =>
               Arrived(arg'[p].token)
          /\ p \in committed' /\ out'[p].ok =>
               out'[p].token = [sid |-> arg'[p].token.sid, ctr |-> arg'[p].token.ctr + 1]
          /\ Receives(p)' => CommitRefresh(p)
    <2> SUFFICES ASSUME Op[p] = "refresh"
                 PROVE  /\ OneBrowser /\ (pc'[p] \in {"sent", "account", "refresh"} \/ p \in committed') =>
                             Arrived(arg'[p].token)
                        /\ p \in committed' /\ out'[p].ok =>
                             out'[p].token = [sid |-> arg'[p].token.sid, ctr |-> arg'[p].token.ctr + 1]
                        /\ Receives(p)' => CommitRefresh(p)
      OBVIOUS
    <2>1. p \notin committed /\ arg[p] \in Arg /\ arg \in [Request -> Arg]
      BY <1>2, CoreAt, PlaceOps DEF Core, TypeOK
    <2>2. CASE SendRefresh(p)
      <3>1. PICK t \in Presented : arg' = [arg EXCEPT ![p].token = t]
        BY <2>2 DEF SendRefresh
      <3>2. arg'[p].token = t /\ committed' = committed /\ out' = out
        BY <2>1, <2>2, <3>1 DEF SendRefresh, Arg
      <3>3. OneBrowser => t = cookie /\ cookie # NoToken
        BY <3>1 DEF Presented
      <3> QED
        BY <1>2, <2>1, <3>2, <3>3 DEF TokensArriveInOrder, Receives
    <2>3. CASE Refresh(p)
      <3>1. pc[p] = "sent" /\ committed' = committed /\ ~Receives(p)'
        BY <1>2, <2>3 DEF Refresh, Local, Proceeds, CommitOf, CommitLogin, CommitRefresh,
                          CommitLogout, CommitPassword, Receives
      <3>2. arg'[p].token = arg[p].token
        BY <2>1, <2>3 DEF Refresh, NoArg
      <3> QED
        BY <2>1, <3>1, <3>2 DEF TokensArriveInOrder
    <2>4. CASE RefreshAccount(p) \/ Victim(p) \/ Abort(p)
      <3>1. arg' = arg /\ committed' = committed /\ out' = out
        BY <2>4 DEF RefreshAccount, Victim, Abort, Rollback
      <3>2. pc'[p] \in {"sent", "account", "refresh"} => pc[p] \in {"sent", "account", "refresh"}
        <4>1. pc \in [Request -> PC]
          BY DEF TypeOK
        <4> QED
          BY <2>4, <4>1 DEF RefreshAccount, Victim, Abort, Rollback, Goto, Refused, Refuse
      <3> QED
        BY <1>2, <2>1, <3>1, <3>2 DEF TokensArriveInOrder, Receives
    <2>5. CASE CommitRefresh(p)
      <3>1. pc[p] = "refresh" /\ arg' = arg
        BY <2>5 DEF CommitRefresh
      <3> QED
        BY <2>5, <3>1, RefreshAnswer DEF TokensArriveInOrder
    <2> QED
      BY <2>2, <2>3, <2>4, <2>5, RefreshActs
  <1>5. Receives(p)' => \A n \in 0 .. out'[p].token.ctr - 1 :
          OneBrowser => Arrived([sid |-> out'[p].token.sid, ctr |-> n])
    <2> SUFFICES ASSUME Receives(p)', OneBrowser, NEW n \in 0 .. out'[p].token.ctr - 1
                 PROVE  Arrived([sid |-> out'[p].token.sid, ctr |-> n])
      OBVIOUS
    <2>1. CASE Op[p] = "refresh"
      <3>1. CommitRefresh(p) /\ out'[p].ok /\ pc[p] = "refresh"
        BY <1>4, <2>1 DEF Receives, CommitRefresh
      <3> DEFINE t == arg[p].token
      <3>2. /\ out'[p].token = [sid |-> t.sid, ctr |-> t.ctr + 1] /\ t \in Token
            /\ Arrived(t)
        BY <2>1, <3>1, CoreAt, RefreshAnswer DEF Knows, TokensArriveInOrder
      <3>3. t.ctr \in Nat /\ t = [sid |-> t.sid, ctr |-> t.ctr] /\ out'[p].token.ctr = t.ctr + 1
            /\ out'[p].token.sid = t.sid
        BY <3>2 DEF Token
      <3>4. PICK q \in delivered : Receives(q) /\ out[q].token = t /\ q \in Request
        BY <3>2 DEF Arrived, TypeOK
      <3>5. n = t.ctr \/ n \in 0 .. t.ctr - 1
        BY <3>3
      <3>6. n \in 0 .. t.ctr - 1 => Arrived([sid |-> t.sid, ctr |-> n])
        BY <3>4 DEF TokensArriveInOrder
      <3> QED
        BY <3>2, <3>3, <3>5, <3>6
    <2>2. CASE Op[p] # "refresh"
      <3>1. ~Local(p)
        BY DEF Local, Proceeds, Receives
      <3>2. p \in Login
        BY <2>2 DEF Receives, Login
      <3>3. CommitOf(p) /\ Op[p] \notin {"refresh", "logout", "change", "reset"}
        BY <1>2, <3>1, <3>2 DEF Login
      <3>4. CommitLogin(p)
        BY <3>3, PlaceOps DEF CommitOf, CommitRefresh, CommitLogout, CommitPassword, Core
      <3>5. out'[p].token.ctr = 0
        BY <3>4, LoginAnswer
      <3> QED
        BY <3>5
    <2> QED
      BY <2>1, <2>2
  <1>6. OneBrowser => \A q \in Request :
          Op[q] = "refresh" /\ (pc'[q] \in {"sent", "account", "refresh"} \/ q \in committed') =>
            Arrived(arg[q].token)'
    <2> SUFFICES ASSUME OneBrowser, NEW q \in Request, Op[q] = "refresh",
                        pc'[q] \in {"sent", "account", "refresh"} \/ q \in committed'
                 PROVE  Arrived(arg[q].token)'
      OBVIOUS
    <2>1. q # p /\ q \in committed' => q \in committed
      BY <1>2
    <2>2. PICK t : t = arg'[q].token
      OBVIOUS
    <2>3. Arrived(t)
      BY <1>3, <1>4, <2>1, <2>2 DEF TokensArriveInOrder
    <2> QED
      BY <1>1, <2>2, <2>3 DEF Arrived
  <1>7. OneBrowser => \A q \in Request : Receives(q)' =>
          \A n \in 0 .. out'[q].token.ctr - 1 : Arrived([sid |-> out[q].token.sid, ctr |-> n])'
    <2> SUFFICES ASSUME OneBrowser, NEW q \in Request, Receives(q)',
                        NEW n \in 0 .. out'[q].token.ctr - 1
                 PROVE  Arrived([sid |-> out[q].token.sid, ctr |-> n])'
      OBVIOUS
    <2>1. PICK t : t = [sid |-> out'[q].token.sid, ctr |-> n]
      OBVIOUS
    <2>2. Arrived(t)
      BY <1>3, <1>5, <2>1 DEF TokensArriveInOrder
    <2> QED
      BY <1>1, <2>1, <2>2 DEF Arrived
  <1>8. \A q \in committed' : Op[q] = "refresh" /\ out'[q].ok =>
          out'[q].token = [sid |-> arg'[q].token.sid, ctr |-> arg'[q].token.ctr + 1]
    <2>1. \A q \in committed' : q = p \/ (q \in committed /\ q \in Request)
      BY <1>2 DEF TypeOK
    <2> QED
      BY <1>3, <1>4, <2>1 DEF TokensArriveInOrder
  <1>9. cookie' # NoToken =>
          /\ Arrived(cookie)'
          /\ \A q \in delivered' : Receives(q)' /\ out'[q].token.sid = cookie'.sid =>
               out'[q].token.ctr <= cookie'.ctr
    <2>1. Arrived(cookie) => Arrived(cookie)'
      <3>1. PICK c : c = cookie
        OBVIOUS
      <3> QED
        BY <1>1, <3>1
    <2> QED
      BY <1>1, <2>1 DEF TokensArriveInOrder
  <1>10. (delivered' # {} \/ cookie' # NoToken => OneBrowser) /\ \A q \in delivered' : pc'[q] = "done"
    BY <1>1 DEF TokensArriveInOrder
  <1> QED
    BY <1>6, <1>7, <1>8, <1>9, <1>10 DEF TokensArriveInOrder

LEMMA OrderAtDeliver ==
  ASSUME TypeOK, Core, TokensArriveInOrder, NEW p \in Request, Deliver(p)
  PROVE  TokensArriveInOrder'
  <1>1. /\ OneBrowser /\ pc[p] = "done" /\ p \notin delivered
        /\ delivered' = delivered \cup {p} /\ UNCHANGED <<pc, arg, out, committed>>
        /\ cookie' = IF out[p].token # NoToken THEN out[p].token
                     ELSE IF Clears(p) THEN NoToken ELSE cookie
    BY DEF Deliver
  <1>2. \A q \in Request : Receives(q)' = Receives(q) /\ out'[q] = out[q]
    BY <1>1 DEF Receives
  <1>3. \A t : Arrived(t) => Arrived(t)'
    BY <1>1, <1>2 DEF Arrived, TypeOK
  <1>4. \A q \in Request : Op[q] = "refresh" /\ (pc'[q] \in {"sent", "account", "refresh"} \/ q \in committed') =>
          Arrived(arg[q].token)'
    <2> SUFFICES ASSUME NEW q \in Request, Op[q] = "refresh",
                        pc[q] \in {"sent", "account", "refresh"} \/ q \in committed
                 PROVE  Arrived(arg[q].token)'
      BY <1>1
    <2>1. PICK t : t = arg[q].token
      OBVIOUS
    <2>2. Arrived(t)
      BY <1>1, <2>1 DEF TokensArriveInOrder
    <2> QED
      BY <1>1, <1>3, <2>1, <2>2 DEF Arrived
  <1>5. \A q \in Request : Receives(q)' =>
          \A n \in 0 .. out'[q].token.ctr - 1 : Arrived([sid |-> out[q].token.sid, ctr |-> n])'
    <2> SUFFICES ASSUME NEW q \in Request, Receives(q), NEW n \in 0 .. out[q].token.ctr - 1
                 PROVE  Arrived([sid |-> out[q].token.sid, ctr |-> n])'
      BY <1>1, <1>2
    <2>1. PICK t : t = [sid |-> out[q].token.sid, ctr |-> n]
      OBVIOUS
    <2>2. Arrived(t)
      BY <1>1, <2>1 DEF TokensArriveInOrder
    <2> QED
      BY <1>1, <1>3, <2>1, <2>2 DEF Arrived
  <1>6. cookie' # NoToken =>
          /\ Arrived(cookie)'
          /\ \A q \in delivered' : Receives(q)' /\ out'[q].token.sid = cookie'.sid =>
               out'[q].token.ctr <= cookie'.ctr
    <2>1. CASE out[p].token # NoToken
      <3>1. Receives(p) /\ out[p].token \in Token /\ cookie' = out[p].token
        BY <1>1, <2>1 DEF Core, CookieIsIssued, TokensAreSpent
      <3>2. Arrived(cookie)'
        BY <1>1, <1>2, <3>1 DEF Arrived
      <3>3. ASSUME NEW q \in delivered', Receives(q), out[q].token.sid = out[p].token.sid
            PROVE  out[q].token.ctr <= out[p].token.ctr
        <4>1. q = p \/ q \in delivered
          BY <1>1
        <4>2. q \in Request /\ out[q].token \in Token
          BY <3>3, <4>1 DEF TypeOK, Core, TokensAreSpent
        <4>3. out[q].token.ctr \in Nat /\ out[p].token.ctr \in Nat
          BY <3>1, <4>2 DEF Token
        <4>4. ASSUME out[p].token.ctr \in 0 .. out[q].token.ctr - 1 PROVE FALSE
          <5>1. Arrived([sid |-> out[p].token.sid, ctr |-> out[p].token.ctr])
            BY <1>1, <3>3, <4>2, <4>4 DEF TokensArriveInOrder
          <5>2. out[p].token = [sid |-> out[p].token.sid, ctr |-> out[p].token.ctr]
            BY <3>1 DEF Token
          <5>3. PICK r \in delivered : Receives(r) /\ out[r].token = out[p].token
            BY <5>1, <5>2 DEF Arrived
          <5>4. r = p
            BY <3>1, <5>3 DEF Core, TokensAreDistinct, TypeOK
          <5> QED
            BY <1>1, <5>3, <5>4
        <4> QED
          BY <4>3, <4>4
      <3> QED
        BY <1>1, <1>2, <3>1, <3>2, <3>3 DEF TypeOK
    <2>2. CASE out[p].token = NoToken
      <3>1. ~Receives(p)
        BY <2>2, RecordTypes DEF Core, TokensAreSpent
      <3> SUFFICES ASSUME cookie' # NoToken
                   PROVE  /\ Arrived(cookie)'
                          /\ \A q \in delivered' : Receives(q)' /\ out'[q].token.sid = cookie'.sid =>
                               out'[q].token.ctr <= cookie'.ctr
        OBVIOUS
      <3>2. cookie' = cookie
        BY <1>1, <2>2
      <3>3. PICK c : c = cookie
        OBVIOUS
      <3>4. Arrived(cookie)'
        BY <1>3, <3>2, <3>3 DEF TokensArriveInOrder
      <3>5. \A q \in delivered' : Receives(q)' => q \in delivered /\ Receives(q) /\ out'[q] = out[q]
        BY <1>1, <1>2, <3>1 DEF TypeOK
      <3> QED
        BY <3>2, <3>4, <3>5 DEF TokensArriveInOrder
    <2> QED
      BY <2>1, <2>2
  <1>7. \A q \in committed' : Op[q] = "refresh" /\ out'[q].ok =>
          out'[q].token = [sid |-> arg'[q].token.sid, ctr |-> arg'[q].token.ctr + 1]
    BY <1>1 DEF TokensArriveInOrder
  <1>8. OneBrowser /\ \A q \in delivered' : pc'[q] = "done"
    BY <1>1 DEF TokensArriveInOrder
  <1> QED
    BY <1>4, <1>5, <1>6, <1>7, <1>8 DEF TokensArriveInOrder

LEMMA OrderStays ==
  ASSUME TokensArriveInOrder, UNCHANGED <<delivered, pc, arg, out, committed>>,
         cookie' = cookie \/ cookie' = NoToken
  PROVE  TokensArriveInOrder'
  <1>1. \A q : Receives(q)' = Receives(q)
    BY DEF Receives
  <1>2. \A t : Arrived(t)' = Arrived(t)
    BY <1>1 DEF Arrived
  <1>3. \A q \in Request : Arrived(arg[q].token)' = Arrived(arg[q].token)
    BY <1>1 DEF Arrived
  <1>4. \A q \in Request : \A n : Arrived([sid |-> out[q].token.sid, ctr |-> n])'
                                  = Arrived([sid |-> out[q].token.sid, ctr |-> n])
    BY <1>1 DEF Arrived
  <1>5. cookie' = cookie => Arrived(cookie)' = Arrived(cookie)
    BY <1>1 DEF Arrived
  <1> QED
    BY <1>1, <1>3, <1>4, <1>5 DEF TokensArriveInOrder

LEMMA OrderStep == TypeOK /\ Core /\ TokensArriveInOrder /\ [Next]_vars => TokensArriveInOrder'
  <1> SUFFICES ASSUME TypeOK, Core, TokensArriveInOrder, [Next]_vars PROVE TokensArriveInOrder'
    OBVIOUS
  <1>1. CASE UNCHANGED vars
    BY <1>1, OrderStays DEF vars, client
  <1>2. ASSUME NEW p \in Request, Deliver(p) PROVE TokensArriveInOrder'
    BY <1>2, OrderAtDeliver
  <1>3. ASSUME World, \A p \in Request : ~Deliver(p) PROVE TokensArriveInOrder'
    <2>1. UNCHANGED <<delivered, pc, arg, out, committed>> /\ (cookie' = cookie \/ cookie' = NoToken)
      BY <1>3 DEF World, SessionExpires, CookieExpires, LockExpires, TicketExpires, DisableAccount, client
    <2> QED
      BY <2>1, OrderStays
  <1> QED
    BY <1>1, <1>2, <1>3, OrderAtActs, ActOrWorld

(* The browser receives the tokens of a session in their order, whatever the
   order in which the answers to its requests arrive. *)
THEOREM SpecTokensArriveInOrder == Spec => []TokensArriveInOrder
  <1>1. Init => TokensArriveInOrder
    BY RecordTypes DEF Init, TokensArriveInOrder, Receives
  <1>2. IInv /\ TokensArriveInOrder /\ [Next]_vars => TokensArriveInOrder'
    BY OrderStep, IInvIsCore
  <1> QED
    BY <1>1, <1>2, SpecIInv, PTL DEF Spec

(* The cookie is current, or one answer behind. *)
THEOREM SpecCookieLagsByOneAnswer == Spec => []CookieLagsByOneAnswer
  <1>1. IInv /\ TokensArriveInOrder => CookieLagsByOneAnswer
    <2> SUFFICES ASSUME TypeOK, Core, TokensArriveInOrder, cookie # NoToken
                 PROVE  \/ session[cookie.sid].ctr = cookie.ctr
                        \/ /\ session[cookie.sid].ctr = cookie.ctr + 1
                           /\ \E q \in committed : /\ Op[q] = "refresh" /\ arg[q].token = cookie
                                                   /\ q \in delivered => ~out[q].ok
      BY IInvIsCore DEF CookieLagsByOneAnswer
    <2> DEFINE s == cookie.sid
               n == cookie.ctr
    <2>1. /\ OneBrowser /\ s \in Request /\ n \in Nat /\ cookie = [sid |-> s, ctr |-> n]
          /\ session[s].ctr \in Nat /\ n <= session[s].ctr
      <3>1. PICK q \in delivered : Receives(q) /\ out[q].token = cookie
        BY DEF TokensArriveInOrder, Arrived
      <3>2. cookie \in Token /\ n <= session[s].ctr
        BY <3>1 DEF Core, TokensAreSpent, TypeOK
      <3> QED
        BY <3>2 DEF Token, TypeOK, SessionRow, TokensArriveInOrder
    <2>2. ASSUME NEW m \in Nat, Arrived([sid |-> s, ctr |-> m]) PROVE m <= n
      BY <2>2 DEF Arrived, TokensArriveInOrder
    <2>3. ASSUME NEW m \in Nat, m < session[s].ctr
          PROVE  \E q \in committed : /\ Op[q] = "refresh" /\ arg[q].token = [sid |-> s, ctr |-> m]
                                      /\ Arrived([sid |-> s, ctr |-> m])
      <3>1. m \in 0 .. session[s].ctr - 1
        BY <2>1, <2>3
      <3> QED
        BY <2>1, <3>1 DEF Core, TokensAreSpent, TokensArriveInOrder, TypeOK
    <2>4. CASE session[s].ctr = n
      BY <2>4
    <2>5. CASE session[s].ctr # n
      <3>1. session[s].ctr = n + 1
        <4>1. n + 1 < session[s].ctr => Arrived([sid |-> s, ctr |-> n + 1])
          BY <2>1, <2>3
        <4> QED
          BY <2>1, <2>2, <2>5, <4>1
      <3>2. PICK q \in committed : Op[q] = "refresh" /\ arg[q].token = cookie
        BY <2>1, <2>3, <3>1
      <3>3. ASSUME q \in delivered, out[q].ok PROVE FALSE
        <4>1. Receives(q) /\ out[q].token = [sid |-> s, ctr |-> n + 1]
          BY <3>2, <3>3 DEF Receives, TokensArriveInOrder
        <4>2. Arrived([sid |-> s, ctr |-> n + 1])
          BY <3>3, <4>1 DEF Arrived
        <4> QED
          BY <2>1, <2>2, <4>2
      <3> QED
        BY <3>1, <3>2, <3>3
    <2> QED
      BY <2>4, <2>5
  <1> QED
    BY <1>1, SpecIInv, SpecTokensArriveInOrder, PTL

-----------------------------------------------------------------------------
(* Refusals are final *)

LEMMA EndedForGood ==
  ASSUME TypeOK, Core, [Next]_vars, NEW s \in Request, Ended(s)
  PROVE  Ended(s)'
  <1>1. Chain[s].life = "ended"
    BY RecordTypes DEF Ended, Chain, Life, Core, SessionsAreCommitted
  <1>2. Chain'[s].life = "ended"
    <2>1. CASE Chain' = Chain
      BY <1>1, <2>1
    <2>2. ASSUME NEW r \in Request, TC!Open(r) \/ TC!Accept(r) PROVE Chain'[s].life = "ended"
      BY <1>1, <2>2 DEF TC!Open, TC!Accept, Chain
    <2>3. ASSUME NEW S \in SUBSET Request, TC!End(S) PROVE Chain'[s].life = "ended"
      BY <1>1, <2>3 DEF TC!End, Chain
    <2> QED
      BY <2>1, <2>2, <2>3, ChainStep DEF TC!Next, Chain
  <1>3. Life(s)' = "ended"
    BY <1>2 DEF Chain
  <1> QED
    BY <1>3, RecordTypes DEF Ended, Life

(* Only a refresh is refused with a code that clears the cookie. *)
LEMMA OtherAnswers ==
  ASSUME TypeOK, Core, NEW p \in Request, Acts(p), Op[p] \notin {"refresh", "logout"}
  PROVE  out'[p] = out[p] \/ out'[p].code = "success"
  <1>1. /\ \A t : SuccessWith(t).code = "success"
        /\ Success.code = "success" /\ out \in [Request -> Answer]
    BY DEF SuccessWith, Success, TypeOK
  <1>2. CASE CommitOf(p)
    <2>1. out' = out \/ \E a : out' = [out EXCEPT ![p] = a] /\ a.code = "success"
      BY <1>1, <1>2 DEF CommitOf, CommitLogin, CommitRefresh, CommitLogout, CommitPassword, Commit
    <2> QED
      BY <1>1, <2>1
  <1>3. CASE ~CommitOf(p)
    <2>1. ~Refresh(p) /\ ~Logout(p)
      BY PlaceOps DEF Refresh, Logout, Core
    <2>2. out' = out
      BY <1>3, <2>1 DEF Acts, Begin, LoginByPassword, LoginByPhone, SendRefresh, ChangePassword,
         ResetPassword, Continue, CommitOf, ConsumeLoginCode, ResolveLoginDevice, InsertSession,
         UpdateLastLoginAt, RefreshAccount, LockResetUser, RevokeSessions, ConsumeResetTicket,
         ReleaseTicketLock, Victim, Abort, Rollback
    <2> QED
      BY <2>2
  <1> QED
    BY <1>2, <1>3

FinalAt(p) ==
  /\ Op[p] = "refresh" => arg[p].sid = None
  /\ Op[p] = "logout" => arg[p].token = NoToken
  /\ out[p].code \in {"used", "inactive", "expired"} => Op[p] = "refresh" /\ pc[p] = "done"
  /\ out[p].code = "inactive" => Ended(arg[p].token.sid)
  /\ out[p].code = "expired" => arg[p].token.sid \in over
  /\ Op[p] = "logout" /\ out[p].ok => pc[p] = "done" /\ Ended(arg[p].sid)

LEMMA RefreshIsFinal ==
  ASSUME TypeOK, Core, NEW p \in Request, FinalAt(p), Acts(p), Op[p] = "refresh"
  PROVE  FinalAt(p)'
  <1>1. /\ pc[p] # "done" /\ arg \in [Request -> Arg] /\ out \in [Request -> Answer]
        /\ pc \in [Request -> PC] /\ arg[p].sid = None
        /\ out[p].code \notin {"used", "inactive", "expired"}
    BY Actors DEF TypeOK, FinalAt
  <1>2. CASE SendRefresh(p)
    <2>1. PICK t \in Presented : arg' = [arg EXCEPT ![p].token = t]
      BY <1>2 DEF SendRefresh
    <2>2. arg'[p].sid = None /\ out' = out
      BY <1>1, <1>2, <2>1 DEF SendRefresh, Arg
    <2> QED
      BY <1>1, <2>2 DEF FinalAt
  <1>3. CASE Refresh(p)
    <2> DEFINE t == arg[p].token
    <2>1. CASE session[t.sid].ctr = t.ctr /\ session[t.sid].active /\ t.sid \notin over
      <3> DEFINE a == [NoArg EXCEPT !.token = t, !.row = session[t.sid], !.user = session[t.sid].user]
      <3>0. out' = out /\ arg' = [arg EXCEPT ![p] = a] /\ a.sid = None
        BY <1>3, <2>1 DEF Refresh, NoArg
      <3>1. out' = out /\ arg'[p].sid = None
        BY <1>1, <3>0
      <3> QED
        BY <1>1, <3>1 DEF FinalAt
    <2>2. CASE ~(session[t.sid].ctr = t.ctr /\ session[t.sid].active /\ t.sid \notin over)
      <3>1. /\ out' = [out EXCEPT ![p] = [NoAnswer EXCEPT !.code = Refusal(t)]]
            /\ pc' = [pc EXCEPT ![p] = "done"] /\ arg' = arg /\ session' = session /\ over' = over
        BY <1>3, <2>2 DEF Refresh, Refused, Refuse, Goto, db
      <3>2. out'[p].code = Refusal(t) /\ pc'[p] = "done" /\ arg'[p] = arg[p]
        BY <1>1, <3>1 DEF NoAnswer
      <3>3. t.sid \in Request /\ session[t.sid] # NoSession
        BY <1>3, CoreAt DEF Refresh, Knows, Token
      <3>4. Refusal(t) = "inactive" => Ended(t.sid)
        BY <3>3 DEF Refusal, Ended
      <3>5. Refusal(t) = "expired" => t.sid \in over
        BY <2>2 DEF Refusal
      <3>6. Ended(t.sid) => Ended(arg[p].token.sid)'
        BY <3>1 DEF Ended
      <3> QED
        BY <1>1, <3>1, <3>2, <3>4, <3>5, <3>6 DEF FinalAt
    <2> QED
      BY <2>1, <2>2
  <1>4. CASE RefreshAccount(p) \/ Victim(p) \/ Abort(p)
    <2>1. arg' = arg /\ out' = out
      BY <1>4 DEF RefreshAccount, Victim, Abort, Rollback
    <2> QED
      BY <1>1, <2>1 DEF FinalAt
  <1>5. CASE CommitRefresh(p)
    <2>1. arg' = arg /\ (out' = out \/ \E t : out' = [out EXCEPT ![p] = SuccessWith(t)])
      BY <1>5 DEF CommitRefresh, Commit
    <2>2. \A t : SuccessWith(t).code = "success"
      BY DEF SuccessWith, Success
    <2>3. out'[p] = out[p] \/ out'[p].code = "success"
      BY <1>1, <2>1, <2>2
    <2> QED
      BY <1>1, <2>1, <2>3 DEF FinalAt
  <1> QED
    BY <1>2, <1>3, <1>4, <1>5, RefreshActs

LEMMA LogoutIsFinal ==
  ASSUME TypeOK, Core, NEW p \in Request, FinalAt(p), Acts(p), Op[p] = "logout"
  PROVE  FinalAt(p)'
  <1>1. /\ pc[p] # "done" /\ arg \in [Request -> Arg] /\ out \in [Request -> Answer]
        /\ pc \in [Request -> PC] /\ arg[p].token = NoToken /\ ~out[p].ok
        /\ out[p].code \notin {"used", "inactive", "expired"}
        /\ Success.code = "success"
    BY Actors DEF TypeOK, FinalAt, Success
  <1>2. CASE Logout(p)
    <2>1. PICK s \in Known :
            /\ IF session[s].active
               THEN UNCHANGED out
               ELSE Refused(p) /\ out' = [out EXCEPT ![p] = Success]
            /\ arg' = [arg EXCEPT ![p] = [NoArg EXCEPT
                 !.user = session[s].user, !.sid = s, !.row = session[s]]]
      BY <1>2 DEF Logout
    <2>2. arg'[p].token = NoToken /\ arg'[p].sid = s
      BY <1>1, <2>1 DEF NoArg
    <2>3. CASE session[s].active
      <3>1. out' = out
        BY <2>1, <2>3
      <3> QED
        BY <1>1, <2>2, <3>1 DEF FinalAt
    <2>4. CASE ~session[s].active
      <3>1. /\ pc'[p] = "done" /\ out'[p] = Success /\ session' = session
        BY <1>1, <1>2, <2>1, <2>4 DEF Refused, Refuse, Goto, Logout, db
      <3>2. Ended(s)
        BY <2>4, KnownSessions DEF Ended
      <3>3. Ended(arg[p].sid)'
        BY <2>2, <3>1, <3>2 DEF Ended
      <3> QED
        BY <1>1, <2>2, <3>1, <3>3 DEF FinalAt
    <2> QED
      BY <2>3, <2>4
  <1>3. CASE CommitLogout(p)
    <2>1. /\ pc[p] = "logout" /\ arg' = arg
          /\ session' = [session EXCEPT ![arg[p].sid] = [arg[p].row EXCEPT !.active = FALSE]]
          /\ out' = out \/ out' = [out EXCEPT ![p] = Success]
          /\ pc' = [pc EXCEPT ![p] = "done"]
      BY <1>3 DEF CommitLogout, Commit, Goto
    <2>2. pc'[p] = "done" /\ (out'[p] = out[p] \/ out'[p] = Success)
      BY <1>1, <2>1
    <2>3. /\ arg[p].sid \in Request /\ arg[p].row = session[arg[p].sid]
          /\ session[arg[p].sid] \in SessionRow /\ session[arg[p].sid].user \in User
      BY <2>1, CoreAt DEF Knows, Fresh, Core, SessionsAreCommitted, TypeOK
    <2>4. session'[arg[p].sid] = [session[arg[p].sid] EXCEPT !.active = FALSE]
      BY <2>1, <2>3 DEF TypeOK
    <2>5. ~session'[arg[p].sid].active /\ session'[arg[p].sid].user \in User
      BY <2>3, <2>4 DEF SessionRow
    <2>6. Ended(arg[p].sid)'
      BY <2>1, <2>3, <2>5, RecordTypes DEF Ended
    <2> QED
      BY <1>1, <2>1, <2>2, <2>6 DEF FinalAt
  <1>4. CASE Victim(p) \/ Abort(p)
    <2>1. arg' = arg /\ out' = out
      BY <1>4 DEF Victim, Abort, Rollback
    <2> QED
      BY <1>1, <2>1 DEF FinalAt
  <1> QED
    BY <1>2, <1>3, <1>4, LogoutActs

LEMMA FinalStays ==
  ASSUME TypeOK, Core, [Next]_vars, NEW p \in Request, FinalAt(p),
         arg'[p] = arg[p], out'[p] = out[p], pc'[p] = pc[p], over \subseteq over'
  PROVE  FinalAt(p)'
  <1>1. ASSUME Ended(arg[p].token.sid) PROVE Ended(arg[p].token.sid)'
    <2>1. PICK s \in Request : s = arg[p].token.sid
      BY <1>1 DEF Ended
    <2>2. Ended(s)'
      BY <1>1, <2>1, EndedForGood
    <2> QED
      BY <2>1, <2>2 DEF Ended
  <1>2. ASSUME Ended(arg[p].sid) PROVE Ended(arg[p].sid)'
    <2>1. PICK s \in Request : s = arg[p].sid
      BY <1>2 DEF Ended
    <2>2. Ended(s)'
      BY <1>2, <2>1, EndedForGood
    <2> QED
      BY <2>1, <2>2 DEF Ended
  <1> QED
    BY <1>1, <1>2 DEF FinalAt

LEMMA OverGrows ==
  ASSUME [Next]_vars
  PROVE  over \subseteq over'
  <1>1. ASSUME NEW p \in Request, Acts(p) PROVE over' = over
    BY <1>1 DEF Acts, Begin, LoginByPassword, LoginByPhone, SendRefresh, Refresh,
       Logout, ChangePassword, ResetPassword, Continue, ConsumeLoginCode, ResolveLoginDevice,
       InsertSession, UpdateLastLoginAt, CommitLogin, RefreshAccount, CommitRefresh,
       CommitLogout, LockResetUser, RevokeSessions, CommitPassword, ConsumeResetTicket,
       ReleaseTicketLock, Victim, Abort, Rollback
  <1>2. World => over \subseteq over'
    BY DEF World, Deliver, SessionExpires, CookieExpires, LockExpires, TicketExpires, DisableAccount
  <1> QED
    BY <1>1, <1>2, ActOrWorld DEF vars

LEMMA FinalStep == TypeOK /\ Core /\ AnswersAreFinal /\ [Next]_vars => AnswersAreFinal'
  <1> SUFFICES ASSUME TypeOK, Core, AnswersAreFinal, [Next]_vars, NEW q \in Request
               PROVE  FinalAt(q)'
    BY DEF AnswersAreFinal, FinalAt
  <1>1. FinalAt(q) /\ over \subseteq over'
    BY OverGrows DEF AnswersAreFinal, FinalAt
  <1>2. CASE arg'[q] = arg[q] /\ out'[q] = out[q] /\ pc'[q] = pc[q]
    BY <1>1, <1>2, FinalStays
  <1>3. CASE World \/ UNCHANGED vars
    <2>1. UNCHANGED <<pc, arg, out>>
      BY <1>3 DEF World, Deliver, SessionExpires, CookieExpires, LockExpires, TicketExpires,
                  DisableAccount, vars
    <2> QED
      BY <1>2, <2>1
  <1>4. ASSUME NEW p \in Request, Acts(p), p # q PROVE FinalAt(q)'
    BY <1>2, <1>4, Actors, OthersStay
  <1>5. CASE Acts(q)
    <2>1. CASE Op[q] \in {"refresh", "logout"}
      BY <1>1, <1>5, <2>1, RefreshIsFinal, LogoutIsFinal
    <2>2. CASE Op[q] \notin {"refresh", "logout"}
      <3>1. out'[q] = out[q] \/ out'[q].code = "success"
        BY <1>5, <2>2, OtherAnswers
      <3>2. out[q].code \notin {"used", "inactive", "expired"}
        BY <1>1, <2>2 DEF FinalAt
      <3> QED
        BY <2>2, <3>1, <3>2 DEF FinalAt
    <2> QED
      BY <2>1, <2>2
  <1> QED
    BY <1>3, <1>4, <1>5, ActOrWorld

(* An answer that clears the cookie stays true: what it says of the session
   is so for ever. *)
THEOREM SpecAnswersAreFinal == Spec => []AnswersAreFinal
  <1>1. Init => AnswersAreFinal
    BY RecordTypes DEF Init, AnswersAreFinal, NoArg
  <1>2. IInv /\ AnswersAreFinal /\ [Next]_vars => AnswersAreFinal'
    BY FinalStep, IInvIsCore
  <1> QED
    BY <1>1, <1>2, SpecIInv, PTL DEF Spec

(* The browser loses the cookie of a live session only to an answer about
   another session or to "already used". *)
THEOREM SpecLiveCookieKept == Spec => LiveCookieKept
  <1> DEFINE Kept == cookie # NoToken /\ cookie' = NoToken /\ session[cookie.sid].active /\ cookie.sid \notin over =>
               \E p \in delivered' \ delivered :
                 \/ out[p].code = "used"
                 \/ {arg[p].sid, arg[p].token.sid} \cap {cookie.sid} = {}
  <1>1. IInv /\ AnswersAreFinal /\ [Next]_vars => [Kept]_vars
    <2> SUFFICES ASSUME TypeOK, Core, AnswersAreFinal, Next, cookie # NoToken, cookie' = NoToken,
                        session[cookie.sid].active, cookie.sid \notin over
                 PROVE  \E p \in delivered' \ delivered :
                          \/ out[p].code = "used"
                          \/ {arg[p].sid, arg[p].token.sid} \cap {cookie.sid} = {}
      BY IInvIsCore
    <2>1. PICK p \in Request : Deliver(p)
      <3>1. ASSUME NEW p \in Request, Acts(p) PROVE cookie' = cookie
        BY <3>1, Actors DEF client
      <3>2. World => \/ \E p \in Request : Deliver(p)
                     \/ CookieExpires
                     \/ cookie' = cookie
        BY DEF World, SessionExpires, LockExpires, TicketExpires, DisableAccount, client
      <3> QED
        BY <3>1, <3>2, ActOrWorld DEF CookieExpires
    <2>2. p \in delivered' \ delivered /\ Clears(p) /\ cookie.sid \in Request
      BY <2>1 DEF Deliver, TypeOK, Token
    <2>3. FinalAt(p) /\ cookie.sid # None /\ NoToken.sid = None
      BY <2>2 DEF AnswersAreFinal, FinalAt, NoToken
    <2>4. CASE out[p].code = "inactive"
      BY <2>2, <2>3, <2>4 DEF FinalAt, Ended
    <2>5. CASE out[p].code = "expired"
      BY <2>2, <2>3, <2>5 DEF FinalAt
    <2>6. CASE Op[p] = "logout" /\ out[p].ok
      BY <2>2, <2>3, <2>6 DEF FinalAt, Ended
    <2> QED
      BY <2>2, <2>4, <2>5, <2>6 DEF Clears
  <1> QED
    BY <1>1, SpecIInv, SpecAnswersAreFinal, PTL DEF Spec, LiveCookieKept
=============================================================================
