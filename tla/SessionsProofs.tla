--------------------------- MODULE SessionsProofs ---------------------------
(***************************************************************************)
(* Theorems about Sessions, for every set of requests, users, passwords    *)
(* and tickets.                                                            *)
(*                                                                         *)
(* A step of a request is local if it changes no table (LocalStep), or it  *)
(* commits (CommitStep): for each kind one lemma shows that the inductive  *)
(* invariant is kept, and the actions are shown to be of that kind.        *)
(***************************************************************************)
EXTENDS Sessions, FiniteSetTheorems, TLAPS

USE NoneAssumption, MaxFaultsAssumption

(* IInv without the types and the tickets. *)
Core ==
  /\ AtPlaces
  /\ LocksAreExclusive /\ LocksHeld /\ RevokedAreLocked /\ LockedAreInserted
  /\ RowsAreFresh /\ SessionsAreCommitted /\ TokensAreSpent /\ TokensAreDistinct
  /\ CookieIsIssued /\ Informed

LEMMA LockNames ==
  /\ \A s, t : SessionLock(s) = SessionLock(t) => s = t
  /\ \A s, t : EntryLock(s) = EntryLock(t) => s = t
  /\ \A s, t : UserLock(s) = UserLock(t) => s = t
  /\ \A s, t : RangeLock(s) = RangeLock(t) => s = t
  /\ \A s, t : /\ SessionLock(s) # UserLock(t) /\ SessionLock(s) # RangeLock(t)
               /\ SessionLock(s) # DeviceLock(t) /\ UserLock(s) # RangeLock(t)
               /\ UserLock(s) # DeviceLock(t) /\ RangeLock(s) # DeviceLock(t)
               /\ EntryLock(s) # SessionLock(t) /\ EntryLock(s) # UserLock(t)
               /\ EntryLock(s) # RangeLock(t) /\ EntryLock(s) # DeviceLock(t)
  BY DEF SessionLock, EntryLock, UserLock, RangeLock, DeviceLock

LEMMA LockTypes ==
  /\ \A s \in Request : /\ SessionLock(s) \in Locks /\ EntryLock(s) \in Locks
                        /\ DeviceLock(s) \in Locks
  /\ \A u \in User : UserLock(u) \in Locks /\ RangeLock(u) \in Locks
  BY DEF SessionLock, EntryLock, UserLock, RangeLock, DeviceLock, Locks

LEMMA RecordTypes ==
  /\ NoSession \in SessionRow /\ NoSession.user = None /\ ~NoSession.active
  /\ NoSession.ctr = 0
  /\ NoArg \in Arg /\ NoArg.user = None /\ NoToken \notin Token
  /\ NoAnswer \in Answer /\ ~NoAnswer.ok /\ NoAnswer.code = "none"
  /\ NoAnswer.token = NoToken /\ Success.token = NoToken
  /\ Success \in Answer /\ Success.ok /\ Success.code = "success"
  BY DEF NoSession, SessionRow, NoArg, Arg, NoAnswer, Answer, Success, NoToken, Token

(* The endpoint of a request tells which places it passes. *)
LEMMA PlaceOps ==
  ASSUME AtPlaces, NEW p \in Request
  PROVE  /\ pc[p] \in {"code", "device", "insert", "stamp", "login"} <=>
              p \in Login /\ pc[p] \notin {"idle", "done"}
         /\ pc[p] \in {"sent", "account", "refresh"} => Op[p] = "refresh"
         /\ pc[p] = "logout" => Op[p] = "logout"
         /\ pc[p] \in {"revoke", "newPassword"} => Op[p] \in {"change", "reset"}
         /\ pc[p] \in {"user", "consume", "release"} => Op[p] = "reset"
         /\ pc[p] \in {"consume", "release", "done"} /\ Op[p] # "reset" => pc[p] = "done"
  BY OpAssumption DEF AtPlaces, Places, Login

-----------------------------------------------------------------------------
(* Only request p moves. *)
Moves(p) ==
  /\ pc' = [pc EXCEPT ![p] = pc'[p]] /\ held' = [held EXCEPT ![p] = held'[p]]
  /\ arg' = [arg EXCEPT ![p] = arg'[p]] /\ out' = [out EXCEPT ![p] = out'[p]]

LEMMA OthersStay ==
  ASSUME TypeOK, NEW p \in Request, Moves(p)
  PROVE  \A q \in Request : q # p => /\ pc'[q] = pc[q] /\ held'[q] = held[q]
                                     /\ arg'[q] = arg[q] /\ out'[q] = out[q]
  BY DEF Moves, TypeOK

(* The part of the state that the local steps of requests leave alone. *)
Quiet == UNCHANGED <<client, user, session, committed>> /\ (faults' = 0 => faults = 0)

(* What p may become in a local step. *)
Proceeds(p) ==
  /\ pc[p] # "done" /\ pc'[p] \in Places(Op[p])
  /\ \A q \in Request \ {p} : held'[p] \cap held[q] = {}
  /\ Holds(p, pc'[p], held'[p], arg'[p])
  /\ Fresh(pc'[p], arg'[p])
  /\ Knows(Op[p], pc'[p], arg'[p])
  /\ out'[p].token = NoToken /\ (out'[p].ok => Op[p] \notin {"password", "phone", "refresh"})
  /\ p \in Login => arg'[p].user = arg[p].user \/ pc[p] = "idle"
  /\ pc'[p] \in {"stamp", "login"} =>
       /\ arg'[p].user = arg[p].user
       /\ pc[p] \notin {"stamp", "login"} =>
            \A q \in Request \ {p} : RangeLock(arg[p].user) \notin held[q]
  /\ pc'[p] = "newPassword" =>
       \A s \in Login \ {p} : arg[s].user = arg'[p].user =>
         /\ session[s] # NoSession => SessionLock(s) \in held'[p]
         /\ pc[s] \notin {"stamp", "login"}
  /\ \A s \in Login \ {p} :
       SessionLock(s) \in held'[p] \/ EntryLock(s) \in held'[p] => session[s] # NoSession
  /\ p \in committed => arg'[p] = arg[p] /\ pc'[p] \in {"consume", "release", "done"}

LEMMA LocalStep ==
  ASSUME TypeOK, Core, NEW p \in Request, Moves(p), Quiet, Proceeds(p)
  PROVE  Core'
  <1> USE DEF Core
  <1>1. \A q \in Request : q # p => /\ pc'[q] = pc[q] /\ held'[q] = held[q]
                                    /\ arg'[q] = arg[q] /\ out'[q] = out[q]
    BY OthersStay
  <1>2. user' = user /\ session' = session /\ committed' = committed
    BY DEF Quiet
  <1>3. session[p] = NoSession
    BY DEF Proceeds, SessionsAreCommitted
  <1>4. AtPlaces'
    BY <1>1 DEF AtPlaces, Proceeds
  <1>5. LocksAreExclusive'
    BY <1>1 DEF LocksAreExclusive, Proceeds
  <1>6. LocksHeld'
    BY <1>1 DEF LocksHeld, Proceeds, Holds
  <1>7. RevokedAreLocked'
    <2> SUFFICES ASSUME NEW q \in Request, pc'[q] = "newPassword",
                        NEW s \in Login, arg'[s].user = arg'[q].user
                 PROVE  /\ session[s] # NoSession => SessionLock(s) \in held'[q]
                        /\ pc'[s] \notin {"stamp", "login"}
      BY <1>2 DEF RevokedAreLocked, SessionsOf
    <2>0. s \in Request
      BY DEF Login
    <2>1. CASE q = p
      <3>1. q \notin Login
        BY <2>1, OpAssumption DEF Proceeds, Places, Login
      <3> QED
        BY <2>0, <2>1, <3>1, <1>1 DEF Proceeds
    <2>2. CASE q # p /\ s # p
      BY <2>0, <2>2, <1>1 DEF RevokedAreLocked, SessionsOf
    <2>3. CASE q # p /\ s = p
      <3>1. pc[q] = "newPassword" /\ RangeLock(arg[q].user) \in held[q]
        BY <2>3, <1>1 DEF LocksHeld, Holds
      <3>2. pc[p] \in {"stamp", "login"} /\ arg[p].user = arg[q].user => FALSE
        BY <2>3, <3>1 DEF RevokedAreLocked, SessionsOf
      <3> QED
        BY <2>3, <3>1, <3>2, <1>1, <1>3 DEF Proceeds
    <2> QED
      BY <2>1, <2>2, <2>3
  <1>8. LockedAreInserted'
    <2> SUFFICES ASSUME NEW q \in Request, NEW s \in Login \ {q},
                        SessionLock(s) \in held'[q] \/ EntryLock(s) \in held'[q]
                 PROVE  session[s] # NoSession
      BY <1>2 DEF LockedAreInserted
    <2>1. CASE q = p
      BY <2>1 DEF Proceeds
    <2>2. CASE q # p
      BY <2>2, <1>1 DEF LockedAreInserted
    <2> QED
      BY <2>1, <2>2
  <1>9. RowsAreFresh'
    BY <1>1, <1>2 DEF RowsAreFresh, Proceeds, Fresh, Revocable
  <1>10. SessionsAreCommitted'
    BY <1>1, <1>2, <1>3 DEF SessionsAreCommitted
  <1>11. ~Receives(p) /\ ~Receives(p)' /\ \A q \in Request : Receives(q)' = Receives(q)
    BY <1>1 DEF Receives, Proceeds, TokensAreSpent
  <1>12. TokensAreSpent'
    <2>1. \A q \in committed : q \in Request /\ arg'[q] = arg[q]
                               /\ pc'[q] \in {"consume", "release", "done"}
      BY <1>1 DEF TokensAreSpent, Proceeds, TypeOK
    <2>2. \A q \in Request : Receives(q) => q # p
      BY <1>11
    <2> QED
      BY <1>1, <1>2, <1>11, <2>1, <2>2 DEF TokensAreSpent
  <1>13. TokensAreDistinct'
    BY <1>1, <1>2, <1>11 DEF TokensAreDistinct, Quiet
  <1>14. Informed'
    BY <1>1, <1>2 DEF Informed, Proceeds, Knows
  <1>15. CookieIsIssued'
    <2>1. \A q \in Request : out'[q].token # NoToken => Receives(q)'
      BY <1>1, <1>11 DEF CookieIsIssued, Proceeds
    <2>2. cookie' = cookie
      BY DEF Quiet, client
    <2>3. ASSUME cookie # NoToken PROVE cookie \in Issued'
      <3>1. PICK q \in Request : Receives(q) /\ cookie = out[q].token
        BY <2>3 DEF CookieIsIssued, Issued
      <3>2. Receives(q)' /\ out'[q].token = cookie
        BY <3>1, <1>1, <1>11
      <3> QED
        BY <3>2 DEF Issued
    <2> QED
      BY <2>1, <2>2, <2>3 DEF CookieIsIssued
  <1> QED
    BY <1>4, <1>5, <1>6, <1>7, <1>8, <1>9, <1>10, <1>12, <1>13, <1>14, <1>15
-----------------------------------------------------------------------------
(* What a commit of p does to the tables: it changes rows that p has locked,*)
(* inserts no session but that of p's login, and raises no counter but that *)
(* of the token p refreshes.                                                *)
Commits(p) ==
  /\ pc[p] \in {"login", "refresh", "logout", "newPassword"}
  /\ pc'[p] \in {"consume", "release", "done"} \cap Places(Op[p])
  /\ arg' = arg /\ held'[p] = {} /\ committed' = committed \cup {p}
  /\ \A s \in Request :
       /\ session'[s] # session[s] => SessionLock(s) \in held[p]
       /\ session[s] # NoSession =>
            session'[s] # NoSession /\ session'[s].user = session[s].user
       /\ session[s] = NoSession /\ session'[s] # NoSession =>
            s = p /\ pc[p] = "login" /\ session'[p].user = arg[p].user
       /\ \/ session'[s].ctr = session[s].ctr
          \/ /\ Op[p] = "refresh" /\ arg[p].token = [sid |-> s, ctr |-> session[s].ctr]
             /\ session'[s].ctr = session[s].ctr + 1
  /\ \A u \in User : user'[u] # user[u] => UserLock(u) \in held[p]
  /\ Op[p] = "refresh" => /\ arg[p].token \in Token
                          /\ arg[p].token.ctr < session'[arg[p].token.sid].ctr
  /\ Receives(p)' =>
       LET t == out'[p].token IN
       /\ t \in Token /\ session'[t.sid] # NoSession /\ t.ctr = session'[t.sid].ctr
       /\ \A q \in Request \ {p} : Receives(q) => out[q].token # t
  /\ client' = client /\ (out'[p].token # NoToken => Receives(p)')
  /\ faults' = 0 =>
       /\ faults = 0
       /\ \A s \in Request : session'[s] # NoSession =>
            \/ session[s] # NoSession /\ session'[s].ctr = session[s].ctr
            \/ Receives(p)' /\ out'[p].token = [sid |-> s, ctr |-> session'[s].ctr]

LEMMA CommitStep ==
  ASSUME TypeOK, TypeOK', Core, NEW p \in Request, Moves(p), Commits(p)
  PROVE  Core'
  <1> USE DEF Core
  <1>1. /\ \A q \in Request : q # p => /\ pc'[q] = pc[q] /\ held'[q] = held[q]
                                       /\ out'[q] = out[q]
        /\ arg' = arg /\ held'[p] = {} /\ pc'[p] \in {"consume", "release", "done"}
        /\ committed' = committed \cup {p}
    BY OthersStay DEF Commits
  <1>2. p \notin committed /\ ~Receives(p)
    BY DEF Commits, TokensAreSpent
  <1>3. \A s \in Request :
          /\ session[s] # NoSession =>
               session'[s] # NoSession /\ session'[s].user = session[s].user
          /\ session'[s].ctr >= session[s].ctr
          /\ session[s].ctr \in Nat /\ session'[s].ctr \in Nat
    <2>1. \A s \in Request : session[s].ctr \in Nat /\ session'[s].ctr \in Nat
      BY DEF TypeOK, SessionRow
    <2>2. \A s \in Request :
            session'[s].ctr = session[s].ctr \/ session'[s].ctr = session[s].ctr + 1
      BY DEF Commits
    <2>3. \A s \in Request : session[s] # NoSession =>
            session'[s] # NoSession /\ session'[s].user = session[s].user
      BY DEF Commits
    <2> QED
      BY <2>1, <2>2, <2>3
  <1>4. AtPlaces'
    BY <1>1 DEF AtPlaces, Commits
  <1>5. LocksAreExclusive'
    BY <1>1 DEF LocksAreExclusive
  <1>6. LocksHeld'
    <2>1. Holds(p, pc'[p], held'[p], arg'[p])
      BY <1>1 DEF Holds, InTransaction
    <2> QED
      BY <1>1, <2>1 DEF LocksHeld, Holds
  <1>7. RevokedAreLocked'
    <2> SUFFICES ASSUME NEW q \in Request, pc'[q] = "newPassword",
                        NEW s \in Login, arg[s].user = arg[q].user
                 PROVE  /\ session'[s] # NoSession => SessionLock(s) \in held'[q]
                        /\ pc'[s] \notin {"stamp", "login"}
      BY <1>1 DEF RevokedAreLocked, SessionsOf
    <2>1. s \in Request /\ q # p
      BY <1>1 DEF Login
    <2>2. /\ session[s] # NoSession => SessionLock(s) \in held[q]
          /\ pc[s] \notin {"stamp", "login"}
      BY <2>1, <1>1 DEF RevokedAreLocked, SessionsOf
    <2>3. session[s] = NoSession => session'[s] = NoSession
      BY <2>1, <2>2 DEF Commits
    <2> QED
      BY <2>1, <2>2, <2>3, <1>1
  <1>8. LockedAreInserted'
    <2>1. \A s \in Login : session[s] # NoSession => session'[s] # NoSession
      BY <1>3 DEF Login
    <2> QED
      BY <1>1, <2>1 DEF LockedAreInserted
  <1>9. RowsAreFresh'
    <2> SUFFICES ASSUME NEW q \in Request PROVE Fresh(pc[q], arg[q])' \/ q = p
      BY <1>1 DEF RowsAreFresh, Fresh
    <2> SUFFICES ASSUME q # p PROVE Fresh(pc[q], arg[q])'
      OBVIOUS
    <2>0. pc'[q] = pc[q] /\ arg'[q] = arg[q] /\ held[p] \cap held[q] = {}
      BY <1>1 DEF LocksAreExclusive
    <2>1. /\ Fresh(pc[q], arg[q]) /\ Holds(q, pc[q], held[q], arg[q])
          /\ Knows(Op[q], pc[q], arg[q])
      BY DEF RowsAreFresh, LocksHeld, Informed
    <2>2. \A s \in Request : SessionLock(s) \in held[q] => session'[s] = session[s]
      BY <2>0 DEF Commits
    <2>3. \A u \in User : UserLock(u) \in held[q] => user'[u] = user[u]
      BY <2>0 DEF Commits
    <2>4. pc[q] = "newPassword" => Revocable(arg[q].user, arg[q].sid)' = Revocable(arg[q].user, arg[q].sid)
      <3> SUFFICES ASSUME pc[q] = "newPassword", NEW s \in Request
                   PROVE  /\ session'[s].user = arg[q].user /\ session'[s].active <=>
                             session[s].user = arg[q].user /\ session[s].active
        BY <2>0, <1>1 DEF Revocable
      <3>1. arg[q].user \in User
        BY <2>1 DEF Knows
      <3>2. CASE session[s] # NoSession
        <4>1. session'[s].user = session[s].user /\ s \in Login /\ session[s].user = arg[s].user
          BY <3>2, <1>3 DEF SessionsAreCommitted
        <4>2. session[s].user = arg[q].user => SessionLock(s) \in held[q]
          BY <4>1, <3>2 DEF RevokedAreLocked, SessionsOf
        <4> QED
          BY <4>1, <4>2, <2>2
      <3>3. CASE session[s] = NoSession
        <4>1. session[s].user # arg[q].user
          BY <3>1, <3>3, RecordTypes
        <4>2. CASE session'[s] = NoSession
          BY <4>1, <4>2, <3>3
        <4>3. CASE session'[s] # NoSession
          <5>1. s = p /\ pc[p] = "login" /\ session'[p].user = arg[p].user
            BY <3>3, <4>3 DEF Commits
          <5>2. p \in Login
            BY <5>1, PlaceOps
          <5>3. arg[p].user # arg[q].user
            BY <5>1, <5>2 DEF RevokedAreLocked, SessionsOf
          <5> QED
            BY <4>1, <5>1, <5>3
        <4> QED
          BY <4>2, <4>3
      <3> QED
        BY <3>2, <3>3
    <2>5. pc[q] \in {"account", "refresh"} => arg[q].token.sid \in Request
      BY <2>1 DEF Knows, Token
    <2>6. pc[q] = "logout" => arg[q].sid \in Request
      BY <2>1 DEF Knows
    <2>7. pc[q] \in {"revoke", "newPassword"} => arg[q].user \in User
      BY <2>1 DEF Knows
    <2> QED
      BY <2>0, <2>1, <2>2, <2>3, <2>4, <2>5, <2>6, <2>7 DEF Fresh, Holds
  <1>10. SessionsAreCommitted'
    <2> SUFFICES ASSUME NEW s \in Request, session'[s] # NoSession
                 PROVE  /\ s \in Login /\ pc'[s] = "done"
                        /\ session'[s].user \in User /\ session'[s].user = arg[s].user
      BY <1>1 DEF SessionsAreCommitted
    <2>1. CASE session[s] # NoSession
      BY <2>1, <1>1, <1>3 DEF SessionsAreCommitted, Commits
    <2>2. CASE session[s] = NoSession
      <3>1. s = p /\ pc[p] = "login" /\ session'[p].user = arg[p].user
        BY <2>2 DEF Commits
      <3>2. p \in Login /\ arg[p].user \in User
        BY <3>1, PlaceOps DEF Informed, Knows
      <3>3. pc'[p] = "done"
        BY <3>1, <3>2, OpAssumption DEF Commits, Places, Login
      <3> QED
        BY <3>1, <3>2, <3>3
    <2> QED
      BY <2>1, <2>2
  <1>11. TokensAreSpent'
    <2>1. \A q \in committed : q \in Request /\ q # p
      BY <1>2 DEF TypeOK
    <2>2. \A q \in committed' : pc'[q] \in {"consume", "release", "done"}
      BY <1>1, <2>1 DEF TokensAreSpent
    <2>3. \A q \in committed' : Op[q] = "refresh" =>
            arg[q].token \in Token /\ arg[q].token.ctr < session'[arg[q].token.sid].ctr
      <3> SUFFICES ASSUME NEW q \in committed', Op[q] = "refresh", q # p
                   PROVE  /\ arg[q].token \in Token
                          /\ arg[q].token.ctr < session'[arg[q].token.sid].ctr
        BY DEF Commits
      <3>1. /\ arg[q].token \in Token
            /\ arg[q].token.ctr < session[arg[q].token.sid].ctr
        BY <1>1 DEF TokensAreSpent
      <3>2. arg[q].token.sid \in Request /\ arg[q].token.ctr \in Nat
        BY <3>1 DEF Token
      <3> QED
        BY <3>1, <3>2, <1>3
    <2>4. \A s \in Request : \A n \in 0 .. session'[s].ctr - 1 :
            \E q \in committed' : Op[q] = "refresh" /\ arg[q].token = [sid |-> s, ctr |-> n]
      <3> SUFFICES ASSUME NEW s \in Request, NEW n \in 0 .. session'[s].ctr - 1
                   PROVE  \E q \in committed' : Op[q] = "refresh" /\ arg[q].token = [sid |-> s, ctr |-> n]
        OBVIOUS
      <3>1. CASE n \in 0 .. session[s].ctr - 1
        BY <3>1, <1>1 DEF TokensAreSpent
      <3>2. CASE n \notin 0 .. session[s].ctr - 1
        <4>0. session'[s].ctr = session[s].ctr \/ session'[s].ctr = session[s].ctr + 1
          BY DEF Commits
        <4>1. n = session[s].ctr /\ session'[s].ctr # session[s].ctr
          BY <3>2, <4>0, <1>3
        <4>2. Op[p] = "refresh" /\ arg[p].token = [sid |-> s, ctr |-> n]
          BY <4>1 DEF Commits
        <4> QED
          BY <4>2, <1>1
      <3> QED
        BY <3>1, <3>2
    <2>5. \A q \in Request : Receives(q)' =>
            /\ pc'[q] = "done" /\ out'[q].token \in Token
            /\ session'[out'[q].token.sid] # NoSession
            /\ out'[q].token.ctr <= session'[out'[q].token.sid].ctr
      <3> SUFFICES ASSUME NEW q \in Request, Receives(q)'
                   PROVE  /\ pc'[q] = "done" /\ out'[q].token \in Token
                          /\ session'[out'[q].token.sid] # NoSession
                          /\ out'[q].token.ctr <= session'[out'[q].token.sid].ctr
        OBVIOUS
      <3>1. CASE q = p
        <4>1. Op[p] # "reset" /\ pc'[p] \in Places(Op[p])
          BY <3>1 DEF Receives, Commits
        <4>2. pc'[p] = "done"
          BY <4>1, <1>1, OpAssumption DEF Places
        <4>3. /\ out'[p].token \in Token /\ session'[out'[p].token.sid] # NoSession
              /\ out'[p].token.ctr = session'[out'[p].token.sid].ctr
              /\ out'[p].token.sid \in Request
          BY <3>1 DEF Commits, Token
        <4> QED
          BY <3>1, <4>2, <4>3, <1>3
      <3>2. CASE q # p
        <4>1. Receives(q) /\ out'[q] = out[q] /\ pc'[q] = pc[q]
          BY <3>2, <1>1 DEF Receives
        <4>2. /\ pc[q] = "done" /\ out[q].token \in Token
              /\ session[out[q].token.sid] # NoSession
              /\ out[q].token.ctr <= session[out[q].token.sid].ctr
          BY <4>1 DEF TokensAreSpent
        <4>3. out[q].token.sid \in Request /\ out[q].token.ctr \in Nat
          BY <4>2 DEF Token
        <4> QED
          BY <4>1, <4>2, <4>3, <1>3
      <3> QED
        BY <3>1, <3>2
    <2> QED
      BY <1>1, <2>2, <2>3, <2>4, <2>5 DEF TokensAreSpent
  <1>12. TokensAreDistinct'
    <2>0. \A q \in Request : q # p => Receives(q)' = Receives(q)
      BY <1>1 DEF Receives
    <2>1. \A q \in Request \ {p} : Receives(p)' /\ Receives(q) => out[q].token # out'[p].token
      BY DEF Commits
    <2>2. \A q, r \in Request : Receives(q)' /\ Receives(r)' /\ out'[q].token = out'[r].token => q = r
      BY <2>0, <2>1, <1>1 DEF TokensAreDistinct
    <2>3. ASSUME faults' = 0, NEW s \in Request, session'[s] # NoSession
          PROVE  \E q \in Request : Receives(q)' /\ out'[q].token = [sid |-> s, ctr |-> session'[s].ctr]
      <3>1. CASE session[s] # NoSession /\ session'[s].ctr = session[s].ctr
        <4>1. PICK q \in Request : Receives(q) /\ out[q].token = [sid |-> s, ctr |-> session[s].ctr]
          BY <2>3, <3>1 DEF TokensAreDistinct, Commits
        <4> QED
          BY <3>1, <4>1, <2>0, <1>1, <1>2
      <3>2. CASE ~(session[s] # NoSession /\ session'[s].ctr = session[s].ctr)
        BY <2>3, <3>2 DEF Commits
      <3> QED
        BY <3>1, <3>2
    <2> QED
      BY <2>2, <2>3 DEF TokensAreDistinct
  <1>13. Informed'
    <2> SUFFICES ASSUME NEW q \in Request
                 PROVE  Knows(Op[q], pc[q], arg[q])'
      BY DEF Informed
    <2>1. Knows(Op[q], pc[q], arg[q])
      BY DEF Informed
    <2>2. CASE q = p
      <3>1. pc[p] \notin {"idle", "done"} /\ pc'[p] \in {"consume", "release", "done"}
        BY DEF Commits
      <3> QED
        BY <2>1, <2>2, <3>1, <1>1 DEF Knows
    <2>3. CASE q # p
      <3>1. pc'[q] = pc[q] /\ arg'[q] = arg[q]
        BY <2>3, <1>1
      <3>2. pc[q] \in {"sent", "account", "refresh"} =>
              /\ arg[q].token.sid \in Request /\ arg[q].token.ctr \in Nat
              /\ session'[arg[q].token.sid] # NoSession
              /\ arg[q].token.ctr <= session'[arg[q].token.sid].ctr
        BY <2>1, <1>3 DEF Knows, Token
      <3>3. pc[q] = "logout" => /\ session'[arg[q].sid] # NoSession
                                /\ session'[arg[q].sid].user = session[arg[q].sid].user
        BY <2>1, <1>3 DEF Knows
      <3> QED
        BY <2>1, <3>1, <3>2, <3>3 DEF Knows
    <2> QED
      BY <2>2, <2>3
  <1>14. CookieIsIssued'
    <2>1. \A q \in Request : Receives(q) => q # p /\ Receives(q)' /\ out'[q].token = out[q].token
      BY <1>1, <1>2 DEF Receives
    <2>2. \A q \in Request : out'[q].token # NoToken => Receives(q)'
      BY <1>1, <2>1 DEF CookieIsIssued, Commits
    <2>3. cookie' = cookie
      BY DEF Commits, client
    <2>4. ASSUME cookie # NoToken PROVE cookie \in Issued'
      <3>1. PICK q \in Request : Receives(q) /\ cookie = out[q].token
        BY <2>4 DEF CookieIsIssued, Issued
      <3> QED
        BY <3>1, <2>1 DEF Issued
    <2> QED
      BY <2>2, <2>3, <2>4 DEF CookieIsIssued
  <1> QED
    BY <1>4, <1>5, <1>6, <1>7, <1>8, <1>9, <1>10, <1>11, <1>12, <1>13, <1>14
-----------------------------------------------------------------------------
(* The local steps of each endpoint.                                        *)
RestOK ==
  /\ device \in [Request -> User \cup {None}] /\ over \subseteq Request
  /\ code \subseteq User /\ ticket \in [Ticket -> User \cup {None}]
  /\ owner \in [Ticket -> Request \cup {None}] /\ lapsed \subseteq Request
  /\ faults \in 0 .. MaxFaults
ActorOK(p) ==
  /\ pc'[p] \in PC /\ held'[p] \subseteq Locks /\ arg'[p] \in Arg /\ out'[p] \in Answer
Local(p) == Moves(p) /\ Quiet /\ Proceeds(p) /\ ActorOK(p) /\ RestOK'

LEMMA LocalTypes ==
  ASSUME TypeOK, NEW p \in Request, Local(p)
  PROVE  TypeOK'
  <1>1. pc' \in [Request -> PC] /\ arg' \in [Request -> Arg] /\ out' \in [Request -> Answer]
    BY DEF TypeOK, Local, Moves, ActorOK
  <1>2. held' \in [Request -> SUBSET Locks]
    BY DEF TypeOK, Local, Moves, ActorOK
  <1> QED
    BY <1>1, <1>2 DEF TypeOK, Local, Quiet, RestOK, client

(* What the invariant says of one request. *)
LEMMA CoreAt ==
  ASSUME TypeOK, Core, NEW p \in Request
  PROVE  /\ pc[p] \in PC /\ held[p] \subseteq Locks /\ arg[p] \in Arg /\ out[p] \in Answer
         /\ pc[p] \in Places(Op[p])
         /\ \A q \in Request \ {p} : held[p] \cap held[q] = {}
         /\ Holds(p, pc[p], held[p], arg[p])
         /\ Fresh(pc[p], arg[p])
         /\ Knows(Op[p], pc[p], arg[p])
         /\ pc[p] # "done" => out[p].token = NoToken /\ ~Receives(p)
         /\ p \in committed => pc[p] \in {"consume", "release", "done"}
         /\ \A s \in Login \ {p} :
              SessionLock(s) \in held[p] \/ EntryLock(s) \in held[p] => session[s] # NoSession
  BY DEF TypeOK, Core, AtPlaces, LocksAreExclusive, LocksHeld, RowsAreFresh,
         Informed, TokensAreSpent, LockedAreInserted, CookieIsIssued

LEMMA RestOfTypeOK == TypeOK => RestOK
  BY DEF TypeOK, RestOK

LEMMA PlacesArePC == \A p \in Request : Places(Op[p]) \subseteq PC
  BY OpAssumption DEF Places, PC, InTransaction

LEMMA Same ==
  ASSUME TypeOK, NEW p \in Request
  PROVE  /\ held' = held => held' = [held EXCEPT ![p] = held[p]]
         /\ arg' = arg => arg' = [arg EXCEPT ![p] = arg[p]]
         /\ out' = out => out' = [out EXCEPT ![p] = out[p]]
         /\ pc' = pc => pc' = [pc EXCEPT ![p] = pc[p]]
  BY DEF TypeOK

(* p ends, or goes to release its ticket. *)
LEMMA EndsIsLocal ==
  ASSUME TypeOK, Core, NEW p \in Request, Moves(p), Quiet, RestOK',
         pc[p] # "done", held'[p] = {},
         pc'[p] = "done" \/ (Op[p] = "reset" /\ pc[p] # "idle" /\ pc'[p] = "release"),
         \/ arg'[p] = arg[p]
         \/ pc[p] = "idle" /\ pc'[p] = "done" /\ arg'[p] \in Arg /\ p \notin Login,
         out'[p] \in Answer, out'[p].token = NoToken,
         out'[p].ok => Op[p] \notin {"password", "phone", "refresh"}
  PROVE  Local(p)
  <1>1. pc'[p] \in Places(Op[p])
    BY OpAssumption DEF Places
  <1>2. ActorOK(p)
    BY <1>1, CoreAt, PlacesArePC DEF ActorOK
  <1>3. Holds(p, pc'[p], held'[p], arg'[p]) /\ Fresh(pc'[p], arg'[p])
    BY DEF Holds, Fresh
  <1>4. Knows(Op[p], pc'[p], arg'[p])
    BY CoreAt DEF Knows
  <1>5. p \in committed => arg'[p] = arg[p]
    BY CoreAt
  <1>6. Proceeds(p)
    BY <1>1, <1>3, <1>4, <1>5 DEF Proceeds
  <1> QED
    BY <1>2, <1>6 DEF Local

(* p goes on, and may lock more rows. *)
LEMMA GoesIsLocal ==
  ASSUME TypeOK, Core, NEW p \in Request, Moves(p), Quiet, RestOK',
         NEW new, new \subseteq Locks, held'[p] = held[p] \cup new,
         \A q \in Request \ {p} : new \cap held[q] = {},
         \A s \in Login \ {p} : SessionLock(s) \in new \/ EntryLock(s) \in new => session[s] # NoSession,
         pc[p] \notin {"consume", "release", "done"},
         pc'[p] \in Places(Op[p]) \ {"newPassword"},
         arg'[p] \in Arg, out'[p] = out[p],
         p \in Login => arg'[p].user = arg[p].user \/ pc[p] = "idle",
         pc'[p] \in {"stamp", "login"} =>
           /\ arg'[p].user = arg[p].user
           /\ pc[p] \notin {"stamp", "login"} =>
                \A q \in Request \ {p} : RangeLock(arg[p].user) \notin held[q],
         Holds(p, pc'[p], held'[p], arg'[p]),
         Fresh(pc'[p], arg'[p]), Knows(Op[p], pc'[p], arg'[p])
  PROVE  Local(p)
  <1>1. ActorOK(p)
    BY CoreAt, PlacesArePC DEF ActorOK
  <1>2. \A q \in Request \ {p} : held'[p] \cap held[q] = {}
    BY CoreAt
  <1>3. \A s \in Login \ {p} :
          SessionLock(s) \in held'[p] \/ EntryLock(s) \in held'[p] => session[s] # NoSession
    BY CoreAt
  <1>4. p \notin committed /\ out'[p].token = NoToken
        /\ (out'[p].ok => Op[p] \notin {"password", "phone", "refresh"})
    BY CoreAt DEF Receives
  <1>5. Proceeds(p)
    BY <1>2, <1>3, <1>4 DEF Proceeds
  <1> QED
    BY <1>1, <1>5 DEF Local

LEMMA LoginBeginIsLocal ==
  ASSUME TypeOK, Core, NEW p \in Request, LoginByPassword(p) \/ LoginByPhone(p)
  PROVE  Local(p)
  <1> DEFINE place == IF Op[p] = "password" THEN "device" ELSE "code"
  <1>1. /\ pc[p] = "idle" /\ Op[p] \in {"password", "phone"} /\ arg[p] = NoArg /\ held[p] = {}
        /\ held' = [held EXCEPT ![p] = held[p]] /\ out' = [out EXCEPT ![p] = out[p]]
    BY CoreAt, Same DEF LoginByPassword, LoginByPhone, Knows, Holds, InTransaction
  <1>2. Quiet /\ RestOK'
    BY RestOfTypeOK DEF LoginByPassword, LoginByPhone, Quiet, RestOK, db, redis, client
  <1>3. CASE \E u \in User : Goto(p, place) /\ arg' = [arg EXCEPT ![p].user = u]
    <2>1. PICK u \in User : Goto(p, place) /\ arg' = [arg EXCEPT ![p].user = u]
      BY <1>3
    <2> DEFINE a == [arg[p] EXCEPT !.user = u]
    <2>2. a \in Arg /\ a.user = u
      BY CoreAt DEF Arg
    <2>3. Moves(p) /\ pc'[p] = place /\ held'[p] = {} /\ arg'[p] = a /\ out'[p] = out[p]
      BY <1>1, <2>1 DEF Goto, Moves, TypeOK
    <2>4. /\ Holds(p, place, {}, a) /\ Fresh(place, a) /\ Knows(Op[p], place, a)
          /\ place \in Places(Op[p])
      BY <1>1, <2>2 DEF Holds, Fresh, Knows, InTransaction, Places
    <2> QED
      BY <1>1, <1>2, <2>2, <2>3, <2>4, GoesIsLocal
  <1>4. CASE Goto(p, "done") /\ UNCHANGED arg
    <2>1. Moves(p) /\ pc'[p] = "done" /\ held'[p] = {} /\ arg'[p] = arg[p] /\ out'[p] = out[p]
      BY <1>1, <1>4 DEF Goto, Moves, TypeOK
    <2> QED
      BY <1>1, <1>2, <2>1, CoreAt, EndsIsLocal DEF Receives
  <1> QED
    BY <1>1, <1>3, <1>4 DEF LoginByPassword, LoginByPhone

LEMMA ConsumeLoginCodeIsLocal ==
  ASSUME TypeOK, Core, NEW p \in Request, ConsumeLoginCode(p)
  PROVE  Local(p)
  <1>1. /\ pc[p] = "code" /\ p \in Login /\ Op[p] = "phone" /\ held[p] = {}
        /\ arg[p] \in Arg /\ arg[p].user \in User
    BY CoreAt, OpAssumption
       DEF ConsumeLoginCode, Knows, Holds, InTransaction, Places, Login
  <1>2. Quiet /\ RestOK' /\ UNCHANGED <<held, arg, out>>
    BY RestOfTypeOK
       DEF ConsumeLoginCode, ConsumeScript, Fail, Quiet, RestOK, db, client
  <1>3. CASE Goto(p, "device")
    <2>1. Moves(p) /\ pc'[p] = "device"
      BY <1>2, <1>3 DEF Goto, Moves, TypeOK
    <2>2. /\ Holds(p, "device", {}, arg[p]) /\ Fresh("device", arg[p])
          /\ Knows("phone", "device", arg[p]) /\ "device" \in Places("phone")
      BY <1>1 DEF Holds, Fresh, Knows, Places
    <2> QED
      BY <1>1, <1>2, <2>1, <2>2, GoesIsLocal
  <1>4. CASE Goto(p, "done")
    <2>1. Moves(p) /\ pc'[p] = "done"
      BY <1>2, <1>4 DEF Goto, Moves, TypeOK
    <2> QED
      BY <1>1, <1>2, <2>1, CoreAt, EndsIsLocal DEF Receives
  <1> QED
    BY <1>3, <1>4 DEF ConsumeLoginCode

LEMMA ResolveLoginDeviceIsLocal ==
  ASSUME TypeOK, Core, NEW p \in Request, ResolveLoginDevice(p)
  PROVE  Local(p)
  <1>1. /\ pc[p] = "device" /\ p \in Login /\ arg[p] \in Arg /\ arg[p].user \in User
        /\ "insert" \in Places(Op[p])
    BY CoreAt, OpAssumption DEF ResolveLoginDevice, Knows, Places, Login
  <1>2. Quiet /\ RestOK' /\ UNCHANGED out
    BY RestOfTypeOK DEF ResolveLoginDevice, Quiet, RestOK, db, redis, client
  <1>3. PICK d \in Request :
          /\ Free(p, {DeviceLock(d)}) /\ Lock(p, {DeviceLock(d)})
          /\ arg' = [arg EXCEPT ![p].device = d]
    BY DEF ResolveLoginDevice
  <1> DEFINE a == [arg[p] EXCEPT !.device = d]
  <1>4. a \in Arg /\ a.user = arg[p].user /\ a.device = d
    BY <1>1 DEF Arg
  <1>5. /\ Moves(p) /\ pc'[p] = "insert" /\ arg'[p] = a
        /\ held'[p] = held[p] \cup {DeviceLock(d)}
    BY <1>2, <1>3 DEF ResolveLoginDevice, Goto, Lock, Moves, TypeOK
  <1> DEFINE new == {DeviceLock(d)}
  <1>6. /\ new \subseteq Locks /\ \A q \in Request \ {p} : new \cap held[q] = {}
        /\ \A s \in Login : SessionLock(s) \notin new /\ EntryLock(s) \notin new
    BY <1>3, LockTypes, LockNames DEF Free
  <1>7. /\ Holds(p, "insert", held'[p], a) /\ Fresh("insert", a) /\ Knows(Op[p], "insert", a)
    BY <1>1, <1>4 DEF Holds, Fresh, Knows, InTransaction, Login
  <1>8. held'[p] = held[p] \cup new
    BY <1>5
  <1> HIDE DEF new, a
  <1> QED
    BY <1>1, <1>2, <1>4, <1>5, <1>6, <1>7, <1>8, GoesIsLocal

LEMMA InsertSessionIsLocal ==
  ASSUME TypeOK, Core, NEW p \in Request, InsertSession(p)
  PROVE  Local(p)
  <1> DEFINE new == {SessionLock(p), EntryLock(p)}
  <1>1. /\ pc[p] = "insert" /\ p \in Login /\ arg[p] \in Arg /\ arg[p].user \in User
        /\ arg[p].device \in Request /\ "stamp" \in Places(Op[p])
    BY CoreAt, OpAssumption DEF InsertSession, Knows, Places, Login
  <1>2. Quiet /\ RestOK' /\ UNCHANGED <<arg, out>>
    BY RestOfTypeOK DEF InsertSession, Quiet, RestOK, db, redis, client
  <1>3. /\ Moves(p) /\ pc'[p] = "stamp"
        /\ held'[p] = held[p] \cup new
    BY <1>2 DEF InsertSession, Goto, Lock, Moves, TypeOK
  <1>4. \A q \in Request \ {p} : RangeLock(arg[p].user) \notin held[q]
    BY DEF InsertSession, Free
  <1>5. session[p] = NoSession
    BY <1>1 DEF Core, SessionsAreCommitted
  <1>6. /\ new \subseteq Locks /\ \A q \in Request \ {p} : new \cap held[q] = {}
        /\ \A s \in Login \ {p} : SessionLock(s) \notin new /\ EntryLock(s) \notin new
    BY <1>1, <1>5, LockTypes, LockNames DEF Core, LockedAreInserted
  <1>7. /\ Holds(p, "stamp", held'[p], arg[p]) /\ Fresh("stamp", arg[p])
        /\ Knows(Op[p], "stamp", arg[p])
    BY <1>1, <1>3 DEF Holds, Fresh, Knows, InTransaction, Login
  <1> HIDE DEF new
  <1> QED
    BY <1>1, <1>2, <1>3, <1>4, <1>6, <1>7, GoesIsLocal

LEMMA UpdateLastLoginAtIsLocal ==
  ASSUME TypeOK, Core, NEW p \in Request, UpdateLastLoginAt(p)
  PROVE  Local(p)
  <1> DEFINE new == {UserLock(arg[p].user)}
  <1>1. /\ pc[p] = "stamp" /\ p \in Login /\ arg[p] \in Arg /\ arg[p].user \in User
        /\ arg[p].device \in Request /\ "login" \in Places(Op[p])
        /\ {SessionLock(p), EntryLock(p)} \subseteq held[p]
    BY CoreAt, OpAssumption DEF UpdateLastLoginAt, Knows, Holds, Places, Login
  <1>2. Quiet /\ RestOK' /\ UNCHANGED <<arg, out>>
    BY RestOfTypeOK DEF UpdateLastLoginAt, Quiet, RestOK, db, redis, client
  <1>3. Moves(p) /\ pc'[p] = "login" /\ held'[p] = held[p] \cup new
    BY <1>2 DEF UpdateLastLoginAt, Goto, Lock, Moves, TypeOK
  <1>4. /\ new \subseteq Locks /\ \A q \in Request \ {p} : new \cap held[q] = {}
        /\ \A s \in Login : SessionLock(s) \notin new /\ EntryLock(s) \notin new
    BY <1>1, LockTypes, LockNames DEF UpdateLastLoginAt, Free
  <1>5. /\ Holds(p, "login", held'[p], arg[p]) /\ Fresh("login", arg[p])
        /\ Knows(Op[p], "login", arg[p])
    BY <1>1, <1>3 DEF Holds, Fresh, Knows, InTransaction, Login
  <1> QED
    BY <1>1, <1>2, <1>3, <1>4, <1>5, GoesIsLocal


(* What a request finds when it is sent: tokens and sessions that exist. *)
LEMMA PresentedTokens ==
  ASSUME TypeOK, Core, NEW t \in Presented
  PROVE  t \in Token /\ session[t.sid] # NoSession /\ t.ctr <= session[t.sid].ctr
  <1>1. t \in Issued
    BY DEF Presented, Core, CookieIsIssued
  <1>2. PICK q \in Request : Receives(q) /\ t = out[q].token
    BY <1>1 DEF Issued
  <1> QED
    BY <1>2 DEF Core, TokensAreSpent

LEMMA KnownSessions ==
  ASSUME TypeOK, Core, NEW s \in Known
  PROVE  s \in Request /\ session[s] # NoSession /\ session[s].user \in User
  <1>1. PICK q \in Request : Receives(q) /\ s = out[q].token.sid
    BY DEF Known
  <1>2. out[q].token \in Token /\ session[s] # NoSession
    BY <1>1 DEF Core, TokensAreSpent
  <1>3. s \in Request
    BY <1>1, <1>2 DEF Token
  <1> QED
    BY <1>2, <1>3 DEF Core, SessionsAreCommitted

LEMMA SendRefreshIsLocal ==
  ASSUME TypeOK, Core, NEW p \in Request, SendRefresh(p)
  PROVE  Local(p)
  <1>1. /\ pc[p] = "idle" /\ Op[p] = "refresh" /\ arg[p] = NoArg /\ "sent" \in Places(Op[p])
        /\ p \notin Login
    BY CoreAt DEF SendRefresh, Knows, Places, Login
  <1>2. Quiet /\ RestOK' /\ UNCHANGED <<held, out>>
    BY RestOfTypeOK DEF SendRefresh, Quiet, RestOK, db, redis, client
  <1>3. PICK t \in Presented : arg' = [arg EXCEPT ![p].token = t]
    BY DEF SendRefresh
  <1>4. t \in Token /\ session[t.sid] # NoSession /\ t.ctr <= session[t.sid].ctr
    BY <1>3, PresentedTokens
  <1> DEFINE a == [arg[p] EXCEPT !.token = t]
             new == {}
  <1>5. a \in Arg /\ a.token = t
    BY <1>4, CoreAt DEF Arg
  <1>6. Moves(p) /\ pc'[p] = "sent" /\ arg'[p] = a /\ held'[p] = held[p] \cup new
    BY <1>2, <1>3 DEF SendRefresh, Goto, Moves, TypeOK
  <1>7. Holds(p, "sent", held'[p], a) /\ Fresh("sent", a) /\ Knows(Op[p], "sent", a)
    BY <1>1, <1>2, <1>4, <1>5, CoreAt DEF Holds, Fresh, Knows, InTransaction
  <1>8. /\ new \subseteq Locks /\ \A q \in Request \ {p} : new \cap held[q] = {}
        /\ \A s \in Login \ {p} : SessionLock(s) \in new \/ EntryLock(s) \in new => session[s] # NoSession
    OBVIOUS
  <1> HIDE DEF a, new
  <1> QED
    BY <1>1, <1>2, <1>5, <1>6, <1>7, <1>8, GoesIsLocal

LEMMA RefreshIsLocal ==
  ASSUME TypeOK, Core, NEW p \in Request, Refresh(p)
  PROVE  Local(p)
  <1> DEFINE t == arg[p].token
             new == SessionRead(t.sid)
  <1>1. /\ pc[p] = "sent" /\ Op[p] = "refresh" /\ p \notin Login /\ held[p] = {}
        /\ "account" \in Places(Op[p])
    BY CoreAt, PlaceOps DEF Refresh, Holds, InTransaction, Places, Login, Core
  <1>2. /\ t \in Token /\ t.sid \in Request /\ session[t.sid] # NoSession
        /\ session[t.sid] \in SessionRow /\ t.ctr <= session[t.sid].ctr
    BY <1>1, CoreAt DEF Knows, Token, TypeOK
  <1>3. Quiet /\ RestOK'
    BY RestOfTypeOK DEF Refresh, Quiet, RestOK, db, redis, client
  <1>4. CASE session[t.sid].ctr = t.ctr /\ session[t.sid].active /\ t.sid \notin over
    <2> DEFINE a == [NoArg EXCEPT !.token = t, !.row = session[t.sid], !.user = session[t.sid].user]
    <2>1. a \in Arg /\ a.token = t /\ a.row = session[t.sid]
      <3>1. session[t.sid].user \in User \cup {None}
        BY <1>2 DEF SessionRow
      <3> QED
        BY <1>2, <3>1, RecordTypes DEF Arg
    <2>2. /\ pc' = [pc EXCEPT ![p] = "account"] /\ arg' = [arg EXCEPT ![p] = a]
          /\ held' = [held EXCEPT ![p] = @ \cup new] /\ out' = out
      BY <1>4 DEF Refresh, Goto, Lock
    <2>3. Moves(p) /\ pc'[p] = "account" /\ arg'[p] = a /\ held'[p] = held[p] \cup new
      BY <2>2 DEF Moves, TypeOK
    <2>4. /\ new \subseteq Locks /\ \A q \in Request \ {p} : new \cap held[q] = {}
          /\ \A s \in Login \ {p} : SessionLock(s) \in new \/ EntryLock(s) \in new => session[s] # NoSession
      BY <1>2, LockTypes, LockNames DEF Refresh, Free, SessionRead
    <2>5. /\ Holds(p, "account", held'[p], a) /\ Fresh("account", a)
          /\ Knows(Op[p], "account", a)
      BY <1>1, <1>2, <1>4, <2>1, <2>3 DEF Holds, Fresh, Knows, InTransaction, SessionRead
    <2> HIDE DEF new, a
    <2> QED
      BY <1>1, <1>3, <2>1, <2>2, <2>3, <2>4, <2>5, GoesIsLocal
  <1>5. CASE ~(session[t.sid].ctr = t.ctr /\ session[t.sid].active /\ t.sid \notin over)
    <2> DEFINE answer == [NoAnswer EXCEPT !.code = Refusal(t)]
    <2>1. answer \in Answer /\ answer.token = NoToken /\ ~answer.ok
      BY RecordTypes DEF Refusal, Answer
    <2>2. /\ pc' = [pc EXCEPT ![p] = "done"] /\ held' = [held EXCEPT ![p] = {}]
          /\ out' = [out EXCEPT ![p] = answer] /\ arg' = arg
      BY <1>5 DEF Refresh, Refused, Refuse, Goto, Unlock
    <2>3. /\ Moves(p) /\ pc'[p] = "done" /\ held'[p] = {} /\ out'[p] = answer
          /\ arg'[p] = arg[p]
      BY <2>2 DEF Moves, TypeOK
    <2> HIDE DEF answer
    <2> QED
      BY <1>1, <1>3, <2>1, <2>3, EndsIsLocal
  <1> QED
    BY <1>4, <1>5

LEMMA RefreshAccountIsLocal ==
  ASSUME TypeOK, Core, NEW p \in Request, RefreshAccount(p)
  PROVE  Local(p)
  <1>1. /\ pc[p] = "account" /\ Op[p] = "refresh" /\ p \notin Login
        /\ "refresh" \in Places(Op[p]) /\ arg[p] \in Arg
        /\ out[p] \in Answer /\ out[p].token = NoToken /\ ~out[p].ok
    BY CoreAt, PlaceOps DEF RefreshAccount, Places, Login, Core, Receives
  <1>2. Quiet /\ RestOK' /\ UNCHANGED <<arg, out>>
    BY RestOfTypeOK DEF RefreshAccount, Quiet, RestOK, db, redis, client
  <1>3. CASE Goto(p, "refresh") /\ UNCHANGED held
    <2> DEFINE new == {}
    <2>1. Moves(p) /\ pc'[p] = "refresh" /\ held'[p] = held[p] \cup new
      BY <1>2, <1>3 DEF Goto, Moves, TypeOK
    <2>2. /\ Holds(p, "refresh", held'[p], arg[p]) /\ Fresh("refresh", arg[p])
          /\ Knows(Op[p], "refresh", arg[p])
      BY <1>1, <2>1, CoreAt DEF Holds, Fresh, Knows, InTransaction
    <2>3. /\ new \subseteq Locks /\ \A q \in Request \ {p} : new \cap held[q] = {}
          /\ \A s \in Login \ {p} : SessionLock(s) \in new \/ EntryLock(s) \in new => session[s] # NoSession
      OBVIOUS
    <2> HIDE DEF new
    <2> QED
      BY <1>1, <1>2, <2>1, <2>2, <2>3, GoesIsLocal
  <1>4. CASE Refused(p)
    <2>1. Moves(p) /\ pc'[p] = "done" /\ held'[p] = {}
      BY <1>2, <1>4 DEF Refused, Refuse, Unlock, Goto, Moves, TypeOK
    <2> QED
      BY <1>1, <1>2, <2>1, EndsIsLocal
  <1> QED
    BY <1>3, <1>4 DEF RefreshAccount

LEMMA LogoutIsLocal ==
  ASSUME TypeOK, Core, NEW p \in Request, Logout(p)
  PROVE  Local(p)
  <1>1. /\ pc[p] = "idle" /\ Op[p] = "logout" /\ p \notin Login /\ held[p] = {}
        /\ "logout" \in Places(Op[p])
    BY CoreAt DEF Logout, Holds, InTransaction, Places, Login
  <1>2. Quiet /\ RestOK'
    BY RestOfTypeOK DEF Logout, Quiet, RestOK, db, redis, client
  <1>3. PICK s \in Known :
          /\ Free(p, SessionRead(s))
          /\ IF session[s].active
             THEN Goto(p, "logout") /\ Lock(p, SessionRead(s)) /\ UNCHANGED out
             ELSE Refused(p) /\ out' = [out EXCEPT ![p] = Success]
          /\ arg' = [arg EXCEPT ![p] = [NoArg EXCEPT
               !.user = session[s].user, !.sid = s, !.row = session[s]]]
    BY DEF Logout
  <1>4. s \in Request /\ session[s] # NoSession /\ session[s] \in SessionRow
    BY <1>3, KnownSessions DEF TypeOK
  <1> DEFINE a == [NoArg EXCEPT !.user = session[s].user, !.sid = s, !.row = session[s]]
             new == SessionRead(s)
  <1>5. a \in Arg /\ a.sid = s /\ a.row = session[s] /\ a.user = session[s].user
    BY <1>4, RecordTypes DEF Arg, SessionRow
  <1>6. arg'[p] = a /\ arg' = [arg EXCEPT ![p] = arg'[p]]
    BY <1>3 DEF TypeOK
  <1>7. CASE session[s].active
    <2>1. Moves(p) /\ pc'[p] = "logout" /\ held'[p] = held[p] \cup new /\ out'[p] = out[p]
      BY <1>3, <1>6, <1>7 DEF Goto, Lock, Moves, TypeOK
    <2>2. /\ new \subseteq Locks /\ \A q \in Request \ {p} : new \cap held[q] = {}
          /\ \A r \in Login \ {p} : SessionLock(r) \in new \/ EntryLock(r) \in new => session[r] # NoSession
      BY <1>3, <1>4, LockTypes, LockNames DEF Free, SessionRead
    <2>3. /\ Holds(p, "logout", held'[p], a) /\ Fresh("logout", a)
          /\ Knows(Op[p], "logout", a)
      BY <1>1, <1>4, <1>5, <1>7, <2>1 DEF Holds, Fresh, Knows, InTransaction, SessionRead
    <2> HIDE DEF new, a
    <2> QED
      BY <1>1, <1>2, <1>5, <1>6, <2>1, <2>2, <2>3, GoesIsLocal
  <1>8. CASE ~session[s].active
    <2>1. Moves(p) /\ pc'[p] = "done" /\ held'[p] = {} /\ out'[p] = Success
      BY <1>3, <1>6, <1>8 DEF Refused, Refuse, Goto, Unlock, Moves, TypeOK
    <2> HIDE DEF new, a
    <2> QED
      BY <1>1, <1>2, <1>5, <1>6, <2>1, RecordTypes, EndsIsLocal
  <1> QED
    BY <1>7, <1>8


LEMMA ChangePasswordIsLocal ==
  ASSUME TypeOK, Core, NEW p \in Request, ChangePassword(p)
  PROVE  Local(p)
  <1>1. /\ pc[p] = "idle" /\ Op[p] = "change" /\ p \notin Login /\ held[p] = {}
        /\ "revoke" \in Places(Op[p]) /\ arg[p] \in Arg
        /\ out[p] \in Answer /\ out[p].token = NoToken
    BY CoreAt DEF ChangePassword, Holds, InTransaction, Places, Login
  <1>2. Quiet /\ RestOK' /\ UNCHANGED out
    BY RestOfTypeOK DEF ChangePassword, Quiet, RestOK, db, redis, client
  <1>3. PICK s \in Known, w \in Password :
          LET u == session[s].user IN
          /\ Free(p, UserRead(u))
          /\ \/ /\ Goto(p, "revoke") /\ Lock(p, UserRead(u))
                /\ arg' = [arg EXCEPT ![p] = [NoArg EXCEPT
                     !.user = u, !.sid = s, !.account = user[u], !.new = w]]
             \/ Goto(p, "done") /\ UNCHANGED <<arg, held>>
    BY DEF ChangePassword
  <1> DEFINE u == session[s].user
             a == [NoArg EXCEPT !.user = u, !.sid = s, !.account = user[u], !.new = w]
             new == UserRead(u)
  <1>4. s \in Request /\ u \in User /\ user[u] \in UserRow
    BY <1>3, KnownSessions DEF TypeOK
  <1>5. a \in Arg /\ a.user = u /\ a.account = user[u] /\ a.new = w
    BY <1>4, RecordTypes DEF Arg
  <1>6. CASE Goto(p, "revoke") /\ Lock(p, new) /\ arg' = [arg EXCEPT ![p] = a]
    <2>1. /\ Moves(p) /\ pc'[p] = "revoke" /\ held'[p] = held[p] \cup new
          /\ arg'[p] = a /\ out'[p] = out[p]
      BY <1>2, <1>6 DEF Goto, Lock, Moves, TypeOK
    <2>2. /\ new \subseteq Locks /\ \A q \in Request \ {p} : new \cap held[q] = {}
          /\ \A r \in Login \ {p} : SessionLock(r) \in new \/ EntryLock(r) \in new => session[r] # NoSession
      BY <1>3, <1>4, LockTypes, LockNames DEF Free, UserRead
    <2>3. Holds(p, "revoke", held'[p], a) /\ Fresh("revoke", a) /\ Knows(Op[p], "revoke", a)
      BY <1>1, <1>4, <1>5, <2>1 DEF Holds, Fresh, Knows, InTransaction, UserRead
    <2> HIDE DEF new, a
    <2> QED
      BY <1>1, <1>2, <1>5, <2>1, <2>2, <2>3, GoesIsLocal
  <1>7. CASE Goto(p, "done") /\ UNCHANGED <<arg, held>>
    <2>1. Moves(p) /\ pc'[p] = "done" /\ held'[p] = {} /\ arg'[p] = arg[p] /\ out'[p] = out[p]
      BY <1>1, <1>2, <1>7, Same DEF Goto, Moves, TypeOK
    <2> QED
      BY <1>1, <1>2, <2>1, EndsIsLocal
  <1> QED
    BY <1>3, <1>6, <1>7

LEMMA ResetPasswordIsLocal ==
  ASSUME TypeOK, Core, NEW p \in Request, ResetPassword(p)
  PROVE  Local(p)
  <1>1. /\ pc[p] = "idle" /\ Op[p] = "reset" /\ p \notin Login /\ held[p] = {}
        /\ "user" \in Places(Op[p]) /\ arg[p] \in Arg
        /\ out[p] \in Answer /\ out[p].token = NoToken
    BY CoreAt DEF ResetPassword, Holds, InTransaction, Places, Login
  <1>2. Quiet /\ RestOK' /\ UNCHANGED <<held, out>>
    BY RestOfTypeOK
       DEF ResetPassword, ClaimScript, Fail, Quiet, RestOK, db, client
  <1>3. PICK t \in Ticket, w \in Password :
          \/ /\ ticket[t] # None /\ Goto(p, "user")
             /\ arg' = [arg EXCEPT ![p] = [NoArg EXCEPT
                  !.user = ticket[t], !.ticket = t, !.new = w]]
          \/ Goto(p, "done") /\ UNCHANGED arg
    BY DEF ResetPassword
  <1> DEFINE a == [NoArg EXCEPT !.user = ticket[t], !.ticket = t, !.new = w]
             new == {}
  <1>4. CASE ticket[t] # None /\ Goto(p, "user") /\ arg' = [arg EXCEPT ![p] = a]
    <2>1. ticket[t] \in User
      BY <1>4 DEF TypeOK
    <2>2. a \in Arg /\ a.user = ticket[t] /\ a.ticket = t /\ a.new = w
      BY <2>1, RecordTypes DEF Arg
    <2>3. /\ Moves(p) /\ pc'[p] = "user" /\ held'[p] = held[p] \cup new
          /\ arg'[p] = a /\ out'[p] = out[p]
      BY <1>2, <1>4 DEF Goto, Moves, TypeOK
    <2>4. Holds(p, "user", held'[p], a) /\ Fresh("user", a) /\ Knows(Op[p], "user", a)
      BY <1>1, <2>1, <2>2, <2>3 DEF Holds, Fresh, Knows, InTransaction
    <2>5. /\ new \subseteq Locks /\ \A q \in Request \ {p} : new \cap held[q] = {}
          /\ \A s \in Login \ {p} : SessionLock(s) \in new \/ EntryLock(s) \in new => session[s] # NoSession
      OBVIOUS
    <2> HIDE DEF new, a
    <2> QED
      BY <1>1, <1>2, <2>2, <2>3, <2>4, <2>5, GoesIsLocal
  <1>5. CASE Goto(p, "done") /\ UNCHANGED arg
    <2>1. Moves(p) /\ pc'[p] = "done" /\ held'[p] = {} /\ arg'[p] = arg[p] /\ out'[p] = out[p]
      BY <1>1, <1>2, <1>5, Same DEF Goto, Moves, TypeOK
    <2> QED
      BY <1>1, <1>2, <2>1, EndsIsLocal
  <1> QED
    BY <1>3, <1>4, <1>5

LEMMA LockResetUserIsLocal ==
  ASSUME TypeOK, Core, NEW p \in Request, LockResetUser(p)
  PROVE  Local(p)
  <1> DEFINE u == arg[p].user
             new == UserRead(u)
  <1>1. /\ pc[p] = "user" /\ Op[p] = "reset" /\ p \notin Login /\ u \in User
        /\ "revoke" \in Places(Op[p]) /\ arg[p] \in Arg /\ arg[p].ticket \in Ticket
        /\ arg[p].new \in Password /\ out[p] \in Answer /\ out[p].token = NoToken /\ user[u] \in UserRow
    BY CoreAt, PlaceOps DEF LockResetUser, Knows, Places, Login, Core, TypeOK
  <1>2. Quiet /\ RestOK' /\ UNCHANGED out
    BY RestOfTypeOK DEF LockResetUser, Quiet, RestOK, db, redis, client
  <1>3. CASE user[u].normal
    <2> DEFINE a == [arg[p] EXCEPT !.account = user[u]]
    <2>1. /\ a \in Arg /\ a.user = u /\ a.account = user[u] /\ a.new = arg[p].new
          /\ a.ticket = arg[p].ticket
      BY <1>1 DEF Arg
    <2>2. /\ Moves(p) /\ pc'[p] = "revoke" /\ held'[p] = held[p] \cup new
          /\ arg'[p] = a /\ out'[p] = out[p]
      BY <1>2, <1>3 DEF LockResetUser, Goto, Lock, Moves, TypeOK
    <2>3. /\ new \subseteq Locks /\ \A q \in Request \ {p} : new \cap held[q] = {}
          /\ \A r \in Login \ {p} : SessionLock(r) \in new \/ EntryLock(r) \in new => session[r] # NoSession
      BY <1>1, LockTypes, LockNames DEF LockResetUser, Free, UserRead
    <2>4. Holds(p, "revoke", held'[p], a) /\ Fresh("revoke", a) /\ Knows(Op[p], "revoke", a)
      BY <1>1, <2>1, <2>2 DEF Holds, Fresh, Knows, InTransaction, UserRead
    <2> HIDE DEF new, a
    <2> QED
      BY <1>1, <1>2, <2>1, <2>2, <2>3, <2>4, GoesIsLocal
  <1>4. CASE ~user[u].normal
    <2>1. /\ Moves(p) /\ pc'[p] = "release" /\ held'[p] = {}
          /\ arg'[p] = arg[p] /\ out'[p] = out[p]
      BY <1>2, <1>4, Same DEF LockResetUser, Refuse, Unlock, Goto, Moves, TypeOK
    <2> QED
      BY <1>1, <1>2, <2>1, EndsIsLocal
  <1> QED
    BY <1>3, <1>4


LEMMA RevokeSessionsIsLocal ==
  ASSUME TypeOK, Core, NEW p \in Request, RevokeSessions(p)
  PROVE  Local(p)
  <1> DEFINE u == arg[p].user
  <1>1. /\ pc[p] = "revoke" /\ Op[p] \in {"change", "reset"} /\ p \notin Login /\ u \in User
        /\ {"revoke", "newPassword"} \subseteq Places(Op[p]) /\ arg[p] \in Arg
        /\ Op[p] = "reset" => arg[p].ticket \in Ticket
        /\ arg[p].new \in Password /\ arg[p].account \in UserRow /\ arg[p].account = user[u]
        /\ out[p] \in Answer /\ out[p].token = NoToken /\ UserLock(u) \in held[p]
    BY CoreAt, PlaceOps DEF RevokeSessions, Knows, Fresh, Holds, Places, Login, Core
  <1>2. Quiet /\ RestOK' /\ UNCHANGED out
    BY RestOfTypeOK DEF RevokeSessions, Quiet, RestOK, db, redis, client
  <1>3. \A s \in Inserted(u) :
          /\ s \in Login /\ s \in Request /\ s # p
          /\ session[s] # NoSession \/ {SessionLock(s), EntryLock(s)} \subseteq held[s]
    BY <1>1, CoreAt DEF Inserted, SessionsOf, Login, Holds
  <1>4. ASSUME NEW lock \in ScanNext(p), Free(p, {lock}), Free(p, {UserLock(u)}),
               Lock(p, {UserLock(u), lock}), UNCHANGED <<pc, arg>>
        PROVE  Local(p)
    <2> DEFINE new == {UserLock(u), lock}
    <2>1. PICK s \in Inserted(u) : lock \in {SessionLock(s), EntryLock(s)}
      BY <1>4 DEF ScanNext
    <2>2. s \in Login /\ s \in Request /\ s # p /\ session[s] # NoSession
      BY <1>3, <1>4, <2>1 DEF Free
    <2>3. /\ Moves(p) /\ pc'[p] = "revoke" /\ held'[p] = held[p] \cup new
          /\ arg'[p] = arg[p] /\ out'[p] = out[p]
      BY <1>1, <1>2, <1>4, Same DEF Lock, Moves, TypeOK
    <2>4. new \subseteq Locks /\ \A q \in Request \ {p} : new \cap held[q] = {}
      BY <1>1, <1>4, <2>1, <2>2, LockTypes DEF Free
    <2>5. \A r \in Login \ {p} : SessionLock(r) \in new \/ EntryLock(r) \in new => session[r] # NoSession
      BY <2>1, <2>2, LockNames
    <2>6. /\ Holds(p, "revoke", held'[p], arg[p]) /\ Fresh("revoke", arg[p])
          /\ Knows(Op[p], "revoke", arg[p])
      BY <1>1, <2>3 DEF Holds, Fresh, Knows, InTransaction
    <2> HIDE DEF new
    <2> QED
      BY <1>1, <1>2, <2>3, <2>4, <2>5, <2>6, GoesIsLocal
  <1> DEFINE end == {UserLock(u), RangeLock(u)}
             a == [arg[p] EXCEPT !.revoked = Revocable(u, arg[p].sid)]
  <1>5. ASSUME Scanned(p), Free(p, {UserLock(u)}), Free(p, {RangeLock(u)}), Lock(p, end),
               arg' = [arg EXCEPT ![p] = a], Goto(p, "newPassword")
        PROVE  Local(p)
    <2>1. /\ a \in Arg /\ a.user = u /\ a.revoked = Revocable(u, arg[p].sid)
          /\ a.sid = arg[p].sid /\ a.new = arg[p].new /\ a.account = arg[p].account
          /\ a.ticket = arg[p].ticket
      BY <1>1 DEF Arg, Revocable
    <2>2. /\ Moves(p) /\ pc'[p] = "newPassword" /\ held'[p] = held[p] \cup end
          /\ arg'[p] = a /\ out'[p] = out[p]
      BY <1>2, <1>5 DEF Goto, Lock, Moves, TypeOK
    <2>3. end \subseteq Locks /\ \A q \in Request \ {p} : end \cap held[q] = {}
      BY <1>1, <1>5, LockTypes DEF Free
    <2>4. \A s \in Inserted(u) : SessionLock(s) \in held[p]
      BY <1>5 DEF Scanned, ScanNext
    <2>5. \A s \in Login \ {p} : arg[s].user = u =>
            /\ session[s] # NoSession => SessionLock(s) \in held'[p]
            /\ pc[s] \notin {"stamp", "login"}
      <3> SUFFICES ASSUME NEW s \in Login \ {p}, arg[s].user = u
                   PROVE  /\ session[s] # NoSession => SessionLock(s) \in held[p]
                          /\ pc[s] \notin {"stamp", "login"}
        BY <2>2
      <3>1. session[s] # NoSession \/ pc[s] \in {"stamp", "login"} => SessionLock(s) \in held[p]
        BY <2>4 DEF Inserted, SessionsOf
      <3>2. s \in Request /\ (pc[s] \in {"stamp", "login"} => SessionLock(s) \in held[s])
        BY CoreAt DEF Holds, Login
      <3> QED
        BY <3>1, <3>2, CoreAt
    <2>6. \A q \in Request \ {p} : held'[p] \cap held[q] = {}
      BY <2>2, <2>3, CoreAt
    <2>7. /\ Holds(p, "newPassword", held'[p], a) /\ Knows(Op[p], "newPassword", a)
      BY <1>1, <2>1, <2>2 DEF Holds, Knows, InTransaction
    <2>8. Fresh("newPassword", a)
      BY <1>1, <2>1 DEF Fresh
    <2>9. \A s \in Login \ {p} :
            SessionLock(s) \in held'[p] \/ EntryLock(s) \in held'[p] => session[s] # NoSession
      BY <2>2, CoreAt, LockNames
    <2>10. p \notin committed /\ (out'[p].ok => Op[p] \notin {"password", "phone", "refresh"})
      BY <1>1, CoreAt
    <2>11. ActorOK(p)
      BY <1>1, <2>1, <2>2, <2>3, CoreAt, PlacesArePC DEF ActorOK
    <2> HIDE DEF end, a
    <2>12. Proceeds(p)
      BY <1>1, <2>1, <2>2, <2>5, <2>6, <2>7, <2>8, <2>9, <2>10 DEF Proceeds
    <2> QED
      BY <1>2, <2>2, <2>11, <2>12 DEF Local
  <1> HIDE DEF end, a
  <1>6. \/ \E lock \in ScanNext(p) : /\ Free(p, {lock}) /\ Free(p, {UserLock(u)})
                                    /\ Lock(p, {UserLock(u), lock}) /\ UNCHANGED <<pc, arg>>
        \/ /\ Scanned(p) /\ Free(p, {UserLock(u)}) /\ Free(p, {RangeLock(u)}) /\ Lock(p, end)
           /\ arg' = [arg EXCEPT ![p] = a] /\ Goto(p, "newPassword")
    BY DEF RevokeSessions, Revocable, end, a
  <1> QED
    BY <1>4, <1>5, <1>6

LEMMA ConsumeResetTicketIsLocal ==
  ASSUME TypeOK, Core, NEW p \in Request, ConsumeResetTicket(p)
  PROVE  Local(p)
  <1>1. /\ pc[p] = "consume" /\ Op[p] = "reset" /\ held[p] = {} /\ arg[p].ticket \in Ticket
        /\ out[p] \in Answer /\ out[p].token = NoToken
    BY CoreAt, PlaceOps DEF ConsumeResetTicket, Knows, Holds, InTransaction, Core
  <1>2. Quiet /\ UNCHANGED <<held, arg, out, device, over, code>>
    BY DEF ConsumeResetTicket, Fail, Quiet, TypeOK, db, client
  <1>3. faults' \in 0 .. MaxFaults /\ lapsed' \subseteq Request
    BY <1>1 DEF ConsumeResetTicket, Fail, TypeOK
  <1>4. ticket' \in [Ticket -> User \cup {None}] /\ owner' \in [Ticket -> Request \cup {None}]
    BY <1>1 DEF ConsumeResetTicket, ConsumeTicketScript, TypeOK
  <1>5. RestOK'
    BY <1>2, <1>3, <1>4 DEF RestOK, TypeOK
  <1>6. pc' = [pc EXCEPT ![p] = pc'[p]] /\ pc'[p] \in {"release", "done"}
    BY DEF ConsumeResetTicket, OwnershipLost, Goto, TypeOK
  <1>7. Moves(p)
    BY <1>2, <1>6, Same DEF Moves
  <1> QED
    BY <1>1, <1>2, <1>5, <1>6, <1>7, EndsIsLocal

LEMMA ReleaseTicketLockIsLocal ==
  ASSUME TypeOK, Core, NEW p \in Request, ReleaseTicketLock(p)
  PROVE  Local(p)
  <1>1. /\ pc[p] = "release" /\ Op[p] = "reset" /\ held[p] = {}
        /\ out[p] \in Answer /\ out[p].token = NoToken
    BY CoreAt, PlaceOps DEF ReleaseTicketLock, Holds, InTransaction, Core
  <1>2. Quiet /\ RestOK' /\ UNCHANGED <<held, arg, out>>
    BY RestOfTypeOK
       DEF ReleaseTicketLock, ReleaseScript, Fail, Quiet, RestOK, TypeOK, db, client
  <1>3. pc' = [pc EXCEPT ![p] = pc'[p]] /\ pc'[p] = "done"
    BY DEF ReleaseTicketLock, Goto, TypeOK
  <1>4. Moves(p)
    BY <1>2, <1>3, Same DEF Moves
  <1> QED
    BY <1>1, <1>2, <1>3, <1>4, EndsIsLocal

LEMMA RollbackIsLocal ==
  ASSUME TypeOK, Core, NEW p \in Request, Rollback(p), UNCHANGED faults \/ Fail
  PROVE  Local(p)
  <1>1. out[p] \in Answer /\ pc[p] \notin {"idle", "done"}
    BY CoreAt DEF Rollback, InTransaction
  <1>2. Quiet /\ RestOK' /\ UNCHANGED <<arg, out>>
    BY RestOfTypeOK DEF Rollback, Fail, Quiet, RestOK, db, redis, client
  <1>3. /\ pc' = [pc EXCEPT ![p] = pc'[p]] /\ held' = [held EXCEPT ![p] = held'[p]]
        /\ pc'[p] = (IF Op[p] = "reset" THEN "release" ELSE "done") /\ held'[p] = {}
    BY DEF Rollback, Refuse, Goto, Unlock, TypeOK
  <1>4. Moves(p)
    BY <1>2, <1>3, Same DEF Moves
  <1> QED
    BY <1>1, <1>2, <1>3, <1>4, CoreAt, EndsIsLocal DEF Receives

-----------------------------------------------------------------------------
(* The commits.                                                             *)

LEMMA CommitFacts ==
  ASSUME TypeOK, NEW p \in Request, NEW answer \in Answer, NEW place \in PC, NEW failed \in PC,
         Commit(p, answer, place, failed), UNCHANGED arg
  PROVE  /\ Moves(p) /\ held'[p] = {} /\ committed' = committed \cup {p}
         /\ committed' \subseteq Request
         /\ pc' \in [Request -> PC] /\ held' \in [Request -> SUBSET Locks]
         /\ out' \in [Request -> Answer] /\ faults' \in 0 .. MaxFaults
         /\ \/ pc'[p] = place /\ out'[p] = answer /\ faults' = faults
            \/ pc'[p] = failed /\ out'[p] = out[p] /\ faults' # 0
  <1>1. held' = [held EXCEPT ![p] = {}] /\ committed' = committed \cup {p}
    BY DEF Commit, Unlock
  <1>2. CASE Goto(p, place) /\ out' = [out EXCEPT ![p] = answer] /\ UNCHANGED faults
    BY <1>1, <1>2 DEF Goto, Moves, TypeOK
  <1>3. CASE Fail /\ Goto(p, failed) /\ UNCHANGED out
    <2>1. faults' # 0 /\ faults' \in 0 .. MaxFaults
      BY <1>3 DEF Fail, TypeOK
    <2> QED
      BY <1>1, <1>3, <2>1, Same DEF Goto, Moves, TypeOK
  <1> QED
    BY <1>2, <1>3 DEF Commit

LEMMA PlaceTypes == {"done", "consume", "release"} \subseteq PC
  BY DEF PC

LEMMA RaisedRow ==
  ASSUME NEW row \in SessionRow, NEW n \in Nat
  PROVE  LET raised == [row EXCEPT !.ctr = n + 1] IN
         raised \in SessionRow /\ raised.user = row.user /\ raised.ctr = n + 1
  BY DEF SessionRow

LEMMA Answers ==
  ASSUME NEW t \in Token
  PROVE  SuccessWith(t) \in Answer /\ SuccessWith(t).token = t /\ SuccessWith(t).ok
  BY RecordTypes DEF SuccessWith, Answer

LEMMA CommitLoginCommits ==
  ASSUME TypeOK, Core, NEW p \in Request, CommitLogin(p)
  PROVE  TypeOK' /\ Moves(p) /\ Commits(p)
  <1> DEFINE u == arg[p].user
             d == arg[p].device
             t == [sid |-> p, ctr |-> 0]
             row == [user |-> u, device |-> d, active |-> TRUE, ctr |-> 0]
  <1>1. /\ pc[p] = "login" /\ p \in Login /\ Op[p] \in {"password", "phone"}
        /\ u \in User /\ d \in Request /\ "done" \in Places(Op[p])
        /\ SessionLock(p) \in held[p] /\ UserLock(u) \in held[p] /\ ~Receives(p)
        /\ out[p].token = NoToken
    BY CoreAt, PlaceOps, OpAssumption DEF CommitLogin, Knows, Holds, Places, Login, Core
  <1>2. session[p] = NoSession
    BY <1>1 DEF Core, SessionsAreCommitted
  <1>3. t \in Token /\ SuccessWith(t) \in Answer /\ SuccessWith(t).token = t /\ SuccessWith(t).ok
    <2>1. t \in Token
      BY DEF Token
    <2> QED
      BY <2>1, RecordTypes, Answers
  <1>4. row \in SessionRow /\ row # NoSession
    BY <1>1 DEF SessionRow, NoSession
  <1>5. /\ Commit(p, SuccessWith(t), "done", "done")
        /\ session' = [session EXCEPT ![p] = row]
        /\ device' = [device EXCEPT ![d] = u]
        /\ user' = [user EXCEPT ![u].lastLogin = p]
        /\ UNCHANGED <<redis, over, client, arg>>
    BY DEF CommitLogin
  <1> HIDE DEF t, row
  <1>6. /\ Moves(p) /\ held'[p] = {} /\ committed' = committed \cup {p}
        /\ committed' \subseteq Request
        /\ pc' \in [Request -> PC] /\ held' \in [Request -> SUBSET Locks]
        /\ out' \in [Request -> Answer] /\ faults' \in 0 .. MaxFaults
        /\ pc'[p] = "done"
        /\ \/ out'[p] = SuccessWith(t) /\ faults' = faults
           \/ out'[p] = out[p] /\ faults' # 0
    BY <1>3, <1>5, CommitFacts, PlaceTypes
  <1>7. /\ session'[p] = row /\ \A s \in Request \ {p} : session'[s] = session[s]
        /\ session' \in [Request -> SessionRow] /\ device' \in [Request -> User \cup {None}]
    BY <1>1, <1>4, <1>5 DEF TypeOK
  <1>8. /\ user' \in [User -> UserRow] /\ \A v \in User \ {u} : user'[v] = user[v]
    BY <1>1, <1>5 DEF TypeOK, UserRow
  <1>9. TypeOK'
    BY <1>5, <1>6, <1>7, <1>8 DEF TypeOK, redis, client
  <1>10. \A s \in Request :
       /\ session'[s] # session[s] => SessionLock(s) \in held[p]
       /\ session[s] # NoSession =>
            session'[s] # NoSession /\ session'[s].user = session[s].user
       /\ session[s] = NoSession /\ session'[s] # NoSession =>
            s = p /\ pc[p] = "login" /\ session'[p].user = arg[p].user
       /\ session'[s].ctr = session[s].ctr
    BY <1>1, <1>2, <1>7, RecordTypes DEF row
  <1>11. Receives(p)' => out'[p] = SuccessWith(t)
    BY <1>1, <1>6 DEF Receives
  <1>12. \A q \in Request : Receives(q) => out[q].token # t
    BY <1>2 DEF Core, TokensAreSpent, t
  <1>13. t.sid = p /\ t.ctr = session'[p].ctr /\ session'[p] # NoSession
    BY <1>4, <1>7 DEF t, row
  <1>14. out'[p].token # NoToken => Receives(p)'
    BY <1>1, <1>3, <1>6 DEF Receives
  <1>15. faults' = 0 => Receives(p)' /\ out'[p].token = [sid |-> p, ctr |-> session'[p].ctr] /\ faults = 0
    BY <1>1, <1>3, <1>6, <1>7 DEF Receives, t, row
  <1>16. Receives(p)' =>
       /\ out'[p].token \in Token /\ session'[out'[p].token.sid] # NoSession
       /\ out'[p].token.ctr = session'[out'[p].token.sid].ctr
       /\ \A q \in Request \ {p} : Receives(q) => out[q].token # out'[p].token
    BY <1>3, <1>11, <1>12, <1>13
  <1>17. faults' = 0 =>
       /\ faults = 0
       /\ \A s \in Request : session'[s] # NoSession =>
            \/ session[s] # NoSession /\ session'[s].ctr = session[s].ctr
            \/ Receives(p)' /\ out'[p].token = [sid |-> s, ctr |-> session'[s].ctr]
    BY <1>10, <1>15
  <1>18. Commits(p)
    BY <1>1, <1>5, <1>6, <1>8, <1>10, <1>14, <1>16, <1>17 DEF Commits
  <1> QED
    BY <1>6, <1>9, <1>18

LEMMA CommitRefreshCommits ==
  ASSUME TypeOK, Core, NEW p \in Request, CommitRefresh(p)
  PROVE  TypeOK' /\ Moves(p) /\ Commits(p)
  <1> DEFINE s == arg[p].token.sid
             n == session[s].ctr
             t == [sid |-> s, ctr |-> n + 1]
             row == [session[s] EXCEPT !.ctr = n + 1]
  <1>1. /\ pc[p] = "refresh" /\ Op[p] = "refresh" /\ p \notin Login
        /\ arg[p].token \in Token /\ session[s] # NoSession
        /\ arg[p].row = session[s] /\ arg[p].token.ctr = n
        /\ "done" \in Places(Op[p]) /\ SessionLock(s) \in held[p] /\ ~Receives(p)
        /\ out[p].token = NoToken
    BY CoreAt, PlaceOps DEF CommitRefresh, Knows, Holds, Fresh, Places, Login, Core
  <1>2. s \in Request /\ n \in Nat /\ session[s] \in SessionRow
        /\ arg[p].token = [sid |-> s, ctr |-> n]
    BY <1>1 DEF Token, TypeOK, SessionRow
  <1>3. t \in Token /\ SuccessWith(t) \in Answer /\ SuccessWith(t).token = t /\ SuccessWith(t).ok
    <2>1. t \in Token
      BY <1>2 DEF Token
    <2> QED
      BY <2>1, RecordTypes, Answers
  <1>4. /\ row \in SessionRow /\ row.user = session[s].user /\ row.ctr = n + 1
        /\ row # NoSession
    <2>1. row \in SessionRow /\ row.user = session[s].user /\ row.ctr = n + 1
      BY <1>2, RaisedRow
    <2>2. NoSession.ctr = 0 /\ n + 1 # 0
      BY <1>2, RecordTypes
    <2> HIDE DEF row
    <2> QED
      BY <2>1, <2>2
  <1>5. /\ Commit(p, SuccessWith(t), "done", "done")
        /\ session' = [session EXCEPT ![s] = row]
        /\ UNCHANGED <<user, device, redis, over, client, arg>>
    BY <1>1 DEF CommitRefresh, NewToken
  <1> HIDE DEF t, row
  <1>6. /\ Moves(p) /\ held'[p] = {} /\ committed' = committed \cup {p}
        /\ committed' \subseteq Request
        /\ pc' \in [Request -> PC] /\ held' \in [Request -> SUBSET Locks]
        /\ out' \in [Request -> Answer] /\ faults' \in 0 .. MaxFaults
        /\ pc'[p] = "done"
        /\ \/ out'[p] = SuccessWith(t) /\ faults' = faults
           \/ out'[p] = out[p] /\ faults' # 0
    BY <1>3, <1>5, CommitFacts, PlaceTypes
  <1>7. /\ session'[s] = row /\ \A r \in Request \ {s} : session'[r] = session[r]
        /\ session' \in [Request -> SessionRow]
    BY <1>2, <1>4, <1>5 DEF TypeOK
  <1>9. TypeOK'
    BY <1>5, <1>6, <1>7 DEF TypeOK, redis, client
  <1>10. \A r \in Request :
       /\ session'[r] # session[r] => SessionLock(r) \in held[p]
       /\ session[r] # NoSession =>
            session'[r] # NoSession /\ session'[r].user = session[r].user
       /\ session[r] = NoSession => session'[r] = NoSession
       /\ \/ session'[r].ctr = session[r].ctr
          \/ /\ arg[p].token = [sid |-> r, ctr |-> session[r].ctr]
             /\ session'[r].ctr = session[r].ctr + 1
    BY <1>1, <1>2, <1>4, <1>7
  <1>11. Receives(p)' => out'[p] = SuccessWith(t)
    BY <1>1, <1>6 DEF Receives
  <1>12. \A q \in Request : Receives(q) => out[q].token # t
    <2> SUFFICES ASSUME NEW q \in Request, Receives(q), out[q].token = t PROVE FALSE
      OBVIOUS
    <2>1. t.sid = s /\ t.ctr = n + 1
      BY DEF t
    <2>2. out[q].token.ctr <= session[out[q].token.sid].ctr
      BY DEF Core, TokensAreSpent
    <2> QED
      BY <1>2, <2>1, <2>2
  <1>13. t.sid = s /\ t.ctr = session'[s].ctr /\ session'[s] # NoSession
    BY <1>4, <1>7 DEF t
  <1>14. out'[p].token # NoToken => Receives(p)'
    BY <1>1, <1>3, <1>6 DEF Receives
  <1>15. faults' = 0 => Receives(p)' /\ out'[p].token = [sid |-> s, ctr |-> session'[s].ctr] /\ faults = 0
    BY <1>1, <1>3, <1>4, <1>6, <1>7 DEF Receives, t
  <1>16. arg[p].token.ctr < session'[s].ctr
    BY <1>1, <1>2, <1>4, <1>7
  <1>17. \A r \in Request : faults' = 0 /\ session'[r] # NoSession =>
            \/ session[r] # NoSession /\ session'[r].ctr = session[r].ctr
            \/ Receives(p)' /\ out'[p].token = [sid |-> r, ctr |-> session'[r].ctr]
    BY <1>7, <1>10, <1>15
  <1>18. Receives(p)' =>
       /\ out'[p].token \in Token /\ session'[out'[p].token.sid] # NoSession
       /\ out'[p].token.ctr = session'[out'[p].token.sid].ctr
       /\ \A q \in Request \ {p} : Receives(q) => out[q].token # out'[p].token
    BY <1>3, <1>11, <1>12, <1>13
  <1>19. faults' = 0 => faults = 0
    BY <1>15
  <1> HIDE DEF n
  <1>20. Commits(p)
    BY <1>1, <1>5, <1>6, <1>10, <1>14, <1>16, <1>17, <1>18, <1>19 DEF Commits
  <1> QED
    BY <1>6, <1>9, <1>20


LEMMA CommitLogoutCommits ==
  ASSUME TypeOK, Core, NEW p \in Request, CommitLogout(p)
  PROVE  TypeOK' /\ Moves(p) /\ Commits(p)
  <1> DEFINE s == arg[p].sid
             row == [session[s] EXCEPT !.active = FALSE]
  <1>1. /\ pc[p] = "logout" /\ Op[p] = "logout" /\ p \notin Login
        /\ s \in Request /\ session[s] # NoSession /\ arg[p].row = session[s]
        /\ "done" \in Places(Op[p]) /\ SessionLock(s) \in held[p] /\ ~Receives(p)
        /\ out[p].token = NoToken
    BY CoreAt, PlaceOps DEF CommitLogout, Knows, Holds, Fresh, Places, Login, Core
  <1>2. session[s] \in SessionRow /\ session[s].user \in User
    BY <1>1 DEF TypeOK, Core, SessionsAreCommitted
  <1>3. /\ row \in SessionRow /\ row.user = session[s].user /\ row.ctr = session[s].ctr
        /\ row # NoSession
    BY <1>2, RecordTypes DEF SessionRow
  <1>4. /\ Commit(p, Success, "done", "done")
        /\ session' = [session EXCEPT ![s] = row]
        /\ UNCHANGED <<user, device, redis, over, client, arg>>
    BY <1>1 DEF CommitLogout
  <1> HIDE DEF row
  <1>5. /\ Moves(p) /\ held'[p] = {} /\ committed' = committed \cup {p}
        /\ committed' \subseteq Request
        /\ pc' \in [Request -> PC] /\ held' \in [Request -> SUBSET Locks]
        /\ out' \in [Request -> Answer] /\ faults' \in 0 .. MaxFaults
        /\ pc'[p] = "done" /\ out'[p].token = NoToken
        /\ faults' = 0 => faults = 0
    BY <1>1, <1>4, CommitFacts, PlaceTypes, RecordTypes
  <1>6. /\ session'[s] = row /\ \A r \in Request \ {s} : session'[r] = session[r]
        /\ session' \in [Request -> SessionRow]
    BY <1>1, <1>3, <1>4 DEF TypeOK
  <1>7. TypeOK'
    BY <1>4, <1>5, <1>6 DEF TypeOK, redis, client
  <1>8. ~Receives(p)'
    BY <1>1 DEF Receives
  <1>9. \A r \in Request :
       /\ session'[r] # session[r] => SessionLock(r) \in held[p]
       /\ session[r] # NoSession =>
            session'[r] # NoSession /\ session'[r].user = session[r].user
       /\ session[r] = NoSession => session'[r] = NoSession
       /\ session'[r].ctr = session[r].ctr
    BY <1>1, <1>3, <1>6
  <1>10. Commits(p)
    BY <1>1, <1>4, <1>5, <1>8, <1>9 DEF Commits
  <1> QED
    BY <1>5, <1>7, <1>10

(* The rows of a new password. *)
LEMMA NewPasswordRows ==
  ASSUME TypeOK, Core, NEW p \in Request, CommitPassword(p)
  PROVE  /\ arg[p].user \in User
         /\ user'[arg[p].user] = [user[arg[p].user] EXCEPT !.pw = arg[p].new]
         /\ user' \in [User -> UserRow]
         /\ \A v \in User \ {arg[p].user} : user'[v] = user[v]
         /\ arg[p].revoked = Revocable(arg[p].user, arg[p].sid)
         /\ \A s \in arg[p].revoked :
              /\ s \in Login /\ session[s] # NoSession /\ SessionLock(s) \in held[p]
              /\ arg[s].user = arg[p].user
         /\ session' = [s \in Request |-> IF s \in arg[p].revoked
              THEN [session[s] EXCEPT !.active = FALSE] ELSE session[s]]
         /\ session' \in [Request -> SessionRow]
         /\ \A s \in Request :
              /\ s \notin arg[p].revoked => session'[s] = session[s]
              /\ session'[s].ctr = session[s].ctr /\ session'[s].user = session[s].user
  <1> DEFINE u == arg[p].user
  <1>1. /\ pc[p] = "newPassword" /\ u \in User /\ arg[p].account = user[u]
        /\ arg[p].new \in Password /\ arg[p].revoked = Revocable(u, arg[p].sid)
    BY CoreAt DEF CommitPassword, Knows, Fresh
  <1>2. /\ user' = [user EXCEPT ![u] = [user[u] EXCEPT !.pw = arg[p].new]]
        /\ session' = [s \in Request |-> IF s \in arg[p].revoked
              THEN [session[s] EXCEPT !.active = FALSE] ELSE session[s]]
    BY <1>1 DEF CommitPassword
  <1>3. /\ user' \in [User -> UserRow] /\ user'[u] = [user[u] EXCEPT !.pw = arg[p].new]
        /\ \A v \in User \ {u} : user'[v] = user[v]
    <2>1. user \in [User -> UserRow] /\ user[u] \in UserRow
      BY <1>1 DEF TypeOK
    <2>2. [user[u] EXCEPT !.pw = arg[p].new] \in UserRow
      BY <1>1, <2>1 DEF UserRow
    <2> QED
      BY <1>1, <1>2, <2>1, <2>2
  <1>4. ASSUME NEW row \in SessionRow
        PROVE  /\ [row EXCEPT !.active = FALSE] \in SessionRow
               /\ [row EXCEPT !.active = FALSE].ctr = row.ctr
               /\ [row EXCEPT !.active = FALSE].user = row.user
    BY DEF SessionRow
  <1>5. /\ session' \in [Request -> SessionRow]
        /\ \A s \in Request :
              /\ s \notin arg[p].revoked => session'[s] = session[s]
              /\ session'[s].ctr = session[s].ctr /\ session'[s].user = session[s].user
    BY <1>2, <1>4 DEF TypeOK
  <1>6. ASSUME NEW s \in arg[p].revoked
        PROVE  /\ s \in Login /\ session[s] # NoSession /\ SessionLock(s) \in held[p]
               /\ arg[s].user = u
    <2>1. s \in Request /\ session[s].user = u /\ session[s] # NoSession
      BY <1>1, RecordTypes DEF Revocable
    <2>2. s \in Login /\ arg[s].user = u
      BY <2>1 DEF Core, SessionsAreCommitted
    <2> QED
      BY <1>1, <2>1, <2>2 DEF Core, RevokedAreLocked, SessionsOf
  <1> QED
    BY <1>1, <1>2, <1>3, <1>5, <1>6

LEMMA CommitPasswordCommits ==
  ASSUME TypeOK, Core, NEW p \in Request, CommitPassword(p)
  PROVE  TypeOK' /\ Moves(p) /\ Commits(p)
  <1>1. /\ pc[p] = "newPassword" /\ Op[p] \in {"change", "reset"} /\ UserLock(arg[p].user) \in held[p]
        /\ ~Receives(p) /\ out[p].token = NoToken
        /\ Op[p] = "change" => "done" \in Places(Op[p])
        /\ Op[p] = "reset" => "consume" \in Places(Op[p]) /\ "release" \in Places(Op[p])
    BY CoreAt, PlaceOps DEF CommitPassword, Holds, Places, Core
  <1>2. /\ Op[p] = "change" => Commit(p, Success, "done", "done")
        /\ Op[p] = "reset" => Commit(p, Success, "consume", "release")
        /\ UNCHANGED <<device, redis, over, client, arg>>
    BY DEF CommitPassword
  <1>3. /\ Moves(p) /\ held'[p] = {} /\ committed' = committed \cup {p}
        /\ committed' \subseteq Request
        /\ pc' \in [Request -> PC] /\ held' \in [Request -> SUBSET Locks]
        /\ out' \in [Request -> Answer] /\ faults' \in 0 .. MaxFaults
        /\ pc'[p] \in {"consume", "release", "done"} \cap Places(Op[p])
        /\ out'[p].token = NoToken
        /\ faults' = 0 => faults = 0
    BY <1>1, <1>2, CommitFacts, PlaceTypes, RecordTypes
  <1>4. TypeOK'
    BY <1>2, <1>3, NewPasswordRows DEF TypeOK, redis, client
  <1>5. ~Receives(p)'
    BY <1>1 DEF Receives
  <1>6. \A s \in Request :
       /\ session'[s] # session[s] => SessionLock(s) \in held[p]
       /\ session[s] # NoSession =>
            session'[s] # NoSession /\ session'[s].user = session[s].user
       /\ session[s] = NoSession => session'[s] = NoSession
       /\ session'[s].ctr = session[s].ctr
    <2>1. \A s \in Request : session[s] # NoSession => session[s].user \in User
      BY DEF Core, SessionsAreCommitted
    <2>2. ASSUME NEW s \in Request
          PROVE  /\ s \notin arg[p].revoked => session'[s] = session[s]
                 /\ s \in arg[p].revoked => session[s] # NoSession /\ SessionLock(s) \in held[p]
                 /\ session'[s].ctr = session[s].ctr /\ session'[s].user = session[s].user
      BY NewPasswordRows
    <2>3. NoSession.user \notin User
      BY RecordTypes
    <2> QED
      BY <2>1, <2>2, <2>3
  <1>7. \A u \in User : user'[u] # user[u] => UserLock(u) \in held[p]
    <2>1. \A u \in User \ {arg[p].user} : user'[u] = user[u]
      BY NewPasswordRows
    <2> QED
      BY <1>1, <2>1
  <1>8. Commits(p)
    BY <1>1, <1>2, <1>3, <1>5, <1>6, <1>7 DEF Commits
  <1> QED
    BY <1>3, <1>4, <1>8

-----------------------------------------------------------------------------
(* The steps of nobody's request.                                           *)
LEMMA CoreStays ==
  ASSUME Core, UNCHANGED <<user, session, held, pc, arg, out, committed, faults>>,
         cookie' = NoToken \/ cookie' \in Issued \/ cookie' = cookie
  PROVE  Core'
  <1>1. \A p \in Request : Receives(p)' = Receives(p)
    BY DEF Receives
  <1>2. Issued' = Issued
    BY <1>1 DEF Issued
  <1>3. CookieIsIssued'
    BY <1>1, <1>2 DEF Core, CookieIsIssued
  <1>4. TokensAreSpent' /\ TokensAreDistinct'
    BY <1>1 DEF Core, TokensAreSpent, TokensAreDistinct
  <1>5. /\ AtPlaces' /\ LocksAreExclusive' /\ LocksHeld' /\ RevokedAreLocked'
        /\ LockedAreInserted' /\ SessionsAreCommitted'
    BY DEF Core, AtPlaces, LocksAreExclusive, LocksHeld, RevokedAreLocked,
           LockedAreInserted, SessionsAreCommitted, SessionsOf
  <1>6. RowsAreFresh' /\ Informed'
    BY DEF Core, RowsAreFresh, Fresh, Revocable, Informed, Knows
  <1> QED
    BY <1>3, <1>4, <1>5, <1>6 DEF Core

LEMMA DeliverKeeps ==
  ASSUME TypeOK, Core, NEW p \in Request, Deliver(p)
  PROVE  TypeOK' /\ Core'
  <1>1. out[p].token # NoToken => Receives(p) /\ out[p].token \in Token
    BY DEF Core, CookieIsIssued, TokensAreSpent
  <1>2. out[p].token # NoToken => out[p].token \in Issued
    BY <1>1 DEF Issued
  <1>3. cookie' = NoToken \/ (cookie' \in Issued /\ cookie' \in Token) \/ cookie' = cookie
    BY <1>1, <1>2 DEF Deliver
  <1>4. TypeOK'
    BY <1>3 DEF Deliver, TypeOK, db, redis
  <1>5. Core'
    BY <1>3, CoreStays DEF Deliver, db
  <1> QED
    BY <1>4, <1>5

LEMMA CookieExpiresKeeps ==
  ASSUME TypeOK, Core, CookieExpires
  PROVE  TypeOK' /\ Core'
  <1>1. TypeOK'
    BY DEF CookieExpires, TypeOK, db, redis
  <1>2. Core'
    BY CoreStays DEF CookieExpires, db
  <1> QED
    BY <1>1, <1>2

LEMMA ExpiryKeeps ==
  ASSUME TypeOK, Core,
         \/ \E p \in Request : SessionExpires(p)
         \/ \E t \in Ticket : LockExpires(t) \/ TicketExpires(t)
  PROVE  TypeOK' /\ Core'
  <1>1. TypeOK'
    BY DEF SessionExpires, LockExpires, TicketExpires, TypeOK, db, redis, client
  <1>2. Core'
    BY CoreStays DEF SessionExpires, LockExpires, TicketExpires, db, client
  <1> QED
    BY <1>1, <1>2

LEMMA DisableAccountKeeps ==
  ASSUME TypeOK, Core, NEW u \in User, DisableAccount(u)
  PROVE  TypeOK' /\ Core'
  <1>1. /\ user' = [user EXCEPT ![u].normal = FALSE]
        /\ \A q \in Request : UserLock(u) \notin held[q]
        /\ UNCHANGED <<device, session, redis, over, client, held, pc, arg, out, committed, faults>>
    BY DEF DisableAccount, Free
  <1>2. user' \in [User -> UserRow] /\ \A v \in User \ {u} : user'[v] = user[v]
    <2>1. user \in [User -> UserRow] /\ user[u] \in UserRow
      BY DEF TypeOK
    <2>2. [user[u] EXCEPT !.normal = FALSE] \in UserRow
      BY <2>1 DEF UserRow
    <2> QED
      BY <1>1, <2>1, <2>2
  <1>3. TypeOK'
    BY <1>1, <1>2 DEF TypeOK, redis, client
  <1>4. \A p \in Request : Receives(p)' = Receives(p)
    BY <1>1 DEF Receives
  <1>5. Issued' = Issued
    BY <1>1, <1>4 DEF Issued
  <1>6. CookieIsIssued'
    BY <1>1, <1>4, <1>5 DEF Core, CookieIsIssued, client
  <1>7. TokensAreSpent' /\ TokensAreDistinct'
    BY <1>1, <1>4 DEF Core, TokensAreSpent, TokensAreDistinct
  <1>8. /\ AtPlaces' /\ LocksAreExclusive' /\ LocksHeld' /\ RevokedAreLocked'
        /\ LockedAreInserted' /\ SessionsAreCommitted'
    BY <1>1 DEF Core, AtPlaces, LocksAreExclusive, LocksHeld, RevokedAreLocked,
           LockedAreInserted, SessionsAreCommitted, SessionsOf
  <1>9. RowsAreFresh'
    <2> SUFFICES ASSUME NEW p \in Request PROVE Fresh(pc[p], arg[p])'
      BY DEF RowsAreFresh
    <2>1. /\ Fresh(pc[p], arg[p]) /\ Holds(p, pc[p], held[p], arg[p])
          /\ Knows(Op[p], pc[p], arg[p])
      BY CoreAt
    <2>2. pc[p] \in {"revoke", "newPassword"} => user'[arg[p].user] = user[arg[p].user]
      BY <1>1, <1>2, <2>1 DEF Holds, Knows
    <2> QED
      BY <1>1, <2>1, <2>2 DEF Fresh, Revocable
  <1>10. Informed'
    BY <1>1 DEF Core, Informed, Knows
  <1> QED
    BY <1>3, <1>6, <1>7, <1>8, <1>9, <1>10 DEF Core

-----------------------------------------------------------------------------
(* Every step is of one of these kinds.                                     *)
CommitOf(p) ==
  CommitLogin(p) \/ CommitRefresh(p) \/ CommitLogout(p) \/ CommitPassword(p)
World ==
  \/ \E p \in Request : Deliver(p) \/ SessionExpires(p)
  \/ CookieExpires
  \/ \E t \in Ticket : LockExpires(t) \/ TicketExpires(t)
  \/ \E u \in User : DisableAccount(u)

LEMMA Kinds ==
  ASSUME TypeOK, Core, Next
  PROVE  \/ \E p \in Request : Local(p)
         \/ \E p \in Request : CommitOf(p) /\ Moves(p) /\ Commits(p) /\ TypeOK'
         \/ World /\ TypeOK' /\ Core' /\ UNCHANGED <<session, held, pc, arg, out, committed, faults>>
  <1>1. CASE \E p \in Request : Begin(p)
    BY <1>1, LoginBeginIsLocal, SendRefreshIsLocal, RefreshIsLocal, LogoutIsLocal,
       ChangePasswordIsLocal, ResetPasswordIsLocal DEF Begin
  <1>2. ASSUME NEW p \in Request, Continue(p)
        PROVE  Local(p) \/ (CommitOf(p) /\ Moves(p) /\ Commits(p) /\ TypeOK')
    <2>1. CASE CommitOf(p)
      BY <2>1, CommitLoginCommits, CommitRefreshCommits, CommitLogoutCommits,
         CommitPasswordCommits DEF CommitOf
    <2>2. CASE ~CommitOf(p)
      BY <1>2, <2>2, ConsumeLoginCodeIsLocal, ResolveLoginDeviceIsLocal,
         InsertSessionIsLocal, UpdateLastLoginAtIsLocal, RefreshAccountIsLocal,
         LockResetUserIsLocal, RevokeSessionsIsLocal, ConsumeResetTicketIsLocal,
         ReleaseTicketLockIsLocal DEF Continue, CommitOf
    <2> QED
      BY <2>1, <2>2
  <1>3. ASSUME NEW p \in Request, Victim(p) \/ Abort(p)
        PROVE  Local(p)
    BY <1>3, RollbackIsLocal DEF Victim, Abort
  <1>4. CASE World
    <2>1. TypeOK' /\ Core'
      BY <1>4, DeliverKeeps, CookieExpiresKeeps, ExpiryKeeps, DisableAccountKeeps DEF World
    <2>2. UNCHANGED <<session, held, pc, arg, out, committed, faults>>
      BY <1>4 DEF World, Deliver, SessionExpires, CookieExpires, LockExpires,
                  TicketExpires, DisableAccount, db
    <2> QED
      BY <1>4, <2>1, <2>2
  <1> QED
    BY <1>1, <1>2, <1>3, <1>4 DEF Next, Environment, World

LEMMA InitCore == Init => TypeOK /\ Core
  <1> SUFFICES ASSUME Init PROVE TypeOK /\ Core
    OBVIOUS
  <1>1. TypeOK
    <2>1. user \in [User -> UserRow]
      BY DEF Init, UserRow
    <2>2. ticket \in [Ticket -> User \cup {None}]
      BY DEF Init
    <2>3. "idle" \in PC
      BY DEF PC
    <2>4. /\ device \in [Request -> User \cup {None}] /\ over \subseteq Request
          /\ code \subseteq User /\ owner \in [Ticket -> Request \cup {None}]
          /\ committed \subseteq Request /\ lapsed \subseteq Request /\ faults \in 0 .. MaxFaults
          /\ cookie \in Token \cup {NoToken} /\ delivered \subseteq Request
      BY DEF Init
    <2>5. session \in [Request -> SessionRow] /\ arg \in [Request -> Arg]
          /\ out \in [Request -> Answer] /\ held \in [Request -> SUBSET Locks]
          /\ pc \in [Request -> PC]
      BY <2>3, RecordTypes DEF Init
    <2> QED
      BY <2>1, <2>2, <2>4, <2>5 DEF TypeOK
  <1>2. \A p \in Request : /\ pc[p] = "idle" /\ held[p] = {} /\ arg[p] = NoArg
                           /\ out[p] = NoAnswer /\ session[p] = NoSession /\ ~Receives(p)
    BY RecordTypes DEF Init, Receives
  <1>3. AtPlaces
    BY <1>2, OpAssumption DEF AtPlaces, Places
  <1>4. LocksAreExclusive /\ LocksHeld /\ RevokedAreLocked /\ LockedAreInserted
    BY <1>2 DEF LocksAreExclusive, LocksHeld, Holds, InTransaction, RevokedAreLocked,
                LockedAreInserted
  <1>5. RowsAreFresh /\ SessionsAreCommitted /\ Informed
    BY <1>2 DEF RowsAreFresh, Fresh, SessionsAreCommitted, Informed, Knows
  <1>6. TokensAreSpent /\ TokensAreDistinct /\ CookieIsIssued
    <2>1. committed = {} /\ cookie = NoToken
      BY DEF Init
    <2>2. \A s \in Request : session[s].ctr = 0
      BY <1>2, RecordTypes
    <2> QED
      BY <1>2, <2>1, <2>2, RecordTypes DEF TokensAreSpent, TokensAreDistinct, CookieIsIssued
  <1> QED
    BY <1>1, <1>3, <1>4, <1>5, <1>6 DEF Core

LEMMA CoreStep == TypeOK /\ Core /\ [Next]_vars => TypeOK' /\ Core'
  <1> SUFFICES ASSUME TypeOK, Core, [Next]_vars PROVE TypeOK' /\ Core'
    OBVIOUS
  <1>1. CASE Next
    <2>1. \A p \in Request : Local(p) => TypeOK' /\ Core'
      BY LocalTypes, LocalStep DEF Local
    <2>2. \A p \in Request : Moves(p) /\ Commits(p) /\ TypeOK' => Core'
      BY CommitStep
    <2> QED
      BY <1>1, <2>1, <2>2, Kinds
  <1>2. CASE UNCHANGED vars
    <2>1. TypeOK'
      BY <1>2 DEF vars, db, redis, client, TypeOK
    <2>2. Core'
      BY <1>2, CoreStays DEF vars, db, client
    <2> QED
      BY <2>1, <2>2
  <1> QED
    BY <1>1, <1>2

-----------------------------------------------------------------------------
(* The tickets of resets.                                                   *)

(* A step of a request that is no reset. *)
LEMMA OthersKeepTickets ==
  ASSUME TypeOK, TicketsHeld, NEW p \in Request, Op[p] # "reset", Moves(p),
         UNCHANGED <<ticket, owner, lapsed>>
  PROVE  TicketsHeld'
  BY OthersStay DEF TicketsHeld, Resetting

(* A reset goes on with its ticket, or gives up before it is answered. *)
LEMMA ResetKeepsTickets ==
  ASSUME TypeOK, TicketsHeld, NEW p \in Request, Op[p] = "reset", Moves(p),
         UNCHANGED <<ticket, owner, lapsed>>,
         pc[p] \in {"user", "revoke", "newPassword"},
         arg'[p].ticket = arg[p].ticket, out'[p] = out[p]
  PROVE  TicketsHeld'
  <1>1. ~out[p].ok /\ ~out'[p].ok
    BY DEF TicketsHeld
  <1>2. Resetting(p)' => Resetting(p)
    BY DEF Resetting
  <1> QED
    BY <1>1, <1>2, OthersStay DEF TicketsHeld, Resetting

LEMMA CommitKeepsTickets ==
  ASSUME TypeOK, Core, TicketsHeld, NEW p \in Request, Op[p] = "reset", CommitPassword(p)
  PROVE  TicketsHeld'
  <1>1. pc[p] = "newPassword" /\ arg[p].ticket \in Ticket
    BY CoreAt DEF CommitPassword, Knows
  <1>2. /\ Moves(p) /\ UNCHANGED <<ticket, owner, lapsed>> /\ UNCHANGED arg
        /\ (pc'[p] = "consume") \/ (pc'[p] = "release" /\ out'[p] = out[p])
    <2>1. /\ Commit(p, Success, "consume", "release") /\ UNCHANGED arg
          /\ UNCHANGED <<ticket, owner, lapsed>>
      BY DEF CommitPassword, redis
    <2> QED
      BY <2>1, CommitFacts, PlaceTypes, RecordTypes
  <1>3. CASE pc'[p] = "consume"
    <2>1. Resetting(p) /\ (p \notin lapsed => owner[arg[p].ticket] = p)
      BY <1>1 DEF TicketsHeld, Resetting
    <2>2. \A q \in Request \ {p} : /\ pc'[q] = pc[q] /\ out'[q] = out[q]
                                   /\ Resetting(q)' = Resetting(q)
      BY <1>2, OthersStay DEF Resetting
    <2> QED
      BY <1>1, <1>2, <1>3, <2>1, <2>2 DEF TicketsHeld
  <1>4. CASE pc'[p] = "release" /\ out'[p] = out[p]
    <2>1. arg'[p].ticket = arg[p].ticket /\ pc[p] \in {"user", "revoke", "newPassword"}
      BY <1>1, <1>2
    <2> QED
      BY <1>2, <1>4, <2>1, ResetKeepsTickets
  <1> QED
    BY <1>2, <1>3, <1>4

LEMMA ConsumeKeepsTickets ==
  ASSUME TypeOK, Core, TicketsHeld, NEW p \in Request, ConsumeResetTicket(p)
  PROVE  TicketsHeld'
  <1> DEFINE t == arg[p].ticket
  <1>1. /\ pc[p] = "consume" /\ Op[p] = "reset" /\ t \in Ticket /\ Resetting(p)
        /\ p \notin lapsed => owner[t] = p
        /\ UNCHANGED <<arg, out>> /\ pc'[p] \in {"release", "done"}
    BY CoreAt, PlaceOps
       DEF ConsumeResetTicket, OwnershipLost, Goto, Knows, Resetting, TicketsHeld, Core, TypeOK
  <1>2. /\ \A q \in Request \ {p} : pc'[q] = pc[q] /\ Resetting(q)' = Resetting(q)
        /\ ~Resetting(p)'
    BY <1>1 DEF ConsumeResetTicket, OwnershipLost, Goto, Resetting, TypeOK
  <1>3. CASE owner[t] = p /\ ConsumeTicketScript(p, t) /\ UNCHANGED lapsed
    <2>1. /\ ticket'[t] = None /\ \A r \in Ticket : r # t => ticket'[r] = ticket[r]
          /\ \A r \in Ticket : r # t => owner'[r] = owner[r]
      BY <1>1, <1>3 DEF ConsumeTicketScript, TypeOK
    <2> SUFFICES ASSUME NEW q \in Request, Op[q] = "reset"
                 PROVE  /\ out[q].ok => pc'[q] \in {"consume", "release", "done"} /\ arg[q].ticket \in Ticket
                        /\ q \notin lapsed =>
                             /\ Resetting(q)' =>
                                  /\ owner'[arg[q].ticket] = q
                                  /\ \A r \in Request \ {q} :
                                       Op[r] = "reset" /\ arg[r].ticket = arg[q].ticket /\ out[r].ok
                                         => r \in lapsed
                             /\ out[q].ok /\ pc'[q] # "consume" => ticket'[arg[q].ticket] = None
      BY <1>1, <1>3 DEF TicketsHeld
    <2>2. CASE q = p
      BY <1>1, <1>2, <2>1, <2>2
    <2>3. CASE q # p /\ arg[q].ticket = t
      BY <1>1, <1>2, <1>3, <2>1, <2>3 DEF TicketsHeld
    <2>4. CASE q # p /\ arg[q].ticket # t
      <3>1. /\ Resetting(q) => arg[q].ticket \in Ticket
            /\ pc'[q] = pc[q] /\ Resetting(q)' = Resetting(q)
        BY <1>2, <2>4, CoreAt DEF Resetting, Knows
      <3> QED
        BY <2>1, <2>4, <3>1 DEF TicketsHeld
    <2> QED
      BY <2>2, <2>3, <2>4
  <1>4. CASE UNCHANGED <<ticket, owner>> /\ p \in lapsed' /\ lapsed \subseteq lapsed'
    BY <1>1, <1>2, <1>4 DEF TicketsHeld
  <1>5. \/ owner[t] = p /\ ConsumeTicketScript(p, t) /\ UNCHANGED lapsed
        \/ UNCHANGED <<ticket, owner>> /\ p \in lapsed' /\ lapsed \subseteq lapsed'
    BY <1>1 DEF ConsumeResetTicket
  <1> QED
    BY <1>3, <1>4, <1>5

LEMMA ReleaseKeepsTickets ==
  ASSUME TypeOK, Core, TicketsHeld, NEW p \in Request, ReleaseTicketLock(p)
  PROVE  TicketsHeld'
  <1>1. /\ pc[p] = "release" /\ pc'[p] = "done" /\ UNCHANGED <<ticket, lapsed, arg, out>>
        /\ \A q \in Request \ {p} : pc'[q] = pc[q] /\ Resetting(q)' = Resetting(q)
        /\ ~Resetting(p) /\ ~Resetting(p)'
    BY DEF ReleaseTicketLock, Goto, Resetting, TypeOK
  <1>2. \A t \in Ticket : owner[t] # p => owner'[t] = owner[t]
    BY DEF ReleaseTicketLock, ReleaseScript, TypeOK
  <1>3. \A q \in Request : Resetting(q) => arg[q].ticket \in Ticket
    BY CoreAt DEF Resetting, Knows
  <1> QED
    BY <1>1, <1>2, <1>3 DEF TicketsHeld

LEMMA ClaimKeepsTickets ==
  ASSUME TypeOK, Core, TicketsHeld, NEW p \in Request, ResetPassword(p)
  PROVE  TicketsHeld'
  <1>1. /\ pc[p] = "idle" /\ Op[p] = "reset" /\ ~out[p].ok /\ UNCHANGED <<ticket, lapsed, out>>
        /\ ~Resetting(p)
    BY DEF ResetPassword, TicketsHeld, Resetting
  <1>2. PICK t \in Ticket :
          \/ /\ ticket[t] # None /\ owner[t] = None /\ owner' = [owner EXCEPT ![t] = p]
             /\ Goto(p, "user") /\ arg' = [arg EXCEPT ![p] = arg'[p]] /\ arg'[p].ticket = t
          \/ /\ Goto(p, "done") /\ UNCHANGED arg
             /\ UNCHANGED owner \/ (owner[t] = None /\ owner' = [owner EXCEPT ![t] = p])
    <2>1. PICK t \in Ticket, w \in Password :
            \/ /\ ticket[t] # None /\ ClaimScript(p, t) /\ Goto(p, "user")
               /\ arg' = [arg EXCEPT ![p] = [NoArg EXCEPT
                    !.user = ticket[t], !.ticket = t, !.new = w]]
            \/ /\ Goto(p, "done") /\ UNCHANGED arg
               /\ UNCHANGED owner \/ ClaimScript(p, t)
      BY DEF ResetPassword
    <2>2. [NoArg EXCEPT !.user = ticket[t], !.ticket = t, !.new = w].ticket = t
      BY DEF NoArg
    <2> QED
      BY <2>1, <2>2 DEF ClaimScript, TypeOK
  <1>3. \A q \in Request \ {p} : /\ pc'[q] = pc[q] /\ arg'[q] = arg[q]
                                 /\ Resetting(q)' = Resetting(q)
    BY <1>2 DEF Goto, Resetting, TypeOK
  <1>4. \A r \in Ticket : owner[r] # None => owner'[r] = owner[r]
    BY <1>2 DEF TypeOK
  <1>5. \A q \in Request : Resetting(q) => arg[q].ticket \in Ticket
    BY CoreAt DEF Resetting, Knows
  <1>6. ASSUME NEW q \in Request \ {p}, Op[q] = "reset"
        PROVE  /\ out[q].ok => pc[q] \in {"consume", "release", "done"} /\ arg[q].ticket \in Ticket
               /\ q \notin lapsed =>
                    /\ Resetting(q) =>
                         /\ owner'[arg[q].ticket] = q
                         /\ \A r \in Request \ {q} :
                              Op[r] = "reset" /\ arg'[r].ticket = arg[q].ticket /\ out[r].ok
                                => r \in lapsed
                    /\ out[q].ok /\ pc[q] # "consume" => ticket[arg[q].ticket] = None
    BY <1>1, <1>3, <1>4, <1>5, <1>6 DEF TicketsHeld
  <1>7. ASSUME Resetting(p)'
        PROVE  /\ owner'[arg'[p].ticket] = p
               /\ \A q \in Request \ {p} :
                    Op[q] = "reset" /\ arg[q].ticket = t /\ out[q].ok => q \in lapsed
    <2>1. /\ ticket[t] # None /\ owner[t] = None /\ owner' = [owner EXCEPT ![t] = p]
          /\ arg'[p].ticket = t
      BY <1>2, <1>7 DEF Resetting, Goto, TypeOK
    <2>2. ASSUME NEW q \in Request \ {p}, Op[q] = "reset", arg[q].ticket = t, out[q].ok,
                 q \notin lapsed
          PROVE  FALSE
      <3>1. pc[q] = "consume"
        BY <1>7, <2>1, <2>2 DEF TicketsHeld
      <3>2. owner[t] = q
        BY <1>7, <2>2, <3>1 DEF TicketsHeld, Resetting
      <3> QED
        BY <2>1, <3>2
    <2>3. owner'[t] = p
      BY <2>1 DEF TypeOK
    <2> QED
      BY <2>1, <2>2, <2>3
  <1>8. Resetting(p)' => arg'[p].ticket = t
    BY <1>2 DEF Resetting, Goto, TypeOK
  <1> QED
    BY <1>1, <1>3, <1>6, <1>7, <1>8 DEF TicketsHeld

LEMMA ExpiryKeepsTickets ==
  ASSUME TypeOK, Core, TicketsHeld, NEW t \in Ticket, LockExpires(t) \/ TicketExpires(t)
  PROVE  TicketsHeld'
  <1>1. \A q \in Request : Resetting(q) => arg[q].ticket \in Ticket
    BY CoreAt DEF Resetting, Knows
  <1>2. CASE LockExpires(t)
    <2>1. /\ UNCHANGED <<ticket, pc, arg, out>> /\ lapsed \subseteq lapsed'
          /\ \A r \in Ticket \ {t} : owner'[r] = owner[r]
      BY <1>2 DEF LockExpires, TypeOK
    <2>2. \A q \in Request : Op[q] = "reset" /\ Resetting(q) /\ arg[q].ticket = t => q \in lapsed'
      <3> SUFFICES ASSUME NEW q \in Request, Op[q] = "reset", Resetting(q), arg[q].ticket = t,
                          q \notin lapsed
                   PROVE  q \in lapsed'
        BY <2>1
      <3>1. owner[t] = q
        BY DEF TicketsHeld
      <3> QED
        BY <1>2, <3>1 DEF LockExpires, Resetting
    <2>3. \A q \in Request : Resetting(q)' = Resetting(q)
      BY <2>1 DEF Resetting
    <2> QED
      BY <1>1, <2>1, <2>2, <2>3 DEF TicketsHeld
  <1>3. CASE TicketExpires(t)
    <2>1. /\ UNCHANGED <<owner, lapsed, pc, arg, out>>
          /\ \A r \in Ticket \ {t} : ticket'[r] = ticket[r]
          /\ ticket'[t] = None
      BY <1>3 DEF TicketExpires, TypeOK
    <2>2. \A q \in Request : Resetting(q)' = Resetting(q)
      BY <2>1 DEF Resetting
    <2> QED
      BY <2>1, <2>2 DEF TicketsHeld
  <1> QED
    BY <1>2, <1>3

(* A step that leaves requests, tickets and locks alone. *)
LEMMA NothingHappensToTickets ==
  ASSUME TicketsHeld, UNCHANGED <<ticket, owner, lapsed, pc, arg, out>>
  PROVE  TicketsHeld'
  BY DEF TicketsHeld, Resetting

LEMMA ResetMoves ==
  ASSUME TypeOK, Core, TicketsHeld, NEW p \in Request, Op[p] = "reset",
         LockResetUser(p) \/ RevokeSessions(p) \/ Rollback(p)
  PROVE  TicketsHeld'
  <1>1. /\ pc[p] \in {"user", "revoke", "newPassword"} /\ UNCHANGED <<ticket, owner, lapsed>>
        /\ arg[p] \in Arg /\ UNCHANGED out
    <2>1. pc[p] \in InTransaction /\ UNCHANGED <<ticket, owner, lapsed>> /\ UNCHANGED out
      BY DEF LockResetUser, RevokeSessions, Rollback, InTransaction, redis
    <2> QED
      BY <2>1, CoreAt, OpAssumption DEF InTransaction, Places
  <1>2. /\ pc' = [pc EXCEPT ![p] = pc'[p]] /\ held' = [held EXCEPT ![p] = held'[p]]
        /\ arg' = [arg EXCEPT ![p] = arg'[p]] /\ arg'[p].ticket = arg[p].ticket
    <2>1. CASE LockResetUser(p) \/ Rollback(p)
      BY <1>1, <2>1 DEF LockResetUser, Rollback, Refuse, Goto, Lock, Unlock, TypeOK, Arg
    <2>2. CASE RevokeSessions(p)
      <3>1. Moves(p)
        BY <2>2, RevokeSessionsIsLocal DEF Local
      <3>2. arg' = arg \/ \E rs : arg' = [arg EXCEPT ![p].revoked = rs]
        BY <2>2 DEF RevokeSessions
      <3>3. arg'[p].ticket = arg[p].ticket
        BY <1>1, <3>2 DEF TypeOK, Arg
      <3> QED
        BY <3>1, <3>3 DEF Moves
    <2> QED
      BY <2>1, <2>2
  <1>3. Moves(p) /\ out'[p] = out[p]
    BY <1>1, <1>2, Same DEF Moves
  <1> QED
    BY <1>1, <1>2, <1>3, ResetKeepsTickets

(* Only resets touch tickets and their locks. *)
LEMMA OthersLeaveTickets ==
  ASSUME TypeOK, Core, NEW p \in Request, Op[p] # "reset",
         Begin(p) \/ Continue(p) \/ Victim(p) \/ Abort(p)
  PROVE  Moves(p) /\ UNCHANGED <<ticket, owner, lapsed>>
  <1>1. CASE CommitOf(p)
    <2>1. Moves(p)
      BY <1>1, CommitLoginCommits, CommitRefreshCommits, CommitLogoutCommits,
         CommitPasswordCommits DEF CommitOf
    <2> QED
      BY <1>1, <2>1 DEF CommitOf, CommitLogin, CommitRefresh, CommitLogout, CommitPassword, redis
  <1>2. CASE Begin(p)
    <2>1. Local(p)
      BY <1>2, LoginBeginIsLocal, SendRefreshIsLocal, RefreshIsLocal, LogoutIsLocal,
         ChangePasswordIsLocal, ResetPasswordIsLocal DEF Begin
    <2>2. UNCHANGED <<ticket, owner, lapsed>>
      BY <1>2 DEF Begin, LoginByPassword, LoginByPhone, SendRefresh, Refresh, Logout,
                  ChangePassword, ResetPassword, redis
    <2> QED
      BY <2>1, <2>2 DEF Local
  <1>3. CASE Continue(p) /\ ~CommitOf(p)
    <2>1. ~ConsumeResetTicket(p) /\ ~ReleaseTicketLock(p) /\ ~LockResetUser(p)
      BY PlaceOps DEF ConsumeResetTicket, ReleaseTicketLock, LockResetUser, Core
    <2>2. Local(p)
      BY <1>3, <2>1, ConsumeLoginCodeIsLocal, ResolveLoginDeviceIsLocal,
         InsertSessionIsLocal, UpdateLastLoginAtIsLocal, RefreshAccountIsLocal,
         RevokeSessionsIsLocal DEF Continue, CommitOf
    <2>3. UNCHANGED <<ticket, owner, lapsed>>
      BY <1>3, <2>1 DEF Continue, CommitOf, ConsumeLoginCode, ResolveLoginDevice,
         InsertSession, UpdateLastLoginAt, RefreshAccount, RevokeSessions, redis
    <2> QED
      BY <2>2, <2>3 DEF Local
  <1>4. CASE Victim(p) \/ Abort(p)
    <2>1. Rollback(p) /\ Local(p)
      BY <1>4, RollbackIsLocal DEF Victim, Abort
    <2> QED
      BY <2>1 DEF Rollback, Local, redis
  <1> QED
    BY <1>1, <1>2, <1>3, <1>4

LEMMA TicketsStep == TypeOK /\ Core /\ TicketsHeld /\ [Next]_vars => TicketsHeld'
  <1> SUFFICES ASSUME TypeOK, Core, TicketsHeld, [Next]_vars PROVE TicketsHeld'
    OBVIOUS
  <1>1. ASSUME NEW p \in Request, Begin(p) \/ Continue(p) \/ Victim(p) \/ Abort(p)
        PROVE  TicketsHeld'
    <2>1. CASE Op[p] # "reset"
      BY <1>1, <2>1, OthersLeaveTickets, OthersKeepTickets
    <2>2. CASE Op[p] = "reset"
      <3>1. CASE Begin(p)
        <4>1. ResetPassword(p)
          <5>1. pc[p] # "sent"
            BY <2>2, PlaceOps DEF Core
          <5> QED
            BY <2>2, <3>1, <5>1 DEF Begin, LoginByPassword, LoginByPhone, SendRefresh,
                              Refresh, Logout, ChangePassword
        <4> QED
          BY <4>1, ClaimKeepsTickets
      <3>2. CASE Continue(p)
        <4>1. /\ pc[p] \notin {"code", "device", "insert", "stamp", "login", "account", "refresh", "logout"}
          BY <2>2, PlaceOps DEF Core, Login
        <4>2. \/ LockResetUser(p) \/ RevokeSessions(p) \/ CommitPassword(p)
              \/ ConsumeResetTicket(p) \/ ReleaseTicketLock(p)
          BY <3>2, <4>1 DEF Continue, ConsumeLoginCode, ResolveLoginDevice, InsertSession,
             UpdateLastLoginAt, CommitLogin, RefreshAccount, CommitRefresh, CommitLogout
        <4> QED
          BY <2>2, <4>2, ResetMoves, CommitKeepsTickets, ConsumeKeepsTickets, ReleaseKeepsTickets
      <3>3. CASE Victim(p) \/ Abort(p)
        BY <2>2, <3>3, ResetMoves DEF Victim, Abort
      <3> QED
        BY <1>1, <3>1, <3>2, <3>3
    <2> QED
      BY <2>1, <2>2
  <1>2. CASE World
    <2>1. CASE \E t \in Ticket : LockExpires(t) \/ TicketExpires(t)
      BY <2>1, ExpiryKeepsTickets
    <2>2. CASE \/ CookieExpires \/ \E p \in Request : Deliver(p) \/ SessionExpires(p)
               \/ \E u \in User : DisableAccount(u)
      <3>1. UNCHANGED <<ticket, owner, lapsed, pc, arg, out>>
        BY <2>2 DEF Deliver, SessionExpires, CookieExpires, DisableAccount, redis
      <3> QED
        BY <3>1, NothingHappensToTickets
    <2> QED
      BY <1>2, <2>1, <2>2 DEF World
  <1>3. CASE UNCHANGED vars
    BY <1>3, NothingHappensToTickets DEF vars, redis
  <1> QED
    BY <1>1, <1>2, <1>3 DEF Next, Environment, World

-----------------------------------------------------------------------------
(* Theorems *)

LEMMA AtMostOne ==
  ASSUME NEW S, \A x, y \in S : x = y
  PROVE  Cardinality(S) <= 1 /\ (S # {} => Cardinality(S) = 1)
  <1>1. CASE S = {}
    BY <1>1, FS_EmptySet
  <1>2. ASSUME NEW x \in S
        PROVE  Cardinality(S) = 1
    <2>1. S = {x}
      BY <1>2
    <2> QED
      BY <2>1, FS_Singleton
  <1> QED
    BY <1>1, <1>2

LEMMA IInvIsCore == IInv <=> TypeOK /\ Core /\ TicketsHeld
  BY DEF IInv, Core

(* The invariant is inductive: whole-row writes, locks, tokens and tickets are
   consistent in every reachable state, for any number of requests. *)
THEOREM SpecIInv == Spec => []IInv
  <1>1. Init => IInv
    <2>1. Init => TicketsHeld
      BY RecordTypes DEF Init, TicketsHeld, Resetting
    <2> QED
      BY <2>1, InitCore, IInvIsCore
  <1>2. IInv /\ [Next]_vars => IInv'
    <2> SUFFICES ASSUME IInv, [Next]_vars PROVE IInv'
      OBVIOUS
    <2>1. TypeOK /\ Core /\ TicketsHeld
      BY DEF IInv, Core
    <2>2. TypeOK' /\ Core' /\ TicketsHeld'
      BY <2>1, CoreStep, TicketsStep
    <2> QED
      BY <2>2 DEF IInv, Core
  <1> QED
    BY <1>1, <1>2, PTL DEF Spec

(* A refresh that commits spends the token that is current. *)
LEMMA CommittedTokenIsCurrent ==
  ASSUME TypeOK, Core, NEW p \in Request, Commits(p), Op[p] = "refresh"
  PROVE  /\ arg[p].token \in Token
         /\ arg[p].token.ctr = session[arg[p].token.sid].ctr
  <1>1. pc[p] = "refresh"
    BY CoreAt DEF Commits, Places
  <1> QED
    BY <1>1, CoreAt DEF Knows, Fresh

LEMMA CommittedGrows ==
  ASSUME TypeOK, Core, Next
  PROVE  /\ committed \subseteq committed'
         /\ \A q \in committed : arg'[q] = arg[q]
         /\ \/ committed' = committed
            \/ \E p \in Request : Commits(p) /\ committed' = committed \cup {p} /\ arg' = arg
                                  /\ CommitOf(p)
  <1>1. ASSUME NEW p \in Request, Local(p)
        PROVE  committed' = committed /\ \A q \in committed : arg'[q] = arg[q]
    BY <1>1, OthersStay DEF Local, Quiet, Proceeds, TypeOK
  <1>2. ASSUME NEW p \in Request, Commits(p)
        PROVE  committed' = committed \cup {p} /\ arg' = arg
    BY <1>2 DEF Commits
  <1> QED
    BY <1>1, <1>2, Kinds

(* A refresh token is accepted once. *)
THEOREM SpecTokenAcceptedOnce == Spec => []TokenAcceptedOnce
  <1>1. Init => TokenAcceptedOnce
    BY DEF Init, TokenAcceptedOnce
  <1>2. IInv /\ TokenAcceptedOnce /\ [Next]_vars => TokenAcceptedOnce'
    <2> SUFFICES ASSUME TypeOK, Core, TokenAcceptedOnce, [Next]_vars
                 PROVE  TokenAcceptedOnce'
      BY IInvIsCore
    <2>1. CASE UNCHANGED vars
      BY <2>1 DEF vars, TokenAcceptedOnce
    <2>2. CASE Next /\ committed' = committed
      BY <2>2, CommittedGrows DEF TokenAcceptedOnce
    <2>3. ASSUME NEW p \in Request, Commits(p), committed' = committed \cup {p}, arg' = arg
          PROVE  TokenAcceptedOnce'
      <3>1. ASSUME NEW q \in committed, Op[p] = "refresh", Op[q] = "refresh",
                   arg[p].token = arg[q].token
            PROVE  FALSE
        <4>1. /\ arg[p].token.ctr = session[arg[p].token.sid].ctr
              /\ arg[p].token.ctr \in Nat
          BY <2>3, <3>1, CommittedTokenIsCurrent DEF Token
        <4>2. arg[q].token.ctr < session[arg[q].token.sid].ctr
          BY <3>1 DEF Core, TokensAreSpent
        <4> QED
          BY <3>1, <4>1, <4>2
      <3> QED
        BY <2>3, <3>1 DEF TokenAcceptedOnce
    <2> QED
      BY <2>1, <2>2, <2>3, CommittedGrows
  <1> QED
    BY <1>1, <1>2, SpecIInv, PTL DEF Spec

(* A live session has one usable token at most, and one while no COMMIT's
   acknowledgement has been lost. *)
THEOREM SpecCurrentTokenIssued == Spec => []CurrentTokenIssued
  <1>1. IInv => CurrentTokenIssued
    <2> SUFFICES ASSUME TypeOK, Core, NEW s \in Request, session[s].active
                 PROVE  LET holders == {q \in Request : Receives(q) /\
                              out[q].token = [sid |-> s, ctr |-> session[s].ctr]}
                        IN  Cardinality(holders) <= 1 /\ (faults = 0 => Cardinality(holders) = 1)
      BY IInvIsCore DEF CurrentTokenIssued
    <2> DEFINE t == [sid |-> s, ctr |-> session[s].ctr]
               holders == {q \in Request : Receives(q) /\ out[q].token = t}
    <2>1. session[s] # NoSession
      BY RecordTypes
    <2>2. \A p, q \in holders : p = q
      BY DEF Core, TokensAreDistinct
    <2>3. faults = 0 => holders # {}
      BY <2>1 DEF Core, TokensAreDistinct
    <2> HIDE DEF holders
    <2>4. Cardinality(holders) <= 1 /\ (faults = 0 => Cardinality(holders) = 1)
      BY <2>2, <2>3, AtMostOne
    <2> QED
      BY <2>4 DEF holders
  <1> QED
    BY <1>1, SpecIInv, PTL

(* A ticket that has changed a password changes another only if a COMMIT was
   not acknowledged, or one of the two resets had lapsed. *)
THEOREM SpecTicketResetsOnce == Spec => TicketResetsOnce
  <1> DEFINE Once == \A p, q \in committed' :
               /\ p \notin committed /\ q # p /\ Op[p] = "reset" /\ Op[q] = "reset"
               /\ arg[p].ticket = arg[q].ticket
               => ~out[q].ok \/ p \in lapsed \/ q \in lapsed
  <1>1. IInv /\ [Next]_vars => [Once]_vars
    <2> SUFFICES ASSUME TypeOK, Core, TicketsHeld, Next, NEW p \in committed' \ committed,
                        NEW q \in committed', q # p, Op[p] = "reset", Op[q] = "reset",
                        arg[p].ticket = arg[q].ticket, out[q].ok, p \notin lapsed
                 PROVE  q \in lapsed
      BY IInvIsCore
    <2>1. p \in Request /\ CommitOf(p) /\ committed' = committed \cup {p}
      BY CommittedGrows DEF Commits
    <2>2. CommitPassword(p)
      BY <2>1, PlaceOps DEF CommitOf, CommitLogin, CommitRefresh, CommitLogout, Core, Login
    <2>3. Resetting(p)
      BY <2>2 DEF CommitPassword, Resetting
    <2>4. q \in Request
      BY <2>1 DEF TypeOK
    <2> QED
      BY <2>1, <2>3, <2>4 DEF TicketsHeld
  <1> QED
    BY <1>1, SpecIInv, PTL DEF Spec, TicketResetsOnce

(* "already used" is true: another refresh has spent that very token. *)
LEMMA UsedAtRefresh ==
  ASSUME TypeOK, Core, Next, NEW p \in Request, out'[p].code = "used"
  PROVE  \/ out[p].code = "used"
         \/ pc[p] = "sent" /\ Refresh(p) /\ out'[p].code = Refusal(arg[p].token)
            /\ pc'[p] = "done" /\ arg' = arg
  <1>1. SuccessWith(NoToken).code = "success" /\ Success.code = "success"
        /\ \A t : SuccessWith(t).code = "success"
    BY DEF SuccessWith, Success
  <1>2. ASSUME NEW q \in Request, Refresh(q)
        PROVE  \/ out' = out
               \/ /\ out' = [out EXCEPT ![q] = [NoAnswer EXCEPT !.code = Refusal(arg[q].token)]]
                  /\ pc' = [pc EXCEPT ![q] = "done"] /\ arg' = arg /\ pc[q] = "sent"
    BY <1>2 DEF Refresh, Refused, Refuse, Goto
  <1>3. ASSUME NEW q \in Request, Commit(q, Success, "done", "done")
               \/ Commit(q, Success, "consume", "release")
               \/ \E t : Commit(q, SuccessWith(t), "done", "done")
        PROVE  out' = out \/ \E a : out' = [out EXCEPT ![q] = a] /\ a.code = "success"
    BY <1>1, <1>3 DEF Commit
  <1>4. ASSUME NEW q \in Request, CommitOf(q)
        PROVE  out' = out \/ \E a : out' = [out EXCEPT ![q] = a] /\ a.code = "success"
    BY <1>3, <1>4 DEF CommitOf, CommitLogin, CommitRefresh, CommitLogout, CommitPassword
  <1>5. ASSUME NEW q \in Request, Logout(q)
        PROVE  out' = out \/ out' = [out EXCEPT ![q] = Success]
    BY <1>5 DEF Logout
  <1>6. ASSUME NEW q \in Request,
               \/ Begin(q) /\ ~Refresh(q) /\ ~Logout(q)
               \/ Continue(q) /\ ~CommitOf(q)
               \/ Victim(q) \/ Abort(q)
        PROVE  out' = out
    BY <1>6 DEF Begin, LoginByPassword, LoginByPhone, SendRefresh, ChangePassword, ResetPassword,
       Continue, CommitOf, ConsumeLoginCode, ResolveLoginDevice, InsertSession, UpdateLastLoginAt,
       RefreshAccount, LockResetUser, RevokeSessions, ConsumeResetTicket, ReleaseTicketLock,
       Victim, Abort, Rollback
  <1>7. World => out' = out
    BY DEF World, Deliver, SessionExpires, CookieExpires, LockExpires,
           TicketExpires, DisableAccount
  <1>8. out \in [Request -> Answer] /\ [NoAnswer EXCEPT !.code = Refusal(arg[p].token)].code = Refusal(arg[p].token)
    BY DEF TypeOK, NoAnswer
  <1>9. ASSUME NEW q \in Request, NEW a, out' = [out EXCEPT ![q] = a], a.code = "success"
        PROVE  out[p].code = "used"
    BY <1>8, <1>9
  <1>10. ASSUME NEW q \in Request, Refresh(q), out' # out
         PROVE  \/ out[p].code = "used"
                \/ pc[p] = "sent" /\ Refresh(p) /\ out'[p].code = Refusal(arg[p].token)
                   /\ pc'[p] = "done" /\ arg' = arg
    <2>1. /\ out' = [out EXCEPT ![q] = [NoAnswer EXCEPT !.code = Refusal(arg[q].token)]]
          /\ pc' = [pc EXCEPT ![q] = "done"] /\ arg' = arg /\ pc[q] = "sent"
      BY <1>2, <1>10
    <2>2. CASE q = p
      BY <1>8, <1>10, <2>1, <2>2 DEF TypeOK
    <2>3. CASE q # p
      BY <1>8, <2>1, <2>3
    <2> QED
      BY <2>2, <2>3
  <1>11. ASSUME NEW q \in Request, Logout(q) PROVE out[p].code = "used"
    BY <1>1, <1>5, <1>8, <1>11
  <1>12. ASSUME out' = out PROVE out[p].code = "used"
    BY <1>12
  <1>13. ASSUME NEW q \in Request, Begin(q) \/ Continue(q) \/ Victim(q) \/ Abort(q)
         PROVE  \/ out[p].code = "used"
                \/ pc[p] = "sent" /\ Refresh(p) /\ out'[p].code = Refusal(arg[p].token)
                   /\ pc'[p] = "done" /\ arg' = arg
    BY <1>4, <1>6, <1>9, <1>10, <1>11, <1>12, <1>13
  <1> QED
    BY <1>7, <1>12, <1>13 DEF Next, Environment, World

THEOREM SpecUsedMeansAccepted == Spec => []UsedMeansAccepted
  <1> DEFINE Used == \A p \in Request : out[p].code = "used" =>
               /\ pc[p] = "done"
               /\ \E q \in committed \ {p} : Op[q] = "refresh" /\ arg[q].token = arg[p].token
  <1>1. Init => Used
    BY RecordTypes DEF Init
  <1>2. IInv /\ Used /\ [Next]_vars => Used'
    <2> SUFFICES ASSUME TypeOK, Core, Used, [Next]_vars PROVE Used'
      BY IInvIsCore
    <2>1. CASE UNCHANGED vars
      BY <2>1 DEF vars
    <2>2. CASE Next
      <3> SUFFICES ASSUME NEW p \in Request, out'[p].code = "used"
                   PROVE  /\ pc'[p] = "done"
                          /\ \E q \in committed' \ {p} : Op[q] = "refresh" /\ arg'[q].token = arg'[p].token
        OBVIOUS
      <3>1. committed \subseteq committed' /\ \A q \in committed : arg'[q] = arg[q]
        BY <2>2, CommittedGrows
      <3>2. CASE out[p].code = "used"
        <4>1. pc'[p] = "done" /\ arg'[p] = arg[p]
          <5>1. pc[p] = "done"
            BY <3>2
          <5>2. \A q \in Request : Local(q) \/ (Moves(q) /\ Commits(q)) => q # p /\ Moves(q)
            BY <5>1 DEF Local, Proceeds, Commits
          <5> QED
            BY <2>2, <5>1, <5>2, Kinds, OthersStay
        <4> QED
          BY <3>1, <3>2, <4>1
      <3>3. CASE /\ pc[p] = "sent" /\ out'[p].code = Refusal(arg[p].token)
                 /\ pc'[p] = "done" /\ arg' = arg
        <4> DEFINE t == arg[p].token
        <4>1. t \in Token /\ t.sid \in Request /\ t.ctr \in Nat /\ t.ctr <= session[t.sid].ctr
              /\ session[t.sid].ctr \in Nat
          BY <3>3, CoreAt DEF Knows, Token, TypeOK, SessionRow
        <4>2. session[t.sid].ctr # t.ctr
          BY <3>3 DEF Refusal
        <4>3. t.ctr \in 0 .. session[t.sid].ctr - 1
          BY <4>1, <4>2
        <4>4. PICK q \in committed : Op[q] = "refresh" /\ arg[q].token = [sid |-> t.sid, ctr |-> t.ctr]
          BY <4>1, <4>3 DEF Core, TokensAreSpent
        <4>5. q # p /\ arg[q].token = t
          BY <3>3, <4>1, <4>4, CoreAt DEF Token
        <4> QED
          BY <3>1, <3>3, <4>4, <4>5
      <3> QED
        BY <2>2, <3>2, <3>3, UsedAtRefresh
    <2> QED
      BY <2>1, <2>2
  <1>3. Used => UsedMeansAccepted
    BY DEF UsedMeansAccepted
  <1> QED
    BY <1>1, <1>2, <1>3, SpecIInv, PTL DEF Spec

(* Neither a new password, which writes the user's whole row, nor anything
   else enables an account again or restores an older last login. *)
THEOREM SpecUserRowKept == Spec => UserRowKept
  <1> DEFINE Kept == \A u \in User :
               /\ user'[u].normal => user[u].normal
               /\ user'[u].lastLogin # user[u].lastLogin => user'[u].lastLogin \in committed' \ committed
  <1>1. IInv /\ [Next]_vars => [Kept]_vars
    <2> SUFFICES ASSUME TypeOK, Core, Next PROVE Kept
      BY IInvIsCore
    <2>0. user \in [User -> UserRow]
      BY DEF TypeOK
    <2>1. CASE user' = user
      BY <2>1
    <2>2. ASSUME NEW p \in Request, CommitLogin(p) PROVE Kept
      <3>1. /\ arg[p].user \in User /\ p \notin committed /\ committed' = committed \cup {p}
        <4>1. Commits(p)
          BY <2>2, CommitLoginCommits
        <4> QED
          BY <2>2, <4>1, CoreAt DEF Commits, CommitLogin, Knows
      <3>2. user' = [user EXCEPT ![arg[p].user].lastLogin = p]
        BY <2>2 DEF CommitLogin
      <3>3. \A row \in UserRow : /\ [row EXCEPT !.lastLogin = p].normal = row.normal
                                 /\ [row EXCEPT !.lastLogin = p].lastLogin = p
        BY DEF UserRow
      <3> QED
        BY <2>0, <3>1, <3>2, <3>3
    <2>3. ASSUME NEW p \in Request, CommitPassword(p) PROVE Kept
      <3>1. /\ arg[p].user \in User
            /\ user'[arg[p].user] = [user[arg[p].user] EXCEPT !.pw = arg[p].new]
            /\ \A v \in User \ {arg[p].user} : user'[v] = user[v]
        BY <2>3, NewPasswordRows
      <3>2. \A row \in UserRow : /\ [row EXCEPT !.pw = arg[p].new].normal = row.normal
                                 /\ [row EXCEPT !.pw = arg[p].new].lastLogin = row.lastLogin
        BY DEF UserRow
      <3> QED
        BY <2>0, <3>1, <3>2
    <2>4. ASSUME NEW u \in User, DisableAccount(u) PROVE Kept
      <3>1. user' = [user EXCEPT ![u].normal = FALSE]
        BY <2>4 DEF DisableAccount
      <3>2. \A row \in UserRow : /\ [row EXCEPT !.normal = FALSE].normal = FALSE
                                 /\ [row EXCEPT !.normal = FALSE].lastLogin = row.lastLogin
        BY DEF UserRow
      <3> QED
        BY <2>0, <3>1, <3>2
    <2>5. \/ user' = user
          \/ \E p \in Request : CommitLogin(p) \/ CommitPassword(p)
          \/ \E u \in User : DisableAccount(u)
      <3>1. ASSUME NEW p \in Request, CommitRefresh(p) \/ CommitLogout(p) PROVE user' = user
        BY <3>1 DEF CommitRefresh, CommitLogout
      <3>2. ASSUME NEW p \in Request, Local(p) PROVE user' = user
        BY <3>2 DEF Local, Quiet
      <3>3. World => user' = user \/ \E u \in User : DisableAccount(u)
        BY DEF World, Deliver, SessionExpires, CookieExpires, LockExpires, TicketExpires, db
      <3> QED
        BY <3>1, <3>2, <3>3, Kinds DEF CommitOf
    <2> QED
      BY <2>1, <2>2, <2>3, <2>4, <2>5
  <1> QED
    BY <1>1, SpecIInv, PTL DEF Spec, UserRowKept

(* When a new password is committed no session of the user is live but the one
   that asked, and no login of the user is about to insert one. *)
THEOREM SpecPasswordChangeEndsSessions == Spec => PasswordChangeEndsSessions
  <1> DEFINE Ends == \A p \in committed' \ committed : Op[p] \in {"change", "reset"} =>
               /\ \A s \in Request : session'[s].user = arg[p].user /\ session'[s].active => s = arg[p].sid
               /\ \A s \in SessionsOf(arg[p].user) : pc[s] \notin {"stamp", "login"}
  <1>1. IInv /\ [Next]_vars => [Ends]_vars
    <2> SUFFICES ASSUME TypeOK, Core, Next, NEW p \in committed' \ committed,
                        Op[p] \in {"change", "reset"}
                 PROVE  /\ \A s \in Request :
                             session'[s].user = arg[p].user /\ session'[s].active => s = arg[p].sid
                        /\ \A s \in SessionsOf(arg[p].user) : pc[s] \notin {"stamp", "login"}
      BY IInvIsCore
    <2>1. p \in Request /\ Commits(p) /\ CommitOf(p)
      BY CommittedGrows
    <2>2. CommitPassword(p)
      BY <2>1, PlaceOps DEF CommitOf, CommitLogin, CommitRefresh, CommitLogout, Core, Login
    <2>3. \A s \in SessionsOf(arg[p].user) : pc[s] \notin {"stamp", "login"}
      BY <2>1, <2>2 DEF CommitPassword, Core, RevokedAreLocked
    <2>4. ASSUME NEW s \in Request, session'[s].user = arg[p].user, session'[s].active
          PROVE  s = arg[p].sid
      <3>1. /\ arg[p].revoked = Revocable(arg[p].user, arg[p].sid)
            /\ session'[s].user = session[s].user
            /\ s \notin arg[p].revoked => session'[s] = session[s]
            /\ session' = [r \in Request |-> IF r \in arg[p].revoked
                 THEN [session[r] EXCEPT !.active = FALSE] ELSE session[r]]
        BY <2>1, <2>2, NewPasswordRows
      <3>2. CASE s \in arg[p].revoked
        <4>1. session'[s] = [session[s] EXCEPT !.active = FALSE]
          BY <3>1, <3>2
        <4>2. session[s] \in SessionRow
          BY DEF TypeOK
        <4>3. ~session'[s].active
          BY <4>1, <4>2 DEF SessionRow
        <4> QED
          BY <2>4, <4>3
      <3>3. CASE s \notin arg[p].revoked
        BY <2>4, <3>1, <3>3 DEF Revocable
      <3> QED
        BY <3>2, <3>3
    <2> QED
      BY <2>3, <2>4
  <1> QED
    BY <1>1, SpecIInv, PTL DEF Spec, PasswordChangeEndsSessions

(* A lock key leaves its owner by the owner's own step or by expiry. *)
THEOREM SpecLockLeavesByOwner == Spec => LockLeavesByOwner
  <1> DEFINE Leaves == \A t \in Ticket : owner[t] # None /\ owner'[t] # owner[t] =>
               pc' = pc \/ pc'[owner[t]] # pc[owner[t]]
  <1>1. IInv /\ [Next]_vars => [Leaves]_vars
    <2> SUFFICES ASSUME TypeOK, Core, Next PROVE Leaves
      BY IInvIsCore
    <2>1. CASE owner' = owner \/ pc' = pc
      BY <2>1
    <2>2. ASSUME NEW p \in Request, ResetPassword(p) PROVE Leaves
      BY <2>2 DEF ResetPassword, ClaimScript, TypeOK
    <2>3. ASSUME NEW p \in Request, ConsumeResetTicket(p) PROVE Leaves
      <3>1. pc[p] = "consume" /\ pc'[p] # "consume"
        BY <2>3 DEF ConsumeResetTicket, OwnershipLost, Goto, TypeOK
      <3>2. \A t \in Ticket : owner'[t] = owner[t] \/ owner[t] = p
        BY <2>3 DEF ConsumeResetTicket, ConsumeTicketScript, TypeOK
      <3> QED
        BY <3>1, <3>2
    <2>4. ASSUME NEW p \in Request, ReleaseTicketLock(p) PROVE Leaves
      <3>1. pc[p] = "release" /\ pc'[p] # "release"
        BY <2>4 DEF ReleaseTicketLock, Goto, TypeOK
      <3>2. \A t \in Ticket : owner'[t] = owner[t] \/ owner[t] = p
        BY <2>4 DEF ReleaseTicketLock, ReleaseScript, TypeOK
      <3> QED
        BY <3>1, <3>2
    <2>5. \/ owner' = owner \/ pc' = pc
          \/ \E p \in Request : ResetPassword(p) \/ ConsumeResetTicket(p) \/ ReleaseTicketLock(p)
      <3>1. World => pc' = pc
        BY DEF World, Deliver, SessionExpires, CookieExpires, LockExpires,
               TicketExpires, DisableAccount
      <3>2. ASSUME NEW p \in Request, Begin(p) \/ Continue(p) \/ Victim(p) \/ Abort(p)
            PROVE  owner' = owner \/ ResetPassword(p) \/ ConsumeResetTicket(p) \/ ReleaseTicketLock(p)
        BY <3>2 DEF Begin, LoginByPassword, LoginByPhone, SendRefresh, Refresh,
           Logout, ChangePassword, Continue, ConsumeLoginCode, ResolveLoginDevice,
           InsertSession, UpdateLastLoginAt, CommitLogin, RefreshAccount, CommitRefresh,
           CommitLogout, LockResetUser, RevokeSessions, CommitPassword, Victim, Abort,
           Rollback, redis
      <3> QED
        BY <3>1, <3>2 DEF Next, Environment, World
    <2> QED
      BY <2>1, <2>2, <2>3, <2>4, <2>5
  <1> QED
    BY <1>1, SpecIInv, PTL DEF Spec, LockLeavesByOwner

-----------------------------------------------------------------------------
(* Refinement                                                               *)
Chain == [s \in Request |-> [life |-> Life(s), next |-> session[s].ctr]]

LEMMA ChainStep == TypeOK /\ Core /\ [Next]_vars => [TC!Next]_Chain
  <1> SUFFICES ASSUME TypeOK, Core, [Next]_vars PROVE TC!Next \/ Chain' = Chain
    BY DEF Chain
  <1>1. CASE session' = session
    <2>1. \A s \in Request : Life(s)' = Life(s)
      BY <1>1 DEF Life
    <2> QED
      BY <1>1, <2>1 DEF Chain
  <1>2. ASSUME NEW p \in Request, CommitLogin(p) PROVE TC!Open(p)
    <2>1. pc[p] = "login" /\ arg[p].user \in User /\ session[p] = NoSession
      BY <1>2, CoreAt DEF CommitLogin, Knows, Core, SessionsAreCommitted
    <2> DEFINE row == [user |-> arg[p].user, device |-> arg[p].device, active |-> TRUE, ctr |-> 0]
    <2>2. session'[p] = row /\ \A s \in Request \ {p} : session'[s] = session[s]
      BY <1>2 DEF CommitLogin, TypeOK
    <2>3. /\ Life(p) = "none" /\ Life(p)' = "live" /\ session'[p].ctr = 0
          /\ \A s \in Request \ {p} : Life(s)' = Life(s)
      BY <2>1, <2>2, RecordTypes DEF Life
    <2>4. /\ Chain[p].life = "none"
          /\ Chain' = [Chain EXCEPT ![p] = TC!Link("live", 0)]
      BY <2>2, <2>3 DEF Chain, TC!Link
    <2> QED
      BY <2>4 DEF TC!Open, Chain
  <1>3. ASSUME NEW p \in Request, CommitRefresh(p) PROVE \E s \in Request : TC!Accept(s)
    <2>0. PICK s \in Request : s = arg[p].token.sid
      BY <1>3, CoreAt DEF CommitRefresh, Knows, Token
    <2>1. /\ pc[p] = "refresh" /\ session[s] # NoSession /\ arg[p].row = session[s]
          /\ session[s].active /\ session[s].user \in User /\ session[s] \in SessionRow
      BY <1>3, <2>0, CoreAt DEF CommitRefresh, Knows, Fresh, Core, SessionsAreCommitted, TypeOK
    <2> DEFINE row == [session[s] EXCEPT !.ctr = @ + 1]
    <2>2. row.active = session[s].active /\ row.user = session[s].user /\ row.ctr = session[s].ctr + 1
      BY <2>1 DEF SessionRow
    <2>3. session'[s] = row /\ \A r \in Request \ {s} : session'[r] = session[r]
      BY <1>3, <2>0, <2>1 DEF CommitRefresh, TypeOK
    <2> HIDE DEF row
    <2>4. /\ Life(s) = "live" /\ Life(s)' = "live" /\ session'[s].ctr = session[s].ctr + 1
          /\ \A r \in Request \ {s} : Life(r)' = Life(r)
      BY <2>1, <2>2, <2>3 DEF Life
    <2>5. /\ Chain[s].life = "live"
          /\ Chain' = [Chain EXCEPT ![s] = TC!Link("live", @.next + 1)]
      BY <2>1, <2>3, <2>4 DEF Chain, TC!Link
    <2> QED
      BY <2>5 DEF TC!Accept, Chain
  <1>4. ASSUME NEW S \in SUBSET Request,
               \A s \in S : session[s].active /\ session[s].user \in User,
               \A s \in Request : session'[s] = IF s \in S THEN [session[s] EXCEPT !.active = FALSE]
                                                ELSE session[s]
        PROVE  TC!End(S)
    <2>1. \A s \in Request : /\ [session[s] EXCEPT !.active = FALSE].user = session[s].user
                             /\ [session[s] EXCEPT !.active = FALSE].ctr = session[s].ctr
                             /\ ~[session[s] EXCEPT !.active = FALSE].active
      <3>1. \A row \in SessionRow : /\ [row EXCEPT !.active = FALSE].user = row.user
                                    /\ [row EXCEPT !.active = FALSE].ctr = row.ctr
                                    /\ ~[row EXCEPT !.active = FALSE].active
        BY DEF SessionRow
      <3> QED
        BY <3>1 DEF TypeOK
    <2>2. \A s \in Request : /\ s \in S => Life(s) = "live" /\ Life(s)' = "ended"
                             /\ s \notin S => Life(s)' = Life(s)
                             /\ session'[s].ctr = session[s].ctr
      <3> TAKE s \in Request
      <3>1. CASE s \in S
        <4>1. session[s].active /\ session[s].user # None
          BY <1>4, <3>1
        <4>2. /\ session'[s].user = session[s].user /\ session'[s].ctr = session[s].ctr
              /\ ~session'[s].active
          BY <1>4, <2>1, <3>1
        <4> QED
          BY <3>1, <4>1, <4>2 DEF Life
      <3>2. CASE s \notin S
        <4>1. session'[s] = session[s]
          BY <1>4, <3>2
        <4> QED
          BY <3>2, <4>1 DEF Life
      <3> QED
        BY <3>1, <3>2
    <2>3. /\ \A s \in S : Chain[s].life = "live"
          /\ Chain' = [s \in Request |-> IF s \in S THEN TC!Link("ended", Chain[s].next) ELSE Chain[s]]
      BY <2>2 DEF Chain, TC!Link
    <2> QED
      BY <2>3 DEF TC!End, Chain
  <1>5. ASSUME NEW p \in Request, CommitLogout(p) PROVE \E S \in SUBSET Request : TC!End(S)
    <2>0. PICK S \in SUBSET Request : S = {arg[p].sid}
      BY <1>5, CoreAt DEF CommitLogout, Knows
    <2>1. /\ arg[p].sid \in Request /\ arg[p].row = session[arg[p].sid] /\ arg[p].row.active
          /\ session[arg[p].sid].user \in User
      BY <1>5, CoreAt DEF CommitLogout, Knows, Fresh, Core, SessionsAreCommitted
    <2>2. session' = [session EXCEPT ![arg[p].sid] = [session[arg[p].sid] EXCEPT !.active = FALSE]]
      BY <1>5, <2>1 DEF CommitLogout
    <2>3. \A s \in Request : session'[s] = IF s \in S THEN [session[s] EXCEPT !.active = FALSE]
                                                ELSE session[s]
      BY <2>0, <2>1, <2>2 DEF TypeOK
    <2>4. \A s \in S : session[s].active /\ session[s].user \in User
      BY <2>0, <2>1
    <2> QED
      BY <1>4, <2>3, <2>4
  <1>6. ASSUME NEW p \in Request, CommitPassword(p) PROVE \E S \in SUBSET Request : TC!End(S)
    <2>0. PICK S \in SUBSET Request : S = arg[p].revoked
      BY <1>6, NewPasswordRows DEF Revocable
    <2>1. /\ arg[p].user \in User /\ arg[p].revoked = Revocable(arg[p].user, arg[p].sid)
          /\ session' = [s \in Request |-> IF s \in arg[p].revoked
               THEN [session[s] EXCEPT !.active = FALSE] ELSE session[s]]
      BY <1>6, NewPasswordRows
    <2>2. /\ \A s \in S : session[s].active /\ session[s].user \in User
          /\ \A s \in Request : session'[s] = IF s \in S
               THEN [session[s] EXCEPT !.active = FALSE] ELSE session[s]
      BY <2>0, <2>1 DEF Revocable
    <2> QED
      BY <1>4, <2>2
  <1>7. \/ session' = session
        \/ \E p \in Request : CommitOf(p)
    <2>1. \A p \in Request : Local(p) => session' = session
      BY DEF Local, Quiet
    <2>2. UNCHANGED vars => session' = session
      BY DEF vars, db
    <2> QED
      BY <2>1, <2>2, Kinds
  <1>8. ASSUME NEW p \in Request, CommitOf(p) PROVE TC!Next
    BY <1>2, <1>3, <1>5, <1>6, <1>8 DEF CommitOf, TC!Next
  <1> QED
    BY <1>1, <1>7, <1>8

(* Concurrent requests on the rows of sessions keep the promise of module
   TokenChain: tokens are accepted in order, once, until the session ends. *)
THEOREM SpecImplementsTokenChain == Spec => ImplementsTokenChain
  <1>1. Init => TC!Init
    BY RecordTypes DEF Init, TC!Init, TC!Link, Life
  <1>2. IInv /\ [Next]_vars => [TC!Next]_Chain
    BY ChainStep, IInvIsCore
  <1> QED
    BY <1>1, <1>2, SpecIInv, PTL DEF Spec, ImplementsTokenChain, TC!Spec, Chain

-----------------------------------------------------------------------------
(* Deadlocks.  What a waiting request holds bounds what can wait for it.    *)
LEMMA ActorMoves ==
  ASSUME TypeOK, Core, NEW p \in Request, Begin(p) \/ Continue(p) \/ Victim(p) \/ Abort(p)
  PROVE  Moves(p)
  <1>1. CASE CommitOf(p)
    BY <1>1, CommitLoginCommits, CommitRefreshCommits, CommitLogoutCommits,
       CommitPasswordCommits DEF CommitOf
  <1>2. CASE Begin(p)
    BY <1>2, LoginBeginIsLocal, SendRefreshIsLocal, RefreshIsLocal, LogoutIsLocal,
       ChangePasswordIsLocal, ResetPasswordIsLocal DEF Begin, Local
  <1>3. CASE Continue(p) /\ ~CommitOf(p)
    BY <1>3, ConsumeLoginCodeIsLocal, ResolveLoginDeviceIsLocal,
       InsertSessionIsLocal, UpdateLastLoginAtIsLocal, RefreshAccountIsLocal,
       LockResetUserIsLocal, RevokeSessionsIsLocal, ConsumeResetTicketIsLocal,
       ReleaseTicketLockIsLocal DEF Continue, CommitOf, Local
  <1>4. CASE Victim(p) \/ Abort(p)
    BY <1>4, RollbackIsLocal DEF Victim, Abort, Local
  <1> QED
    BY <1>1, <1>2, <1>3, <1>4

(* Which step takes a request to a place where it waits.                    *)
LEMMA Arrivals ==
  ASSUME TypeOK, NEW p \in Request, Begin(p) \/ Continue(p) \/ Victim(p) \/ Abort(p)
  PROVE  /\ pc'[p] \in {"device", "user"} =>
              \/ LoginByPassword(p) \/ LoginByPhone(p)
              \/ ConsumeLoginCode(p) \/ ResetPassword(p)
         /\ pc'[p] = "insert" => ResolveLoginDevice(p)
         /\ pc'[p] = "stamp" => InsertSession(p)
         /\ pc'[p] = "logout" => Logout(p)
         /\ pc'[p] = "revoke" => ChangePassword(p) \/ LockResetUser(p) \/ RevokeSessions(p)
  <1> DEFINE place == pc'[p]
  <1>1. \A x : Goto(p, x) => place = x
    BY DEF Goto, TypeOK
  <1> HIDE DEF place
  <1>2. LoginByPassword(p) \/ LoginByPhone(p) => place \in {"device", "code", "done"}
    BY <1>1 DEF LoginByPassword, LoginByPhone
  <1>3. SendRefresh(p) => place = "sent"
    BY <1>1 DEF SendRefresh
  <1>4. Refresh(p) => place \in {"account", "done"}
    BY <1>1 DEF Refresh, Refused, Refuse
  <1>5. Logout(p) => place \in {"logout", "done"}
    BY <1>1 DEF Logout, Refused, Refuse
  <1>6. ChangePassword(p) => place \in {"revoke", "done"}
    BY <1>1 DEF ChangePassword
  <1>7. ResetPassword(p) => place \in {"user", "done"}
    BY <1>1 DEF ResetPassword
  <1>8. ConsumeLoginCode(p) => place \in {"device", "done"}
    BY <1>1 DEF ConsumeLoginCode
  <1>9. ResolveLoginDevice(p) => place = "insert"
    BY <1>1 DEF ResolveLoginDevice
  <1>10. InsertSession(p) => place = "stamp"
    BY <1>1 DEF InsertSession
  <1>11. UpdateLastLoginAt(p) => place = "login"
    BY <1>1 DEF UpdateLastLoginAt
  <1>12. RefreshAccount(p) => place \in {"refresh", "done"}
    BY <1>1 DEF RefreshAccount, Refused, Refuse
  <1>13. LockResetUser(p) => place \in {"revoke", "release"}
    BY <1>1 DEF LockResetUser, Refuse
  <1>14. RevokeSessions(p) => place \in {"revoke", "newPassword"}
    <2>1. RevokeSessions(p) /\ UNCHANGED pc => place = "revoke"
      BY DEF RevokeSessions, place
    <2>2. RevokeSessions(p) /\ ~UNCHANGED pc => place = "newPassword"
      BY <1>1 DEF RevokeSessions
    <2> QED
      BY <2>1, <2>2
  <1>15. ConsumeResetTicket(p) => place \in {"release", "done"}
    BY <1>1 DEF ConsumeResetTicket, OwnershipLost
  <1>16. ReleaseTicketLock(p) => place = "done"
    BY <1>1 DEF ReleaseTicketLock
  <1>17. CommitOf(p) => place \in {"done", "consume", "release"}
    BY <1>1 DEF CommitOf, CommitLogin, CommitRefresh, CommitLogout, CommitPassword, Commit
  <1>18. Victim(p) \/ Abort(p) => place \in {"release", "done"}
    BY <1>1 DEF Victim, Abort, Rollback, Refuse
  <1>19. CASE Begin(p)
    BY <1>2, <1>3, <1>4, <1>5, <1>6, <1>7, <1>19 DEF Begin, place
  <1>20. CASE Continue(p)
    BY <1>8, <1>9, <1>10, <1>11, <1>12, <1>13, <1>14, <1>15, <1>16, <1>17, <1>20
    DEF Continue, CommitOf, place
  <1>21. CASE Victim(p) \/ Abort(p)
    BY <1>18, <1>21 DEF place
  <1> QED
    BY <1>19, <1>20, <1>21

LEMMA ActorLocksAtMost ==
  ASSUME TypeOK, Core, LocksAtMost, NEW p \in Request,
         Begin(p) \/ Continue(p) \/ Victim(p) \/ Abort(p)
  PROVE  HoldsAtMost(p, pc'[p], held'[p], arg'[p])
  <1>0. /\ held[p] \subseteq Locks /\ HoldsAtMost(p, pc[p], held[p], arg[p])
        /\ Holds(p, pc[p], held[p], arg[p]) /\ arg[p] \in Arg
    BY CoreAt DEF LocksAtMost
  <1>1. CASE pc'[p] \in {"device", "user"}
    <2>0. LoginByPassword(p) \/ LoginByPhone(p) \/ ConsumeLoginCode(p) \/ ResetPassword(p)
      BY <1>1, Arrivals
    <2>1. pc[p] \in {"idle", "code"} /\ held'[p] = held[p]
      BY <2>0 DEF LoginByPassword, LoginByPhone, ConsumeLoginCode, ResetPassword
    <2>2. held'[p] = {}
      BY <1>0, <2>1 DEF Holds, InTransaction
    <2> QED
      BY <1>1, <2>2 DEF HoldsAtMost
  <1>2. CASE pc'[p] = "insert"
    <2>1. ResolveLoginDevice(p)
      BY <1>2, Arrivals
    <2>2. \E d \in Request : held'[p] = held[p] \cup {DeviceLock(d)}
      BY <2>1 DEF ResolveLoginDevice, Lock, TypeOK
    <2>3. held[p] = {}
      BY <1>0, <2>1 DEF ResolveLoginDevice, HoldsAtMost
    <2>4. held'[p] \subseteq DeviceLocks
      BY <2>2, <2>3 DEF DeviceLocks
    <2> QED
      BY <1>2, <2>4 DEF HoldsAtMost
  <1>3. CASE pc'[p] = "stamp"
    <2>1. InsertSession(p)
      BY <1>3, Arrivals
    <2>2. held'[p] = held[p] \cup {SessionLock(p), EntryLock(p)}
      BY <2>1 DEF InsertSession, Lock, TypeOK
    <2>3. held[p] \subseteq DeviceLocks
      BY <1>0, <2>1 DEF InsertSession, HoldsAtMost
    <2> QED
      BY <1>3, <2>2, <2>3 DEF HoldsAtMost
  <1>4. CASE pc'[p] = "revoke"
    <2>1. ChangePassword(p) \/ LockResetUser(p) \/ RevokeSessions(p)
      BY <1>4, Arrivals
    <2>2. ChangePassword(p) \/ LockResetUser(p) => held[p] = {}
      BY <1>0 DEF ChangePassword, LockResetUser, HoldsAtMost, Holds, InTransaction
    <2>3. CASE ChangePassword(p)
      <3>1. PICK s \in Known, current \in Password, new \in Password :
              LET u == session[s].user IN
              IF user[u].normal /\ user[u].pw = current
              THEN /\ Lock(p, {UserLock(u)})
                   /\ arg' = [arg EXCEPT ![p] = [NoArg EXCEPT
                        !.user = u, !.sid = s, !.account = user[u], !.new = new]]
              ELSE Goto(p, "done")
        BY <2>3 DEF ChangePassword, UserRead
      <3> DEFINE u == session[s].user
      <3>3. held' = [held EXCEPT ![p] = @ \cup {UserLock(u)}]
        BY <1>4, <3>1 DEF Lock, Goto, TypeOK
      <3>4. arg' = [arg EXCEPT ![p] = [NoArg EXCEPT
              !.user = u, !.sid = s, !.account = user[u], !.new = new]]
        BY <1>4, <3>1 DEF Goto, TypeOK
      <3>2. held'[p] = {UserLock(u)} /\ arg'[p].user = u
        BY <2>2, <2>3, <3>3, <3>4 DEF TypeOK, NoArg
      <3> QED
        BY <1>4, <3>2 DEF HoldsAtMost
    <2>4. CASE LockResetUser(p)
      <3>1. /\ held' = [held EXCEPT ![p] = @ \cup {UserLock(arg[p].user)}]
            /\ arg' = [arg EXCEPT ![p].account = user[arg[p].user]]
        BY <1>4, <2>4 DEF LockResetUser, Refuse, Goto, Lock, UserRead, TypeOK
      <3>2. held'[p] = {UserLock(arg[p].user)} /\ arg'[p].user = arg[p].user
        BY <1>0, <2>2, <2>4, <3>1 DEF TypeOK, Arg
      <3> QED
        BY <1>4, <3>2 DEF HoldsAtMost
    <2>5. CASE RevokeSessions(p)
      <3>1. pc' # [pc EXCEPT ![p] = "newPassword"]
        BY <1>4 DEF TypeOK
      <3>2. PICK lock \in ScanNext(p) : Lock(p, {UserLock(arg[p].user), lock}) /\ UNCHANGED arg
        BY <2>5, <3>1 DEF RevokeSessions, Goto
      <3>3. \E s \in SessionsOf(arg[p].user) : lock \in {SessionLock(s), EntryLock(s)}
        BY DEF ScanNext, Inserted
      <3>4. held'[p] = held[p] \cup {UserLock(arg[p].user), lock} /\ arg'[p] = arg[p]
        BY <3>2 DEF Lock, TypeOK
      <3>5. pc[p] = "revoke"
        BY <2>5 DEF RevokeSessions
      <3> QED
        BY <1>0, <1>4, <3>3, <3>4, <3>5 DEF HoldsAtMost
    <2> QED
      BY <2>1, <2>3, <2>4, <2>5
  <1>5. CASE pc'[p] = "logout"
    <2>1. PICK s \in Known :
            /\ ~session[s].active => Goto(p, "done")
            /\ session[s].active => Lock(p, SessionRead(s))
            /\ arg' = [arg EXCEPT ![p] = [NoArg EXCEPT
                 !.user = session[s].user, !.sid = s, !.row = session[s]]]
      BY <1>5, Arrivals DEF Logout, Refused, Refuse
    <2>2. held[p] = {}
      BY <1>0, <1>5, Arrivals DEF Logout, Holds, InTransaction
    <2>3. held'[p] = {SessionLock(s)}
      BY <1>5, <2>1, <2>2 DEF Goto, Lock, SessionRead, TypeOK
    <2>4. arg'[p].sid = s
      BY <2>1 DEF NoArg, TypeOK
    <2> QED
      BY <1>5, <2>3, <2>4 DEF HoldsAtMost
  <1> QED
    BY <1>1, <1>2, <1>3, <1>4, <1>5 DEF HoldsAtMost

(* The sessions of a user stay those of that user. *)
LEMMA SessionsStay ==
  ASSUME TypeOK, Core, Next, NEW s \in Login, arg[s].user \in User
  PROVE  arg'[s].user = arg[s].user
  <1>1. s \in Request /\ pc[s] # "idle"
    BY CoreAt, RecordTypes DEF Login, Knows
  <1>2. ASSUME NEW p \in Request, Local(p) PROVE arg'[s].user = arg[s].user
    BY <1>1, <1>2, OthersStay DEF Local, Proceeds
  <1> QED
    BY <1>2, Kinds DEF Commits

LEMMA StepKeepsLocksAtMost ==
  ASSUME TypeOK, Core, LocksAtMost, [Next]_vars
  PROVE  LocksAtMost'
  <1>1. ASSUME NEW p \in Request, Begin(p) \/ Continue(p) \/ Victim(p) \/ Abort(p)
        PROVE  LocksAtMost'
    <2>1. HoldsAtMost(p, pc'[p], held'[p], arg'[p])
      BY <1>1, ActorLocksAtMost
    <2>2. \A q \in Request : q # p => pc'[q] = pc[q] /\ held'[q] = held[q] /\ arg'[q] = arg[q]
      BY <1>1, ActorMoves, OthersStay
    <2>3. \A q \in Request : HoldsAtMost(q, pc'[q], held'[q], arg'[q])
      BY <2>1, <2>2 DEF LocksAtMost
    <2>4. \A q \in Request : pc'[q] = "revoke" => arg'[q].user \in User
      BY CoreStep DEF Core, Informed, Knows
    <2>5. \A s \in Login : arg[s].user \in User => arg'[s].user = arg[s].user
      BY <1>1, SessionsStay DEF Next, Environment
    <2> SUFFICES ASSUME NEW q \in Request PROVE HoldsAtMost(q, pc[q], held[q], arg[q])'
      BY DEF LocksAtMost
    <2>6. pc'[q] # "revoke" => HoldsAtMost(q, pc[q], held[q], arg[q])'
      BY <2>3 DEF HoldsAtMost, DeviceLocks
    <2>7. ASSUME pc'[q] = "revoke" PROVE HoldsAtMost(q, pc[q], held[q], arg[q])'
      <3>1. PICK u \in User : u = arg'[q].user
        BY <2>4, <2>7
      <3>2. SessionsOf(u) \subseteq SessionsOf(u)'
        BY <2>5 DEF SessionsOf
      <3>3. held'[q] \subseteq {UserLock(u)} \cup UNION {{SessionLock(s), EntryLock(s)} : s \in SessionsOf(u)}
        BY <2>3, <2>7, <3>1 DEF HoldsAtMost
      <3>4. held'[q] \subseteq {UserLock(u)} \cup UNION {{SessionLock(s), EntryLock(s)} : s \in SessionsOf(u)'}
        BY <3>2, <3>3
      <3> QED
        BY <2>7, <3>1, <3>4 DEF HoldsAtMost, SessionsOf
    <2> QED
      BY <2>6, <2>7
  <1>2. CASE World \/ UNCHANGED vars
    <2>1. UNCHANGED <<pc, held, arg>>
      BY <1>2 DEF World, Deliver, SessionExpires, CookieExpires, LockExpires,
                  TicketExpires, DisableAccount, vars
    <2> QED
      BY <2>1 DEF LocksAtMost, HoldsAtMost, DeviceLocks, SessionsOf
  <1> QED
    BY <1>1, <1>2 DEF Next, Environment, World

(* Whom a request waits for that holds rows, if he waits too.                *)
LEMMA WaitsArePairs ==
  ASSUME TypeOK, Core, LocksAtMost, NEW p \in Request, NEW q \in Request, p # q,
         held[p] # {}, WaitsFor(p, q), Blocked(q)
  PROVE  /\ arg[p].user = arg[q].user
         /\ \/ InOrOut(p) /\ NewPassword(q)
            \/ NewPassword(p) /\ InOrOut(q) /\ WaitsFor(q, p)
  <1>1. /\ HoldsAtMost(p, pc[p], held[p], arg[p]) /\ HoldsAtMost(q, pc[q], held[q], arg[q])
        /\ Holds(p, pc[p], held[p], arg[p]) /\ Holds(q, pc[q], held[q], arg[q])
        /\ held[p] \cap held[q] = {}
    BY CoreAt DEF LocksAtMost
  <1>2. /\ \A s : SessionLock(s) \notin DeviceLocks /\ EntryLock(s) \notin DeviceLocks
        /\ \A u : UserLock(u) \notin DeviceLocks /\ RangeLock(u) \notin DeviceLocks
    BY LockNames DEF DeviceLocks
  <1>3. pc[q] \in {"insert", "stamp", "logout", "revoke"}
    <2>1. held[q] # {} /\ Wants(q) # {}
      BY DEF WaitsFor, Blocked
    <2> QED
      BY <1>1, <2>1 DEF Wants, Holds, HoldsAtMost, InTransaction
  <1>4. pc[p] \in {"insert", "stamp", "logout", "revoke"}
    BY <1>1 DEF WaitsFor, Wants, Holds, HoldsAtMost, InTransaction
  <1>5. \A r \in {p, q} : /\ pc[r] \in {"insert", "stamp", "logout"} => InOrOut(r)
                          /\ pc[r] = "revoke" => NewPassword(r)
    BY PlaceOps DEF Core, Login, InOrOut, NewPassword
  <1>6. \A s \in Request : session[s] # NoSession =>
          s \in Login /\ pc[s] = "done" /\ session[s].user = arg[s].user
    BY DEF Core, SessionsAreCommitted
  <1>7. \A r \in {p, q} : pc[r] = "logout" =>
          /\ arg[r].sid \in Login /\ pc[arg[r].sid] = "done" /\ arg[r].user = arg[arg[r].sid].user
    BY <1>6, CoreAt DEF Knows
  <1>8. CASE pc[p] = "insert"
    <2>1. RangeLock(arg[p].user) \in held[q]
      BY <1>8 DEF WaitsFor, Wants
    <2>2. RangeLock(arg[p].user) \notin held[q]
      BY <1>1, <1>2, <1>3, LockNames DEF HoldsAtMost
    <2> QED
      BY <2>1, <2>2
  <1>9. CASE pc[p] = "stamp"
    <2>1. UserLock(arg[p].user) \in held[q]
      BY <1>9 DEF WaitsFor, Wants
    <2>2. pc[q] = "revoke" /\ arg[q].user = arg[p].user
      BY <1>1, <1>2, <1>3, <2>1, LockNames DEF HoldsAtMost
    <2> QED
      BY <1>5, <1>9, <2>2
  <1>10. CASE pc[p] = "logout"
    <2> DEFINE s == arg[p].sid
    <2>1. EntryLock(s) \in held[q] /\ s # q
      BY <1>3, <1>7, <1>10 DEF WaitsFor, Wants
    <2>2. pc[q] = "revoke" /\ \E r \in SessionsOf(arg[q].user) : EntryLock(s) \in {SessionLock(r), EntryLock(r)}
      BY <1>1, <1>2, <1>3, <2>1, LockNames DEF HoldsAtMost
    <2>3. arg[s].user = arg[q].user
      BY <2>2, LockNames DEF SessionsOf
    <2> QED
      BY <1>5, <1>7, <1>10, <2>2, <2>3
  <1>11. CASE pc[p] = "revoke"
    <2> DEFINE u == arg[p].user
    <2>1. UserLock(u) \in held[p]
      BY <1>1, <1>11 DEF Holds
    <2>2. PICK row \in held[q] : row \in {UserLock(u)} \cup ScanNext(p)
      BY <1>11 DEF WaitsFor, Wants
    <2>3. row \in ScanNext(p)
      BY <1>1, <2>1, <2>2
    <2>4. PICK s \in Inserted(u) : row = EntryLock(s) \/ (row = SessionLock(s) /\ EntryLock(s) \in held[p])
      BY <2>3 DEF ScanNext
    <2>5. s \in Login /\ arg[s].user = u
      BY DEF Inserted, SessionsOf
    <2>6. CASE pc[q] = "stamp"
      <3>1. q = s
        BY <1>1, <1>2, <2>4, <2>6, LockNames DEF HoldsAtMost
      <3>2. UserLock(u) \in Wants(q)
        BY <2>5, <2>6, <3>1 DEF Wants
      <3> QED
        BY <1>5, <1>11, <2>1, <2>5, <2>6, <3>1, <3>2 DEF WaitsFor
    <2>7. CASE pc[q] = "logout"
      <3>1. s = arg[q].sid /\ EntryLock(s) \in held[p]
        BY <1>1, <2>4, <2>7, LockNames DEF HoldsAtMost
      <3>2. EntryLock(s) \in Wants(q)
        BY <2>7, <3>1 DEF Wants
      <3> QED
        BY <1>5, <1>7, <1>11, <2>5, <2>7, <3>1, <3>2 DEF WaitsFor
    <2>8. CASE pc[q] = "revoke"
      <3>1. arg[q].user # u
        BY <1>1, <2>1, <2>8 DEF Holds
      <3>2. \E r \in SessionsOf(arg[q].user) : row \in {SessionLock(r), EntryLock(r)}
        BY <1>1, <2>4, <2>8, LockNames DEF HoldsAtMost
      <3>3. s \in SessionsOf(arg[q].user)
        BY <2>4, <3>2, LockNames
      <3> QED
        BY <2>5, <3>1, <3>3 DEF SessionsOf
    <2>9. pc[q] # "insert"
      BY <1>1, <1>2, <2>4 DEF HoldsAtMost
    <2> QED
      BY <1>3, <2>6, <2>7, <2>8, <2>9
  <1> QED
    BY <1>4, <1>8, <1>9, <1>10, <1>11

LEMMA SpecLocksAtMost == Spec => []LocksAtMost
  <1>1. Init => LocksAtMost
    BY DEF Init, LocksAtMost, HoldsAtMost
  <1>2. IInv /\ LocksAtMost /\ [Next]_vars => LocksAtMost'
    BY IInvIsCore, StepKeepsLocksAtMost
  <1> QED
    BY <1>1, <1>2, SpecIInv, PTL DEF Spec

(* A request that holds rows and waits for one that waits is of the same user: a
   login or logout waits for a new password, or a new password for a login or
   logout that waits for it. *)
THEOREM SpecDeadlocksArePairs == Spec => []DeadlocksArePairs
  <1>1. IInv /\ LocksAtMost => DeadlocksArePairs
    BY IInvIsCore, WaitsArePairs DEF DeadlocksArePairs
  <1> QED
    BY <1>1, SpecIInv, SpecLocksAtMost, PTL

(* So a set of requests that all wait for each other, of any size and shape,
   contains two that wait for each other, one of which InnoDB rolls back. *)
CyclesHavePairs ==
  \A S \in SUBSET Request :
    S # {} /\ (\A p \in S : \E q \in S \ {p} : WaitsFor(p, q)) => \E p \in S : Deadlocked(p)

THEOREM SpecCyclesHavePairs == Spec => []CyclesHavePairs
  <1>1. ASSUME IInv, LocksAtMost, NEW S \in SUBSET Request, NEW o \in S,
               \A p \in S : \E q \in S \ {p} : WaitsFor(p, q)
        PROVE  \E p \in S : Deadlocked(p)
    <2>1. PICK p \in S \ {o} : WaitsFor(o, p)
      BY <1>1
    <2>2. PICK q \in S \ {p} : WaitsFor(p, q)
      BY <1>1
    <2>3. PICK r \in S \ {q} : WaitsFor(q, r)
      BY <1>1
    <2>4. Blocked(q) /\ held[p] # {} /\ Blocked(r) /\ held[q] # {}
      BY <1>1, <2>1, <2>2, <2>3 DEF Blocked, WaitsFor
    <2>5. NewPassword(q) \/ WaitsFor(q, p)
      BY <1>1, <2>2, <2>4, IInvIsCore, WaitsArePairs
    <2>6. InOrOut(q) \/ WaitsFor(r, q)
      BY <1>1, <2>3, <2>4, IInvIsCore, WaitsArePairs
    <2>7. ~(NewPassword(q) /\ InOrOut(q))
      BY DEF NewPassword, InOrOut
    <2> QED
      BY <2>2, <2>3, <2>5, <2>6, <2>7 DEF Deadlocked
  <1>2. IInv /\ LocksAtMost => CyclesHavePairs
    BY <1>1 DEF CyclesHavePairs
  <1> QED
    BY <1>2, SpecIInv, SpecLocksAtMost, PTL

(* Nor does a queue of waits build up behind a row: whoever is waited for, or
   else all he waits for, are of such a pair or wait only for requests that go
   on. *)
Settled(q) == Deadlocked(q) \/ \A r \in Request \ {q} : WaitsFor(q, r) => ~Blocked(r)
WaitsAreShort ==
  \A p \in Request : \A q \in Request \ {p} : WaitsFor(p, q) =>
    Settled(q) \/ \A r \in Request \ {q} : WaitsFor(q, r) => Settled(r)

THEOREM SpecWaitsAreShort == Spec => []WaitsAreShort
  <1>1. ASSUME IInv, LocksAtMost, NEW p \in Request, NEW q \in Request \ {p}, WaitsFor(p, q),
               ~Deadlocked(q),
               NEW r \in Request \ {q}, WaitsFor(q, r),
               NEW s \in Request \ {r}, WaitsFor(r, s), Blocked(s)
        PROVE  Deadlocked(r)
    <2>1. held[q] # {} /\ held[r] # {} /\ Blocked(r)
      BY <1>1 DEF WaitsFor, Blocked
    <2>2. NewPassword(r)
      BY <1>1, <2>1, IInvIsCore, WaitsArePairs DEF Deadlocked
    <2>3. WaitsFor(s, r)
      BY <1>1, <2>1, <2>2, IInvIsCore, WaitsArePairs DEF NewPassword, InOrOut
    <2> QED
      BY <1>1, <2>3 DEF Deadlocked
  <1>2. IInv /\ LocksAtMost => WaitsAreShort
    BY <1>1 DEF WaitsAreShort, Settled
  <1> QED
    BY <1>2, SpecIInv, SpecLocksAtMost, PTL

-----------------------------------------------------------------------------
(* How long a request takes. *)

(* How far along a request is at a place, whatever endpoint it calls. *)
Progress(place) ==
  CASE place = "idle" -> 0
    [] place \in {"sent", "code", "logout", "user"} -> 1
    [] place \in {"device", "account", "revoke"} -> 2
    [] place \in {"insert", "refresh", "newPassword"} -> 3
    [] place \in {"stamp", "consume"} -> 4
    [] place = "login" -> 5
    [] place = "release" -> 6
    [] OTHER -> 7

(* A request never goes back, neither after a failed statement nor as the
   victim of a deadlock nor when it finds that its lock has expired: nothing is
   tried again, and it changes its place seven times at most. *)
RequestsAdvance ==
  [][\A p \in Request : pc'[p] # pc[p] => Progress(pc[p]) < Progress(pc'[p])]_vars

LEMMA ActorAdvances ==
  ASSUME TypeOK, NEW p \in Request, Begin(p) \/ Continue(p) \/ Victim(p) \/ Abort(p)
  PROVE  /\ \A q \in Request : q # p => pc'[q] = pc[q]
         /\ pc'[p] = pc[p] \/ Progress(pc[p]) < Progress(pc'[p])
  <1> DEFINE Forward == \E place : Goto(p, place) /\ Progress(pc[p]) < Progress(place)
  <1>1. ASSUME Forward
        PROVE  /\ \A q \in Request : q # p => pc'[q] = pc[q]
               /\ Progress(pc[p]) < Progress(pc'[p])
    <2>1. PICK place : Goto(p, place) /\ Progress(pc[p]) < Progress(place)
      BY <1>1
    <2>2. pc'[p] = place
      BY <2>1 DEF Goto, TypeOK
    <2> QED
      BY <2>1, <2>2 DEF Goto, TypeOK
  (* The order of the places, for each place a step begins at. *)
  <1>2. /\ \A place \in {"device", "code", "sent", "logout", "user", "revoke", "done"} :
             Progress("idle") < Progress(place)
        /\ \A place \in {"account", "done"} : Progress("sent") < Progress(place)
        /\ \A place \in {"device", "done"} : Progress("code") < Progress(place)
        /\ \A place \in {"refresh", "done"} : Progress("account") < Progress(place)
        /\ \A place \in {"revoke", "release"} : Progress("user") < Progress(place)
        /\ \A place \in {"consume", "release", "done"} : Progress("newPassword") < Progress(place)
        /\ \A place \in {"release", "done"} : Progress("consume") < Progress(place)
        /\ \A place \in InTransaction :
             Progress(place) < Progress("release") /\ Progress(place) < Progress("done")
        /\ Progress("device") < Progress("insert") /\ Progress("insert") < Progress("stamp")
        /\ Progress("stamp") < Progress("login") /\ Progress("revoke") < Progress("newPassword")
        /\ Progress("release") < Progress("done")
    BY DEF Progress, InTransaction
  <1>3. ASSUME Begin(p) PROVE Forward
    <2>1. LoginByPassword(p) \/ LoginByPhone(p) \/ SendRefresh(p) => Forward
      BY <1>2 DEF LoginByPassword, LoginByPhone, SendRefresh
    <2>2. Refresh(p) => Forward
      BY <1>2 DEF Refresh, Refused, Refuse
    <2>3. Logout(p) => Forward
      BY <1>2 DEF Logout, Refused, Refuse
    <2>4. ChangePassword(p) => Forward
      BY <1>2 DEF ChangePassword
    <2>5. ResetPassword(p) => Forward
      BY <1>2 DEF ResetPassword
    <2> HIDE DEF Forward
    <2> QED
      BY <1>3, <2>1, <2>2, <2>3, <2>4, <2>5 DEF Begin
  <1>4. ASSUME Victim(p) \/ Abort(p) PROVE Forward
    BY <1>2, <1>4 DEF Victim, Abort, Rollback, Refuse
  <1>5. ASSUME Continue(p) PROVE Forward \/ UNCHANGED pc
    <2>1. ConsumeLoginCode(p) => Forward
      BY <1>2 DEF ConsumeLoginCode
    <2>2. ResolveLoginDevice(p) => Forward
      BY <1>2 DEF ResolveLoginDevice
    <2>3. InsertSession(p) => Forward
      BY <1>2 DEF InsertSession
    <2>4. UpdateLastLoginAt(p) => Forward
      BY <1>2 DEF UpdateLastLoginAt
    <2>5. CommitLogin(p) => Forward
      BY <1>2 DEF CommitLogin, Commit, InTransaction
    <2>6. RefreshAccount(p) => Forward
      BY <1>2 DEF RefreshAccount, Refused, Refuse
    <2>7. CommitRefresh(p) => Forward
      BY <1>2 DEF CommitRefresh, Commit, InTransaction
    <2>8. CommitLogout(p) => Forward
      BY <1>2 DEF CommitLogout, Commit, InTransaction
    <2>9. LockResetUser(p) => Forward
      BY <1>2 DEF LockResetUser, Refuse
    <2>10. RevokeSessions(p) => Forward \/ UNCHANGED pc
      BY <1>2 DEF RevokeSessions
    <2>11. CommitPassword(p) => Forward
      BY <1>2 DEF CommitPassword, Commit
    <2>12. ConsumeResetTicket(p) => Forward
      BY <1>2 DEF ConsumeResetTicket, OwnershipLost
    <2>13. ReleaseTicketLock(p) => Forward
      BY <1>2 DEF ReleaseTicketLock
    <2> HIDE DEF Forward
    <2> QED
      BY <1>5, <2>1, <2>2, <2>3, <2>4, <2>5, <2>6, <2>7, <2>8, <2>9, <2>10, <2>11, <2>12,
         <2>13 DEF Continue
  <1> HIDE DEF Forward
  <1> QED
    BY <1>1, <1>3, <1>4, <1>5

(* A request only moves forward. *)
THEOREM SpecRequestsAdvance == Spec => RequestsAdvance
  <1>1. ASSUME TypeOK, [Next]_vars, NEW p \in Request, pc'[p] # pc[p]
        PROVE  Progress(pc[p]) < Progress(pc'[p])
    <2>1. ASSUME NEW q \in Request, Begin(q) \/ Continue(q) \/ Victim(q) \/ Abort(q)
          PROVE  Progress(pc[p]) < Progress(pc'[p])
      BY <1>1, <2>1, ActorAdvances
    <2>2. ~(World \/ UNCHANGED vars)
      BY <1>1 DEF World, Deliver, SessionExpires, CookieExpires, LockExpires, TicketExpires,
                  DisableAccount, vars
    <2> QED
      BY <1>1, <2>1, <2>2 DEF Next, Environment, World
  <1>2. IInv /\ [Next]_vars
        => [\A p \in Request : pc'[p] # pc[p] => Progress(pc[p]) < Progress(pc'[p])]_vars
    BY <1>1, IInvIsCore
  <1> QED
    BY <1>2, SpecIInv, PTL DEF Spec, RequestsAdvance
=============================================================================
