----------------------- MODULE AccountSessionsProofs -----------------------
(***************************************************************************)
(* Theorems of module AccountSessions, for any number of accounts,         *)
(* sessions, requests, streams and views, and any bounds.  The invariant   *)
(* that makes SessionsProveThePassword inductive is what a request knows   *)
(* while it holds the account's row: what it verified is still so.  The    *)
(* one that makes NothingAfterTheEnd inductive bounds what every handler   *)
(* has in hand by the horizon of its session, and follows each end by a    *)
(* request to the listeners it has yet to close.                           *)
(***************************************************************************)
EXTENDS AccountSessions, TLAPS

AboutAccount == {"login", "change", "delete", "reset", "erase"}

\* A request that names an account has one; one that came from a page names its
\* session, which is of that account.
Named(r) ==
    /\ rpc[r] # "idle" => req[r].kind # "none"
    /\ req[r].kind \in AboutAccount => req[r].user \in User
    /\ req[r].kind \in {"change", "delete"} => owner[req[r].sess] = req[r].user
    /\ req[r].kind \in {"change", "delete", "logout"} => req[r].sess \in Session /\ status[req[r].sess] # "unused"
    /\ req[r].kind \in {"login", "reset", "erase"} => req[r].sess = NoSession
    /\ rpc[r] = "locked" => req[r].kind \in AboutAccount
RequestsNamed == \A r \in Request : Named(r)

\* While a request has the account's row, the account is open, the password is
\* the one that was verified, and the session that asked is still there.
Knows(r) ==
    rpc[r] = "locked" =>
        /\ acct[req[r].user] = "open"
        /\ req[r].kind \in {"login", "change", "delete"} => pw[req[r].user] = req[r].seen
        /\ req[r].kind \in {"change", "delete"} => status[req[r].sess] \in {"live", "expired"}
LockedKnows == \A r \in Request : Knows(r)

\* The row has one holder.
OneHolder ==
    \A q, r \in Request : rpc[q] = "locked" /\ rpc[r] = "locked" /\ req[q].user = req[r].user => q = r

\* No live session rests on a password that was replaced or an account that is gone.
Proven == \A s \in Session : Live(s) => acct[owner[s]] = "open" /\ proof[s] = pw[owner[s]]

\* Streams and views are of sessions that were issued.
HandlersNamed ==
    /\ \A t \in Stream : tpc[t] # "off" => status[sid[t]] # "unused"
    /\ \A v \in Viewer : vpc[v] # "off" => vsid[v] \in Session /\ status[vsid[v]] # "unused"

IInv == TypeOK /\ RequestsNamed /\ LockedKnows /\ OneHolder /\ Proven /\ HandlersNamed

-----------------------------------------------------------------------------
(* The types, by the part of the state.                                     *)

Reqs == [kind : Kind, user : User \cup {NoUser}, sess : Session \cup {NoSession}, seen : Nat]
SessionTypes ==
    /\ acct \in [User -> {"none", "open", "deleted"}]
    /\ pw \in [User -> Nat] /\ data \in [User -> Nat]
    /\ status \in [Session -> {"unused", "live", "expired", "gone"}]
    /\ owner \in [Session -> User \cup {NoUser}] /\ proof \in [Session -> Nat]
    /\ frozen \in [Session -> Nat] /\ cause \in [Session -> {"none", "request", "other"}]
    /\ \A s \in Session : status[s] # "unused" => owner[s] \in User
RequestTypes ==
    /\ rpc \in [Request -> {"idle", "verified", "barrier", "locked", "revoke"}]
    /\ req \in [Request -> Reqs]
StreamTypes ==
    /\ tpc \in [Stream -> {"off", "authed", "subscribed", "check", "done", "write", "loop"}]
    /\ sid \in [Stream -> Session \cup {NoSession}]
    /\ closed \in [Stream -> BOOLEAN] /\ wake \in [Stream -> BOOLEAN]
    /\ content \in [Stream -> Nat] /\ late \in [Stream -> Nat]
    /\ \A t \in Stream : tpc[t] # "off" => sid[t] \in Session
ViewTypes ==
    /\ vpc \in [Viewer -> {"off", "authed", "loaded", "write"}]
    /\ vsid \in [Viewer -> Session \cup {NoSession}]
    /\ body \in [Viewer -> Nat] /\ sent \in [Session -> Nat]

LEMMA Types == TypeOK <=> SessionTypes /\ RequestTypes /\ StreamTypes /\ ViewTypes
  BY DEF TypeOK, SessionTypes, RequestTypes, StreamTypes, ViewTypes, Reqs

\* What the handlers of pages rest on holds whatever happens to sessions, as a
\* token is never taken back.
LEMMA HandlersKeep ==
  ASSUME HandlersNamed, StreamTypes, UNCHANGED <<tpc, sid, vpc, vsid>>,
         \A s \in Session : status[s] # "unused" => status'[s] # "unused"
  PROVE  HandlersNamed'
  BY DEF HandlersNamed, StreamTypes

LEMMA NoReqTyped == NoReq \in Reqs /\ NoReq.kind = "none"
  BY DEF NoReq, Reqs, Kind

\* A request that is through knows nothing and holds nothing.
LEMMA FinishTyped ==
  ASSUME RequestTypes, NEW r \in Request, Finish(r)
  PROVE  RequestTypes' /\ \A q \in Request : IF q = r THEN rpc'[q] = "idle" /\ req'[q] = NoReq
                                             ELSE rpc'[q] = rpc[q] /\ req'[q] = req[q]
  BY NoReqTyped DEF RequestTypes, Finish

LEMMA AtTyped ==
  ASSUME RequestTypes, NEW r \in Request,
         NEW l \in {"idle", "verified", "barrier", "locked", "revoke"}, At(r, l), UNCHANGED req
  PROVE  RequestTypes' /\ \A q \in Request : rpc'[q] = IF q = r THEN l ELSE rpc[q]
  BY DEF RequestTypes, At

-----------------------------------------------------------------------------
(* The invariant but for the types of handlers, which the steps of accounts *)
(* and of handlers disturb separately.                                      *)

Secure == SessionTypes /\ RequestTypes /\ RequestsNamed /\ LockedKnows /\ OneHolder /\ Proven

\* A step of one request that commits nothing.
LEMMA RequestStep ==
  ASSUME Secure, UNCHANGED <<acctVars, sessVars, data>>, NEW r \in Request, RequestTypes',
         \A q \in Request : q # r => rpc'[q] = rpc[q] /\ req'[q] = req[q],
         Named(r)', Knows(r)',
         rpc'[r] = "locked" => \A q \in Request : q # r /\ rpc[q] = "locked" => req[q].user # req'[r].user
  PROVE  Secure'
<1>1. SessionTypes' /\ Proven'
  BY DEF Secure, SessionTypes, Proven, acctVars, sessVars, Live
<1>2. RequestsNamed'
  BY DEF Secure, RequestsNamed, Named, acctVars, sessVars
<1>3. LockedKnows'
  BY DEF Secure, LockedKnows, Knows, acctVars, sessVars
<1>4. OneHolder'
  BY DEF Secure, OneHolder
<1> QED
  BY <1>1, <1>2, <1>3, <1>4 DEF Secure

LEMMA EndOfRequest ==
  ASSUME Secure, UNCHANGED <<acctVars, sessVars, data>>, NEW r \in Request, Finish(r)
  PROVE  Secure'
<1>1. /\ RequestTypes'
      /\ \A q \in Request : q # r => rpc'[q] = rpc[q] /\ req'[q] = req[q]
      /\ rpc'[r] = "idle" /\ req'[r] = NoReq
  BY FinishTyped DEF Secure
<1>2. Named(r)' /\ Knows(r)'
  BY <1>1, NoReqTyped DEF Named, Knows, AboutAccount
<1> QED
  BY <1>1, <1>2, RequestStep

\* A request moves on, but not to the row.
LEMMA MoveOfRequest ==
  ASSUME Secure, UNCHANGED <<acctVars, sessVars, data, req>>, NEW r \in Request, rpc[r] # "idle",
         NEW l \in {"verified", "barrier", "revoke"}, At(r, l)
  PROVE  Secure'
<1>1. RequestTypes' /\ \A q \in Request : rpc'[q] = IF q = r THEN l ELSE rpc[q]
  BY AtTyped DEF Secure
<1>2. Named(r)' /\ Knows(r)'
  BY <1>1 DEF Secure, RequestsNamed, Named, Knows, acctVars, sessVars
<1> QED
  BY <1>1, <1>2, RequestStep

\* A request begins with what it reads.
LEMMA StartOfRequest ==
  ASSUME Secure, UNCHANGED <<acctVars, sessVars, data>>, NEW r \in Request, NEW q0 \in Reqs,
         NEW l \in {"verified", "barrier"}, At(r, l), req' = [req EXCEPT ![r] = q0],
         q0.kind # "none",
         q0.kind \in AboutAccount => q0.user \in User,
         q0.kind \in {"change", "delete"} => owner[q0.sess] = q0.user,
         q0.kind \in {"change", "delete", "logout"} => q0.sess \in Session /\ status[q0.sess] # "unused",
         q0.kind \in {"login", "reset", "erase"} => q0.sess = NoSession
  PROVE  Secure'
<1>1. /\ RequestTypes' /\ rpc'[r] = l /\ req'[r] = q0
      /\ \A q \in Request : q # r => rpc'[q] = rpc[q] /\ req'[q] = req[q]
  BY DEF Secure, RequestTypes, At
<1>2. Named(r)' /\ Knows(r)'
  BY <1>1 DEF Named, Knows, acctVars, sessVars
<1> QED
  BY <1>1, <1>2, RequestStep

-----------------------------------------------------------------------------
(* Steps of requests that commit nothing.                                   *)

LEMMA LoginVerifySecure ==
  ASSUME Secure, NEW r \in Request, NEW u \in User, LoginVerify(r, u)
  PROVE  Secure'
<1> DEFINE q0 == [kind |-> "login", user |-> u, sess |-> NoSession, seen |-> pw[u]]
<1>1. q0 \in Reqs
  BY DEF Reqs, Kind, Secure, SessionTypes
<1>2. /\ q0.kind = "login" /\ q0.user = u /\ q0.sess = NoSession
      /\ At(r, "verified") /\ req' = [req EXCEPT ![r] = q0] /\ UNCHANGED <<acctVars, sessVars, data>>
  BY DEF LoginVerify
<1> HIDE DEF q0
<1> QED
  BY <1>1, <1>2, StartOfRequest

LEMMA AccountVerifySecure ==
  ASSUME Secure, NEW r \in Request, NEW s \in Session, NEW kind \in {"change", "delete"}, AccountVerify(r, s, kind)
  PROVE  Secure'
<1> DEFINE q0 == [kind |-> kind, user |-> owner[s], sess |-> s, seen |-> pw[owner[s]]]
<1>1. owner[s] \in User /\ status[s] # "unused"
  BY DEF Secure, SessionTypes, AccountVerify, Live
<1>2. q0 \in Reqs
  BY <1>1 DEF Reqs, Kind, Secure, SessionTypes
<1>3. /\ q0.kind = kind /\ q0.user = owner[s] /\ q0.sess = s
      /\ At(r, "verified") /\ req' = [req EXCEPT ![r] = q0] /\ UNCHANGED <<acctVars, sessVars, data>>
  BY DEF AccountVerify
<1> HIDE DEF q0
<1> QED
  BY <1>1, <1>2, <1>3, StartOfRequest

LEMMA LogoutBarrierSecure ==
  ASSUME Secure, NEW r \in Request, NEW s \in Session, LogoutBarrier(r, s)
  PROVE  Secure'
<1> DEFINE q0 == [kind |-> "logout", user |-> NoUser, sess |-> s, seen |-> 0]
<1>1. q0 \in Reqs
  BY DEF Reqs, Kind
<1>2. /\ q0.kind = "logout" /\ q0.sess = s /\ status[s] # "unused"
      /\ At(r, "barrier") /\ req' = [req EXCEPT ![r] = q0] /\ UNCHANGED <<acctVars, sessVars, data>>
  BY DEF LogoutBarrier
<1> HIDE DEF q0
<1> QED
  BY <1>1, <1>2, StartOfRequest DEF AboutAccount

LEMMA OperatorLockSecure ==
  ASSUME Secure, NEW r \in Request, NEW u \in User, NEW kind \in {"reset", "erase"}, OperatorLock(r, u, kind)
  PROVE  Secure'
<1> DEFINE q0 == [kind |-> kind, user |-> u, sess |-> NoSession, seen |-> 0]
<1>1. q0 \in Reqs
  BY DEF Reqs, Kind
<1>2. /\ q0.kind = kind /\ q0.user = u /\ q0.sess = NoSession /\ acct[u] = "open" /\ ~UserRowLocked(u)
      /\ rpc' = [rpc EXCEPT ![r] = "locked"] /\ req' = [req EXCEPT ![r] = q0]
      /\ UNCHANGED <<acctVars, sessVars, data>>
  BY DEF OperatorLock, At
<1> HIDE DEF q0
<1>3. /\ RequestTypes' /\ rpc'[r] = "locked" /\ req'[r] = q0
      /\ \A q \in Request : q # r => rpc'[q] = rpc[q] /\ req'[q] = req[q]
  BY <1>1, <1>2 DEF Secure, RequestTypes
<1>4. Named(r)' /\ Knows(r)'
  BY <1>2, <1>3 DEF Named, Knows, AboutAccount, acctVars, sessVars
<1>5. \A q \in Request : q # r /\ rpc[q] = "locked" => req[q].user # req'[r].user
  BY <1>2, <1>3 DEF UserRowLocked
<1> QED
  BY <1>2, <1>3, <1>4, <1>5, RequestStep

LEMMA AccountBarrierSecure ==
  ASSUME Secure, NEW r \in Request, AccountBarrier(r)
  PROVE  Secure'
  BY MoveOfRequest DEF AccountBarrier

\* The two that take the row with what they verified: a login and an account change.
LEMMA RowTaken ==
  ASSUME Secure, NEW r \in Request, UNCHANGED <<acctVars, sessVars, data, req>>, At(r, "locked"),
         rpc[r] # "idle", req[r].kind \in {"login", "change", "delete"}, ~UserRowLocked(req[r].user),
         acct[req[r].user] = "open", pw[req[r].user] = req[r].seen,
         req[r].kind \in {"change", "delete"} => Live(req[r].sess)
  PROVE  Secure'
<1>1. RequestTypes' /\ \A q \in Request : rpc'[q] = IF q = r THEN "locked" ELSE rpc[q]
  BY AtTyped DEF Secure
<1>2. Named(r)' /\ Knows(r)'
  BY <1>1 DEF Secure, RequestsNamed, Named, Knows, AboutAccount, acctVars, sessVars, Live
<1>3. \A q \in Request : q # r /\ rpc[q] = "locked" => req[q].user # req'[r].user
  BY DEF UserRowLocked
<1> QED
  BY <1>1, <1>2, <1>3, RequestStep

LEMMA LoginLockSecure ==
  ASSUME Secure, NEW r \in Request, LoginLock(r)
  PROVE  Secure'
<1>1. CASE acct[req[r].user] = "open" /\ pw[req[r].user] = req[r].seen
  BY <1>1, RowTaken DEF LoginLock
<1>2. CASE ~(acct[req[r].user] = "open" /\ pw[req[r].user] = req[r].seen)
  BY <1>2, EndOfRequest DEF LoginLock
<1> QED
  BY <1>1, <1>2

LEMMA AccountLockSecure ==
  ASSUME Secure, NEW r \in Request, AccountLock(r)
  PROVE  Secure'
<1>1. CASE acct[req[r].user] = "open" /\ pw[req[r].user] = req[r].seen /\ Live(req[r].sess)
  BY <1>1, RowTaken DEF AccountLock
<1>2. CASE ~(acct[req[r].user] = "open" /\ pw[req[r].user] = req[r].seen /\ Live(req[r].sess))
  BY <1>2, EndOfRequest DEF AccountLock
<1> QED
  BY <1>1, <1>2

LEMMA RequestFailsSecure ==
  ASSUME Secure, NEW r \in Request, RequestFails(r) \/ HubRevoke(r)
  PROVE  Secure'
  BY EndOfRequest DEF RequestFails, HubRevoke

-----------------------------------------------------------------------------
(* Commits.                                                                 *)

LEMMA SignupSecure ==
  ASSUME Secure, NEW u \in User, NEW s \in Session, Signup(u, s)
  PROVE  Secure'
<1>1. /\ acct[u] = "none" /\ status[s] = "unused" /\ UNCHANGED <<rpc, req, data, frozen, cause>>
      /\ acct' = [acct EXCEPT ![u] = "open"] /\ pw' = [pw EXCEPT ![u] = 1]
      /\ status' = [status EXCEPT ![s] = "live"] /\ owner' = [owner EXCEPT ![s] = u]
      /\ proof' = [proof EXCEPT ![s] = 1]
  BY DEF Signup, StartSession, reqVars
<1>2. SessionTypes' /\ RequestTypes'
  BY <1>1 DEF Secure, SessionTypes, RequestTypes
<1>3. RequestsNamed'
  BY <1>1 DEF Secure, SessionTypes, RequestsNamed, Named
<1>4. LockedKnows'
  BY <1>1 DEF Secure, SessionTypes, RequestsNamed, Named, LockedKnows, Knows
<1>5. OneHolder'
  BY <1>1 DEF Secure, OneHolder
<1>6. Proven'
  BY <1>1 DEF Secure, SessionTypes, Proven, Live
<1> QED
  BY <1>2, <1>3, <1>4, <1>5, <1>6 DEF Secure

LEMMA LoginInsertSecure ==
  ASSUME Secure, NEW r \in Request, NEW s \in Session, LoginInsert(r, s)
  PROVE  Secure'
<1> DEFINE u == req[r].user
           p == req[r].seen
<1>1. u \in User /\ acct[u] = "open" /\ pw[u] = p /\ p \in Nat
  BY DEF Secure, SessionTypes, RequestsNamed, Named, LockedKnows, Knows, LoginInsert, AboutAccount
<1>2. /\ status[s] = "unused" /\ UNCHANGED <<acct, pw, data, frozen, cause>>
      /\ status' = [status EXCEPT ![s] = "live"] /\ owner' = [owner EXCEPT ![s] = u]
      /\ proof' = [proof EXCEPT ![s] = p]
  BY DEF LoginInsert, StartSession, acctVars
<1>3. /\ RequestTypes' /\ rpc'[r] = "idle" /\ req'[r] = NoReq
      /\ \A q \in Request : q # r => rpc'[q] = rpc[q] /\ req'[q] = req[q]
  BY FinishTyped DEF LoginInsert, Secure
<1> HIDE DEF u, p
<1>4. SessionTypes'
  BY <1>1, <1>2 DEF Secure, SessionTypes
<1>5. RequestsNamed'
  BY <1>2, <1>3, NoReqTyped DEF Secure, SessionTypes, RequestsNamed, Named, AboutAccount
<1>6. LockedKnows'
  BY <1>2, <1>3 DEF Secure, SessionTypes, RequestsNamed, Named, LockedKnows, Knows
<1>7. OneHolder'
  BY <1>3 DEF Secure, OneHolder
<1>8. Proven'
  BY <1>1, <1>2 DEF Secure, SessionTypes, Proven, Live
<1> QED
  BY <1>3, <1>4, <1>5, <1>6, <1>7, <1>8 DEF Secure

\* What the end of some sessions leaves as it was.
LEMMA EndTyped ==
  ASSUME SessionTypes, NEW S, NEW why \in {"request", "other"}, EndSessions(S, why), S \cap {x \in Session : status[x] = "unused"} = {}
  PROVE  /\ status' \in [Session -> {"unused", "live", "expired", "gone"}]
         /\ frozen' \in [Session -> Nat] /\ cause' \in [Session -> {"none", "request", "other"}]
         /\ \A x \in Session : status'[x] = IF x \in S THEN "gone" ELSE status[x]
         /\ \A x \in Session : status'[x] = "unused" <=> status[x] = "unused"
<1>1. frozen' \in [Session -> Nat]
  BY DEF EndSessions, SessionTypes, Live
<1> QED
  BY <1>1 DEF EndSessions, SessionTypes

LEMMA AfterCommitTyped ==
  ASSUME RequestTypes, NEW r \in Request, NEW answered \in BOOLEAN,
         AfterCommit(r, answered) \/ (IF answered THEN At(r, "revoke") /\ UNCHANGED req ELSE Finish(r))
  PROVE  /\ RequestTypes' /\ rpc'[r] # "locked"
         /\ rpc'[r] # "idle" => req'[r] = req[r]
         /\ req'[r] \in {req[r], NoReq}
         /\ \A q \in Request : q # r => rpc'[q] = rpc[q] /\ req'[q] = req[q]
<1>1. CASE At(r, "revoke") /\ UNCHANGED req
  BY <1>1, AtTyped
<1>2. CASE Finish(r)
  BY <1>2, FinishTyped
<1> QED
  BY <1>1, <1>2 DEF AfterCommit

LEMMA ReplaceCommitSecure ==
  ASSUME Secure, NEW r \in Request, NEW answered \in BOOLEAN, ReplaceCommit(r, answered)
  PROVE  Secure'
<1> DEFINE u == req[r].user
           x == req[r].sess
           S == SessionsOf(u) \ {x}
<1>1. /\ rpc[r] = "locked" /\ req[r].kind \in {"change", "reset"} /\ pw' = [pw EXCEPT ![u] = @ + 1]
      /\ UNCHANGED <<acct, owner, data>> /\ EndSessions(S, Why(r, answered)) /\ Why(r, answered) \in {"request", "other"}
      /\ proof' = [s \in Session |-> IF s = x THEN pw'[u] ELSE proof[s]]
  BY DEF ReplaceCommit, Why
<1>2. u \in User /\ acct[u] = "open" /\ (x \in Session => owner[x] = u)
  BY <1>1, SessionAssumption DEF Secure, RequestsNamed, Named, LockedKnows, Knows, AboutAccount
<1>3. /\ RequestTypes' /\ rpc'[r] # "locked" /\ req'[r] \in {req[r], NoReq} /\ (rpc'[r] # "idle" => req'[r] = req[r])
      /\ \A q \in Request : q # r => rpc'[q] = rpc[q] /\ req'[q] = req[q]
  BY AfterCommitTyped DEF Secure, ReplaceCommit
<1>4. S \cap {s \in Session : status[s] = "unused"} = {} /\ \A s \in Session : s \in S <=> owner[s] = u /\ status[s] \in {"live", "expired"} /\ s # x
  BY DEF SessionsOf
<1> HIDE DEF u, x, S
<1>5. /\ status' \in [Session -> {"unused", "live", "expired", "gone"}]
      /\ frozen' \in [Session -> Nat] /\ cause' \in [Session -> {"none", "request", "other"}]
      /\ \A s \in Session : status'[s] = IF s \in S THEN "gone" ELSE status[s]
      /\ \A s \in Session : status'[s] = "unused" <=> status[s] = "unused"
  BY <1>1, <1>4, EndTyped DEF Secure
<1>6. SessionTypes'
  BY <1>1, <1>2, <1>5 DEF Secure, SessionTypes
<1>7. RequestsNamed'
  BY <1>1, <1>3, <1>5, NoReqTyped DEF Secure, RequestsNamed, Named, AboutAccount
<1>8. LockedKnows'
  <2> SUFFICES ASSUME NEW q \in Request, rpc'[q] = "locked" PROVE Knows(q)'
    BY DEF LockedKnows, Knows
  <2>1. q # r /\ rpc[q] = "locked" /\ req'[q] = req[q] /\ req[q].user # u
    BY <1>1, <1>3 DEF Secure, OneHolder, u
  <2>2. req[q].user \in User /\ (req[q].kind \in {"change", "delete"} => req[q].sess \in Session /\ owner[req[q].sess] # u)
    BY <2>1 DEF Secure, RequestsNamed, Named
  <2> QED
    BY <1>1, <1>4, <1>5, <2>1, <2>2 DEF Secure, SessionTypes, LockedKnows, Knows
<1>9. OneHolder'
  BY <1>3 DEF Secure, OneHolder
<1>10. Proven'
  <2> SUFFICES ASSUME NEW s \in Session, status'[s] = "live" PROVE acct'[owner'[s]] = "open" /\ proof'[s] = pw'[owner'[s]]
    BY DEF Proven, Live
  <2>1. s \notin S /\ status[s] = "live" /\ owner[s] \in User
    BY <1>5 DEF Secure, SessionTypes
  <2>2. CASE s = x
    BY <1>1, <1>2, <2>2
  <2>3. CASE s # x
    BY <1>1, <1>4, <2>1, <2>3 DEF Secure, SessionTypes, Proven, Live
  <2> QED
    BY <2>2, <2>3
<1> QED
  BY <1>3, <1>6, <1>7, <1>8, <1>9, <1>10 DEF Secure

LEMMA DeleteCommitSecure ==
  ASSUME Secure, NEW r \in Request, NEW answered \in BOOLEAN, DeleteCommit(r, answered)
  PROVE  Secure'
<1> DEFINE u == req[r].user
           S == SessionsOf(u)
<1>1. /\ rpc[r] = "locked" /\ req[r].kind \in {"delete", "erase"}
      /\ acct' = [acct EXCEPT ![u] = "deleted"] /\ pw' = [pw EXCEPT ![u] = 0]
      /\ UNCHANGED <<owner, proof, data>> /\ EndSessions(S, Why(r, answered)) /\ Why(r, answered) \in {"request", "other"}
  BY DEF DeleteCommit, Why
<1>2. u \in User
  BY <1>1 DEF Secure, RequestsNamed, Named, AboutAccount
<1>3. /\ RequestTypes' /\ rpc'[r] # "locked" /\ req'[r] \in {req[r], NoReq} /\ (rpc'[r] # "idle" => req'[r] = req[r])
      /\ \A q \in Request : q # r => rpc'[q] = rpc[q] /\ req'[q] = req[q]
  BY AfterCommitTyped DEF Secure, DeleteCommit
<1>4. S \cap {s \in Session : status[s] = "unused"} = {} /\ \A s \in Session : s \in S <=> owner[s] = u /\ status[s] \in {"live", "expired"}
  BY DEF SessionsOf
<1> HIDE DEF u, S
<1>5. /\ status' \in [Session -> {"unused", "live", "expired", "gone"}]
      /\ frozen' \in [Session -> Nat] /\ cause' \in [Session -> {"none", "request", "other"}]
      /\ \A s \in Session : status'[s] = IF s \in S THEN "gone" ELSE status[s]
      /\ \A s \in Session : status'[s] = "unused" <=> status[s] = "unused"
  BY <1>1, <1>4, EndTyped DEF Secure
<1>6. SessionTypes'
  BY <1>1, <1>2, <1>5 DEF Secure, SessionTypes
<1>7. RequestsNamed'
  BY <1>1, <1>3, <1>5, NoReqTyped DEF Secure, RequestsNamed, Named, AboutAccount
<1>8. LockedKnows'
  <2> SUFFICES ASSUME NEW q \in Request, rpc'[q] = "locked" PROVE Knows(q)'
    BY DEF LockedKnows, Knows
  <2>1. q # r /\ rpc[q] = "locked" /\ req'[q] = req[q] /\ req[q].user # u
    BY <1>1, <1>3 DEF Secure, OneHolder, u
  <2>2. req[q].user \in User /\ (req[q].kind \in {"change", "delete"} => req[q].sess \in Session /\ owner[req[q].sess] # u)
    BY <2>1 DEF Secure, RequestsNamed, Named
  <2> QED
    BY <1>1, <1>4, <1>5, <2>1, <2>2 DEF Secure, SessionTypes, LockedKnows, Knows
<1>9. OneHolder'
  BY <1>3 DEF Secure, OneHolder
<1>10. Proven'
  BY <1>1, <1>4, <1>5 DEF Secure, SessionTypes, Proven, Live
<1> QED
  BY <1>3, <1>6, <1>7, <1>8, <1>9, <1>10 DEF Secure

LEMMA LogoutDeleteSecure ==
  ASSUME Secure, NEW r \in Request, NEW answered \in BOOLEAN, LogoutDelete(r, answered)
  PROVE  Secure'
<1> DEFINE x == req[r].sess
           why == IF answered THEN "request" ELSE "other"
<1>1. /\ rpc[r] = "barrier" /\ req[r].kind = "logout" /\ ~SessionRowLocked(x)
      /\ UNCHANGED <<acct, pw, owner, proof, data>> /\ EndSessions({x}, why) /\ why \in {"request", "other"}
  BY DEF LogoutDelete, acctVars
<1>2. x \in Session /\ status[x] # "unused"
  BY <1>1 DEF Secure, RequestsNamed, Named
<1>3. /\ RequestTypes' /\ rpc'[r] # "locked" /\ req'[r] \in {req[r], NoReq} /\ (rpc'[r] # "idle" => req'[r] = req[r])
      /\ \A q \in Request : q # r => rpc'[q] = rpc[q] /\ req'[q] = req[q]
  BY AfterCommitTyped DEF Secure, LogoutDelete
<1> HIDE DEF x, why
<1>4. {x} \cap {s \in Session : status[s] = "unused"} = {}
  BY <1>2
<1>5. /\ status' \in [Session -> {"unused", "live", "expired", "gone"}]
      /\ frozen' \in [Session -> Nat] /\ cause' \in [Session -> {"none", "request", "other"}]
      /\ \A s \in Session : status'[s] = IF s \in {x} THEN "gone" ELSE status[s]
      /\ \A s \in Session : status'[s] = "unused" <=> status[s] = "unused"
  BY <1>1, <1>4, EndTyped DEF Secure
<1>6. SessionTypes'
  BY <1>1, <1>5 DEF Secure, SessionTypes
<1>7. RequestsNamed'
  BY <1>1, <1>3, <1>5, NoReqTyped DEF Secure, RequestsNamed, Named, AboutAccount
<1>8. LockedKnows'
  BY <1>1, <1>3, <1>5 DEF Secure, RequestsNamed, Named, LockedKnows, Knows, SessionRowLocked
<1>9. OneHolder'
  BY <1>3 DEF Secure, OneHolder
<1>10. Proven'
  BY <1>1, <1>5 DEF Secure, Proven, Live
<1> QED
  BY <1>3, <1>6, <1>7, <1>8, <1>9, <1>10 DEF Secure

LEMMA ExpireSecure ==
  ASSUME Secure, NEW s \in Session, Expire(s)
  PROVE  Secure'
<1>1. /\ status[s] = "live" /\ status' = [status EXCEPT ![s] = "expired"] /\ owner[s] \in User
      /\ frozen' = [frozen EXCEPT ![s] = data[owner[s]]] /\ cause' = [cause EXCEPT ![s] = "other"]
      /\ UNCHANGED <<acct, pw, owner, proof, rpc, req, data>>
  BY DEF Expire, Live, acctVars, reqVars, Secure, SessionTypes
<1>2. SessionTypes' /\ RequestTypes'
  BY <1>1 DEF Secure, SessionTypes, RequestTypes
<1>3. RequestsNamed' /\ OneHolder'
  BY <1>1 DEF Secure, SessionTypes, RequestsNamed, Named, OneHolder
<1>4. LockedKnows' /\ Proven'
  BY <1>1 DEF Secure, SessionTypes, RequestsNamed, Named, LockedKnows, Knows, Proven, Live
<1> QED
  BY <1>2, <1>3, <1>4 DEF Secure

\* Neither a publication nor a handler of a page touches what is to be secured.
LEMMA Untouched ==
  ASSUME Secure, UNCHANGED <<acctVars, sessVars, reqVars>>,
         data' \in [User -> Nat]
  PROVE  Secure'
<1>1. SessionTypes' /\ RequestTypes' /\ RequestsNamed'
  BY DEF Secure, SessionTypes, RequestTypes, RequestsNamed, Named, acctVars, sessVars, reqVars
<1>2. LockedKnows' /\ OneHolder' /\ Proven'
  BY DEF Secure, LockedKnows, Knows, OneHolder, Proven, Live, acctVars, sessVars, reqVars
<1> QED
  BY <1>1, <1>2 DEF Secure

-----------------------------------------------------------------------------
(* The handlers of pages.                                                   *)

Handled == StreamTypes /\ ViewTypes /\ HandlersNamed

\* What happens to accounts, sessions and requests reaches a handler by the done
\* channel and the wake token only.
LEMMA PagesUntouched ==
  ASSUME Handled, UNCHANGED <<tpc, sid, content, late, viewVars, sent>>,
         closed' \in [Stream -> BOOLEAN], wake' \in [Stream -> BOOLEAN],
         \A s \in Session : status[s] # "unused" => status'[s] # "unused"
  PROVE  Handled'
  BY HandlersKeep DEF Handled, StreamTypes, ViewTypes, viewVars

LEMMA RequestHandled ==
  ASSUME Secure, Handled, NEW r \in Request,
         \/ \E u \in User : LoginVerify(r, u) \/ \E kind \in {"reset", "erase"} : OperatorLock(r, u, kind)
         \/ \E s \in Session : \/ \E kind \in {"change", "delete"} : AccountVerify(r, s, kind)
                               \/ LogoutBarrier(r, s) \/ LoginInsert(r, s)
         \/ AccountBarrier(r) \/ LoginLock(r) \/ AccountLock(r) \/ RequestFails(r) \/ HubRevoke(r)
  PROVE  Handled'
<1>1. UNCHANGED <<tpc, sid, wake, content, late, viewVars, sent>> /\ closed' \in [Stream -> BOOLEAN]
  <2>1. CASE HubRevoke(r)
    BY <2>1 DEF HubRevoke, Handled, StreamTypes
  <2>2. CASE UNCHANGED <<streamVars, viewVars, sent>>
    BY <2>2 DEF Handled, StreamTypes, streamVars
  <2> QED
    BY <2>1, <2>2 DEF LoginVerify, OperatorLock, AccountVerify, LogoutBarrier, LoginInsert,
                      AccountBarrier, LoginLock, AccountLock, RequestFails
<1>2. \A s \in Session : status[s] # "unused" => status'[s] # "unused"
  <2>1. CASE \E s \in Session : LoginInsert(r, s)
    BY <2>1 DEF LoginInsert, StartSession, Secure, SessionTypes
  <2>2. CASE UNCHANGED sessVars
    BY <2>2 DEF sessVars
  <2> QED
    BY <2>1, <2>2 DEF LoginVerify, OperatorLock, AccountVerify, LogoutBarrier,
                      AccountBarrier, LoginLock, AccountLock, RequestFails, HubRevoke
<1> QED
  BY <1>1, <1>2, PagesUntouched DEF Handled, StreamTypes

LEMMA CommitHandled ==
  ASSUME Secure, Handled,
         \/ \E u \in User : Publish(u)
         \/ \E u \in User, s \in Session : Signup(u, s)
         \/ \E r \in Request, answered \in BOOLEAN :
               ReplaceCommit(r, answered) \/ DeleteCommit(r, answered) \/ LogoutDelete(r, answered)
         \/ \E s \in Session : Expire(s)
  PROVE  Handled'
<1>1. UNCHANGED <<tpc, sid, closed, content, late, viewVars, sent>> /\ wake' \in [Stream -> BOOLEAN]
  <2>1. CASE \E u \in User : Publish(u)
    BY <2>1 DEF Publish, Handled, StreamTypes, Registered
  <2>2. CASE UNCHANGED <<streamVars, viewVars, sent>>
    BY <2>2 DEF Handled, StreamTypes, streamVars
  <2> QED
    BY <2>1, <2>2 DEF Signup, ReplaceCommit, DeleteCommit, LogoutDelete, Expire
<1>2. \A s \in Session : status[s] # "unused" => status'[s] # "unused"
  <2>1. CASE \E u \in User, s \in Session : Signup(u, s)
    BY <2>1 DEF Signup, StartSession, Secure, SessionTypes
  <2>2. CASE \E r \in Request, answered \in BOOLEAN :
               ReplaceCommit(r, answered) \/ DeleteCommit(r, answered) \/ LogoutDelete(r, answered)
    BY <2>2 DEF ReplaceCommit, DeleteCommit, LogoutDelete, EndSessions
  <2>3. CASE \E s \in Session : Expire(s)
    BY <2>3 DEF Expire, Secure, SessionTypes
  <2>4. CASE \E u \in User : Publish(u)
    BY <2>4 DEF Publish, sessVars
  <2> QED
    BY <2>1, <2>2, <2>3, <2>4
<1> QED
  BY <1>1, <1>2, PagesUntouched DEF Handled, StreamTypes

LEMMA OffTyped ==
  ASSUME Handled, UNCHANGED <<status, viewVars>>, sent' \in [Session -> Nat], NEW t \in Stream, StreamOff(t)
  PROVE  Handled'
<1>1. StreamTypes' /\ \A x \in Stream : tpc'[x] # "off" => tpc[x] # "off" /\ sid'[x] = sid[x]
  BY DEF Handled, StreamTypes, StreamOff, StreamAt
<1> QED
  BY <1>1 DEF Handled, ViewTypes, HandlersNamed, viewVars

\* A stream that goes on, with its session.
LEMMA OnTyped ==
  ASSUME Handled, UNCHANGED <<status, viewVars, sid, closed>>, NEW t \in Stream, tpc[t] # "off",
         NEW l \in {"subscribed", "check", "done", "write", "loop"}, StreamAt(t, l),
         sent' \in [Session -> Nat], wake' \in [Stream -> BOOLEAN],
         content' \in [Stream -> Nat], late' \in [Stream -> Nat]
  PROVE  Handled'
<1>1. StreamTypes' /\ \A x \in Stream : tpc'[x] # "off" => tpc[x] # "off" /\ sid'[x] = sid[x]
  BY DEF Handled, StreamTypes, StreamAt
<1> QED
  BY <1>1 DEF Handled, ViewTypes, HandlersNamed, viewVars

LEMMA StreamHandled ==
  ASSUME Secure, Handled, NEW t \in Stream,
         StreamStep(t) \/ StreamFails(t) \/ \E s \in Session : StreamAuth(t, s)
  PROVE  Handled'
<1>1. UNCHANGED <<status, viewVars>> /\ sent \in [Session -> Nat] /\ StreamTypes
  BY DEF Handled, ViewTypes, StreamStep, StreamSubscribe, StreamInitialRead, StreamCheck, StreamDone, StreamWrite,
         StreamWake, StreamClosed, StreamHeartbeat, StreamFails, StreamAuth, StreamKeeps, sessVars
<1>2. tpc[t] # "off" => sid[t] \in Session /\ owner[sid[t]] \in User /\ data[owner[sid[t]]] \in Nat
  BY DEF Handled, StreamTypes, HandlersNamed, Secure, SessionTypes
<1>3. CASE StreamOff(t) /\ UNCHANGED sent
  BY <1>1, <1>3, OffTyped
<1>4. CASE StreamSubscribe(t)
  BY <1>1, <1>4, OnTyped DEF StreamSubscribe, StreamTypes
<1>5. CASE StreamInitialRead(t)
  <2>1. content' \in [Stream -> Nat] /\ tpc[t] # "off"
    BY <1>1, <1>2, <1>5 DEF StreamInitialRead, StreamTypes
  <2> QED
    BY <1>1, <1>5, <2>1, OnTyped DEF StreamInitialRead, StreamTypes
<1>6. CASE StreamCheck(t)
  BY <1>1, <1>3, <1>6, OnTyped DEF StreamCheck, StreamTypes
<1>7. CASE StreamDone(t)
  BY <1>1, <1>3, <1>7, OnTyped DEF StreamDone, StreamTypes
<1>8. CASE StreamWrite(t)
  <2>1. late' \in [Stream -> Nat] /\ tpc[t] # "off"
    BY <1>1, <1>8 DEF StreamWrite, StreamTypes
  <2>2. sent' \in [Session -> Nat]
    BY <1>1, <1>8 DEF StreamWrite, StreamTypes
  <2> QED
    BY <1>1, <1>8, <2>1, <2>2, OnTyped DEF StreamWrite, StreamTypes
<1>9. CASE StreamWake(t)
  <2>1. content' \in [Stream -> Nat] /\ wake' \in [Stream -> BOOLEAN] /\ tpc[t] # "off"
    BY <1>1, <1>2, <1>9 DEF StreamWake, StreamTypes
  <2> QED
    BY <1>1, <1>9, <2>1, OnTyped DEF StreamWake, StreamTypes
<1>10. CASE \E s \in Session : StreamAuth(t, s)
  <2> PICK s \in Session : StreamAuth(t, s)
    BY <1>10
  <2>1. /\ StreamTypes' /\ status[s] # "unused" /\ sid'[t] = s
        /\ \A x \in Stream : x # t => tpc'[x] = tpc[x] /\ sid'[x] = sid[x]
    BY <1>1 DEF StreamAuth, StreamAt, StreamTypes, Live
  <2>2. UNCHANGED sent
    BY DEF StreamAuth
  <2> QED
    BY <1>1, <2>1, <2>2 DEF Handled, ViewTypes, HandlersNamed, viewVars
<1> QED
  BY <1>3, <1>4, <1>5, <1>6, <1>7, <1>8, <1>9, <1>10 DEF StreamStep, StreamFails, StreamClosed, StreamHeartbeat

LEMMA ViewHandled ==
  ASSUME Secure, Handled, NEW v \in Viewer,
         ViewLoad(v) \/ ViewCheck(v) \/ ViewWrite(v) \/ ViewFails(v) \/ \E s \in Session : ViewAuth(v, s)
  PROVE  Handled'
<1>1. UNCHANGED <<status, streamVars>> /\ ViewTypes
  BY DEF Handled, ViewLoad, ViewCheck, ViewWrite, ViewFails, ViewAuth, ViewKeeps, sessVars
<1>2. vpc[v] # "off" => vsid[v] \in Session /\ owner[vsid[v]] \in User /\ data[owner[vsid[v]]] \in Nat
  BY DEF Handled, HandlersNamed, Secure, SessionTypes
<1>3. /\ ViewTypes'
      /\ \A x \in Viewer : vpc'[x] # "off" => \/ vpc[x] # "off" /\ vsid'[x] = vsid[x]
                                              \/ vsid'[x] \in Session /\ status[vsid'[x]] # "unused"
  <2>1. CASE ViewOff(v) /\ sent' \in [Session -> Nat]
    BY <1>1, <2>1 DEF ViewTypes, ViewOff
  <2>2. CASE ViewLoad(v)
    BY <1>1, <1>2, <2>2 DEF ViewTypes, ViewLoad
  <2>3. CASE ViewCheck(v)
    BY <1>1, <2>1, <2>3 DEF ViewTypes, ViewCheck
  <2>4. CASE ViewWrite(v)
    BY <1>1, <1>2, <2>1, <2>4 DEF ViewTypes, ViewWrite
  <2>5. CASE ViewFails(v)
    BY <1>1, <2>1, <2>5 DEF ViewTypes, ViewFails
  <2>6. CASE \E s \in Session : ViewAuth(v, s)
    BY <1>1, <2>6 DEF ViewTypes, ViewAuth, Live
  <2> QED
    BY <2>2, <2>3, <2>4, <2>5, <2>6
<1>4. StreamTypes'
  BY <1>1 DEF Handled, StreamTypes, streamVars
<1> QED
  BY <1>1, <1>3, <1>4 DEF Handled, HandlersNamed, streamVars

-----------------------------------------------------------------------------
(* The invariant.                                                           *)

LEMMA Parts == IInv <=> Secure /\ Handled
  BY Types DEF IInv, Secure, Handled

LEMMA InitInv == Init => Secure /\ Handled
<1> SUFFICES ASSUME Init PROVE Secure /\ Handled
  OBVIOUS
<1>1. SessionTypes /\ RequestTypes
  BY NoReqTyped DEF Init, SessionTypes, RequestTypes
<1>2. RequestsNamed /\ LockedKnows /\ OneHolder /\ Proven
  BY NoReqTyped DEF Init, RequestsNamed, Named, LockedKnows, Knows, OneHolder, Proven, Live, AboutAccount
<1>3. StreamTypes /\ ViewTypes /\ HandlersNamed
  BY DEF Init, StreamTypes, ViewTypes, HandlersNamed
<1> QED
  BY <1>1, <1>2, <1>3 DEF Secure, Handled

LEMMA StepInv == Secure /\ Handled /\ [Next]_vars => (Secure /\ Handled)'
<1> SUFFICES ASSUME Secure, Handled, [Next]_vars PROVE Secure' /\ Handled'
  OBVIOUS
<1>1. CASE \E u \in User : Publish(u)
  <2>1. UNCHANGED <<acctVars, sessVars, reqVars>> /\ data' \in [User -> Nat]
    BY <1>1 DEF Publish, Secure, SessionTypes
  <2> QED
    BY <1>1, <2>1, Untouched, CommitHandled
<1>2. CASE \E u \in User, s \in Session : Signup(u, s)
  BY <1>2, SignupSecure, CommitHandled
<1>3. CASE \E r \in Request, u \in User :
             LoginVerify(r, u) \/ \E kind \in {"reset", "erase"} : OperatorLock(r, u, kind)
  BY <1>3, LoginVerifySecure, OperatorLockSecure, RequestHandled
<1>4. CASE \E r \in Request, s \in Session :
             \/ \E kind \in {"change", "delete"} : AccountVerify(r, s, kind)
             \/ LogoutBarrier(r, s) \/ LoginInsert(r, s)
  BY <1>4, AccountVerifySecure, LogoutBarrierSecure, LoginInsertSecure, RequestHandled
<1>5. CASE \E r \in Request : \/ AccountBarrier(r) \/ LoginLock(r) \/ AccountLock(r)
                              \/ RequestFails(r) \/ HubRevoke(r)
  BY <1>5, AccountBarrierSecure, LoginLockSecure, AccountLockSecure, RequestFailsSecure, RequestHandled
<1>6. CASE \E r \in Request, answered \in BOOLEAN :
             ReplaceCommit(r, answered) \/ DeleteCommit(r, answered) \/ LogoutDelete(r, answered)
  BY <1>6, ReplaceCommitSecure, DeleteCommitSecure, LogoutDeleteSecure, CommitHandled
<1>7. CASE \E s \in Session : Expire(s)
  BY <1>7, ExpireSecure, CommitHandled
<1>8. CASE \E t \in Stream : StreamStep(t) \/ StreamFails(t) \/ \E s \in Session : StreamAuth(t, s)
  <2>1. UNCHANGED <<acctVars, sessVars, reqVars, data>>
    BY <1>8 DEF StreamStep, StreamSubscribe, StreamInitialRead, StreamCheck, StreamDone, StreamWrite,
                StreamWake, StreamClosed, StreamHeartbeat, StreamFails, StreamAuth, StreamKeeps
  <2>2. Secure'
    BY <2>1, Untouched DEF Secure, SessionTypes
  <2> QED
    BY <1>8, <2>2, StreamHandled
<1>9. CASE \E v \in Viewer : \/ ViewLoad(v) \/ ViewCheck(v) \/ ViewWrite(v) \/ ViewFails(v)
                             \/ \E s \in Session : ViewAuth(v, s)
  <2>1. UNCHANGED <<acctVars, sessVars, reqVars, data>>
    BY <1>9 DEF ViewLoad, ViewCheck, ViewWrite, ViewFails, ViewAuth, ViewKeeps
  <2>2. Secure'
    BY <2>1, Untouched DEF Secure, SessionTypes
  <2> QED
    BY <1>9, <2>2, ViewHandled
<1>10. CASE UNCHANGED vars
  <2>1. UNCHANGED <<acctVars, sessVars, reqVars, data, tpc, sid, closed, wake, content, late, viewVars, sent>>
    BY <1>10 DEF vars, streamVars
  <2>2. Secure'
    BY <2>1, Untouched DEF Secure, SessionTypes
  <2> QED
    BY <2>1, <2>2, PagesUntouched DEF Handled, StreamTypes, sessVars
<1> QED
  BY <1>1, <1>2, <1>3, <1>4, <1>5, <1>6, <1>7, <1>8, <1>9, <1>10 DEF Next

\* In every reachable state requests that hold an account's row hold it alone and
\* still know what they verified, and every live session rests on the account's
\* present password.
THEOREM SessionInvariant == Spec => []IInv
<1>1. Init => Secure /\ Handled
  BY InitInv
<1>2. (Secure /\ Handled) /\ [Next]_vars => (Secure /\ Handled)'
  BY StepInv
<1>3. Secure /\ Handled => IInv
  BY Parts
<1> QED
  BY <1>1, <1>2, <1>3, PTL DEF Spec

\* No login, signup, password change, operator's reset or deletion, in whatever
\* order they take the account's row (sessions.go:38), leaves a live session
\* whose holder proved a password that is no longer the account's.
THEOREM SessionsProveAlways == Spec => []SessionsProveThePassword
<1>1. IInv => SessionsProveThePassword
  BY DEF IInv, Proven, SessionsProveThePassword
<1> QED
  BY <1>1, SessionInvariant, PTL

\* A password change or a deletion by a request changes only what that request
\* verified, and only while its session is still there
\* (lockPostgresAccountMutation).
THEOREM ChangesVerified == Spec => ChangesWhatWasVerified
<1> DEFINE A == \A r \in Request :
                  /\ req[r].kind \in {"change", "delete"}
                  /\ rpc[r] = "locked"
                  /\ pw'[req[r].user] # pw[req[r].user]
                  => /\ pw[req[r].user] = req[r].seen
                     /\ status[req[r].sess] \in {"live", "expired"}
<1>1. IInv => A
  BY DEF IInv, LockedKnows, Knows
<1>2. IInv /\ [Next]_vars => [A]_vars
  BY <1>1
<1> HIDE DEF A
<1>3. Spec => [][A]_vars
  BY <1>2, SessionInvariant, PTL DEF Spec
<1> QED
  BY <1>3 DEF A, ChangesWhatWasVerified

-----------------------------------------------------------------------------
(* What reaches a browser after its session.  A session's horizon is the      *)
(* newest data it may be sent: the account's while it lives, and what the     *)
(* account had at the end from then on.                                       *)

Over(s) == status[s] \in {"gone", "expired"}
Horizon(s) == IF Live(s) THEN data[owner[s]] ELSE frozen[s]
Fits(s) == /\ status[s] = "unused" => frozen[s] = 0
           /\ status[s] = "expired" => cause[s] # "request"
SentWithin(s) == sent[s] <= Horizon(s)

\* What a stream has in hand is the account's, and within the horizon from its
\* check on; an event was late only if the session is over, and then no check of
\* the stream passes again.
StreamWithin(t) ==
    /\ tpc[t] \in {"check", "done", "write"} => content[t] <= data[owner[sid[t]]]
    /\ tpc[t] \in {"done", "write"} => content[t] <= Horizon(sid[t])
    /\ late[t] <= 1 /\ (late[t] = 1 => tpc[t] \in {"loop", "check"} /\ Over(sid[t]))
ViewWithin(v) ==
    /\ vpc[v] \in {"loaded", "write"} => body[v] <= data[owner[vsid[v]]]
    /\ vpc[v] = "write" => body[v] <= Horizon(vsid[v])

\* A session was ended by a request that answers, and a stream of it that is past
\* the lookup is closed or about to be.
EndedByRequest(s) == status[s] = "gone" /\ cause[s] = "request"
Told(t) == closed[t] \/ \E r \in Request : rpc[r] = "revoke" /\ t \in Revoked(r)
WillHear(t) == tpc[t] \in {"done", "write", "loop"} /\ EndedByRequest(sid[t]) => Told(t)

SessionsFit == \A s \in Session : Fits(s) /\ SentWithin(s)
HandlersWithin == (\A t \in Stream : StreamWithin(t)) /\ \A v \in Viewer : ViewWithin(v)
Bounded == SessionsFit /\ HandlersWithin
Heard == \A t \in Stream : WillHear(t)

\* What a step may do to a session: issue it, end it with the account's data of
\* the time, and otherwise let it grow older with the account.
Ages(s) ==
    /\ status[s] # "unused" => owner'[s] = owner[s] /\ status'[s] # "unused" /\ data[owner[s]] <= data'[owner[s]]
    /\ status[s] = "unused" => status'[s] \in {"unused", "live"} /\ frozen'[s] = frozen[s]
    /\ Over(s) => Over(s)' /\ frozen'[s] = frozen[s]
    /\ Live(s) /\ ~Live(s)' => Over(s)' /\ frozen'[s] = data[owner[s]]
    /\ status'[s] = "expired" => cause'[s] # "request"

LEMMA HorizonRises ==
  ASSUME SessionTypes, SessionTypes', NEW s \in Session, Fits(s), Ages(s)
  PROVE  /\ Fits(s)' /\ Horizon(s) \in Nat /\ Horizon(s)' \in Nat
         /\ Horizon(s) <= Horizon(s)'
<1>1. Horizon(s) \in Nat /\ Horizon(s)' \in Nat
  BY DEF SessionTypes, Horizon, Live
<1>2. CASE status[s] = "unused"
  BY <1>1, <1>2 DEF SessionTypes, Horizon, Live, Fits, Ages
<1>3. CASE Over(s)
  BY <1>1, <1>3 DEF SessionTypes, Horizon, Live, Fits, Ages, Over
<1>4. CASE Live(s)
  <2>1. owner[s] \in User /\ data[owner[s]] \in Nat /\ data'[owner[s]] \in Nat
    BY <1>4 DEF SessionTypes, Live
  <2> QED
    BY <1>1, <1>4, <2>1 DEF Horizon, Live, Fits, Ages, Over
<1> QED
  BY <1>1, <1>2, <1>3, <1>4 DEF SessionTypes, Over, Live

\* What handlers have in hand stays within, whatever happens to sessions.
LEMMA BoundedKeeps ==
  ASSUME Secure, Secure', Handled, Bounded, \A s \in Session : Ages(s),
         UNCHANGED <<tpc, sid, content, late, viewVars, sent>>
  PROVE  Bounded'
<1>1. \A s \in Session : Fits(s)' /\ Horizon(s) \in Nat /\ Horizon(s)' \in Nat /\ Horizon(s) <= Horizon(s)'
  BY HorizonRises DEF Secure, Bounded, SessionsFit
<1>2. SessionsFit'
  BY <1>1 DEF Bounded, SessionsFit, SentWithin, Handled, ViewTypes
<1>3. \A s \in Session : status[s] # "unused" => /\ owner'[s] = owner[s] /\ data[owner[s]] <= data'[owner[s]]
                                                 /\ data[owner[s]] \in Nat /\ data'[owner[s]] \in Nat
                                                 /\ Over(s) => Over(s)'
  BY DEF Ages, Secure, SessionTypes
<1>4. ASSUME NEW t \in Stream PROVE StreamWithin(t)'
  <2>1. CASE tpc[t] = "off"
    BY <2>1 DEF Bounded, HandlersWithin, StreamWithin
  <2>2. CASE tpc[t] # "off"
    <3>1. sid[t] \in Session /\ status[sid[t]] # "unused" /\ content[t] \in Nat
      BY <2>2 DEF Handled, StreamTypes, HandlersNamed
    <3> DEFINE s == sid[t]
    <3>2. s \in Session /\ sid'[t] = s /\ tpc'[t] = tpc[t] /\ content'[t] = content[t] /\ late'[t] = late[t]
      BY <3>1
    <3>3. tpc[t] \in {"check", "done", "write"} => content'[t] <= data'[owner'[s]]
      BY <3>1, <3>2, <1>3 DEF Bounded, HandlersWithin, StreamWithin
    <3>4. tpc[t] \in {"done", "write"} => content'[t] <= Horizon(s)'
      BY <3>1, <3>2, <1>1 DEF Bounded, HandlersWithin, StreamWithin
    <3>5. late[t] <= 1 /\ (late[t] = 1 => tpc[t] \in {"loop", "check"} /\ Over(s)')
      BY <3>1, <3>2, <1>3 DEF Bounded, HandlersWithin, StreamWithin
    <3> QED
      BY <3>2, <3>3, <3>4, <3>5 DEF StreamWithin, Horizon, Live, Over
  <2> QED
    BY <2>1, <2>2
<1>5. ASSUME NEW v \in Viewer PROVE ViewWithin(v)'
  <2>1. CASE vpc[v] = "off"
    BY <2>1 DEF ViewWithin, viewVars
  <2>2. CASE vpc[v] # "off"
    <3>1. vsid[v] \in Session /\ status[vsid[v]] # "unused" /\ body[v] \in Nat
      BY <2>2 DEF Handled, ViewTypes, HandlersNamed
    <3> DEFINE s == vsid[v]
    <3>2. s \in Session /\ vsid'[v] = s /\ vpc'[v] = vpc[v] /\ body'[v] = body[v]
      BY <3>1 DEF viewVars
    <3>3. vpc[v] \in {"loaded", "write"} => body'[v] <= data'[owner'[s]]
      BY <3>1, <3>2, <1>3 DEF Bounded, HandlersWithin, ViewWithin
    <3>4. vpc[v] = "write" => body'[v] <= Horizon(s)'
      BY <3>1, <3>2, <1>1 DEF Bounded, HandlersWithin, ViewWithin
    <3> QED
      BY <3>2, <3>3, <3>4 DEF ViewWithin, Horizon, Live
  <2> QED
    BY <2>1, <2>2
<1> QED
  BY <1>2, <1>4, <1>5 DEF Bounded, HandlersWithin

-----------------------------------------------------------------------------
(* How the steps of accounts age the sessions.                              *)

LEMMA AgesSame ==
  ASSUME SessionTypes, SessionsFit, UNCHANGED <<sessVars, data>>
  PROVE  \A s \in Session : Ages(s)
<1>1. UNCHANGED <<status, owner, frozen, cause, data>>
  BY DEF sessVars
<1> QED
  BY <1>1 DEF SessionTypes, SessionsFit, Fits, Ages, Over, Live

LEMMA AgesPublish ==
  ASSUME SessionTypes, SessionsFit, NEW u \in User, Publish(u)
  PROVE  \A s \in Session : Ages(s)
<1>1. UNCHANGED <<status, owner, frozen, cause>> /\ data' = [data EXCEPT ![u] = @ + 1]
  BY DEF Publish, sessVars
<1>2. \A x \in User : data[x] <= data'[x]
  BY <1>1 DEF SessionTypes
<1> QED
  BY <1>1, <1>2 DEF SessionTypes, SessionsFit, Fits, Ages, Over, Live

LEMMA AgesStart ==
  ASSUME SessionTypes, SessionsFit, NEW x \in Session, NEW u \in User, NEW p, StartSession(x, u, p), UNCHANGED data
  PROVE  \A s \in Session : Ages(s)
<1>1. /\ status[x] = "unused" /\ UNCHANGED <<frozen, cause, data>>
      /\ \A s \in Session : /\ status'[s] = IF s = x THEN "live" ELSE status[s]
                            /\ s # x => owner'[s] = owner[s]
  BY DEF StartSession, SessionTypes
<1>2. \A s \in Session : status[s] # "unused" => data[owner[s]] \in Nat
  BY DEF SessionTypes
<1> QED
  BY <1>1, <1>2 DEF SessionsFit, Fits, Ages, Over, Live

LEMMA AgesEnd ==
  ASSUME SessionTypes, SessionsFit, NEW S, NEW why \in {"request", "other"}, EndSessions(S, why),
         UNCHANGED <<owner, data>>, S \cap {x \in Session : status[x] = "unused"} = {}
  PROVE  \A s \in Session : Ages(s)
<1>1. \A s \in Session : /\ status'[s] = IF s \in S THEN "gone" ELSE status[s]
                         /\ frozen'[s] = IF s \in S /\ Live(s) THEN data[owner[s]] ELSE frozen[s]
                         /\ cause'[s] = IF s \in S /\ Live(s) THEN why ELSE cause[s]
                         /\ s \in S => status[s] # "unused"
                         /\ status[s] # "unused" => data[owner[s]] \in Nat
  BY DEF EndSessions, SessionTypes
<1> QED
  BY <1>1 DEF SessionsFit, Fits, Ages, Over, Live

LEMMA AgesExpire ==
  ASSUME SessionTypes, SessionsFit, NEW x \in Session, Expire(x)
  PROVE  \A s \in Session : Ages(s)
<1>1. \A s \in Session : /\ status'[s] = IF s = x THEN "expired" ELSE status[s]
                         /\ frozen'[s] = IF s = x THEN data[owner[s]] ELSE frozen[s]
                         /\ cause'[s] = IF s = x THEN "other" ELSE cause[s]
                         /\ status[s] # "unused" => data[owner[s]] \in Nat
  BY DEF Expire, SessionTypes
<1>2. UNCHANGED <<owner, data>> /\ Live(x)
  BY DEF Expire
<1> QED
  BY <1>1, <1>2 DEF SessionsFit, Fits, Ages, Over, Live

-----------------------------------------------------------------------------
(* How the news of an end reaches the streams.                              *)

\* The requests that revoke keep at it until the listeners they found are closed.
Insists(r) == rpc[r] = "revoke" => \/ rpc'[r] = "revoke" /\ req'[r] = req[r]
                                   \/ \A t \in Stream : t \in Revoked(r) => closed'[t]
\* A session newly ended by a request that answers has that request revoking.
Announced(s) ==
    EndedByRequest(s)' /\ ~EndedByRequest(s) =>
        \E r \in Request : rpc'[r] = "revoke" /\ \A t \in Stream : Registered(t) /\ sid[t] = s => t \in Revoked(r)'

LEMMA HeardKeeps ==
  ASSUME Heard, Handled, UNCHANGED <<tpc, sid>>, \A t \in Stream : closed[t] => closed'[t],
         \A s \in Session : status[s] # "unused" => owner'[s] = owner[s],
         \A r \in Request : Insists(r), \A s \in Session : Announced(s)
  PROVE  Heard'
<1> SUFFICES ASSUME NEW t \in Stream, tpc[t] \in {"done", "write", "loop"}, EndedByRequest(sid[t])'
             PROVE  Told(t)'
  BY DEF Heard, WillHear
<1>1. sid[t] \in Session /\ status[sid[t]] # "unused" /\ Registered(t)
  BY DEF Handled, StreamTypes, HandlersNamed, Registered
<1>2. CASE EndedByRequest(sid[t])
  <2>1. Told(t)
    BY <1>2 DEF Heard, WillHear
  <2>2. CASE closed[t]
    BY <2>2 DEF Told
  <2>3. CASE \E r \in Request : rpc[r] = "revoke" /\ t \in Revoked(r)
    <3> PICK r \in Request : rpc[r] = "revoke" /\ t \in Revoked(r)
      BY <2>3
    <3>1. CASE rpc'[r] = "revoke" /\ req'[r] = req[r]
      <4>1. owner'[sid[t]] = owner[sid[t]]
        BY <1>1
      <4>2. t \in Revoked(r)'
        BY <3>1, <4>1 DEF Revoked, Registered
      <4> QED
        BY <3>1, <4>2 DEF Told
    <3>2. CASE \A x \in Stream : x \in Revoked(r) => closed'[x]
      BY <3>2 DEF Told
    <3> QED
      BY <3>1, <3>2 DEF Insists
  <2> QED
    BY <2>1, <2>2, <2>3 DEF Told
<1>3. CASE ~EndedByRequest(sid[t])
  <2>1. PICK r \in Request : rpc'[r] = "revoke" /\ t \in Revoked(r)'
    BY <1>1, <1>3 DEF Announced, EndedByRequest
  <2> QED
    BY <2>1 DEF Told
<1> QED
  BY <1>2, <1>3

-----------------------------------------------------------------------------
(* The steps of requests.                                                   *)

\* A request that commits nothing and has nothing to revoke.
QuietStep(r) ==
    \/ \E u \in User : LoginVerify(r, u) \/ \E kind \in {"reset", "erase"} : OperatorLock(r, u, kind)
    \/ \E s \in Session : \/ \E kind \in {"change", "delete"} : AccountVerify(r, s, kind)
                          \/ LogoutBarrier(r, s)
    \/ AccountBarrier(r) \/ LoginLock(r) \/ AccountLock(r) \/ RequestFails(r)

LEMMA QuietLeaves ==
  ASSUME RequestTypes, NEW r \in Request, QuietStep(r)
  PROVE  /\ rpc[r] # "revoke" /\ UNCHANGED <<sessVars, data, streamVars, viewVars, sent>>
         /\ \A q \in Request : q # r => rpc'[q] = rpc[q] /\ req'[q] = req[q]
<1>1. rpc[r] # "revoke" /\ UNCHANGED <<sessVars, data, streamVars, viewVars, sent>>
  BY DEF QuietStep, LoginVerify, OperatorLock, AccountVerify, LogoutBarrier, AccountBarrier,
         LoginLock, AccountLock, RequestFails
<1>2. \/ \E l : At(r, l) /\ (UNCHANGED req \/ \E q0 : req' = [req EXCEPT ![r] = q0])
      \/ Finish(r)
  BY DEF QuietStep, LoginVerify, OperatorLock, AccountVerify, LogoutBarrier, AccountBarrier,
         LoginLock, AccountLock, RequestFails
<1>3. \A q \in Request : q # r => rpc'[q] = rpc[q] /\ req'[q] = req[q]
  BY <1>2 DEF At, Finish, RequestTypes
<1> QED
  BY <1>1, <1>3

LEMMA QuietTold ==
  ASSUME Secure, Secure', Handled, Bounded, Heard, NEW r \in Request, QuietStep(r)
  PROVE  Bounded' /\ Heard'
<1>1. /\ rpc[r] # "revoke" /\ UNCHANGED <<status, owner, cause, tpc, sid, closed, content, late>>
      /\ UNCHANGED <<sessVars, data, viewVars, sent>>
      /\ \A q \in Request : q # r => rpc'[q] = rpc[q] /\ req'[q] = req[q]
  BY QuietLeaves DEF Secure, sessVars, streamVars
<1>2. Bounded'
  <2>1. \A s \in Session : Ages(s)
    BY <1>1, AgesSame DEF Secure, Bounded
  <2> QED
    BY <1>1, <2>1, BoundedKeeps
<1>3. Heard'
  <2>1. (\A q \in Request : Insists(q)) /\ \A s \in Session : Announced(s)
    BY <1>1 DEF Insists, Announced, EndedByRequest
  <2> QED
    BY <1>1, <2>1, HeardKeeps
<1> QED
  BY <1>2, <1>3

LEMMA RevokeTold ==
  ASSUME Secure, Secure', Handled, Bounded, Heard, NEW r \in Request, HubRevoke(r)
  PROVE  Bounded' /\ Heard'
<1>1. /\ UNCHANGED <<status, owner, cause, tpc, sid, content, late>>
      /\ UNCHANGED <<sessVars, data, viewVars, sent>>
      /\ \A q \in Request : q # r => rpc'[q] = rpc[q] /\ req'[q] = req[q]
      /\ \A t \in Stream : closed'[t] <=> closed[t] \/ t \in Revoked(r)
  <2>1. \A q \in Request : q # r => rpc'[q] = rpc[q] /\ req'[q] = req[q]
    BY DEF HubRevoke, Finish, Secure, RequestTypes
  <2> QED
    BY <2>1 DEF HubRevoke, sessVars
<1>2. Bounded'
  <2>1. \A s \in Session : Ages(s)
    BY <1>1, AgesSame DEF Secure, Bounded
  <2> QED
    BY <1>1, <2>1, BoundedKeeps
<1>3. Heard'
  <2>1. (\A q \in Request : Insists(q)) /\ \A s \in Session : Announced(s)
    BY <1>1 DEF Insists, Announced, EndedByRequest
  <2> QED
    BY <1>1, <2>1, HeardKeeps
<1> QED
  BY <1>2, <1>3

\* A session is issued: by a signup, or by a login that is through.
LEMMA StartTold ==
  ASSUME Secure, Secure', Handled, Bounded, Heard, NEW x \in Session, NEW u \in User, NEW p, StartSession(x, u, p),
         UNCHANGED <<data, streamVars, viewVars, sent>>,
         \A q \in Request : rpc[q] = "revoke" => rpc'[q] = rpc[q] /\ req'[q] = req[q]
  PROVE  Bounded' /\ Heard'
<1>1. UNCHANGED <<tpc, sid, closed, content, late>>
  BY DEF streamVars
<1>2. \A s \in Session : Ages(s)
  BY AgesStart DEF Secure, Bounded
<1>3. Bounded'
  BY <1>1, <1>2, BoundedKeeps
<1>4. Heard'
  <2>1. \A q \in Request : Insists(q)
    BY DEF Insists
  <2>2. \A s \in Session : Announced(s)
    BY DEF Announced, EndedByRequest, StartSession, Secure, SessionTypes
  <2>3. \A s \in Session : status[s] # "unused" => owner'[s] = owner[s]
    BY <1>2 DEF Ages
  <2> QED
    BY <1>1, <2>1, <2>2, <2>3, HeardKeeps
<1> QED
  BY <1>3, <1>4

\* Sessions S end at request r's commit, which revokes next if it answered.
LEMMA EndTold ==
  ASSUME Secure, Secure', Handled, Bounded, Heard, NEW r \in Request, NEW S \in SUBSET Session,
         NEW why \in {"request", "other"}, EndSessions(S, why),
         UNCHANGED <<owner, data, streamVars, viewVars, sent>>, S \cap {x \in Session : status[x] = "unused"} = {},
         rpc[r] # "revoke", \A q \in Request : q # r => rpc'[q] = rpc[q] /\ req'[q] = req[q],
         why = "request" => /\ rpc'[r] = "revoke" /\ req'[r] = req[r]
                            /\ \A t \in Stream : Registered(t) /\ sid[t] \in S => t \in Revoked(r)
  PROVE  Bounded' /\ Heard'
<1>1. UNCHANGED <<tpc, sid, closed, content, late>>
  BY DEF streamVars
<1>2. \A s \in Session : Ages(s)
  BY AgesEnd DEF Secure, Bounded
<1>3. Bounded'
  BY <1>1, <1>2, BoundedKeeps
<1>4. Heard'
  <2>1. \A q \in Request : Insists(q)
    BY DEF Insists
  <2>2. ASSUME NEW s \in Session, EndedByRequest(s)', ~EndedByRequest(s)
        PROVE  s \in S /\ why = "request"
    <3>1. /\ status'[s] = IF s \in S THEN "gone" ELSE status[s]
          /\ cause'[s] = IF s \in S /\ Live(s) THEN why ELSE cause[s]
          /\ s \in S => status[s] \in {"live", "expired", "gone"}
          /\ status[s] = "expired" => cause[s] # "request"
      BY DEF EndSessions, Secure, SessionTypes, Bounded, SessionsFit, Fits
    <3> QED
      BY <2>2, <3>1 DEF EndedByRequest, Live
  <2>3. why = "request" => \A t \in Stream : Registered(t) /\ sid[t] \in S => t \in Revoked(r)'
    BY <1>1 DEF Revoked, Registered
  <2>4. \A s \in Session : Announced(s)
    BY <2>2, <2>3 DEF Announced
  <2> QED
    BY <1>1, <2>1, <2>4, HeardKeeps
<1> QED
  BY <1>3, <1>4

LEMMA CommitTold ==
  ASSUME Secure, Secure', Handled, Bounded, Heard, NEW r \in Request, NEW answered \in BOOLEAN,
         ReplaceCommit(r, answered) \/ DeleteCommit(r, answered) \/ LogoutDelete(r, answered)
  PROVE  Bounded' /\ Heard'
<1>1. /\ RequestTypes /\ Named(r) /\ rpc[r] # "revoke" /\ UNCHANGED <<owner, data, streamVars, viewVars, sent>>
      /\ AfterCommit(r, answered) \/ (IF answered THEN At(r, "revoke") /\ UNCHANGED req ELSE Finish(r))
  BY DEF Secure, RequestsNamed, ReplaceCommit, DeleteCommit, LogoutDelete
<1>2. \A q \in Request : q # r => rpc'[q] = rpc[q] /\ req'[q] = req[q]
  BY <1>1, AfterCommitTyped
<1>3. Why(r, answered) \in {"request", "other"}
  BY DEF Why
<1>4. CASE ReplaceCommit(r, answered)
  <2> DEFINE S == SessionsOf(req[r].user) \ {req[r].sess}
  <2>1. /\ S \in SUBSET Session /\ S \cap {x \in Session : status[x] = "unused"} = {}
        /\ \A s \in S : owner[s] = req[r].user /\ s # req[r].sess
    BY DEF SessionsOf
  <2>2. EndSessions(S, Why(r, answered)) /\ req[r].kind # "logout"
    BY <1>4 DEF ReplaceCommit
  <2>3. \A t \in Stream : Registered(t) /\ sid[t] \in S => t \in Revoked(r)
    BY <2>1, <2>2 DEF Revoked
  <2>4. Why(r, answered) = "request" => rpc'[r] = "revoke" /\ req'[r] = req[r]
    BY <1>1, <1>4 DEF Why, AfterCommit, At, ReplaceCommit, RequestTypes
  <2> HIDE DEF S
  <2> QED
    BY <1>1, <1>2, <1>3, <2>1, <2>2, <2>3, <2>4, EndTold
<1>5. CASE DeleteCommit(r, answered)
  <2> DEFINE S == SessionsOf(req[r].user)
  <2>1. /\ S \in SUBSET Session /\ S \cap {x \in Session : status[x] = "unused"} = {}
        /\ \A s \in S : owner[s] = req[r].user
    BY DEF SessionsOf
  <2>2. EndSessions(S, Why(r, answered)) /\ req[r].kind \in {"delete", "erase"}
    BY <1>5 DEF DeleteCommit
  <2>3. Why(r, answered) = "request" => \A t \in Stream : Registered(t) /\ sid[t] \in S => t \in Revoked(r)
    BY <2>1, <2>2 DEF Revoked, Why
  <2>4. Why(r, answered) = "request" => rpc'[r] = "revoke" /\ req'[r] = req[r]
    BY <1>1, <1>5 DEF Why, AfterCommit, At, DeleteCommit, RequestTypes
  <2> HIDE DEF S
  <2> QED
    BY <1>1, <1>2, <1>3, <2>1, <2>2, <2>3, <2>4, EndTold
<1>6. CASE LogoutDelete(r, answered)
  <2> DEFINE S == {req[r].sess}
             why == IF answered THEN "request" ELSE "other"
  <2>1. S \in SUBSET Session /\ S \cap {x \in Session : status[x] = "unused"} = {}
    BY <1>1, <1>6 DEF Named, LogoutDelete
  <2>2. EndSessions(S, why) /\ req[r].kind = "logout" /\ why \in {"request", "other"}
    BY <1>6 DEF LogoutDelete
  <2>3. \A t \in Stream : Registered(t) /\ sid[t] \in S => t \in Revoked(r)
    BY <2>2 DEF Revoked
  <2>4. why = "request" => rpc'[r] = "revoke" /\ req'[r] = req[r]
    BY <1>1, <1>6 DEF At, LogoutDelete, RequestTypes
  <2> HIDE DEF S, why
  <2> QED
    BY <1>1, <1>2, <2>1, <2>2, <2>3, <2>4, EndTold
<1> QED
  BY <1>4, <1>5, <1>6

LEMMA PublishTold ==
  ASSUME Secure, Secure', Handled, Bounded, Heard, NEW u \in User, Publish(u)
  PROVE  Bounded' /\ Heard'
<1>1. UNCHANGED <<rpc, req, status, owner, cause, tpc, sid, closed, content, late, viewVars, sent>>
  BY DEF Publish, reqVars, sessVars
<1>2. \A s \in Session : Ages(s)
  BY AgesPublish DEF Secure, Bounded
<1>3. (\A q \in Request : Insists(q)) /\ \A s \in Session : Announced(s)
  BY <1>1 DEF Insists, Announced, EndedByRequest
<1> QED
  BY <1>1, <1>2, <1>3, BoundedKeeps, HeardKeeps

LEMMA ExpireTold ==
  ASSUME Secure, Secure', Handled, Bounded, Heard, NEW x \in Session, Expire(x)
  PROVE  Bounded' /\ Heard'
<1>1. UNCHANGED <<rpc, req, owner, tpc, sid, closed, content, late, viewVars, sent>>
  BY DEF Expire, reqVars, streamVars
<1>2. \A s \in Session : Ages(s)
  BY AgesExpire DEF Secure, Bounded
<1>3. (\A q \in Request : Insists(q)) /\ \A s \in Session : Announced(s)
  BY <1>1 DEF Insists, Announced, EndedByRequest, Expire, Secure, SessionTypes
<1> QED
  BY <1>1, <1>2, <1>3, BoundedKeeps, HeardKeeps

LEMMA AccountTold ==
  ASSUME Secure, Secure', Handled, Bounded, Heard,
         \/ \E u \in User, s \in Session : Signup(u, s)
         \/ \E r \in Request, s \in Session : LoginInsert(r, s)
  PROVE  Bounded' /\ Heard'
<1>1. CASE \E u \in User, s \in Session : Signup(u, s)
  <2> PICK u \in User, s \in Session : Signup(u, s)
    BY <1>1
  <2>1. /\ StartSession(s, u, 1) /\ UNCHANGED <<data, streamVars, viewVars, sent>>
        /\ \A q \in Request : rpc[q] = "revoke" => rpc'[q] = rpc[q] /\ req'[q] = req[q]
    BY DEF Signup, reqVars
  <2> QED
    BY <2>1, StartTold
<1>2. CASE \E r \in Request, s \in Session : LoginInsert(r, s)
  <2> PICK r \in Request, s \in Session : LoginInsert(r, s)
    BY <1>2
  <2>1. req[r].user \in User
    BY DEF LoginInsert, Secure, RequestsNamed, Named, AboutAccount
  <2>2. StartSession(s, req[r].user, req[r].seen) /\ UNCHANGED <<data, streamVars, viewVars, sent>>
    BY DEF LoginInsert
  <2>3. \A q \in Request : rpc[q] = "revoke" => rpc'[q] = rpc[q] /\ req'[q] = req[q]
    BY FinishTyped DEF LoginInsert, Secure
  <2> QED
    BY <2>1, <2>2, <2>3, StartTold
<1> QED
  BY <1>1, <1>2

-----------------------------------------------------------------------------
(* The steps of streams and views.                                          *)

\* Sessions, accounts and requests are as they were, and so is every other stream.
Alone(t) ==
    /\ UNCHANGED <<status, owner, frozen, cause, data, rpc, req, viewVars>>
    /\ \A x \in Stream : x # t => /\ tpc'[x] = tpc[x] /\ sid'[x] = sid[x] /\ closed'[x] = closed[x]
                                  /\ content'[x] = content[x] /\ late'[x] = late[x]

LEMMA StreamTold ==
  ASSUME Bounded, Heard, NEW t \in Stream, Alone(t), StreamWithin(t)', WillHear(t)',
         \A s \in Session : SentWithin(s)'
  PROVE  Bounded' /\ Heard'
<1>1. SessionsFit'
  BY DEF Bounded, SessionsFit, Fits, Alone
<1>2. ASSUME NEW x \in Stream, x # t PROVE StreamWithin(x)' /\ WillHear(x)'
  <2>1. StreamWithin(x) /\ WillHear(x)
    BY DEF Bounded, HandlersWithin, Heard
  <2>2. StreamWithin(x)'
    BY <1>2, <2>1 DEF StreamWithin, Horizon, Live, Over, Alone
  <2>3. \A r \in Request : x \in Revoked(r) => x \in Revoked(r)'
    BY <1>2 DEF Revoked, Registered, Alone
  <2>4. WillHear(x)'
    BY <1>2, <2>1, <2>3 DEF WillHear, EndedByRequest, Told, Alone
  <2> QED
    BY <2>2, <2>4
<1>3. \A v \in Viewer : ViewWithin(v)'
  BY DEF Bounded, HandlersWithin, ViewWithin, Horizon, Live, Alone, viewVars
<1> QED
  BY <1>1, <1>2, <1>3 DEF Bounded, HandlersWithin, Heard

LEMMA SentSame ==
  ASSUME Bounded, UNCHANGED <<status, owner, frozen, data, sent>>
  PROVE  \A s \in Session : SentWithin(s)'
  BY DEF Bounded, SessionsFit, SentWithin, Horizon, Live

LEMMA OffTold ==
  ASSUME Handled, Bounded, Heard, NEW t \in Stream, StreamOff(t), UNCHANGED <<sessVars, reqVars, data, viewVars, sent>>
  PROVE  Bounded' /\ Heard'
<1>1. Alone(t) /\ tpc'[t] = "off" /\ late'[t] = 0
  BY DEF Alone, Handled, StreamTypes, StreamOff, StreamAt, sessVars, reqVars
<1>2. StreamWithin(t)' /\ WillHear(t)'
  BY <1>1 DEF StreamWithin, WillHear
<1>3. \A s \in Session : SentWithin(s)'
  BY SentSame DEF sessVars
<1> QED
  BY <1>1, <1>2, <1>3, StreamTold

\* A stream that goes on, with its session: what it has, and what it will hear.
LEMMA OnTold ==
  ASSUME Handled, Bounded, Heard, NEW t \in Stream, UNCHANGED <<sessVars, reqVars, data, viewVars, sid, closed>>,
         NEW l \in {"subscribed", "check", "done", "write", "loop"}, StreamAt(t, l),
         \A x \in Stream : x # t => content'[x] = content[x] /\ late'[x] = late[x],
         StreamWithin(t)', \A s \in Session : SentWithin(s)',
         l \in {"done", "write", "loop"} => Live(sid[t]) \/ tpc[t] \in {"done", "write"}
  PROVE  Bounded' /\ Heard'
<1>1. Alone(t) /\ tpc'[t] = l /\ sid'[t] = sid[t] /\ closed'[t] = closed[t]
  BY DEF Alone, Handled, StreamTypes, StreamAt, sessVars, reqVars
<1>2. WillHear(t)'
  <2> SUFFICES ASSUME l \in {"done", "write", "loop"}, EndedByRequest(sid[t]) PROVE Told(t)'
    BY <1>1 DEF WillHear, EndedByRequest, Alone
  <2>1. tpc[t] \in {"done", "write"}
    BY DEF EndedByRequest, Live
  <2>2. Told(t)
    BY <2>1 DEF Heard, WillHear
  <2>3. \A r \in Request : t \in Revoked(r) => t \in Revoked(r)'
    BY <1>1, <2>1 DEF Revoked, Registered, Alone
  <2> QED
    BY <1>1, <2>2, <2>3 DEF Told, Alone
<1> QED
  BY <1>1, <1>2, StreamTold

LEMMA StreamStepTold ==
  ASSUME Secure, Handled, Bounded, Heard, NEW t \in Stream,
         StreamStep(t) \/ StreamFails(t) \/ \E s \in Session : StreamAuth(t, s)
  PROVE  Bounded' /\ Heard'
<1>1. UNCHANGED <<sessVars, reqVars, data, viewVars>> /\ UNCHANGED <<status, owner, frozen, cause>>
  BY DEF StreamStep, StreamSubscribe, StreamInitialRead, StreamCheck, StreamDone, StreamWrite,
         StreamWake, StreamClosed, StreamHeartbeat, StreamFails, StreamAuth, StreamKeeps, sessVars
<1>2. tpc[t] # "off" => /\ sid[t] \in Session /\ status[sid[t]] \in {"live", "expired", "gone"}
                        /\ data[owner[sid[t]]] \in Nat
  BY DEF Handled, StreamTypes, HandlersNamed, Secure, SessionTypes
<1>3. /\ StreamWithin(t) /\ content[t] \in Nat /\ late[t] \in {0, 1}
      /\ UNCHANGED sent => \A s \in Session : SentWithin(s)'
  BY <1>1, SentSame DEF Bounded, HandlersWithin, StreamWithin, Handled, StreamTypes
<1>4. CASE StreamOff(t) /\ UNCHANGED sent
  BY <1>1, <1>4, OffTold
<1>5. CASE StreamSubscribe(t)
  <2>1. tpc'[t] = "subscribed" /\ UNCHANGED <<sid, closed, content, late, sent>> /\ late[t] = 0
    BY <1>3, <1>5 DEF StreamSubscribe, StreamAt, StreamWithin, Handled, StreamTypes
  <2>2. StreamWithin(t)'
    BY <2>1 DEF StreamWithin
  <2> QED
    BY <1>1, <1>3, <1>5, <2>1, <2>2, OnTold DEF StreamSubscribe
<1>6. CASE StreamInitialRead(t)
  <2>1. /\ tpc'[t] = "check" /\ UNCHANGED <<sid, closed, late, sent>> /\ late[t] = 0 /\ content'[t] = data[owner[sid[t]]]
        /\ \A x \in Stream : x # t => content'[x] = content[x]
    BY <1>3, <1>6 DEF StreamInitialRead, StreamAt, StreamWithin, Handled, StreamTypes
  <2>2. StreamWithin(t)'
    BY <1>1, <1>2, <1>6, <2>1 DEF StreamWithin, StreamInitialRead
  <2> QED
    BY <1>1, <1>3, <1>6, <2>1, <2>2, OnTold DEF StreamInitialRead
<1>7. CASE StreamCheck(t) /\ Live(sid[t])
  <2>1. tpc'[t] = "done" /\ StreamAt(t, "done") /\ tpc[t] = "check" /\ UNCHANGED <<sid, closed, content, late, sent>>
    BY <1>7 DEF StreamCheck, StreamAt, Handled, StreamTypes
  <2>2. late[t] = 0
    BY <1>3, <1>7 DEF StreamWithin, Over, Live
  <2>3. StreamWithin(t)'
    BY <1>1, <1>3, <1>7, <2>1, <2>2 DEF StreamWithin, Horizon, Live
  <2> QED
    BY <1>1, <1>3, <1>7, <2>1, <2>3, OnTold
<1>8. CASE StreamDone(t) /\ ~closed[t]
  <2>1. tpc'[t] = "write" /\ StreamAt(t, "write") /\ tpc[t] = "done" /\ UNCHANGED <<sid, closed, content, late, sent>>
    BY <1>8 DEF StreamDone, StreamAt, Handled, StreamTypes
  <2>2. StreamWithin(t)'
    BY <1>1, <1>3, <2>1 DEF StreamWithin, Horizon, Live
  <2> QED
    BY <1>1, <1>3, <2>1, <2>2, OnTold
<1>9. CASE StreamWrite(t)
  <2>1. /\ tpc'[t] = "loop" /\ StreamAt(t, "loop") /\ tpc[t] = "write" /\ UNCHANGED <<sid, closed, content>>
        /\ late'[t] = IF Live(sid[t]) THEN late[t] ELSE late[t] + 1
        /\ \A x \in Stream : x # t => late'[x] = late[x]
    BY <1>9 DEF StreamWrite, StreamAt, Handled, StreamTypes
  <2>2. late[t] = 0
    BY <1>3, <2>1 DEF StreamWithin
  <2>3. StreamWithin(t)'
    BY <1>1, <1>2, <2>1, <2>2 DEF StreamWithin, Over, Live
  <2>4. \A s \in Session : SentWithin(s)'
    <3>1. \A s \in Session : sent'[s] = IF s = sid[t] /\ content[t] > sent[s] THEN content[t] ELSE sent[s]
      BY <1>9, <1>2, <2>1 DEF StreamWrite, Handled, ViewTypes
    <3>2. \A s \in Session : sent[s] <= Horizon(s)
      BY DEF Bounded, SessionsFit, SentWithin
    <3>3. content[t] <= Horizon(sid[t])
      BY <1>3, <2>1 DEF StreamWithin
    <3>4. \A s \in Session : Horizon(s)' = Horizon(s)
      BY <1>1 DEF Horizon, Live
    <3> QED
      BY <3>1, <3>2, <3>3, <3>4 DEF SentWithin
  <2> QED
    BY <1>1, <2>1, <2>3, <2>4, OnTold
<1>10. CASE StreamWake(t)
  <2>1. /\ tpc'[t] = "check" /\ StreamAt(t, "check") /\ tpc[t] = "loop" /\ UNCHANGED <<sid, closed, late, sent>>
        /\ content'[t] = data[owner[sid[t]]]
        /\ \A x \in Stream : x # t => content'[x] = content[x]
    BY <1>10 DEF StreamWake, StreamAt, Handled, StreamTypes
  <2>2. StreamWithin(t)'
    BY <1>1, <1>2, <1>3, <2>1 DEF StreamWithin, Over
  <2> QED
    BY <1>1, <1>3, <2>1, <2>2, OnTold
<1>11. CASE \E s \in Session : StreamAuth(t, s)
  <2>1. Alone(t) /\ tpc'[t] = "authed" /\ late'[t] = 0 /\ UNCHANGED sent
    BY <1>1, <1>3, <1>11 DEF StreamAuth, StreamAt, StreamWithin, Handled, StreamTypes, Alone, reqVars
  <2>2. StreamWithin(t)' /\ WillHear(t)'
    BY <2>1 DEF StreamWithin, WillHear
  <2> QED
    BY <1>3, <2>1, <2>2, StreamTold
<1> QED
  BY <1>4, <1>5, <1>6, <1>7, <1>8, <1>9, <1>10, <1>11
  DEF StreamStep, StreamFails, StreamCheck, StreamDone, StreamClosed, StreamHeartbeat

LEMMA ViewStepTold ==
  ASSUME Secure, Handled, Bounded, Heard, NEW v \in Viewer,
         ViewLoad(v) \/ ViewCheck(v) \/ ViewWrite(v) \/ ViewFails(v) \/ \E s \in Session : ViewAuth(v, s)
  PROVE  Bounded' /\ Heard'
<1>1. UNCHANGED <<status, owner, frozen, cause, data, rpc, req, tpc, sid, closed, content, late>>
  BY DEF ViewLoad, ViewCheck, ViewWrite, ViewFails, ViewAuth, ViewKeeps, sessVars, reqVars, streamVars
<1>2. vpc[v] # "off" => vsid[v] \in Session /\ data[owner[vsid[v]]] \in Nat
  BY DEF Handled, HandlersNamed, Secure, SessionTypes
<1>3. Heard'
  BY <1>1 DEF Heard, WillHear, EndedByRequest, Told, Revoked, Registered
<1>4. \A t \in Stream : StreamWithin(t)'
  BY <1>1 DEF Bounded, HandlersWithin, StreamWithin, Horizon, Live, Over
<1>5. \A x \in Viewer : x # v => vpc'[x] = vpc[x] /\ vsid'[x] = vsid[x] /\ body'[x] = body[x]
  BY DEF ViewLoad, ViewCheck, ViewWrite, ViewFails, ViewAuth, ViewOff, Handled, ViewTypes
<1>6. ViewWithin(v)'
  <2>1. CASE ViewOff(v)
    BY <2>1 DEF ViewOff, ViewWithin, Handled, ViewTypes
  <2>2. CASE ViewLoad(v)
    BY <1>1, <1>2, <2>2 DEF ViewLoad, ViewWithin, Handled, ViewTypes
  <2>3. CASE ViewCheck(v) /\ Live(vsid[v])
    <3>1. vpc[v] = "loaded" /\ UNCHANGED <<vsid, body>>
      BY <2>3 DEF ViewCheck
    <3> QED
      BY <1>1, <2>3, <3>1 DEF Bounded, HandlersWithin, ViewWithin, Horizon, Live
  <2>4. CASE \E s \in Session : ViewAuth(v, s)
    BY <2>4 DEF ViewAuth, ViewWithin, Handled, ViewTypes
  <2> QED
    BY <2>1, <2>2, <2>3, <2>4 DEF ViewCheck, ViewWrite, ViewFails
<1>7. \A x \in Viewer : ViewWithin(x)'
  BY <1>1, <1>5, <1>6 DEF Bounded, HandlersWithin, ViewWithin, Horizon, Live
<1>8. SessionsFit'
  <2>1. CASE UNCHANGED sent
    BY <1>1, <2>1, SentSame DEF Bounded, SessionsFit, Fits
  <2>2. CASE ViewWrite(v)
    <3>1. \A s \in Session : sent'[s] = IF s = vsid[v] /\ body[v] > sent[s] THEN body[v] ELSE sent[s]
      BY <1>2, <2>2 DEF ViewWrite, Handled, ViewTypes
    <3>2. body[v] <= Horizon(vsid[v])
      BY <2>2 DEF ViewWrite, Bounded, HandlersWithin, ViewWithin
    <3>3. \A s \in Session : Horizon(s)' = Horizon(s) /\ sent[s] <= Horizon(s) /\ Fits(s)'
      BY <1>1 DEF Bounded, SessionsFit, SentWithin, Fits, Horizon, Live
    <3> QED
      BY <3>1, <3>2, <3>3 DEF SessionsFit, SentWithin
  <2> QED
    BY <2>1, <2>2 DEF ViewLoad, ViewCheck, ViewFails, ViewAuth
<1> QED
  BY <1>3, <1>4, <1>7, <1>8 DEF Bounded, HandlersWithin

-----------------------------------------------------------------------------
LEMMA InitTold == Init => Bounded /\ Heard
<1> SUFFICES ASSUME Init PROVE Bounded /\ Heard
  OBVIOUS
<1>1. SessionsFit
  BY DEF Init, SessionsFit, Fits, SentWithin, Horizon, Live
<1>2. HandlersWithin
  BY DEF Init, HandlersWithin, StreamWithin, ViewWithin
<1>3. Heard
  BY DEF Init, Heard, WillHear
<1> QED
  BY <1>1, <1>2, <1>3 DEF Bounded

LEMMA StepTold ==
  ASSUME Secure, Handled, Secure', Bounded, Heard, [Next]_vars
  PROVE  Bounded' /\ Heard'
<1>1. CASE \E r \in Request : QuietStep(r) \/ HubRevoke(r)
  BY <1>1, QuietTold, RevokeTold
<1>2. CASE (\E u \in User, s \in Session : Signup(u, s)) \/ \E r \in Request, s \in Session : LoginInsert(r, s)
  BY <1>2, AccountTold
<1>3. CASE \E r \in Request, answered \in BOOLEAN :
             ReplaceCommit(r, answered) \/ DeleteCommit(r, answered) \/ LogoutDelete(r, answered)
  BY <1>3, CommitTold
<1>4. CASE (\E u \in User : Publish(u)) \/ \E s \in Session : Expire(s)
  BY <1>4, PublishTold, ExpireTold
<1>5. CASE \E t \in Stream : StreamStep(t) \/ StreamFails(t) \/ \E s \in Session : StreamAuth(t, s)
  BY <1>5, StreamStepTold
<1>6. CASE \E v \in Viewer : \/ ViewLoad(v) \/ ViewCheck(v) \/ ViewWrite(v) \/ ViewFails(v)
                             \/ \E s \in Session : ViewAuth(v, s)
  BY <1>6, ViewStepTold
<1>7. CASE UNCHANGED vars
  <2>1. UNCHANGED <<sessVars, status, owner, frozen, cause, data, rpc, req, tpc, sid, closed, content, late, viewVars, sent>>
    BY <1>7 DEF vars, sessVars, reqVars, streamVars
  <2>2. (\A s \in Session : Ages(s) /\ Announced(s)) /\ \A r \in Request : Insists(r)
    BY <2>1, AgesSame DEF Secure, Bounded, Announced, EndedByRequest, Insists
  <2> QED
    BY <2>1, <2>2, BoundedKeeps, HeardKeeps
<1> QED
  BY <1>1, <1>2, <1>3, <1>4, <1>5, <1>6, <1>7 DEF Next, QuietStep

\* Whatever ends a session (a logout, a password change, a deletion, the
\* operator's command, expiry), no stream and no view sends its browser data that
\* is newer than the end, at most the one event past its checks follows, and a
\* request that revokes leaves no stream of the session waiting in the hub
\* (emit, revokeUser and revokeSession in posting_updates.go, the second lookup
\* of handlePostingView).
THEOREM NothingFollowsTheEnd == Spec => []NothingAfterTheEnd
<1>1. Init => Secure /\ Handled /\ Bounded /\ Heard
  BY InitInv, InitTold
<1>2. (Secure /\ Handled /\ Bounded /\ Heard) /\ [Next]_vars => (Secure /\ Handled /\ Bounded /\ Heard)'
  BY StepInv, StepTold
<1>3. Secure /\ Handled /\ Bounded /\ Heard => NothingAfterTheEnd
  <2> SUFFICES ASSUME Secure, Handled, Bounded, Heard PROVE NothingAfterTheEnd
    OBVIOUS
  <2>1. SentWhileLive
    BY DEF SentWhileLive, Bounded, SessionsFit, SentWithin, Horizon, Live
  <2>2. OneLateEvent
    BY DEF OneLateEvent, Bounded, HandlersWithin, StreamWithin
  <2>3. RevokedStreamsClosed
    BY DEF RevokedStreamsClosed, Heard, WillHear, EndedByRequest, Told
  <2> QED
    BY <2>1, <2>2, <2>3 DEF NothingAfterTheEnd
<1> QED
  BY <1>1, <1>2, <1>3, PTL DEF Spec

=============================================================================
