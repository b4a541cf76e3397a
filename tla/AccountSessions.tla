----------------------------- MODULE AccountSessions -----------------------------
(***************************************************************************)
(* Accounts, their passwords and their browser sessions, and what a revoked  *)
(* session can still receive.                                                *)
(*                                                                           *)
(* Login, signup, logout, password change and account deletion run in the    *)
(* server (internal/server/auth.go, signup.go, account.go); the operator's    *)
(* command resets a password or deletes an account behind the server's back  *)
(* (cmd/jobcron-user).  All of them meet in PostgreSQL, whose row locks are   *)
(* modelled (internal/storage/sessions.go, users.go).  A password is the      *)
(* number of times it was replaced; data is the version of what the account's *)
(* posting views show, published by the writers of PostingHub.                *)
(***************************************************************************)
EXTENDS Naturals, FiniteSets

CONSTANTS User,        \* accounts, by the row id they are given once
          Session,     \* session tokens; a token is never issued twice
          Request,     \* concurrent requests and operator commands
          Stream,      \* event streams (handlePostingUpdates)
          Viewer,      \* view requests (handlePostingView)
          NoUser, NoSession,
          MaxPassword, \* bound on password versions
          MaxData,     \* bound on published versions
          MaxBusy      \* bound on requests, streams and views at work at once

ASSUME SessionAssumption == /\ NoUser \notin User /\ NoSession \notin Session
                            /\ {MaxPassword, MaxData, MaxBusy} \subseteq Nat

VARIABLES
    acct,     \* the account row: "none", "open" or "deleted"
    pw,       \* users.password_hash, as a version
    status,   \* the session row: "unused", "live", "expired" or "gone"
    owner,    \* sessions.user_id
    proof,    \* the password version the session's holder last proved
    rpc,      \* where each request is
    req,      \* what it does and what it has read
    data,     \* version of the account's posting data
    tpc,      \* where each stream handler is
    sid,      \* the session each stream was opened with
    closed,   \* listener.done is closed
    wake,     \* listener.wake holds a token
    content,  \* the data version of the notice in hand
    late,     \* events the stream wrote after its session had ended
    vpc,      \* where each view request is
    vsid,     \* its session
    body,     \* the data version of the buffered view
    sent,     \* the newest data version written to the session's browser
    frozen,   \* the data version at the end of the session
    cause     \* what ended it: a request that answered, or anything else

acctVars   == <<acct, pw>>
sessVars   == <<status, owner, proof, frozen, cause>>
reqVars    == <<rpc, req>>
streamVars == <<tpc, sid, closed, wake, content, late>>
viewVars   == <<vpc, vsid, body>>
vars == <<acctVars, sessVars, reqVars, data, streamVars, viewVars, sent>>

Kind == {"none", "login", "change", "delete", "logout", "reset", "erase"}
NoReq == [kind |-> "none", user |-> NoUser, sess |-> NoSession, seen |-> 0]

TypeOK ==
    /\ acct \in [User -> {"none", "open", "deleted"}]
    /\ pw \in [User -> Nat] /\ data \in [User -> Nat]
    /\ status \in [Session -> {"unused", "live", "expired", "gone"}]
    /\ owner \in [Session -> User \cup {NoUser}]
    /\ proof \in [Session -> Nat]
    /\ rpc \in [Request -> {"idle", "verified", "barrier", "locked", "revoke"}]
    /\ req \in [Request -> [kind : Kind, user : User \cup {NoUser},
                            sess : Session \cup {NoSession}, seen : Nat]]
    /\ tpc \in [Stream -> {"off", "authed", "subscribed", "check", "done", "write", "loop"}]
    /\ sid \in [Stream -> Session \cup {NoSession}]
    /\ closed \in [Stream -> BOOLEAN] /\ wake \in [Stream -> BOOLEAN]
    /\ content \in [Stream -> Nat] /\ late \in [Stream -> Nat]
    /\ vpc \in [Viewer -> {"off", "authed", "loaded", "write"}]
    /\ vsid \in [Viewer -> Session \cup {NoSession}]
    /\ body \in [Viewer -> Nat]
    /\ sent \in [Session -> Nat] /\ frozen \in [Session -> Nat]
    /\ cause \in [Session -> {"none", "request", "other"}]
    /\ \A s \in Session : status[s] # "unused" => owner[s] \in User
    /\ \A t \in Stream : tpc[t] # "off" => sid[t] \in Session

Init ==
    /\ acct = [u \in User |-> "none"]
    /\ pw = [u \in User |-> 0]
    /\ data = [u \in User |-> 0]
    /\ status = [s \in Session |-> "unused"]
    /\ owner = [s \in Session |-> NoUser]
    /\ proof = [s \in Session |-> 0]
    /\ rpc = [r \in Request |-> "idle"]
    /\ req = [r \in Request |-> NoReq]
    /\ tpc = [t \in Stream |-> "off"]
    /\ sid = [t \in Stream |-> NoSession]
    /\ closed = [t \in Stream |-> FALSE]
    /\ wake = [t \in Stream |-> FALSE]
    /\ content = [t \in Stream |-> 0]
    /\ late = [t \in Stream |-> 0]
    /\ vpc = [v \in Viewer |-> "off"]
    /\ vsid = [v \in Viewer |-> NoSession]
    /\ body = [v \in Viewer |-> 0]
    /\ sent = [s \in Session |-> 0]
    /\ frozen = [s \in Session |-> 0]
    /\ cause = [s \in Session |-> "none"]

Live(s) == status[s] = "live"
\* One more handler may start: the bound on interleavings.
Room ==
    Cardinality({r \in Request : rpc[r] # "idle"}) + Cardinality({t \in Stream : tpc[t] # "off"})
        + Cardinality({v \in Viewer : vpc[v] # "off"}) < MaxBusy
SessionsOf(u) == {s \in Session : owner[s] = u /\ status[s] \in {"live", "expired"}}

-----------------------------------------------------------------------------
(* PostgreSQL rows and the posting barrier.                                 *)

\* A bug for comparison: login reads the hash with a plain SELECT.
UserRowLocked_NotByLogin(u) ==
    \E r \in Request : rpc[r] = "locked" /\ req[r].user = u /\ req[r].kind # "login"

\* SELECT ... FOR UPDATE, UPDATE and DELETE hold the row until the commit.
UserRowLocked(u) == \E r \in Request : rpc[r] = "locked" /\ req[r].user = u
SessionRowLocked(s) ==
    \E r \in Request : rpc[r] = "locked" /\ req[r].kind \in {"change", "delete"} /\ req[r].sess = s

\* beginWrite(user, FALSE) for account changes, beginWrite(0, TRUE) for logout.
HoldsBarrier(r) == /\ req[r].kind \in {"change", "delete", "logout"}
                   /\ rpc[r] \in {"barrier", "locked", "revoke"}
BarrierFree(u) == \A r \in Request : HoldsBarrier(r) => req[r].kind # "logout" /\ req[r].user # u
BarrierEmpty == \A r \in Request : ~HoldsBarrier(r)

\* Session rows S end now; why is "request" when the hub is told next.
EndSessions(S, why) ==
    /\ status' = [s \in Session |-> IF s \in S THEN "gone" ELSE status[s]]
    /\ frozen' = [s \in Session |-> IF s \in S /\ Live(s) THEN data[owner[s]] ELSE frozen[s]]
    /\ cause' = [s \in Session |-> IF s \in S /\ Live(s) THEN why ELSE cause[s]]

Finish(r) == rpc' = [rpc EXCEPT ![r] = "idle"] /\ req' = [req EXCEPT ![r] = NoReq]
At(r, location) == rpc' = [rpc EXCEPT ![r] = location]

StartSession(s, u, proved) ==
    /\ status[s] = "unused"
    /\ status' = [status EXCEPT ![s] = "live"]
    /\ owner' = [owner EXCEPT ![s] = u]
    /\ proof' = [proof EXCEPT ![s] = proved]
    /\ UNCHANGED <<frozen, cause>>

-----------------------------------------------------------------------------
(* Requests.                                                                *)

\* handleSignupPost: account and first session in one transaction; an address
\* that has an account is refused.
Signup(u, s) ==
    /\ acct[u] = "none"
    /\ acct' = [acct EXCEPT ![u] = "open"]
    /\ pw' = [pw EXCEPT ![u] = 1]
    /\ StartSession(s, u, 1)
    /\ UNCHANGED <<reqVars, data, streamVars, viewVars, sent>>

\* handleLoginPost reads the hash and finds that the password matches it.
LoginVerify(r, u) ==
    /\ rpc[r] = "idle" /\ Room
    /\ acct[u] = "open"
    /\ req' = [req EXCEPT ![r] = [kind |-> "login", user |-> u, sess |-> NoSession, seen |-> pw[u]]]
    /\ At(r, "verified")
    /\ UNCHANGED <<acctVars, sessVars, data, streamVars, viewVars, sent>>

\* handleAccountPassword and handleAccountDelete read account and session, and
\* the current password matches the hash.
AccountVerify(r, s, kind) ==
    /\ rpc[r] = "idle" /\ Room
    /\ Live(s)
    /\ req' = [req EXCEPT ![r] = [kind |-> kind, user |-> owner[s], sess |-> s, seen |-> pw[owner[s]]]]
    /\ At(r, "verified")
    /\ UNCHANGED <<acctVars, sessVars, data, streamVars, viewVars, sent>>

\* beginWrite; a deletion waited for the operation gate before.
AccountBarrier(r) ==
    /\ rpc[r] = "verified"
    /\ req[r].kind \in {"change", "delete"}
    /\ BarrierFree(req[r].user)
    /\ At(r, "barrier")
    /\ UNCHANGED <<acctVars, sessVars, req, data, streamVars, viewVars, sent>>

\* handleLogout needs no live session, only a cookie.
LogoutBarrier(r, s) ==
    /\ rpc[r] = "idle" /\ Room
    /\ status[s] # "unused"
    /\ BarrierEmpty
    /\ req' = [req EXCEPT ![r] = [kind |-> "logout", user |-> NoUser, sess |-> s, seen |-> 0]]
    /\ At(r, "barrier")
    /\ UNCHANGED <<acctVars, sessVars, data, streamVars, viewVars, sent>>

\* The operator's commands name the account only.
OperatorLock(r, u, kind) ==
    /\ rpc[r] = "idle" /\ Room
    /\ acct[u] = "open"
    /\ ~UserRowLocked(u)
    /\ req' = [req EXCEPT ![r] = [kind |-> kind, user |-> u, sess |-> NoSession, seen |-> 0]]
    /\ At(r, "locked")
    /\ UNCHANGED <<acctVars, sessVars, data, streamVars, viewVars, sent>>

\* CreateSessionIfPasswordHash, its locking SELECT: the row must still hold the
\* verified hash.
LoginLock(r) ==
    /\ rpc[r] = "verified"
    /\ req[r].kind = "login"
    /\ ~UserRowLocked(req[r].user)
    /\ IF acct[req[r].user] = "open" /\ pw[req[r].user] = req[r].seen
         THEN At(r, "locked") /\ UNCHANGED req
         ELSE Finish(r)
    /\ UNCHANGED <<acctVars, sessVars, data, streamVars, viewVars, sent>>

LoginInsert(r, s) ==
    /\ rpc[r] = "locked"
    /\ req[r].kind = "login"
    /\ StartSession(s, req[r].user, req[r].seen)
    /\ Finish(r)
    /\ UNCHANGED <<acctVars, data, streamVars, viewVars, sent>>

\* A bug for comparison: only the session is checked again, not the password.
AccountLock_AnyHash(r) ==
    /\ rpc[r] = "barrier"
    /\ req[r].kind \in {"change", "delete"}
    /\ ~UserRowLocked(req[r].user)
    /\ IF acct[req[r].user] = "open" /\ Live(req[r].sess)
         THEN At(r, "locked") /\ UNCHANGED req
         ELSE Finish(r)
    /\ UNCHANGED <<acctVars, sessVars, data, streamVars, viewVars, sent>>

\* lockPostgresAccountMutation: hash and session must still be what was verified.
AccountLock(r) ==
    LET u == req[r].user
        s == req[r].sess
    IN /\ rpc[r] = "barrier"
       /\ req[r].kind \in {"change", "delete"}
       /\ ~UserRowLocked(u)
       /\ IF acct[u] = "open" /\ pw[u] = req[r].seen /\ Live(s)
            THEN At(r, "locked") /\ UNCHANGED req
            ELSE Finish(r)
       /\ UNCHANGED <<acctVars, sessVars, data, streamVars, viewVars, sent>>

\* After a commit the server tells the hub, unless the commit's answer was lost;
\* the operator's commands cannot tell it.
AfterCommit(r, answered) ==
    IF req[r].kind \in {"change", "delete"} /\ answered THEN At(r, "revoke") /\ UNCHANGED req ELSE Finish(r)
Why(r, answered) == IF req[r].kind \in {"change", "delete"} /\ answered THEN "request" ELSE "other"

\* ChangePassword keeps the session that asked; ResetUserPassword keeps none.
ReplaceCommit(r, answered) ==
    LET u == req[r].user
    IN /\ rpc[r] = "locked"
       /\ req[r].kind \in {"change", "reset"}
       /\ pw[u] < MaxPassword
       /\ pw' = [pw EXCEPT ![u] = @ + 1]
       /\ EndSessions(SessionsOf(u) \ {req[r].sess}, Why(r, answered))
       /\ proof' = [s \in Session |-> IF s = req[r].sess THEN pw'[u] ELSE proof[s]]
       /\ AfterCommit(r, answered)
       /\ UNCHANGED <<acct, owner, data, streamVars, viewVars, sent>>

\* DeleteSelf and DeleteUser: the session rows go with the account row.
DeleteCommit(r, answered) ==
    LET u == req[r].user
    IN /\ rpc[r] = "locked"
       /\ req[r].kind \in {"delete", "erase"}
       /\ acct' = [acct EXCEPT ![u] = "deleted"]
       /\ pw' = [pw EXCEPT ![u] = 0]
       /\ EndSessions(SessionsOf(u), Why(r, answered))
       /\ AfterCommit(r, answered)
       /\ UNCHANGED <<owner, proof, data, streamVars, viewVars, sent>>

LogoutDelete(r, answered) ==
    /\ rpc[r] = "barrier"
    /\ req[r].kind = "logout"
    /\ ~SessionRowLocked(req[r].sess)
    /\ EndSessions({req[r].sess}, IF answered THEN "request" ELSE "other")
    /\ IF answered THEN At(r, "revoke") /\ UNCHANGED req ELSE Finish(r)
    /\ UNCHANGED <<acctVars, owner, proof, data, streamVars, viewVars, sent>>

\* A lookup, a lock or a statement fails, or the context ends: nothing changed.
RequestFails(r) ==
    /\ rpc[r] \in {"verified", "barrier", "locked"}
    /\ Finish(r)
    /\ UNCHANGED <<acctVars, sessVars, data, streamVars, viewVars, sent>>

\* The listeners in the hub, by account and by session.
Registered(t) == tpc[t] \in {"subscribed", "check", "done", "write", "loop"}
\* revokeUser and revokeSession close listeners, then finish ends the barrier.
Revoked(r) ==
    {t \in Stream :
        /\ Registered(t)
        /\ IF req[r].kind = "logout" THEN sid[t] = req[r].sess
           ELSE /\ owner[sid[t]] = req[r].user
                /\ req[r].kind = "delete" \/ sid[t] # req[r].sess}

HubRevoke(r) ==
    /\ rpc[r] = "revoke"
    /\ closed' = [t \in Stream |-> closed[t] \/ t \in Revoked(r)]
    /\ Finish(r)
    /\ UNCHANGED <<acctVars, sessVars, data, tpc, sid, wake, content, late, viewVars, sent>>

\* sessionTTL passes; the row stays.
Expire(s) ==
    /\ Live(s)
    /\ status' = [status EXCEPT ![s] = "expired"]
    /\ frozen' = [frozen EXCEPT ![s] = data[owner[s]]]
    /\ cause' = [cause EXCEPT ![s] = "other"]
    /\ UNCHANGED <<acctVars, owner, proof, reqVars, data, streamVars, viewVars, sent>>

\* Any writer commits a new version of the account's data and publishes it.
Publish(u) ==
    /\ acct[u] = "open"
    /\ data[u] < MaxData
    /\ BarrierFree(u)
    /\ data' = [data EXCEPT ![u] = @ + 1]
    /\ wake' = [t \in Stream |-> wake[t] \/ (Registered(t) /\ owner[sid[t]] = u)]
    /\ UNCHANGED <<acctVars, sessVars, reqVars, tpc, sid, closed, content, late, viewVars, sent>>

-----------------------------------------------------------------------------
(* The event stream.                                                        *)

StreamAt(t, location) == tpc' = [tpc EXCEPT ![t] = location]
StreamOff(t) ==
    /\ StreamAt(t, "off")
    /\ sid' = [sid EXCEPT ![t] = NoSession]
    /\ closed' = [closed EXCEPT ![t] = FALSE]
    /\ wake' = [wake EXCEPT ![t] = FALSE]
    /\ content' = [content EXCEPT ![t] = 0]
    /\ late' = [late EXCEPT ![t] = 0]
StreamKeeps == UNCHANGED <<acctVars, sessVars, reqVars, data, viewVars>>

\* requireObservationAuth and the handler's own lookup, before any listener.
StreamAuth(t, s) ==
    /\ tpc[t] = "off" /\ Room
    /\ Live(s)
    /\ StreamAt(t, "authed")
    /\ sid' = [sid EXCEPT ![t] = s]
    /\ StreamKeeps /\ UNCHANGED <<closed, wake, content, late, sent>>

StreamSubscribe(t) ==
    /\ tpc[t] = "authed"
    /\ StreamAt(t, "subscribed")
    /\ StreamKeeps /\ UNCHANGED <<sid, closed, wake, content, late, sent>>

\* postingReadNotice reads under the barrier.
StreamInitialRead(t) ==
    /\ tpc[t] = "subscribed"
    /\ BarrierFree(owner[sid[t]])
    /\ content' = [content EXCEPT ![t] = data[owner[sid[t]]]]
    /\ StreamAt(t, "check")
    /\ StreamKeeps /\ UNCHANGED <<sid, closed, wake, late, sent>>

\* A bug for comparison: emit relies on the done channel alone.
StreamCheck_Skipped(t) ==
    /\ tpc[t] = "check"
    /\ StreamAt(t, "done")
    /\ StreamKeeps /\ UNCHANGED <<sid, closed, wake, content, late, sent>>

\* emit looks the exact session up again ...
StreamCheck(t) ==
    /\ tpc[t] = "check"
    /\ IF Live(sid[t])
         THEN StreamAt(t, "done") /\ UNCHANGED <<sid, closed, wake, content, late>>
         ELSE StreamOff(t)
    /\ StreamKeeps /\ UNCHANGED sent

\* ... then looks at the listener's done channel, and writes.
StreamDone(t) ==
    /\ tpc[t] = "done"
    /\ IF closed[t] THEN StreamOff(t)
       ELSE StreamAt(t, "write") /\ UNCHANGED <<sid, closed, wake, content, late>>
    /\ StreamKeeps /\ UNCHANGED sent

StreamWrite(t) ==
    LET s == sid[t]
    IN /\ tpc[t] = "write"
       /\ sent' = [sent EXCEPT ![s] = IF content[t] > @ THEN content[t] ELSE @]
       /\ late' = [late EXCEPT ![t] = IF Live(s) THEN @ ELSE @ + 1]
       /\ StreamAt(t, "loop")
       /\ StreamKeeps /\ UNCHANGED <<sid, closed, wake, content>>

\* The loop's cases: a wake token and the coalesced slot, the done channel, and
\* the heartbeat that finds the session ended (it changes nothing otherwise).
StreamWake(t) ==
    /\ tpc[t] = "loop"
    /\ wake[t]
    /\ wake' = [wake EXCEPT ![t] = FALSE]
    /\ content' = [content EXCEPT ![t] = data[owner[sid[t]]]]
    /\ StreamAt(t, "check")
    /\ StreamKeeps /\ UNCHANGED <<sid, closed, late, sent>>

StreamClosed(t) ==
    /\ tpc[t] = "loop"
    /\ closed[t]
    /\ StreamOff(t)
    /\ StreamKeeps /\ UNCHANGED sent

\* A bug for comparison: the heartbeat only keeps the connection busy.
StreamHeartbeat_NoLookup(t) ==
    /\ tpc[t] = "loop"
    /\ closed[t]
    /\ StreamOff(t)
    /\ StreamKeeps /\ UNCHANGED sent

StreamHeartbeat(t) ==
    /\ tpc[t] = "loop"
    /\ ~Live(sid[t])
    /\ StreamOff(t)
    /\ StreamKeeps /\ UNCHANGED sent

\* The browser leaves, or a lookup, a read or a write fails.
StreamFails(t) ==
    /\ tpc[t] # "off"
    /\ StreamOff(t)
    /\ StreamKeeps /\ UNCHANGED sent

-----------------------------------------------------------------------------
(* The view request.                                                        *)

ViewKeeps == UNCHANGED <<acctVars, sessVars, reqVars, data, streamVars>>
ViewOff(v) ==
    /\ vpc' = [vpc EXCEPT ![v] = "off"]
    /\ vsid' = [vsid EXCEPT ![v] = NoSession]
    /\ body' = [body EXCEPT ![v] = 0]

ViewAuth(v, s) ==
    /\ vpc[v] = "off" /\ Room
    /\ Live(s)
    /\ vpc' = [vpc EXCEPT ![v] = "authed"]
    /\ vsid' = [vsid EXCEPT ![v] = s]
    /\ ViewKeeps /\ UNCHANGED <<body, sent>>

\* postingEnvelope loads under the barrier and buffers the whole answer.
ViewLoad(v) ==
    /\ vpc[v] = "authed"
    /\ BarrierFree(owner[vsid[v]])
    /\ body' = [body EXCEPT ![v] = data[owner[vsid[v]]]]
    /\ vpc' = [vpc EXCEPT ![v] = "loaded"]
    /\ ViewKeeps /\ UNCHANGED <<vsid, sent>>

\* The exact session is looked up again before the first byte.
ViewCheck(v) ==
    /\ vpc[v] = "loaded"
    /\ IF Live(vsid[v])
         THEN vpc' = [vpc EXCEPT ![v] = "write"] /\ UNCHANGED <<vsid, body>>
         ELSE ViewOff(v)
    /\ ViewKeeps /\ UNCHANGED sent

ViewWrite(v) ==
    /\ vpc[v] = "write"
    /\ sent' = [sent EXCEPT ![vsid[v]] = IF body[v] > @ THEN body[v] ELSE @]
    /\ ViewOff(v)
    /\ ViewKeeps

ViewFails(v) ==
    /\ vpc[v] # "off"
    /\ ViewOff(v)
    /\ ViewKeeps /\ UNCHANGED sent

-----------------------------------------------------------------------------
StreamStep(t) ==
    \/ StreamSubscribe(t) \/ StreamInitialRead(t)
    \/ StreamCheck(t) \/ StreamDone(t) \/ StreamWrite(t)
    \/ StreamWake(t) \/ StreamClosed(t) \/ StreamHeartbeat(t)

Next ==
    \/ \E u \in User : Publish(u)
    \/ \E u \in User, s \in Session : Signup(u, s)
    \/ \E r \in Request, u \in User :
          LoginVerify(r, u) \/ \E kind \in {"reset", "erase"} : OperatorLock(r, u, kind)
    \/ \E r \in Request, s \in Session :
          \/ \E kind \in {"change", "delete"} : AccountVerify(r, s, kind)
          \/ LogoutBarrier(r, s) \/ LoginInsert(r, s)
    \/ \E r \in Request : \/ AccountBarrier(r) \/ LoginLock(r) \/ AccountLock(r)
                          \/ RequestFails(r) \/ HubRevoke(r)
    \/ \E r \in Request, answered \in BOOLEAN :
          ReplaceCommit(r, answered) \/ DeleteCommit(r, answered) \/ LogoutDelete(r, answered)
    \/ \E s \in Session : Expire(s)
    \/ \E t \in Stream : StreamStep(t) \/ StreamFails(t) \/ \E s \in Session : StreamAuth(t, s)
    \/ \E v \in Viewer : \/ ViewLoad(v) \/ ViewCheck(v) \/ ViewWrite(v) \/ ViewFails(v)
                         \/ \E s \in Session : ViewAuth(v, s)

Spec == Init /\ [][Next]_vars

\* A stream handler runs: its lookups and writes have deadlines, its heartbeat
\* ticks, and the polling first read is cut off by its ten-second context.
Fairness ==
    \A t \in Stream : WF_vars(StreamStep(t) \/ (tpc[t] = "subscribed" /\ StreamFails(t)))

FairSpec == Spec /\ Fairness

-----------------------------------------------------------------------------
\* "so a concurrent password mutation either revokes this session afterward or
\* changes the hash before this insert can proceed" (sessions.go:38): no live
\* session rests on a password that was replaced or on an account that is gone.
SessionsProveThePassword ==
    TypeOK /\ \A s \in Session : Live(s) => acct[owner[s]] = "open" /\ proof[s] = pw[owner[s]]

\* A password change or a deletion takes effect only against the password that
\* was verified and while the session that asked is still there: nothing that
\* happened during the slow verification or the wait for the gate is overrun.
ChangesWhatWasVerified ==
    [][\A r \in Request :
        /\ req[r].kind \in {"change", "delete"}
        /\ rpc[r] = "locked"
        /\ pw'[req[r].user] # pw[req[r].user]
        => /\ pw[req[r].user] = req[r].seen
           /\ status[req[r].sess] \in {"live", "expired"}]_vars

\* A browser is never sent data that is newer than the end of its session, by a
\* stream or by a view, whatever ended the session.
SentWhileLive ==
    \A s \in Session : status[s] \in {"gone", "expired"} => sent[s] <= frozen[s]

\* At most the one event that was already past its checks follows the end of a
\* session.
OneLateEvent == \A t \in Stream : late[t] <= 1

\* A request that revokes sessions leaves no stream of theirs waiting in the hub,
\* even one that was just being opened.
RevokedStreamsClosed ==
    \A t \in Stream :
        /\ tpc[t] = "loop"
        /\ status[sid[t]] = "gone" /\ cause[sid[t]] = "request"
        /\ \A r \in Request : rpc[r] # "revoke"
        => closed[t]

\* The end of a session is the end of what it is told.
NothingAfterTheEnd == SentWhileLive /\ OneLateEvent /\ RevokedStreamsClosed

\* Every stream of an ended session ends, though the operator's commands, lost
\* answers and expiry tell the hub nothing.
StreamsOfEndedSessionsEnd ==
    \A t \in Stream : tpc[t] = "loop" /\ ~Live(sid[t]) ~> tpc[t] = "off"
================================================================================
