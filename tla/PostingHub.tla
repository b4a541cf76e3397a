------------------------------- MODULE PostingHub -------------------------------
(***************************************************************************)
(* Live updates of the posting views: internal/server/posting_updates.go    *)
(* (the write barrier, the revision hub and its listeners), the read that   *)
(* every view and stream starts with (posting_view.go), the handlers that   *)
(* serve them (posting_http.go), and the part of web/posting-updates.js     *)
(* that decides whether a received view may replace the applied one.        *)
(*                                                                          *)
(* A writer holds the barrier over mutation, commit and publication; a view *)
(* holds it, shared, from its database snapshot until it took its revisions, *)
(* and the first read of a stream, which does the same, is one step here.   *)
(* Data is a version number that each mutation increments; one that fails   *)
(* may have changed the data all the same, and then publishes nothing.      *)
(***************************************************************************)
EXTENDS Naturals, FiniteSets, FiniteSetsExt

CONSTANTS User,          \* accounts
          Lock,          \* the fixed array usersLocks (64 in the code)
          LockOf,        \* userLock: the lock an account hashes to
          Writer,        \* goroutines that mutate posting state
          Stream,        \* browser tabs: one event stream and one view each
          UserOf,        \* the account a tab is signed in to
          MaxListeners,  \* listeners in all (64 in the code)
          MaxPerUser,    \* listeners of one account (8 in the code)
          MaxReads,      \* admitted view reads in all (8 in the code)
          MaxUserReads,  \* admitted view reads of one account (2 in the code)
          MaxWrites,     \* bound on changes of the data
          MaxClock       \* bound on clock readings by subscriptions and reads

ASSUME HubAssumption ==
    /\ User # {} /\ IsFiniteSet(Stream)
    /\ LockOf \in [User -> Lock]
    /\ UserOf \in [Stream -> User]
    /\ {MaxListeners, MaxPerUser, MaxReads, MaxUserReads, MaxWrites, MaxClock} \subseteq Nat

VARIABLES
    wpc,        \* where each writer is in beginWrite ... finish
    op,         \* the mutation each writer performs
    gData,      \* version of what every account sees (postings)
    uData,      \* version of what one account sees (scores, bookmarks, profile)
    ctx,        \* uData version at the account's last context change
    pubG,       \* history: gData at the last publication to everyone
    pubU,       \* history: uData at the last publication to the account
    pubCtx,     \* history: ctx at the last context change published to it
    globalRev,  \* globalRevision
    rev,        \* users[u].revision, 0 when the account has no record
    total,      \* hub.total
    clock,      \* the last reading of the monotonic clock
    spc,        \* where each stream handler is
    wake,       \* listener.wake holds a token
    pending,    \* listener.pending, the coalesced slot
    inHand,     \* the notice the handler is about to emit
    heard,      \* the largest revisions the tab has been told
    read,       \* the tab's view request: none, holding the barrier, or answered
    answer,     \* what the request will bring back
    view        \* the view the tab shows

writerVars == <<wpc, op>>
dataVars   == <<gData, uData, ctx>>
pubVars    == <<pubG, pubU, pubCtx>>
hubVars    == <<globalRev, rev, total, clock>>
streamVars == <<spc, wake, pending, inHand, heard>>
viewVars   == <<read, answer, view>>
vars == <<writerVars, dataVars, pubVars, hubVars, streamVars, viewVars>>

\* Version 0 of a context is "no token": an empty Context field.
NoToken == 0
\* A notice that says nothing but revisions.
Revisions(g, u) == [g |-> g, u |-> u, context |-> NoToken, changed |-> FALSE, resync |-> FALSE]
NoNotice == Revisions(0, 0)
NoView == [g |-> 0, u |-> 0, gData |-> 0, uData |-> 0]
NoOp == [kind |-> "none", user |-> CHOOSE u \in User : TRUE]

Notice == [g : Nat, u : Nat, context : Nat, changed : BOOLEAN, resync : BOOLEAN]
View == [g : Nat, u : Nat, gData : Nat, uData : Nat]
Op == [kind : {"none", "global", "user", "context"}, user : User]

\* A handler between subscribe and close has an open listener.
Open == {"subscribed", "emit", "loop", "woken"}
IsOpen(s) == spc[s] \in Open
ListenersOf(u) == {s \in Stream : IsOpen(s) /\ UserOf[s] = u}

TypeOK ==
    /\ wpc \in [Writer -> {"idle", "wantGlobal", "wantRead", "wantUser", "locked", "committed"}]
    /\ op \in [Writer -> Op]
    /\ gData \in Nat /\ uData \in [User -> Nat] /\ ctx \in [User -> Nat]
    /\ pubG \in Nat /\ pubU \in [User -> Nat] /\ pubCtx \in [User -> Nat]
    /\ globalRev \in Nat /\ rev \in [User -> Nat] /\ total \in Nat /\ clock \in Nat
    /\ spc \in [Stream -> Open \cup {"off"}]
    /\ wake \in [Stream -> BOOLEAN]
    /\ pending \in [Stream -> Notice] /\ inHand \in [Stream -> Notice]
    /\ heard \in [Stream -> [g : Nat, u : Nat]]
    /\ read \in [Stream -> {"none", "reading", "answered"}]
    /\ answer \in [Stream -> View] /\ view \in [Stream -> View]

Init ==
    /\ wpc = [w \in Writer |-> "idle"]
    /\ op = [w \in Writer |-> NoOp]
    /\ gData = 1
    /\ uData = [u \in User |-> 1]
    /\ ctx = [u \in User |-> 1]
    /\ pubG = 1 /\ pubU = uData /\ pubCtx = ctx
    /\ globalRev = 0
    /\ rev = [u \in User |-> 0]
    /\ total = 0
    /\ clock = 0
    /\ spc = [s \in Stream |-> "off"]
    /\ wake = [s \in Stream |-> FALSE]
    /\ pending = [s \in Stream |-> NoNotice]
    /\ inHand = [s \in Stream |-> NoNotice]
    /\ heard = [s \in Stream |-> [g |-> 0, u |-> 0]]
    /\ read = [s \in Stream |-> "none"]
    /\ answer = [s \in Stream |-> NoView]
    /\ view = [s \in Stream |-> NoView]

Larger(a, b) == IF a > b THEN a ELSE b

-----------------------------------------------------------------------------
(* The barrier: global.RWMutex, then one of the usersLocks.                 *)

InRegion == {"locked", "committed"}
IsGlobal(w) == op[w].kind = "global"
GlobalHeld == \E w \in Writer : wpc[w] \in InRegion /\ IsGlobal(w)
GlobalWanted == \E w \in Writer : wpc[w] = "wantGlobal"
ReadersOfGlobal == {w \in Writer : wpc[w] \in InRegion \cup {"wantUser"} /\ ~IsGlobal(w)}
\* Views that hold the barrier.
Reading == {s \in Stream : read[s] = "reading"}
UserLockHeld(l) == \E w \in Writer : wpc[w] \in InRegion /\ ~IsGlobal(w) /\ LockOf[op[w].user] = l

\* beginReadContext: TryRLock on both locks, retried until it succeeds; it fails
\* while a writer holds them or waits for global.Lock.
CanRead(u) ==
    /\ ~GlobalHeld /\ ~GlobalWanted
    /\ ~UserLockHeld(LockOf[u])

BeginGlobal(w) ==
    /\ wpc[w] = "idle"
    /\ op' = [op EXCEPT ![w] = [kind |-> "global", user |-> NoOp.user]]
    /\ wpc' = [wpc EXCEPT ![w] = "wantGlobal"]
    /\ UNCHANGED <<dataVars, pubVars, hubVars, streamVars, viewVars>>

\* A bug for comparison: the writer does not wait for the views.
LockGlobal_OverViews(w) ==
    /\ wpc[w] = "wantGlobal"
    /\ ~GlobalHeld
    /\ ReadersOfGlobal = {}
    /\ wpc' = [wpc EXCEPT ![w] = "locked"]
    /\ UNCHANGED <<op, dataVars, pubVars, hubVars, streamVars, viewVars>>

LockGlobal(w) ==
    /\ wpc[w] = "wantGlobal"
    /\ ~GlobalHeld
    /\ ReadersOfGlobal = {} /\ Reading = {}
    /\ wpc' = [wpc EXCEPT ![w] = "locked"]
    /\ UNCHANGED <<op, dataVars, pubVars, hubVars, streamVars, viewVars>>

BeginUser(w, u, kind) ==
    /\ wpc[w] = "idle"
    /\ op' = [op EXCEPT ![w] = [kind |-> kind, user |-> u]]
    /\ wpc' = [wpc EXCEPT ![w] = "wantRead"]
    /\ UNCHANGED <<dataVars, pubVars, hubVars, streamVars, viewVars>>

\* global.RLock waits for a pending global.Lock too.
RLockGlobal(w) ==
    /\ wpc[w] = "wantRead"
    /\ ~GlobalHeld /\ ~GlobalWanted
    /\ wpc' = [wpc EXCEPT ![w] = "wantUser"]
    /\ UNCHANGED <<op, dataVars, pubVars, hubVars, streamVars, viewVars>>

LockUser(w) ==
    /\ wpc[w] = "wantUser"
    /\ ~UserLockHeld(LockOf[op[w].user])
    /\ \A s \in Reading : LockOf[UserOf[s]] # LockOf[op[w].user]
    /\ wpc' = [wpc EXCEPT ![w] = "locked"]
    /\ UNCHANGED <<op, dataVars, pubVars, hubVars, streamVars, viewVars>>

\* finish unlocks; the goroutine's operation is over.
EndWrite(w) ==
    /\ wpc' = [wpc EXCEPT ![w] = "idle"]
    /\ op' = [op EXCEPT ![w] = NoOp]

Writes == (gData - 1) + FoldSet(LAMBDA u, n : n + uData[u] - 1, 0, User)

\* A change of everyone's data, or of one account's.
ChangeData(w) ==
    /\ Writes < MaxWrites
    /\ IF IsGlobal(w)
         THEN gData' = gData + 1 /\ UNCHANGED <<uData, ctx>>
         ELSE /\ uData' = [uData EXCEPT ![op[w].user] = @ + 1]
              /\ ctx' = IF op[w].kind = "context"
                          THEN [ctx EXCEPT ![op[w].user] = uData'[op[w].user]]
                          ELSE ctx
              /\ UNCHANGED gData

\* The mutation commits.
Mutate(w) ==
    /\ wpc[w] = "locked"
    /\ ChangeData(w)
    /\ wpc' = [wpc EXCEPT ![w] = "committed"]
    /\ UNCHANGED <<op, pubVars, hubVars, streamVars, viewVars>>

\* A bug for comparison: an early return skips finish.
MutateFails_NoFinish(w) ==
    /\ wpc[w] = "locked"
    /\ UNCHANGED vars

\* The mutation fails: finish(false, ...) publishes nothing and unlocks.  Some of
\* it may have been done: the sweep deletes statement by statement, and the
\* answer to a commit may be lost.
MutateFails(w) ==
    /\ wpc[w] = "locked"
    /\ ChangeData(w) \/ UNCHANGED dataVars
    /\ EndWrite(w)
    /\ UNCHANGED <<pubVars, hubVars, streamVars, viewVars>>

\* A bug for comparison: the slot keeps the last notice, not the largest revisions.
Merge_Last(s, n) ==
    [n EXCEPT !.resync = @ \/ wake[s] \/ pending[s].resync, !.changed = @ \/ pending[s].changed]

\* A bug for comparison: an empty token never replaces the pending one.
Merge_KeepsToken(s, n) ==
    [g       |-> Larger(n.g, pending[s].g),
     u       |-> Larger(n.u, pending[s].u),
     context |-> IF n.context = NoToken THEN pending[s].context ELSE n.context,
     changed |-> n.changed \/ pending[s].changed,
     resync  |-> n.resync \/ wake[s] \/ pending[s].resync]

\* enqueueLocked: merge a notice into the listener's slot and wake it.
Merge(s, n) ==
    [g       |-> Larger(n.g, pending[s].g),
     u       |-> Larger(n.u, pending[s].u),
     context |-> IF n.context = NoToken /\ ~n.changed THEN pending[s].context ELSE n.context,
     changed |-> n.changed \/ pending[s].changed,
     resync  |-> n.resync \/ wake[s] \/ pending[s].resync]

Enqueue(S, n) ==
    /\ pending' = [s \in Stream |-> IF s \in S THEN Merge(s, n) ELSE pending[s]]
    /\ wake' = [s \in Stream |-> s \in S \/ wake[s]]

\* finish(true, ...): publish under the barrier, then let it go.  The token of
\* a context change is empty when reading the new context back failed.
PublishGlobal(w) ==
    /\ wpc[w] = "committed"
    /\ IsGlobal(w)
    /\ globalRev' = globalRev + 1
    /\ pubG' = gData
    /\ Enqueue({s \in Stream : IsOpen(s)}, Revisions(globalRev', 0))
    /\ EndWrite(w)
    /\ UNCHANGED <<dataVars, pubU, pubCtx, rev, total, clock, spc, inHand, heard, viewVars>>

PublishUser(w, token) ==
    LET u == op[w].user
        changed == op[w].kind = "context"
    IN /\ wpc[w] = "committed"
       /\ ~IsGlobal(w)
       /\ token \in IF changed THEN {NoToken, ctx[u]} ELSE {NoToken}
       /\ IF rev[u] = 0
            THEN UNCHANGED <<rev, clock, pending, wake>>
            ELSE /\ clock' = clock + 1
                 /\ rev' = [rev EXCEPT ![u] = Larger(@ + 1, clock')]
                 /\ Enqueue(ListenersOf(u),
                            [g |-> globalRev, u |-> rev'[u], context |-> token,
                             changed |-> changed, resync |-> changed])
       /\ pubU' = [pubU EXCEPT ![u] = uData[u]]
       /\ pubCtx' = IF changed THEN [pubCtx EXCEPT ![u] = ctx[u]] ELSE pubCtx
       /\ EndWrite(w)
       /\ UNCHANGED <<dataVars, pubG, globalRev, total, spc, inHand, heard, viewVars>>

\* statusChanged, the tracker's callback: outside the barrier, a notice with the
\* revisions as they are.  (Its status flag is not modelled.)
StatusChanged(u) ==
    /\ ListenersOf(u) # {}
    /\ Enqueue(ListenersOf(u), Revisions(globalRev, rev[u]))
    /\ UNCHANGED <<writerVars, dataVars, pubVars, hubVars, spc, inHand, heard, viewVars>>

-----------------------------------------------------------------------------
(* The event stream: handlePostingUpdates.                                  *)

\* A bug for comparison: a returning account's cursor is a counter that restarts.
Subscribe_Restarts(s) ==
    LET u == UserOf[s]
    IN /\ spc[s] = "off"
       /\ total < MaxListeners
       /\ Cardinality(ListenersOf(u)) < MaxPerUser
       /\ IF rev[u] = 0
            THEN /\ clock < MaxClock
                 /\ clock' = clock + 1
                 /\ rev' = [rev EXCEPT ![u] = 1]
            ELSE UNCHANGED <<clock, rev>>
       /\ total' = total + 1
       /\ spc' = [spc EXCEPT ![s] = "subscribed"]
       /\ wake' = [wake EXCEPT ![s] = FALSE]
       /\ pending' = [pending EXCEPT ![s] = NoNotice]
       /\ UNCHANGED <<writerVars, dataVars, pubVars, globalRev, inHand, heard, viewVars>>

\* subscribe: refused (429) at the limits; the first listener of an account
\* creates its record from the clock, so its revision starts past every
\* revision the account was given before.
Subscribe(s) ==
    LET u == UserOf[s]
    IN /\ spc[s] = "off"
       /\ total < MaxListeners
       /\ Cardinality(ListenersOf(u)) < MaxPerUser
       /\ IF rev[u] = 0
            THEN /\ clock < MaxClock
                 /\ clock' = clock + 1
                 /\ rev' = [rev EXCEPT ![u] = clock']
            ELSE UNCHANGED <<clock, rev>>
       /\ total' = total + 1
       /\ spc' = [spc EXCEPT ![s] = "subscribed"]
       /\ wake' = [wake EXCEPT ![s] = FALSE]
       /\ pending' = [pending EXCEPT ![s] = NoNotice]
       /\ UNCHANGED <<writerVars, dataVars, pubVars, globalRev, inHand, heard, viewVars>>

\* postingReadNotice: under the read barrier, the revisions and the context.
InitialRead(s) ==
    LET u == UserOf[s]
    IN /\ spc[s] = "subscribed"
       /\ CanRead(u)
       /\ inHand' = [inHand EXCEPT ![s] = [g |-> globalRev, u |-> rev[u], context |-> ctx[u],
                                           changed |-> FALSE, resync |-> TRUE]]
       /\ spc' = [spc EXCEPT ![s] = "emit"]
       /\ UNCHANGED <<writerVars, dataVars, pubVars, hubVars, wake, pending, heard, viewVars>>

\* emit: the event reaches the tab.
Emit(s) ==
    /\ spc[s] = "emit"
    /\ heard' = [heard EXCEPT ![s] = [g |-> Larger(@.g, inHand[s].g), u |-> Larger(@.u, inHand[s].u)]]
    /\ inHand' = [inHand EXCEPT ![s] = NoNotice]
    /\ spc' = [spc EXCEPT ![s] = "loop"]
    /\ UNCHANGED <<writerVars, dataVars, pubVars, hubVars, wake, pending, viewVars>>

\* The loop receives the wake token first and empties the slot afterwards.
ReceiveWake(s) ==
    /\ spc[s] = "loop"
    /\ wake[s]
    /\ wake' = [wake EXCEPT ![s] = FALSE]
    /\ spc' = [spc EXCEPT ![s] = "woken"]
    /\ UNCHANGED <<writerVars, dataVars, pubVars, hubVars, pending, inHand, heard, viewVars>>

\* A bug for comparison: the handler polls for the barrier before every event.
Take_Polls(s) ==
    /\ spc[s] = "woken"
    /\ CanRead(UserOf[s])
    /\ inHand' = [inHand EXCEPT ![s] = pending[s]]
    /\ pending' = [pending EXCEPT ![s] = NoNotice]
    /\ spc' = [spc EXCEPT ![s] = "emit"]
    /\ UNCHANGED <<writerVars, dataVars, pubVars, hubVars, wake, heard, viewVars>>

Take(s) ==
    /\ spc[s] = "woken"
    /\ inHand' = [inHand EXCEPT ![s] = pending[s]]
    /\ pending' = [pending EXCEPT ![s] = NoNotice]
    /\ spc' = [spc EXCEPT ![s] = "emit"]
    /\ UNCHANGED <<writerVars, dataVars, pubVars, hubVars, wake, heard, viewVars>>

\* The handler returns: the tab disconnected, a read or a write failed, or the
\* listener was revoked.  The account's last listener takes its record along.
Close(s) ==
    LET u == UserOf[s]
    IN /\ IsOpen(s)
       /\ spc' = [spc EXCEPT ![s] = "off"]
       /\ total' = total - 1
       /\ rev' = IF ListenersOf(u) = {s} THEN [rev EXCEPT ![u] = 0] ELSE rev
       /\ wake' = [wake EXCEPT ![s] = FALSE]
       /\ pending' = [pending EXCEPT ![s] = NoNotice]
       /\ inHand' = [inHand EXCEPT ![s] = NoNotice]
       /\ UNCHANGED <<writerVars, dataVars, pubVars, globalRev, clock, heard, viewVars>>

-----------------------------------------------------------------------------
(* The view request: handlePostingView.                                     *)

Requests == {s \in Stream : read[s] # "none"}

\* admitSnapshot refuses a request (429) at the limits; loadPostingProjection
\* takes the barrier and the snapshot.  The tab keeps one request in flight.
BeginView(s) ==
    LET u == UserOf[s]
    IN /\ read[s] = "none"
       /\ Cardinality(Requests) < MaxReads
       /\ Cardinality({t \in Requests : UserOf[t] = u}) < MaxUserReads
       /\ CanRead(u)
       /\ rev[u] # 0 \/ clock < MaxClock
       /\ answer' = [answer EXCEPT ![s] = [g |-> 0, u |-> 0, gData |-> gData, uData |-> uData[u]]]
       /\ read' = [read EXCEPT ![s] = "reading"]
       /\ UNCHANGED <<writerVars, dataVars, pubVars, hubVars, streamVars, view>>

\* The revisions are taken and the barrier is let go; an account without a
\* record is given the clock.
LoadView(s) ==
    LET u == UserOf[s]
    IN /\ read[s] = "reading"
       /\ clock' = IF rev[u] = 0 THEN clock + 1 ELSE clock
       /\ answer' = [answer EXCEPT ![s].g = globalRev,
                                   ![s].u = IF rev[u] = 0 THEN clock' ELSE rev[u]]
       /\ read' = [read EXCEPT ![s] = "answered"]
       /\ UNCHANGED <<writerVars, dataVars, pubVars, globalRev, rev, total, streamVars, view>>

\* viewAdmission: a view with a smaller revision than the applied one is refused.
ApplyView(s) ==
    /\ read[s] = "answered"
    /\ view' = [view EXCEPT ![s] =
                  IF answer[s].g < @.g \/ answer[s].u < @.u THEN @ ELSE answer[s]]
    /\ read' = [read EXCEPT ![s] = "none"]
    /\ answer' = [answer EXCEPT ![s] = NoView]
    /\ UNCHANGED <<writerVars, dataVars, pubVars, hubVars, streamVars>>

\* The request is aborted, times out or fails: nothing is held or applied.
AbortRead(s) ==
    /\ read[s] # "none"
    /\ read' = [read EXCEPT ![s] = "none"]
    /\ answer' = [answer EXCEPT ![s] = NoView]
    /\ UNCHANGED <<writerVars, dataVars, pubVars, hubVars, streamVars, view>>

-----------------------------------------------------------------------------
WriterStep(w) ==
    \/ LockGlobal(w)
    \/ RLockGlobal(w)
    \/ LockUser(w)
    \/ Mutate(w)
    \/ MutateFails(w)
    \/ PublishGlobal(w)
    \/ \E token \in Nat \cap ({NoToken} \cup {ctx[u] : u \in User}) : PublishUser(w, token)

HandlerStep(s) ==
    \/ InitialRead(s)
    \/ Emit(s)
    \/ ReceiveWake(s)
    \/ Take(s)

Next ==
    \/ \E w \in Writer : BeginGlobal(w) \/ WriterStep(w)
    \/ \E w \in Writer, u \in User, kind \in {"user", "context"} : BeginUser(w, u, kind)
    \/ \E u \in User : StatusChanged(u)
    \/ \E s \in Stream : \/ Subscribe(s) \/ HandlerStep(s) \/ Close(s)
                         \/ BeginView(s) \/ LoadView(s) \/ ApplyView(s) \/ AbortRead(s)

Spec == Init /\ [][Next]_vars

Acquire(w) == LockGlobal(w) \/ RLockGlobal(w) \/ LockUser(w)

\* A goroutine blocked on a sync.RWMutex is not overtaken forever (starvation
\* mode; a released writer admits the waiting readers), mutations end, a view
\* lets go of the barrier (its reads have ten seconds), and a handler runs.  The
\* polling first read of a stream may starve, but then its ten-second context
\* ends it.
ViewReadEnds(s) == LoadView(s) \/ (read[s] = "reading" /\ AbortRead(s))
FirstReadEnds(s) == InitialRead(s) \/ (spc[s] = "subscribed" /\ Close(s))

Fairness ==
    /\ \A w \in Writer : SF_vars(Acquire(w)) /\ WF_vars(WriterStep(w))
    /\ \A s \in Stream : WF_vars(ViewReadEnds(s)) /\ WF_vars(FirstReadEnds(s)) /\ WF_vars(HandlerStep(s))

FairSpec == Spec /\ Fairness

-----------------------------------------------------------------------------
\* No publication is lost to a listener: a handler that waits with nothing to
\* wake it has told its tab the newest revisions.  Coalescing, a wake that is
\* received before the slot is emptied, and subscriptions that race a writer
\* must all preserve this.
NoNoticeLost ==
    \A s \in Stream :
        spc[s] = "loop" /\ ~wake[s] => heard[s] = [g |-> globalRev, u |-> rev[UserOf[s]]]

\* A tab whose view is as new as everything it was told shows everything that
\* was published, also to nobody: a revision is never handed out with data
\* older than what it stands for, across evictions of the account's record.
ViewCurrent ==
    \A s \in Stream :
        /\ spc[s] = "loop" /\ ~wake[s]
        /\ view[s].g >= heard[s].g /\ view[s].u >= heard[s].u
        => view[s].gData >= pubG /\ view[s].uData >= pubU[UserOf[s]]

\* A coalesced notice never carries the token of a context once its replacement
\* was published, even when reading the replacement back failed.
PendingContextCurrent ==
    \A s \in Stream : pending[s].context \in {NoToken, pubCtx[UserOf[s]]}

\* "Idle user records can therefore be evicted without rolling a returning
\* cursor back" (posting_updates.go:17): whatever a tab was told or shows, the
\* record of its account has reached it, also after eviction and return.
CursorNeverRollsBack ==
    \A s \in Stream :
        rev[UserOf[s]] # 0 =>
            /\ heard[s].u <= rev[UserOf[s]]
            /\ answer[s].u <= rev[UserOf[s]]
            /\ view[s].u <= rev[UserOf[s]]

\* The listener count that admission depends on is exact, and an account has a
\* record exactly while it has listeners.
CountsExact ==
    /\ total = Cardinality({s \in Stream : IsOpen(s)})
    /\ \A u \in User : rev[u] # 0 <=> ListenersOf(u) # {}

\* The hub's maps and counters are exact: an account has a record exactly while
\* it has listeners, and dropping and making records anew never takes a reader's
\* cursor back (posting_updates.go).
RecordsExact == TypeOK /\ CountsExact /\ CursorNeverRollsBack

\* The barrier does not deadlock: whoever began a write gets through it.
WriterFinishes == \A w \in Writer : wpc[w] # "idle" ~> wpc[w] = "idle"

\* Every revision published while a stream is open reaches its tab.
EventuallyTold ==
    \A s \in Stream : \A k \in 1 .. MaxWrites :
        globalRev = k /\ IsOpen(s) ~> heard[s].g >= k \/ ~IsOpen(s)
================================================================================
