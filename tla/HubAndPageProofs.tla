---------------------------- MODULE HubAndPageProofs ----------------------------
(***************************************************************************)
(* Theorems of module PostingHub, for any number of accounts, locks, writers *)
(* and tabs, any limits and any bounds: no notice is lost, no token and no   *)
(* view outlives what it stands for, and cursors never roll back; and of     *)
(* module PostingPage, for any contexts and any bounds: a page that is on is *)
(* never stranded with a view it should not show, and shows nothing from     *)
(* before a change of context it was told of.                                *)
(***************************************************************************)
EXTENDS PostingHub, PostingPage, FiniteSetTheorems, TLAPS

-----------------------------------------------------------------------------
(* The hub.  What makes its theorems inductive is where a publication can  *)
(* be while its tab has not heard of it (AllTold), and that no writer that *)
(* may publish shares the barrier with a view that has its snapshot and    *)
(* not yet its revisions (ViewsApart).                                     *)

\* What a writer that is past the idle state has begun.
KindsFit ==
    \A w \in Writer :
        /\ wpc[w] = "wantGlobal" => op[w].kind = "global"
        /\ wpc[w] \in {"wantRead", "wantUser"} => op[w].kind \in {"user", "context"}
        /\ wpc[w] \in InRegion => op[w].kind # "none"

\* A view that holds the barrier shares it with no writer of its account or of
\* everyone's data.
ViewsApart ==
    \A s \in Reading : \A w \in Writer :
        wpc[w] \in InRegion => ~IsGlobal(w) /\ LockOf[op[w].user] # LockOf[UserOf[s]]

WriterTypes ==
    /\ wpc \in [Writer -> {"idle", "wantGlobal", "wantRead", "wantUser", "locked", "committed"}]
    /\ op \in [Writer -> Op]
Barrier == WriterTypes /\ KindsFit /\ ViewsApart

\* What was published is not newer than the data.
Data ==
    /\ gData \in Nat /\ uData \in [User -> Nat] /\ ctx \in [User -> Nat]
    /\ pubG \in Nat /\ pubU \in [User -> Nat] /\ pubCtx \in [User -> Nat]
    /\ pubG <= gData /\ \A u \in User : pubU[u] <= uData[u]

\* Records and counts, and the clock that every record came from.
HubTypes == globalRev \in Nat /\ rev \in [User -> Nat] /\ total \in Nat /\ clock \in Nat
Records == HubTypes /\ CountsExact /\ \A u \in User : rev[u] <= clock

StreamTypes ==
    /\ spc \in [Stream -> Open \cup {"off"}]
    /\ wake \in [Stream -> BOOLEAN]
    /\ pending \in [Stream -> Notice] /\ inHand \in [Stream -> Notice]
    /\ heard \in [Stream -> [g : Nat, u : Nat]]

\* The slot and the hand are empty when nothing announces them.
SlotsEmpty ==
    \A s \in Stream :
        /\ ~wake[s] /\ spc[s] # "woken" => pending[s] = NoNotice
        /\ spc[s] # "emit" => inHand[s] = NoNotice
        /\ ~IsOpen(s) => ~wake[s]
Slots == StreamTypes /\ SlotsEmpty

ViewTypes == read \in [Stream -> {"none", "reading", "answered"}] /\ answer \in [Stream -> View] /\ view \in [Stream -> View]

\* Revisions that were handed out to an account are behind its record and,
\* without one, behind the clock its next record comes from.
NotTold(n, u) == n.g <= globalRev /\ n.u <= clock /\ (rev[u] # 0 => n.u <= rev[u])
AllBehind ==
    \A s \in Stream : \A n \in {heard[s], pending[s], inHand[s], answer[s], view[s]} : NotTold(n, UserOf[s])

\* The newest revisions are in what the tab heard, in the handler's hand or in the slot.
Told(s) ==
    /\ globalRev \in {heard[s].g, inHand[s].g, pending[s].g}
    /\ rev[UserOf[s]] \in {heard[s].u, inHand[s].u, pending[s].u}
AllTold == \A s \in Stream : spc[s] \in {"emit", "loop", "woken"} => Told(s)

\* A view with the newest revisions shows everything that was published, and so
\* does a snapshot whose revisions are still to be taken.
Fits(v, u) ==
    v.u # 0 =>
        /\ v.g = globalRev => v.gData >= pubG
        /\ rev[u] # 0 /\ v.u >= rev[u] => v.uData >= pubU[u]
SnapshotFits(s) ==
    read[s] = "reading" =>
        answer[s].u = 0 /\ answer[s].gData >= pubG /\ answer[s].uData >= pubU[UserOf[s]]
ViewsFit == \A s \in Stream : Fits(answer[s], UserOf[s]) /\ Fits(view[s], UserOf[s]) /\ SnapshotFits(s)

HubIInv == /\ Barrier /\ Data /\ Records /\ Slots /\ ViewTypes
        /\ AllBehind /\ AllTold /\ PendingContextCurrent /\ ViewsFit

USE HubAssumption

-----------------------------------------------------------------------------
(* Facts about the records.                                                  *)

LEMMA NoOpTyped == NoOp \in Op /\ NoOp.kind = "none" /\ NoOp.user \in User
  BY DEF NoOp, Op

LEMMA NoNoticeFields ==
  /\ NoNotice \in Notice
  /\ NoNotice.g = 0 /\ NoNotice.u = 0 /\ NoNotice.context = 0 /\ ~NoNotice.changed /\ ~NoNotice.resync
  BY DEF NoNotice, Revisions, Notice, NoToken

LEMMA NoViewFields == NoView \in View /\ NoView.g = 0 /\ NoView.u = 0
  BY DEF NoView, View

\* What coalescing keeps: the larger revisions, and the token of the notice
\* unless the notice says nothing of the context.
LEMMA Merged ==
  ASSUME Slots, NEW s \in Stream, NEW n \in Notice
  PROVE  /\ Merge(s, n) \in Notice
         /\ Merge(s, n).g = Larger(n.g, pending[s].g) /\ Merge(s, n).u = Larger(n.u, pending[s].u)
         /\ Merge(s, n).context = IF n.context = NoToken /\ ~n.changed THEN pending[s].context ELSE n.context
  BY DEF Merge, Larger, Notice, Slots, StreamTypes, NoToken

LEMMA Enqueued ==
  ASSUME Slots, NEW S \in SUBSET Stream, \A s \in S : IsOpen(s), NEW n \in Notice, Enqueue(S, n),
         UNCHANGED <<spc, inHand, heard>>
  PROVE  /\ Slots'
         /\ \A s \in Stream : s \notin S => pending'[s] = pending[s]
         /\ \A s \in S : /\ pending'[s].g = Larger(n.g, pending[s].g) /\ pending'[s].u = Larger(n.u, pending[s].u)
                         /\ pending'[s].context = IF n.context = NoToken /\ ~n.changed
                                                  THEN pending[s].context ELSE n.context
<1>1. /\ pending' \in [Stream -> Notice] /\ wake' \in [Stream -> BOOLEAN]
      /\ \A s \in S : pending'[s] = Merge(s, n) /\ wake'[s]
      /\ \A s \in Stream \ S : pending'[s] = pending[s] /\ wake'[s] = wake[s]
  BY Merged DEF Enqueue, Slots, StreamTypes
<1>2. Slots'
  BY <1>1 DEF Slots, StreamTypes, SlotsEmpty, IsOpen
<1> QED
  BY <1>1, <1>2, Merged


-----------------------------------------------------------------------------
(* The initial states.                                                       *)

LEMMA InitInv == Init => HubIInv
<1> SUFFICES ASSUME Init PROVE HubIInv
  OBVIOUS
<1>1. Barrier
  BY NoOpTyped DEF Init, Barrier, WriterTypes, KindsFit, ViewsApart, Reading, InRegion, IsGlobal
<1>2. Data /\ Slots /\ ViewTypes
  BY NoNoticeFields, NoViewFields
     DEF Init, Data, Slots, StreamTypes, SlotsEmpty, ViewTypes, IsOpen, Open
<1>3. {s \in Stream : IsOpen(s)} = {} /\ \A u \in User : ListenersOf(u) = {}
  BY DEF Init, IsOpen, Open, ListenersOf
<1>4. Records
  <2>1. Cardinality({s \in Stream : IsOpen(s)}) = 0
    BY <1>3, FS_EmptySet
  <2>2. HubTypes /\ \A u \in User : rev[u] = 0 /\ rev[u] <= clock
    BY DEF Init, HubTypes
  <2>3. total = 0
    BY DEF Init
  <2> QED
    BY <1>3, <2>1, <2>2, <2>3 DEF Records, CountsExact
<1>5. ASSUME NEW s \in Stream, NEW n \in {heard[s], pending[s], inHand[s], answer[s], view[s]}
      PROVE  n.g = 0 /\ n.u = 0
  <2>1. heard[s].g = 0 /\ heard[s].u = 0 /\ pending[s] = NoNotice /\ inHand[s] = NoNotice
        /\ answer[s] = NoView /\ view[s] = NoView
    BY DEF Init
  <2> QED
    BY <2>1, NoNoticeFields, NoViewFields
<1>6. AllBehind
  BY <1>5 DEF Init, AllBehind, NotTold
<1>7. AllTold
  BY DEF Init, AllTold
<1>8. PendingContextCurrent /\ ViewsFit
  BY NoNoticeFields, NoViewFields DEF Init, PendingContextCurrent, ViewsFit, Fits, SnapshotFits, NoToken
<1> QED
  BY <1>1, <1>2, <1>4, <1>6, <1>7, <1>8 DEF HubIInv

-----------------------------------------------------------------------------
(* The barrier.                                                              *)

\* Locks are taken past no view, and views begin past no writer.
LEMMA BarrierStep ==
  ASSUME Barrier, ViewTypes, [Next]_vars
  PROVE  Barrier'
<1> USE DEF Barrier, WriterTypes, KindsFit, ViewsApart, InRegion, IsGlobal, Reading
<1>1. CASE UNCHANGED <<writerVars, read>>
  BY <1>1 DEF writerVars
<1>2. ASSUME NEW w \in Writer, BeginGlobal(w) PROVE Barrier'
  BY <1>2, NoOpTyped DEF BeginGlobal, Op, viewVars
<1>3. ASSUME NEW w \in Writer, NEW u \in User, NEW kind \in {"user", "context"}, BeginUser(w, u, kind)
      PROVE  Barrier'
  BY <1>3 DEF BeginUser, Op, viewVars
<1>4. ASSUME NEW w \in Writer, LockGlobal(w) PROVE Barrier'
  BY <1>4 DEF LockGlobal, viewVars
<1>5. ASSUME NEW w \in Writer, RLockGlobal(w) PROVE Barrier'
  BY <1>5 DEF RLockGlobal, viewVars
<1>6. ASSUME NEW w \in Writer, LockUser(w) PROVE Barrier'
  BY <1>6 DEF LockUser, viewVars
<1>7. ASSUME NEW w \in Writer, Mutate(w) PROVE Barrier'
  BY <1>7 DEF Mutate, viewVars
<1>8. ASSUME NEW w \in Writer, EndWrite(w), UNCHANGED viewVars PROVE Barrier'
  BY <1>8, NoOpTyped DEF EndWrite, viewVars
<1>9. ASSUME NEW w \in Writer, WriterStep(w) PROVE Barrier'
  BY <1>4, <1>5, <1>6, <1>7, <1>8, <1>9 DEF WriterStep, MutateFails, PublishGlobal, PublishUser
<1>10. ASSUME NEW u \in User, StatusChanged(u) PROVE UNCHANGED <<writerVars, read>>
  BY <1>10 DEF StatusChanged, viewVars
<1>11. ASSUME NEW s \in Stream, Subscribe(s) \/ HandlerStep(s) \/ Close(s) PROVE UNCHANGED <<writerVars, read>>
  BY <1>11 DEF Subscribe, HandlerStep, InitialRead, Emit, ReceiveWake, Take, Close, viewVars
<1>12. ASSUME NEW s \in Stream, BeginView(s) PROVE Barrier'
  BY <1>12 DEF BeginView, CanRead, GlobalHeld, UserLockHeld, writerVars, ViewTypes
<1>13. ASSUME NEW s \in Stream, LoadView(s) \/ ApplyView(s) \/ AbortRead(s) PROVE Barrier'
  BY <1>13 DEF LoadView, ApplyView, AbortRead, writerVars, ViewTypes
<1> QED
  BY <1>1, <1>2, <1>3, <1>9, <1>10, <1>11, <1>12, <1>13 DEF Next, vars, viewVars

-----------------------------------------------------------------------------
(* A writer's moves.                                                         *)

\* A move towards the barrier.
LEMMA QuietStep ==
  ASSUME HubIInv, Barrier', UNCHANGED <<dataVars, pubVars, hubVars, streamVars, viewVars>>
  PROVE  HubIInv'
<1> USE DEF dataVars, pubVars, hubVars, streamVars, viewVars
<1>1. Data' /\ Slots' /\ ViewTypes'
  BY DEF HubIInv, Data, Slots, StreamTypes, SlotsEmpty, ViewTypes, IsOpen
<1>2. Records'
  BY DEF HubIInv, Records, HubTypes, CountsExact, ListenersOf, IsOpen
<1>3. AllBehind' /\ AllTold'
  BY DEF HubIInv, AllBehind, NotTold, AllTold, Told
<1>4. PendingContextCurrent' /\ ViewsFit'
  BY DEF HubIInv, PendingContextCurrent, ViewsFit, Fits, SnapshotFits
<1> QED
  BY <1>1, <1>2, <1>3, <1>4 DEF HubIInv

LEMMA BeginStep ==
  ASSUME HubIInv, Barrier', NEW w \in Writer,
         BeginGlobal(w) \/ (\E u \in User, kind \in {"user", "context"} : BeginUser(w, u, kind))
         \/ LockGlobal(w) \/ RLockGlobal(w) \/ LockUser(w)
  PROVE  HubIInv'
<1>1. UNCHANGED <<dataVars, pubVars, hubVars, streamVars, viewVars>>
  BY DEF BeginGlobal, BeginUser, LockGlobal, RLockGlobal, LockUser
<1> QED
  BY <1>1, QuietStep

\* A mutation that commits, or fails with all, some or nothing of it done: the
\* data moves ahead of what was published, or stays.
LEMMA MutateStep ==
  ASSUME HubIInv, Barrier', NEW w \in Writer, Mutate(w) \/ MutateFails(w)
  PROVE  HubIInv'
<1>1. UNCHANGED <<pubVars, hubVars, streamVars, viewVars>> /\ (ChangeData(w) \/ UNCHANGED dataVars)
  BY DEF Mutate, MutateFails
<1> USE DEF pubVars, hubVars, streamVars, viewVars
<1>2. Slots' /\ ViewTypes'
  BY <1>1 DEF HubIInv, Slots, StreamTypes, SlotsEmpty, ViewTypes, IsOpen
<1>3. Records'
  BY <1>1 DEF HubIInv, Records, HubTypes, CountsExact, ListenersOf, IsOpen
<1>4. AllBehind' /\ AllTold'
  BY <1>1 DEF HubIInv, AllBehind, NotTold, AllTold, Told
<1>5. Data'
  <2>1. Data /\ op[w].user \in User
    BY DEF HubIInv, Barrier, WriterTypes, Op
  <2>2. CASE UNCHANGED dataVars
    BY <1>1, <2>1, <2>2 DEF Data, dataVars
  <2>3. CASE ChangeData(w)
    <3>1. \/ gData' = gData + 1 /\ uData' = uData /\ ctx' = ctx
          \/ /\ gData' = gData /\ uData' = [uData EXCEPT ![op[w].user] = @ + 1]
             /\ ctx' \in {ctx, [ctx EXCEPT ![op[w].user] = uData'[op[w].user]]}
      BY <2>3 DEF ChangeData
    <3>2. uData' \in [User -> Nat] /\ gData' \in Nat /\ gData <= gData' /\ \A u \in User : uData[u] <= uData'[u]
      BY <2>1, <3>1 DEF Data
    <3>3. ctx' \in [User -> Nat]
      BY <2>1, <3>1, <3>2 DEF Data
    <3> QED
      BY <1>1, <2>1, <3>2, <3>3 DEF Data
  <2> QED
    BY <1>1, <2>2, <2>3
<1>6. PendingContextCurrent' /\ ViewsFit'
  BY <1>1 DEF HubIInv, PendingContextCurrent, ViewsFit, Fits, SnapshotFits
<1> QED
  BY <1>2, <1>3, <1>4, <1>5, <1>6 DEF HubIInv

\* finish for everyone: no view is between its snapshot and its revisions, and the
\* new revision is in the slot of every open listener.
LEMMA PublishGlobalStep ==
  ASSUME HubIInv, Barrier', NEW w \in Writer, PublishGlobal(w)
  PROVE  HubIInv'
<1> DEFINE S == {s \in Stream : IsOpen(s)}
           n == Revisions(globalRev', 0)
<1>1. /\ wpc[w] = "committed" /\ IsGlobal(w) /\ globalRev' = globalRev + 1 /\ Enqueue(S, n) /\ EndWrite(w)
      /\ pubG' = gData /\ UNCHANGED <<dataVars, pubU, pubCtx, rev, total, clock, spc, inHand, heard, viewVars>>
  BY DEF PublishGlobal
<1> USE DEF dataVars, viewVars
<1>2. /\ n \in Notice /\ n.g = globalRev + 1 /\ n.u = 0 /\ n.context = NoToken /\ ~n.changed
  <2>1. globalRev' \in Nat
    BY <1>1 DEF HubIInv, Records, HubTypes
  <2> QED
    BY <1>1, <2>1 DEF Revisions, Notice, NoToken
<1>3. /\ Slots'
      /\ \A s \in Stream : s \notin S => pending'[s] = pending[s]
      /\ \A s \in S : /\ pending'[s].g = Larger(n.g, pending[s].g) /\ pending'[s].u = Larger(n.u, pending[s].u)
                      /\ pending'[s].context = IF n.context = NoToken /\ ~n.changed
                                               THEN pending[s].context ELSE n.context
  <2> HIDE DEF n
  <2> QED
    BY <1>1, <1>2, Enqueued DEF HubIInv
<1>4. Reading = {}
  BY <1>1 DEF HubIInv, Barrier, ViewsApart, InRegion
<1>5. /\ HubTypes /\ UserOf \in [Stream -> User]
      /\ \A s \in Stream : pending[s] \in Notice
  BY DEF HubIInv, Records, Slots, StreamTypes
<1>6. \A s \in S : pending'[s].g = globalRev + 1 /\ pending'[s].u = pending[s].u
                   /\ pending'[s].context = pending[s].context
  BY <1>2, <1>3, <1>5 DEF HubIInv, AllBehind, NotTold, Larger, Notice, HubTypes
<1>7. Data' /\ ViewTypes'
  BY <1>1 DEF HubIInv, Data, ViewTypes
<1>8. Records'
  BY <1>1, <1>5 DEF HubIInv, Records, HubTypes, CountsExact, ListenersOf, IsOpen
<1>9. AllBehind'
  <2>1. ASSUME NEW s \in Stream, NEW CONSTANT m, m \in {heard[s], inHand[s], answer[s], view[s], pending[s]}
        PROVE  NotTold(m, UserOf[s])'
    <3>1. m.g \in Nat /\ NotTold(m, UserOf[s])
      BY <2>1, <1>5 DEF HubIInv, AllBehind, Slots, StreamTypes, ViewTypes, Notice, View
    <3> QED
      BY <1>1, <1>5, <3>1 DEF NotTold, HubTypes
  <2>2. ASSUME NEW s \in Stream, s \in S PROVE NotTold(pending[s], UserOf[s])'
    BY <1>1, <1>5, <1>6, <2>1, <2>2 DEF NotTold, HubTypes
  <2> QED
    BY <1>1, <1>3, <2>1, <2>2 DEF AllBehind
<1>10. AllTold'
  BY <1>1, <1>3, <1>6 DEF HubIInv, AllTold, Told, IsOpen, Open
<1>11. PendingContextCurrent'
  BY <1>1, <1>3, <1>6 DEF HubIInv, PendingContextCurrent
<1>12. ViewsFit'
  <2>1. \A s \in Stream : answer[s].g <= globalRev /\ view[s].g <= globalRev
    BY DEF HubIInv, AllBehind, NotTold
  <2> QED
    BY <1>1, <1>4, <1>5, <2>1 DEF HubIInv, ViewsFit, Fits, SnapshotFits, Reading, HubTypes, ViewTypes, View
<1> QED
  BY <1>3, <1>7, <1>8, <1>9, <1>10, <1>11, <1>12 DEF HubIInv

\* finish for one account: no view of the account is between its snapshot and its
\* revisions.
LEMMA PublishUserStep ==
  ASSUME HubIInv, Barrier', NEW w \in Writer, NEW token \in Nat, PublishUser(w, token)
  PROVE  HubIInv'
<1> DEFINE u == op[w].user
           changed == op[w].kind = "context"
           n == [g |-> globalRev, u |-> rev'[u], context |-> token, changed |-> changed, resync |-> changed]
<1>1. /\ wpc[w] = "committed" /\ ~IsGlobal(w) /\ EndWrite(w)
      /\ token \in {NoToken, ctx[u]} /\ (~changed => token = NoToken)
      /\ pubU' = [pubU EXCEPT ![u] = uData[u]]
      /\ pubCtx' = IF changed THEN [pubCtx EXCEPT ![u] = ctx[u]] ELSE pubCtx
      /\ UNCHANGED <<dataVars, pubG, globalRev, total, spc, inHand, heard, viewVars>>
  BY DEF PublishUser
<1> USE DEF dataVars, viewVars
<1>2. u \in User /\ \A s \in Reading : UserOf[s] # u
  BY <1>1 DEF HubIInv, Barrier, WriterTypes, Op, ViewsApart, InRegion
<1>3. /\ HubTypes /\ UserOf \in [Stream -> User] /\ rev[u] \in Nat /\ rev[u] <= clock
      /\ \A s \in Stream : pending[s] \in Notice
  BY <1>2 DEF HubIInv, Records, HubTypes, Slots, StreamTypes
<1>4. /\ Data' /\ ViewTypes'
      /\ \A v \in User \ {u} : pubU'[v] = pubU[v] /\ pubCtx'[v] = pubCtx[v]
      /\ pubCtx'[u] = IF changed THEN ctx[u] ELSE pubCtx[u]
  BY <1>1, <1>2 DEF HubIInv, Data, ViewTypes
<1>5. CASE rev[u] = 0
  <2>1. UNCHANGED <<rev, clock, pending, wake>>
    BY <1>5 DEF PublishUser
  <2>2. \A s \in Stream : UserOf[s] = u => pending[s].context = NoToken
    BY <1>2, <1>5, NoNoticeFields
       DEF HubIInv, Records, CountsExact, ListenersOf, Slots, SlotsEmpty, IsOpen, Open, NoToken
  <2>3. Slots' /\ Records' /\ AllBehind' /\ AllTold'
    BY <1>1, <2>1 DEF HubIInv, Slots, StreamTypes, SlotsEmpty, Records, HubTypes, CountsExact, ListenersOf,
                      IsOpen, AllBehind, NotTold, AllTold, Told
  <2>4. PendingContextCurrent'
    BY <1>3, <1>4, <2>1, <2>2 DEF HubIInv, PendingContextCurrent
  <2>5. ViewsFit'
    BY <1>1, <1>2, <1>3, <1>4, <1>5, <2>1 DEF HubIInv, ViewsFit, Fits, SnapshotFits, Reading
  <2> QED
    BY <1>4, <2>3, <2>4, <2>5 DEF HubIInv
<1>6. CASE rev[u] # 0
  <2> DEFINE S == ListenersOf(u)
  <2>1. /\ clock' = clock + 1 /\ rev' = [rev EXCEPT ![u] = Larger(@ + 1, clock')] /\ Enqueue(S, n)
    BY <1>6 DEF PublishUser
  <2>2. /\ rev'[u] = clock + 1 /\ rev' \in [User -> Nat] /\ \A v \in User \ {u} : rev'[v] = rev[v]
    BY <1>2, <1>3, <2>1 DEF HubTypes, Larger
  <2>3. n \in Notice
    BY <1>3, <2>2 DEF Notice, HubTypes
  <2>4. /\ n.g = globalRev /\ n.u = clock + 1 /\ n.context = token /\ n.changed = changed
    BY <2>2
  <2>5. S \in SUBSET Stream /\ \A s \in Stream : s \in S <=> IsOpen(s) /\ UserOf[s] = u
    BY DEF ListenersOf
  <2> HIDE DEF n, S
  <2>6. /\ Slots'
        /\ \A s \in Stream : s \notin S => pending'[s] = pending[s]
        /\ \A s \in S : /\ pending'[s].g = Larger(n.g, pending[s].g) /\ pending'[s].u = Larger(n.u, pending[s].u)
                        /\ pending'[s].context = IF n.context = NoToken /\ ~n.changed
                                                 THEN pending[s].context ELSE n.context
    BY <1>1, <2>1, <2>3, <2>5, Enqueued DEF HubIInv
  <2>7. \A s \in S : pending[s].g <= globalRev /\ pending[s].u <= clock /\ pending[s].g \in Nat /\ pending[s].u \in Nat
    BY <1>3, <2>5 DEF HubIInv, AllBehind, NotTold, Notice
  <2>8. \A s \in S : pending'[s].g = globalRev /\ pending'[s].u = clock + 1
    BY <1>3, <2>4, <2>6, <2>7 DEF Larger, HubTypes
  <2>9. Records'
    BY <1>1, <1>2, <1>3, <1>6, <2>1, <2>2
       DEF HubIInv, Records, HubTypes, CountsExact, ListenersOf, IsOpen
  <2>10. AllBehind'
    <3>1. ASSUME NEW s \in Stream, NEW CONSTANT m, m \in {heard[s], inHand[s], answer[s], view[s], pending[s]}
          PROVE  NotTold(m, UserOf[s])'
      <4>1. m.u \in Nat /\ m.g \in Nat /\ NotTold(m, UserOf[s]) /\ UserOf[s] \in User
        BY <1>3, <3>1 DEF HubIInv, AllBehind, Slots, StreamTypes, ViewTypes, Notice, View
      <4> QED
        BY <1>1, <1>3, <1>6, <2>1, <2>2, <4>1 DEF NotTold, HubTypes
    <3>2. ASSUME NEW s \in Stream, s \in S PROVE NotTold(pending[s], UserOf[s])'
      BY <3>2, <1>1, <1>3, <2>1, <2>2, <2>5, <2>8 DEF NotTold, HubTypes
    <3> QED
      BY <1>1, <2>6, <3>1, <3>2 DEF AllBehind
  <2>11. AllTold'
    BY <1>1, <1>3, <2>2, <2>5, <2>6, <2>8 DEF HubIInv, AllTold, Told, IsOpen, Open
  <2>12. PendingContextCurrent'
    <3>1. ASSUME NEW s \in S PROVE pending'[s].context \in {NoToken, pubCtx'[u]}
      BY <1>1, <1>4, <2>4, <2>5, <2>6 DEF HubIInv, PendingContextCurrent
    <3>2. ASSUME NEW s \in Stream \ S, UserOf[s] = u PROVE pending[s].context = NoToken
      BY <2>5, <3>2, NoNoticeFields DEF HubIInv, Slots, SlotsEmpty, IsOpen, Open, NoToken
    <3> QED
      BY <1>3, <1>4, <2>5, <2>6, <3>1, <3>2 DEF HubIInv, PendingContextCurrent
  <2>13. ViewsFit'
    <3>1. ASSUME NEW s \in Stream, NEW CONSTANT m, m \in {answer[s], view[s]} PROVE Fits(m, UserOf[s])'
      <4>1. m.u \in Nat /\ NotTold(m, UserOf[s]) /\ UserOf[s] \in User /\ Fits(m, UserOf[s])
        BY <1>3, <3>1 DEF HubIInv, AllBehind, ViewTypes, View, ViewsFit
      <4>2. CASE UserOf[s] = u
        BY <1>1, <1>2, <1>3, <1>6, <2>2, <4>1, <4>2 DEF Fits, NotTold, HubTypes
      <4>3. CASE UserOf[s] # u
        BY <1>1, <1>4, <2>2, <4>1, <4>3 DEF Fits
      <4> QED
        BY <4>2, <4>3
    <3>2. ASSUME NEW s \in Stream PROVE SnapshotFits(s)'
      BY <1>1, <1>2, <1>3, <1>4 DEF HubIInv, ViewsFit, SnapshotFits, Reading
    <3> QED
      BY <1>1, <3>1, <3>2 DEF ViewsFit
  <2> QED
    BY <1>4, <2>6, <2>9, <2>10, <2>11, <2>12, <2>13 DEF HubIInv
<1> QED
  BY <1>5, <1>6

-----------------------------------------------------------------------------
(* Status changes and the event stream.                                      *)

\* The facts about one tab's notices and views that every step below needs.
LEMMA TabTypes ==
  ASSUME HubIInv, NEW s \in Stream
  PROVE  /\ UserOf[s] \in User /\ globalRev \in Nat /\ clock \in Nat
         /\ rev[UserOf[s]] \in Nat /\ rev[UserOf[s]] <= clock
         /\ IsOpen(s) => rev[UserOf[s]] # 0
         /\ pending[s] \in Notice /\ inHand[s] \in Notice /\ heard[s] \in [g : Nat, u : Nat]
         /\ answer[s] \in View /\ view[s] \in View
         /\ \A n \in {heard[s], pending[s], inHand[s], answer[s], view[s]} :
               n.g \in Nat /\ n.u \in Nat /\ NotTold(n, UserOf[s])
<1>1. UserOf[s] \in User
  OBVIOUS
<1>2. IsOpen(s) => s \in ListenersOf(UserOf[s])
  BY DEF ListenersOf
<1>3. IsOpen(s) => rev[UserOf[s]] # 0
  BY <1>1, <1>2 DEF HubIInv, Records, CountsExact
<1> QED
  BY <1>1, <1>3 DEF HubIInv, Records, HubTypes, Slots, StreamTypes, ViewTypes, AllBehind, Notice, View

\* A notice in the slot of every listener of an account, outside the barrier:
\* the revisions as they are.
LEMMA StatusChangedStep ==
  ASSUME HubIInv, Barrier', NEW u \in User, StatusChanged(u)
  PROVE  HubIInv'
<1> DEFINE S == ListenersOf(u)
           n == Revisions(globalRev, rev[u])
<1>1. /\ Enqueue(S, n)
      /\ UNCHANGED <<writerVars, dataVars, pubVars, hubVars, spc, inHand, heard, viewVars>>
  BY DEF StatusChanged
<1> USE DEF writerVars, dataVars, pubVars, hubVars, viewVars
<1>2. S \in SUBSET Stream /\ \A s \in Stream : s \in S <=> IsOpen(s) /\ UserOf[s] = u
  BY DEF ListenersOf
<1>3. n \in Notice /\ n.g = globalRev /\ n.u = rev[u] /\ n.context = NoToken /\ ~n.changed
  BY DEF Revisions, Notice, NoToken, HubIInv, Records, HubTypes
<1> HIDE DEF n, S
<1>4. /\ Slots'
      /\ \A s \in Stream : s \notin S => pending'[s] = pending[s]
      /\ \A s \in S : /\ pending'[s].g = Larger(n.g, pending[s].g) /\ pending'[s].u = Larger(n.u, pending[s].u)
                      /\ pending'[s].context = IF n.context = NoToken /\ ~n.changed
                                               THEN pending[s].context ELSE n.context
  BY <1>1, <1>2, <1>3, Enqueued DEF HubIInv
<1>5. \A s \in S : /\ pending'[s].g = globalRev /\ pending'[s].u = rev[u]
                   /\ pending'[s].context = pending[s].context
  <2>1. ASSUME NEW s \in Stream, s \in S
        PROVE  /\ pending[s].g \in Nat /\ pending[s].u \in Nat /\ pending[s].g <= globalRev
               /\ pending[s].u <= rev[u] /\ globalRev \in Nat /\ rev[u] \in Nat
    BY <1>2, <2>1, TabTypes DEF NotTold
  <2> QED
    BY <1>2, <1>3, <1>4, <2>1 DEF Larger
<1>6. Data' /\ ViewTypes' /\ Records'
  BY <1>1 DEF HubIInv, Data, ViewTypes, Records, HubTypes, CountsExact, ListenersOf, IsOpen
<1>7. AllBehind' /\ AllTold'
  <2>1. ASSUME NEW s \in Stream PROVE NotTold(pending[s], UserOf[s])'
    <3>1. CASE s \in S
      BY <1>1, <1>2, <1>5, <3>1, TabTypes DEF NotTold
    <3>2. CASE s \notin S
      BY <1>1, <1>4, <3>2, TabTypes DEF NotTold
    <3> QED
      BY <3>1, <3>2
  <2>2. AllBehind'
    BY <1>1, <2>1 DEF HubIInv, AllBehind, NotTold
  <2>3. AllTold'
    BY <1>1, <1>2, <1>4, <1>5 DEF HubIInv, AllTold, Told
  <2> QED
    BY <2>2, <2>3
<1>8. PendingContextCurrent' /\ ViewsFit'
  BY <1>1, <1>2, <1>4, <1>5
     DEF HubIInv, PendingContextCurrent, ViewsFit, Fits, SnapshotFits
<1> QED
  BY <1>4, <1>6, <1>7, <1>8 DEF HubIInv

\* The first listener takes a revision past everything its account was given.
LEMMA SubscribeStep ==
  ASSUME HubIInv, Barrier', NEW s \in Stream, Subscribe(s)
  PROVE  HubIInv'
<1> DEFINE u == UserOf[s]
<1>1. /\ spc[s] = "off" /\ total' = total + 1 /\ spc' = [spc EXCEPT ![s] = "subscribed"]
      /\ wake' = [wake EXCEPT ![s] = FALSE] /\ pending' = [pending EXCEPT ![s] = NoNotice]
      /\ UNCHANGED <<writerVars, dataVars, pubVars, globalRev, inHand, heard, viewVars>>
      /\ \/ rev[u] = 0 /\ clock' = clock + 1 /\ rev' = [rev EXCEPT ![u] = clock']
         \/ rev[u] # 0 /\ UNCHANGED <<clock, rev>>
  BY DEF Subscribe
<1> USE DEF writerVars, dataVars, pubVars, viewVars
<1>2. Data' /\ ViewTypes'
  BY <1>1 DEF HubIInv, Data, ViewTypes
<1>3. Slots'
  BY <1>1, NoNoticeFields DEF HubIInv, Slots, StreamTypes, SlotsEmpty, IsOpen, Open
<1>4. \A t \in Stream : IsOpen(t)' <=> IsOpen(t) \/ t = s
  BY <1>1 DEF HubIInv, Slots, StreamTypes, IsOpen, Open
<1>5. ~IsOpen(s) /\ u \in User
  BY <1>1 DEF IsOpen, Open
<1>6. /\ HubTypes' /\ rev'[u] # 0 /\ \A v \in User \ {u} : rev'[v] = rev[v]
      /\ (\A v \in User : rev'[v] <= clock') /\ clock <= clock'
      /\ rev'[u] = rev[u] \/ (rev[u] = 0 /\ rev'[u] = clock + 1)
  BY <1>1, <1>5 DEF HubIInv, Records, HubTypes
<1>7. CountsExact'
  <2>1. {t \in Stream : IsOpen(t)'} = {t \in Stream : IsOpen(t)} \cup {s}
    BY <1>4
  <2>2. IsFiniteSet({t \in Stream : IsOpen(t)})
    <3> {t \in Stream : IsOpen(t)} \in SUBSET Stream
      OBVIOUS
    <3> QED
      BY FS_Subset
  <2>3. Cardinality({t \in Stream : IsOpen(t)'}) = total + 1
    BY <1>5, <2>1, <2>2, FS_AddElement DEF HubIInv, Records, CountsExact
  <2>4. \A v \in User : ListenersOf(v)' = ListenersOf(v) \cup {t \in {s} : v = u}
    BY <1>4 DEF ListenersOf
  <2> QED
    BY <1>1, <1>5, <1>6, <2>3, <2>4 DEF HubIInv, Records, CountsExact
<1>8. Records'
  BY <1>6, <1>7 DEF Records
<1>9. AllBehind'
  <2>1. ASSUME NEW t \in Stream, NEW CONSTANT m, m \in {heard[t], inHand[t], answer[t], view[t], pending[t]}
        PROVE  NotTold(m, UserOf[t])'
    <3>1. m.g \in Nat /\ m.u \in Nat /\ NotTold(m, UserOf[t]) /\ UserOf[t] \in User /\ clock \in Nat /\ clock' \in Nat
      BY <2>1, <1>6, TabTypes DEF HubTypes
    <3> QED
      BY <1>1, <1>6, <3>1 DEF NotTold
  <2>2. NotTold(NoNotice, UserOf[s])'
    BY <1>6, NoNoticeFields DEF NotTold, HubTypes
  <2>3. pending'[s] = NoNotice /\ \A t \in Stream \ {s} : pending'[t] = pending[t]
    BY <1>1 DEF HubIInv, Slots, StreamTypes
  <2> QED
    BY <1>1, <2>1, <2>2, <2>3 DEF AllBehind
<1>10. AllTold'
  <2>1. ASSUME NEW t \in Stream, spc'[t] \in {"emit", "loop", "woken"} PROVE Told(t)'
    <3>1. t # s /\ spc[t] \in {"emit", "loop", "woken"} /\ pending'[t] = pending[t]
      BY <1>1, <2>1 DEF HubIInv, Slots, StreamTypes
    <3>2. rev[UserOf[t]] # 0
      BY <3>1, TabTypes DEF IsOpen, Open
    <3>3. rev'[UserOf[t]] = rev[UserOf[t]]
      BY <1>6, <3>2, TabTypes
    <3> QED
      BY <1>1, <3>1, <3>3 DEF HubIInv, AllTold, Told
  <2> QED
    BY <2>1 DEF AllTold
<1>11. PendingContextCurrent'
  BY <1>1, NoNoticeFields DEF HubIInv, PendingContextCurrent, NoToken, Slots, StreamTypes
<1>12. ViewsFit'
  <2>1. ASSUME NEW t \in Stream, NEW CONSTANT m, m \in {answer[t], view[t]} PROVE Fits(m, UserOf[t])'
    <3>1. m.u \in Nat /\ m.u <= clock /\ Fits(m, UserOf[t]) /\ UserOf[t] \in User /\ clock \in Nat
      BY <2>1, TabTypes DEF HubIInv, ViewsFit, NotTold
    <3> QED
      BY <1>1, <1>6, <3>1 DEF Fits
  <2> QED
    BY <1>1, <2>1 DEF HubIInv, ViewsFit, SnapshotFits
<1> QED
  BY <1>2, <1>3, <1>8, <1>9, <1>10, <1>11, <1>12 DEF HubIInv

\* The handler's own moves, outside the hub: its tab has heard, holds or is sent
\* the newest revisions from its first read on.
LEMMA HandlerStepInv ==
  ASSUME HubIInv, Barrier', NEW s \in Stream, HandlerStep(s)
  PROVE  HubIInv'
<1>1. /\ UNCHANGED <<writerVars, dataVars, pubVars, hubVars, viewVars>>
      /\ \A t \in Stream \ {s} : /\ spc'[t] = spc[t] /\ wake'[t] = wake[t] /\ pending'[t] = pending[t]
                                 /\ inHand'[t] = inHand[t] /\ heard'[t] = heard[t]
  BY DEF HandlerStep, InitialRead, Emit, ReceiveWake, Take, HubIInv, Slots, StreamTypes
<1> USE DEF writerVars, dataVars, pubVars, hubVars, viewVars
<1>2. Data' /\ ViewTypes' /\ ViewsFit'
  BY <1>1 DEF HubIInv, Data, ViewTypes, ViewsFit, Fits, SnapshotFits
<1>3. \A t \in Stream : IsOpen(t)' <=> IsOpen(t)
  BY DEF HandlerStep, InitialRead, Emit, ReceiveWake, Take, HubIInv, Slots, StreamTypes, IsOpen, Open
<1>4. Records'
  BY <1>1, <1>3 DEF HubIInv, Records, HubTypes, CountsExact, ListenersOf
<1>5. Slots'
  <2>1. CASE InitialRead(s)
    BY <2>1 DEF InitialRead, HubIInv, Slots, StreamTypes, SlotsEmpty, IsOpen, Open, Notice, Records, HubTypes, Data
  <2>2. CASE Emit(s)
    BY <2>2, TabTypes, NoNoticeFields
       DEF Emit, HubIInv, Slots, StreamTypes, SlotsEmpty, IsOpen, Open, Larger, Notice
  <2>3. CASE ReceiveWake(s)
    BY <2>3 DEF ReceiveWake, HubIInv, Slots, StreamTypes, SlotsEmpty, IsOpen, Open
  <2>4. CASE Take(s)
    BY <2>4, NoNoticeFields DEF Take, HubIInv, Slots, StreamTypes, SlotsEmpty, IsOpen, Open
  <2> QED
    BY <2>1, <2>2, <2>3, <2>4 DEF HandlerStep
<1> DEFINE u == UserOf[s]
\* What the tab of the moving handler is left with.
<1>6. /\ NotTold(heard'[s], u) /\ NotTold(inHand'[s], u) /\ NotTold(pending'[s], u)
      /\ globalRev \in {heard'[s].g, inHand'[s].g, pending'[s].g}
      /\ rev[u] \in {heard'[s].u, inHand'[s].u, pending'[s].u}
      /\ pending'[s].context \in {NoToken, pending[s].context}
  <2> DEFINE h == heard[s]  i == inHand[s]  n == pending[s]
  <2>1. /\ globalRev \in Nat /\ rev[u] \in Nat /\ rev[u] <= clock /\ clock \in Nat
        /\ h.g \in Nat /\ h.u \in Nat /\ NotTold(h, u) /\ i.g \in Nat /\ i.u \in Nat /\ NotTold(i, u)
        /\ n.g \in Nat /\ n.u \in Nat /\ NotTold(n, u)
    BY TabTypes
  <2>2. NotTold(NoNotice, u)
    BY <2>1, NoNoticeFields DEF NotTold
  <2>3. spc[s] \in {"emit", "loop", "woken"} => /\ globalRev \in {h.g, i.g, n.g} /\ rev[u] \in {h.u, i.u, n.u}
                                                /\ rev[u] # 0
    BY TabTypes DEF HubIInv, AllTold, Told, IsOpen, Open
  <2>4. spc[s] # "emit" => i = NoNotice
    BY DEF HubIInv, Slots, SlotsEmpty
  <2>5. CASE InitialRead(s)
    <3>1. /\ inHand'[s].g = globalRev /\ inHand'[s].u = rev[u]
          /\ heard'[s] = h /\ pending'[s] = n
      BY <2>5 DEF InitialRead, HubIInv, Slots, StreamTypes
    <3> QED
      BY <2>1, <3>1 DEF NotTold
  <2>6. CASE Emit(s)
    <3>1. /\ heard'[s] = [g |-> Larger(h.g, i.g), u |-> Larger(h.u, i.u)] /\ spc[s] = "emit"
          /\ inHand'[s] = NoNotice /\ pending'[s] = n
      BY <2>6 DEF Emit, HubIInv, Slots, StreamTypes
    <3>2. NotTold(heard'[s], u)
      BY <2>1, <3>1 DEF NotTold, Larger
    <3>3. globalRev \in {heard'[s].g, n.g} /\ rev[u] \in {heard'[s].u, n.u}
      BY <2>1, <2>3, <3>1 DEF NotTold, Larger
    <3> QED
      BY <2>1, <2>2, <3>1, <3>2, <3>3
  <2>7. CASE ReceiveWake(s)
    BY <2>1, <2>3, <2>7 DEF ReceiveWake
  <2>8. CASE Take(s)
    <3>1. inHand'[s] = n /\ pending'[s] = NoNotice /\ heard'[s] = h /\ spc[s] = "woken"
      BY <2>8 DEF Take, HubIInv, Slots, StreamTypes
    <3> QED
      BY <2>1, <2>2, <2>3, <2>4, <3>1, NoNoticeFields DEF NoToken
  <2> QED
    BY <2>5, <2>6, <2>7, <2>8 DEF HandlerStep
<1>7. AllBehind'
  BY <1>1, <1>6 DEF HubIInv, AllBehind, NotTold
<1>8. AllTold'
  BY <1>1, <1>6 DEF HubIInv, AllTold, Told
<1>9. PendingContextCurrent'
  BY <1>1, <1>2, <1>6 DEF HubIInv, PendingContextCurrent
<1> QED
  BY <1>2, <1>4, <1>5, <1>7, <1>8, <1>9 DEF HubIInv

\* A listener leaves, and takes the record of its account along when it was the last.
LEMMA CloseStep ==
  ASSUME HubIInv, Barrier', NEW s \in Stream, Close(s)
  PROVE  HubIInv'
<1> DEFINE u == UserOf[s]
<1>1. /\ IsOpen(s) /\ total' = total - 1 /\ spc' = [spc EXCEPT ![s] = "off"]
      /\ wake' = [wake EXCEPT ![s] = FALSE] /\ pending' = [pending EXCEPT ![s] = NoNotice]
      /\ inHand' = [inHand EXCEPT ![s] = NoNotice]
      /\ rev' = IF ListenersOf(u) = {s} THEN [rev EXCEPT ![u] = 0] ELSE rev
      /\ UNCHANGED <<writerVars, dataVars, pubVars, globalRev, clock, heard, viewVars>>
  BY DEF Close
<1> USE DEF writerVars, dataVars, pubVars, viewVars
<1>2. Data' /\ ViewTypes'
  BY <1>1 DEF HubIInv, Data, ViewTypes
<1>3. Slots'
  BY <1>1, NoNoticeFields DEF HubIInv, Slots, StreamTypes, SlotsEmpty, IsOpen, Open
<1>4. \A t \in Stream : IsOpen(t)' <=> IsOpen(t) /\ t # s
  BY <1>1 DEF HubIInv, Slots, StreamTypes, IsOpen, Open
<1>5. /\ u \in User /\ rev' \in [User -> Nat] /\ \A v \in User \ {u} : rev'[v] = rev[v]
      /\ rev'[u] = IF ListenersOf(u) = {s} THEN 0 ELSE rev[u]
      /\ \A v \in User : rev'[v] <= clock
  BY <1>1 DEF HubIInv, Records, HubTypes
<1>6. Records'
  <2>1. {t \in Stream : IsOpen(t)'} = {t \in Stream : IsOpen(t)} \ {s} /\ s \in {t \in Stream : IsOpen(t)}
    BY <1>1, <1>4
  <2>2. IsFiniteSet({t \in Stream : IsOpen(t)})
    <3> {t \in Stream : IsOpen(t)} \in SUBSET Stream
      OBVIOUS
    <3> QED
      BY FS_Subset
  <2>3. /\ Cardinality({t \in Stream : IsOpen(t)'}) = total - 1
        /\ Cardinality({t \in Stream : IsOpen(t)'}) \in Nat
    <3> DEFINE A == {t \in Stream : IsOpen(t)}
               B == {t \in Stream : IsOpen(t)'}
    <3>1. Cardinality(A) = total
      BY DEF HubIInv, Records, CountsExact
    <3>2. s \in A /\ B = A \ {s} /\ IsFiniteSet(A)
      BY <2>1, <2>2
    <3> HIDE DEF A, B
    <3>3. IsFiniteSet(A \ {s}) /\ Cardinality(A \ {s}) = Cardinality(A) - 1
      BY <3>2, FS_RemoveElement
    <3>4. Cardinality(A \ {s}) \in Nat
      BY <3>3, FS_CardinalityType
    <3>5. Cardinality(B) = total - 1 /\ Cardinality(B) \in Nat
      BY <3>1, <3>2, <3>3, <3>4
    <3> QED
      BY <3>5 DEF B
  <2>4. \A v \in User : ListenersOf(v)' = ListenersOf(v) \ {s}
    BY <1>4 DEF ListenersOf
  <2>5. s \in ListenersOf(u) /\ \A v \in User \ {u} : s \notin ListenersOf(v)
    BY <1>1 DEF ListenersOf
  <2>6. ASSUME NEW v \in User PROVE rev'[v] # 0 <=> ListenersOf(v)' # {}
    <3>1. rev[v] # 0 <=> ListenersOf(v) # {}
      BY DEF HubIInv, Records, CountsExact
    <3>2. CASE v = u
      BY <1>5, <2>4, <2>5, <3>1, <3>2
    <3>3. CASE v # u
      BY <1>5, <2>4, <2>5, <3>1, <3>3
    <3> QED
      BY <3>2, <3>3
  <2> QED
    BY <1>1, <1>5, <2>3, <2>6 DEF HubIInv, Records, HubTypes, CountsExact
<1>7. ASSUME NEW t \in Stream, NEW CONSTANT m, m \in {heard[t], inHand[t], answer[t], view[t], pending[t]}
      PROVE  NotTold(m, UserOf[t])' /\ m.u \in Nat
  BY <1>1, <1>5, <1>7, TabTypes DEF NotTold
<1>8. AllBehind'
  <2>1. NotTold(NoNotice, u)'
    BY <1>1, <1>5, NoNoticeFields DEF NotTold, HubIInv, Records, HubTypes
  <2> QED
    BY <1>1, <1>7, <2>1 DEF AllBehind, HubIInv, Slots, StreamTypes
<1>9. AllTold'
  <2>1. ASSUME NEW t \in Stream, spc'[t] \in {"emit", "loop", "woken"} PROVE Told(t)'
    <3>1. t # s /\ spc[t] \in {"emit", "loop", "woken"} /\ pending'[t] = pending[t] /\ inHand'[t] = inHand[t]
      BY <1>1, <2>1 DEF HubIInv, Slots, StreamTypes
    <3>2. t \in ListenersOf(UserOf[t])
      BY <3>1 DEF ListenersOf, IsOpen, Open
    <3>3. rev'[UserOf[t]] = rev[UserOf[t]]
      BY <1>5, <3>1, <3>2
    <3> QED
      BY <1>1, <3>1, <3>3 DEF HubIInv, AllTold, Told
  <2> QED
    BY <2>1 DEF AllTold
<1>10. PendingContextCurrent'
  BY <1>1, NoNoticeFields DEF HubIInv, PendingContextCurrent, NoToken, Slots, StreamTypes
<1>11. ViewsFit'
  <2>1. ASSUME NEW t \in Stream, NEW CONSTANT m, m \in {answer[t], view[t]} PROVE Fits(m, UserOf[t])'
    <3>1. Fits(m, UserOf[t]) /\ UserOf[t] \in User
      BY <2>1 DEF HubIInv, ViewsFit
    <3> QED
      BY <1>1, <1>5, <3>1 DEF Fits
  <2> QED
    BY <1>1, <2>1 DEF HubIInv, ViewsFit, SnapshotFits
<1> QED
  BY <1>2, <1>3, <1>6, <1>8, <1>9, <1>10, <1>11 DEF HubIInv

-----------------------------------------------------------------------------
(* The view request.                                                         *)

\* Moves of a request: the snapshot, the revisions and the view are of one time,
\* or as they were.
LEMMA ViewStep ==
  ASSUME HubIInv, Barrier', NEW s \in Stream, BeginView(s) \/ LoadView(s) \/ ApplyView(s) \/ AbortRead(s)
  PROVE  HubIInv'
<1> DEFINE u == UserOf[s]
<1>1. /\ UNCHANGED <<writerVars, dataVars, pubVars, globalRev, rev, total, streamVars>>
      /\ \A t \in Stream \ {s} : answer'[t] = answer[t] /\ view'[t] = view[t] /\ read'[t] = read[t]
  BY DEF BeginView, LoadView, ApplyView, AbortRead, hubVars, HubIInv, ViewTypes
<1> USE DEF writerVars, dataVars, pubVars, streamVars
<1>2. clock' \in Nat /\ clock <= clock'
  BY DEF BeginView, LoadView, ApplyView, AbortRead, hubVars, HubIInv, Records, HubTypes
<1>3. Data' /\ Slots' /\ AllTold' /\ PendingContextCurrent'
  BY <1>1 DEF HubIInv, Data, Slots, StreamTypes, SlotsEmpty, IsOpen, AllTold, Told, PendingContextCurrent
<1>4. Records'
  <2>1. \A v \in User : rev[v] \in Nat /\ rev[v] <= clock /\ clock \in Nat
    BY DEF HubIInv, Records, HubTypes
  <2>2. \A v \in User : rev'[v] <= clock'
    BY <1>1, <1>2, <2>1
  <2> QED
    BY <1>1, <1>2, <2>2 DEF HubIInv, Records, HubTypes, CountsExact, ListenersOf, IsOpen
<1>5. ASSUME NEW t \in Stream, NEW CONSTANT m, m \in {heard[t], inHand[t], answer[t], view[t], pending[t]}
      PROVE  NotTold(m, UserOf[t])'
  <2>1. m.u \in Nat /\ NotTold(m, UserOf[t]) /\ clock \in Nat
    BY <1>5, TabTypes
  <2> QED
    BY <1>1, <1>2, <2>1 DEF NotTold
<1>6. /\ ViewTypes' /\ NotTold(answer[s], u)' /\ NotTold(view[s], u)'
      /\ Fits(answer[s], u)' /\ Fits(view[s], u)' /\ SnapshotFits(s)'
  <2>1. /\ Fits(answer[s], u) /\ Fits(view[s], u) /\ SnapshotFits(s) /\ ViewTypes /\ u \in User
        /\ pubG <= gData /\ pubU[u] <= uData[u] /\ gData \in Nat /\ uData[u] \in Nat
        /\ globalRev \in Nat /\ rev[u] \in Nat /\ rev[u] <= clock /\ clock \in Nat
    BY TabTypes DEF HubIInv, ViewsFit, Data
  <2>2. \A m : Fits(m, u)' <=> Fits(m, u)
    BY <1>1 DEF Fits
  <2>3. NoView \in View /\ Fits(NoView, u) /\ NotTold(NoView, u)'
    BY <1>1, <1>2, <2>1, NoViewFields DEF Fits, NotTold
  <2>4. CASE BeginView(s)
    <3>1. PICK new : new = [g |-> 0, u |-> 0, gData |-> gData, uData |-> uData[u]]
      OBVIOUS
    <3>2. answer' = [answer EXCEPT ![s] = new] /\ read' = [read EXCEPT ![s] = "reading"] /\ view' = view
      BY <2>4, <3>1 DEF BeginView
    <3>3. new \in View /\ Fits(new, u) /\ NotTold(new, u)' /\ new.u = 0 /\ new.gData >= pubG /\ new.uData >= pubU[u]
      BY <1>1, <1>2, <2>1, <3>1 DEF View, Fits, NotTold
    <3>4. answer'[s] = new /\ view'[s] = view[s] /\ ViewTypes'
      BY <2>1, <3>2, <3>3 DEF ViewTypes
    <3>5. SnapshotFits(s)'
      BY <1>1, <3>3, <3>4 DEF SnapshotFits
    <3> QED
      BY <1>5, <2>1, <2>2, <3>3, <3>4, <3>5
  <2>5. CASE LoadView(s)
    <3>1. PICK new : new = [answer[s] EXCEPT !.g = globalRev, !.u = IF rev[u] = 0 THEN clock' ELSE rev[u]]
      OBVIOUS
    <3>2. answer' = [answer EXCEPT ![s] = new] /\ read' = [read EXCEPT ![s] = "answered"] /\ view' = view
          /\ read[s] = "reading"
      BY <2>1, <2>5, <3>1 DEF LoadView, ViewTypes
    <3>3. /\ new \in View /\ new.g = globalRev /\ new.u = IF rev[u] = 0 THEN clock' ELSE rev[u]
          /\ new.gData >= pubG /\ new.uData >= pubU[u]
      BY <1>2, <2>1, <3>1, <3>2 DEF View, ViewTypes, SnapshotFits
    <3>4. Fits(new, u) /\ NotTold(new, u)'
      BY <1>1, <1>2, <2>1, <3>3 DEF Fits, NotTold
    <3>5. answer'[s] = new /\ view'[s] = view[s] /\ read'[s] = "answered" /\ ViewTypes'
      BY <2>1, <3>2, <3>3 DEF ViewTypes
    <3> QED
      BY <1>5, <2>1, <2>2, <3>4, <3>5 DEF SnapshotFits
  <2>6. CASE ApplyView(s) \/ AbortRead(s)
    <3>1. /\ answer' = [answer EXCEPT ![s] = NoView] /\ read' = [read EXCEPT ![s] = "none"]
          /\ view' \in [Stream -> View] /\ view'[s] \in {view[s], answer[s]}
      BY <2>1, <2>6 DEF ApplyView, AbortRead, ViewTypes
    <3>2. answer'[s] = NoView /\ read'[s] = "none" /\ ViewTypes'
      BY <2>1, <2>3, <3>1 DEF ViewTypes
    <3> QED
      BY <1>5, <2>1, <2>2, <2>3, <3>1, <3>2 DEF SnapshotFits
  <2> QED
    BY <2>4, <2>5, <2>6
<1>7. AllBehind'
  BY <1>1, <1>5, <1>6 DEF AllBehind
<1>8. ViewsFit'
  BY <1>1, <1>6 DEF HubIInv, ViewsFit, Fits, SnapshotFits
<1> QED
  BY <1>3, <1>4, <1>6, <1>7, <1>8 DEF HubIInv

-----------------------------------------------------------------------------
(* The theorems.                                                             *)

LEMMA NextInv ==
  ASSUME HubIInv, [Next]_vars
  PROVE  HubIInv'
<1>1. Barrier'
  BY BarrierStep DEF HubIInv
<1>2. CASE UNCHANGED vars
  BY <1>1, <1>2, QuietStep DEF vars
<1>3. ASSUME NEW w \in Writer, BeginGlobal(w) PROVE HubIInv'
  BY <1>1, <1>3, BeginStep
<1>4. ASSUME NEW w \in Writer, NEW u \in User, NEW kind \in {"user", "context"}, BeginUser(w, u, kind)
      PROVE  HubIInv'
  BY <1>1, <1>4, BeginStep
<1>5. ASSUME NEW w \in Writer, WriterStep(w) PROVE HubIInv'
  BY <1>1, <1>5, BeginStep, MutateStep, PublishGlobalStep, PublishUserStep DEF WriterStep
<1>6. ASSUME NEW u \in User, StatusChanged(u) PROVE HubIInv'
  BY <1>1, <1>6, StatusChangedStep
<1>7. ASSUME NEW s \in Stream, \/ Subscribe(s) \/ HandlerStep(s) \/ Close(s)
                               \/ BeginView(s) \/ LoadView(s) \/ ApplyView(s) \/ AbortRead(s)
      PROVE  HubIInv'
  BY <1>1, <1>7, SubscribeStep, HandlerStepInv, CloseStep, ViewStep
<1> QED
  BY <1>2, <1>3, <1>4, <1>5, <1>6, <1>7 DEF Next

\* The inductive invariant of the hub: views apart from writers, exact records,
\* and every revision heard, in hand or in the slot.
THEOREM HubInvariant == Spec => []HubIInv
<1>1. Init => HubIInv
  BY InitInv
<1>2. HubIInv /\ [Next]_vars => HubIInv'
  BY NextInv
<1> QED
  BY <1>1, <1>2, PTL DEF Spec

\* What a handler that waits with nothing to wake it has told its tab.
LEMMA WaitingHasTold ==
  ASSUME HubIInv, NEW s \in Stream, spc[s] = "loop", ~wake[s]
  PROVE  /\ heard[s].g = globalRev /\ heard[s].u = rev[UserOf[s]] /\ rev[UserOf[s]] # 0
         /\ heard[s] = [g |-> globalRev, u |-> rev[UserOf[s]]]
<1>1. inHand[s] = NoNotice /\ pending[s] = NoNotice
  BY DEF HubIInv, Slots, SlotsEmpty
<1>2. Told(s)
  BY DEF HubIInv, AllTold
<1>3. /\ rev[UserOf[s]] # 0 /\ rev[UserOf[s]] \in Nat /\ globalRev \in Nat
      /\ heard[s] \in [g : Nat, u : Nat] /\ NotTold(heard[s], UserOf[s])
  BY TabTypes DEF IsOpen, Open
<1>4. heard[s].g = globalRev /\ heard[s].u = rev[UserOf[s]]
  BY <1>1, <1>2, <1>3, NoNoticeFields DEF Told, NotTold
<1> QED
  BY <1>3, <1>4

\* No publication is lost to a listener, however notices coalesce and whatever
\* publishes between the wake token and the emptying of the slot
\* (posting_updates.go enqueueLocked, posting_http.go handlePostingUpdates).
THEOREM HubLosesNoNotice == Spec => []NoNoticeLost
<1>1. HubIInv => NoNoticeLost
  BY WaitingHasTold DEF NoNoticeLost
<1> QED
  BY <1>1, HubInvariant, PTL

\* The slot never keeps the token of a context whose replacement was published,
\* with any number of concurrent writers and mutations that fail half way
\* (posting_updates.go enqueueLocked).
THEOREM HubTokensAreCurrent == Spec => []PendingContextCurrent
<1>1. HubIInv => PendingContextCurrent
  BY DEF HubIInv
<1> QED
  BY <1>1, HubInvariant, PTL

\* The hub's maps and counters are exact and no reader's cursor is taken back,
\* also when a record was evicted and made anew (posting_updates.go subscribe
\* and unsubscribe).
THEOREM HubRecordsAreExact == Spec => []RecordsExact
<1>1. HubIInv => TypeOK
  BY DEF HubIInv, TypeOK, Barrier, WriterTypes, Data, Records, HubTypes, Slots, StreamTypes, ViewTypes
<1>2. HubIInv => CursorNeverRollsBack
  BY DEF HubIInv, AllBehind, NotTold, CursorNeverRollsBack
<1>3. HubIInv => RecordsExact
  BY <1>1, <1>2 DEF HubIInv, Records, RecordsExact
<1> QED
  BY <1>3, HubInvariant, PTL

\* A tab that applied a view at the revisions it was told shows everything that
\* was published, whatever failed mutations left behind
\* (posting_view.go loadPostingProjection, web/posting-updates.js viewAdmission).
THEOREM HubViewsAreCurrent == Spec => []ViewCurrent
<1>1. HubIInv => ViewCurrent
  <2> SUFFICES ASSUME HubIInv, NEW s \in Stream, spc[s] = "loop", ~wake[s],
                      view[s].g >= heard[s].g, view[s].u >= heard[s].u
               PROVE  view[s].gData >= pubG /\ view[s].uData >= pubU[UserOf[s]]
    BY DEF ViewCurrent
  <2>1. /\ heard[s].g = globalRev /\ heard[s].u = rev[UserOf[s]] /\ rev[UserOf[s]] # 0
        /\ globalRev \in Nat /\ rev[UserOf[s]] \in Nat
        /\ view[s].g \in Nat /\ view[s].u \in Nat /\ view[s].g <= globalRev
    BY WaitingHasTold, TabTypes DEF NotTold
  <2> QED
    BY <2>1 DEF HubIInv, ViewsFit, Fits
<1> QED
  BY <1>1, HubInvariant, PTL

-----------------------------------------------------------------------------
(* The page.  What makes its theorems inductive is what each of the page's *)
(* pieces may know of the process that answers now: views and reads are    *)
(* past and go forward (ReadsForward), notices are in the order of the     *)
(* user revision (WireOrdered), what the page measures notices by is       *)
(* behind the server's clock while it is of the same process               *)
(* (AdmissionPast), and a read that was overtaken on its way is followed   *)
(* by another (ReadsAgain).                                                *)
HIDE HubAssumption

\* Types; the server's answers and the page's pieces.
Tokens   == Nat \X Contexts
Versions == [epoch : Nat, g : Nat, u : Nat, ctx : Tokens \cup {NoContext}, data : Int]
Notices  == [epoch : Nat, u : Nat, context : Tokens \cup {NoContext}, changed : BOOLEAN, resync : BOOLEAN]
Reads    == [forced : BOOLEAN, baseline : BOOLEAN, answer : Versions \cup {Unserved}]
Admissions == [epoch : Nat, context : Tokens \cup {NoContext}, locked : BOOLEAN,
               contextRevision : Nat, userRevision : Nat, retired : Nat, clock : Nat]
Wants    == [dirty : BOOLEAN, forced : BOOLEAN, baseline : BOOLEAN]
Announcements == [epoch : Nat, u : Nat, context : Tokens \cup {NoContext}, foreign : BOOLEAN]

Types ==
  /\ server \in Versions /\ wire \in Seq(Notices) /\ server.ctx \in Tokens
  /\ applied \in Versions /\ admission \in Admissions
  /\ want \in Wants
  /\ request \in Reads \cup {NoRequest} /\ announced \in Announcements
  /\ faults \in Nat /\ faults <= MaxFaults /\ server.epoch <= faults + 1

\* v was read before w.
Before(v, w) == v.epoch <= w.epoch /\ (v.epoch = w.epoch => v.g <= w.g /\ v.u <= w.u)
Served == request # NoRequest /\ request.answer # Unserved

\* What is shown is past, and a read under way would not take it back.
ReadsForward ==
  /\ Before(applied, server)
  /\ Served => request.answer.epoch >= 1 /\ Before(request.answer, server) /\ Before(applied, request.answer)

\* Notices are of the process the stream leads to; a change of context raises the
\* user revision above those of the notices before it.
WireOrdered ==
  /\ stream # "open" => wire = <<>>
  /\ \A i \in 1 .. Len(wire) :
       /\ wire[i].epoch = server.epoch /\ wire[i].u <= server.u
       /\ wire[i].changed => wire[i].u > 0 /\ \A j \in 1 .. i - 1 : wire[j].u < wire[i].u

\* What the page knows is of this process or of one before it; revisions it has
\* from this process's notices are not ahead of the server, and every change of
\* context on the way is ahead of them.
AdmissionPast ==
  /\ admission.epoch <= server.epoch /\ admission.retired < server.epoch /\ admission.clock <= server.epoch
  /\ admission.contextRevision <= admission.userRevision
  /\ admission.locked /\ admission.epoch = server.epoch => admission.contextRevision <= server.u
  /\ stream = "open" => wire # <<>> \/ admission.epoch = server.epoch \/ ~admission.locked
  /\ admission.clock = server.epoch =>
       /\ admission.userRevision <= server.u
       /\ \A i \in 1 .. Len(wire) : wire[i].changed => wire[i].u > admission.userRevision

\* The last change that was announced has happened.
AnnouncedPast ==
  /\ announced.epoch <= server.epoch
  /\ announced.epoch = server.epoch => announced.u <= server.u
  /\ announced.epoch = 0 => announced.u = 0

\* v is not what the server would answer now.
Stale(v) == v.epoch # server.epoch \/ v.data # server.data
\* The page reads again whenever it must: at once, or after the read under way
\* when a change overtook it.
ReadsAgain ==
  /\ page = "on" =>
       /\ stream = "none" => Rereads
       /\ stream = "open" /\ Stale(applied) => Rereads \/ wire # <<>>
       /\ Contradicts(applied) => Rereads
  /\ Served /\ stream = "open" /\ Stale(request.answer) => want.dirty \/ wire # <<>>
  /\ Served /\ Contradicts(request.answer) => want.dirty /\ announced.foreign

PageIInv == PageTypeOK /\ Types /\ ReadsForward /\ WireOrdered /\ AdmissionPast /\ AnnouncedPast /\ ReadsAgain

USE PageAssumption

-----------------------------------------------------------------------------
(* Facts about records.                                                    *)

\* A read, or an answer, is told from none.
LEMMA NoReadIsNoRead ==
  /\ \A r \in Reads : r # NoRequest
  /\ \A v \in Versions : v # Unserved
  /\ Nothing \in Versions /\ Unknown \in Admissions /\ Unannounced \in Announcements
  /\ Calm \in Wants
<1>1. \A r \in Reads : r # NoRequest
  <2> SUFFICES ASSUME NEW r \in Reads, r = NoRequest PROVE FALSE
    OBVIOUS
  <2>1. "forced" \in DOMAIN r
    BY DEF Reads
  <2>2. "forced" \notin DOMAIN NoRequest
    BY DEF NoRequest
  <2> QED BY <2>1, <2>2
<1>2. \A v \in Versions : v # Unserved
  <2> SUFFICES ASSUME NEW v \in Versions, v = Unserved PROVE FALSE
    OBVIOUS
  <2>1. v.epoch \in Nat
    BY DEF Versions
  <2>2. Unserved.epoch = -1
    BY DEF Unserved
  <2> QED BY <2>1, <2>2
<1>3. Nothing \in Versions /\ Unknown \in Admissions /\ Unannounced \in Announcements
  BY DEF Nothing, Versions, Unknown, Admissions, Unannounced, Announcements
<1>4. Calm \in Wants
  BY DEF Calm, Wants
<1> QED BY <1>1, <1>2, <1>3, <1>4

\* Coalescing keeps the later revision and remembers a change.
LEMMA CoalescedFields ==
  ASSUME NEW o \in Notices, NEW n \in Notices
  PROVE  /\ Coalesced(o, n) \in Notices
         /\ Coalesced(o, n).epoch = n.epoch
         /\ Coalesced(o, n).u = IF n.u > o.u THEN n.u ELSE o.u
         /\ Coalesced(o, n).changed <=> n.changed \/ o.changed
  BY DEF Coalesced, Notices

-----------------------------------------------------------------------------
(* The server.                                                             *)

\* What a publication leaves on the way: the notices of before, the newest last.
Delivered(w, s, top) ==
  /\ w \in Seq(Notices) /\ Len(w) <= MaxWire
  /\ \A i \in 1 .. Len(w) :
       /\ w[i].epoch = s.epoch /\ w[i].u <= top
       /\ w[i].changed =>
            /\ w[i].u > 0 /\ \A j \in 1 .. i - 1 : w[j].u < w[i].u
            /\ w[i].u > s.u \/ \E k \in 1 .. Len(wire) : wire[k].changed /\ wire[k].u <= w[i].u

\* A publication keeps the notices on the way in order, and puts one there.
LEMMA Publishing ==
  ASSUME PageIInv, NEW n \in Notices, Publish(n), n.epoch = server.epoch,
         NEW top \in Nat, top >= server.u, n.u <= top, n.changed => n.u = server.u + 1
  PROVE  /\ Delivered(wire', server, top)
         /\ stream # "open" => wire' = <<>>
         /\ stream = "open" => wire' # <<>>
<1> wire \in Seq(Notices) /\ Len(wire) \in Nat /\ Len(wire) <= MaxWire /\ MaxWire \in Nat \ {0} /\ server.u \in Nat
  BY DEF PageIInv, Types, PageTypeOK, Versions
<1> n.u \in Nat /\ n.changed \in BOOLEAN
  BY DEF Notices
<1>i. ASSUME NEW i \in 1 .. Len(wire)
      PROVE  /\ wire[i] \in Notices /\ wire[i].u \in Nat /\ wire[i].changed \in BOOLEAN
             /\ wire[i].epoch = server.epoch /\ wire[i].u <= server.u
             /\ wire[i].changed => wire[i].u > 0 /\ \A j \in 1 .. i - 1 : wire[j].u < wire[i].u
  <2>1. wire[i] \in Notices
    OBVIOUS
  <2>2. wire[i].u \in Nat /\ wire[i].changed \in BOOLEAN
    BY <2>1 DEF Notices
  <2>3. WireOrdered
    BY DEF PageIInv
  <2> QED BY <2>1, <2>2, <2>3 DEF WireOrdered
<1>1. CASE stream # "open"
  <2>1. wire' = <<>> /\ wire = <<>>
    BY <1>1 DEF Publish, PageIInv, WireOrdered
  <2>2. wire' \in Seq(Notices) /\ Len(wire') = 0
    BY <2>1
  <2> QED BY <1>1, <2>1, <2>2 DEF Delivered
<1>2. CASE stream = "open" /\ Len(wire) < MaxWire
  <2>1. wire' = Append(wire, n)
    BY <1>2 DEF Publish
  <2>2. wire' \in Seq(Notices) /\ Len(wire') = Len(wire) + 1 /\ wire' # <<>>
    BY <2>1
  <2>3. ASSUME NEW i \in 1 .. Len(wire)
        PROVE  wire'[i] = wire[i]
    BY <2>1
  <2>4. wire'[Len(wire) + 1] = n
    BY <2>1
  <2>5. ASSUME NEW i \in 1 .. Len(wire')
        PROVE  /\ wire'[i].epoch = server.epoch /\ wire'[i].u <= top
               /\ wire'[i].changed =>
                    /\ wire'[i].u > 0 /\ \A j \in 1 .. i - 1 : wire'[j].u < wire'[i].u
                    /\ wire'[i].u > server.u \/ \E k \in 1 .. Len(wire) : wire[k].changed /\ wire[k].u <= wire'[i].u
    <3>1. CASE i \in 1 .. Len(wire)
      <4>1. \A j \in 1 .. i - 1 : j \in 1 .. Len(wire) /\ wire'[j] = wire[j]
        BY <3>1, <2>3
      <4>2. wire'[i] = wire[i]
        BY <3>1, <2>3
      <4>3. wire[i].changed => \A j \in 1 .. i - 1 : wire'[j].u < wire[i].u
        BY <4>1, <3>1, <1>i
      <4>4. wire[i].u <= top
        BY <3>1, <1>i
      <4> QED BY <3>1, <4>2, <4>3, <4>4, <1>i
    <3>2. CASE i = Len(wire) + 1
      <4>1. \A j \in 1 .. i - 1 : wire'[j] = wire[j] /\ wire[j].u <= server.u /\ wire[j].u \in Nat
        BY <3>2, <2>3, <1>i
      <4>2. wire'[i] = n
        BY <3>2, <2>4
      <4>3. n.changed => \A j \in 1 .. i - 1 : wire'[j].u < n.u
        <5>1. CASE ~n.changed
          BY <5>1
        <5>2. CASE n.changed
          <6>1. n.u = server.u + 1
            BY <5>2
          <6> QED BY <4>1, <6>1
        <5> QED BY <5>1, <5>2
      <4>4. n.changed => n.u > 0 /\ n.u > server.u
        OBVIOUS
      <4> QED BY <4>2, <4>3, <4>4
    <3> QED BY <3>1, <3>2, <2>2
  <2> QED BY <1>2, <2>2, <2>5 DEF Delivered
<1>3. CASE stream = "open" /\ Len(wire) >= MaxWire
  <2> DEFINE c == Coalesced(wire[MaxWire], n)
  <2>0. Len(wire) = MaxWire /\ MaxWire \in 1 .. Len(wire) /\ wire[MaxWire] \in Notices
    BY <1>3, <1>i
  <2>1. wire' = [wire EXCEPT ![MaxWire] = c]
    BY <1>3 DEF Publish
  <2>c. /\ c \in Notices /\ c.epoch = n.epoch
        /\ c.u = IF n.u > wire[MaxWire].u THEN n.u ELSE wire[MaxWire].u
        /\ c.changed <=> n.changed \/ wire[MaxWire].changed
    BY <2>0, CoalescedFields
  <2> HIDE DEF c
  <2>2. wire' \in Seq(Notices) /\ Len(wire') = Len(wire)
    BY <2>1, <2>c, <2>0
  <2>3. ASSUME NEW i \in 1 .. Len(wire), i # MaxWire
        PROVE  wire'[i] = wire[i]
    BY <2>1, <2>3
  <2>4. wire'[MaxWire] = c
    BY <2>1, <2>0
  <2>5. ASSUME NEW i \in 1 .. Len(wire')
        PROVE  /\ wire'[i].epoch = server.epoch /\ wire'[i].u <= top
               /\ wire'[i].changed =>
                    /\ wire'[i].u > 0 /\ \A j \in 1 .. i - 1 : wire'[j].u < wire'[i].u
                    /\ wire'[i].u > server.u \/ \E k \in 1 .. Len(wire) : wire[k].changed /\ wire[k].u <= wire'[i].u
    <3>0. \A j \in 1 .. i - 1 : j \in 1 .. Len(wire) /\ j # MaxWire /\ wire'[j] = wire[j]
      BY <2>2, <2>3, <2>0
    <3>1. CASE i # MaxWire
      BY <3>0, <3>1, <2>3, <1>i, <2>2
    <3>2. CASE i = MaxWire
      <4>1. \A j \in 1 .. i - 1 : wire[j].u <= server.u /\ wire[j].u \in Nat
        BY <3>0, <1>i
      <4>2. c.epoch = server.epoch /\ c.u <= top
        BY <2>c, <2>0, <1>i
      <4>3. CASE n.changed
        <5>1. c.u = server.u + 1
          BY <4>3, <2>c, <2>0, <1>i
        <5> QED BY <3>2, <3>0, <4>1, <4>2, <5>1, <2>4
      <4>4. CASE wire[MaxWire].changed
        <5>1. c.u >= wire[MaxWire].u /\ wire[MaxWire].u \in Nat /\ c.u \in Nat
          BY <2>c, <2>0, <1>i
        <5>2. \A j \in 1 .. i - 1 : wire[j].u < wire[MaxWire].u
          BY <4>4, <3>2, <1>i, <2>0
        <5>3. \A j \in 1 .. i - 1 : wire[j].u < c.u
          <6> TAKE j \in 1 .. i - 1
          <6>1. wire[j].u < wire[MaxWire].u /\ wire[j].u \in Nat
            BY <5>2, <4>1
          <6>2. \A a, b, d \in Nat : a < b /\ d >= b => a < d
            OBVIOUS
          <6> QED BY <6>1, <6>2, <5>1, Zenon
        <5>4. c.u > 0
          BY <5>1, <4>4, <1>i, <2>0
        <5> QED BY <3>2, <3>0, <4>2, <4>4, <5>1, <5>3, <5>4, <2>4, <2>0
      <4>5. CASE ~c.changed
        BY <3>2, <2>4, <4>2, <4>5
      <4> QED BY <4>3, <4>4, <4>5, <2>c
    <3> QED BY <3>1, <3>2
  <2> QED BY <1>3, <2>0, <2>2, <2>5 DEF Delivered
<1> QED BY <1>1, <1>2, <1>3

\* A change of the server: what the page has seen stays past, and what it has
\* not is on the way.
Advance ==
  /\ UNCHANGED <<stream, page, clientVars>>
  /\ server' \in Versions /\ server'.ctx \in Tokens /\ server'.epoch = server.epoch
  /\ server'.g >= server.g /\ server'.u >= server.u /\ server'.data \in 0 .. MaxChanges
  /\ faults' \in faults .. MaxFaults
  /\ Delivered(wire', server, server'.u)
  /\ stream # "open" => wire' = <<>>
  /\ stream = "open" => wire' # <<>> \/ (wire' = wire /\ server'.data = server.data)

LEMMA Changing ==
  ASSUME PageIInv, Advance
  PROVE  PageIInv'
<1>a. server \in Versions /\ server.epoch \in Nat /\ server.u \in Nat /\ server.g \in Nat
  BY DEF PageIInv, Types, Versions
<1>b. server'.epoch \in Nat /\ server'.u \in Nat /\ server'.g \in Nat
  BY DEF Versions, Advance
<1>c. /\ stream' = stream /\ page' = page /\ applied' = applied /\ admission' = admission /\ want' = want
      /\ request' = request /\ timers' = timers /\ announced' = announced
  BY DEF clientVars, Advance
<1>d. /\ stream # "open" => wire' = <<>>
      /\ stream = "open" => wire' # <<>> \/ (wire' = wire /\ server'.data = server.data)
  BY DEF Advance
<1>e. server'.epoch = server.epoch /\ server'.g >= server.g /\ server'.u >= server.u /\ server' \in Versions
  BY DEF Advance
<1>f. /\ wire' \in Seq(Notices) /\ Len(wire') <= MaxWire
      /\ \A i \in 1 .. Len(wire') :
           /\ wire'[i].epoch = server.epoch /\ wire'[i].u <= server'.u
           /\ wire'[i].changed => wire'[i].u > 0 /\ \A j \in 1 .. i - 1 : wire'[j].u < wire'[i].u
  BY DEF Advance, Delivered
<1>g. ASSUME NEW i \in 1 .. Len(wire'), wire'[i].changed
      PROVE  wire'[i].u > server.u \/ \E k \in 1 .. Len(wire) : wire[k].changed /\ wire[k].u <= wire'[i].u
  BY <1>g DEF Advance, Delivered
<1>h. faults' \in Nat /\ faults' <= MaxFaults /\ server'.epoch <= faults' + 1
  <2>1. faults \in Nat /\ server.epoch <= faults + 1 /\ MaxFaults \in Nat
    BY DEF PageIInv, Types
  <2>2. faults' \in faults .. MaxFaults
    BY DEF Advance
  <2> QED BY <2>1, <2>2, <1>e, <1>a
<1>1. PageTypeOK'
  BY <1>a, <1>b, <1>c, <1>d, <1>e, <1>f DEF PageIInv, PageTypeOK, Advance
<1>2. Types'
  BY <1>c, <1>e, <1>f, <1>h DEF PageIInv, Types, Advance
<1>3. ReadsForward'
  <2>1. \A v \in Versions : Before(v, server) => Before(v, server)'
    BY <1>a, <1>b, <1>e DEF Before, Versions
  <2>2. Served' = Served
    BY <1>c DEF Served
  <2>3. Before(applied, server)'
    BY <2>1, <1>c DEF PageIInv, ReadsForward, Types, Before
  <2>4. ASSUME Served PROVE request.answer \in Versions
    BY <2>4 DEF Served, PageIInv, Types, Reads
  <2>5. ASSUME Served PROVE (request.answer.epoch >= 1 /\ Before(request.answer, server) /\ Before(applied, request.answer))'
    BY <2>1, <2>4, <2>5, <1>c DEF PageIInv, ReadsForward, Before
  <2> QED BY <2>2, <2>3, <2>5 DEF ReadsForward
<1>4. WireOrdered'
  BY <1>c, <1>d, <1>e, <1>f DEF WireOrdered
<1>5. AdmissionPast'
  <2>0. admission.contextRevision \in Nat /\ admission.userRevision \in Nat
    BY DEF PageIInv, Types, Admissions
  <2>1. ASSUME admission.clock = server.epoch
        PROVE  /\ admission.userRevision <= server'.u
               /\ \A i \in 1 .. Len(wire') : wire'[i].changed => wire'[i].u > admission.userRevision
    <3>1. /\ admission.userRevision <= server.u
          /\ \A i \in 1 .. Len(wire) : wire[i].changed => wire[i].u > admission.userRevision
      BY <2>1 DEF PageIInv, AdmissionPast
    <3>2. ASSUME NEW i \in 1 .. Len(wire'), wire'[i].changed
          PROVE  wire'[i].u > admission.userRevision
      <4>0. wire'[i] \in Notices
        BY <1>f
      <4>0a. wire'[i].u \in Nat
        BY <4>0 DEF Notices
      <4>1. CASE wire'[i].u > server.u
        BY <4>1, <3>1, <4>0a, <2>0, <1>a
      <4>2. CASE \E k \in 1 .. Len(wire) : wire[k].changed /\ wire[k].u <= wire'[i].u
        <5>1. PICK k \in 1 .. Len(wire) : wire[k].changed /\ wire[k].u <= wire'[i].u
          BY <4>2
        <5>2. wire[k].u > admission.userRevision
          BY <3>1, <5>1
        <5>3. wire[k] \in Notices
          BY <5>1 DEF PageIInv, Types
        <5>4. wire[k].u \in Nat
          BY <5>3 DEF Notices
        <5> QED BY <5>1, <5>2, <5>4, <4>0a, <2>0
      <4> QED BY <4>1, <4>2, <3>2, <1>g
    <3> QED BY <3>1, <3>2, <1>a, <1>b, <1>e, <2>0
  <2>2. stream = "open" => wire' # <<>> \/ admission.epoch = server.epoch \/ ~admission.locked
    BY <1>d DEF PageIInv, AdmissionPast
  <2>3. admission.locked /\ admission.epoch = server.epoch => admission.contextRevision <= server'.u
    BY <1>a, <1>b, <1>e, <2>0 DEF PageIInv, AdmissionPast
  <2> QED BY <2>1, <2>2, <2>3, <1>c, <1>e DEF PageIInv, AdmissionPast
<1>6. AnnouncedPast'
  <2>1. announced.u \in Nat
    BY DEF PageIInv, Types, Announcements
  <2> QED BY <2>1, <1>a, <1>b, <1>c, <1>e DEF PageIInv, AnnouncedPast
<1>7. ReadsAgain'
  <2>1. Served' = Served /\ Rereads' = Rereads
    BY <1>c DEF Served, Rereads
  <2>2. Contradicts(applied)' = Contradicts(applied) /\ Contradicts(request.answer)' = Contradicts(request.answer)
    BY <1>c DEF Contradicts
  <2>3. stream = "open" /\ wire' = <<>> => wire = <<>> /\ Stale(applied)' = Stale(applied) /\ Stale(request.answer)' = Stale(request.answer)
    BY <1>c, <1>d, <1>e DEF Stale
  <2> QED BY <2>1, <2>2, <2>3, <1>c, <1>d DEF PageIInv, ReadsAgain
<1> QED BY <1>1, <1>2, <1>3, <1>4, <1>5, <1>6, <1>7 DEF PageIInv

\* A notice is typed and of the present process.
LEMMA PlainNotice ==
  ASSUME NEW u \in Nat, server.epoch \in Nat
  PROVE  Plain(u) \in Notices /\ Plain(u).epoch = server.epoch /\ Plain(u).u = u /\ ~Plain(u).changed
BY DEF Plain, Notices

\* The notice of a change of context, and the first notice of a stream.
ContextNotice(u, t) == [Plain(u) EXCEPT !.context = t, !.changed = TRUE, !.resync = TRUE]
FirstNotice(u, t) == [Plain(u) EXCEPT !.context = t, !.resync = TRUE]

LEMMA ContextNotices ==
  ASSUME NEW u \in Nat, server.epoch \in Nat, NEW t \in Tokens \cup {NoContext}
  PROVE  /\ ContextNotice(u, t) \in Notices /\ ContextNotice(u, t).epoch = server.epoch /\ ContextNotice(u, t).u = u
         /\ FirstNotice(u, t) \in Notices /\ FirstNotice(u, t).epoch = server.epoch /\ FirstNotice(u, t).u = u
         /\ ~FirstNotice(u, t).changed
BY DEF Plain, Notices, ContextNotice, FirstNotice

LEMMA TokenTyped == \A e \in Nat, c \in Contexts : Token(e, c) \in Tokens
  BY DEF Token, Tokens

\* What is known of the server.
LEMMA ServerTyped ==
  ASSUME PageIInv
  PROVE  /\ server \in Versions /\ server.ctx \in Tokens /\ server.epoch \in Nat \ {0} /\ server.epoch <= faults + 1
         /\ server.g \in Nat /\ server.u \in Nat /\ server.data \in 0 .. MaxChanges
         /\ faults \in 0 .. MaxFaults /\ MaxFaults \in Nat /\ MaxChanges \in Nat /\ MaxRevision \in Nat
  BY DEF PageIInv, PageTypeOK, Types, Versions

\* A change of the data beside the revisions that s says.
LEMMA ChangeFields ==
  ASSUME PageIInv, NEW s \in Versions, s.data = server.data, Change(s)
  PROVE  /\ server' \in Versions /\ server'.epoch = s.epoch /\ server'.g = s.g /\ server'.u = s.u
         /\ server'.ctx = s.ctx /\ server'.data = server.data + 1 /\ server.data < MaxChanges
         /\ UNCHANGED <<stream, page, clientVars>> /\ faults' = faults
<1>1. server' = [s EXCEPT !.data = @ + 1] /\ s.data \in Nat
  BY ServerTyped DEF Change
<1>2. /\ server' \in Versions /\ server'.epoch = s.epoch /\ server'.g = s.g /\ server'.u = s.u
      /\ server'.ctx = s.ctx /\ server'.data = s.data + 1
  BY <1>1 DEF Versions
<1> QED BY <1>2 DEF Change

\* A write of the context, and a restart, as they change the record.
LEMMA TokenSet ==
  ASSUME NEW s \in Versions, NEW t \in Tokens
  PROVE  /\ LET v == [s EXCEPT !.u = @ + 1, !.ctx = t]
            IN  v \in Versions /\ v.epoch = s.epoch /\ v.g = s.g /\ v.u = s.u + 1 /\ v.ctx = t /\ v.data = s.data
         /\ LET v == [s EXCEPT !.epoch = @ + 1, !.g = 0, !.u = 1, !.ctx = t]
            IN  v \in Versions /\ v.epoch = s.epoch + 1 /\ v.g = 0 /\ v.u = 1 /\ v.ctx = t /\ v.data = s.data
<1> DEFINE v == [s EXCEPT !.u = @ + 1, !.ctx = t]
<1> DEFINE w == [s EXCEPT !.epoch = @ + 1, !.g = 0, !.u = 1, !.ctx = t]
<1>1. v.epoch = s.epoch /\ v.g = s.g /\ v.u = s.u + 1 /\ v.ctx = t /\ v.data = s.data
  BY DEF Versions
<1>0. s.epoch \in Nat /\ s.g \in Nat /\ s.u + 1 \in Nat /\ s.epoch + 1 \in Nat /\ s.data \in Int /\ t \in Tokens \cup {NoContext}
  BY DEF Versions
<1>a. [s EXCEPT !.u = s.u + 1] \in Versions
  BY <1>0 DEF Versions
<1>b. v = [[s EXCEPT !.u = s.u + 1] EXCEPT !.ctx = t]
  BY DEF Versions
<1>2. v \in Versions
  BY <1>0, <1>a, <1>b DEF Versions
<1>3. w.epoch = s.epoch + 1 /\ w.g = 0 /\ w.u = 1 /\ w.ctx = t /\ w.data = s.data
  BY DEF Versions
<1>c. [s EXCEPT !.epoch = s.epoch + 1] \in Versions
  BY <1>0 DEF Versions
<1>d. [[s EXCEPT !.epoch = s.epoch + 1] EXCEPT !.g = 0] \in Versions
  BY <1>c DEF Versions
<1>e. [[[s EXCEPT !.epoch = s.epoch + 1] EXCEPT !.g = 0] EXCEPT !.u = 1] \in Versions
  BY <1>d DEF Versions
<1>4. w \in Versions
  BY <1>0, <1>e DEF Versions
<1> QED BY <1>1, <1>2, <1>3, <1>4

LEMMA WriteGlobalStep == ASSUME PageIInv, WriteGlobal PROVE PageIInv'
<1>0. PageIInv
  OBVIOUS
<1>1. Change([server EXCEPT !.g = @ + 1]) /\ Publish(Plain(0))
  BY DEF WriteGlobal
<1>s. [server EXCEPT !.g = @ + 1] \in Versions /\ [server EXCEPT !.g = @ + 1].epoch = server.epoch
        /\ [server EXCEPT !.g = @ + 1].g = server.g + 1
        /\ [server EXCEPT !.g = @ + 1].u = server.u
        /\ [server EXCEPT !.g = @ + 1].ctx = server.ctx
        /\ [server EXCEPT !.g = @ + 1].data = server.data
  BY ServerTyped DEF Versions
<1>2. /\ server' \in Versions /\ server'.ctx = server.ctx /\ server'.epoch = server.epoch /\ server'.g = server.g + 1
      /\ server'.u = server.u /\ server'.data = server.data + 1 /\ server.data < MaxChanges
  BY <1>1, <1>s, ChangeFields, ServerTyped
<1>3. UNCHANGED <<stream, page, clientVars>> /\ faults' = faults
  BY <1>1, <1>s, ChangeFields
<1>4. Plain(0) \in Notices /\ Plain(0).epoch = server.epoch /\ Plain(0).u = 0 /\ ~Plain(0).changed
  BY PlainNotice, ServerTyped
<1>5. /\ Delivered(wire', server, server.u)
      /\ stream # "open" => wire' = <<>>
      /\ stream = "open" => wire' # <<>>
  BY <1>1, <1>4, Publishing, ServerTyped
<1>6. Advance
  BY <1>2, <1>3, <1>5, ServerTyped DEF Advance
<1> QED BY <1>0, <1>6, Changing

LEMMA WriteUserStep == ASSUME PageIInv, WriteUser PROVE PageIInv'
<1>0. PageIInv
  OBVIOUS
<1>1. Change([server EXCEPT !.u = @ + 1]) /\ Publish(Plain(server.u + 1))
  BY DEF WriteUser
<1>s. [server EXCEPT !.u = @ + 1] \in Versions /\ [server EXCEPT !.u = @ + 1].epoch = server.epoch
        /\ [server EXCEPT !.u = @ + 1].g = server.g
        /\ [server EXCEPT !.u = @ + 1].u = server.u + 1
        /\ [server EXCEPT !.u = @ + 1].ctx = server.ctx
        /\ [server EXCEPT !.u = @ + 1].data = server.data
  BY ServerTyped DEF Versions
<1>2. /\ server' \in Versions /\ server'.ctx = server.ctx /\ server'.epoch = server.epoch /\ server'.g = server.g
      /\ server'.u = server.u + 1 /\ server'.data = server.data + 1 /\ server.data < MaxChanges
  BY <1>1, <1>s, ChangeFields, ServerTyped
<1>3. UNCHANGED <<stream, page, clientVars>> /\ faults' = faults
  BY <1>1, <1>s, ChangeFields
<1> DEFINE n == Plain(server.u + 1)
<1>4. n \in Notices /\ n.epoch = server.epoch /\ n.u = server.u + 1 /\ ~n.changed
  <2>1. server.u + 1 \in Nat /\ server.epoch \in Nat
    BY ServerTyped
  <2> QED BY <2>1, PlainNotice
<1>5. /\ Delivered(wire', server, server.u + 1)
      /\ stream # "open" => wire' = <<>>
      /\ stream = "open" => wire' # <<>>
  <2> DEFINE top == server.u + 1
  <2>1. Publish(n)
    BY <1>1
  <2>2. top \in Nat /\ top >= server.u /\ n.u <= top /\ (n.changed => n.u = server.u + 1)
    BY <1>4, ServerTyped
  <2>3. n \in Notices /\ n.epoch = server.epoch
    BY <1>4
  <2> HIDE DEF n, top
  <2>4. Delivered(wire', server, top) /\ (stream # "open" => wire' = <<>>) /\ (stream = "open" => wire' # <<>>)
    BY <2>1, <2>2, <2>3, Publishing
  <2> QED BY <2>4 DEF top
<1>6. Advance
  BY <1>2, <1>3, <1>5, ServerTyped DEF Advance
<1> QED BY <1>0, <1>6, Changing

LEMMA WriteContextStep == ASSUME PageIInv, NEW c \in Contexts, WriteContext(c) PROVE PageIInv'
<1>0. PageIInv
  OBVIOUS
<1>t. Token(server.epoch, c) \in Tokens
  BY TokenTyped, ServerTyped
<1>1. PICK t \in {NoContext, Token(server.epoch, c)} :
        /\ Change([server EXCEPT !.u = @ + 1, !.ctx = Token(server.epoch, c)])
        /\ Publish(ContextNotice(server.u + 1, t))
  BY DEF WriteContext, ContextNotice
<1>s. [server EXCEPT !.u = @ + 1, !.ctx = Token(server.epoch, c)] \in Versions /\ [server EXCEPT !.u = @ + 1, !.ctx = Token(server.epoch, c)].epoch = server.epoch
        /\ [server EXCEPT !.u = @ + 1, !.ctx = Token(server.epoch, c)].g = server.g
        /\ [server EXCEPT !.u = @ + 1, !.ctx = Token(server.epoch, c)].u = server.u + 1
        /\ [server EXCEPT !.u = @ + 1, !.ctx = Token(server.epoch, c)].ctx = Token(server.epoch, c)
        /\ [server EXCEPT !.u = @ + 1, !.ctx = Token(server.epoch, c)].data = server.data
  <2> DEFINE t0 == Token(server.epoch, c)
  <2>1. t0 \in Tokens /\ server \in Versions
    BY <1>t, ServerTyped
  <2> HIDE DEF t0
  <2>2. LET v == [server EXCEPT !.u = @ + 1, !.ctx = t0]
        IN  v \in Versions /\ v.epoch = server.epoch /\ v.g = server.g /\ v.u = server.u + 1 /\ v.ctx = t0 /\ v.data = server.data
    BY <2>1, TokenSet
  <2> QED BY <2>2 DEF t0
<1>2. /\ server' \in Versions /\ server'.ctx = Token(server.epoch, c) /\ server'.epoch = server.epoch
      /\ server'.g = server.g
      /\ server'.u = server.u + 1 /\ server'.data = server.data + 1 /\ server.data < MaxChanges
  BY <1>1, <1>t, <1>s, ChangeFields, ServerTyped
<1>3. UNCHANGED <<stream, page, clientVars>> /\ faults' = faults
  BY <1>1, <1>s, ChangeFields
<1> DEFINE n == ContextNotice(server.u + 1, t)
<1>4. n \in Notices /\ n.epoch = server.epoch /\ n.u = server.u + 1
  <2>1. server.u + 1 \in Nat /\ t \in Tokens \cup {NoContext} /\ server.epoch \in Nat
    BY ServerTyped, <1>t
  <2> QED BY <2>1, ContextNotices
<1>5. /\ Delivered(wire', server, server.u + 1)
      /\ stream # "open" => wire' = <<>>
      /\ stream = "open" => wire' # <<>>
  <2> DEFINE top == server.u + 1
  <2>1. Publish(n)
    BY <1>1
  <2>2. top \in Nat /\ top >= server.u /\ n.u <= top /\ (n.changed => n.u = server.u + 1)
    BY <1>4, ServerTyped
  <2>3. n \in Notices /\ n.epoch = server.epoch
    BY <1>4
  <2> HIDE DEF n, top
  <2>4. Delivered(wire', server, top) /\ (stream # "open" => wire' = <<>>) /\ (stream = "open" => wire' # <<>>)
    BY <2>1, <2>2, <2>3, Publishing
  <2> QED BY <2>4 DEF top
<1>6. Advance
  BY <1>2, <1>3, <1>5, <1>t, ServerTyped DEF Advance
<1> QED BY <1>0, <1>6, Changing

LEMMA WriteQuietlyStep == ASSUME PageIInv, NEW c \in Contexts, WriteQuietly(c) PROVE PageIInv'
<1>0. PageIInv
  OBVIOUS
<1>t. Token(server.epoch, c) \in Tokens
  BY TokenTyped, ServerTyped
<1>2. /\ server' \in Versions /\ server'.ctx = Token(server.epoch, c) /\ server'.epoch = server.epoch
      /\ server'.g = server.g /\ server'.u = server.u /\ server'.data = server.data
  BY <1>t, ServerTyped DEF WriteQuietly, Versions
<1>3. UNCHANGED <<stream, page, clientVars>> /\ faults' = faults + 1 /\ faults < MaxFaults /\ wire' = wire
  BY DEF WriteQuietly, Fault
<1>4. Delivered(wire, server, server.u)
  <2>1. wire \in Seq(Notices) /\ Len(wire) <= MaxWire
    BY DEF PageIInv, Types, PageTypeOK
  <2>2. \A k \in 1 .. Len(wire) : wire[k].u <= wire[k].u
    <3> TAKE k \in 1 .. Len(wire)
    <3>1. wire[k] \in Notices
      BY <2>1
    <3> QED BY <3>1 DEF Notices
  <2> QED BY <2>1, <2>2 DEF Delivered, PageIInv, WireOrdered
<1>5. stream # "open" => wire = <<>>
  BY DEF PageIInv, WireOrdered
<1>6. Advance
  BY <1>2, <1>3, <1>4, <1>5, <1>t, ServerTyped DEF Advance
<1> QED BY <1>0, <1>6, Changing

LEMMA RestartStep == ASSUME PageIInv, Restart PROVE PageIInv'
<1>1. /\ server' \in Versions /\ server'.ctx \in Tokens /\ server'.epoch = server.epoch + 1
      /\ server'.data = server.data /\ server'.u = 1 /\ server'.g = 0
  <2>1. server.ctx[2] \in Contexts
    BY ServerTyped DEF Tokens
  <2>2. Token(server.epoch + 1, server.ctx[2]) \in Tokens
    <3>1. server.epoch + 1 \in Nat
      BY ServerTyped
    <3> QED BY <2>1, <3>1, TokenTyped
  <2>3. server' = [server EXCEPT !.epoch = @ + 1, !.g = 0, !.u = 1, !.ctx = Token(server.epoch + 1, server.ctx[2])]
    BY ServerTyped DEF Restart, Versions
  <2>4. server' \in Versions /\ server'.ctx = Token(server.epoch + 1, server.ctx[2]) /\ server'.epoch = server.epoch + 1
        /\ server'.data = server.data /\ server'.u = 1 /\ server'.g = 0
    <3> DEFINE t0 == Token(server.epoch + 1, server.ctx[2])
    <3>1. t0 \in Tokens /\ server \in Versions /\ server' = [server EXCEPT !.epoch = @ + 1, !.g = 0, !.u = 1, !.ctx = t0]
      BY <2>2, <2>3, ServerTyped
    <3> HIDE DEF t0
    <3>2. server' \in Versions /\ server'.ctx = t0 /\ server'.epoch = server.epoch + 1
          /\ server'.data = server.data /\ server'.u = 1 /\ server'.g = 0
      BY <3>1, TokenSet
    <3> QED BY <3>2 DEF t0
  <2> QED BY <2>2, <2>4
<1>2. /\ wire' = <<>> /\ page' = page /\ applied' = applied /\ admission' = admission /\ want' = want
      /\ request' = request /\ timers' = timers /\ announced' = announced
      /\ stream' = IF stream = "none" THEN "none" ELSE "broken"
  BY DEF Restart, clientVars
<1>3. faults' = faults + 1 /\ faults' \in 0 .. MaxFaults /\ server'.epoch <= faults' + 1
  BY <1>1, ServerTyped DEF Restart, Fault
<1>4. wire' \in Seq(Notices) /\ Len(wire') = 0
  BY <1>2
<1>5. PageTypeOK'
  <2>1. PageTypeOK
    BY DEF PageIInv
  <2>2. page = "off" => stream = "none" /\ request = NoRequest /\ timers = {}
    BY <2>1 DEF PageTypeOK
  <2>3. server'.epoch \in 1 .. MaxFaults + 1
    BY <1>1, <1>3, ServerTyped
  <2>4. stream' \in {"none", "connecting", "open", "broken"}
    BY <1>2
  <2> QED BY <1>1, <1>2, <1>4, <2>1, <2>2, <2>3, <2>4 DEF PageTypeOK
<1>6. Types'
  BY <1>1, <1>2, <1>3, <1>4 DEF PageIInv, Types
<1>7. ReadsForward'
  <2>1. \A v \in Versions : Before(v, server) => Before(v, server)'
    BY <1>1, ServerTyped DEF Before, Versions
  <2>2. Served' = Served
    BY <1>2 DEF Served
  <2>3. Before(applied, server)'
    BY <1>2, <2>1 DEF PageIInv, ReadsForward, Types, Before
  <2>4. ASSUME Served PROVE request.answer \in Versions
    BY <2>4 DEF Served, PageIInv, Types, Reads
  <2>5. ASSUME Served PROVE (request.answer.epoch >= 1 /\ Before(request.answer, server) /\ Before(applied, request.answer))'
    BY <1>2, <2>1, <2>4, <2>5 DEF PageIInv, ReadsForward, Before
  <2> QED BY <2>2, <2>3, <2>5 DEF ReadsForward
<1>8. WireOrdered'
  BY <1>2, <1>4 DEF WireOrdered
<1>9. AdmissionPast'
  <2>1. admission.epoch \in Nat /\ admission.clock \in Nat /\ admission.retired \in Nat
    BY DEF PageIInv, Types, Admissions
  <2>2. /\ admission.epoch <= server.epoch /\ admission.retired < server.epoch /\ admission.clock <= server.epoch
        /\ admission.contextRevision <= admission.userRevision
    BY DEF PageIInv, AdmissionPast
  <2>3. stream' # "open"
    BY <1>2
  <2>4. /\ admission'.epoch < server'.epoch /\ admission'.retired < server'.epoch /\ admission'.clock < server'.epoch
        /\ admission'.contextRevision <= admission'.userRevision
    BY <1>1, <1>2, <2>1, <2>2, ServerTyped
  <2>5. /\ admission'.epoch \in Nat /\ admission'.clock \in Nat /\ server'.epoch \in Nat
    BY <1>1, <1>2, <2>1, ServerTyped
  <2>6. admission'.epoch # server'.epoch /\ admission'.clock # server'.epoch
    BY <2>4, <2>5
  <2>7. admission'.epoch <= server'.epoch /\ admission'.clock <= server'.epoch
    BY <2>4, <2>5
  <2> QED BY <2>3, <2>4, <2>6, <2>7 DEF AdmissionPast
<1>10. AnnouncedPast'
  <2>1. announced.epoch \in Nat /\ announced.u \in Nat
    BY DEF PageIInv, Types, Announcements
  <2> QED BY <1>1, <1>2, <2>1, ServerTyped DEF PageIInv, AnnouncedPast
<1>11. ReadsAgain'
  <2>1. Served' = Served /\ Rereads' = Rereads /\ stream' # "open" /\ (stream' = "none" => stream = "none")
    BY <1>2 DEF Served, Rereads
  <2>2. Contradicts(applied)' = Contradicts(applied) /\ Contradicts(request.answer)' = Contradicts(request.answer)
    BY <1>2 DEF Contradicts
  <2> QED BY <2>1, <2>2, <1>2 DEF PageIInv, ReadsAgain
<1> QED BY <1>5, <1>6, <1>7, <1>8, <1>9, <1>10, <1>11 DEF PageIInv

-----------------------------------------------------------------------------
(* The page.                                                               *)

\* After a forced read is asked for, one is under way or due.
LEMMA Forcing ==
  ASSUME NEW armed, ForceRead(armed)
  PROVE  /\ want' \in Wants /\ want'.dirty /\ request' = request
         /\ timers' \subseteq armed \cup {"read"} /\ Rereads'
<1>1. DirtyBaseline \in Wants /\ DirtyBaseline.dirty
  BY DEF DirtyBaseline, Wants
<1>2. request = NoRequest => "read" \in timers'
  BY DEF ForceRead, Scheduled
<1>3. Rereads'
  BY <1>2 DEF ForceRead, Rereads
<1> QED BY <1>1, <1>3 DEF ForceRead, Scheduled

\* The read under way stays, and one that is to follow it stays to follow it; or
\* it is over, or begins.
ReadGoesOn ==
  \/ request' = request /\ (want' = want \/ want'.dirty)
  \/ request' = NoRequest
  \/ request' \in Reads /\ request'.answer = Unserved
\* A step that concerns the reads and the stream, and not what is known.
Handles ==
  /\ UNCHANGED <<server, applied, admission, announced>>
  /\ faults' \in faults .. MaxFaults
  /\ want' \in Wants /\ ReadGoesOn
  /\ \/ wire' = wire /\ (stream' = "open" <=> stream = "open")
     \/ wire' = <<>> /\ stream' # "open"
  /\ page' = "on" =>
       \/ Rereads'
       \/ page = "on" /\ (Rereads' <=> Rereads) /\ wire' = wire /\ stream' \in {stream, "connecting"}

\* A step of the page that learns nothing keeps the invariant.
LEMMA Handling ==
  ASSUME PageIInv, Handles, PageTypeOK'
  PROVE  PageIInv'
<1>a. server' = server /\ applied' = applied /\ admission' = admission /\ announced' = announced
  BY DEF Handles
<1>b. \/ wire' = wire /\ (stream' = "open" <=> stream = "open")
      \/ wire' = <<>> /\ stream' # "open"
  BY DEF Handles
<1>c. ASSUME Served' PROVE request' = request /\ Served /\ (want' = want \/ want'.dirty)
  BY <1>c DEF Handles, ReadGoesOn, Served
<1>r. request' \in Reads \cup {NoRequest}
  BY DEF Handles, ReadGoesOn, PageIInv, Types
<1>w. wire' \in Seq(Notices)
  <2>1. <<>> \in Seq(Notices)
    OBVIOUS
  <2> QED BY <1>b, <2>1 DEF PageIInv, Types
<1>2. Types'
  <2>1. faults \in Nat /\ faults <= MaxFaults /\ MaxFaults \in Nat /\ faults' \in faults .. MaxFaults
        /\ server.epoch \in Nat /\ server.epoch <= faults + 1
    BY ServerTyped DEF Handles
  <2>2. faults' \in Nat /\ faults' <= MaxFaults /\ server.epoch <= faults' + 1
    BY <2>1
  <2>3. want' \in Wants
    BY DEF Handles
  <2> QED BY <1>a, <1>r, <1>w, <2>2, <2>3 DEF PageIInv, Types
<1>3. ReadsForward'
  BY <1>a, <1>c DEF PageIInv, ReadsForward, Before
<1>4. WireOrdered'
  <2>1. CASE wire' = wire /\ (stream' = "open" <=> stream = "open")
    BY <1>a, <2>1 DEF PageIInv, WireOrdered
  <2>2. CASE wire' = <<>> /\ stream' # "open"
    BY <2>2 DEF WireOrdered
  <2> QED BY <1>b, <2>1, <2>2
<1>5. AdmissionPast'
  <2>1. CASE wire' = wire /\ (stream' = "open" <=> stream = "open")
    BY <1>a, <2>1 DEF PageIInv, AdmissionPast
  <2>2. CASE wire' = <<>> /\ stream' # "open"
    <3>1. Len(wire') = 0
      BY <2>2
    <3>2. 1 .. Len(wire') = {}
      BY <3>1
    <3> QED BY <1>a, <2>2, <3>2 DEF PageIInv, AdmissionPast
  <2> QED BY <1>b, <2>1, <2>2
<1>6. AnnouncedPast'
  BY <1>a DEF PageIInv, AnnouncedPast
<1>7. ReadsAgain'
  <2>1. Contradicts(applied)' = Contradicts(applied) /\ Stale(applied)' = Stale(applied)
    BY <1>a DEF Contradicts, Stale
  <2>2. ASSUME page' = "on"
        PROVE  /\ stream' = "none" => Rereads'
               /\ stream' = "open" /\ Stale(applied)' => Rereads' \/ wire' # <<>>
               /\ Contradicts(applied)' => Rereads'
    <3>1. CASE Rereads'
      BY <3>1
    <3>2. CASE page = "on" /\ (Rereads' <=> Rereads) /\ wire' = wire /\ stream' \in {stream, "connecting"}
      BY <2>1, <3>2 DEF PageIInv, ReadsAgain
    <3> QED BY <2>2, <3>1, <3>2 DEF Handles
  <2>3. ASSUME Served'
        PROVE  /\ stream' = "open" /\ Stale(request.answer)' => want'.dirty \/ wire' # <<>>
               /\ Contradicts(request.answer)' => want'.dirty /\ announced'.foreign
    <3>1. request' = request /\ Served /\ (want' = want \/ want'.dirty)
      BY <1>c, <2>3
    <3>2. Contradicts(request.answer)' = Contradicts(request.answer) /\ Stale(request.answer)' = Stale(request.answer)
      BY <1>a, <3>1 DEF Contradicts, Stale
    <3>3. /\ stream = "open" /\ Stale(request.answer) => want.dirty \/ wire # <<>>
          /\ Contradicts(request.answer) => want.dirty /\ announced.foreign
      BY <3>1 DEF PageIInv, ReadsAgain
    <3> QED BY <1>a, <1>b, <3>1, <3>2, <3>3
  <2> QED BY <2>2, <2>3 DEF ReadsAgain
<1> QED BY <1>2, <1>3, <1>4, <1>5, <1>6, <1>7 DEF PageIInv

\* What is known of the page and its timers; a page that is off holds nothing.
LEMMA Asleep ==
  ASSUME PageIInv
  PROVE  /\ server.data \in 0 .. MaxChanges /\ server.epoch \in 1 .. MaxFaults + 1 /\ Len(wire) <= MaxWire
         /\ stream \in {"none", "connecting", "open", "broken"} /\ page \in {"on", "off"}
         /\ timers \subseteq {"read", "poll", "reconnect"}
         /\ stream # "none" \/ wire # <<>> \/ request # NoRequest \/ timers # {} => page = "on"
         /\ wire # <<>> => stream = "open"
         /\ want \in Wants /\ request \in Reads \cup {NoRequest} /\ faults \in 0 .. MaxFaults
         /\ MaxWire \in Nat \ {0}
  BY ServerTyped DEF PageIInv, PageTypeOK, Types, WireOrdered

LEMMA EmptyWire == Len(<<>>) = 0
  OBVIOUS

LEMMA ReconnectStep == ASSUME PageIInv, Reconnect PROVE PageIInv'
<1>0. PageIInv
  OBVIOUS
<1>1. "reconnect" \in timers /\ timers' = timers \ {"reconnect"}
      /\ stream' = (IF stream = "none" THEN "connecting" ELSE stream)
      /\ UNCHANGED <<server, wire, page, applied, admission, want, request, faults, announced>>
  BY DEF Reconnect
<1>2. page = "on"
  BY <1>1, Asleep
<1>3. PageTypeOK'
  BY <1>1, <1>2, Asleep DEF PageTypeOK
<1>4. Handles
  BY <1>1, <1>2, Asleep DEF Handles, ReadGoesOn, Rereads
<1> QED BY <1>0, <1>3, <1>4, Handling

LEMMA PollStep == ASSUME PageIInv, Poll PROVE PageIInv'
<1>0. PageIInv
  OBVIOUS
<1>1. "poll" \in timers /\ ForceRead(timers \ {"poll"})
      /\ UNCHANGED <<server, stream, wire, page, applied, admission, faults, announced>>
  BY DEF Poll
<1>2. page = "on"
  BY <1>1, Asleep
<1>f. want' \in Wants /\ want'.dirty /\ request' = request /\ timers' \subseteq (timers \ {"poll"}) \cup {"read"} /\ Rereads'
  BY <1>1, Forcing
<1>3. PageTypeOK'
  BY <1>1, <1>2, <1>f, Asleep DEF PageTypeOK
<1>4. Handles
  BY <1>1, <1>2, <1>f, Asleep DEF Handles, ReadGoesOn
<1> QED BY <1>0, <1>3, <1>4, Handling

LEMMA PeriodicStep == ASSUME PageIInv, Periodic PROVE PageIInv'
<1>0. PageIInv
  OBVIOUS
<1>1. page = "on" /\ ForceRead(timers)
      /\ UNCHANGED <<server, stream, wire, page, applied, admission, faults, announced>>
  BY DEF Periodic
<1>f. want' \in Wants /\ want'.dirty /\ request' = request /\ timers' \subseteq timers \cup {"read"} /\ Rereads'
  BY <1>1, Forcing
<1>3. PageTypeOK'
  BY <1>1, <1>f, Asleep DEF PageTypeOK
<1>4. Handles
  BY <1>1, <1>f, Asleep DEF Handles, ReadGoesOn
<1> QED BY <1>0, <1>3, <1>4, Handling

LEMMA StreamErrorStep == ASSUME PageIInv, StreamError PROVE PageIInv'
<1>0. PageIInv
  OBVIOUS
<1>1. stream # "none" /\ stream' = "none" /\ wire' = <<>> /\ ForceRead(timers \cup {"poll", "reconnect"})
      /\ UNCHANGED <<server, page, applied, admission, announced>>
  BY DEF StreamError
<1>2. page = "on"
  BY <1>1, Asleep
<1>f. want' \in Wants /\ want'.dirty /\ request' = request /\ timers' \subseteq (timers \cup {"poll", "reconnect"}) \cup {"read"} /\ Rereads'
  BY <1>1, Forcing
<1>g. faults' \in faults .. MaxFaults
  BY ServerTyped DEF StreamError, Fault
<1>3. PageTypeOK'
  BY <1>1, <1>2, <1>f, Asleep, EmptyWire DEF PageTypeOK
<1>4. Handles
  BY <1>1, <1>2, <1>f, <1>g, Asleep DEF Handles, ReadGoesOn
<1> QED BY <1>0, <1>3, <1>4, Handling

LEMMA ReadStep == ASSUME PageIInv, Read PROVE PageIInv'
<1>0. PageIInv
  OBVIOUS
<1>1. "read" \in timers /\ timers' = timers \ {"read"}
      /\ UNCHANGED <<server, stream, wire, page, applied, admission, faults, announced>>
  BY DEF Read
<1>2. page = "on"
  BY <1>1, Asleep
<1>3. CASE request # NoRequest
  <2>1. request' = request /\ want' = want
    BY <1>3 DEF Read
  <2>2. PageTypeOK'
    BY <1>1, <1>2, <2>1, Asleep DEF PageTypeOK
  <2>3. Rereads'
    BY <1>3, <2>1 DEF Rereads
  <2>4. Handles
    BY <1>1, <1>2, <2>1, <2>3, Asleep DEF Handles, ReadGoesOn
  <2> QED BY <1>0, <2>2, <2>4, Handling
<1>4. CASE request = NoRequest
  <2>1. request' = [forced |-> want.forced, baseline |-> want.baseline, answer |-> Unserved] /\ want' = Calm
    BY <1>4 DEF Read
  <2>2. want.forced \in BOOLEAN /\ want.baseline \in BOOLEAN
    BY Asleep DEF Wants
  <2>3. request' \in Reads /\ request'.answer = Unserved
    BY <2>1, <2>2 DEF Reads
  <2>4. Rereads'
    BY <2>3, NoReadIsNoRead DEF Rereads
  <2>5. PageTypeOK'
    BY <1>1, <1>2, Asleep DEF PageTypeOK
  <2>6. Handles
    BY <1>1, <1>2, <2>1, <2>3, <2>4, NoReadIsNoRead, Asleep DEF Handles, ReadGoesOn
  <2> QED BY <1>0, <2>5, <2>6, Handling
<1> QED BY <1>3, <1>4

LEMMA ReleaseStep ==
  ASSUME PageIInv, request # NoRequest, Release(timers), faults' \in faults .. MaxFaults,
         UNCHANGED <<server, stream, wire, page, applied, admission, want, announced>>
  PROVE  PageIInv'
<1>0. PageIInv
  OBVIOUS
<1>1. request' = NoRequest /\ timers' = timers \cup {"poll"}
  BY DEF Release
<1>2. page = "on"
  BY Asleep
<1>3. Rereads'
  BY <1>1 DEF Rereads
<1>4. PageTypeOK'
  BY <1>1, <1>2, Asleep DEF PageTypeOK
<1>5. Handles
  BY <1>1, <1>2, <1>3, Asleep DEF Handles, ReadGoesOn
<1> QED BY <1>0, <1>4, <1>5, Handling

LEMMA RejectViewStep == ASSUME PageIInv, RejectView PROVE PageIInv'
  BY ReleaseStep, ServerTyped DEF RejectView

LEMMA FailReadStep == ASSUME PageIInv, FailRead PROVE PageIInv'
  BY ReleaseStep, ServerTyped DEF FailRead, Fault

LEMMA HideStep == ASSUME PageIInv, Hide PROVE PageIInv'
<1>0. PageIInv
  OBVIOUS
<1>1. page' = "off" /\ stream' = "none" /\ wire' = <<>> /\ request' = NoRequest /\ timers' = {}
      /\ UNCHANGED <<server, applied, admission, want, faults, announced>>
  BY DEF Hide, Pause
<1>2. PageTypeOK'
  BY <1>1, Asleep, EmptyWire DEF PageTypeOK
<1>3. Handles
  BY <1>1, Asleep DEF Handles, ReadGoesOn
<1> QED BY <1>0, <1>2, <1>3, Handling

\* What a page without authority knows.
LEMMA Authorities ==
  ASSUME PageIInv
  PROVE  /\ admission \in Admissions /\ admission.epoch \in Nat /\ admission.clock \in Nat /\ admission.retired \in Nat
         /\ admission.contextRevision \in Nat /\ admission.userRevision \in Nat
         /\ admission.epoch <= server.epoch /\ admission.retired < server.epoch /\ admission.clock <= server.epoch
         /\ admission.contextRevision <= admission.userRevision
         /\ admission.locked /\ admission.epoch = server.epoch => admission.contextRevision <= server.u
         /\ stream = "open" => wire # <<>> \/ admission.epoch = server.epoch \/ ~admission.locked
         /\ admission.clock = server.epoch =>
              /\ admission.userRevision <= server.u
              /\ \A i \in 1 .. Len(wire) : wire[i].changed => wire[i].u > admission.userRevision
  BY DEF PageIInv, Types, Admissions, AdmissionPast

\* What is known of the last announced change.
LEMMA Announcing ==
  ASSUME PageIInv
  PROVE  /\ announced \in Announcements /\ announced.epoch \in Nat /\ announced.u \in Nat /\ announced.foreign \in BOOLEAN
         /\ announced.epoch <= server.epoch
         /\ announced.epoch = server.epoch => announced.u <= server.u
         /\ announced.epoch = 0 => announced.u = 0
  BY DEF PageIInv, Types, Announcements, AnnouncedPast

LEMMA SignOutStep == ASSUME PageIInv, SignOut PROVE PageIInv'
<1>1. /\ page' = "off" /\ stream' = "none" /\ wire' = <<>> /\ request' = NoRequest /\ timers' = {}
      /\ applied' = Nothing /\ admission' = Unknown /\ want' = Calm
      /\ UNCHANGED <<server, faults, announced>>
  BY DEF SignOut, Pause
<1>0. ~Served'
  BY <1>1 DEF Served
<1>w. Len(wire') = 0 /\ wire' \in Seq(Notices)
  BY <1>1
<1>2. PageTypeOK'
  BY <1>1, <1>w, Asleep DEF PageTypeOK
<1>3. Types'
  BY <1>1, <1>w, NoReadIsNoRead DEF PageIInv, Types
<1>4. ReadsForward'
  BY <1>0, <1>1, ServerTyped DEF ReadsForward, Before, Nothing
<1>5. WireOrdered'
  BY <1>1, <1>w DEF WireOrdered
<1>6. AdmissionPast'
  BY <1>1, ServerTyped DEF AdmissionPast, Unknown
<1>7. AnnouncedPast'
  BY <1>1 DEF PageIInv, AnnouncedPast
<1>8. ReadsAgain'
  BY <1>0, <1>1 DEF ReadsAgain
<1> QED BY <1>2, <1>3, <1>4, <1>5, <1>6, <1>7, <1>8 DEF PageIInv

LEMMA ShowStep == ASSUME PageIInv, Show PROVE PageIInv'
<1>1. /\ page = "off" /\ page' = "on" /\ stream' = "connecting" /\ ForceRead({})
      /\ UNCHANGED <<server, wire, applied, faults, announced>>
  BY DEF Show
<1>a. /\ admission' \in Admissions /\ admission'.epoch = 0 /\ ~admission'.locked
      /\ admission'.retired = admission.retired /\ admission'.clock = admission.clock
      /\ admission'.contextRevision = admission.contextRevision /\ admission'.userRevision = admission.userRevision
  BY Authorities DEF Show, Admissions
<1>f. want' \in Wants /\ want'.dirty /\ request' = request /\ timers' \subseteq {"read"} /\ Rereads'
  BY <1>1, Forcing
<1>0. request = NoRequest /\ wire = <<>>
  BY <1>1, Asleep
<1>s. ~Served'
  BY <1>f, <1>0 DEF Served
<1>2. PageTypeOK'
  BY <1>1, <1>f, Asleep DEF PageTypeOK
<1>3. Types'
  BY <1>1, <1>a, <1>f DEF PageIInv, Types
<1>4. ReadsForward'
  BY <1>s, <1>1 DEF PageIInv, ReadsForward, Before
<1>5. WireOrdered'
  BY <1>1, <1>0, EmptyWire DEF WireOrdered
<1>6. AdmissionPast'
  BY <1>1, <1>a, ServerTyped, Authorities DEF AdmissionPast
<1>7. AnnouncedPast'
  BY <1>1 DEF PageIInv, AnnouncedPast
<1>8. ReadsAgain'
  BY <1>s, <1>1, <1>f DEF ReadsAgain
<1> QED BY <1>2, <1>3, <1>4, <1>5, <1>6, <1>7, <1>8 DEF PageIInv

\* The cursor of the account is read, or begun.
LEMMA Cursors ==
  ASSUME PageIInv, NEW fresh \in BOOLEAN, server' = [server EXCEPT !.u = Cursor(fresh)]
  PROVE  /\ server' \in Versions /\ server'.ctx = server.ctx /\ server'.epoch = server.epoch
         /\ server'.g = server.g /\ server'.data = server.data
         /\ server'.u \in {server.u, server.u + 1} /\ (~fresh => server'.u = server.u)
<1>1. Cursor(fresh) \in Nat /\ Cursor(fresh) \in {server.u, server.u + 1} /\ (~fresh => Cursor(fresh) = server.u)
  BY ServerTyped DEF Cursor
<1> QED BY <1>1, ServerTyped DEF Versions

\* What was past stays past when the cursor moves.
LEMMA StillBefore ==
  ASSUME PageIInv, server'.epoch = server.epoch, server'.g = server.g, server'.u \in {server.u, server.u + 1}
  PROVE  \A v \in Versions : Before(v, server) => Before(v, server)'
  BY ServerTyped DEF Before, Versions

\* What is shown, and an answer on its way, in their order.
LEMMA Answers ==
  ASSUME PageIInv
  PROVE  /\ applied \in Versions /\ Before(applied, server)
         /\ Served => /\ request \in Reads /\ request.answer \in Versions
                      /\ request.answer.epoch >= 1 /\ Before(request.answer, server) /\ Before(applied, request.answer)
  BY DEF PageIInv, ReadsForward, Types, Served, Reads

LEMMA ServeStep == ASSUME PageIInv, NEW fresh \in BOOLEAN, Serve(fresh) PROVE PageIInv'
<1>1. /\ request # NoRequest /\ request.answer = Unserved /\ (fresh => stream # "open")
      /\ request' = [request EXCEPT !.answer = server']
      /\ UNCHANGED <<stream, wire, page, applied, admission, want, timers, faults, announced>>
  BY DEF Serve
<1>s. /\ server' \in Versions /\ server'.ctx = server.ctx /\ server'.epoch = server.epoch
      /\ server'.g = server.g /\ server'.data = server.data
      /\ server'.u \in {server.u, server.u + 1} /\ (~fresh => server'.u = server.u)
  <2>1. server' = [server EXCEPT !.u = Cursor(fresh)]
    BY DEF Serve
  <2> QED BY <2>1, Cursors
<1>n. server.epoch \in Nat \ {0} /\ server.u \in Nat /\ server.g \in Nat /\ server'.u \in Nat /\ server'.u >= server.u
  BY <1>s, ServerTyped
<1>r. request \in Reads /\ request' \in Reads /\ request'.answer = server' /\ page = "on"
  <2>1. request \in Reads /\ page = "on"
    BY <1>1, Asleep
  <2> QED BY <1>1, <1>s, <2>1 DEF Reads
<1>o. Rereads'
  BY <1>r, NoReadIsNoRead DEF Rereads
<1>2. PageTypeOK'
  BY <1>1, <1>s, <1>r, Asleep DEF PageTypeOK
<1>3. Types'
  BY <1>1, <1>s, <1>r, ServerTyped DEF PageIInv, Types
<1>4. ReadsForward'
  <2>1. Before(applied, server)'
    BY <1>1, <1>s, StillBefore, Answers DEF Before
  <2>2. Before(request.answer, server)' /\ Before(applied, request.answer)' /\ request'.answer.epoch >= 1
    BY <1>1, <1>r, <1>s, <1>n, <2>1 DEF Before
  <2> QED BY <2>1, <2>2 DEF ReadsForward
<1>5. WireOrdered'
  <2>1. ASSUME NEW i \in 1 .. Len(wire)
        PROVE  wire[i].u <= server'.u
    <3>1. wire[i].u <= server.u /\ wire[i] \in Notices
      BY DEF PageIInv, WireOrdered, Types
    <3>2. wire[i].u \in Nat
      BY <3>1 DEF Notices
    <3> QED BY <3>1, <3>2, <1>n
  <2> QED BY <1>1, <1>s, <2>1 DEF PageIInv, WireOrdered
<1>6. AdmissionPast'
  BY <1>1, <1>s, <1>n, Authorities DEF AdmissionPast
<1>7. AnnouncedPast'
  BY <1>1, <1>s, <1>n, Announcing DEF AnnouncedPast
<1>8. ReadsAgain'
  <2>1. ~Stale(request.answer)'
    BY <1>r DEF Stale
  <2>2. ~Contradicts(request.answer)'
    BY <1>1, <1>r, <1>s, <1>n, Announcing DEF Contradicts
  <2> QED BY <1>o, <2>1, <2>2 DEF ReadsAgain
<1> QED BY <1>2, <1>3, <1>4, <1>5, <1>6, <1>7, <1>8 DEF PageIInv

LEMMA OpenStreamStep == ASSUME PageIInv, NEW fresh \in BOOLEAN, OpenStream(fresh) PROVE PageIInv'
<1>1. /\ stream = "connecting" /\ stream' = "open" /\ ForceRead(timers)
      /\ wire' = <<FirstNotice(server'.u, server.ctx)>>
      /\ UNCHANGED <<page, applied, admission, faults, announced>>
  BY DEF OpenStream, FirstNotice
<1>s. /\ server' \in Versions /\ server'.ctx = server.ctx /\ server'.epoch = server.epoch
      /\ server'.g = server.g /\ server'.data = server.data
      /\ server'.u \in {server.u, server.u + 1}
  <2>1. server' = [server EXCEPT !.u = Cursor(fresh)]
    BY DEF OpenStream
  <2> QED BY <2>1, Cursors
<1>n. server.epoch \in Nat \ {0} /\ server.u \in Nat /\ server.g \in Nat /\ server'.u \in Nat /\ server'.u >= server.u
  BY <1>s, ServerTyped
<1>f. want' \in Wants /\ want'.dirty /\ request' = request /\ timers' \subseteq timers \cup {"read"} /\ Rereads'
  BY <1>1, Forcing
<1> DEFINE n == FirstNotice(server'.u, server.ctx)
<1>w. n \in Notices /\ n.epoch = server.epoch /\ n.u = server'.u /\ ~n.changed
  BY <1>n, ServerTyped, ContextNotices
<1> HIDE DEF n
<1>v. wire' = <<n>>
  BY <1>1 DEF n
<1>x. Len(wire') = 1 /\ wire' \in Seq(Notices) /\ wire'[1] = n /\ wire' # <<>> /\ 1 .. Len(wire') = {1}
  BY <1>v, <1>w
<1>p. page = "on"
  BY <1>1, Asleep
<1>2. PageTypeOK'
  BY <1>1, <1>s, <1>f, <1>x, <1>p, Asleep DEF PageTypeOK
<1>3. Types'
  BY <1>1, <1>s, <1>f, <1>x, ServerTyped DEF PageIInv, Types
<1>4. ReadsForward'
  <2>1. Before(applied, server)'
    BY <1>1, <1>s, StillBefore, Answers DEF Before
  <2>2. Served' = Served
    BY <1>f DEF Served
  <2>3. ASSUME Served
        PROVE Before(request.answer, server)' /\ Before(applied, request.answer)' /\ request'.answer.epoch >= 1
    BY <1>1, <1>f, <1>s, <2>3, StillBefore, Answers DEF Before
  <2> QED BY <2>1, <2>2, <2>3 DEF ReadsForward
<1>5. WireOrdered'
  BY <1>1, <1>s, <1>n, <1>w, <1>x DEF WireOrdered
<1>6. AdmissionPast'
  BY <1>1, <1>s, <1>n, <1>w, <1>x, Authorities DEF AdmissionPast
<1>7. AnnouncedPast'
  BY <1>1, <1>s, <1>n, Announcing DEF AnnouncedPast
<1>8. ReadsAgain'
  <2>1. Served' = Served /\ Contradicts(request.answer)' = Contradicts(request.answer)
    BY <1>1, <1>f DEF Served, Contradicts
  <2>2. Served /\ Contradicts(request.answer) => announced.foreign
    BY DEF PageIInv, ReadsAgain
  <2> QED BY <1>1, <1>f, <1>x, <2>1, <2>2 DEF ReadsAgain
<1> QED BY <1>2, <1>3, <1>4, <1>5, <1>6, <1>7, <1>8 DEF PageIInv

LEMMA ApplyStep == ASSUME PageIInv, Apply PROVE PageIInv'
<1>1. /\ Served /\ ViewAdmission(request.answer, request)
      /\ applied' = request.answer /\ request' = NoRequest
      /\ timers' = timers \cup (IF want.dirty THEN {"read"} ELSE {}) \cup (IF stream = "none" THEN {"poll"} ELSE {})
      /\ UNCHANGED <<server, stream, wire, page, want, faults, announced>>
  BY DEF Apply, Served
<1>v. /\ request \in Reads /\ request.answer \in Versions /\ request.answer.epoch \in Nat \ {0} /\ Before(request.answer, server)
      /\ Before(applied, request.answer) /\ applied \in Versions /\ applied.epoch \in Nat
      /\ request.answer.ctx \in Tokens \cup {NoContext}
      /\ request.answer.epoch <= server.epoch /\ applied.epoch <= request.answer.epoch
  <2>1. request \in Reads /\ request.answer \in Versions /\ applied \in Versions
    BY <1>1, Answers
  <2> QED BY <1>1, <2>1, Answers DEF Versions, Before
<1>a. /\ admission' \in Admissions /\ admission'.epoch = request.answer.epoch /\ ~admission'.locked
      /\ admission'.retired = (IF applied.epoch \notin {0, request.answer.epoch} THEN applied.epoch ELSE admission.retired)
      /\ admission'.clock = admission.clock
      /\ admission'.contextRevision = admission.contextRevision /\ admission'.userRevision = admission.userRevision
  <2> DEFINE v == request.answer
  <2> DEFINE z == IF applied.epoch \notin {0, request.answer.epoch} THEN applied.epoch ELSE admission.retired
  <2>1. z \in Nat /\ v.epoch \in Nat /\ v.ctx \in Tokens \cup {NoContext} /\ admission \in Admissions
    BY <1>v, Authorities
  <2>2. admission' = [admission EXCEPT !.epoch = v.epoch, !.context = v.ctx, !.locked = FALSE, !.retired = z]
    BY DEF Apply
  <2> HIDE DEF v, z
  <2>3. /\ admission' \in Admissions /\ admission'.epoch = v.epoch /\ ~admission'.locked /\ admission'.retired = z
        /\ admission'.clock = admission.clock
        /\ admission'.contextRevision = admission.contextRevision /\ admission'.userRevision = admission.userRevision
    BY <2>1, <2>2 DEF Admissions
  <2> QED BY <2>3 DEF v, z
<1>p. page = "on"
  BY <1>1, Asleep DEF Served
<1>s. ~Served'
  BY <1>1 DEF Served
<1>2. PageTypeOK'
  BY <1>1, <1>p, Asleep DEF PageTypeOK
<1>3. Types'
  BY <1>1, <1>v, <1>a DEF PageIInv, Types
<1>4. ReadsForward'
  BY <1>1, <1>v, <1>s DEF ReadsForward, Before
<1>5. WireOrdered'
  BY <1>1 DEF PageIInv, WireOrdered
<1>6. AdmissionPast'
  <2>1. admission'.retired < server.epoch
    <3>1. admission.retired < server.epoch /\ server.epoch \in Nat
      BY Authorities, ServerTyped
    <3>2. CASE applied.epoch \in {0, request.answer.epoch}
      <4>1. admission'.retired = admission.retired
        BY <1>a, <3>2
      <4> QED BY <3>1, <4>1
    <3>3. CASE applied.epoch \notin {0, request.answer.epoch}
      <4>1. admission'.retired = applied.epoch
        BY <1>a, <3>3
      <4>2. applied.epoch # request.answer.epoch
        BY <3>3
      <4> QED BY <1>v, <3>1, <4>1, <4>2
    <3> QED BY <3>2, <3>3
  <2>2. admission'.clock = server.epoch =>
          /\ admission'.userRevision <= server.u
          /\ \A i \in 1 .. Len(wire) : wire[i].changed => wire[i].u > admission'.userRevision
    <3>1. admission.clock = server.epoch =>
            /\ admission.userRevision <= server.u
            /\ \A i \in 1 .. Len(wire) : wire[i].changed => wire[i].u > admission.userRevision
      BY DEF PageIInv, AdmissionPast
    <3>2. admission'.clock = admission.clock /\ admission'.userRevision = admission.userRevision
      BY <1>a
    <3> QED BY <3>1, <3>2
  <2>3. /\ admission'.epoch <= server.epoch /\ admission'.clock <= server.epoch /\ ~admission'.locked
        /\ admission'.contextRevision <= admission'.userRevision
    BY <1>a, <1>v, Authorities
  <2>4. server' = server /\ wire' = wire
    BY <1>1
  <2> QED BY <2>1, <2>2, <2>3, <2>4 DEF AdmissionPast
<1>7. AnnouncedPast'
  BY <1>1 DEF PageIInv, AnnouncedPast
<1>8. ReadsAgain'
  <2>1. /\ stream = "open" /\ Stale(request.answer) => want.dirty \/ wire # <<>>
        /\ Contradicts(request.answer) => want.dirty
    BY <1>1 DEF PageIInv, ReadsAgain
  <2>2. Stale(applied)' = Stale(request.answer) /\ Contradicts(applied)' = Contradicts(request.answer)
    BY <1>1 DEF Stale, Contradicts
  <2>3. (want.dirty => Rereads') /\ (stream = "none" => Rereads')
    BY <1>1 DEF Rereads
  <2> QED BY <1>1, <1>s, <2>1, <2>2, <2>3 DEF ReadsAgain
<1> QED BY <1>2, <1>3, <1>4, <1>5, <1>6, <1>7, <1>8 DEF PageIInv

\* What a notice of the present process makes of the page's authority.
LEMMA Authorized ==
  ASSUME PageIInv, NEW n \in Notices, n.epoch = server.epoch, n.u <= server.u
  PROVE  LET a == Authority(n)
             u == IF admission.epoch = n.epoch THEN admission.userRevision ELSE 0
         IN  /\ a \in Admissions /\ a.epoch = server.epoch /\ a.retired < server.epoch /\ a.clock <= server.epoch
             /\ a.contextRevision <= a.userRevision
             /\ a.locked => a.contextRevision <= server.u
             /\ a.userRevision = IF n.u > u THEN n.u ELSE u
             /\ a.clock = server.epoch =>
                  n.u > u \/ admission.epoch # n.epoch \/ admission.clock = server.epoch
<1> DEFINE e == admission.epoch = n.epoch
<1> DEFINE r == IF admission.epoch # 0 THEN admission.epoch ELSE admission.retired
<1> DEFINE k == IF e THEN admission
                ELSE [Unknown EXCEPT !.epoch = n.epoch, !.locked = admission.locked, !.clock = n.epoch, !.retired = r]
<1> DEFINE u == IF e THEN admission.userRevision ELSE 0
<1>n. n.epoch \in Nat \ {0} /\ n.u \in Nat /\ n.context \in Tokens \cup {NoContext} /\ n.changed \in BOOLEAN /\ server.u \in Nat
      /\ server.epoch \in Nat
  BY ServerTyped DEF Notices
<1>1. /\ k \in Admissions /\ k.epoch = n.epoch /\ k.retired < server.epoch /\ k.clock <= server.epoch
      /\ k.contextRevision <= k.userRevision /\ k.userRevision = u
      /\ k.locked => k.contextRevision <= server.u
      /\ k.clock = server.epoch => ~e \/ admission.clock = server.epoch
  <2>1. CASE e
    <3>1. k = admission /\ u = admission.userRevision
      BY <2>1
    <3> QED BY <2>1, <3>1, <1>n, Authorities
  <2>2. CASE ~e
    <3> DEFINE l == admission.locked
    <3>1. r \in Nat /\ r < server.epoch /\ l \in BOOLEAN
      BY <2>2, <1>n, Authorities DEF Admissions
    <3>2. k = [Unknown EXCEPT !.epoch = n.epoch, !.locked = l, !.clock = n.epoch, !.retired = r] /\ u = 0
      BY <2>2
    <3> HIDE DEF r, l, k, u
    <3>3. /\ k \in Admissions /\ k.epoch = n.epoch /\ k.retired = r /\ k.clock = n.epoch
          /\ k.contextRevision = 0 /\ k.userRevision = 0
      BY <3>1, <3>2, <1>n DEF Unknown, Admissions
    <3> QED BY <2>2, <3>1, <3>2, <3>3, <1>n
  <2> QED BY <2>1, <2>2
<1>2. Authority(n) =
        [k EXCEPT
           !.context = IF n.context # NoContext \/ n.changed THEN n.context ELSE @,
           !.locked = IF n.context # NoContext THEN TRUE ELSE IF n.changed THEN FALSE ELSE @,
           !.contextRevision = IF Supersedes(n) \/ n.context # NoContext THEN n.u ELSE @,
           !.clock = IF n.u > k.userRevision THEN n.epoch ELSE @,
           !.userRevision = IF n.u > @ THEN n.u ELSE @]
  BY DEF Authority
<1> HIDE DEF k, r
<1> DEFINE a == Authority(n)
<1> DEFINE x == IF n.context # NoContext \/ n.changed THEN n.context ELSE k.context
<1> DEFINE l == IF n.context # NoContext THEN TRUE ELSE IF n.changed THEN FALSE ELSE k.locked
<1> DEFINE c == IF Supersedes(n) \/ n.context # NoContext THEN n.u ELSE k.contextRevision
<1> DEFINE t == IF n.u > k.userRevision THEN n.epoch ELSE k.clock
<1> DEFINE w == IF n.u > k.userRevision THEN n.u ELSE k.userRevision
<1>k. /\ k.context \in Tokens \cup {NoContext} /\ k.locked \in BOOLEAN /\ k.contextRevision \in Nat /\ k.clock \in Nat
      /\ k.userRevision \in Nat /\ k.retired \in Nat
  BY <1>1 DEF Admissions
<1>3. x \in Tokens \cup {NoContext} /\ l \in BOOLEAN /\ c \in Nat /\ t \in Nat /\ w \in Nat
  BY <1>n, <1>k
<1>4. a = [k EXCEPT !.context = x, !.locked = l, !.contextRevision = c, !.clock = t, !.userRevision = w]
  BY <1>1, <1>2 DEF Admissions
<1>5. /\ c <= w
      /\ l => c <= server.u
      /\ t <= server.epoch
      /\ t = server.epoch => n.u > k.userRevision \/ k.clock = server.epoch
  BY <1>1, <1>n, <1>k
<1> HIDE DEF x, l, c, t, w, a
<1>6. /\ a \in Admissions /\ a.epoch = k.epoch /\ a.retired = k.retired /\ a.clock = t
      /\ a.contextRevision = c /\ a.userRevision = w /\ (a.locked <=> l)
  BY <1>1, <1>3, <1>4 DEF Admissions
<1>7. w = IF n.u > u THEN n.u ELSE u
  BY <1>1 DEF w
<1> QED BY <1>1, <1>5, <1>6, <1>7 DEF a
\* What counts of a notice; a change of context that does not count is one the
\* page has passed.
LEMMA Effects ==
  ASSUME NEW n \in Notices
  PROVE  /\ Effective(n) \in Notices /\ Effective(n).epoch = n.epoch /\ Effective(n).u = n.u
         /\ n.changed /\ ~Obsolete(n) => Supersedes(Effective(n))
<1>1. CASE Obsolete(n)
  <2>1. Effective(n) = [n EXCEPT !.context = NoContext, !.changed = FALSE]
    BY <1>1 DEF Effective
  <2> QED BY <1>1, <2>1 DEF Notices
<1>2. CASE ~Obsolete(n)
  <2>1. Effective(n) = n
    BY <1>2 DEF Effective
  <2> QED BY <1>2, <2>1 DEF Supersedes
<1> QED BY <1>1, <1>2

LEMMA HintStep == ASSUME PageIInv, Hint PROVE PageIInv'
<1> DEFINE told == Head(wire)
<1> DEFINE n == Effective(told)
<1> DEFINE rq == IF Supersedes(n) THEN NoRequest ELSE request
<1>1. /\ stream = "open" /\ wire # <<>> /\ wire' = Tail(wire)
      /\ UNCHANGED <<server, stream, page, applied, faults>>
      /\ announced' = IF told.changed
                      THEN [epoch |-> told.epoch, u |-> told.u, context |-> told.context,
                            foreign |-> admission.epoch = told.epoch /\ admission.clock # told.epoch]
                      ELSE announced
  BY DEF Hint
<1>w. wire \in Seq(Notices) /\ Len(wire) \in Nat \ {0} /\ Len(wire) <= MaxWire /\ MaxWire \in Nat
  <2>1. wire \in Seq(Notices)
    BY DEF PageIInv, Types
  <2> QED BY <1>1, <2>1, Asleep
<1>t. /\ told = wire[1] /\ told \in Notices /\ told.epoch = server.epoch /\ told.u <= server.u /\ told.u \in Nat
      /\ told.changed \in BOOLEAN /\ told.context \in Tokens \cup {NoContext} /\ (told.changed => told.u > 0)
  <2>1. told = wire[1] /\ 1 \in 1 .. Len(wire)
    BY <1>w
  <2>2. told \in Notices
    BY <2>1, <1>w
  <2> HIDE DEF told
  <2>3. told.u \in Nat /\ told.changed \in BOOLEAN /\ told.context \in Tokens \cup {NoContext}
    BY <2>2 DEF Notices
  <2> QED BY <2>1, <2>2, <2>3 DEF PageIInv, WireOrdered
<1>x. /\ wire' \in Seq(Notices) /\ Len(wire') = Len(wire) - 1
      /\ \A i \in 1 .. Len(wire') : i + 1 \in 1 .. Len(wire) /\ wire'[i] = wire[i + 1]
  BY <1>1, <1>w
<1> HIDE DEF told
<1>n. n \in Notices /\ n.epoch = server.epoch /\ n.u = told.u /\ (told.changed /\ ~Obsolete(told) => Supersedes(n))
  BY <1>t, Effects
<1> HIDE DEF n
<1>s. server.epoch \in Nat \ {0} /\ server.u \in Nat
  BY ServerTyped
<1>h. /\ admission' = Authority(n) /\ request' = rq /\ timers' = Scheduled(timers, rq)
      /\ want' = [Dirty(n.resync \/ Supersedes(n)) EXCEPT !.baseline = @ /\ ~Supersedes(n)]
  <2>1. told.epoch # admission.retired
    BY <1>t, <1>s, Authorities
  <2> QED BY <2>1 DEF Hint, n, told
<1>a. /\ admission' \in Admissions /\ admission'.epoch = server.epoch /\ admission'.retired < server.epoch
      /\ admission'.clock <= server.epoch /\ admission'.contextRevision <= admission'.userRevision
      /\ admission'.locked => admission'.contextRevision <= server.u
  BY <1>h, <1>n, <1>t, Authorized
<1>c. ASSUME admission'.clock = server.epoch
      PROVE  /\ admission'.userRevision <= server.u
             /\ \A v \in Nat : v > n.u /\ (admission.clock = server.epoch => v > admission.userRevision) =>
                  v > admission'.userRevision
  <2>0. admission.userRevision \in Nat /\ n.u \in Nat /\ n.u <= server.u
        /\ (admission.clock = server.epoch => admission.userRevision <= server.u)
    BY Authorities, <1>n, <1>t
  <2> DEFINE u == IF admission.epoch = n.epoch THEN admission.userRevision ELSE 0
  <2>1. /\ admission'.userRevision = IF n.u > u THEN n.u ELSE u
        /\ n.u > u \/ admission.epoch # n.epoch \/ admission.clock = server.epoch
    BY <1>c, <1>h, <1>n, <1>t, Authorized
  <2>2. u = 0 \/ u = admission.userRevision
    OBVIOUS
  <2>3. admission.epoch # n.epoch => u = 0
    OBVIOUS
  <2> HIDE DEF u
  <2> QED BY <2>0, <2>1, <2>2, <2>3, <1>s
<1>f. /\ want' \in Wants /\ want'.dirty /\ request' = rq /\ rq \in {request, NoRequest}
      /\ timers' \subseteq timers \cup {"read"} /\ Rereads'
  <2>1. n.resync \in BOOLEAN /\ Supersedes(n) \in BOOLEAN
    BY <1>n DEF Notices, Supersedes
  <2>2. Dirty(n.resync \/ Supersedes(n)) \in Wants /\ Dirty(n.resync \/ Supersedes(n)).dirty
    BY <2>1, Asleep DEF Dirty, Wants
  <2>3. want' \in Wants /\ want'.dirty
    BY <1>h, <2>1, <2>2 DEF Wants
  <2>4. rq = NoRequest => "read" \in timers'
    BY <1>h DEF Scheduled
  <2>5. Rereads'
    BY <1>h, <2>4 DEF Rereads
  <2>6. timers' \subseteq timers \cup {"read"}
    BY <1>h DEF Scheduled
  <2> QED BY <1>h, <2>3, <2>5, <2>6
<1>p. page = "on" /\ page' = "on" /\ server' = server /\ applied' = applied /\ stream' = "open" /\ faults' = faults
  BY <1>1, Asleep
<1>2. PageTypeOK'
  BY <1>1, <1>p, <1>f, <1>w, <1>x, Asleep DEF PageTypeOK
<1>m. /\ announced' \in Announcements
      /\ told.changed => /\ announced'.epoch = server.epoch /\ announced'.u = told.u
                         /\ announced'.foreign <=> admission.epoch = server.epoch /\ admission.clock # server.epoch
      /\ ~told.changed => announced' = announced
  <2>1. CASE told.changed
    <3> DEFINE fr == admission.epoch = told.epoch /\ admission.clock # told.epoch
    <3>1. fr \in BOOLEAN /\ told.epoch \in Nat
      BY <1>t, <1>s
    <3>2. fr <=> admission.epoch = server.epoch /\ admission.clock # server.epoch
      BY <1>t
    <3>3. announced' = [epoch |-> told.epoch, u |-> told.u, context |-> told.context, foreign |-> fr]
      BY <1>1, <2>1
    <3> HIDE DEF fr
    <3>4. announced' \in Announcements /\ announced'.epoch = told.epoch /\ announced'.u = told.u /\ (announced'.foreign <=> fr)
      BY <3>1, <3>3, <1>t DEF Announcements
    <3> QED BY <2>1, <3>2, <3>4, <1>t
  <2>2. CASE ~told.changed
    BY <1>1, <2>2, Announcing
  <2> QED BY <2>1, <2>2
<1>r. request' \in Reads \cup {NoRequest} /\ (Served' => request' = request /\ Served /\ ~Supersedes(n))
  BY <1>f, Asleep DEF Served
<1>3. Types'
  BY <1>p, <1>x, <1>a, <1>f, <1>r, <1>m DEF PageIInv, Types
<1>4. ReadsForward'
  BY <1>p, <1>r DEF PageIInv, ReadsForward, Before
<1>5. WireOrdered'
  <2>1. ASSUME NEW i \in 1 .. Len(wire')
        PROVE  /\ wire'[i].epoch = server.epoch /\ wire'[i].u <= server.u
               /\ wire'[i].changed => wire'[i].u > 0 /\ \A j \in 1 .. i - 1 : wire'[j].u < wire'[i].u
    <3>1. i + 1 \in 1 .. Len(wire) /\ wire'[i] = wire[i + 1]
      BY <1>x
    <3>2. \A j \in 1 .. i - 1 : j + 1 \in 1 .. (i + 1) - 1 /\ wire'[j] = wire[j + 1]
      BY <1>x
    <3>3. WireOrdered
      BY DEF PageIInv
    <3> QED BY <3>1, <3>2, <3>3 DEF WireOrdered
  <2> QED BY <1>p, <2>1 DEF WireOrdered
<1>6. AdmissionPast'
  <2>1. ASSUME admission'.clock = server.epoch, NEW i \in 1 .. Len(wire'), wire'[i].changed
        PROVE  wire'[i].u > admission'.userRevision
    <3>1. i + 1 \in 1 .. Len(wire) /\ wire'[i] = wire[i + 1] /\ 1 \in 1 .. (i + 1) - 1
      BY <1>x
    <3>2. wire[1].u < wire[i + 1].u
      BY <2>1, <3>1 DEF PageIInv, WireOrdered
    <3>3. admission.clock = server.epoch => wire[i + 1].u > admission.userRevision
      BY <2>1, <3>1, Authorities
    <3>4. wire[i + 1] \in Notices
      BY <3>1, <1>w
    <3>5. wire[i + 1].u \in Nat
      BY <3>4 DEF Notices
    <3>6. wire[i + 1].u > n.u
      BY <3>2, <3>5, <1>n, <1>t
    <3>7. PICK v \in Nat : v = wire[i + 1].u
      BY <3>5
    <3>8. v > n.u /\ (admission.clock = server.epoch => v > admission.userRevision)
      BY <3>3, <3>6, <3>7
    <3>9. v > admission'.userRevision
      BY <2>1, <3>8, <1>c
    <3> QED BY <3>1, <3>7, <3>9
  <2>2. admission'.clock = server.epoch => admission'.userRevision <= server.u
    BY <1>c
  <2>3. server'.epoch = server.epoch /\ server'.u = server.u /\ admission'.epoch = server'.epoch
    BY <1>p, <1>a
  <2>4. /\ admission'.epoch <= server'.epoch /\ admission'.retired < server'.epoch /\ admission'.clock <= server'.epoch
        /\ admission'.contextRevision <= admission'.userRevision
        /\ admission'.locked => admission'.contextRevision <= server'.u
    BY <1>a, <1>s, <2>3
  <2>5. admission'.clock = server'.epoch =>
          /\ admission'.userRevision <= server'.u
          /\ \A i \in 1 .. Len(wire') : wire'[i].changed => wire'[i].u > admission'.userRevision
    BY <2>1, <2>2, <2>3
  <2> QED BY <2>3, <2>4, <2>5 DEF AdmissionPast
<1>7. AnnouncedPast'
  BY <1>p, <1>s, <1>t, <1>m, Announcing DEF AnnouncedPast
<1>8. ReadsAgain'
  <2>1. ASSUME Served', Contradicts(request.answer)'
        PROVE  announced'.foreign
    <3>1. request' = request /\ Served /\ ~Supersedes(n)
      BY <1>r, <2>1
    <3>2. request.answer.epoch = announced'.epoch /\ request.answer.u < announced'.u
      BY <2>1, <3>1 DEF Contradicts
    <3>3. CASE ~told.changed
      <4>1. announced' = announced
        BY <3>3, <1>m
      <4>2. Contradicts(request.answer)
        BY <2>1, <3>1, <4>1 DEF Contradicts
      <4> QED BY <3>1, <4>1, <4>2 DEF PageIInv, ReadsAgain
    <3>4. CASE told.changed
      <4>1. Obsolete(told)
        BY <3>1, <3>4, <1>n
      <4>2. admission.epoch = server.epoch
        BY <4>1, <1>t DEF Obsolete
      <4>3. CASE applied.epoch = told.epoch /\ told.u <= applied.u
        <5>1. Before(applied, request.answer) /\ request.answer \in Versions /\ applied \in Versions
          BY <3>1, Answers
        <5>2. request.answer.u \in Nat /\ applied.u \in Nat
          BY <5>1 DEF Versions
        <5>3. request.answer.epoch = told.epoch /\ request.answer.u < told.u
          BY <3>2, <3>4, <1>m, <1>t
        <5>4. applied.u <= request.answer.u
          BY <4>3, <5>1, <5>3 DEF Before
        <5> QED BY <4>3, <5>2, <5>3, <5>4, <1>t
      <4>4. CASE told.u < admission.userRevision \/ told.u <= admission.contextRevision
        <5>1. told.u <= admission.userRevision
          BY <4>4, <1>t, Authorities
        <5>2. admission.clock = server.epoch => told.u > admission.userRevision
          <6>1. 1 \in 1 .. Len(wire) /\ wire[1] = told
            BY <1>w, <1>t
          <6>2. admission.clock = server.epoch => \A i \in 1 .. Len(wire) : wire[i].changed => wire[i].u > admission.userRevision
            BY DEF PageIInv, AdmissionPast
          <6> QED BY <3>4, <6>1, <6>2
        <5>3. admission.clock # server.epoch
          BY <5>1, <5>2, <1>t, Authorities
        <5> QED BY <3>4, <4>2, <5>3, <1>m
      <4> QED BY <4>1, <4>3, <4>4 DEF Obsolete
    <3> QED BY <3>3, <3>4
  <2> QED BY <1>f, <2>1 DEF ReadsAgain
<1> QED BY <1>2, <1>3, <1>4, <1>5, <1>6, <1>7, <1>8 DEF PageIInv
-----------------------------------------------------------------------------
(* Results.                                                                *)

LEMMA PageStarts == ASSUME PageInit PROVE PageIInv
<1> DEFINE c0 == CHOOSE c \in Contexts : TRUE
<1>1. /\ server = [epoch |-> 1, g |-> 0, u |-> 1, ctx |-> Token(1, c0), data |-> 0]
      /\ stream = "none" /\ wire = <<>> /\ page = "off"
      /\ applied = Nothing /\ admission = Unknown /\ want = Calm /\ request = NoRequest
      /\ timers = {} /\ faults = 0 /\ announced = Unannounced
  BY DEF PageInit
<1>2. c0 \in Contexts
  BY DEF PageAssumption
<1>3. Token(1, c0) \in Tokens
  BY <1>2, TokenTyped
<1> HIDE DEF c0
<1>4. server \in Versions /\ server.ctx \in Tokens /\ server.epoch = 1 /\ server.u = 1 /\ server.g = 0 /\ server.data = 0
  BY <1>1, <1>3 DEF Versions
<1>5. MaxFaults \in Nat /\ MaxChanges \in Nat /\ MaxWire \in Nat
  BY DEF PageAssumption
<1>w. Len(wire) = 0 /\ wire \in Seq(Notices)
  BY <1>1
<1>s. ~Served
  BY <1>1 DEF Served
<1>6. PageTypeOK
  BY <1>1, <1>4, <1>5, <1>w DEF PageTypeOK
<1>7. Types
  BY <1>1, <1>4, <1>5, <1>w, NoReadIsNoRead DEF Types
<1>8. ReadsForward
  BY <1>1, <1>4, <1>s DEF ReadsForward, Before, Nothing
<1>9. WireOrdered
  BY <1>1, <1>w DEF WireOrdered
<1>10. AdmissionPast
  BY <1>1, <1>4 DEF AdmissionPast, Unknown
<1>11. AnnouncedPast
  BY <1>1, <1>4 DEF AnnouncedPast, Unannounced
<1>12. ReadsAgain
  BY <1>1, <1>s DEF ReadsAgain
<1> QED BY <1>6, <1>7, <1>8, <1>9, <1>10, <1>11, <1>12 DEF PageIInv

LEMMA PageStutters == ASSUME PageIInv, UNCHANGED pageVars PROVE PageIInv'
<1>1. /\ server' = server /\ stream' = stream /\ wire' = wire /\ page' = page /\ applied' = applied
      /\ admission' = admission /\ want' = want /\ request' = request /\ timers' = timers /\ faults' = faults
      /\ announced' = announced
  BY DEF pageVars
<1> QED BY <1>1 DEF PageIInv, PageTypeOK, Types, ReadsForward, Before, Served, WireOrdered, AdmissionPast, AnnouncedPast,
             ReadsAgain, Stale, Rereads, Contradicts

\* What the pieces of the page know of the server is kept by every step.
THEOREM PageInvariant == PageSpec => []PageIInv
<1>1. PageInit => PageIInv
  BY PageStarts
<1>2. PageIInv /\ [PageNext]_pageVars => PageIInv'
  <2> SUFFICES ASSUME PageIInv, [PageNext]_pageVars PROVE PageIInv'
    OBVIOUS
  <2>1. ASSUME WriteGlobal PROVE PageIInv'
    BY <2>1, WriteGlobalStep
  <2>2. ASSUME WriteUser PROVE PageIInv'
    BY <2>2, WriteUserStep
  <2>3. ASSUME NEW c \in Contexts, WriteContext(c) \/ WriteQuietly(c) PROVE PageIInv'
    BY <2>3, WriteContextStep, WriteQuietlyStep
  <2>4. ASSUME NEW fresh \in BOOLEAN, OpenStream(fresh) \/ Serve(fresh) PROVE PageIInv'
    BY <2>4, OpenStreamStep, ServeStep
  <2>5. ASSUME Restart PROVE PageIInv'
    BY <2>5, RestartStep
  <2>6. ASSUME Show \/ Hide \/ StreamError \/ Reconnect \/ Poll \/ Periodic PROVE PageIInv'
    BY <2>6, ShowStep, HideStep, StreamErrorStep, ReconnectStep, PollStep, PeriodicStep
  <2>7. ASSUME Hint \/ Read \/ Apply \/ RejectView \/ FailRead \/ SignOut PROVE PageIInv'
    BY <2>7, HintStep, ReadStep, ApplyStep, RejectViewStep, FailReadStep, SignOutStep
  <2>8. ASSUME UNCHANGED pageVars PROVE PageIInv'
    BY <2>8, PageStutters
  <2> QED BY <2>1, <2>2, <2>3, <2>4, <2>5, <2>6, <2>7, <2>8 DEF PageNext
<1> QED BY <1>1, <1>2, PTL DEF PageSpec

\* A read of the present state is admitted once the notices are heard.
LEMMA PresentAdmitted ==
  ASSUME PageIInv, stream = "open", wire = <<>>
  PROVE  ViewAdmission(server, [forced |-> TRUE, baseline |-> TRUE])
<1> DEFINE rq == [forced |-> TRUE, baseline |-> TRUE]
<1>1. rq.forced /\ rq.baseline
  OBVIOUS
<1>2. server.epoch # admission.retired
  BY Authorities, ServerTyped
<1>3. admission.locked => server.u >= admission.contextRevision
  BY Authorities, ServerTyped
<1>4. applied.epoch = server.epoch => server.g >= applied.g /\ server.u >= applied.u
  BY Answers, ServerTyped DEF Before, Versions
<1> HIDE DEF rq
<1>5. ViewAdmission(server, rq)
  BY <1>1, <1>2, <1>3, <1>4 DEF ViewAdmission
<1> QED BY <1>5 DEF rq

\* A page that is on is never left with a view it should not show: whatever was
\* cancelled, refused, lost or restarted, a read or a notice is still to come, and
\* a read of the present state would be admitted.
THEOREM PageAlwaysSound == PageSpec => []PageSound
<1>1. PageIInv => PageSound
  <2> SUFFICES ASSUME PageIInv PROVE PageSound
    OBVIOUS
  <2>1. PageTypeOK
    BY DEF PageIInv
  <2>2. ASSUME page = "on", Behind
        PROVE  Rereads \/ wire # <<>> \/ stream \in {"broken", "connecting"}
    <3>1. Stale(applied)
      BY <2>2 DEF Behind, Stale
    <3> QED BY <2>1, <2>2, <3>1 DEF PageIInv, ReadsAgain, PageTypeOK
  <2>3. ASSUME page = "on", Contradicts(applied)
        PROVE  Rereads
    BY <2>3 DEF PageIInv, ReadsAgain
  <2>4. stream = "open" /\ wire = <<>> => ViewAdmission(server, [forced |-> TRUE, baseline |-> TRUE])
    BY PresentAdmitted
  <2> QED BY <2>1, <2>2, <2>3, <2>4 DEF PageSound, NeverStranded
<1> QED BY <1>1, PageInvariant, PTL

\* No step takes the page back to an earlier process, or shows it, after a notice
\* announced a change of context, a view from before it.
THEOREM NoticesAlwaysBind == PageSpec => NoticesBind
<1>1. PageIInv /\ [PageNext]_pageVars =>
        [applied' \notin {applied, Nothing} =>
           /\ applied'.epoch >= applied.epoch
           /\ Contradicts(applied') => announced.foreign]_pageVars
  <2> SUFFICES ASSUME PageIInv, PageNext, applied' # applied, applied' # Nothing
               PROVE  applied'.epoch >= applied.epoch /\ (Contradicts(applied') => announced.foreign)
    BY DEF pageVars
  <2>1. Apply
    BY DEF PageNext, WriteGlobal, WriteUser, WriteContext, WriteQuietly, Change, clientVars, OpenStream, Serve, Restart,
           Show, Hide, StreamError, Reconnect, Poll, Periodic, Hint, Read, RejectView, FailRead, SignOut
  <2>2. Served /\ applied' = request.answer
    BY <2>1 DEF Apply, Served
  <2>3. /\ request.answer.epoch \in Nat /\ applied.epoch \in Nat /\ applied.epoch <= request.answer.epoch
    BY <2>2, Answers DEF Versions, Before
  <2>4. Contradicts(request.answer) => announced.foreign
    BY <2>2 DEF PageIInv, ReadsAgain
  <2> QED BY <2>2, <2>3, <2>4
<1> QED BY <1>1, PageInvariant, PTL DEF PageSpec, NoticesBind

=============================================================================
