---------------------------- MODULE LivePartsProofs ----------------------------
(***************************************************************************)
(* Theorems of the two parts that decide who may begin: the operation gate *)
(* and the tracker of the runs begun under it.                             *)
(*                                                                         *)
(* SingleFlight, for any number of goroutines and any width of the lease   *)
(* counter: types, conservation of the token, exactness of the waiter      *)
(* count, mutual exclusion, and that it implements OperationGate.          *)
(*                                                                         *)
(* RerateTracker, for every set of accounts and surfaces and every size of *)
(* the map.  The invariants the runs check are conjuncts of TrackerIInv;   *)
(* what makes it inductive is GateSaysRun, which ties the run in progress  *)
(* to the holder of the gate.                                              *)
(***************************************************************************)
EXTENDS SingleFlight, RerateTracker, FiniteSetTheorems, WellFoundedInduction, TLAPS

-----------------------------------------------------------------------------
(* The operation gate.                                                     *)

\* Where the single token can be while it is out of the channel.
Out == Carrying \cup Owning

\* At most one goroutine has the token, and exactly when the channel is empty.
OneOut ==
    /\ \A p, q \in Proc : pc[p] \in Out /\ pc[q] \in Out => p = q
    /\ token = 1 <=> \A p \in Proc : pc[p] \notin Out

\* The owner number is the lease of the goroutine that owns the gate.
OwnerLease ==
    /\ \A p \in Proc : pc[p] \in Owning => owner = lease[p] /\ owner # 0
    /\ owner # 0 => \E p \in Proc : pc[p] \in Owning

\* No two goroutines keep the same lease, so a stale one is never the owner's.
LeasesDistinct ==
    \A p, q \in Proc : lease[p] = lease[q] /\ lease[p] # 0 => p = q

\* The strengthening that is inductive.
IInv == TypeOK /\ OneOut /\ OwnerLease /\ LeasesDistinct /\ WaitersExact

USE ProcAssumption, LeaseAssumption

-----------------------------------------------------------------------------
\* The next lease number is a lease number.
LEMMA NextLeaseType ==
    ASSUME next \in 0 .. MaxLease
    PROVE  NextLease \in 1 .. MaxLease
BY DEF NextLease

\* gate.waiters++ : one more goroutine is queued, one more is counted.
LEMMA CountUp ==
    ASSUME NEW p \in Proc, TypeOK, WaitersExact, pc[p] \notin Queued,
           NEW l \in Queued, Goto(p, l), waiters' = waiters + 1
    PROVE  WaitersExact'
<1> DEFINE S == {q \in Proc : pc[q] \in Queued}
           T == {q \in Proc : pc'[q] \in Queued}
<1>1. T = S \cup {p}
  BY DEF Goto, TypeOK
<1>2. IsFiniteSet(S) /\ p \notin S
  BY FS_Subset
<1>3. Cardinality(T) = Cardinality(S) + 1
  BY <1>1, <1>2, FS_AddElement
<1> QED
  BY <1>3 DEF WaitersExact

\* gate.waiters-- : one goroutine fewer is queued, one fewer is counted.
LEMMA CountDown ==
    ASSUME NEW p \in Proc, TypeOK, WaitersExact, pc[p] \in Queued,
           NEW l \in Location \ Queued, Goto(p, l), waiters' = waiters - 1
    PROVE  WaitersExact' /\ waiters' \in Nat
<1> DEFINE S == {q \in Proc : pc[q] \in Queued}
           T == {q \in Proc : pc'[q] \in Queued}
<1>1. T = S \ {p}
  BY DEF Goto, TypeOK
<1>2. IsFiniteSet(S) /\ p \in S
  BY FS_Subset
<1>3. IsFiniteSet(T) /\ Cardinality(T) = Cardinality(S) - 1
  BY <1>1, <1>2, FS_RemoveElement
<1>4. Cardinality(T) \in Nat
  BY <1>3, FS_CardinalityType
<1> QED
  BY <1>3, <1>4 DEF WaitersExact

\* A step that moves no goroutine into or out of the queue keeps the count.
LEMMA CountSame ==
    ASSUME TypeOK, WaitersExact, waiters' = waiters,
           \A q \in Proc : pc'[q] \in Queued <=> pc[q] \in Queued
    PROVE  WaitersExact'
<1>1. {q \in Proc : pc'[q] \in Queued} = {q \in Proc : pc[q] \in Queued}
  OBVIOUS
<1> QED
  BY <1>1 DEF WaitersExact

\* What Claim does when the claimant holds the only token.
LEMMA ClaimFacts ==
    ASSUME NEW p \in Proc, TypeOK, LeasesDistinct, Claim(p)
    PROVE  /\ next' \in 0 .. MaxLease
           /\ owner' \in 1 .. MaxLease
           /\ lease' \in [Proc -> 0 .. MaxLease]
           /\ lease'[p] = owner'
           /\ LeasesDistinct'
<1>1. NextLease \in 1 .. MaxLease
  BY NextLeaseType DEF TypeOK
<1>2. \A q \in Proc : lease'[q] = IF q = p THEN NextLease
                                  ELSE IF lease[q] = NextLease THEN 0 ELSE lease[q]
  BY DEF Claim
<1>3. lease' \in [Proc -> 0 .. MaxLease]
  <2>1. lease' = [q \in Proc |-> lease'[q]]
    BY DEF Claim
  <2>2. \A q \in Proc : lease'[q] \in 0 .. MaxLease
    BY <1>1, <1>2 DEF TypeOK
  <2> QED
    BY <2>1, <2>2
<1>4. LeasesDistinct'
  BY <1>1, <1>2 DEF LeasesDistinct, TypeOK
<1>5. next' = NextLease /\ owner' = NextLease
  BY DEF Claim
<1> QED
  BY <1>1, <1>2, <1>3, <1>4, <1>5

-----------------------------------------------------------------------------
\* The inductive invariant holds initially.
LEMMA InitIInv == Init => IInv
<1> SUFFICES ASSUME Init PROVE IInv
  OBVIOUS
<1>1. WaitersExact
  <2>1. {p \in Proc : pc[p] \in Queued} = {}
    BY DEF Init, Queued
  <2> QED
    BY <2>1, FS_EmptySet DEF Init, WaitersExact
<1>2. TypeOK
  BY DEF Init, TypeOK, Location, Between
<1>3. OneOut /\ OwnerLease /\ LeasesDistinct
  BY DEF Init, OneOut, OwnerLease, LeasesDistinct, Out, Owning, Carrying
<1> QED
  BY <1>1, <1>2, <1>3 DEF IInv

\* A goroutine without the token takes it from the channel and claims the gate.
LEMMA FastClaim ==
    ASSUME IInv, NEW p \in Proc, pc[p] \notin Out \cup Queued, token = 1, token' = 0,
           Claim(p), NEW l \in {"claimed", "holding"}, Goto(p, l),
           UNCHANGED <<waiters, done>>
    PROVE  IInv'
<1>1. /\ next' \in 0 .. MaxLease /\ owner' \in 1 .. MaxLease
      /\ lease' \in [Proc -> 0 .. MaxLease] /\ lease'[p] = owner' /\ LeasesDistinct'
  BY ClaimFacts DEF IInv
<1>2. pc' = [pc EXCEPT ![p] = l] /\ l \in Owning /\ l \notin Queued
  BY DEF Goto, Owning, Queued
<1>3. TypeOK'
  BY <1>1, <1>2 DEF IInv, TypeOK, Location
<1>4. OneOut' /\ OwnerLease'
  BY <1>1, <1>2 DEF IInv, TypeOK, OneOut, OwnerLease, Out
<1>5. WaitersExact'
  BY <1>2, CountSame DEF IInv, TypeOK
<1> QED
  BY <1>1, <1>3, <1>4, <1>5 DEF IInv

\* A step that keeps a goroutine on its side of Out, Owning and Queued, and the
\* gate as it is, keeps the invariant.
LEMMA Elsewhere ==
    ASSUME IInv, NEW p \in Proc, NEW l \in Location, Goto(p, l),
           l \in Carrying <=> pc[p] \in Carrying,
           l \in Owning <=> pc[p] \in Owning,
           l \in Queued <=> pc[p] \in Queued,
           UNCHANGED <<token, waiters, owner, next, lease>>,
           done' \in [Proc -> BOOLEAN]
    PROVE  IInv'
<1>1. pc' = [pc EXCEPT ![p] = l]
  BY DEF Goto
<1>2. \A q \in Proc : /\ pc'[q] \in Carrying <=> pc[q] \in Carrying
                      /\ pc'[q] \in Owning <=> pc[q] \in Owning
                      /\ pc'[q] \in Queued <=> pc[q] \in Queued
  BY <1>1 DEF IInv, TypeOK
<1>3. TypeOK'
  BY <1>1 DEF IInv, TypeOK
<1>4. OneOut' /\ OwnerLease' /\ LeasesDistinct'
  BY <1>2 DEF IInv, OneOut, OwnerLease, LeasesDistinct, Out
<1>5. WaitersExact'
  BY <1>2, CountSame DEF IInv
<1> QED
  BY <1>3, <1>4, <1>5 DEF IInv

\* The owner of the gate gives it back.
LEMMA OwnerReleases ==
    ASSUME IInv, NEW p \in Proc, pc[p] \in Owning, ReleaseLease(p),
           NEW l \in Between, Goto(p, l), UNCHANGED <<waiters, next, lease, done>>
    PROVE  IInv' /\ owner' = 0
<1>1. owner = lease[p] /\ owner # 0 /\ owner' = 0 /\ token' = 1
  BY DEF IInv, OwnerLease, ReleaseLease
<1>2. pc' = [pc EXCEPT ![p] = l] /\ l \in Location /\ l \notin Out /\ l \notin Queued
  BY DEF Goto, Location, Between, Queued, Out, Owning, Carrying
<1>3. TypeOK'
  BY <1>1, <1>2 DEF IInv, TypeOK
<1>4. \A q \in Proc : pc'[q] \notin Out
  BY <1>2 DEF IInv, TypeOK, OneOut, Out
<1>5. OneOut' /\ OwnerLease' /\ LeasesDistinct'
  BY <1>1, <1>4 DEF IInv, OneOut, OwnerLease, LeasesDistinct, Out
<1>6. pc[p] \notin Queued
  BY DEF Owning, Queued
<1>7. WaitersExact'
  BY <1>2, <1>6, CountSame DEF IInv, TypeOK
<1> QED
  BY <1>1, <1>3, <1>5, <1>7 DEF IInv

\* A lease that was given back is not the owner's: releasing it does nothing.
LEMMA StaleRelease ==
    ASSUME IInv, NEW p \in Proc, ReleaseAgain(p)
    PROVE  UNCHANGED vars
<1>1. owner # lease[p]
  <2>1. SUFFICES ASSUME owner = lease[p] PROVE FALSE
    OBVIOUS
  <2>2. PICK q \in Proc : pc[q] \in Owning /\ lease[q] = lease[p]
    BY <2>1 DEF IInv, OwnerLease, ReleaseAgain
  <2>3. q = p
    BY <2>2 DEF IInv, LeasesDistinct, ReleaseAgain
  <2> QED
    BY <2>2, <2>3 DEF ReleaseAgain, Between, Owning
<1> QED
  BY <1>1 DEF ReleaseAgain, ReleaseLease, vars

\* Every step keeps the inductive invariant.
LEMMA NextIInv == IInv /\ [Next]_vars => IInv'
<1> SUFFICES ASSUME IInv, [Next]_vars PROVE IInv'
  OBVIOUS
<1> USE DEF gateVars
<1>1. CASE UNCHANGED vars
  BY <1>1 DEF vars, IInv, TypeOK, OneOut, OwnerLease, LeasesDistinct, WaitersExact
<1>2. ASSUME NEW p \in Proc, TryAcquire(p) PROVE IInv'
  BY <1>2, FastClaim DEF TryAcquire, Between, Out, Queued, Carrying, Owning
<1>3. ASSUME NEW p \in Proc, TryRefused(p) PROVE IInv'
  <2>1. "refused" \in Location /\ "refused" \notin Out \cup Queued
    BY DEF Location, Between, Out, Queued, Carrying, Owning
  <2>2. pc[p] \notin Out \cup Queued /\ Goto(p, "refused") /\ UNCHANGED <<gateVars, lease, done>>
    BY <1>3 DEF TryRefused, Between, Out, Queued, Carrying, Owning
  <2> QED
    BY <2>1, <2>2, Elsewhere DEF Out, IInv, TypeOK
<1>4. ASSUME NEW p \in Proc, AcquireCall(p) PROVE IInv'
  <2>1. "enter" \in Location /\ "enter" \notin Out \cup Queued
    BY DEF Location, Between, Out, Queued, Carrying, Owning
  <2>2. pc[p] \notin Out \cup Queued /\ Goto(p, "enter") /\ UNCHANGED <<gateVars, lease>>
    BY <1>4 DEF AcquireCall, Between, Out, Queued, Carrying, Owning
  <2>3. done' \in [Proc -> BOOLEAN]
    BY <1>4 DEF AcquireCall, IInv, TypeOK
  <2> QED
    BY <2>1, <2>2, <2>3, Elsewhere DEF Out
<1>5. ASSUME NEW p \in Proc, AcquireFast(p) PROVE IInv'
  BY <1>5, FastClaim DEF AcquireFast, Out, Queued, Carrying, Owning
<1>6. ASSUME NEW p \in Proc, AcquireQueue(p) PROVE IInv'
  <2>1. /\ pc[p] = "enter" /\ waiters' = waiters + 1 /\ Goto(p, "waiting")
        /\ UNCHANGED <<token, owner, next, lease, done>>
    BY <1>6 DEF AcquireQueue
  <2>2. "waiting" \in Queued \cap Location /\ "waiting" \notin Out
    BY DEF Location, Out, Queued, Carrying, Owning
  <2>3. pc[p] \notin Out \cup Queued
    BY <2>1 DEF Out, Queued, Carrying, Owning
  <2>4. WaitersExact'
    BY <2>1, <2>2, <2>3, CountUp DEF IInv
  <2>5. TypeOK'
    BY <2>1, <2>2 DEF IInv, TypeOK, Goto
  <2>6. \A q \in Proc : /\ pc'[q] \in Out <=> pc[q] \in Out
                        /\ pc'[q] \in Owning <=> pc[q] \in Owning
    BY <2>1, <2>2, <2>3 DEF Goto, IInv, TypeOK, Out
  <2>7. OneOut' /\ OwnerLease' /\ LeasesDistinct'
    BY <2>1, <2>6 DEF IInv, OneOut, OwnerLease, LeasesDistinct
  <2> QED
    BY <2>4, <2>5, <2>7 DEF IInv
<1>7. ASSUME NEW p \in Proc, AcquireRecheck(p) PROVE IInv'
  <2> DEFINE l == IF done[p] THEN "undo" ELSE "holding"
  <2>1. pc[p] = "claimed" /\ Goto(p, l) /\ UNCHANGED <<gateVars, lease, done>>
    BY <1>7 DEF AcquireRecheck
  <2>2. l \in Owning \cap Location /\ l \notin Carrying \cup Queued
    BY DEF Location, Queued, Carrying, Owning
  <2>3. pc[p] \in Owning /\ pc[p] \notin Carrying \cup Queued
    BY <2>1 DEF Queued, Carrying, Owning
  <2> HIDE DEF l
  <2> QED
    BY <2>1, <2>2, <2>3, Elsewhere DEF IInv, TypeOK
<1>8. ASSUME NEW p \in Proc, AcquireUndo(p) PROVE IInv'
  BY <1>8, OwnerReleases DEF AcquireUndo, Owning, Between
<1>9. ASSUME NEW p \in Proc, Receive(p) PROVE IInv'
  <2>1. /\ pc[p] = "waiting" /\ token = 1 /\ token' = 0 /\ pc' = [pc EXCEPT ![p] = "handed"]
        /\ UNCHANGED <<waiters, owner, next, lease, done>>
    BY <1>9 DEF Receive, Goto
  <2>2. /\ "handed" \in Location /\ "handed" \in Out /\ "handed" \notin Owning
        /\ {"waiting", "handed"} \subseteq Queued /\ "waiting" \notin Owning
    BY DEF Location, Out, Queued, Carrying, Owning
  <2>3. TypeOK'
    BY <2>1, <2>2 DEF IInv, TypeOK
  <2>4. \A q \in Proc : pc'[q] \in Out <=> q = p
    BY <2>1, <2>2 DEF IInv, TypeOK, OneOut
  <2>5. OneOut'
    BY <2>1, <2>4 DEF OneOut
  <2>6. OwnerLease' /\ LeasesDistinct'
    BY <2>1, <2>2 DEF IInv, TypeOK, OwnerLease, LeasesDistinct
  <2>7. WaitersExact'
    BY <2>1, <2>2, CountSame DEF IInv, TypeOK
  <2> QED
    BY <2>3, <2>5, <2>6, <2>7 DEF IInv
<1>10. ASSUME NEW p \in Proc, ContextDone(p) PROVE IInv'
  <2>1. pc[p] = "waiting" /\ Goto(p, "gaveUp") /\ UNCHANGED <<gateVars, lease, done>>
    BY <1>10 DEF ContextDone
  <2>2. "gaveUp" \in Location \cap Queued /\ "gaveUp" \notin Out
    BY DEF Location, Out, Queued, Carrying, Owning
  <2>3. pc[p] \in Queued /\ pc[p] \notin Out
    BY <2>1 DEF Out, Queued, Carrying, Owning
  <2> QED
    BY <2>1, <2>2, <2>3, Elsewhere DEF IInv, TypeOK, Out
<1>11. ASSUME NEW p \in Proc, AcquireClaim(p) PROVE IInv'
  <2>1. /\ pc[p] = "handed" /\ waiters' = waiters - 1 /\ Claim(p) /\ Goto(p, "holding")
        /\ UNCHANGED <<token, done>>
    BY <1>11 DEF AcquireClaim
  <2>2. "handed" \in Queued \cap Out /\ "holding" \in (Location \ Queued) \cap Owning
    BY DEF Location, Out, Queued, Carrying, Owning
  <2>3. /\ next' \in 0 .. MaxLease /\ owner' \in 1 .. MaxLease
        /\ lease' \in [Proc -> 0 .. MaxLease] /\ lease'[p] = owner' /\ LeasesDistinct'
    BY <2>1, ClaimFacts DEF IInv
  <2>4. WaitersExact' /\ waiters' \in Nat
    BY <2>1, <2>2, CountDown DEF IInv
  <2>5. TypeOK'
    BY <2>1, <2>2, <2>3, <2>4 DEF IInv, TypeOK, Goto
  <2>6. \A q \in Proc : pc'[q] \in Out <=> q = p
    BY <2>1, <2>2 DEF IInv, TypeOK, OneOut, Goto, Out
  <2>7. OneOut'
    BY <2>1, <2>2, <2>6 DEF IInv, OneOut
  <2>8. OwnerLease'
    BY <2>1, <2>2, <2>3, <2>6 DEF OwnerLease, Out, Goto, IInv, TypeOK
  <2> QED
    BY <2>3, <2>4, <2>5, <2>7, <2>8 DEF IInv
<1>12. ASSUME NEW p \in Proc, AcquireAbandon(p) PROVE IInv'
  <2>1. /\ waiters' = waiters - 1 /\ UNCHANGED <<token, owner, next, lease, done>>
        /\ \/ pc[p] = "handed" /\ Goto(p, "pushBack")
           \/ pc[p] = "gaveUp" /\ Goto(p, "refused")
    BY <1>12 DEF AcquireAbandon
  <2>2. PICK l : /\ Goto(p, l) /\ l \in Location \ Queued
                 /\ pc[p] \in Queued
                 /\ l \in Out <=> pc[p] \in Out
                 /\ l \notin Owning /\ pc[p] \notin Owning
    BY <2>1 DEF Location, Between, Out, Queued, Carrying, Owning
  <2>3. WaitersExact' /\ waiters' \in Nat
    BY <2>1, <2>2, CountDown DEF IInv
  <2>4. TypeOK'
    BY <2>1, <2>2, <2>3 DEF IInv, TypeOK, Goto
  <2>5. \A q \in Proc : /\ pc'[q] \in Out <=> pc[q] \in Out
                        /\ pc'[q] \in Owning <=> pc[q] \in Owning
    BY <2>2 DEF IInv, TypeOK, Goto
  <2>6. OneOut' /\ OwnerLease' /\ LeasesDistinct'
    BY <2>1, <2>5 DEF IInv, OneOut, OwnerLease, LeasesDistinct
  <2> QED
    BY <2>3, <2>4, <2>6 DEF IInv
<1>13. ASSUME NEW p \in Proc, PushBack(p) PROVE IInv'
  <2>1. /\ pc[p] = "pushBack" /\ token' = 1 /\ pc' = [pc EXCEPT ![p] = "refused"]
        /\ UNCHANGED <<waiters, owner, next, lease, done>>
    BY <1>13 DEF PushBack, Goto
  <2>2. /\ "refused" \in Location /\ "refused" \notin Out \cup Queued
        /\ "pushBack" \in Out /\ "pushBack" \notin Owning \cup Queued
    BY DEF Location, Between, Out, Queued, Carrying, Owning
  <2>3. TypeOK'
    BY <2>1, <2>2 DEF IInv, TypeOK
  <2>4. \A q \in Proc : pc'[q] \notin Out
    BY <2>1, <2>2 DEF IInv, TypeOK, OneOut
  <2>5. \A q \in Proc : pc'[q] \in Owning <=> pc[q] \in Owning
    BY <2>1, <2>2 DEF IInv, TypeOK, Out
  <2>6. OneOut' /\ OwnerLease' /\ LeasesDistinct'
    BY <2>1, <2>4, <2>5 DEF IInv, OneOut, OwnerLease, LeasesDistinct
  <2>7. WaitersExact'
    BY <2>1, <2>2, CountSame DEF IInv, TypeOK
  <2> QED
    BY <2>3, <2>6, <2>7 DEF IInv
<1>14. ASSUME NEW p \in Proc, Release(p) PROVE IInv'
  BY <1>14, OwnerReleases DEF Release, Owning, Between
<1>15. ASSUME NEW p \in Proc, ReleaseAgain(p) PROVE IInv'
  BY <1>1, <1>15, StaleRelease
<1>16. ASSUME NEW p \in Proc, Cancel(p) PROVE IInv'
  <2>1. UNCHANGED <<gateVars, pc, lease>> /\ done' \in [Proc -> BOOLEAN]
    BY <1>16 DEF Cancel, IInv, TypeOK
  <2> QED
    BY <2>1 DEF IInv, TypeOK, OneOut, OwnerLease, LeasesDistinct, WaitersExact
<1> QED
  BY <1>1, <1>2, <1>3, <1>4, <1>5, <1>6, <1>7, <1>8, <1>9, <1>10, <1>11, <1>12, <1>13,
     <1>14, <1>15, <1>16 DEF Next, Progress

\* The strengthened invariant holds in every reachable state.
THEOREM SpecIInv == Spec => []IInv
BY InitIInv, NextIInv, PTL DEF Spec

\* Every variable of the gate keeps its type, for any number of goroutines.
THEOREM TypeCorrect == Spec => []TypeOK
BY SpecIInv, PTL DEF IInv

\* Operations that share the gate never overlap.
THEOREM Mutex == Spec => []MutualExclusion
<1>1. IInv => MutualExclusion
  BY DEF IInv, OneOut, MutualExclusion, Out, Owning
<1> QED
  BY <1>1, SpecIInv, PTL

\* gate.waiters is the number of queued goroutines.
THEOREM CountExact == Spec => []WaitersExact
BY SpecIInv, PTL DEF IInv

\* The token is neither lost nor duplicated by any cancellation.
THEOREM Conservation == Spec => []TokenConserved
<1>1. IInv => TokenConserved
  <2> SUFFICES ASSUME IInv PROVE TokenConserved
    OBVIOUS
  <2>1. owner # 0 <=> Owners # {}
    BY DEF IInv, OwnerLease, Owners
  <2>2. Carrying \cap Owning = {}
    BY DEF Carrying, Owning
  <2>3. CASE token = 1
    <3>1. Carriers = {} /\ Owners = {}
      BY <2>3 DEF IInv, OneOut, Out, Carriers, Owners
    <3>2. Cardinality(Carriers) = 0 /\ Cardinality(Owners) = 0
      BY <3>1, FS_EmptySet
    <3> QED
      BY <2>1, <2>3, <3>2 DEF TokenConserved
  <2>4. CASE token = 0
    <3>1. PICK p \in Proc : pc[p] \in Out
      BY <2>4 DEF IInv, OneOut
    <3>2. \A q \in Proc : pc[q] \in Out => q = p
      BY <3>1 DEF IInv, OneOut
    <3>3. CASE pc[p] \in Carrying
      <4>1. Carriers = {p} /\ Owners = {}
        BY <2>2, <3>2, <3>3 DEF Out, Carriers, Owners
      <4>2. Cardinality(Carriers) = 1 /\ Cardinality(Owners) = 0
        BY <4>1, FS_EmptySet, FS_Singleton
      <4> QED
        BY <2>1, <2>4, <4>2 DEF TokenConserved
    <3>4. CASE pc[p] \in Owning
      <4>1. Owners = {p} /\ Carriers = {}
        BY <2>2, <3>2, <3>4 DEF Out, Carriers, Owners
      <4>2. Cardinality(Owners) = 1 /\ Cardinality(Carriers) = 0
        BY <4>1, FS_EmptySet, FS_Singleton
      <4> QED
        BY <2>1, <2>4, <4>2 DEF TokenConserved
    <3> QED
      BY <3>1, <3>3, <3>4 DEF Out
  <2> QED
    BY <2>3, <2>4 DEF IInv, TypeOK
<1> QED
  BY <1>1, SpecIInv, PTL

-----------------------------------------------------------------------------
\* Nobody is queued when the count is zero.
LEMMA NoneQueued ==
    ASSUME IInv, waiters = 0
    PROVE  queuedIn = {}
<1>1. IsFiniteSet(queuedIn) /\ Cardinality(queuedIn) = 0
  BY FS_Subset DEF IInv, WaitersExact, queuedIn
<1> QED
  BY <1>1, FS_EmptySet

\* Ownership changes hands only by AcquireFast, TryAcquire and AcquireClaim on
\* the way in, and by AcquireUndo and Release on the way out.
LEMMA PcMoves ==
    ASSUME IInv, [Next]_vars
    PROVE  \A p \in Proc :
             /\ pc'[p] \in Owning /\ pc[p] \notin Owning =>
                   \/ TryAcquire(p) \/ AcquireFast(p) \/ AcquireClaim(p)
             /\ pc[p] \in Owning /\ pc'[p] \notin Owning =>
                   AcquireUndo(p) \/ Release(p)
<1> USE DEF gateVars
<1>1. CASE UNCHANGED vars
  BY <1>1 DEF vars
<1>2. CASE Next
  <2>1. PICK q \in Proc : \/ TryAcquire(q) \/ TryRefused(q) \/ AcquireCall(q)
                          \/ Progress(q) \/ Receive(q) \/ ReleaseAgain(q) \/ Cancel(q)
    BY <1>2 DEF Next
  <2>2. \A p \in Proc : p # q => pc'[p] = pc[p]
    BY <2>1 DEF TryAcquire, TryRefused, AcquireCall, Progress, AcquireFast, AcquireQueue,
       AcquireRecheck, AcquireUndo, ContextDone, AcquireClaim, AcquireAbandon, PushBack,
       Release, Receive, ReleaseAgain, Cancel, Goto, IInv, TypeOK
  <2>3. \/ TryAcquire(q) \/ AcquireFast(q) \/ AcquireClaim(q)
        \/ AcquireUndo(q) \/ Release(q)
        \/ pc[q] \in Owning <=> pc'[q] \in Owning
    BY <2>1 DEF TryRefused, AcquireCall, Progress, AcquireQueue, AcquireRecheck,
       ContextDone, AcquireAbandon, PushBack, Receive, ReleaseAgain, Cancel, Goto,
       IInv, TypeOK, Between, Owning
  <2>4. /\ TryAcquire(q) \/ AcquireFast(q) \/ AcquireClaim(q) => pc'[q] \in Owning
        /\ AcquireUndo(q) \/ Release(q) => pc'[q] \notin Owning
    BY DEF TryAcquire, AcquireFast, AcquireClaim, AcquireUndo, Release, Goto, IInv, TypeOK,
       Owning
  <2> QED
    BY <2>2, <2>3, <2>4
<1> QED
  BY <1>1, <1>2

-----------------------------------------------------------------------------
\* The gate is sound, for any number of goroutines: one owner, one token, an
\* exact count of the queue and every variable of its type.
THEOREM GateIsSound == Spec => []GateSound
<1>1. TypeOK /\ MutualExclusion /\ TokenConserved /\ WaitersExact => GateSound
  BY DEF GateSound
<1> QED
  BY <1>1, TypeCorrect, Mutex, Conservation, CountExact, PTL

\* A newcomer never overtakes a goroutine that is queued in acquire.
THEOREM QueuedFirst == Spec => NoOvertaking
<1> DEFINE A == \A p \in Proc :
                  pc[p] \notin Queued /\ pc'[p] \in Owning /\ pc[p] \notin Owning
                     => \A q \in Proc : pc[q] \notin Queued
<1>1. ASSUME IInv, [Next]_vars PROVE A
  <2>1. SUFFICES ASSUME NEW p \in Proc, pc[p] \notin Queued, pc'[p] \in Owning,
                        pc[p] \notin Owning
                 PROVE  \A q \in Proc : pc[q] \notin Queued
    OBVIOUS
  <2>2. TryAcquire(p) \/ AcquireFast(p) \/ AcquireClaim(p)
    BY <1>1, <2>1, PcMoves
  <2>3. ~AcquireClaim(p)
    BY <2>1 DEF AcquireClaim, Queued
  <2>4. waiters = 0
    BY <2>2, <2>3 DEF TryAcquire, AcquireFast
  <2> QED
    BY <1>1, <2>4, NoneQueued DEF queuedIn
<1> QED
  BY <1>1, SpecIInv, PTL DEF Spec, NoOvertaking

\* A stale lease cannot free the gate for somebody else: gate.owner is cleared
\* only by the goroutine whose lease owns it.
THEOREM OwnerAlone == Spec => OnlyOwnerReleases
<1> DEFINE A == owner # 0 /\ owner' # owner
                  => \E p \in Proc : pc[p] \in Owning /\ lease[p] = owner /\ pc'[p] \notin Owning
<1>1. ASSUME IInv, [Next]_vars PROVE A
  <2> SUFFICES ASSUME owner # 0, owner' # owner
               PROVE  \E p \in Proc : pc[p] \in Owning /\ lease[p] = owner /\ pc'[p] \notin Owning
    OBVIOUS
  <2>1. PICK o \in Proc : pc[o] \in Owning /\ lease[o] = owner
    BY <1>1 DEF IInv, OwnerLease
  <2>2. ASSUME NEW p \in Proc PROVE ~TryAcquire(p) /\ ~AcquireFast(p) /\ ~AcquireClaim(p)
    <3>1. token # 1
      BY <1>1, <2>1 DEF IInv, OneOut, Out
    <3>2. pc[p] # "handed"
      BY <1>1, <2>1 DEF IInv, OneOut, Out, Carrying, Owning
    <3> QED
      BY <3>1, <3>2 DEF TryAcquire, AcquireFast, AcquireClaim
  <2>3. ASSUME NEW p \in Proc, ReleaseAgain(p) PROVE FALSE
    BY <1>1, <2>3, StaleRelease DEF vars
  <2>4. PICK p \in Proc : AcquireUndo(p) \/ Release(p)
    BY <1>1, <2>2, <2>3 DEF Next, vars, Progress, TryRefused, AcquireCall, AcquireQueue,
       AcquireRecheck, ContextDone, AcquireAbandon, PushBack, Receive, Cancel, gateVars
  <2>5. pc[p] \in Owning /\ pc'[p] \notin Owning
    BY <1>1, <2>4 DEF AcquireUndo, Release, Goto, IInv, TypeOK, Owning
  <2> QED
    BY <1>1, <2>5 DEF IInv, OwnerLease
<1> QED
  BY <1>1, SpecIInv, PTL DEF Spec, OnlyOwnerReleases

-----------------------------------------------------------------------------
\* The refinement mapping: the holder is the goroutine that owns the gate.
LEMMA HolderIs ==
    ASSUME OneOut
    PROVE  /\ \A p \in Proc : pc[p] \in Owning => holderOf = p
           /\ (\A p \in Proc : pc[p] \notin Owning) => holderOf = Nobody
<1>1. ASSUME NEW p \in Proc, pc[p] \in Owning PROVE holderOf = p
  <2>1. \A q \in Proc : pc[q] \in Owning <=> q = p
    BY <1>1 DEF OneOut, Out
  <2>2. Owners # {}
    BY <1>1 DEF Owners
  <2>3. (CHOOSE q \in Proc : pc[q] \in Owning) = p
    BY <2>1
  <2> QED
    BY <2>2, <2>3 DEF holderOf
<1>2. ASSUME \A p \in Proc : pc[p] \notin Owning PROVE holderOf = Nobody
  BY <1>2 DEF holderOf, Owners
<1> QED
  BY <1>1, <1>2

\* The same facts in the next state.
LEMMA HolderIsNext ==
    ASSUME OneOut'
    PROVE  /\ \A p \in Proc : pc'[p] \in Owning => holderOf' = p
           /\ (\A p \in Proc : pc'[p] \notin Owning) => holderOf' = Nobody
<1>1. ASSUME NEW p \in Proc, pc'[p] \in Owning PROVE holderOf' = p
  <2>1. \A q \in Proc : pc'[q] \in Owning <=> q = p
    BY <1>1 DEF OneOut, Out
  <2>2. Owners' # {}
    BY <1>1 DEF Owners
  <2>3. (CHOOSE q \in Proc : pc'[q] \in Owning) = p
    BY <2>1
  <2> QED
    BY <2>2, <2>3 DEF holderOf
<1>2. ASSUME \A p \in Proc : pc'[p] \notin Owning PROVE holderOf' = Nobody
  BY <1>2 DEF holderOf, Owners
<1> QED
  BY <1>1, <1>2

\* Steps that change neither who owns nor who is queued are stutters.
LEMMA Stutter ==
    ASSUME IInv, IInv',
           \A p \in Proc : /\ pc'[p] \in Owning <=> pc[p] \in Owning
                           /\ pc'[p] \in Queued <=> pc[p] \in Queued
    PROVE  UNCHANGED <<holderOf, queuedIn>>
<1>1. queuedIn' = queuedIn
  BY DEF queuedIn
<1>2. holderOf' = holderOf
  BY HolderIs, HolderIsNext DEF IInv
<1> QED
  BY <1>1, <1>2

\* Every step of the gate is a step of OperationGate or a stutter.
LEMMA StepRefines ==
    ASSUME IInv, IInv', [Next]_vars
    PROVE  [Gate!Next]_<<holderOf, queuedIn>>
<1> USE DEF gateVars
<1>1. CASE UNCHANGED vars
  BY <1>1, Stutter DEF vars
<1>2. ASSUME NEW p \in Proc, TryAcquire(p) \/ AcquireFast(p)
      PROVE  Gate!Enter(p)
  <2>1. /\ pc[p] \notin Queued /\ token = 1 /\ waiters = 0
        /\ pc' = [pc EXCEPT ![p] = pc'[p]] /\ pc'[p] \in Owning /\ pc'[p] \notin Queued
    BY <1>2 DEF TryAcquire, AcquireFast, Goto, IInv, TypeOK, Owning, Queued, Between
  <2>2. queuedIn = {} /\ queuedIn' = {}
    BY <2>1, NoneQueued DEF queuedIn, IInv, TypeOK
  <2>3. holderOf = Nobody
    BY <2>1, HolderIs DEF IInv, OneOut, Out
  <2>4. holderOf' = p
    BY <2>1, HolderIsNext DEF IInv
  <2> QED
    BY <2>2, <2>3, <2>4 DEF Gate!Enter
<1>3. ASSUME NEW p \in Proc, AcquireQueue(p) PROVE Gate!Queue(p)
  <2>1. pc[p] = "enter" /\ pc' = [pc EXCEPT ![p] = "waiting"]
    BY <1>3 DEF AcquireQueue, Goto
  <2>2. /\ "enter" \notin Queued \cup Owning /\ "waiting" \in Queued /\ "waiting" \notin Owning
    BY DEF Queued, Owning
  <2>3. queuedIn' = queuedIn \cup {p} /\ p \notin queuedIn
    BY <2>1, <2>2 DEF queuedIn, IInv, TypeOK
  <2>4. holderOf' = holderOf
    BY <2>1, <2>2, HolderIs, HolderIsNext DEF IInv, TypeOK
  <2>5. holderOf # p
    <3>1. CASE \E q \in Proc : pc[q] \in Owning
      BY <2>1, <2>2, <3>1, HolderIs DEF IInv
    <3>2. CASE \A q \in Proc : pc[q] \notin Owning
      BY <3>2, HolderIs, ProcAssumption DEF IInv, ProcAssumption
    <3> QED
      BY <3>1, <3>2
  <2> QED
    BY <2>3, <2>4, <2>5 DEF Gate!Queue
<1>4. ASSUME NEW p \in Proc, AcquireClaim(p) PROVE Gate!Grant(p)
  <2>1. pc[p] = "handed" /\ pc' = [pc EXCEPT ![p] = "holding"]
    BY <1>4 DEF AcquireClaim, Goto
  <2>2. /\ "handed" \in Queued \cap Carrying /\ "handed" \notin Owning
        /\ "holding" \in Owning /\ "holding" \notin Queued
    BY DEF Queued, Owning, Carrying
  <2>3. queuedIn' = queuedIn \ {p} /\ p \in queuedIn
    BY <2>1, <2>2 DEF queuedIn, IInv, TypeOK
  <2>4. \A q \in Proc : pc[q] \notin Owning
    BY <2>1, <2>2 DEF IInv, OneOut, Out
  <2>5. holderOf = Nobody
    BY <2>4, HolderIs DEF IInv
  <2>6. holderOf' = p
    BY <2>1, <2>2, HolderIsNext DEF IInv, TypeOK
  <2> QED
    BY <2>3, <2>5, <2>6 DEF Gate!Grant
<1>5. ASSUME NEW p \in Proc, AcquireAbandon(p) PROVE Gate!GiveUp(p)
  <2>1. PICK l \in {"pushBack", "refused"} : pc[p] \in {"handed", "gaveUp"} /\ pc' = [pc EXCEPT ![p] = l]
    BY <1>5 DEF AcquireAbandon, Goto
  <2>2. /\ {"handed", "gaveUp"} \subseteq Queued /\ l \notin Queued \cup Owning
        /\ pc[p] \notin Owning
    BY <2>1 DEF Queued, Owning
  <2>3. queuedIn' = queuedIn \ {p} /\ p \in queuedIn
    BY <2>1, <2>2 DEF queuedIn, IInv, TypeOK
  <2>4. holderOf' = holderOf
    BY <2>1, <2>2, HolderIs, HolderIsNext DEF IInv, TypeOK
  <2> QED
    BY <2>3, <2>4 DEF Gate!GiveUp
<1>6. ASSUME NEW p \in Proc, AcquireUndo(p) \/ Release(p) PROVE Gate!Leave(p)
  <2>1. PICK l \in Between : pc[p] \in Owning /\ pc' = [pc EXCEPT ![p] = l]
    BY <1>6 DEF AcquireUndo, Release, Goto, Owning, Between
  <2>2. pc[p] \notin Queued /\ l \notin Queued \cup Owning
    BY <2>1 DEF Queued, Owning, Between
  <2>3. queuedIn' = queuedIn
    BY <2>1, <2>2 DEF queuedIn, IInv, TypeOK
  <2>4. \A q \in Proc : pc'[q] \notin Owning
    BY <2>1, <2>2 DEF IInv, TypeOK, OneOut, Out
  <2>5. holderOf = p /\ holderOf' = Nobody
    BY <2>1, <2>4, HolderIs, HolderIsNext DEF IInv
  <2> QED
    BY <2>3, <2>5 DEF Gate!Leave
<1>7. ASSUME NEW p \in Proc,
             \/ TryRefused(p) \/ AcquireCall(p) \/ AcquireRecheck(p) \/ ContextDone(p)
             \/ PushBack(p) \/ Receive(p) \/ ReleaseAgain(p) \/ Cancel(p)
      PROVE  UNCHANGED <<holderOf, queuedIn>>
  <2>1. \A q \in Proc : q # p => pc'[q] = pc[q]
    BY <1>7 DEF TryRefused, AcquireCall, AcquireRecheck, ContextDone, PushBack, Receive,
       ReleaseAgain, Cancel, Goto, IInv, TypeOK
  <2>2. /\ pc'[p] \in Owning <=> pc[p] \in Owning
        /\ pc'[p] \in Queued <=> pc[p] \in Queued
    BY <1>7 DEF TryRefused, AcquireCall, AcquireRecheck, ContextDone, PushBack, Receive,
       ReleaseAgain, Cancel, Goto, IInv, TypeOK, Owning, Queued, Between
  <2> QED
    BY <2>1, <2>2, Stutter
<1> QED
  BY <1>1, <1>2, <1>3, <1>4, <1>5, <1>6, <1>7 DEF Next, Progress, Gate!Next

\* The channel, the counters and the mutex implement the abstract gate.
THEOREM Refinement == Spec => ImplementsGate
<1>1. Init => Gate!Init
  <2> SUFFICES ASSUME Init PROVE Gate!Init
    OBVIOUS
  <2>1. OneOut /\ \A p \in Proc : pc[p] \notin Owning /\ pc[p] \notin Queued
    BY InitIInv DEF Init, IInv, Owning, Queued
  <2> QED
    BY <2>1, HolderIs DEF Gate!Init, queuedIn
<1>2. IInv /\ IInv' /\ [Next]_vars => [Gate!Next]_<<holderOf, queuedIn>>
  BY StepRefines
<1> QED
  BY <1>1, <1>2, SpecIInv, PTL DEF Spec, ImplementsGate, Gate!Spec, Gate!vars

-----------------------------------------------------------------------------
(* The tracker.                                                            *)

\* A run is in progress only under the gate of a re-rate or a scrape; its entry
\* says "running" until it is over, and a key without a run says nothing.
GateSaysRun ==
  /\ id # 0 => gate \in {"rerate", "scrape"}
  /\ over => id # 0
  /\ id # 0 /\ ~over => runs[key].state = "running"
  /\ \A k \in Keys : runs[k].id = 0 => runs[k] = Idle

TrackerIInv == TrackerTypeOK /\ RunningIsLive /\ LiveIsKnown /\ Bounded /\ IdsDistinct /\ GateSaysRun

-----------------------------------------------------------------------------
(* Facts about keys and entries.                                           *)

LEMMA KeysFinite == IsFiniteSet(Keys)
  BY FS_Product, TrackerAssumption DEF Keys

\* Some key in any nonempty set of keys has the lowest number.
LEMMA LowestExists ==
  ASSUME NEW S \in SUBSET Keys, S # {}, NEW f \in [Keys -> Nat]
  PROVE  \E e \in S : \A g \in S : f[e] <= f[g]
<1> DEFINE N == {f[g] : g \in S}
           Less == {ss \in Nat \X Nat : ss[1] < ss[2]}
<1>1. N \subseteq Nat /\ N # {}
  OBVIOUS
<1>2. IsWellFoundedOn(Less, Nat)
  BY NatLessThanWellFounded DEF OpToRel
<1>3. PICK n \in N : \A m \in N : n <= m
  <2> HIDE DEF N, Less
  <2>1. PICK n \in N : \A m \in N : ~ (<<m, n>> \in Less)
    BY <1>1, <1>2, WFMin
  <2>2. \A a, b \in Nat : a < b => <<a, b>> \in Less
    BY DEF Less
  <2>3. n \in Nat /\ \A m \in N : m \in Nat /\ ~ (m < n)
    BY <1>1, <2>1, <2>2
  <2> QED
    BY <2>3
<1> QED
  BY <1>3

\* A set of entries stays within the limit when one key joins it and, if it was
\* full, one leaves.
LEMMA RoomMade ==
  ASSUME NEW K \in SUBSET Keys, NEW L \in SUBSET Keys, NEW k \in Keys,
         Cardinality(K) <= MaxEntries,
         \/ k \in K /\ L \subseteq K
         \/ Cardinality(K) < MaxEntries /\ L \subseteq K \cup {k}
         \/ \E e \in K : L \subseteq (K \ {e}) \cup {k}
  PROVE  Cardinality(L) <= MaxEntries
<1>1. /\ IsFiniteSet(K) /\ Cardinality(K) \in Nat
      /\ IsFiniteSet(L) /\ Cardinality(L) \in Nat
  BY KeysFinite, FS_Subset, FS_CardinalityType
<1>2. CASE k \in K /\ L \subseteq K
  BY <1>1, <1>2, FS_Subset, TrackerAssumption
<1>3. CASE Cardinality(K) < MaxEntries /\ L \subseteq K \cup {k}
  <2>1. IsFiniteSet(K \cup {k}) /\ Cardinality(K \cup {k}) <= Cardinality(K) + 1
    <3>1. /\ IsFiniteSet(K \cup {k})
          /\ Cardinality(K \cup {k}) = IF k \in K THEN Cardinality(K) ELSE Cardinality(K) + 1
      BY <1>1, FS_AddElement
    <3> QED
      BY <1>1, <3>1
  <2>2. Cardinality(K \cup {k}) \in Nat
    BY <2>1, FS_CardinalityType
  <2>3. Cardinality(L) <= Cardinality(K \cup {k})
    BY <1>3, <2>1, FS_Subset
  <2> QED
    BY <1>1, <1>3, <2>1, <2>2, <2>3, TrackerAssumption
<1>4. CASE \E e \in K : L \subseteq (K \ {e}) \cup {k}
  <2>1. PICK e \in K : L \subseteq (K \ {e}) \cup {k}
    BY <1>4
  <2> DEFINE R == K \ {e}
  <2>2. IsFiniteSet(R) /\ Cardinality(R) = Cardinality(K) - 1
    BY <1>1, FS_RemoveElement
  <2>3. IsFiniteSet(R \cup {k}) /\ Cardinality(R \cup {k}) <= Cardinality(R) + 1
    <3> HIDE DEF R
    <3>1. Cardinality(R) \in Nat
      BY <2>2, FS_CardinalityType
    <3>2. /\ IsFiniteSet(R \cup {k})
          /\ Cardinality(R \cup {k}) = IF k \in R THEN Cardinality(R) ELSE Cardinality(R) + 1
      BY <2>2, FS_AddElement
    <3> QED
      BY <3>1, <3>2
  <2>4. Cardinality(R \cup {k}) \in Nat /\ Cardinality(R) \in Nat
    BY <2>2, <2>3, FS_CardinalityType
  <2>5. Cardinality(L) <= Cardinality(R \cup {k})
    BY <2>1, <2>3, FS_Subset
  <2> QED
    BY <1>1, <2>2, <2>3, <2>4, <2>5, TrackerAssumption
<1> QED
  BY <1>2, <1>3, <1>4

-----------------------------------------------------------------------------
(* The critical sections.                                                  *)

\* Starting a run while none is in progress keeps every part of the invariant
\* that speaks of entries: the gate is what makes the eviction safe.
LEMMA TrackerStartKeeps ==
  ASSUME TrackerIInv, id = 0, NEW k \in Keys, Start(k), gate' \in {"rerate", "scrape"}
  PROVE  TrackerIInv'
<1> USE DEF TrackerIInv
<1> DEFINE new == [id |-> nextID + 1, state |-> "running"]
<1>0. nextID \in Nat /\ nextID + 1 \in 1 .. MaxRuns
  BY TrackerAssumption DEF TrackerTypeOK, Start
<1>1. /\ \A e \in Keys : runs'[e] = IF e = k THEN new
                                    ELSE IF e \in Evicted(k) THEN Idle ELSE runs[e]
      /\ new \in Entry /\ Idle \in Entry
  BY <1>0 DEF Start, Entry, Idle
<1>2. TrackerTypeOK'
  <2>1. runs' \in [Keys -> Entry]
    <3>1. runs' = [e \in Keys |-> IF e = k THEN new ELSE IF e \in Evicted(k) THEN Idle ELSE runs[e]]
      BY DEF Start
    <3> QED
      BY <1>1, <3>1 DEF TrackerTypeOK
  <2>2. nextID' \in 0 .. MaxRuns /\ id' \in 0 .. nextID' /\ key' \in Keys /\ over' \in BOOLEAN
    <3>1. nextID < MaxRuns /\ nextID' = nextID + 1 /\ id' = nextID + 1 /\ key' = k /\ over' = FALSE
      BY DEF Start
    <3>2. nextID + 1 \in 0 .. MaxRuns /\ nextID + 1 \in 0 .. nextID + 1
      BY <1>0, TrackerAssumption
    <3> QED
      BY <3>1, <3>2
  <2> QED
    BY <2>1, <2>2 DEF TrackerTypeOK
<1>3. \A e \in Keys : runs[e].state # "running"
  BY DEF RunningIsLive
<1>4. RunningIsLive'
  BY <1>0, <1>1, <1>3 DEF RunningIsLive, Start, Idle
<1>5. LiveIsKnown'
  BY <1>1 DEF LiveIsKnown, Start
<1>6. Bounded'
  <2>1. Known \in SUBSET Keys /\ Known' \in SUBSET Keys
    BY DEF Known
  <2>2. Known' \subseteq (Known \ Evicted(k)) \cup {k}
    BY <1>1 DEF Known, Idle
  <2>3. CASE k \in Known
    BY <2>1, <2>2, <2>3, RoomMade DEF Bounded
  <2>4. CASE k \notin Known /\ Cardinality(Known) < MaxEntries
    BY <2>1, <2>2, <2>4, RoomMade DEF Bounded
  <2>5. CASE k \notin Known /\ ~(Cardinality(Known) < MaxEntries)
    <3>1. Cardinality(Known) \in Nat
      BY <2>1, KeysFinite, FS_Subset, FS_CardinalityType
    <3>2. Cardinality(Known) >= MaxEntries /\ Cardinality(Known) # 0
      BY <2>5, <3>1, TrackerAssumption
    <3>3. Known # {}
      BY <3>2, FS_EmptySet
    <3>4. PICK e \in Known : \A f \in Known : runs[e].id <= runs[f].id
      <4> DEFINE num == [f \in Keys |-> runs[f].id]
      <4>1. num \in [Keys -> Nat]
        BY DEF TrackerTypeOK, Entry
      <4> QED
        BY <2>1, <3>3, <4>1, LowestExists
    <3>5. e \in Evicted(k)
      BY <2>5, <3>2, <3>4 DEF Evicted, Known
    <3> QED
      BY <2>1, <2>2, <3>5, RoomMade DEF Bounded, Evicted
  <2> QED
    BY <2>3, <2>4, <2>5
<1>7. IdsDistinct'
  <2>1. \A e \in Known' : e = k \/ (e \in Known /\ runs'[e] = runs[e])
    BY <1>1 DEF Known, Idle
  <2>2. \A e \in Known' \ {k} : runs'[e].id # nextID + 1
    BY <1>0, <2>1 DEF IdsDistinct, TrackerTypeOK, Entry, Known
  <2>3. runs'[k].id = nextID + 1 /\ nextID' = nextID + 1
    BY <1>1 DEF Start
  <2> QED
    BY <1>0, <2>1, <2>2, <2>3 DEF IdsDistinct, TrackerTypeOK, Entry, Known
<1>8. GateSaysRun'
  <2>1. \A e \in Keys : runs'[e].id = 0 => runs'[e] = Idle
    BY <1>0, <1>1 DEF GateSaysRun
  <2>2. /\ id' # 0 => gate' \in {"rerate", "scrape"}
        /\ over' => id' # 0
        /\ id' # 0 /\ ~over' => runs'[key'].state = "running"
    BY <1>1 DEF Start
  <2> QED
    BY <2>1, <2>2 DEF GateSaysRun
<1> QED
  BY <1>2, <1>4, <1>5, <1>6, <1>7, <1>8

\* A run's report touches its own entry only, and leaves nothing running.
LEMMA TrackerReportKeeps ==
  ASSUME TrackerIInv, id # 0, ~over, NEW state \in Final, Report(state), over' = TRUE,
         UNCHANGED <<nextID, gate, key, id>>
  PROVE  TrackerIInv'
<1> USE DEF TrackerIInv
<1>1. /\ runs[key].id = id /\ key \in Keys
      /\ runs' = [runs EXCEPT ![key].state = state]
  BY DEF LiveIsKnown, Report, TrackerTypeOK
<1>2. /\ runs' \in [Keys -> Entry]
      /\ \A e \in Keys : runs'[e].id = runs[e].id
      /\ \A e \in Keys \ {key} : runs'[e] = runs[e]
      /\ runs'[key].state = state
  BY <1>1 DEF TrackerTypeOK, Entry
<1>3. Known' = Known
  BY <1>2 DEF Known
<1>4. TrackerTypeOK'
  BY <1>2 DEF TrackerTypeOK
<1>5. \A e \in Keys : runs'[e].state # "running"
  BY <1>1, <1>2 DEF RunningIsLive, Final
<1>6. RunningIsLive' /\ LiveIsKnown' /\ Bounded' /\ IdsDistinct'
  <2>1. RunningIsLive' /\ LiveIsKnown'
    BY <1>1, <1>2, <1>5 DEF RunningIsLive, LiveIsKnown
  <2>2. Bounded'
    BY <1>3 DEF Bounded
  <2>3. IdsDistinct'
    BY <1>2, <1>3 DEF IdsDistinct, Known
  <2> QED
    BY <2>1, <2>2, <2>3
<1>7. GateSaysRun'
  <2>1. \A e \in Keys : runs'[e].id = 0 => runs'[e] = Idle
    BY <1>1, <1>2 DEF GateSaysRun
  <2> QED
    BY <2>1 DEF GateSaysRun
<1> QED
  BY <1>4, <1>6, <1>7

\* Dropping entries while no run is in progress, as a save does for an account
\* and a restart for all.
LEMMA TrackerDropKeeps ==
  ASSUME TrackerIInv, NEW D \in SUBSET Keys,
         runs' = [k \in Keys |-> IF k \in D THEN Idle ELSE runs[k]],
         id' = 0, over' = FALSE, key' = key, gate' \in {"free", "rerate", "scrape", "save"},
         nextID' \in 0 .. MaxRuns, nextID' = nextID \/ D = Keys,
         \A k \in Keys \ D : runs[k].state # "running"
  PROVE  TrackerIInv'
<1> USE DEF TrackerIInv
<1>1. \A k \in Keys : runs'[k] = IF k \in D THEN Idle ELSE runs[k]
  OBVIOUS
<1>2. Idle \in Entry
  BY DEF Idle, Entry
<1>3. TrackerTypeOK'
  <2>1. runs' \in [Keys -> Entry]
    BY <1>2 DEF TrackerTypeOK
  <2>2. id' \in 0 .. nextID'
    BY TrackerAssumption
  <2> QED
    BY <2>1, <2>2 DEF TrackerTypeOK
<1>4. Known' \subseteq Known /\ \A k \in Known' : k \notin D /\ runs'[k] = runs[k]
  BY <1>1 DEF Known, Idle
<1>5. RunningIsLive' /\ LiveIsKnown'
  BY <1>1 DEF RunningIsLive, LiveIsKnown, Idle
<1>6. Bounded'
  <2>1. Known \in SUBSET Keys
    BY DEF Known
  <2>2. IsFiniteSet(Known) /\ Cardinality(Known) \in Nat /\ Cardinality(Known') \in Nat
    BY <2>1, <1>4, KeysFinite, FS_Subset, FS_CardinalityType
  <2>3. Cardinality(Known') <= Cardinality(Known)
    BY <2>2, <1>4, FS_Subset
  <2> QED
    BY <2>2, <2>3, TrackerAssumption DEF Bounded
<1>7. IdsDistinct'
  BY <1>4 DEF IdsDistinct, Known
<1>8. GateSaysRun'
  BY <1>1 DEF GateSaysRun
<1> QED
  BY <1>3, <1>5, <1>6, <1>7, <1>8

-----------------------------------------------------------------------------
(* The invariant.                                                          *)

LEMMA TrackerInitEstablishes == TrackerInit => TrackerIInv
<1> SUFFICES ASSUME TrackerInit PROVE TrackerIInv
  OBVIOUS
<1>1. Idle \in Entry /\ \A k \in Keys : runs[k] = Idle
  BY DEF TrackerInit, Idle, Entry
<1>2. Known = {}
  BY <1>1 DEF Known, Idle
<1>3. TrackerTypeOK
  <2>1. runs \in [Keys -> Entry]
    BY <1>1 DEF TrackerInit
  <2>2. nextID \in 0 .. MaxRuns /\ id \in 0 .. nextID
    BY TrackerAssumption DEF TrackerInit
  <2> QED
    BY <2>1, <2>2 DEF TrackerInit, TrackerTypeOK
<1>4. Bounded
  BY <1>2, FS_EmptySet, TrackerAssumption DEF Bounded
<1>5. RunningIsLive /\ LiveIsKnown /\ IdsDistinct /\ GateSaysRun
  BY <1>1, <1>2 DEF TrackerInit, RunningIsLive, LiveIsKnown, IdsDistinct, GateSaysRun, Idle
<1> QED
  BY <1>3, <1>4, <1>5 DEF TrackerIInv

LEMMA TrackerNextKeeps == TrackerIInv /\ [TrackerNext]_trackerVars => TrackerIInv'
<1> SUFFICES ASSUME TrackerIInv, [TrackerNext]_trackerVars PROVE TrackerIInv'
  OBVIOUS
<1> USE DEF TrackerIInv
<1>1. ASSUME NEW u \in Users, NEW s \in Surfaces, Press(u, s) PROVE TrackerIInv'
  <2>1. id = 0 /\ <<u, s>> \in Keys
    BY <1>1 DEF Press, GateSaysRun, Keys
  <2> QED
    BY <1>1, <2>1, TrackerStartKeeps DEF Press
<1>2. ASSUME NEW u \in Users, Analyze(u) PROVE TrackerIInv'
  <2>1. <<u, Today>> \in Keys
    BY TrackerAssumption DEF Keys
  <2> QED
    BY <1>2, <2>1, TrackerStartKeeps DEF Analyze
<1>3. ASSUME NEW u \in Users, Save(u) PROVE TrackerIInv'
  <2> DEFINE D == {k \in Keys : k[1] = u}
  <2>1. id = 0 /\ over = FALSE
    BY <1>3 DEF Save, GateSaysRun, TrackerTypeOK
  <2>2. runs' = [k \in Keys |-> IF k \in D THEN Idle ELSE runs[k]]
    BY <1>3 DEF Save, Invalidate
  <2>3. \A k \in Keys : runs[k].state # "running"
    BY <2>1 DEF RunningIsLive
  <2> HIDE DEF D
  <2>4. D \in SUBSET Keys
    BY DEF D
  <2> QED
    BY <1>3, <2>1, <2>2, <2>3, <2>4, TrackerDropKeeps DEF Save, TrackerTypeOK
<1>4. CASE Restart
  <2>1. runs' = [k \in Keys |-> IF k \in Keys THEN Idle ELSE runs[k]]
    BY <1>4 DEF Restart
  <2>2. 0 \in 0 .. MaxRuns
    BY TrackerAssumption
  <2> QED
    BY <1>4, <2>1, <2>2, TrackerDropKeeps DEF Restart
<1>5. ASSUME NEW state \in Final, EndRerate(state) PROVE TrackerIInv'
  BY <1>5, TrackerReportKeeps DEF EndRerate
<1>6. ASSUME NEW state \in Final, EndAnalysis(state) PROVE TrackerIInv'
  BY <1>6, TrackerReportKeeps DEF EndAnalysis
<1>7. ASSUME NextAccount \/ ReleaseGate PROVE TrackerIInv'
  <2>1. \A k \in Keys : runs[k].state # "running"
    BY <1>7 DEF NextAccount, ReleaseGate, RunningIsLive
  <2>2. runs' = runs /\ nextID' = nextID /\ key' = key /\ id' = 0 /\ over' = FALSE
    BY <1>7 DEF NextAccount, ReleaseGate
  <2>3. gate' \in {"free", "scrape"}
    BY <1>7 DEF NextAccount, ReleaseGate
  <2>4. runs' = [k \in Keys |-> IF k \in {} THEN Idle ELSE runs[k]]
    BY <2>2 DEF TrackerTypeOK
  <2> QED
    <3>1. nextID' \in 0 .. MaxRuns /\ {} \in SUBSET Keys /\ gate' \in {"free", "rerate", "scrape", "save"}
      BY <2>2, <2>3 DEF TrackerTypeOK
    <3> QED
      BY <2>1, <2>2, <2>4, <3>1, TrackerDropKeeps
<1>8. CASE Collect
  <2>1. id = 0
    BY <1>8 DEF Collect, GateSaysRun
  <2>2. Known' = Known
    BY <1>8 DEF Collect, Known
  <2> QED
    BY <1>8, <2>1, <2>2 DEF Collect, TrackerTypeOK, RunningIsLive, LiveIsKnown, Bounded, IdsDistinct, GateSaysRun
<1>9. CASE UNCHANGED trackerVars
  <2>1. Known' = Known
    BY <1>9 DEF trackerVars, Known
  <2> QED
    BY <1>9, <2>1 DEF trackerVars, TrackerTypeOK, RunningIsLive, LiveIsKnown, Bounded, IdsDistinct, GateSaysRun
<1> QED
  BY <1>1, <1>2, <1>3, <1>4, <1>5, <1>6, <1>7, <1>8, <1>9 DEF TrackerNext, EndRun

\* The tracker's whole invariant: no entry is left running, the run in progress
\* keeps its entry, the map stays within its limit and numbers are distinct.
THEOREM TrackerInvariant == TrackerSpec => []EntriesExact
<1>1. TrackerIInv => EntriesExact
  BY DEF TrackerIInv, EntriesExact
<1> QED
  BY TrackerInitEstablishes, TrackerNextKeeps, <1>1, PTL DEF TrackerSpec

-----------------------------------------------------------------------------
(* The action property.                                                    *)

\* A step leaves a verdict as it is, or replaces its entry.
LEMMA StepKeepsVerdicts ==
  ASSUME TrackerIInv, [TrackerNext]_trackerVars, NEW k \in Keys,
         runs[k].state \in Final, runs'[k].id = runs[k].id, nextID' # 0
  PROVE  runs'[k] = runs[k]
<1> USE DEF TrackerIInv
<1>0. runs[k].id # 0 /\ runs[k].id <= nextID /\ nextID \in Nat /\ runs[k].id \in Nat
  BY DEF GateSaysRun, IdsDistinct, Known, Idle, Final, TrackerTypeOK, Entry
<1>1. ASSUME NEW l \in Keys, Start(l) PROVE runs'[k] = runs[k]
  <2>1. runs'[k] = IF k = l THEN [id |-> nextID + 1, state |-> "running"]
                   ELSE IF k \in Evicted(l) THEN Idle ELSE runs[k]
    BY <1>1 DEF Start
  <2> QED
    BY <1>0, <2>1 DEF Idle
<1>2. ASSUME NEW state, id # 0, ~over, Report(state) PROVE runs'[k] = runs[k]
  <2>1. k # key
    BY <1>2 DEF GateSaysRun, Final
  <2> QED
    BY <1>2, <2>1 DEF Report, TrackerTypeOK
<1>3. ASSUME NEW u \in Users, Invalidate(u) PROVE runs'[k] = runs[k]
  <2>1. runs'[k] = IF k[1] = u THEN Idle ELSE runs[k]
    BY <1>3 DEF Invalidate
  <2> QED
    BY <1>0, <2>1 DEF Idle
<1>4. ASSUME NEW u \in Users, NEW s \in Surfaces, Press(u, s) PROVE runs'[k] = runs[k]
  BY <1>1, <1>4 DEF Press, Keys
<1>5. ASSUME NEW u \in Users, Analyze(u) PROVE runs'[k] = runs[k]
  BY <1>1, <1>5, TrackerAssumption DEF Analyze, Keys
<1>6. ASSUME NEW state \in Final, EndRerate(state) \/ EndAnalysis(state) PROVE runs'[k] = runs[k]
  BY <1>2, <1>6 DEF EndRerate, EndAnalysis
<1>7. ASSUME NEW u \in Users, Save(u) PROVE runs'[k] = runs[k]
  BY <1>3, <1>7 DEF Save
<1>8. CASE Collect \/ NextAccount \/ ReleaseGate \/ UNCHANGED trackerVars
  BY <1>8 DEF Collect, NextAccount, ReleaseGate, trackerVars
<1>9. CASE Restart
  BY <1>9 DEF Restart
<1> QED
  BY <1>4, <1>5, <1>6, <1>7, <1>8, <1>9 DEF TrackerNext, EndRun

\* What a page was told of a run that ended is never taken back.
THEOREM VerdictsStandAlways == TrackerSpec => VerdictsStand
<1>1. TrackerIInv /\ [TrackerNext]_trackerVars => [\A k \in Keys : runs[k].state \in Final /\ runs'[k].id = runs[k].id
                                               /\ nextID' # 0 => runs'[k] = runs[k]]_trackerVars
  BY StepKeepsVerdicts
<1> QED
  BY TrackerInitEstablishes, TrackerNextKeeps, <1>1, PTL DEF TrackerSpec, VerdictsStand
=============================================================================
