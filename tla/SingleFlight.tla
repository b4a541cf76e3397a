------------------------------ MODULE SingleFlight ------------------------------
(***************************************************************************)
(* The operation gate of internal/server/singleflight.go: a one-slot token  *)
(* channel, a count of the goroutines blocked on it, and the number of the  *)
(* lease that owns it.  Every region under singleFlight.mu touches the      *)
(* channel at most once, so each is one action; what runs outside the mutex *)
(* (the blocking select, the context checks, the push-back of a token that  *)
(* arrived too late) is an action of its own.                               *)
(*                                                                          *)
(* The program uses one key, scrapeAllKey, so one gate is modelled.         *)
(***************************************************************************)
EXTENDS Naturals, FiniteSets

CONSTANTS Proc,         \* goroutines that call the gate
          Nobody,       \* no holder, for the refinement
          MaxLease      \* the largest lease number, 2^64 - 1 in the code

ASSUME ProcAssumption  == IsFiniteSet(Proc) /\ Nobody \notin Proc
ASSUME LeaseAssumption == MaxLease \in Nat \ {0}

VARIABLES token,      \* tokens in the channel buffer
          waiters,    \* gate.waiters
          owner,      \* gate.owner, 0 when nobody owns the gate
          next,       \* gate.next
          pc,         \* where each goroutine is
          lease,      \* the last lease each goroutine received, 0 for none
          done        \* ctx.Done() of the goroutine's current acquire

gateVars == <<token, waiters, owner, next>>
vars == <<token, waiters, owner, next, pc, lease, done>>

\* Between two calls: never called, lease given back, or the call answered nil.
Between == {"idle", "refused"}
\* Counted in gate.waiters: from waiters++ to waiters--.
Queued  == {"waiting", "handed", "gaveUp"}
\* Holds the token out of the channel without owning the gate.
Carrying == {"handed", "pushBack"}
\* Owns the gate: between claim and the release that clears gate.owner.
Owning  == {"claimed", "undo", "holding"}

Location == Between \cup {"enter"} \cup Queued \cup Carrying \cup Owning

TypeOK ==
    /\ token \in {0, 1}
    /\ waiters \in Nat
    /\ owner \in 0 .. MaxLease
    /\ next \in 0 .. MaxLease
    /\ pc \in [Proc -> Location]
    /\ lease \in [Proc -> 0 .. MaxLease]
    /\ done \in [Proc -> BOOLEAN]

Init ==
    /\ token = 1
    /\ waiters = 0
    /\ owner = 0
    /\ next = 0
    /\ pc = [p \in Proc |-> "idle"]
    /\ lease = [p \in Proc |-> 0]
    /\ done = [p \in Proc |-> FALSE]

Goto(p, l) == pc' = [pc EXCEPT ![p] = l]

\* gate.next after the increment: it wraps around and skips 0.
NextLease == IF next = MaxLease THEN 1 ELSE next + 1

\* claim: the next lease number becomes the owner.  A number comes back only
\* after MaxLease claims; a goroutine that was given it a whole cycle ago has
\* returned, so it no longer keeps that lease.
Claim(p) ==
    /\ next' = NextLease
    /\ owner' = NextLease
    /\ lease' = [q \in Proc |-> IF q = p THEN NextLease
                               ELSE IF lease[q] = NextLease THEN 0
                               ELSE lease[q]]

\* release: only the lease that still owns the gate gives the token back.
ReleaseLease(p) ==
    IF owner = lease[p]
      THEN owner' = 0 /\ token' = 1
      ELSE UNCHANGED <<owner, token>>

-----------------------------------------------------------------------------
\* A bug for comparison: a fail-fast caller takes the token past the queue.
TryAcquire_Barges(p) ==
    /\ pc[p] \in Between
    /\ token = 1
    /\ token' = 0
    /\ Claim(p)
    /\ Goto(p, "holding")
    /\ UNCHANGED <<waiters, done>>

\* tryAcquire, one region under the mutex: the token is taken if it is there
\* and nobody is queued, else the caller is answered nil.
TryAcquire(p) ==
    /\ pc[p] \in Between
    /\ waiters = 0
    /\ token = 1
    /\ token' = 0
    /\ Claim(p)
    /\ Goto(p, "holding")
    /\ UNCHANGED <<waiters, done>>

TryRefused(p) ==
    /\ pc[p] \in Between
    /\ waiters > 0 \/ token = 0
    /\ Goto(p, "refused")
    /\ UNCHANGED <<gateVars, lease, done>>

\* acquire with a live context, up to its first Lock.
AcquireCall(p) ==
    /\ pc[p] \in Between
    /\ done' = [done EXCEPT ![p] = FALSE]
    /\ Goto(p, "enter")
    /\ UNCHANGED <<gateVars, lease>>

\* The first region under the mutex: take the free gate ...
AcquireFast(p) ==
    /\ pc[p] = "enter"
    /\ waiters = 0
    /\ token = 1
    /\ token' = 0
    /\ Claim(p)
    /\ Goto(p, "claimed")
    /\ UNCHANGED <<waiters, done>>

\* ... or queue for it.
AcquireQueue(p) ==
    /\ pc[p] = "enter"
    /\ waiters > 0 \/ token = 0
    /\ waiters' = waiters + 1
    /\ Goto(p, "waiting")
    /\ UNCHANGED <<token, owner, next, lease, done>>

\* The context is checked again after the mutex is dropped.
AcquireRecheck(p) ==
    /\ pc[p] = "claimed"
    /\ Goto(p, IF done[p] THEN "undo" ELSE "holding")
    /\ UNCHANGED <<gateVars, lease, done>>

AcquireUndo(p) ==
    /\ pc[p] = "undo"
    /\ ReleaseLease(p)
    /\ Goto(p, "refused")
    /\ UNCHANGED <<waiters, next, lease, done>>

\* The blocking select, outside the mutex: either ready case may be taken.
Receive(p) ==
    /\ pc[p] = "waiting"
    /\ token = 1
    /\ token' = 0
    /\ Goto(p, "handed")
    /\ UNCHANGED <<waiters, owner, next, lease, done>>

ContextDone(p) ==
    /\ pc[p] = "waiting"
    /\ done[p]
    /\ Goto(p, "gaveUp")
    /\ UNCHANGED <<gateVars, lease, done>>

\* The second region under the mutex: dequeue, and claim if the token was
\* received by a context that is still live.
AcquireClaim(p) ==
    /\ pc[p] = "handed"
    /\ ~done[p]
    /\ waiters' = waiters - 1
    /\ Claim(p)
    /\ Goto(p, "holding")
    /\ UNCHANGED <<token, done>>

AcquireAbandon(p) ==
    /\ \/ pc[p] = "handed" /\ done[p] /\ Goto(p, "pushBack")
       \/ pc[p] = "gaveUp" /\ Goto(p, "refused")
    /\ waiters' = waiters - 1
    /\ UNCHANGED <<token, owner, next, lease, done>>

\* A bug for comparison: the token that arrived too late is dropped.
PushBack_Dropped(p) ==
    /\ pc[p] = "pushBack"
    /\ Goto(p, "refused")
    /\ UNCHANGED <<gateVars, lease, done>>

\* The token that arrived after cancellation returns to the channel, outside
\* the mutex and without blocking: a full channel would swallow it.
PushBack(p) ==
    /\ pc[p] = "pushBack"
    /\ token' = 1
    /\ Goto(p, "refused")
    /\ UNCHANGED <<waiters, owner, next, lease, done>>

\* The operation ends; handlers defer lease.release().
Release(p) ==
    /\ pc[p] = "holding"
    /\ ReleaseLease(p)
    /\ Goto(p, "idle")
    /\ UNCHANGED <<waiters, next, lease, done>>

\* A lease already given back is released once more.
ReleaseAgain(p) ==
    /\ pc[p] \in Between
    /\ lease[p] # 0
    /\ ReleaseLease(p)
    /\ UNCHANGED <<waiters, next, pc, lease, done>>

\* The request of a goroutine inside acquire is cancelled.
Cancel(p) ==
    /\ pc[p] \in {"enter", "claimed", "waiting", "handed"}
    /\ ~done[p]
    /\ done' = [done EXCEPT ![p] = TRUE]
    /\ UNCHANGED <<gateVars, pc, lease>>

-----------------------------------------------------------------------------
\* The steps a goroutine takes once it has called acquire or owns the gate.
Progress(p) ==
    \/ AcquireFast(p)
    \/ AcquireQueue(p)
    \/ AcquireRecheck(p)
    \/ AcquireUndo(p)
    \/ ContextDone(p)
    \/ AcquireClaim(p)
    \/ AcquireAbandon(p)
    \/ PushBack(p)
    \/ Release(p)

Next == \E p \in Proc :
    \/ TryAcquire(p)
    \/ TryRefused(p)
    \/ AcquireCall(p)
    \/ Progress(p)
    \/ Receive(p)
    \/ ReleaseAgain(p)
    \/ Cancel(p)

Spec == Init /\ [][Next]_vars

\* Goroutines run and operations end (scrapeMaxDuration and the request
\* deadlines bound them).  Go queues the receivers of a channel first in, first
\* out, so a goroutine that stays in the select cannot be overtaken forever.
Fairness == \A p \in Proc : /\ WF_vars(Progress(p))
                            /\ SF_vars(Receive(p))

FairSpec == Spec /\ Fairness

-----------------------------------------------------------------------------
\* At most one operation owns the gate: two scrapes, a scrape and a profile
\* save, or a rerate and an account deletion never overlap.
MutualExclusion ==
    \A p, q \in Proc : pc[p] = "holding" /\ pc[q] = "holding" => p = q

\* The token is never lost and never duplicated, whichever of cancellation and
\* hand-over comes first: it is in the channel, or carried by exactly one
\* goroutine, or stands for the lease that owns the gate.
Carriers == {p \in Proc : pc[p] \in Carrying}
Owners   == {p \in Proc : pc[p] \in Owning}

TokenConserved ==
    /\ token + Cardinality(Carriers) + Cardinality(Owners) = 1
    /\ owner # 0 <=> Owners # {}

\* gate.waiters counts exactly the goroutines queued in acquire; a count left
\* high by a cancelled caller would refuse every fail-fast caller from then on.
WaitersExact == waiters = Cardinality({p \in Proc : pc[p] \in Queued})

\* The gate is sound: one owner, one token, an exact count (singleflight.go).
GateSound == TypeOK /\ MutualExclusion /\ TokenConserved /\ WaitersExact

\* A fail-fast caller, or one that just arrived, never overtakes a goroutine
\* that is already queued.
NoOvertaking ==
    [][\A p \in Proc :
          pc[p] \notin Queued /\ pc'[p] \in Owning /\ pc[p] \notin Owning
             => \A q \in Proc : pc[q] \notin Queued]_vars

\* A lease that lost the gate cannot release it for the operation that owns it
\* now: only the owning goroutine's own step clears gate.owner.
OnlyOwnerReleases ==
    [][owner # 0 /\ owner' # owner
          => \E p \in Proc : pc[p] \in Owning /\ lease[p] = owner /\ pc'[p] \notin Owning]_vars

\* Refinement: the channel, the counters and the mutex implement OperationGate.
holderOf == IF Owners = {} THEN Nobody ELSE CHOOSE p \in Proc : pc[p] \in Owning
queuedIn == {p \in Proc : pc[p] \in Queued}

Gate == INSTANCE OperationGate WITH holder <- holderOf, waiting <- queuedIn

\* The gate is an OperationGate: one owner, and queued callers go first.
ImplementsGate == Gate!Spec

\* It also keeps the gate's promise of progress: owners leave, and every queued
\* caller is granted the gate or gives up.
ImplementsFairGate == Gate!FairSpec
================================================================================
