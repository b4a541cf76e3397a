----------------------------- MODULE OperationGate -----------------------------
(***************************************************************************)
(* What jobcron's operation gate promises its callers, without the channel  *)
(* and the counters that implement it: one operation at a time owns the     *)
(* gate, a caller that waits is served before a caller that does not, and a *)
(* caller that gave up leaves nothing behind.  Scrapes, rerates, profile    *)
(* saves, scheduled runs and account deletion all share one such gate       *)
(* (internal/server/singleflight.go, key scrapeAllKey).                     *)
(***************************************************************************)
CONSTANTS Proc,      \* goroutines that may call the gate
          Nobody     \* the gate is free

VARIABLES holder,    \* the operation that owns the gate, or Nobody
          waiting    \* the callers queued in acquire

vars == <<holder, waiting>>

TypeOK == /\ holder \in Proc \cup {Nobody}
          /\ waiting \subseteq Proc

Init == holder = Nobody /\ waiting = {}

\* A caller takes the free gate at once; only when nobody is queued.
Enter(p) ==
    /\ holder = Nobody
    /\ waiting = {}
    /\ holder' = p
    /\ UNCHANGED waiting

\* A caller queues.  It may find the gate free: ownership can be in transit.
Queue(p) ==
    /\ holder # p
    /\ p \notin waiting
    /\ waiting' = waiting \cup {p}
    /\ UNCHANGED holder

\* The free gate goes to one of the queued callers.
Grant(p) ==
    /\ holder = Nobody
    /\ p \in waiting
    /\ holder' = p
    /\ waiting' = waiting \ {p}

\* A queued caller whose context was cancelled leaves.
GiveUp(p) ==
    /\ p \in waiting
    /\ waiting' = waiting \ {p}
    /\ UNCHANGED holder

Leave(p) ==
    /\ holder = p
    /\ holder' = Nobody
    /\ UNCHANGED waiting

Next == \E p \in Proc : Enter(p) \/ Queue(p) \/ Grant(p) \/ GiveUp(p) \/ Leave(p)

Spec == Init /\ [][Next]_vars

\* Owners finish, and a queued caller is served or leaves.
Fairness == \A p \in Proc : /\ WF_vars(Leave(p))
                            /\ SF_vars(Grant(p) \/ GiveUp(p))

FairSpec == Spec /\ Fairness
================================================================================
