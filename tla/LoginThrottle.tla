---------------------------- MODULE LoginThrottle ----------------------------
(***************************************************************************)
(* The limits in front of password work (rate_limit.go, signup.go): what   *)
(* handleLoginPost, handleSignupPost and the account handlers ask before   *)
(* they verify or hash a password.  Each door has a limiter by address,    *)
(* and login and account one by address and account too; all doors share   *)
(* the password work slots.  Windows are counted down, so the clock needs  *)
(* no bound.                                                               *)
(***************************************************************************)
EXTENDS Integers, Sequences, FiniteSets, FiniteSetsExt, SequencesExt, Lists

CONSTANTS
  Guests,        \* requests that may be under way at once
  Names,         \* what they try: pairs of an address and an account
  Doors,         \* the doors of the instance: login, account, signup
  MaxFailures,   \* loginRateLimitMaxFailures
  ThrottleWindow,\* loginRateLimitWindow, in ticks
  MaxThrottled,  \* loginRateLimitMaxKeys
  PruneEvery,    \* loginRateLimitPruneEvery, in ticks
  WorkSlots,     \* passwordWorkConcurrency
  MaxKnocks      \* bound: requests

ASSUME ThrottleAssumption ==
  /\ {MaxFailures, ThrottleWindow, MaxThrottled, PruneEvery, WorkSlots} \subseteq Nat \ {0}
  /\ MaxKnocks \in Nat /\ Doors \subseteq {"login", "account", "signup"} /\ IsFiniteSet(Guests)

VARIABLES
  door,      \* the door of this run
  attempts,  \* attempts[l]: the entries of limiter l, in order of creation
  prune,     \* prune[l]: ticks until the next pruning
  guest,     \* each request: [at, name]
  slots,     \* password work slots taken
  knocks,    \* requests so far
  tried,     \* (history) tried[l][k]: [n, left] attempts let through since a window began
  crowded    \* (history) a running window was thrown out although another ended sooner

throttleVars == <<door, attempts, prune, guest, slots, knocks, tried, crowded>>

Limiters == {"ip", "pair"}
KeyIn(l, name) == IF l = "ip" THEN <<name[1]>> ELSE name
ThrottleKeys(l) == {KeyIn(l, n) : n \in Names}
Outside == [at |-> "outside", name |-> CHOOSE n \in Names : TRUE]
Unused  == [n |-> 0, left |-> 0]

ThrottleInit ==
  /\ door \in Doors
  /\ attempts = [l \in Limiters |-> <<>>] /\ prune = [l \in Limiters |-> 0]
  /\ guest = [c \in Guests |-> Outside] /\ slots = 0 /\ knocks = 0
  /\ tried = [l \in Limiters |-> [k \in ThrottleKeys(l) |-> Unused]] /\ crowded = FALSE

-----------------------------------------------------------------------------
(* One limiter.                                                            *)

Running(a) == a.left > 0
EntryOf(l, k) == {a \in Range(attempts[l]) : a.key = k}
Without(entries, k) == EntriesKept(entries, {a \in Range(entries) : a.key # k})

\* pruneExpired, which runs at most once in PruneEvery.
PruneExpired(l) ==
  IF prune[l] = 0 THEN EntriesKept(attempts[l], {a \in Range(attempts[l]) : Running(a)}) ELSE attempts[l]

\* A failure within the window is counted in the place of the entry.
Counted(entries, k) ==
  [j \in DOMAIN entries |-> IF entries[j].key = k THEN [entries[j] EXCEPT !.count = @ + 1] ELSE entries[j]]

Crowds(entries, k) == Len(Without(entries, k)) >= MaxThrottled
NewEntry(k) == [key |-> k, count |-> 1, left |-> ThrottleWindow]

\* A bug for comparison with Opened: a full limiter forgets the newest.
Opened_Newest(entries, k) ==
  LET rest == Without(entries, k)
  IN  Append(IF Crowds(entries, k) THEN Front(rest) ELSE rest, NewEntry(k))
\* A new window, in the place of the key's last one and, when the limiter is
\* full, of the oldest.
Opened(entries, k) ==
  LET rest == Without(entries, k)
  IN  Append(IF Crowds(entries, k) THEN Tail(rest) ELSE rest, NewEntry(k))

\* The window of a key runs, and has no attempt left.
Spent(entries, k) == \E a \in Range(entries) : a.key = k /\ Running(a) /\ a.count >= MaxFailures
InWindow(entries, k) == \E a \in Range(entries) : a.key = k /\ Running(a)

\* (history) One more attempt of a key is let through.
Once(t) == IF t.left = 0 THEN [n |-> 1, left |-> ThrottleWindow] ELSE [t EXCEPT !.n = @ + 1]
\* (history) What a new window pushes out, and whether something beside it ends sooner.
PushedOut(entries, k) == {a \in Range(entries) : a.key \notin {e.key : e \in Range(Opened(entries, k))}}
Unfair(entries, k) ==
  \E a \in PushedOut(entries, k), b \in Range(entries) : Running(a) /\ b.key # k /\ b.left < a.left

\* reserveFailure: before the password is looked at, so that attempts that run
\* together are all counted.
ReserveFailure(l, k, Allowed, Refused) ==
  LET entries == PruneExpired(l)
      within  == InWindow(entries, k)
      gone    == IF within THEN {} ELSE {a.key : a \in PushedOut(entries, k)}
      spared  == [tried EXCEPT ![l] = [q \in ThrottleKeys(l) |-> IF q \in gone THEN Unused ELSE @[q]]]
  IN  /\ prune' = [prune EXCEPT ![l] = IF @ = 0 THEN PruneEvery ELSE @]
      /\ IF Spent(entries, k)
         THEN Refused /\ attempts' = [attempts EXCEPT ![l] = entries] /\ UNCHANGED <<tried, crowded>>
         ELSE /\ Allowed
              /\ attempts' = [attempts EXCEPT ![l] = IF within THEN Counted(entries, k) ELSE Opened(entries, k)]
              /\ tried' = [spared EXCEPT ![l][k] = Once(@)]
              /\ crowded' = (crowded \/ (~within /\ Unfair(entries, k)))

Reset(l, k) ==
  /\ attempts' = [attempts EXCEPT ![l] = Without(@, k)]
  /\ tried' = [tried EXCEPT ![l][k] = Unused]

-----------------------------------------------------------------------------
(* The handlers.                                                           *)

Move(c, where) == guest' = [guest EXCEPT ![c].at = where]
Turned(c) == guest' = [guest EXCEPT ![c] = Outside]

Knock(c, name) ==
  /\ guest[c].at = "outside" /\ knocks < MaxKnocks /\ knocks' = knocks + 1
  /\ guest' = [guest EXCEPT ![c] = [at |-> "ip", name |-> name]]
  /\ UNCHANGED <<door, attempts, prune, slots, tried, crowded>>

\* reserveIP, then the pair; an address refused does not reach the second.
ReserveIP(c) ==
  /\ guest[c].at = "ip"
  /\ ReserveFailure("ip", KeyIn("ip", guest[c].name),
                    Move(c, IF door = "signup" THEN "slot" ELSE "pair"), Turned(c))
  /\ UNCHANGED <<door, slots, knocks>>
ReservePair(c) ==
  /\ guest[c].at = "pair"
  /\ ReserveFailure("pair", guest[c].name, Move(c, "slot"), Turned(c))
  /\ UNCHANGED <<door, slots, knocks>>

\* acquirePasswordWork does not wait: a request beyond the slots, one that is
\* cancelled, a wrong access code and a failed lookup leave with their attempt
\* counted.
AcquirePasswordWork(c) ==
  /\ guest[c].at = "slot"
  /\ \/ slots < WorkSlots /\ slots' = slots + 1 /\ Move(c, "work")
     \/ Turned(c) /\ UNCHANGED slots
  /\ UNCHANGED <<door, attempts, prune, knocks, tried, crowded>>

\* The password, and what follows it: a session or an account that cannot be
\* made leaves the attempt counted as well.
Wrong(c) ==
  /\ guest[c].at = "work" /\ slots' = slots - 1 /\ Turned(c)
  /\ UNCHANGED <<door, attempts, prune, knocks, tried, crowded>>
\* Login resets after the session is made, an account handler while it still
\* holds the slot, signup after the account is made.
Right(c) ==
  /\ guest[c].at = "work" /\ door # "account" /\ slots' = slots - 1
  /\ Move(c, IF door = "signup" THEN "resetIP" ELSE "resetPair")
  /\ UNCHANGED <<door, attempts, prune, knocks, tried, crowded>>
RightAccount(c) ==
  /\ guest[c].at = "work" /\ door = "account" /\ Reset("pair", guest[c].name) /\ Move(c, "hash")
  /\ UNCHANGED <<door, prune, slots, knocks, crowded>>
ReleasePasswordWork(c) ==
  /\ guest[c].at = "hash" /\ slots' = slots - 1 /\ Turned(c)
  /\ UNCHANGED <<door, attempts, prune, knocks, tried, crowded>>
ResetPair(c) ==
  /\ guest[c].at = "resetPair" /\ Reset("pair", guest[c].name) /\ Move(c, "resetIP")
  /\ UNCHANGED <<door, prune, slots, knocks, crowded>>
ResetIP(c) ==
  /\ guest[c].at = "resetIP" /\ Reset("ip", KeyIn("ip", guest[c].name)) /\ Turned(c)
  /\ UNCHANGED <<door, prune, slots, knocks, crowded>>

ThrottleTick ==
  /\ attempts' = [l \in Limiters |-> [j \in DOMAIN attempts[l] |->
                    [attempts[l][j] EXCEPT !.left = Max({@ - 1, 0})]]]
  /\ prune' = [l \in Limiters |-> Max({prune[l] - 1, 0})]
  /\ tried' = [l \in Limiters |-> [k \in ThrottleKeys(l) |->
                 IF tried[l][k].left <= 1 THEN Unused ELSE [tried[l][k] EXCEPT !.left = @ - 1]]]
  /\ UNCHANGED <<door, guest, slots, knocks, crowded>>

ThrottleNext ==
  \/ \E c \in Guests : \/ \E n \in Names : Knock(c, n)
                       \/ ReserveIP(c) \/ ReservePair(c) \/ AcquirePasswordWork(c) \/ Wrong(c)
                       \/ Right(c) \/ RightAccount(c) \/ ReleasePasswordWork(c)
                       \/ ResetPair(c) \/ ResetIP(c)
  \/ ThrottleTick

ThrottleSpec == ThrottleInit /\ [][ThrottleNext]_throttleVars

-----------------------------------------------------------------------------
(* Properties.                                                             *)

ThrottleTypeOK ==
  /\ door \in Doors /\ slots \in 0 .. WorkSlots /\ knocks \in 0 .. MaxKnocks
  /\ \A l \in Limiters : /\ prune[l] \in 0 .. PruneEvery /\ Len(attempts[l]) <= MaxThrottled
                         /\ \A a \in Range(attempts[l]) : a.key \in ThrottleKeys(l)
  /\ slots = Cardinality({c \in Guests : guest[c].at \in {"work", "hash"}})

\* In the window that an attempt opens no more than MaxFailures of its key are
\* let through until one succeeds, however many run together, and a full
\* limiter forgets a running window only when nothing it holds ends sooner
\* (rate_limit.go "Entries stay in creation order rather than moving on each
\* failure.  That ... makes capacity eviction deterministic").
ThrottleHolds ==
  /\ ThrottleTypeOK
  /\ \A l \in Limiters : \A k \in ThrottleKeys(l) : tried[l][k].n <= MaxFailures
  /\ \A l \in Limiters : \A k \in ThrottleKeys(l) : Cardinality(EntryOf(l, k)) <= 1
  /\ ~crowded
=============================================================================
