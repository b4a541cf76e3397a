------------------------------- MODULE Pacer -------------------------------
(***************************************************************************)
(* The pacer in front of every request to a board (internal/pacing): each  *)
(* caller looks at the last start under the mutex, and either starts, or   *)
(* waits outside the mutex and looks again.  Time is what has passed since *)
(* the last start and what is left of the waits and deadlines, so the      *)
(* clock itself needs no bound.                                            *)
(***************************************************************************)
EXTENDS Integers, FiniteSets

CONSTANTS
  Callers,
  Spacing,      \* the spacing of New, in ticks
  Patience,     \* deadlines a context may carry; Forever is none
  Forever

ASSUME PacerAssumption ==
  /\ Spacing \in Nat
  /\ Patience \subseteq Nat \cup {Forever} /\ Forever \notin Nat

VARIABLES
  since,     \* ticks since lastStart, no more than Spacing, as when it is zero
  at,        \* where each caller is: outside, at the mutex, or waiting
  nap,       \* what is left of its timer
  deadline,  \* what is left of its context
  started    \* history: a request started since the last tick

pacerVars == <<since, at, nap, deadline, started>>

PacerInit ==
  /\ since = Spacing /\ started = FALSE
  /\ at = [c \in Callers |-> "outside"] /\ nap = [c \in Callers |-> 0]
  /\ deadline = [c \in Callers |-> Forever]

Leave(c) == at' = [at EXCEPT ![c] = "outside"] /\ deadline' = [deadline EXCEPT ![c] = Forever]

\* Callers come again and again; nothing bounds how often.
CallWait(c, d) ==
  /\ at[c] = "outside"
  /\ at' = [at EXCEPT ![c] = "mutex"] /\ deadline' = [deadline EXCEPT ![c] = d]
  /\ UNCHANGED <<since, nap, started>>

Admissible == since >= Spacing

\* A context that is done is refused before the pacer is asked.
Refuse(c) ==
  /\ at[c] = "mutex" /\ deadline[c] = 0
  /\ Leave(c) /\ UNCHANGED <<since, nap, started>>
Admit(c) ==
  /\ at[c] = "mutex" /\ deadline[c] # 0 /\ Admissible
  /\ Leave(c) /\ since' = 0 /\ started' = TRUE /\ UNCHANGED nap

\* A bug for comparison with Reserve: the last start is moved by a caller that has to wait.
Reserve_Restamps(c) ==
  /\ at[c] = "mutex" /\ deadline[c] # 0 /\ ~Admissible
  /\ at' = [at EXCEPT ![c] = "wait"] /\ nap' = [nap EXCEPT ![c] = Spacing - since]
  /\ since' = 0 /\ UNCHANGED <<deadline, started>>
Reserve(c) ==
  /\ at[c] = "mutex" /\ deadline[c] # 0 /\ ~Admissible
  /\ at' = [at EXCEPT ![c] = "wait"] /\ nap' = [nap EXCEPT ![c] = Spacing - since]
  /\ UNCHANGED <<since, deadline, started>>

\* waitTimer: the timer fires; when the context is done too either may win.
Wake(c) ==
  /\ at[c] = "wait" /\ nap[c] = 0 /\ at' = [at EXCEPT ![c] = "mutex"]
  /\ UNCHANGED <<since, nap, deadline, started>>
GiveUp(c) ==
  /\ at[c] = "wait" /\ deadline[c] = 0 /\ Leave(c)
  /\ UNCHANGED <<since, nap, started>>

\* The caller is cancelled from outside.
CancelWait(c) ==
  /\ at[c] # "outside" /\ deadline[c] # 0 /\ deadline' = [deadline EXCEPT ![c] = 0]
  /\ UNCHANGED <<since, at, nap, started>>

Shorter(n) == IF n \in {0, Forever} THEN n ELSE n - 1
PacerTick ==
  /\ since' = IF since < Spacing THEN since + 1 ELSE since
  /\ nap' = [c \in Callers |-> Shorter(nap[c])]
  /\ deadline' = [c \in Callers |-> Shorter(deadline[c])]
  /\ started' = FALSE /\ UNCHANGED at

AtMutex(c) == Refuse(c) \/ Admit(c) \/ Reserve(c)

PacerNext ==
  \/ \E c \in Callers :
       (\E d \in Patience : CallWait(c, d)) \/ AtMutex(c) \/ Wake(c) \/ GiveUp(c) \/ CancelWait(c)
  \/ PacerTick

\* Time passes, a goroutine at the mutex gets it, and a timer that fired is heard.
PacerFairness ==
  /\ WF_pacerVars(PacerTick)
  /\ \A c \in Callers : WF_pacerVars(AtMutex(c)) /\ WF_pacerVars(Wake(c))

PacerSpec == PacerInit /\ [][PacerNext]_pacerVars /\ PacerFairness

-----------------------------------------------------------------------------
(* Properties.                                                             *)

PacerTypeOK ==
  /\ since \in 0 .. Spacing
  /\ at \in [Callers -> {"outside", "mutex", "wait"}] /\ nap \in [Callers -> 0 .. Spacing]
  /\ deadline \in [Callers -> {0, Forever} \cup UNION {0 .. d : d \in Patience \ {Forever}}]
  /\ started \in BOOLEAN

\* Progress, however many callers barge in: a caller whose context ends at some
\* time comes out, started or refused; and while one without a deadline is held
\* back, requests keep starting, its own or another's, so that waits recomputed on
\* waking never keep everybody back (pacing.go "overdue reservations must not
\* become a burst").  Such a caller itself may be overtaken for ever.
CallsEnd ==
  \A c \in Callers : at[c] # "outside" ~> at[c] = "outside" \/ (deadline[c] = Forever /\ started)
=============================================================================
