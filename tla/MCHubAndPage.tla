------------------------------ MODULE MCHubAndPage ------------------------------
(* The hub, and beside it one page that listens to such a hub, checked in   *)
(* one run.  The page sees the hub as a register (PostingPage), so one of   *)
(* the two moves in a behaviour and the other stays as it was initialised.  *)
(* The hub is looked at twice: two tabs that share an account, with one     *)
(* write, or one with more; and one tab that also reads views.              *)
EXTENDS MCPostingHub, PostingPage

VARIABLE part   \* the part that moves

Unused(s) == /\ spc[s] = "off" /\ read[s] = "none"
             /\ heard[s] = [g |-> 0, u |-> 0] /\ view[s] = NoView

OneTab == \E s \in Stream : \A t \in Stream \ {s} : Unused(t)

SharedTabs == Next /\ read' = read /\ (Writes' <= 1 \/ OneTab')

\* A view carries no token, so the reader's part has no change of context; a second
\* change is of everybody's data.
NoContextChange == \A w \in Writer : op[w].kind # "context"
OneReader == Next /\ OneTab' /\ NoContextChange' /\ (Writes' <= 1 \/ (uData' = uData /\ clock' <= 2))

EitherInit == part \in {"tabs", "reader", "page"} /\ Init /\ PageInit
EitherNext ==
  /\ UNCHANGED part
  /\ \/ part = "tabs" /\ SharedTabs /\ UNCHANGED pageVars
     \/ part = "reader" /\ OneReader /\ UNCHANGED pageVars
     \/ part = "page" /\ PageNext /\ UNCHANGED vars
EitherSpec == EitherInit /\ [][EitherNext]_<<vars, pageVars, part>>
=================================================================================
