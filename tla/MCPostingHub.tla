------------------------------ MODULE MCPostingHub ------------------------------
(***************************************************************************)
(* Instances of PostingHub for TLC: every account hashes to one lock, and   *)
(* every tab is signed in to one account, so locks and listeners are shared *)
(* as much as they can be.                                                  *)
(***************************************************************************)
EXTENDS PostingHub, TLC

CONSTANTS u1, l1

OneLock == [u \in User |-> l1]
SameAccount == [s \in Stream |-> u1]

\* Tabs of the same account are interchangeable.
TabSymmetry == Permutations(Stream)
================================================================================
