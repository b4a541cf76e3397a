------------------------------ MODULE MCAIRuns ------------------------------
(* Instances of AIRuns for TLC: one or two postings, a sponsor who is       *)
(* another user or the same one, and calls that cost two tokens each.       *)
EXTENDS AIRuns

CONSTANTS p1, p2, u1, u2

OnlyTwo == {2}
=============================================================================
