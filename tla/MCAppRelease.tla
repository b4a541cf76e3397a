------------------------------ MODULE MCAppRelease ------------------------------
(***************************************************************************)
(* Instances of AppRelease for TLC: a release a, which replaces the image  *)
(* i0 by i1, and a recovery r from it, which brings i0 back.               *)
(***************************************************************************)
EXTENDS AppRelease

CONSTANTS a, r, i0, i1

MCCurrent == [x \in Releases |-> IF x = r THEN i1 ELSE i0]
MCWanted == [x \in Releases |-> IF x = r THEN i0 ELSE i1]
MCFailedOf == [x \in Releases |-> IF x = r THEN a ELSE NoRelease]
================================================================================
