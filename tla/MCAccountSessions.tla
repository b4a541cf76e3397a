---------------------------- MODULE MCAccountSessions ----------------------------
(* Instances of AccountSessions for TLC: one account, two sessions of it, and  *)
(* every kind of request on them.  The temporal property rules out symmetry.   *)
EXTENDS AccountSessions
================================================================================
