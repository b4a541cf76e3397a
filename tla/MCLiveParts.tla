---------------------------- MODULE MCLiveParts ----------------------------
(* Instances of the three parts whose promise is progress, checked in one   *)
(* run: the operation gate with three goroutines and lease numbers that wrap *)
(* around, the tracker with fewer entries than keys, the pacer with two      *)
(* callers.  They share nothing, so one part moves in a behaviour and the    *)
(* others stay as they were initialised.                                     *)
EXTENDS SingleFlight, RerateTracker, Pacer

CONSTANTS u1, u2, today, bookmarks

MCUsers    == {u1, u2}
MCSurfaces == {today, bookmarks}
MCPatience == {2, Forever}

VARIABLE part   \* the part that moves

PartsInit ==
  /\ part \in {"gate", "tracker", "pacer"}
  /\ Init /\ TrackerInit /\ PacerInit
  /\ part # "tracker" => key = <<u1, today>>

PartsNext ==
  /\ UNCHANGED part
  /\ \/ part = "gate" /\ Next /\ UNCHANGED <<trackerVars, pacerVars>>
     \/ part = "tracker" /\ TrackerNext /\ UNCHANGED <<vars, pacerVars>>
     \/ part = "pacer" /\ PacerNext /\ UNCHANGED <<vars, trackerVars>>

PartsSpec ==
  /\ PartsInit /\ [][PartsNext]_<<vars, trackerVars, pacerVars, part>>
  /\ Fairness /\ TrackerFairness /\ PacerFairness
=============================================================================
