---------------------------- MODULE RerateTracker ----------------------------
(***************************************************************************)
(* The tracker of analysis runs (rerate_status.go): one entry for each     *)
(* account and surface, from which a page that lost its stream learns how  *)
(* its run went.  Runs are started by a re-rate (rerate.go handleRerateSSE)*)
(* and by the analyses of a scrape, one account after another when it is   *)
(* the scheduler's (server.go analyzeUserCollection); a profile save drops *)
(* the entries of its account (handlers.go handleProfileSave).  All three  *)
(* hold the operation gate.  Progress texts are left out.                  *)
(***************************************************************************)
EXTENDS Integers, FiniteSets, FiniteSetsExt

CONSTANTS
  Users,
  Surfaces,
  Today,       \* the surface a scrape's analysis reports on
  MaxEntries,  \* 192 in start
  MaxRuns      \* bound: runs of one process

ASSUME TrackerAssumption ==
  /\ Today \in Surfaces
  /\ IsFiniteSet(Users) /\ IsFiniteSet(Surfaces)
  /\ MaxEntries \in Nat \ {0} /\ MaxRuns \in Nat

VARIABLES
  runs,     \* the entry of each account and surface; its id is 0 if there is none
  nextID,   \* runs started by this process
  gate,     \* who holds the operation gate
  key,      \* the key of the run in progress
  id,       \* its RunID, 0 between the analyses of a scrape
  over      \* its terminal entry has been written

trackerVars == <<runs, nextID, gate, key, id, over>>

Keys   == Users \X Surfaces
Final  == {"changed", "cached", "partial", "empty", "no_progress", "failed"}
Entry  == [id : Nat, state : {"idle", "running"} \cup Final]
Idle   == [id |-> 0, state |-> "idle"]
Known  == {k \in Keys : runs[k].id # 0}

TrackerInit ==
  /\ runs = [k \in Keys |-> Idle] /\ nextID = 0
  /\ gate = "free" /\ key \in Keys /\ id = 0 /\ over = FALSE

-----------------------------------------------------------------------------
(* start, record, complete and invalidateUser: each one critical section.  *)

\* When k is new and the map is full the entry with the lowest RunID goes.
Evicted(k) ==
  {e \in Known : /\ runs[k].id = 0 /\ Cardinality(Known) >= MaxEntries
                 /\ \A f \in Known : runs[e].id <= runs[f].id}

\* A new number, and an entry in the place of the key's last or of an evicted one.
Start(k) ==
  /\ nextID < MaxRuns
  /\ nextID' = nextID + 1 /\ id' = nextID + 1 /\ key' = k /\ over' = FALSE
  /\ runs' = [e \in Keys |-> IF e = k THEN [id |-> nextID + 1, state |-> "running"]
                             ELSE IF e \in Evicted(k) THEN Idle ELSE runs[e]]

\* record("failed") and complete: a run writes its own entry or none.
Report(state) ==
  runs' = IF runs[key].id = id THEN [runs EXCEPT ![key].state = state] ELSE runs

Invalidate(u) == runs' = [k \in Keys |-> IF k[1] = u THEN Idle ELSE runs[k]]

-----------------------------------------------------------------------------
(* The operations that use the tracker.                                    *)

\* handleRerateSSE: the gate, the runtime, the stream, then the entry.
Press(u, s) == /\ gate = "free" /\ gate' = "rerate" /\ Start(<<u, s>>)

\* handleScrapeSSE and runScheduledScrape: the gate first; the collection, then
\* the analysis of each account that has a profile.
Collect == /\ gate = "free" /\ gate' = "scrape"
           /\ UNCHANGED <<runs, nextID, key, id, over>>
Analyze(u) == /\ gate = "scrape" /\ id = 0 /\ Start(<<u, Today>>) /\ UNCHANGED gate

\* A bug for comparison with EndRerate: the deferred event follows a run reported as done.
EndRerate_Again(state) ==
  /\ gate = "rerate" /\ id # 0 /\ state \in Final
  /\ Report(state) /\ over' = TRUE /\ UNCHANGED <<nextID, gate, key, id>>

\* The deferred terminal event of handleRerateSSE, or its success path; an
\* error and a panic both end in "failed".
EndRerate(state) ==
  /\ gate = "rerate" /\ id # 0 /\ ~over /\ state \in Final
  /\ Report(state) /\ over' = TRUE /\ UNCHANGED <<nextID, gate, key, id>>

\* A bug for comparison with EndAnalysis: an error returns before the report.
EndAnalysis_Silent(state) ==
  /\ gate = "scrape" /\ id # 0 /\ ~over /\ state \in {"changed", "partial", "failed"}
  /\ IF state = "failed" THEN runs' = runs ELSE Report(state)
  /\ over' = TRUE /\ UNCHANGED <<nextID, gate, key, id>>

\* The deferred report of analyzeUserCollection; a panic leaves its error nil
\* and is reported as "changed".
EndAnalysis(state) ==
  /\ gate = "scrape" /\ id # 0 /\ ~over /\ state \in {"changed", "partial", "failed"}
  /\ Report(state) /\ over' = TRUE /\ UNCHANGED <<nextID, gate, key, id>>

\* The next account of a scheduled run.
NextAccount == /\ gate = "scrape" /\ over /\ id' = 0 /\ over' = FALSE
               /\ UNCHANGED <<runs, nextID, gate, key>>

\* The gate is released by the outermost defer, after the report.
ReleaseGate ==
  /\ gate # "free" /\ (id # 0 => over) /\ gate' = "free" /\ id' = 0 /\ over' = FALSE
  /\ UNCHANGED <<runs, nextID, key>>

\* A bug for comparison with Save: the entries are dropped outside the gate.
Save_Ungated(u) ==
  /\ gate' = gate /\ Invalidate(u) /\ UNCHANGED <<nextID, key, id, over>>

\* handleProfileSave with changed dealbreakers; other saves leave the tracker alone.
Save(u) ==
  /\ gate = "free" /\ gate' = "save" /\ Invalidate(u) /\ UNCHANGED <<nextID, key, id, over>>

\* A restart: tokens of a new process carry another epoch.
Restart ==
  /\ runs' = [k \in Keys |-> Idle] /\ nextID' = 0 /\ gate' = "free" /\ id' = 0 /\ over' = FALSE
  /\ UNCHANGED key

-----------------------------------------------------------------------------
EndRun == \E state \in Final : EndRerate(state) \/ EndAnalysis(state)

TrackerNext ==
  \/ \E u \in Users : Analyze(u) \/ Save(u) \/ \E s \in Surfaces : Press(u, s)
  \/ Collect \/ EndRun \/ NextAccount \/ ReleaseGate \/ Restart

TrackerSpec == TrackerInit /\ [][TrackerNext]_trackerVars

\* Runs have a deadline and their handlers return.
TrackerFairness == WF_trackerVars(EndRun) /\ WF_trackerVars(ReleaseGate)

TrackerLiveSpec == TrackerSpec /\ TrackerFairness

-----------------------------------------------------------------------------
(* Properties.                                                             *)

TrackerTypeOK ==
  /\ runs \in [Keys -> Entry] /\ nextID \in 0 .. MaxRuns
  /\ gate \in {"free", "rerate", "scrape", "save"}
  /\ key \in Keys /\ id \in 0 .. nextID /\ over \in BOOLEAN

\* An entry says "running" only while the operation that holds the gate runs
\* that very run: no page waits for a run that is over (rerate.go S8: "A
\* terminal event (done|failed) fires on EVERY exit path").
RunningIsLive ==
  \A k \in Keys : runs[k].state = "running" => k = key /\ runs[k].id = id /\ id # 0 /\ ~over

\* The run in progress keeps its entry, whatever starts, is evicted or is saved.
LiveIsKnown == id # 0 => runs[key].id = id

\* The map never outgrows its limit.
Bounded == Cardinality(Known) <= MaxEntries

\* A run is told apart from every other run of the process by its number.
IdsDistinct ==
  \A k, l \in Known : runs[k].id <= nextID /\ (runs[k].id = runs[l].id => k = l)

\* The map is right about the runs of the process.
EntriesExact == TrackerTypeOK /\ RunningIsLive /\ LiveIsKnown /\ Bounded /\ IdsDistinct

\* What an entry says of a run that ended is never taken back: it stays until a
\* newer run, an eviction, a save or a restart replaces it.
VerdictsStand ==
  [][\A k \in Keys : runs[k].state \in Final /\ runs'[k].id = runs[k].id /\ nextID' # 0
                       => runs'[k] = runs[k]]_trackerVars

\* A run that was started is reported, unless the process stops first: no time
\* comes from which on some entry or other always says "running".
Running == \E k \in Keys : runs[k].state = "running"
RunsReported == Running ~> ~Running
=============================================================================
