---------------------------- MODULE ScrapeProofs ----------------------------
(***************************************************************************)
(* Theorems of module Scrape, for any postings, sources, caps and windows.  *)
(* A run is a long sequence of writes that may stop after each of them;     *)
(* the invariant says what each place of it knows of the table: which       *)
(* listings are fully recorded, which baselines some stored posting still   *)
(* bears, and how far the marking of duplicates has come.                   *)
(***************************************************************************)
EXTENDS Scrape, FiniteSetTheorems, WellFoundedInduction, TLAPS

\* Only a run has things in hand, and a source is listed once in it.
Shape ==
  /\ (run = 0) = (pc = "idle")
  /\ pc \notin {"seen", "refresh"} => todo = {} /\ fresh = {} /\ cands = {}
  /\ pc = "refresh" => fresh = {}
  /\ pc \notin {"seen", "refresh", "sweeping"} => src = {}
  /\ pc = "sweeping" => src \subseteq good
  /\ pc \in {"seen", "refresh"} => src \cap (good \cup left) = {}
  /\ good \cap left = {}
  /\ \A p \in listed : SourceOf[p] \notin left
  /\ todo \cup fresh \cup cands \subseteq listed
  /\ pc = "idle" => good = {} /\ listed = {}

\* A row that says "running" is of the run, of the tick being recorded, or lost.
RunningTold == \A i \in DOMAIN hist : hist[i] = "running" => i \in {run, skip} \cup lost

\* Every sighting is of the run's time at the latest, and what a completed source
\* listed was seen by this run, as is all of the present source but what is to do.
Sighted ==
  /\ pc # "idle" => \A p \in Ids : last[p] <= at
  /\ \A p \in listed \cap stored :
       /\ SourceOf[p] \in good => last[p] = at
       /\ pc = "seen" /\ SourceOf[p] \in src /\ p \notin todo => last[p] = at
       /\ pc = "refresh" /\ SourceOf[p] \in src => last[p] = at

\* The baseline of a source that is still to sweep is the sighting of one of its
\* postings, which is still stored.
Baselines ==
  pc = "sweeping" => \A s \in src : base[s] <= at /\ \E q \in stored : SourceOf[q] = s /\ last[q] = base[s]

\* What is missing next to another posting was so when the run began, or the run
\* listed the other: only what it listed is seen anew.
Dated ==
  pc # "idle" =>
    \A p, q \in stored : SourceOf[q] = SourceOf[p] /\ last[q] - last[p] > StaleWindow => q \in listed \/ p \in due

\* Row ids order the rows.
Ordered ==
  /\ \A p \in stored : <<p, p>> \notin before
  /\ \A p, q \in stored : p # q => <<p, q>> \in before \/ <<q, p>> \in before

\* The pass so far: what is hidden agrees with what it is hidden behind, and no
\* pair that is open comes before a posting that hides another.
Passing ==
  /\ pc \in {"mark", "finish"} => \A q \in stored : dup[q] # q => {q, dup[q]} \in alike
  /\ pc = "mark" => \A q \in stored : dup[q] # q => \A o \in Open : ~Earlier(o[1], dup[q])

IInv == /\ TypeOK /\ Shape /\ RunningTold /\ Sighted /\ Baselines /\ Dated /\ Ordered
        /\ StarOfDuplicates /\ Passing /\ DedupExact

-----------------------------------------------------------------------------
\* A set of numbers below a bound has a greatest one.
LEMMA MaxExists ==
  ASSUME NEW n \in Nat, NEW S \in SUBSET (0 .. n), S # {}
  PROVE  Max(S) \in S /\ \A y \in S : y <= Max(S)
<1> DEFINE T == {n - x : x \in S}
           Less == {pq \in Nat \X Nat : pq[1] < pq[2]}
<1>1. T \subseteq Nat /\ T # {}
  OBVIOUS
<1>2. IsWellFoundedOn(Less, Nat)
  <2>1. Less = OpToRel(<, Nat)
    BY Zenon DEF OpToRel
  <2> QED
    BY <2>1, NatLessThanWellFounded
<1>3. PICK m \in T : \A y \in T : ~ (<<y, m>> \in Less)
  <2> HIDE DEF T, Less
  <2> QED
    BY <1>1, <1>2, WFMin
<1>4. PICK x \in S : m = n - x
  BY <1>3
<1>5. ASSUME NEW y \in S PROVE x >= y
  <2>1. n - y \in T
    OBVIOUS
  <2>2. ~(n - y < m)
    BY <1>1, <1>3, <2>1
  <2> QED
    BY <1>4, <2>2
<1>6. \E z \in S : \A y \in S : z >= y
  BY <1>5
<1> QED
  BY <1>6 DEF Max

-----------------------------------------------------------------------------
(* The parts of the invariant, by the part of the state they are about.     *)

Status == {"running", "success", "failure"}
RecordOK ==
  /\ hist \in Seq(Status) /\ Len(hist) <= MaxRuns
  /\ lost \subseteq DOMAIN hist /\ {run, skip} \subseteq {0} \cup DOMAIN hist
  /\ (run = 0) = (pc = "idle")
  /\ RunningTold

TableOK ==
  /\ now \in 0 .. MaxTime
  /\ stored \subseteq Ids /\ before \subseteq stored \X stored
  /\ first \in [Ids -> 0 .. now] /\ last \in [Ids -> 0 .. now] /\ det \in [Ids -> 0 .. now]
  /\ dup \in [Ids -> Ids] /\ alike \subseteq Pairs /\ marks \subseteq stored
  /\ Ordered

Places == {"idle", "none", "source", "seen", "refresh", "sweep", "sweeping", "clear", "mark", "finish", "failed"}
ControlOK ==
  /\ at \in 0 .. now /\ pc \in Places
  /\ trigger \in {"none", "manual", "scheduled"} /\ (trigger = "none") = (pc = "idle")
  /\ left \cup src \cup good \subseteq Sources /\ base \in [Sources -> 0 .. now]
  /\ todo \cup cands \subseteq stored /\ fresh \subseteq Ids \ stored /\ {listed, due} \subseteq SUBSET Ids
  /\ Shape

SightOK == Sighted /\ Baselines
PassOK  == StarOfDuplicates /\ Passing /\ DedupExact

LEMMA Parts == IInv <=> RecordOK /\ TableOK /\ ControlOK /\ SightOK /\ Dated /\ PassOK
  BY DEF IInv, TypeOK, RecordOK, TableOK, ControlOK, SightOK, PassOK, Status, Places, Shape

\* The steps, by what they write.
ClockStep   == Tick
MarksStep   == \E p \in Ids : Bookmark(p) \/ Unbookmark(p)
RecordStep  == Begin("manual") \/ Begin("scheduled") \/ Finish \/ Crash \/ SkipStart \/ SkipFinish
SourceStep  == \/ PickStale \/ SourceDone \/ SourceFails
               \/ \E s \in Sources : List(s)
WriteStep   == \E p \in Ids : Touch(p) \/ Insert(p) \/ Refresh(p)
SweepStep   == SweepStart \/ SweepEnd \/ \E s \in Sources : SweepSource(s)
DedupStep   == Clear \/ Mark \/ MarkEnd

LEMMA NextSteps ==
  ASSUME [Next]_vars
  PROVE  \/ ClockStep \/ MarksStep \/ RecordStep \/ SourceStep \/ WriteStep
         \/ SweepStep \/ DedupStep \/ Fail \/ UNCHANGED vars
  BY DEF Next, RunStep, ClockStep, MarksStep, RecordStep, SourceStep, WriteStep, SweepStep, DedupStep

-----------------------------------------------------------------------------
(* The history.                                                             *)

LEMMA AppendTold ==
  ASSUME NEW h \in Seq(Status)
  PROVE  /\ Append(h, "running") \in Seq(Status) /\ Len(Append(h, "running")) = Len(h) + 1
         /\ DOMAIN Append(h, "running") = DOMAIN h \cup {Len(h) + 1}
         /\ \A i \in DOMAIN h : Append(h, "running")[i] = h[i]
         /\ Len(h) \in Nat /\ DOMAIN h = 1 .. Len(h)
  BY DEF Status

LEMMA SettleTold ==
  ASSUME RecordOK, NEW r \in {run, skip} \ {0}, NEW status \in {"success", "failure"}, Settle(r, status)
  PROVE  /\ hist' \in Seq(Status) /\ Len(hist') <= MaxRuns /\ DOMAIN hist' = DOMAIN hist
         /\ lost \subseteq lost' /\ lost' \subseteq DOMAIN hist'
         /\ \A i \in DOMAIN hist' : hist'[i] = "running" => hist[i] = "running" /\ (i = r => r \in lost')
<1>1. CASE hist' = [hist EXCEPT ![r] = status] /\ lost' = lost
  BY <1>1 DEF RecordOK, Status
<1>2. CASE hist' = hist /\ lost' = lost \cup {r}
  BY <1>2 DEF RecordOK
<1> QED
  BY <1>1, <1>2 DEF Settle

LEMMA RecordKept ==
  ASSUME RecordOK, UNCHANGED <<hist, lost, run, skip>>, (pc = "idle") = (pc' = "idle")
  PROVE  RecordOK'
  BY DEF RecordOK, RunningTold

LEMMA RecordNext ==
  ASSUME RecordOK, ControlOK, [Next]_vars
  PROVE  RecordOK'
<1>1. CASE ClockStep \/ MarksStep
  BY <1>1, RecordKept DEF ClockStep, MarksStep, Tick, Bookmark, Unbookmark, record, control
<1>2. CASE SourceStep
  <2>1. UNCHANGED <<hist, lost, run, skip>> /\ pc # "idle" /\ pc' # "idle"
    BY <1>2 DEF SourceStep, PickStale, SourceDone, SourceFails, List, record
  <2> QED
    BY <2>1, RecordKept
<1>3. CASE WriteStep
  BY <1>3, RecordKept DEF WriteStep, Touch, Insert, Refresh, record
<1>4. CASE SweepStep \/ DedupStep \/ Fail
  <2>1. UNCHANGED <<hist, lost, run, skip>> /\ pc # "idle" /\ pc' # "idle"
    BY <1>4 DEF SweepStep, SweepStart, SweepSource, SweepEnd, Barrier, DedupStep, Clear, Mark, MarkEnd, Fail, record, control
  <2> QED
    BY <2>1, RecordKept
<1>5. CASE UNCHANGED vars
  BY <1>5, RecordKept DEF vars, record, control
<1>6. CASE RecordStep
  <2>1. CASE Begin("manual") \/ Begin("scheduled")
    <3>1. /\ pc = "idle" /\ Len(hist) < MaxRuns /\ hist' = Append(hist, "running") /\ run' = Len(hist) + 1
          /\ UNCHANGED <<lost, skip>> /\ pc' # "idle"
      BY <2>1 DEF Begin
    <3>2. /\ hist' \in Seq(Status) /\ Len(hist') = Len(hist) + 1 /\ DOMAIN hist' = DOMAIN hist \cup {Len(hist) + 1}
          /\ \A i \in DOMAIN hist : hist'[i] = hist[i]
          /\ Len(hist) \in Nat /\ MaxRuns \in Nat
      BY <3>1, AppendTold, ScrapeAssumption DEF RecordOK
    <3> QED
      BY <3>1, <3>2 DEF RecordOK, RunningTold
  <2>2. CASE SkipStart
    <3>1. /\ skip = 0 /\ Len(hist) < MaxRuns /\ hist' = Append(hist, "running") /\ skip' = Len(hist) + 1
          /\ UNCHANGED <<lost, run, pc>>
      BY <2>2 DEF SkipStart, control
    <3>2. /\ hist' \in Seq(Status) /\ Len(hist') = Len(hist) + 1 /\ DOMAIN hist' = DOMAIN hist \cup {Len(hist) + 1}
          /\ \A i \in DOMAIN hist : hist'[i] = hist[i]
          /\ Len(hist) \in Nat /\ MaxRuns \in Nat
      BY <3>1, AppendTold, ScrapeAssumption DEF RecordOK
    <3> QED
      BY <3>1, <3>2 DEF RecordOK, RunningTold
  <2>3. CASE SkipFinish
    <3>1. Settle(skip, "failure") /\ skip # 0 /\ skip' = 0 /\ UNCHANGED <<run, pc>>
      BY <2>3 DEF SkipFinish, control
    <3> QED
      BY <3>1, SettleTold DEF RecordOK, RunningTold
  <2>4. CASE Finish
    <3>1. /\ run # 0 /\ run' = 0 /\ pc' = "idle" /\ UNCHANGED skip
          /\ \E status \in {"success", "failure"} : Settle(run, status)
      BY <2>4 DEF Finish, Forget, RecordOK
    <3> QED
      BY <3>1, SettleTold DEF RecordOK, RunningTold
  <2>5. CASE Crash
    BY <2>5 DEF Crash, Forget, RecordOK, RunningTold
  <2> QED
    BY <1>6, <2>1, <2>2, <2>3, <2>4, <2>5 DEF RecordStep
<1> QED
  BY <1>1, <1>2, <1>3, <1>4, <1>5, <1>6, NextSteps

-----------------------------------------------------------------------------
(* What the run has in hand.                                                *)

LEMMA ControlKept ==
  ASSUME ControlOK, RecordOK', UNCHANGED <<pc, control>>, now <= now', now' \in Nat, now \in Nat, UNCHANGED stored
  PROVE  ControlOK'
  BY DEF ControlOK, RecordOK, Shape, control

LEMMA SourceControl ==
  ASSUME ControlOK, TableOK, RecordOK', SourceStep
  PROVE  ControlOK'
<1>1. UNCHANGED <<now, stored, at, trigger, base, run, due>>
  BY DEF SourceStep, PickStale, SourceDone, SourceFails, List, table
<1>2. CASE \E s \in Sources : List(s)
  <2> PICK s \in Sources : List(s)
    BY <1>2
  <2>1. /\ pc = "source" /\ s \in left /\ pc' = "seen" /\ left' = left \ {s} /\ src' = {s} /\ UNCHANGED good
        /\ \E l \in SUBSET {p \in Ids : SourceOf[p] = s} :
             /\ listed' = listed \cup l /\ todo' \subseteq l \cap stored /\ cands' \subseteq l \cap stored
             /\ fresh' \subseteq l \ stored
    BY DEF List, NextSource, kSubset
  <2> QED
    BY <1>1, <2>1 DEF ControlOK, Shape, Places
<1>3. CASE PickStale
  <2>1. /\ pc = "seen" /\ pc' = "refresh" /\ todo' \subseteq cands /\ fresh = {}
        /\ UNCHANGED <<left, src, fresh, cands, good, listed>>
    BY <1>3 DEF PickStale, Oldest
  <2> QED
    BY <1>1, <2>1 DEF ControlOK, Shape, Places
<1>4. CASE SourceDone
  <2>1. /\ pc = "refresh" /\ todo = {} /\ good' = good \cup src /\ src' = {} /\ cands' = {}
        /\ pc' \in {"sweep", "source"} /\ UNCHANGED <<left, todo, fresh, listed>>
    BY <1>4 DEF SourceDone
  <2> QED
    BY <1>1, <2>1 DEF ControlOK, Shape, Places
<1>5. CASE SourceFails
  <2>1. /\ pc \in {"seen", "refresh"} /\ src' = {} /\ todo' = {} /\ fresh' = {} /\ cands' = {}
        /\ pc' \in {"sweep", "source"} /\ UNCHANGED <<left, good, listed>>
    BY <1>5 DEF SourceFails
  <2> QED
    BY <1>1, <2>1 DEF ControlOK, Shape, Places
<1> QED
  BY <1>2, <1>3, <1>4, <1>5 DEF SourceStep

LEMMA WriteControl ==
  ASSUME ControlOK, TableOK, RecordOK', WriteStep
  PROVE  ControlOK'
<1>1. /\ UNCHANGED <<now, pc, run, trigger, at, left, src, good, base, listed, due>>
      /\ pc \in {"seen", "refresh"} /\ todo' \subseteq todo /\ cands' \subseteq cands
      /\ \/ UNCHANGED <<stored, fresh>>
         \/ \E p \in Ids : fresh' = fresh \ {p} /\ (stored' = stored \/ stored' = stored \cup {p})
      /\ pc = "refresh" => fresh' = fresh
  BY DEF WriteStep, Touch, Insert, Refresh, table
<1> QED
  BY <1>1 DEF ControlOK, Shape, Places

LEMMA SweepControl ==
  ASSUME ControlOK, TableOK, RecordOK', SweepStep
  PROVE  ControlOK'
<1>1. /\ UNCHANGED <<now, run, trigger, at, left, todo, fresh, cands, good, listed, due>>
      /\ stored' \subseteq stored
  BY DEF SweepStep, SweepStart, SweepSource, SweepEnd, Delete, table
<1>2. CASE SweepStart
  <2> DEFINE Of(s) == {last[p] : p \in {q \in stored : SourceOf[q] = s}}
  <2>1. /\ pc = "sweep" /\ pc' = "sweeping" /\ UNCHANGED stored /\ src' = {SourceOf[p] : p \in stored} \cap good
        /\ base' = [s \in Sources |-> IF s \in src' THEN Max(Of(s)) ELSE 0]
    BY <1>2 DEF SweepStart, table
  <2>2. \A s \in src' : Of(s) \in SUBSET (0 .. now) /\ Of(s) # {}
    BY <2>1 DEF TableOK
  <2>3. now \in Nat
    BY DEF TableOK
  <2>4. \A s \in src' : Max(Of(s)) \in 0 .. now
    <3> HIDE DEF Of
    <3> QED
      BY <2>2, <2>3, MaxExists
  <2>5. base' \in [Sources -> 0 .. now]
    <3> HIDE DEF Of
    <3> QED
      BY <2>1, <2>3, <2>4
  <2> QED
    BY <1>1, <2>1, <2>5 DEF ControlOK, Shape, Places
<1>3. CASE SweepEnd
  <2>1. pc = "sweeping" /\ src = {} /\ pc' = "clear" /\ base' = NoBase /\ UNCHANGED <<src, stored>>
    BY <1>3 DEF SweepEnd, Barrier, table
  <2> QED
    BY <1>1, <2>1 DEF ControlOK, Shape, Places, NoBase, TableOK
<1>4. CASE \E s \in Sources : SweepSource(s)
  <2>1. pc = "sweeping" /\ src' \subseteq src /\ UNCHANGED <<pc, base>>
    BY <1>4 DEF SweepSource, Barrier
  <2> QED
    BY <1>1, <2>1 DEF ControlOK, Shape, Places
<1> QED
  BY <1>2, <1>3, <1>4 DEF SweepStep

LEMMA ControlNext ==
  ASSUME ControlOK, TableOK, RecordOK', [Next]_vars
  PROVE  ControlOK'
<1>1. CASE ClockStep \/ MarksStep \/ UNCHANGED vars \/ SkipStart \/ SkipFinish
  <2>1. UNCHANGED <<pc, control, stored>> /\ now <= now' /\ now' \in Nat /\ now \in Nat
    BY <1>1 DEF ClockStep, MarksStep, Tick, Bookmark, Unbookmark, SkipStart, SkipFinish, table, vars, TableOK
  <2> QED
    BY <2>1, ControlKept
<1>2. CASE Begin("manual") \/ Begin("scheduled")
  <2>1. /\ pc = "idle" /\ trigger' \in {"manual", "scheduled"} /\ left' \subseteq Sources /\ pc' \in {"none", "source"}
        /\ at' = now /\ UNCHANGED <<now, stored, src, todo, fresh, cands, good, base, listed>>
        /\ due' \subseteq stored
    BY <1>2 DEF Begin, Missing, table
  <2> QED
    BY <2>1 DEF ControlOK, Shape, Places, RecordOK, TableOK
<1>3. CASE Finish \/ Crash
  <2>1. Forget /\ UNCHANGED <<now, stored>>
    BY <1>3 DEF Finish, Crash, table
  <2> QED
    BY <2>1 DEF ControlOK, Shape, Places, RecordOK, TableOK, Forget, NoBase
<1>4. CASE DedupStep
  <2>1. pc \in {"clear", "mark"} /\ pc' \in {"clear", "mark", "finish"} /\ UNCHANGED <<now, stored, control>>
    BY <1>4 DEF DedupStep, Clear, Mark, MarkEnd, table
  <2> QED
    BY <2>1 DEF ControlOK, Shape, Places, RecordOK, control
<1>5. CASE Fail
  <2>1. /\ pc # "idle" /\ pc' = "failed" /\ src' = {} /\ todo' = {} /\ fresh' = {} /\ cands' = {} /\ base' = NoBase
        /\ UNCHANGED <<now, stored, run, trigger, at, left, good, listed, due>>
    BY <1>5 DEF Fail, table
  <2> QED
    BY <2>1 DEF ControlOK, Shape, Places, RecordOK, TableOK, NoBase
<1> QED
  BY <1>1, <1>2, <1>3, <1>4, <1>5, NextSteps, SourceControl, WriteControl, SweepControl DEF RecordStep

-----------------------------------------------------------------------------
(* The table.                                                               *)

\* What a write of posting p may do to the table.
Writes(p) ==
  /\ UNCHANGED <<now, marks>> /\ at \in 0 .. now
  /\ first' \in {first, [first EXCEPT ![p] = at]} /\ last' \in {last, [last EXCEPT ![p] = at]}
  /\ det' \in {det, [det EXCEPT ![p] = at]} /\ alike' \subseteq alike \cup Pairs
  /\ dup' \in {dup, [dup EXCEPT ![p] = p]}
  /\ \/ UNCHANGED <<stored, before>>
     \/ p \notin stored /\ stored' = stored \cup {p} /\ before' = before \cup (stored \X {p})

LEMMA TableWritten ==
  ASSUME TableOK, NEW p \in Ids, Writes(p)
  PROVE  TableOK'
<1>1. /\ first' \in [Ids -> 0 .. now'] /\ last' \in [Ids -> 0 .. now'] /\ det' \in [Ids -> 0 .. now']
      /\ now' \in 0 .. MaxTime /\ dup' \in [Ids -> Ids] /\ alike' \subseteq Pairs
  BY DEF TableOK, Writes
<1>2. stored' \subseteq Ids /\ before' \subseteq stored' \X stored' /\ marks' \subseteq stored' /\ Ordered'
  <2>1. CASE UNCHANGED <<stored, before>>
    BY <2>1 DEF TableOK, Ordered, Writes
  <2>2. CASE p \notin stored /\ stored' = stored \cup {p} /\ before' = before \cup (stored \X {p})
    BY <2>2 DEF TableOK, Ordered, Writes
  <2> QED
    BY <2>1, <2>2 DEF Writes
<1> QED
  BY <1>1, <1>2 DEF TableOK

LEMMA WriteWrites ==
  ASSUME TableOK, ControlOK, NEW p \in Ids, Touch(p) \/ Insert(p) \/ Refresh(p)
  PROVE  Writes(p)
<1>1. Retext(p) => alike' \subseteq alike \cup Pairs
  BY DEF Retext
<1>2. p \in fresh => p \notin stored
  BY DEF ControlOK
<1> QED
  BY <1>1, <1>2 DEF Touch, Insert, Refresh, Writes, ControlOK, table

LEMMA TableNext ==
  ASSUME TableOK, ControlOK, [Next]_vars
  PROVE  TableOK'
<1>1. CASE UNCHANGED <<now, table, marks>>
  BY <1>1 DEF TableOK, Ordered, table
<1>2. CASE ClockStep
  <2>1. now' \in 0 .. MaxTime /\ now <= now' /\ now \in Nat /\ UNCHANGED <<table, marks>>
    BY <1>2, ScrapeAssumption DEF ClockStep, Tick, TableOK
  <2> QED
    BY <2>1 DEF TableOK, Ordered, table
<1>3. CASE MarksStep
  <2>1. UNCHANGED <<now, table>> /\ marks' \subseteq stored
    BY <1>3 DEF MarksStep, Bookmark, Unbookmark, TableOK
  <2> QED
    BY <2>1 DEF TableOK, Ordered, table
<1>4. CASE WriteStep
  BY <1>4, TableWritten, WriteWrites DEF WriteStep
<1>5. CASE \E s \in Sources : SweepSource(s)
  <2> PICK s \in Sources : Delete(Doomed(s)) /\ UNCHANGED now
    BY <1>5 DEF SweepSource
  <2> DEFINE D == Doomed(s)
  <2>1. /\ stored' = stored \ D /\ marks' = marks \ D /\ alike' \subseteq alike
        /\ before' = {b \in before : b[1] \notin D /\ b[2] \notin D}
        /\ first' = [p \in Ids |-> IF p \in D THEN 0 ELSE first[p]]
        /\ last' = [p \in Ids |-> IF p \in D THEN 0 ELSE last[p]]
        /\ det' = [p \in Ids |-> IF p \in D THEN 0 ELSE det[p]]
        /\ dup' = [p \in Ids |-> IF p \in D \/ dup[p] \in D THEN p ELSE dup[p]]
    BY DEF Delete
  <2> HIDE DEF D
  <2>2. first' \in [Ids -> 0 .. now'] /\ last' \in [Ids -> 0 .. now'] /\ det' \in [Ids -> 0 .. now'] /\ dup' \in [Ids -> Ids]
    BY <2>1 DEF TableOK
  <2>3. before' \subseteq stored' \X stored' /\ Ordered'
    BY <2>1 DEF TableOK, Ordered
  <2> QED
    BY <2>1, <2>2, <2>3 DEF TableOK
<1>6. CASE DedupStep
  <2>1. /\ UNCHANGED <<now, stored, before, first, last, det, alike, marks>> /\ dup' \in [Ids -> Ids]
    BY <1>6 DEF DedupStep, Clear, Mark, MarkEnd, table, TableOK
  <2> QED
    BY <2>1 DEF TableOK, Ordered
<1> QED
  BY <1>1, <1>2, <1>3, <1>4, <1>5, <1>6, NextSteps
  DEF RecordStep, Begin, Finish, Crash, SkipStart, SkipFinish, SourceStep, PickStale, SourceDone, SourceFails, List,
      SweepStep, SweepStart, SweepEnd, Fail, vars, table

-----------------------------------------------------------------------------
(* What the run knows of the sightings.                                     *)

LEMMA SightKept ==
  ASSUME SightOK, UNCHANGED <<pc, at, last, stored, listed, good, src, todo, base>>
  PROVE  SightOK'
  BY DEF SightOK, Sighted, Baselines

\* Where no source is being scraped and no sweep runs, completed sources matter only.
LEMMA SightLeft ==
  ASSUME SightOK, UNCHANGED <<at, last, stored, listed, good>>, pc # "idle", pc' \notin {"seen", "refresh", "sweeping"}
  PROVE  SightOK'
  BY DEF SightOK, Sighted, Baselines

LEMMA SourceSight ==
  ASSUME SightOK, ControlOK, TableOK, SourceStep
  PROVE  SightOK'
<1>1. UNCHANGED <<at, last, stored>>
  BY DEF SourceStep, PickStale, SourceDone, SourceFails, List, table
<1>2. CASE \E s \in Sources : List(s)
  <2> PICK s \in Sources : List(s)
    BY <1>2
  <2>1. /\ pc = "source" /\ s \in left /\ pc' = "seen" /\ src' = {s} /\ UNCHANGED good
        /\ \E l \in SUBSET {p \in Ids : SourceOf[p] = s} : listed' = listed \cup l /\ todo' = l \cap stored
    BY DEF List, NextSource
  <2>2. s \notin good /\ \A p \in listed : SourceOf[p] # s
    BY <2>1 DEF ControlOK, Shape
  <2>3. Baselines'
    BY <2>1 DEF Baselines
  <2>4. Sighted'
    BY <1>1, <2>1, <2>2 DEF SightOK, Sighted
  <2> QED
    BY <2>3, <2>4 DEF SightOK
<1>3. CASE PickStale
  <2>1. pc = "seen" /\ todo = {} /\ pc' = "refresh" /\ UNCHANGED <<src, good, listed>>
    BY <1>3 DEF PickStale
  <2> QED
    BY <1>1, <2>1 DEF SightOK, Sighted, Baselines
<1>4. CASE SourceDone
  <2>1. pc = "refresh" /\ good' = good \cup src /\ pc' \in {"sweep", "source"} /\ UNCHANGED listed
    BY <1>4 DEF SourceDone
  <2> QED
    BY <1>1, <2>1 DEF SightOK, Sighted, Baselines
<1>5. CASE SourceFails
  <2>1. pc \in {"seen", "refresh"} /\ pc' \in {"sweep", "source"} /\ UNCHANGED <<good, listed>>
    BY <1>5 DEF SourceFails
  <2> QED
    BY <1>1, <2>1, SightLeft
<1> QED
  BY <1>2, <1>3, <1>4, <1>5 DEF SourceStep

LEMMA WriteSight ==
  ASSUME SightOK, ControlOK, TableOK, WriteStep
  PROVE  SightOK'
<1>1. PICK p \in Ids : Touch(p) \/ Insert(p) \/ Refresh(p)
  BY DEF WriteStep
<1>2. /\ UNCHANGED <<pc, at, listed, good, src>> /\ pc \in {"seen", "refresh"}
      /\ stored' \subseteq stored \cup {p}
      /\ \A q \in Ids : q # p => last'[q] = last[q]
      /\ last'[p] \in {last[p], at} /\ (p \in stored' \ stored => last'[p] = at)
      /\ todo \ todo' \subseteq {p} /\ (pc = "seen" /\ p \in todo \ todo' => last'[p] = at)
      /\ at \in Nat
  BY <1>1 DEF Touch, Insert, Refresh, table, TableOK, ControlOK
<1> HIDE DEF WriteStep
<1>3. Baselines'
  BY <1>2 DEF Baselines
<1>4. \A q \in Ids : last'[q] <= at
  BY <1>2 DEF SightOK, Sighted
<1>5. Sighted'
  BY <1>2, <1>4 DEF SightOK, Sighted, ControlOK
<1> QED
  BY <1>3, <1>5 DEF SightOK

LEMMA SweepSight ==
  ASSUME SightOK, ControlOK, TableOK, SweepStep
  PROVE  SightOK'
<1>1. UNCHANGED <<at, good, listed>>
  BY DEF SweepStep, SweepStart, SweepSource, SweepEnd
<1>2. CASE SweepStart
  <2> DEFINE Of(s) == {last[p] : p \in {q \in stored : SourceOf[q] = s}}
  <2>1. /\ pc = "sweep" /\ pc' = "sweeping" /\ UNCHANGED <<stored, last>> /\ src' = {SourceOf[p] : p \in stored} \cap good
        /\ base' = [s \in Sources |-> IF s \in src' THEN Max(Of(s)) ELSE 0]
    BY <1>2 DEF SweepStart, table
  <2>2. ASSUME NEW s \in src' PROVE base'[s] <= at /\ \E q \in stored : SourceOf[q] = s /\ last[q] = base'[s]
    <3>1. Of(s) \in SUBSET (0 .. now) /\ Of(s) # {} /\ now \in Nat
      BY <2>1 DEF TableOK
    <3>2. Max(Of(s)) \in Of(s)
      <4> HIDE DEF Of
      <4> QED
        BY <3>1, MaxExists
    <3>3. base'[s] = Max(Of(s))
      <4> HIDE DEF Of
      <4> QED
        BY <2>1, <2>2 DEF ControlOK
    <3>4. PICK q \in stored : SourceOf[q] = s /\ last[q] = base'[s]
      BY <3>2, <3>3
    <3> QED
      BY <2>1, <3>4 DEF SightOK, Sighted, TableOK
  <2>3. Baselines'
    BY <1>1, <2>1, <2>2 DEF Baselines
  <2>4. Sighted'
    BY <1>1, <2>1 DEF SightOK, Sighted
  <2> QED
    BY <2>3, <2>4 DEF SightOK
<1>3. CASE SweepEnd
  BY <1>1, <1>3, SightLeft DEF SweepEnd, Barrier, table
<1>4. CASE \E s \in Sources : SweepSource(s)
  <2> PICK s \in Sources : SweepSource(s)
    BY <1>4
  <2> DEFINE D == Doomed(s)
  <2>1. /\ pc = "sweeping" /\ src' = src \ {s} /\ UNCHANGED <<pc, base>> /\ stored' = stored \ D
        /\ \A p \in Ids : last'[p] = IF p \in D THEN 0 ELSE last[p]
        /\ \A p \in D : SourceOf[p] = s
    BY DEF SweepSource, Barrier, Delete, Doomed
  <2> HIDE DEF D
  <2>2. at \in Nat /\ stored \subseteq Ids
    BY DEF ControlOK, TableOK
  <2>3. Baselines'
    BY <1>1, <2>1, <2>2 DEF SightOK, Baselines
  <2>4. Sighted'
    BY <1>1, <2>1, <2>2 DEF SightOK, Sighted
  <2> QED
    BY <2>3, <2>4 DEF SightOK
<1> QED
  BY <1>2, <1>3, <1>4 DEF SweepStep

LEMMA SightNext ==
  ASSUME SightOK, ControlOK, TableOK, [Next]_vars
  PROVE  SightOK'
<1>1. CASE ClockStep \/ MarksStep \/ UNCHANGED vars \/ SkipStart \/ SkipFinish
  BY <1>1, SightKept DEF ClockStep, MarksStep, Tick, Bookmark, Unbookmark, SkipStart, SkipFinish, table, control, vars
<1>2. CASE Begin("manual") \/ Begin("scheduled")
  <2>1. /\ pc = "idle" /\ pc' \in {"none", "source"} /\ at' = now /\ UNCHANGED <<last, stored, good, listed>>
    BY <1>2 DEF Begin, table
  <2> QED
    BY <2>1 DEF SightOK, Sighted, Baselines, ControlOK, Shape, TableOK
<1>3. CASE Finish \/ Crash
  <2>1. pc' = "idle" /\ listed' = {}
    BY <1>3 DEF Finish, Crash, Forget
  <2> QED
    BY <2>1 DEF SightOK, Sighted, Baselines
<1>4. CASE DedupStep \/ Fail
  <2>1. pc # "idle" /\ pc' \in {"clear", "mark", "finish", "failed"} /\ UNCHANGED <<at, last, stored, listed, good>>
    BY <1>4 DEF DedupStep, Clear, Mark, MarkEnd, Fail, table, control
  <2> QED
    BY <2>1, SightLeft
<1> QED
  BY <1>1, <1>2, <1>3, <1>4, NextSteps, SourceSight, WriteSight, SweepSight DEF RecordStep

\* A sighting in the run is of a posting it listed, and of the latest time there is.
LEMMA WriteDated ==
  ASSUME Dated, SightOK, ControlOK, TableOK, WriteStep
  PROVE  Dated'
<1>1. PICK p \in Ids : Touch(p) \/ Insert(p) \/ Refresh(p)
  BY DEF WriteStep
<1>2. /\ UNCHANGED <<pc, at, listed, due>> /\ pc # "idle" /\ p \in listed
      /\ stored' \subseteq stored \cup {p}
      /\ \A q \in Ids : q # p => last'[q] = last[q]
      /\ last'[p] \in {last[p], at} /\ (p \in stored' \ stored => last'[p] = at)
      /\ at \in Nat /\ stored' \subseteq Ids /\ StaleWindow \in Nat /\ \A q \in Ids : last[q] \in Nat
  BY <1>1, ScrapeAssumption DEF Touch, Insert, Refresh, table, TableOK, ControlOK, Shape
<1> HIDE DEF WriteStep
<1> SUFFICES ASSUME NEW x \in stored', NEW q \in stored',
                    SourceOf[q] = SourceOf[x], last'[q] - last'[x] > StaleWindow, q \notin listed
             PROVE  x \in due
  BY <1>2 DEF Dated
<1>3. q # p /\ q \in stored /\ last'[q] = last[q] /\ last[q] <= at
  BY <1>2 DEF SightOK, Sighted
<1>4. x \in stored /\ last[q] - last[x] > StaleWindow
  BY <1>2, <1>3 DEF SightOK, Sighted
<1> QED
  BY <1>2, <1>3, <1>4 DEF Dated

LEMMA DatedNext ==
  ASSUME Dated, SightOK, ControlOK, TableOK, [Next]_vars
  PROVE  Dated'
<1>1. CASE UNCHANGED <<last, stored, due>> /\ listed \subseteq listed' /\ (pc' # "idle" => pc # "idle")
  BY <1>1 DEF Dated
<1>2. CASE WriteStep
  BY <1>2, WriteDated
<1>3. CASE \E s \in Sources : SweepSource(s)
  <2> PICK s \in Sources : Delete(Doomed(s)) /\ UNCHANGED <<pc, listed, due>>
    BY <1>3 DEF SweepSource
  <2>1. stored' \subseteq stored /\ \A p \in stored' : last'[p] = last[p]
    BY DEF Delete, TableOK
  <2> QED
    BY <2>1 DEF Dated
<1>4. CASE Begin("manual") \/ Begin("scheduled")
  <2>1. UNCHANGED <<last, stored>> /\ due' = Missing
    BY <1>4 DEF Begin, table
  <2> QED
    BY <2>1 DEF Dated, Missing
<1>5. CASE Finish \/ Crash
  BY <1>5 DEF Finish, Crash, Forget, Dated
<1>6. CASE ClockStep \/ MarksStep \/ UNCHANGED vars \/ SkipStart \/ SkipFinish
  <2>1. UNCHANGED <<last, stored, due, listed, pc>>
    BY <1>6 DEF ClockStep, MarksStep, Tick, Bookmark, Unbookmark, SkipStart, SkipFinish, vars, table, control
  <2> QED
    BY <1>1, <2>1
<1>7. CASE SourceStep
  <2>1. UNCHANGED <<last, stored, due>> /\ listed \subseteq listed' /\ pc # "idle"
    BY <1>7 DEF SourceStep, PickStale, SourceDone, SourceFails, List, table
  <2> QED
    BY <1>1, <2>1
<1>8. CASE SweepStart \/ SweepEnd \/ DedupStep \/ Fail
  <2>1. UNCHANGED <<last, stored, due, listed>> /\ pc # "idle"
    BY <1>8 DEF SweepStart, SweepEnd, Barrier, DedupStep, Clear, Mark, MarkEnd, Fail, table, control
  <2> QED
    BY <1>1, <2>1
<1> QED
  BY <1>2, <1>3, <1>4, <1>5, <1>6, <1>7, <1>8, NextSteps DEF RecordStep, SweepStep

-----------------------------------------------------------------------------
(* Duplicates.                                                              *)

\* A pair of likes is of two postings of two sources.
LEMMA LikesDiffer ==
  ASSUME TableOK, NEW p \in stored, NEW q \in stored, {p, q} \in alike
  PROVE  p # q /\ SourceOf[p] # SourceOf[q]
<1>1. {p, q} \in Pairs
  BY DEF TableOK
<1>2. Cardinality({p, q}) = 2
  BY <1>1, ScrapeAssumption
<1>3. p # q
  <2> SUFFICES ASSUME p = q PROVE FALSE
    OBVIOUS
  <2>1. Cardinality({p}) = 1
    BY FS_Singleton
  <2> QED
    BY <1>2, <2>1
<1> QED
  BY <1>1, <1>3, ScrapeAssumption

LEMMA PassKept ==
  ASSUME PassOK, UNCHANGED table, pc' = pc \/ pc' \notin {"mark", "finish"}
  PROVE  PassOK'
<1>1. UNCHANGED <<stored, before, first, dup, alike>>
  BY DEF table
<1>2. StarOfDuplicates'
  BY <1>1 DEF PassOK, StarOfDuplicates, Canonical, Earlier
<1>3. CASE pc' = pc
  <2>1. UNCHANGED Open
    BY <1>1 DEF Open, Canonical, Earlier
  <2> QED
    BY <1>1, <1>2, <1>3, <2>1 DEF PassOK, Passing, DedupExact, Canonical, Earlier
<1>4. CASE pc' \notin {"mark", "finish"}
  BY <1>2, <1>4 DEF PassOK, Passing, DedupExact
<1> QED
  BY <1>3, <1>4

\* A write of a posting that no one is hidden behind, or of one's texts only.
LEMMA WritePass ==
  ASSUME PassOK, ControlOK, TableOK, WriteStep
  PROVE  PassOK'
<1>1. PICK p \in Ids : Touch(p) \/ Insert(p) \/ Refresh(p)
  BY DEF WriteStep
<1>2. /\ pc' \in {"seen", "refresh"}
      /\ \/ UNCHANGED <<stored, before, first, dup>>
         \/ /\ p \notin stored /\ stored' = stored \cup {p} /\ before \subseteq before'
            /\ first' = [first EXCEPT ![p] = at] /\ dup' = [dup EXCEPT ![p] = p]
  BY <1>1 DEF Touch, Insert, Refresh, table, ControlOK
<1>3. StarOfDuplicates'
  <2>1. CASE UNCHANGED <<stored, before, first, dup>>
    BY <2>1 DEF PassOK, StarOfDuplicates, Canonical, Earlier
  <2>2. CASE /\ p \notin stored /\ stored' = stored \cup {p} /\ before \subseteq before'
             /\ first' = [first EXCEPT ![p] = at] /\ dup' = [dup EXCEPT ![p] = p]
    <3> SUFFICES ASSUME NEW q \in stored, dup'[q] # q
                 PROVE  /\ dup'[q] \in stored' /\ dup'[dup'[q]] = dup'[q]
                        /\ SourceOf[dup'[q]] # SourceOf[q] /\ Earlier(dup[q], q)'
      BY <2>2 DEF StarOfDuplicates, Canonical, TableOK
    <3>1. q \in Ids /\ q # p /\ dup'[q] = dup[q]
      BY <2>2 DEF TableOK
    <3>2. dup[q] \in stored /\ dup[dup[q]] = dup[q] /\ SourceOf[dup[q]] # SourceOf[q] /\ Earlier(dup[q], q)
      BY <3>1 DEF PassOK, StarOfDuplicates, Canonical
    <3>3. dup[q] \in Ids /\ dup[q] # p
      BY <2>2, <3>2 DEF TableOK
    <3>4. dup'[dup[q]] = dup[q] /\ first'[q] = first[q] /\ first'[dup[q]] = first[dup[q]]
      BY <2>2, <3>1, <3>2, <3>3 DEF TableOK
    <3> QED
      BY <2>2, <3>1, <3>2, <3>3, <3>4 DEF Earlier
  <2> QED
    BY <1>2, <2>1, <2>2
<1> QED
  BY <1>2, <1>3 DEF PassOK, Passing, DedupExact

LEMMA SweepPass ==
  ASSUME PassOK, TableOK, NEW s \in Sources, SweepSource(s)
  PROVE  PassOK'
<1> DEFINE D == Doomed(s)
<1>1. /\ pc' = "sweeping" /\ stored' = stored \ D
      /\ before' = {b \in before : b[1] \notin D /\ b[2] \notin D}
      /\ first' = [p \in Ids |-> IF p \in D THEN 0 ELSE first[p]]
      /\ dup' = [p \in Ids |-> IF p \in D \/ dup[p] \in D THEN p ELSE dup[p]]
  BY DEF SweepSource, Barrier, Delete
<1> HIDE DEF D
<1>2. StarOfDuplicates'
  <2> SUFFICES ASSUME NEW q \in stored \ D, dup'[q] # q
               PROVE  /\ dup'[q] \in stored' /\ dup'[dup'[q]] = dup'[q]
                      /\ SourceOf[dup'[q]] # SourceOf[q] /\ Earlier(dup[q], q)'
    BY <1>1 DEF StarOfDuplicates, Canonical
  <2>1. q \in Ids /\ dup'[q] = dup[q] /\ dup[q] \notin D
    BY <1>1 DEF TableOK
  <2>2. dup[q] \in stored /\ dup[dup[q]] = dup[q] /\ SourceOf[dup[q]] # SourceOf[q] /\ Earlier(dup[q], q)
    BY <2>1 DEF PassOK, StarOfDuplicates, Canonical
  <2>3. dup[q] \in Ids /\ dup'[dup[q]] = dup[q]
    BY <1>1, <2>1, <2>2 DEF TableOK
  <2>4. first'[q] = first[q] /\ first'[dup[q]] = first[dup[q]]
    BY <1>1, <2>1, <2>3
  <2>5. <<dup[q], q>> \in before => <<dup[q], q>> \in before'
    BY <1>1, <2>1
  <2> QED
    BY <1>1, <2>1, <2>2, <2>3, <2>4, <2>5 DEF Earlier
<1> QED
  BY <1>1, <1>2 DEF PassOK, Passing, DedupExact

LEMMA ClearPass ==
  ASSUME PassOK, TableOK, Clear
  PROVE  PassOK'
<1>1. pc' = "mark" /\ UNCHANGED stored /\ \A p \in stored : dup'[p] = p
  BY DEF Clear, TableOK
<1> QED
  BY <1>1 DEF PassOK, StarOfDuplicates, Passing, DedupExact

\* The order of the two loops keeps the stars: a posting that hides another comes
\* before every pair still open, so it is never hidden itself.
LEMMA MarkPass ==
  ASSUME PassOK, TableOK, Mark
  PROVE  PassOK'
<1>1. PICK p, q \in stored : NextPair(p, q) /\ dup' = [dup EXCEPT ![q] = p]
  BY DEF Mark
<1>2. pc = "mark" /\ pc' = "mark" /\ UNCHANGED <<stored, before, first, alike>>
  BY DEF Mark
<1>3. /\ <<p, q>> \in Open /\ p \in Canonical /\ q \in Canonical /\ {p, q} \in alike /\ Earlier(p, q)
      /\ \A o \in Open : ~Earlier(o[1], p)
  BY <1>1 DEF NextPair, Open
<1>4. p # q /\ SourceOf[p] # SourceOf[q]
  BY <1>3, LikesDiffer
<1>5. \A x \in stored : dup'[x] = IF x = q THEN p ELSE dup[x]
  BY <1>1 DEF TableOK
<1>6. \A x \in stored : dup[x] # x => dup[x] # q
  BY <1>2, <1>3 DEF PassOK, Passing
<1>7. Canonical' = Canonical \ {q}
  BY <1>2, <1>3, <1>4, <1>5 DEF Canonical
<1>8. Open' \subseteq Open
  BY <1>2, <1>7 DEF Open, Earlier
<1>9. \A x \in stored : dup[x] # x => dup[x] \in Canonical \ {q} /\ SourceOf[dup[x]] # SourceOf[x] /\ Earlier(dup[x], x)
  BY <1>6 DEF PassOK, StarOfDuplicates
<1>10. StarOfDuplicates'
  <2> SUFFICES ASSUME NEW x \in stored, dup'[x] # x
               PROVE  dup'[x] \in Canonical' /\ SourceOf[dup'[x]] # SourceOf[x] /\ Earlier(dup[x], x)'
    BY <1>2 DEF StarOfDuplicates
  <2>1. CASE x = q
    BY <1>2, <1>3, <1>4, <1>5, <1>7, <2>1 DEF Earlier
  <2>2. CASE x # q
    BY <1>2, <1>5, <1>7, <1>9, <2>2 DEF Earlier
  <2> QED
    BY <2>1, <2>2
<1>11. Passing'
  <2>1. \A x \in stored : dup'[x] # x => {x, dup'[x]} \in alike
    BY <1>2, <1>3, <1>5 DEF PassOK, Passing
  <2>2. ASSUME NEW x \in stored, dup'[x] # x, NEW o \in Open' PROVE ~Earlier(o[1], dup[x])'
    <3>1. o \in Open /\ ~Earlier(o[1], p)
      BY <1>3, <1>8
    <3>2. dup[x] # x => ~Earlier(o[1], dup[x])
      BY <1>2, <3>1 DEF PassOK, Passing
    <3>3. ~Earlier(o[1], dup'[x])
      BY <1>5, <2>2, <3>1, <3>2
    <3> QED
      BY <1>2, <3>3 DEF Earlier
  <2> QED
    BY <1>2, <2>1, <2>2 DEF Passing
<1> QED
  BY <1>2, <1>10, <1>11 DEF PassOK, DedupExact

\* The pass ends when no two that are shown agree, as any two of them are in order.
LEMMA MarkEndPass ==
  ASSUME PassOK, TableOK, MarkEnd
  PROVE  PassOK'
<1>1. pc = "mark" /\ Open = {} /\ pc' = "finish" /\ UNCHANGED <<stored, before, first, dup, alike>>
  BY DEF MarkEnd, table
<1>2. StarOfDuplicates'
  BY <1>1 DEF PassOK, StarOfDuplicates, Canonical, Earlier
<1>3. ASSUME NEW p \in Canonical, NEW q \in Canonical, {p, q} \in alike PROVE FALSE
  <2>1. p \in stored /\ q \in stored /\ p # q
    BY <1>3, LikesDiffer DEF Canonical
  <2>2. first[p] \in Int /\ first[q] \in Int
    BY <2>1 DEF TableOK
  <2>3. Earlier(p, q) \/ Earlier(q, p)
    BY <2>1, <2>2 DEF TableOK, Ordered, Earlier
  <2>4. {q, p} \in alike
    <3>1. {q, p} = {p, q}
      OBVIOUS
    <3> QED
      BY <1>3, <3>1
  <2>5. <<p, q>> \in Open \/ <<q, p>> \in Open
    BY <1>3, <2>3, <2>4 DEF Open
  <2> QED
    BY <1>1, <2>5
<1>4. DedupExact'
  BY <1>1, <1>3 DEF DedupExact, PassOK, Passing, Canonical
<1>5. Passing'
  BY <1>1 DEF PassOK, Passing
<1> QED
  BY <1>2, <1>4, <1>5 DEF PassOK

LEMMA PassNext ==
  ASSUME PassOK, ControlOK, TableOK, [Next]_vars
  PROVE  PassOK'
<1>1. CASE UNCHANGED table /\ (pc' = pc \/ pc' \notin {"mark", "finish"})
  BY <1>1, PassKept
<1>2. CASE WriteStep
  BY <1>2, WritePass
<1>3. CASE \E s \in Sources : SweepSource(s)
  BY <1>3, SweepPass
<1>4. CASE DedupStep
  BY <1>4, ClearPass, MarkPass, MarkEndPass DEF DedupStep
<1>5. CASE ClockStep \/ MarksStep \/ UNCHANGED vars
  <2>1. UNCHANGED table /\ pc' = pc
    BY <1>5 DEF ClockStep, MarksStep, Tick, Bookmark, Unbookmark, vars
  <2> QED
    BY <1>1, <2>1
<1>6. CASE RecordStep
  <2>1. UNCHANGED table /\ (pc' = pc \/ pc' \notin {"mark", "finish"})
    BY <1>6 DEF RecordStep, Begin, Finish, Forget, Crash, SkipStart, SkipFinish
  <2> QED
    BY <1>1, <2>1
<1>7. CASE SourceStep \/ SweepStart \/ SweepEnd \/ Fail
  <2>1. UNCHANGED table /\ pc' \notin {"mark", "finish"}
    BY <1>7 DEF SourceStep, PickStale, SourceDone, SourceFails, List, SweepStart, SweepEnd, Fail
  <2> QED
    BY <1>1, <2>1
<1> QED
  BY <1>2, <1>3, <1>4, <1>5, <1>6, <1>7, NextSteps DEF SweepStep

-----------------------------------------------------------------------------
(* The theorems.                                                            *)

LEMMA InitOK == Init => RecordOK /\ TableOK /\ ControlOK /\ SightOK /\ Dated /\ PassOK
<1> SUFFICES ASSUME Init PROVE RecordOK /\ TableOK /\ ControlOK /\ SightOK /\ Dated /\ PassOK
  OBVIOUS
<1>1. RecordOK
  BY ScrapeAssumption DEF Init, RecordOK, RunningTold
<1>2. TableOK
  BY ScrapeAssumption DEF Init, TableOK, Ordered, Zero
<1>3. ControlOK /\ Dated
  BY DEF Init, ControlOK, Shape, Places, NoBase, Dated
<1>4. SightOK
  BY DEF Init, SightOK, Sighted, Baselines
<1>5. PassOK
  BY DEF Init, PassOK, StarOfDuplicates, Passing, DedupExact
<1> QED
  BY <1>1, <1>2, <1>3, <1>4, <1>5

\* In every reachable state each place of a run knows of the table what its next
\* writes rest on.
THEOREM ScrapeInvariant == Spec => []IInv
<1>1. Init => IInv
  BY InitOK, Parts
<1>2. IInv /\ [Next]_vars => IInv'
  <2> SUFFICES ASSUME IInv, [Next]_vars PROVE IInv'
    OBVIOUS
  <2>1. RecordOK /\ TableOK /\ ControlOK /\ SightOK /\ Dated /\ PassOK
    BY Parts
  <2>2. RecordOK'
    BY <2>1, RecordNext
  <2>3. TableOK' /\ ControlOK' /\ SightOK' /\ Dated' /\ PassOK'
    BY <2>1, <2>2, TableNext, ControlNext, SightNext, DatedNext, PassNext
  <2>4. (IInv <=> RecordOK /\ TableOK /\ ControlOK /\ SightOK /\ Dated /\ PassOK)'
    BY Parts, PTL
  <2> QED
    BY <2>2, <2>3, <2>4
<1> QED
  BY <1>1, <1>2, PTL DEF Spec

\* A row of the history that says "running" is of the run there is, of the tick
\* being recorded, or one whose last write was lost (FinishScrapeRun).
THEOREM HistoryAlwaysTold == Spec => []HistoryTold
<1>1. IInv => HistoryTold
  BY DEF IInv, RunningTold, HistoryTold
<1> QED
  BY <1>1, ScrapeInvariant, PTL

\* Wherever a pass of markCrossPortalDuplicates or a sweep stopped, duplicates are
\* stars around a stored, earlier posting of another source, and a completed pass
\* hides exactly what agrees.
THEOREM DuplicatesAlwaysExact == Spec => []DuplicatesExact
<1>1. IInv => DuplicatesExact
  BY DEF IInv, DuplicatesExact
<1> QED
  BY <1>1, ScrapeInvariant, PTL

\* What the sweep removes is of a source that completed in this run, and too old, or
\* missing from its listing while another was seen well after it: one the run listed,
\* or it was due before the run; an empty listing removes nothing, whatever run failed,
\* crashed or stopped half way through its sweep before (SweepStalePostings).
THEOREM RemovedAlwaysWithCause == Spec => RemovedWithCause
<1> DEFINE Cause == \A p \in stored \ stored' :
                      /\ SourceOf[p] \in good
                      /\ \/ at - first[p] > OldWindow /\ p \notin AlwaysOpen
                         \/ /\ p \notin listed
                            /\ \E q \in stored : /\ SourceOf[q] = SourceOf[p] /\ last[q] - last[p] > StaleWindow
                                               /\ (q \in listed \/ p \in due)
<1>1. ASSUME IInv, [Next]_vars PROVE Cause
  <2>1. TableOK /\ ControlOK /\ SightOK /\ Dated
    BY <1>1, Parts
  <2>2. CASE stored \subseteq stored'
    BY <2>2
  <2>3. CASE \E s \in Sources : SweepSource(s)
    <3> PICK s \in Sources : SweepSource(s)
      BY <2>3
    <3>1. pc = "sweeping" /\ s \in src /\ stored' = stored \ Doomed(s)
      BY DEF SweepSource, Barrier, Delete
    <3>2. s \in good /\ at \in Nat /\ base[s] \in Nat /\ {StaleWindow, OldWindow} \subseteq Nat
      BY <2>1, <3>1, ScrapeAssumption DEF ControlOK, Shape
    <3>3. PICK q \in stored : SourceOf[q] = s /\ last[q] = base[s] /\ base[s] <= at
      BY <2>1, <3>1 DEF SightOK, Baselines
    <3>4. ASSUME NEW p \in stored \ stored'
          PROVE  /\ SourceOf[p] = s
                 /\ \/ at - first[p] > OldWindow /\ p \notin AlwaysOpen
                    \/ p \notin listed /\ last[q] - last[p] > StaleWindow /\ (q \in listed \/ p \in due)
      <4>1. /\ SourceOf[p] = s
            /\ \/ last[p] < base[s] - StaleWindow
               \/ first[p] < at - OldWindow /\ p \notin AlwaysOpen
        BY <3>1 DEF Doomed
      <4>2. first[p] \in Int /\ last[p] \in Int /\ p \in Ids
        BY <2>1 DEF TableOK
      <4>3. CASE last[p] < base[s] - StaleWindow
        <5>1. p \in listed => last[p] = at
          BY <2>1, <3>2, <4>1 DEF SightOK, Sighted
        <5>2. last[q] - last[p] > StaleWindow
          BY <3>2, <3>3, <4>2, <4>3
        <5>3. q \in listed \/ p \in due
          BY <2>1, <3>1, <3>3, <4>1, <5>2 DEF Dated
        <5> QED
          BY <3>2, <3>3, <4>1, <4>2, <4>3, <5>1, <5>2, <5>3
      <4>4. CASE first[p] < at - OldWindow /\ p \notin AlwaysOpen
        BY <3>2, <4>1, <4>2, <4>4
      <4> QED
        BY <4>1, <4>3, <4>4
    <3> QED
      BY <3>2, <3>3, <3>4
  <2>4. stored \subseteq stored' \/ \E s \in Sources : SweepSource(s)
    <3>1. CASE WriteStep
      BY <3>1, <2>1, WriteWrites DEF WriteStep, Writes
    <3>2. CASE SweepStep
      BY <3>2 DEF SweepStep, SweepStart, SweepEnd, table
    <3>3. CASE DedupStep
      BY <3>3 DEF DedupStep, Clear, Mark, MarkEnd, table
    <3>4. CASE ClockStep \/ MarksStep \/ RecordStep \/ SourceStep \/ Fail \/ UNCHANGED vars
      BY <3>4 DEF ClockStep, MarksStep, Tick, Bookmark, Unbookmark, RecordStep, Begin, Finish, Crash, SkipStart, SkipFinish,
                  SourceStep, PickStale, SourceDone, SourceFails, List, Fail, table, vars
    <3> QED
      BY <1>1, <3>1, <3>2, <3>3, <3>4, NextSteps
  <2> QED
    BY <2>2, <2>3, <2>4
<1>2. IInv /\ [Next]_vars => [Cause]_vars
  BY <1>1
<1> HIDE DEF Cause
<1>3. Spec => [][Cause]_vars
  BY <1>2, ScrapeInvariant, PTL DEF Spec
<1> QED
  BY <1>3 DEF Cause, RemovedWithCause

=============================================================================
