------------------------------- MODULE Scrape -------------------------------
(***************************************************************************)
(* A scrape run: the history row, every active source in turn (listing,    *)
(* seen postings, new postings, the oldest details), the sweep, and the    *)
(* marking of cross-portal duplicates (server.go collectPostings and       *)
(* runScrapeSource, dedup.go, scheduler.go, storage/postings.go,           *)
(* storage/scrape_runs.go).  Runs hold the operation gate; readers, the    *)
(* bookmark handlers and a scheduler tick that finds the gate taken act    *)
(* between any two of their steps, and the process may stop at any of      *)
(* them.  What the AI does with the collection is module AIRuns.           *)
(***************************************************************************)
EXTENDS Integers, FiniteSets, Sequences, SequencesExt, FiniteSetsExt

CONSTANTS
  Ids,          \* (source, source_posting_id) pairs
  SourceList,   \* the sources in the order they are scraped
  SourceOf,     \* [Ids -> Sources]
  AlwaysOpen,   \* postings whose source says they do not expire
  Pairs,        \* pairs of postings of two sources whose titles may come to agree
  NewCap,       \* scrapeNewCap
  RefreshCap,   \* detailRefreshCap
  MinAge,       \* detailRefreshMinAge
  StaleWindow,  \* sweepStaleWindow
  OldWindow,    \* sweepOldWindow
  MaxTime,      \* bound: clock ticks of a behaviour
  MaxRuns       \* bound: history rows of a behaviour

Sources == Range(SourceList)

ASSUME ScrapeAssumption ==
  /\ IsInjective(SourceList)
  /\ SourceOf \in [Ids -> Sources] /\ AlwaysOpen \subseteq Ids
  /\ \A a \in Pairs : /\ a \subseteq Ids /\ Cardinality(a) = 2
                      /\ \A p, q \in a : p # q => SourceOf[p] # SourceOf[q]
  /\ {NewCap, RefreshCap} \subseteq Nat \ {0}
  /\ {MinAge, StaleWindow, OldWindow, MaxTime, MaxRuns} \subseteq Nat

VARIABLES
  now,       \* the clock
  stored,    \* the postings that have a row
  before,    \* pairs of them, the one with the smaller row id first
  first, last, det,  \* first_seen_at, last_seen_at, detail_fetched_at
  dup,       \* duplicate_of; a posting itself when NULL
  alike,     \* AreDuplicates of the stored texts, as a set of pairs
  marks,     \* bookmarked postings
  hist,      \* scrape_runs: the status of every row
  lost,      \* (history) rows whose last write failed or never came
  pc,        \* where the run is; "idle" when the gate is free
  run,       \* its history row
  trigger,   \* "manual" or "scheduled"; "none" when there is no run
  at,        \* collection.now
  left,      \* active sources not scraped yet
  src,       \* sources: being scraped, or whose rows are being swept
  todo,      \* postings the current loop has not handled
  fresh,     \* new postings to fetch
  cands,     \* seen postings whose detail is old enough
  good,      \* sources that completed in this run
  base,      \* the sweep's per-source baselines
  listed,    \* (history) what the sources listed in this run
  due,       \* (history) postings the stale window was over for when it began
  skip,      \* the history row of a skipped scheduler tick
  passed     \* (history) scrapes that passed a stale detail over

table   == <<stored, before, first, last, det, dup, alike>>
control == <<run, trigger, at, left, src, todo, fresh, cands, good, base, listed, due>>
record  == <<hist, lost>>
vars    == <<now, table, marks, record, pc, control, skip, passed>>

Canonical == {p \in stored : dup[p] = p}
Least(a, b) == IF a <= b THEN a ELSE b
Zero    == [p \in Ids |-> 0]
NoBase  == [s \in Sources |-> 0]

Init ==
  /\ now = 0 /\ stored = {} /\ before = {} /\ first = Zero /\ last = Zero /\ det = Zero
  /\ dup = [p \in Ids |-> p] /\ alike = {} /\ marks = {}
  /\ hist = <<>> /\ lost = {} /\ skip = 0 /\ passed = Zero
  /\ pc = "idle" /\ run = 0 /\ trigger = "none" /\ at = 0 /\ left = {} /\ src = {} /\ todo = {}
  /\ fresh = {} /\ cands = {} /\ good = {} /\ base = NoBase /\ listed = {} /\ due = {}

Tick == /\ now < MaxTime /\ now' = now + 1
        /\ UNCHANGED <<table, marks, record, pc, control, skip, passed>>

-----------------------------------------------------------------------------
(* The run and its history row.                                            *)

\* Postings a sweep would find missing for longer than the stale window.
Missing == {p \in stored : \E q \in stored : SourceOf[q] = SourceOf[p] /\ last[q] - last[p] > StaleWindow}

\* handleScrapeSSE and runScheduledScrape: the gate, StartScrapeRun, then the
\* sources the profile enables; a scheduled run takes all.  The scheduler is
\* one goroutine: it starts no run while it records a skipped one.
Begin(by) ==
  /\ pc = "idle" /\ Len(hist) < MaxRuns
  /\ hist' = Append(hist, "running") /\ run' = Len(hist) + 1 /\ trigger' = by
  /\ \E on \in SUBSET Sources :
       /\ by = "scheduled" => on = Sources /\ skip = 0
       /\ left' = on
  /\ pc' = IF left' = {} THEN "none" ELSE "source"
  /\ at' = now /\ due' = Missing
  /\ UNCHANGED <<now, table, marks, lost, src, todo, fresh, cands, good, base, listed, skip, passed>>

\* What the run keeps in memory is gone when it ends.
Forget ==
  /\ pc' = "idle" /\ run' = 0 /\ trigger' = "none" /\ at' = 0 /\ left' = {} /\ src' = {} /\ todo' = {}
  /\ fresh' = {} /\ cands' = {} /\ good' = {} /\ base' = NoBase /\ listed' = {} /\ due' = {}

\* A bug for comparison with Settle: the row is found by being the newest.
Settle_Newest(r, status) ==
  \/ hist' = [hist EXCEPT ![Len(hist)] = status] /\ lost' = lost
  \/ hist' = hist /\ lost' = lost \cup {r}

\* FinishScrapeRun: the status is written, or the write fails and is not retried.
Settle(r, status) ==
  \/ hist' = [hist EXCEPT ![r] = status] /\ lost' = lost
  \/ hist' = hist /\ lost' = lost \cup {r}

Finish == /\ pc \in {"none", "finish", "failed"}
          /\ Settle(run, IF pc = "failed" THEN "failure" ELSE "success") /\ Forget
          /\ UNCHANGED <<now, table, marks, skip, passed>>

\* The process stops; the rows of the history stay.
Crash  == /\ run # 0 \/ skip # 0
          /\ Forget /\ skip' = 0 /\ lost' = lost \cup ({run, skip} \ {0})
          /\ UNCHANGED <<now, table, marks, hist, passed>>

\* The profile cannot be read, the run's context is done, the sweep, the pass or
\* the analysis after it meets an error, or anything panics, a source included:
\* the run is over, what it wrote stays, and of a sweep the sources it swept.
Fail == /\ pc \notin {"idle", "failed"} /\ pc' = "failed"
        /\ src' = {} /\ todo' = {} /\ fresh' = {} /\ cands' = {} /\ base' = NoBase
        /\ UNCHANGED <<now, table, marks, record, run, trigger, at, left, good, listed, due, skip, passed>>

\* recordSkippedScheduledRun: a tick that finds the gate taken, by a manual run
\* or by work that is no scrape, leaves a row of its own in two writes.
SkipStart  == /\ trigger # "scheduled" /\ skip = 0 /\ Len(hist) < MaxRuns
              /\ hist' = Append(hist, "running") /\ skip' = Len(hist) + 1
              /\ UNCHANGED <<now, table, marks, lost, pc, control, passed>>
SkipFinish == /\ skip # 0 /\ Settle(skip, "failure") /\ skip' = 0
              /\ UNCHANGED <<now, table, marks, pc, control, passed>>

-----------------------------------------------------------------------------
(* runScrapeSource.                                                        *)

\* A detail at least MinAge old is fetched again.
Stale(p) == det[p] < at - MinAge

\* The first of the sources that are left.
NextSource(s) ==
  \E i \in DOMAIN SourceList : SourceList[i] = s /\ s \in left /\ \A j \in 1 .. i - 1 : SourceList[j] \notin left

\* CheckAccess, FetchListing and SeenDetail: a listing is any subset of the
\* source's postings; at most NewCap of the unknown ones are fetched.
List(s) ==
  /\ pc = "source" /\ NextSource(s) /\ pc' = "seen" /\ left' = left \ {s} /\ src' = {s}
  /\ \E l \in SUBSET {p \in Ids : SourceOf[p] = s} :
       /\ listed' = listed \cup l /\ todo' = l \cap stored
       /\ cands' = {p \in todo' : Stale(p)}
       /\ fresh' \in kSubset(Least(NewCap, Cardinality(l \ stored)), l \ stored)
  /\ UNCHANGED <<now, table, marks, record, run, trigger, at, good, base, due, skip, passed>>

\* Other texts may come with a write of posting p.
Retext(p) == \E new \in SUBSET {a \in Pairs : p \in a} : alike' = {a \in alike : p \notin a} \cup new

\* UpsertPosting of a known posting.
Touch(p) == /\ pc = "seen" /\ p \in todo /\ todo' = todo \ {p}
            /\ last' = [last EXCEPT ![p] = at] /\ Retext(p)
            /\ UNCHANGED <<now, stored, before, first, det, dup, marks, record, pc, run, trigger, at, left,
                           src, fresh, cands, good, base, listed, due, skip, passed>>

\* FetchDetail and UpsertPosting of a new one; a failed fetch passes it over.
Insert(p) ==
  /\ pc = "seen" /\ todo = {} /\ p \in fresh /\ fresh' = fresh \ {p}
  /\ \/ UNCHANGED table
     \/ /\ stored' = stored \cup {p} /\ before' = before \cup (stored \X {p})
        /\ first' = [first EXCEPT ![p] = at] /\ last' = [last EXCEPT ![p] = at]
        /\ det' = [det EXCEPT ![p] = at] /\ dup' = [dup EXCEPT ![p] = p] /\ Retext(p)
  /\ UNCHANGED <<now, marks, record, pc, run, trigger, at, left, src, todo, cands, good, base,
                 listed, due, skip, passed>>

\* The RefreshCap candidates with the oldest details, ties broken either way.
Oldest(c) == /\ c \subseteq cands /\ Cardinality(c) = Least(RefreshCap, Cardinality(cands))
             /\ \A p \in c, q \in cands \ c : det[p] <= det[q]

PickStale ==
  /\ pc = "seen" /\ todo = {} /\ fresh = {} /\ pc' = "refresh"
  /\ \E c \in SUBSET cands : Oldest(c) /\ todo' = c
  /\ UNCHANGED <<now, table, marks, record, run, trigger, at, left, src, fresh, cands, good, base, listed, due,
                 skip, passed>>

\* FetchDetail and RefreshPostingDetail; a failed fetch leaves the detail's age.
Refresh(p) ==
  /\ pc = "refresh" /\ p \in todo /\ todo' = todo \ {p} /\ cands' = cands \ {p}
  /\ \/ /\ det' = [det EXCEPT ![p] = at] /\ last' = [last EXCEPT ![p] = at]
        /\ Retext(p)
        /\ passed' = [passed EXCEPT ![p] = 0]
     \/ UNCHANGED <<det, last, alike, passed>>
  /\ UNCHANGED <<now, stored, before, first, dup, marks, record, pc, run, trigger, at, left, src, fresh,
                 good, base, listed, due, skip>>

\* The source is done; what is left of its candidates was passed over.
SourceDone ==
  /\ pc = "refresh" /\ todo = {} /\ good' = good \cup src /\ src' = {} /\ cands' = {}
  /\ passed' = [p \in Ids |-> passed[p] + IF p \in cands THEN 1 ELSE 0]
  /\ pc' = IF left = {} THEN "sweep" ELSE "source"
  /\ UNCHANGED <<now, table, marks, record, run, trigger, at, left, todo, fresh, base, listed, due, skip>>

\* Any error of a source ends that source only.
SourceFails ==
  /\ pc \in {"seen", "refresh"} /\ src' = {} /\ todo' = {} /\ fresh' = {} /\ cands' = {}
  /\ pc' = IF left = {} THEN "sweep" ELSE "source"
  /\ UNCHANGED <<now, table, marks, record, run, trigger, at, left, good, base, listed, due, skip, passed>>

-----------------------------------------------------------------------------
(* SweepStalePostings, under the global view barrier from its baseline     *)
(* read to its last delete.                                                *)

Barrier == pc = "sweeping"

\* The baseline of a source is the newest sighting of any of its postings.
SweepStart ==
  /\ pc = "sweep" /\ pc' = "sweeping"
  /\ src' = {SourceOf[p] : p \in stored} \cap good
  /\ base' = [s \in Sources |-> IF s \in src' THEN Max({last[p] : p \in {q \in stored : SourceOf[q] = s}})
                                ELSE 0]
  /\ UNCHANGED <<now, table, marks, record, run, trigger, at, left, todo, fresh, cands, good, listed, due,
                 skip, passed>>

\* A bug for comparison with Doomed: the stale window is measured from now.
Doomed_FromNow(s) ==
  {p \in stored : /\ SourceOf[p] = s /\ p \notin marks
                  /\ \/ last[p] < at - StaleWindow
                     \/ first[p] < at - OldWindow /\ p \notin AlwaysOpen}

Doomed(s) ==
  {p \in stored : /\ SourceOf[p] = s /\ p \notin marks
                  /\ \/ last[p] < base[s] - StaleWindow
                     \/ first[p] < at - OldWindow /\ p \notin AlwaysOpen}

\* Deleting a posting cascades to its bookmarks and clears duplicate_of where
\* it was the canonical row.
Delete(D) ==
  /\ stored' = stored \ D /\ marks' = marks \ D
  /\ before' = {b \in before : b[1] \notin D /\ b[2] \notin D}
  /\ first' = [p \in Ids |-> IF p \in D THEN 0 ELSE first[p]]
  /\ last'  = [p \in Ids |-> IF p \in D THEN 0 ELSE last[p]]
  /\ det'   = [p \in Ids |-> IF p \in D THEN 0 ELSE det[p]]
  /\ dup'   = [p \in Ids |-> IF p \in D \/ dup[p] \in D THEN p ELSE dup[p]]
  /\ alike' = {a \in alike : a \cap D = {}}
  /\ passed' = [p \in Ids |-> IF p \in D THEN 0 ELSE passed[p]]

SweepSource(s) ==
  /\ Barrier /\ s \in src /\ src' = src \ {s} /\ Delete(Doomed(s))
  /\ UNCHANGED <<now, record, pc, run, trigger, at, left, todo, fresh, cands, good, base, listed, due, skip>>

SweepEnd ==
  /\ Barrier /\ src = {} /\ base' = NoBase /\ pc' = "clear"
  /\ UNCHANGED <<now, table, marks, record, run, trigger, at, left, src, todo, fresh, cands, good, listed, due, skip, passed>>

-----------------------------------------------------------------------------
(* markCrossPortalDuplicates.                                              *)

Clear ==
  /\ pc = "clear" /\ pc' = "mark" /\ dup' = [p \in Ids |-> p]
  /\ UNCHANGED <<now, stored, before, first, last, det, alike, marks, record, control, skip, passed>>

\* The order of the pass: first_seen_at, then row id.
Earlier(p, q) == first[p] < first[q] \/ (first[p] = first[q] /\ <<p, q>> \in before)

\* Pairs the two loops still have to mark: neither row is a duplicate yet.
Open == {pq \in Canonical \X Canonical : {pq[1], pq[2]} \in alike /\ Earlier(pq[1], pq[2])}

\* A bug for comparison with NextPair: a row already taken may be a canonical one.
NextPair_Chains(p, q) == {p, q} \in alike /\ Earlier(p, q) /\ q \in Canonical

\* The next pair: the earliest canonical, then the earliest of its likes.
NextPair(p, q) ==
  /\ <<p, q>> \in Open
  /\ \A o \in Open : /\ ~Earlier(o[1], p)
                     /\ o[1] = p => ~Earlier(o[2], q)

Mark ==
  /\ pc = "mark"
  /\ \E p, q \in stored : NextPair(p, q) /\ dup' = [dup EXCEPT ![q] = p]
  /\ UNCHANGED <<now, stored, before, first, last, det, alike, marks, record, pc, control, skip, passed>>

MarkEnd ==
  /\ pc = "mark" /\ Open = {} /\ pc' = "finish"
  /\ UNCHANGED <<now, table, marks, record, control, skip, passed>>

-----------------------------------------------------------------------------
(* handleBookmarkAdd and handleBookmarkRemove, each one write under the    *)
(* view barrier; a foreign key refuses a bookmark of a deleted posting.    *)

Bookmark(p)   == /\ ~Barrier /\ p \in stored \ marks /\ marks' = marks \cup {p}
                 /\ UNCHANGED <<now, table, record, pc, control, skip, passed>>
Unbookmark(p) == /\ ~Barrier /\ p \in marks /\ marks' = marks \ {p}
                 /\ UNCHANGED <<now, table, record, pc, control, skip, passed>>

-----------------------------------------------------------------------------
RunStep ==
  \/ PickStale \/ SourceDone \/ SourceFails \/ SweepStart \/ SweepEnd
  \/ Clear \/ Mark \/ MarkEnd \/ Fail \/ Finish
  \/ \E p \in Ids : Touch(p) \/ Insert(p) \/ Refresh(p)
  \/ \E s \in Sources : List(s) \/ SweepSource(s)

Next == Tick \/ Begin("manual") \/ Begin("scheduled") \/ RunStep \/ SkipStart \/ SkipFinish \/ Crash
        \/ \E p \in Ids : Bookmark(p) \/ Unbookmark(p)

Spec == Init /\ [][Next]_vars

-----------------------------------------------------------------------------
(* Properties.                                                             *)

TypeOK ==
  /\ now \in 0 .. MaxTime /\ at \in 0 .. now
  /\ stored \subseteq Ids /\ before \subseteq stored \X stored
  /\ {first, last, det} \subseteq [Ids -> 0 .. now] /\ dup \in [Ids -> Ids] /\ alike \subseteq Pairs
  /\ marks \subseteq stored
  /\ hist \in Seq({"running", "success", "failure"}) /\ Len(hist) <= MaxRuns
  /\ lost \subseteq DOMAIN hist /\ {run, skip} \subseteq {0} \cup DOMAIN hist
  /\ pc \in {"idle", "none", "source", "seen", "refresh", "sweep", "sweeping", "clear", "mark",
             "finish", "failed"}
  /\ trigger \in {"none", "manual", "scheduled"} /\ (trigger = "none") = (pc = "idle")
  /\ left \cup src \cup good \subseteq Sources /\ base \in [Sources -> 0 .. now]
  /\ todo \cup cands \subseteq stored /\ fresh \subseteq Ids \ stored /\ {listed, due} \subseteq SUBSET Ids

\* A posting leaves the table only in a run its source completed, and only
\* because it is old, or because its source did not list it and another of its
\* postings was seen well after it: one this run's listing showed, or the posting
\* was due when the run began.  A source that fails, or answers with an empty
\* listing, is no reason to remove anything, in whatever order runs failed,
\* crashed or stopped in the middle of a sweep before (postings.go: the baseline
\* is per source "so scraping one source heavily does not prematurely stale out
\* postings from a source scraped less often").
RemovedWithCause ==
  [][\A p \in stored \ stored' :
       /\ SourceOf[p] \in good
       /\ \/ at - first[p] > OldWindow /\ p \notin AlwaysOpen
          \/ /\ p \notin listed
             /\ \E q \in stored : /\ SourceOf[q] = SourceOf[p] /\ last[q] - last[p] > StaleWindow
                                /\ (q \in listed \/ p \in due)]_vars

\* Duplicates form stars around a stored, canonical, earlier posting of another
\* source, whatever a sweep deleted and wherever a pass stopped
\* (dedup.go: "a chain instead of a star").
StarOfDuplicates ==
  \A q \in stored : dup[q] # q =>
    /\ dup[q] \in Canonical /\ SourceOf[dup[q]] # SourceOf[q] /\ Earlier(dup[q], q)

\* A completed pass hides exactly what it should: every hidden posting agrees
\* with the one it is hidden behind, as the texts are now, and no two that are
\* shown agree.
DedupExact ==
  pc = "finish" =>
    /\ \A q \in stored : dup[q] # q => {q, dup[q]} \in alike
    /\ \A p, q \in Canonical : {p, q} \notin alike

\* The marks are right, in the middle of a pass and at its end.
DuplicatesExact == StarOfDuplicates /\ DedupExact

\* A row of the history that says "running" is of the run there is, of the
\* tick being recorded, or one whose last write was lost.
HistoryTold ==
  TypeOK /\ \A i \in DOMAIN hist : hist[i] = "running" => i \in {run, skip} \cup lost

\* What server.go says of the rotation: every posting's detail is rechecked
\* within a bounded number of scrapes, here as many as the others need.
DocumentedRotation ==
  \A p \in stored :
    passed[p] * RefreshCap <= Cardinality({q \in Ids : SourceOf[q] = SourceOf[p]}) - 1
=============================================================================
