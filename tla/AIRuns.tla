------------------------------- MODULE AIRuns -------------------------------
(***************************************************************************)
(* The AI spending of one user's runs: the pressed re-rate (rerate.go,     *)
(* runRerate) and the analysis at the end of a scrape (server.go,          *)
(* collectPostings and analyzeUserCollection).  Runs follow one another:   *)
(* every one holds the operation gate (module SingleFlight) from start to  *)
(* end.  A run extracts eligibility facts on the sponsor's budget (Stage   *)
(* 1A), checks dealbreaker contexts (Stage 1B) and rates the visible       *)
(* postings through a worker pool (Stage 2) on the user's budget.  Every   *)
(* database call and every provider call may fail, and the process may     *)
(* stop between any two steps.                                             *)
(***************************************************************************)
EXTENDS Integers, FiniteSets

CONSTANTS
  Postings,    \* the stored postings
  Candidates,  \* those with a dealbreaker phrase to check in context
  Users,       \* the accounts with a credential and a ledger
  Legacy,      \* postings whose reading was cached before outcomes were recorded
  User,        \* the user whose runs are modelled
  Sponsor,     \* the user who pays for Stage 1A
  Workers,     \* rerateWorkers: width of the Stage 2 pool
  Tokens,      \* the possible usage of one provider call
  RunCap, DailyCap, MonthlyCap, PerCallCap,
  Days,        \* days of the month a behaviour lasts
  MaxBlind,    \* bound: ledger reads that fail when a budget opens
  MaxUnrecorded \* bound: ledger writes that fail

ASSUME AIRunsAssumption ==
  /\ Candidates \subseteq Postings /\ Legacy \subseteq Postings /\ User \in Users /\ Sponsor \in Users
  /\ IsFiniteSet(Postings)
  /\ Workers \in Nat \ {0} /\ Tokens \subseteq Nat /\ Days \in Nat \ {0}
  /\ \E t \in Tokens : \A q \in Tokens : q <= t
  /\ {RunCap, DailyCap, MonthlyCap, PerCallCap, MaxBlind, MaxUnrecorded} \subseteq Nat

VARIABLES
  day,        \* the current UTC day
  ledger,     \* ai_usage: tokens of each user on each day (durable)
  unrecorded, \* calls whose usage never reached the ledger
  extracted,  \* ai_extractions for the posting's current text (durable)
  validated,  \* ai_dealbreaker_validations for all its candidates (durable)
  row,        \* ai_scores at the user's goal and version: "none", "items", "empty" (durable)
  outcome,    \* ai_score_outcomes at the same key (durable)
  merged,     \* the reading the stored score of each posting was composed from (durable)
  phase,      \* where the run is; "idle" when the gate is free
  kind,       \* "rerate", or a scrape with fresh AI allowed or not
  todo,       \* postings the sequential phase has not examined
  budget,     \* "user" and "sponsor" |-> the aiBudget opened for this run
  calls,      \* callCap.n
  known,      \* the outcomes rateStage2 read before it started its workers
  visible,    \* the rows Stage 2 is asked to rate
  wpc,        \* each posting's worker
  reply,      \* what the provider answered it: usage and verdict
  result,     \* what it sent to the results channel
  verdict,    \* the terminal event
  called,     \* provider calls made on the user's key in this run
  blind       \* budgets opened without the ledger

durable == <<ledger, unrecorded, extracted, validated, row, outcome, merged>>
pool    == <<known, visible, wpc, reply, result>>
vars    == <<day, durable, phase, kind, todo, budget, calls, pool, verdict, called, blind>>

Kinds    == {"rerate", "fresh", "cached"}
Replies  == {"error", "nothing", "rejected", "rated"}
Outcomes == {"none", "rated", "no_signal", "rejected", "failed"}
Results  == {"none", "skipped", "cached", "unknown", "unread", "unsaved"} \cup (Outcomes \ {"none"})
Busy     == {"lookup", "spend", "reserve", "call", "ledger", "write"}

-----------------------------------------------------------------------------
(* aiBudget and callCap.                                                   *)

Closed == [open |-> FALSE, day |-> 1, dayStart |-> 0, monthStart |-> 0,
           spent |-> 0, calls |-> 0, degraded |-> FALSE]

MonthTotal(u) ==
  LET sum[d \in 0 .. Days] == IF d = 0 THEN 0 ELSE sum[d - 1] + ledger[u][d]
  IN  sum[Days]

\* newAIBudget: the ledger as it is now; a failed read counts as zero.
Opened(dayStart, monthStart) ==
  [open |-> TRUE, day |-> day, dayStart |-> dayStart, monthStart |-> monthStart,
   spent |-> 0, calls |-> 0, degraded |-> FALSE]
Reads(u) == {[blind |-> 0, new |-> Opened(ledger[u][day], MonthTotal(u))]}
            \cup IF blind < MaxBlind THEN {[blind |-> 1, new |-> Opened(0, 0)]} ELSE {}

\* A bug for comparison with CanSpend: the earlier days of the month are forgotten.
CanSpend_ForgetsMonth(b) == b.spent < RunCap /\ b.dayStart + b.spent < DailyCap /\ b.spent < MonthlyCap

\* canSpend, apart from marking the run degraded when it says no.
CanSpend(b) == /\ b.spent < RunCap
               /\ b.dayStart + b.spent < DailyCap
               /\ b.monthStart + b.spent < MonthlyCap

\* debit: the run's counter, then the ledger row of the day the run began;
\* the ledger write may fail and is not retried.
Spend(who, t) == budget' = [budget EXCEPT ![who].spent = @ + t]
Owner(who)    == IF who = "user" THEN User ELSE Sponsor
Record(who, t) == [ledger EXCEPT ![Owner(who)][budget[who].day] = @ + t]
LedgerWrite(who, t) ==
  \/ ledger' = Record(who, t) /\ UNCHANGED unrecorded
  \/ unrecorded < MaxUnrecorded /\ unrecorded' = unrecorded + 1 /\ UNCHANGED ledger

-----------------------------------------------------------------------------
(* Starting and ending a run.                                              *)

NoReply == [used |-> 0, verdict |-> "none"]

Each(v) == [p \in Postings |-> v]

Init ==
  /\ day = 1 /\ unrecorded = 0 /\ ledger = [u \in Users |-> [d \in 1 .. Days |-> 0]]
  /\ extracted = {} /\ validated = {}
  /\ row = [p \in Postings |-> IF p \in Legacy THEN "items" ELSE "none"]
  /\ outcome = Each("none") /\ merged = row
  /\ phase = "idle" /\ kind = "rerate" /\ todo = {}
  /\ budget = [who \in {"user", "sponsor"} |-> Closed]
  /\ known = Each("none") /\ visible = {} /\ wpc = Each("off")
  /\ reply = Each(NoReply) /\ result = Each("none")
  /\ calls = 0 /\ verdict = "none" /\ called = 0 /\ blind = 0

\* handleRerateSSE and the head of runRerate: both budgets open before Stage
\* 1A spends anything.
StartRerate ==
  /\ phase = "idle" /\ phase' = "extract" /\ kind' = "rerate" /\ todo' = Postings
  /\ \E b \in Reads(User), s \in Reads(Sponsor) :
       /\ blind + b.blind + s.blind <= MaxBlind
       /\ blind' = blind + b.blind + s.blind
       /\ budget' = [user |-> b.new, sponsor |-> s.new]
  /\ UNCHANGED <<day, durable, calls, pool, verdict, called>>

\* collectPostings: the fetched texts replace the stored ones, so what was
\* derived from the old text is no longer found; the sponsor is resolved at
\* the first miss.
StartScrape ==
  /\ phase = "idle" /\ phase' = "extract" /\ kind' \in {"fresh", "cached"}
  /\ \E new \in SUBSET Postings :
       /\ todo' = new /\ extracted' = extracted \ new /\ validated' = validated \ new
  /\ UNCHANGED <<day, ledger, unrecorded, row, outcome, merged, budget, calls, pool, verdict,
                 called, blind>>

ResolveSponsor ==
  /\ phase = "extract" /\ ~budget["sponsor"].open /\ todo \ extracted # {}
  /\ \E s \in Reads(Sponsor) : /\ budget' = [budget EXCEPT !["sponsor"] = s.new]
                               /\ blind' = blind + s.blind
  /\ UNCHANGED <<day, durable, phase, kind, todo, calls, pool, verdict, called>>

\* The run forgets everything it kept in memory and gives the gate back.
Forget ==
  /\ phase' = "idle" /\ kind' = "rerate" /\ todo' = {}
  /\ budget' = [who \in {"user", "sponsor"} |-> Closed]
  /\ known' = Each("none") /\ visible' = {} /\ wpc' = Each("off")
  /\ reply' = Each(NoReply) /\ result' = Each("none")
  /\ calls' = 0 /\ verdict' = "none" /\ called' = 0
  /\ UNCHANGED <<day, durable, blind>>

Release == phase = "told" /\ Forget
Crash   == phase # "idle" /\ Forget

Tell(v) == phase' = "told" /\ verdict' = v

\* A saved profile with another goal looks up other rows; a goal that was
\* never rated finds none.
EditGoal ==
  /\ phase = "idle"
  /\ row' = Each("none") /\ outcome' = Each("none") /\ merged' = Each("none")
  /\ UNCHANGED <<day, ledger, unrecorded, extracted, validated, phase, kind,
                 todo, budget, calls, pool, verdict, called, blind>>

NewDay == /\ day < Days /\ day' = day + 1
          /\ UNCHANGED <<durable, phase, kind, todo, budget, calls, pool, verdict, called, blind>>

-----------------------------------------------------------------------------
(* Stage 1A and Stage 1B, one posting at a time.                           *)

Examine(ph, p) == phase = ph /\ p \in todo /\ todo' = todo \ {p}

\* extractStage1 without a call: a cached extraction, a failed cache read, no
\* sponsor, or the sponsor's budget or call cap is used up.
ExtractSkip(p) ==
  LET s == budget["sponsor"]
      refused == s.open /\ ~(CanSpend(s) /\ s.calls < PerCallCap)
  IN
  /\ Examine("extract", p)
  /\ budget' = IF p \notin extracted /\ refused
               THEN [budget EXCEPT !["sponsor"].degraded = TRUE] ELSE budget
  /\ UNCHANGED <<day, durable, phase, kind, calls, pool, verdict, called, blind>>

\* extractStage1 with a call: the usage is debited whatever the answer is worth;
\* the extraction is stored if it parses and its write succeeds.
Extract(p) ==
  /\ Examine("extract", p) /\ p \notin extracted
  /\ LET s == budget["sponsor"] IN s.open /\ CanSpend(s) /\ s.calls < PerCallCap
  /\ \E t \in Tokens :
       /\ budget' = [budget EXCEPT !["sponsor"].spent = @ + t, !["sponsor"].calls = @ + 1]
       /\ LedgerWrite("sponsor", t)
  /\ extracted' \in {extracted, extracted \cup {p}}
  /\ UNCHANGED <<day, validated, row, outcome, merged, phase, kind, calls, pool, verdict, called, blind>>

\* runRerate goes on with every stored posting.  A scrape sweeps, marks
\* duplicates and only then opens the user's budget.
StartContext ==
  /\ phase = "extract" /\ todo = {} /\ phase' = "context"
  /\ IF kind = "rerate"
       THEN todo' = Candidates \ validated /\ UNCHANGED <<budget, blind>>
       ELSE /\ todo' \in IF kind = "fresh" THEN SUBSET (Candidates \ validated) ELSE {{}}
            /\ \E b \in Reads(User) : /\ budget' = [budget EXCEPT !["user"] = b.new]
                                      /\ blind' = blind + b.blind
  /\ UNCHANGED <<day, durable, kind, calls, pool, verdict, called>>

\* validateDealbreakers without a call.
ContextSkip(p) ==
  /\ Examine("context", p)
  /\ \/ /\ ~CanSpend(budget["user"])
        /\ budget' = [budget EXCEPT !["user"].degraded = TRUE]
     \/ CanSpend(budget["user"]) /\ calls >= PerCallCap /\ UNCHANGED budget
  /\ UNCHANGED <<day, durable, phase, kind, calls, pool, verdict, called, blind>>

\* validateDealbreakers with a call; a write that fails ends the phase.
Context(p) ==
  /\ phase = "context" /\ p \in todo
  /\ CanSpend(budget["user"]) /\ calls < PerCallCap
  /\ calls' = calls + 1 /\ called' = called + 1
  /\ \E t \in Tokens : Spend("user", t) /\ LedgerWrite("user", t)
  /\ \/ validated' = validated \cup {p} /\ todo' = todo \ {p}
     \/ UNCHANGED validated /\ todo' \in {todo \ {p}, {}}
  /\ UNCHANGED <<day, extracted, row, outcome, merged, phase, kind, pool, verdict, blind>>

\* scoreAll and the choice of the visible rows; any of the reads and writes
\* may fail, which ends a run.  A run without fresh AI has nothing more to do.
Merge ==
  /\ phase = "context" /\ todo = {}
  /\ \/ Tell("failed") /\ UNCHANGED <<merged, visible, known>>
     \/ /\ merged' = row /\ kind = "cached" /\ Tell("done") /\ UNCHANGED <<visible, known>>
     \/ /\ merged' = row /\ kind # "cached"
        /\ visible' \in SUBSET Postings
        /\ IF visible' = {} THEN Tell("done") /\ UNCHANGED known
           ELSE /\ phase' = "rate" /\ UNCHANGED verdict
                /\ known' = [p \in Postings |->
                     IF outcome[p] \in {"rated", "no_signal"} /\ row[p] = "none"
                     THEN "none" ELSE outcome[p]]
  /\ UNCHANGED <<day, ledger, unrecorded, extracted, validated, row, outcome, kind,
                 todo, budget, calls, wpc, reply, result, called, blind>>

-----------------------------------------------------------------------------
(* The Stage 2 pool: rateStage2 and reratePosting.                         *)

At(p, a) == phase = "rate" /\ wpc[p] = a
Goto(p, b) == wpc' = [wpc EXCEPT ![p] = b]
Send(p, r) == Goto(p, "sent") /\ result' = [result EXCEPT ![p] = r]

\* An automatic pass leaves rejected rows to the next press.
Spawn(p) ==
  /\ phase = "rate" /\ p \in visible /\ wpc[p] = "off"
  /\ IF kind = "fresh" /\ known[p] = "rejected" THEN Send(p, "skipped")
     ELSE Goto(p, "wait") /\ UNCHANGED result
  /\ UNCHANGED <<day, durable, phase, kind, todo, budget, calls, known, visible, reply,
                 verdict, called, blind>>

\* The semaphore of rateStage2.
Admit(p) ==
  /\ At(p, "wait") /\ Cardinality({q \in Postings : wpc[q] \in Busy}) < Workers
  /\ Goto(p, "lookup")
  /\ UNCHANGED <<day, durable, phase, kind, todo, budget, calls, known, visible, reply, result,
                 verdict, called, blind>>

\* A bug for comparison with Lookup: the cache is not consulted.
Lookup_Skipped(p) ==
  /\ At(p, "lookup") /\ Goto(p, "spend") /\ UNCHANGED result
  /\ UNCHANGED <<day, durable, phase, kind, todo, budget, calls, known, visible, reply,
                 verdict, called, blind>>

\* The score cache first: a hit is free, and counts as analyzed when the
\* outcome read before agrees with it.
Lookup(p) ==
  /\ At(p, "lookup")
  /\ \/ Send(p, "unread")
     \/ /\ row[p] # "none"
        /\ Send(p, IF <<known[p], row[p]>> \in {<<"rated", "items">>, <<"no_signal", "empty">>}
                   THEN "cached" ELSE "unknown")
     \/ row[p] = "none" /\ Goto(p, "spend") /\ UNCHANGED result
  /\ UNCHANGED <<day, durable, phase, kind, todo, budget, calls, known, visible, reply,
                 verdict, called, blind>>

\* A bug for comparison with CheckBudget: a worker without budget ends without a result.
CheckBudget_Silent(p) ==
  /\ At(p, "spend") /\ UNCHANGED result
  /\ IF CanSpend(budget["user"]) THEN Goto(p, "reserve") /\ UNCHANGED budget
     ELSE Goto(p, "off") /\ budget' = [budget EXCEPT !["user"].degraded = TRUE]
  /\ UNCHANGED <<day, durable, phase, kind, todo, calls, known, visible, reply,
                 verdict, called, blind>>

CheckBudget(p) ==
  /\ At(p, "spend")
  /\ IF CanSpend(budget["user"]) THEN Goto(p, "reserve") /\ UNCHANGED <<result, budget>>
     ELSE Send(p, "skipped") /\ budget' = [budget EXCEPT !["user"].degraded = TRUE]
  /\ UNCHANGED <<day, durable, phase, kind, todo, calls, known, visible, reply,
                 verdict, called, blind>>

\* A bug for comparison with Reserve: the slot is checked here and taken when the call returns.
Reserve_Late(p) ==
  /\ At(p, "reserve")
  /\ IF calls >= PerCallCap THEN Send(p, "skipped") ELSE Goto(p, "call") /\ UNCHANGED result
  /\ calls' = Cardinality({q \in Postings : wpc[q] \in {"ledger", "write"}})
  /\ UNCHANGED <<day, durable, phase, kind, todo, budget, known, visible, reply,
                 verdict, called, blind>>
\* callCap.tryReserve.
Reserve(p) ==
  /\ At(p, "reserve")
  /\ IF calls >= PerCallCap THEN Send(p, "skipped") /\ UNCHANGED calls
     ELSE Goto(p, "call") /\ calls' = calls + 1 /\ UNCHANGED result
  /\ UNCHANGED <<day, durable, phase, kind, todo, budget, known, visible, reply,
                 verdict, called, blind>>

\* ScoreDelta answers and the run's counter is debited, for errors too.
Call(p) ==
  /\ At(p, "call") /\ Goto(p, "ledger") /\ called' = called + 1
  /\ \E t \in Tokens, v \in Replies :
       /\ reply' = [reply EXCEPT ![p] = [used |-> t, verdict |-> v]]
       /\ Spend("user", t)
  /\ UNCHANGED <<day, durable, phase, kind, todo, calls, known, visible, result, verdict, blind>>

\* AddAIUsage, outside the budget's lock.
WriteLedger(p) ==
  /\ At(p, "ledger") /\ LedgerWrite("user", reply[p].used) /\ Goto(p, "write")
  /\ UNCHANGED <<day, extracted, validated, row, outcome, merged, phase, kind,
                 todo, budget, calls, known, visible, reply, result, verdict, called, blind>>

\* UpsertAIResult stores the row with its outcome in one transaction;
\* UpsertAIScoreFailure stores an outcome only, and only where no row is.
Stored(p) ==
  LET v == reply[p].verdict IN
  CASE v = "rated"    -> /\ row' = [row EXCEPT ![p] = "items"]
                         /\ outcome' = [outcome EXCEPT ![p] = "rated"] /\ Send(p, "rated")
    [] v = "nothing"  -> /\ row' = [row EXCEPT ![p] = "empty"]
                         /\ outcome' = [outcome EXCEPT ![p] = "no_signal"] /\ Send(p, "no_signal")
    [] v = "rejected" -> /\ row[p] = "none" /\ UNCHANGED row
                         /\ outcome' = [outcome EXCEPT ![p] = "rejected"] /\ Send(p, "rejected")
    [] v = "error"    -> /\ row[p] = "none" /\ UNCHANGED row
                         /\ outcome' = [outcome EXCEPT ![p] = "failed"] /\ Send(p, "failed")

\* A bug for comparison with WriteResult: a write that failed is reported as the reply was.
WriteResult_Trusts(p) ==
  /\ At(p, "write")
  /\ \/ Stored(p)
     \/ /\ UNCHANGED <<row, outcome>>
        /\ Send(p, IF reply[p].verdict = "rated" THEN "rated" ELSE "unsaved")
  /\ reply' = [reply EXCEPT ![p] = NoReply]
  /\ UNCHANGED <<day, ledger, unrecorded, extracted, validated, merged, phase, kind,
                 todo, budget, calls, known, visible, verdict, called, blind>>

WriteResult(p) ==
  /\ At(p, "write")
  /\ Stored(p) \/ (UNCHANGED <<row, outcome>> /\ Send(p, "unsaved"))
  /\ reply' = [reply EXCEPT ![p] = NoReply]
  /\ UNCHANGED <<day, ledger, unrecorded, extracted, validated, merged, phase, kind,
                 todo, budget, calls, known, visible, verdict, called, blind>>

-----------------------------------------------------------------------------
(* The results channel closes when every worker is done.                   *)

Success         == {"cached", "rated", "no_signal"}
ProviderCalled  == {"unsaved", "failed", "rejected", "rated", "no_signal"}
Sent(R)         == {p \in visible : result[p] \in R}
Analyzed        == Cardinality(Sent(Success))
Processed       == Cardinality(Sent({"cached", "unknown"} \cup ProviderCalled))
LimitBlocked    == Processed < Cardinality(visible)
StorageFailed   == Sent({"unread", "unsaved"}) # {}
ProviderFailed  == Sent({"failed"}) # {}

Collected == phase = "rate" /\ \A p \in visible : wpc[p] = "sent"

\* A bug for comparison with FinishRerate: a storage error is forgotten behind other results.
FinishRerate_HidesStorage ==
  /\ Collected /\ kind = "rerate"
  /\ \/ Tell("failed") /\ merged' \in {merged, row}
     \/ /\ merged' = row
        /\ Tell(IF Analyzed = 0 /\ ProviderFailed THEN "failed" ELSE "done")
  /\ UNCHANGED <<day, ledger, unrecorded, extracted, validated, row, outcome, kind,
                 todo, budget, calls, pool, called, blind>>
\* The end of runRerate.  A storage failure is reported before the scores are
\* merged; a run in which every call failed reports that after.
FinishRerate ==
  /\ Collected /\ kind = "rerate"
  /\ \/ Tell("failed") /\ UNCHANGED merged
     \/ /\ ~StorageFailed /\ merged' = row
        /\ Tell(IF Analyzed = 0 /\ ProviderFailed THEN "failed" ELSE "done")
  /\ UNCHANGED <<day, ledger, unrecorded, extracted, validated, row, outcome, kind,
                 todo, budget, calls, pool, called, blind>>

\* The end of analyzeUserCollection: the merge is tried when something was
\* rated, and a failure is a warning on a finished run.
FinishScrape ==
  /\ Collected /\ kind = "fresh" /\ Tell("done")
  /\ merged' \in IF Analyzed > 0 THEN {merged, row} ELSE {merged}
  /\ UNCHANGED <<day, ledger, unrecorded, extracted, validated, row, outcome, kind,
                 todo, budget, calls, pool, called, blind>>

-----------------------------------------------------------------------------
Step(p) ==
  \/ ExtractSkip(p) \/ Extract(p) \/ ContextSkip(p) \/ Context(p)
  \/ Spawn(p) \/ Admit(p) \/ Lookup(p) \/ CheckBudget(p) \/ Reserve(p) \/ Call(p)
  \/ WriteLedger(p) \/ WriteResult(p)

RunStep == \/ ResolveSponsor \/ StartContext \/ Merge \/ FinishRerate \/ FinishScrape \/ Release
           \/ \E p \in Postings : Step(p)

Next == StartRerate \/ StartScrape \/ RunStep \/ Crash \/ EditGoal \/ NewDay

Spec == Init /\ [][Next]_vars

\* The goroutines of a run are scheduled, and every provider and database call
\* returns: the run's context has a deadline.
LiveSpec == Spec /\ WF_vars(ResolveSponsor \/ StartContext \/ Merge \/ FinishRerate
                            \/ FinishScrape \/ Release)
                 /\ \A p \in Postings : WF_vars(Step(p))

-----------------------------------------------------------------------------
(* Properties.                                                             *)

Budgets == [open : BOOLEAN, day : 1 .. Days, dayStart : Nat, monthStart : Nat,
            spent : Nat, calls : Nat, degraded : BOOLEAN]

\* Every variable has its type: no worker runs outside the rating phase, and
\* a reply is held exactly between the provider's answer and its write.
TypeOK ==
  /\ day \in 1 .. Days /\ ledger \in [Users -> [1 .. Days -> Nat]]
  /\ extracted \subseteq Postings /\ validated \subseteq Postings
  /\ row \in [Postings -> {"none", "items", "empty"}] /\ outcome \in [Postings -> Outcomes]
  /\ merged \in [Postings -> {"none", "items", "empty"}]
  /\ phase \in {"idle", "extract", "context", "rate", "told"} /\ kind \in Kinds
  /\ todo \subseteq Postings /\ budget \in [{"user", "sponsor"} -> Budgets]
  /\ calls \in Nat /\ called \in Nat /\ blind \in 0 .. MaxBlind /\ unrecorded \in 0 .. MaxUnrecorded
  /\ known \in [Postings -> Outcomes] /\ visible \subseteq Postings
  /\ wpc \in [Postings -> Busy \cup {"off", "wait", "sent"}] /\ result \in [Postings -> Results]
  /\ reply \in [Postings -> [used : Tokens, verdict : Replies] \cup {NoReply}]
  /\ \A p \in Postings : reply[p] # NoReply <=> wpc[p] \in {"ledger", "write"}
  /\ verdict \in {"none", "done", "failed"}

\* rerate.go callCap: Stage 1B and the workers of Stage 2 together call the
\* user's provider at most PerCallCap times in one run.
CallCapHolds == called <= PerCallCap

MaxTokens == CHOOSE t \in Tokens : \A q \in Tokens : q <= t
Overshoot == Workers * MaxTokens

\* server.go aiBudget: "workers that pass canSpend before an in-flight call
\* debits can collectively exceed the cap by at most (pool size) calls": a
\* run ends less than that over its own cap, and Stage 1A, which has no pool,
\* less than one call over the sponsor's.
RunCapHolds ==
  RunCap > 0 => /\ budget["user"].spent < RunCap + Overshoot
                /\ budget["sponsor"].spent < RunCap + MaxTokens

\* server.go aiBudget: the daily cap holds across runs, crashes and midnights
\* but for the same overshoot, when the user is not the sponsor and the ledger
\* could be read whenever a budget was opened.
DailyCapHolds ==
  blind = 0 /\ DailyCap > 0
    => \A u \in Users, d \in 1 .. Days : ledger[u][d] < DailyCap + Overshoot

\* server.go aiBudget: so does the monthly cap, over all days of the month.
MonthlyCapHolds ==
  blind = 0 /\ MonthlyCap > 0 => \A u \in Users : MonthTotal(u) < MonthlyCap + Overshoot

\* The caps together.
CapsHold == TypeOK /\ CallCapHolds /\ RunCapHolds /\ DailyCapHolds /\ MonthlyCapHolds

\* What the comments of server.go aiBudget promise of the daily cap whoever the
\* sponsor is: at most pool-size calls over.
DocumentedDailyCap ==
  blind = 0 => \A u \in Users, d \in 1 .. Days : ledger[u][d] <= DailyCap + Overshoot

\* rerate.go runRerate: a posting without a reading is never blamed on a limit
\* unless the call cap or a token cap really stopped the run.
LimitBlamedRightly ==
  phase = "told" /\ kind = "rerate" /\ verdict = "done" /\ LimitBlocked
    => calls >= PerCallCap \/ budget["user"].degraded

\* rerate.go reratePosting: every row counted as analyzed in the terminal
\* message has its reading and its provenance in the database.
AnalyzedIsDurable ==
  \A p \in Sent(Success) : row[p] # "none" /\ outcome[p] \in {"rated", "no_signal"}

\* rerate.go runRerate ("the chips the user just paid for"): a re-rate that
\* says done has merged every reading it stored into the stored scores.
PaidReadingsMerged ==
  phase = "told" /\ kind = "rerate" /\ verdict = "done" => merged = row

\* ai_score_outcomes.go: provenance and reading never disagree; a failure is
\* never recorded over a stored reading.
ProvenanceAgrees ==
  \A p \in Postings : /\ outcome[p] = "rated" => row[p] = "items"
                      /\ outcome[p] = "no_signal" => row[p] = "empty"
                      /\ outcome[p] \in {"rejected", "failed"} => row[p] = "none"

\* What a run says of readings, to its user or in the database, is what is stored.
ReadingsKept == AnalyzedIsDurable /\ PaidReadingsMerged /\ ProvenanceAgrees

Calls(p) == wpc[p] = "call" /\ wpc'[p] = "ledger"

\* rerate.go ("a reconnect resumes from cache with no double-spend"): the
\* provider is never asked about a posting whose reading is stored, across
\* crashes and repeated presses too; and an automatic pass never pays for a row
\* whose last reply was rejected (rateStage2).
NoDoubleSpend ==
  [][\A p \in Postings :
       Calls(p) => row[p] = "none" /\ (kind = "fresh" => outcome[p] # "rejected")]_vars

\* rerate.go handleRerateSSE ("a terminal event fires on EVERY exit path"):
\* every run ends and gives the gate back.
RunsEnd == phase # "idle" ~> phase = "idle"

=============================================================================
