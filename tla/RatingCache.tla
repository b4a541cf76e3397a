----------------------------- MODULE RatingCache -----------------------------
(***************************************************************************)
(* The readings of one posting for one account (ai_scores.go,              *)
(* ai_score_outcomes.go) and what a page shows of them                     *)
(* (score_projection.go).  A reading is kept under the goal text and the   *)
(* provider, model and prompt it was made with, the version, and dated when *)
(* the run that made it began.  The account, whose AI is configured,       *)
(* changes both at any time, also while a call it started is under way;    *)
(* two writers may be about to write, the one that began first last.       *)
(***************************************************************************)
EXTENDS Integers, FiniteSets

CONSTANTS
  Raters,      \* writers of results
  Goals,
  RatingVersions,
  RatingKeys,  \* the goals and versions, in pairs, the account asks for
  Results,     \* outcomes of calls in the instance
  MaxRatings,  \* bound: results written
  MaxDates     \* bound: dates of runs

ASSUME RatingAssumption ==
  /\ IsFiniteSet(Raters) /\ RatingKeys \subseteq Goals \X RatingVersions /\ RatingKeys # {} /\ {MaxRatings, MaxDates} \subseteq Nat
  /\ Results \subseteq {"rated", "no_signal", "rejected", "failed"}

VARIABLES
  settings,  \* [goal, version]: what the account asks for now
  readings,  \* ai_scores: [goal, version, at]
  outcome,   \* ai_score_outcomes: of each goal and version, "none" without a row
  ratings,   \* results written
  today,     \* the date: the newest a run began at
  rowLock,   \* the holders of SELECT ... FOR UPDATE on the posting
  rater,     \* each writer: [at, goal, version, date, state]
  made       \* (history) of each goal and version: the date of its last result,
             \* and which result that was

ratingVars == <<settings, readings, outcome, ratings, today, rowLock, rater, made>>

Success    == Results \cap {"rated", "no_signal"}
Failure    == Results \cap {"rejected", "failed"}
KeyOf(r)   == <<r.goal, r.version>>
Cache(k)   == {r \in readings : KeyOf(r) = k}
Ask(k)     == [goal |-> k[1], version |-> k[2]]
By(q, at, date, state) == [goal |-> q.goal, version |-> q.version, at |-> at, date |-> date, state |-> state]
NoRater    == By(Ask(CHOOSE k \in RatingKeys : TRUE), "idle", 0, "none")
NotMade    == [date |-> 0, nth |-> 0]

RatingInit ==
  /\ settings \in {Ask(k) : k \in RatingKeys}
  /\ readings = {} /\ outcome = [k \in RatingKeys |-> "none"] /\ ratings = 0 /\ today = 0
  /\ rowLock = {} /\ rater = [w \in Raters |-> NoRater] /\ made = [k \in RatingKeys |-> NotMade]

-----------------------------------------------------------------------------
(* The writers.                                                            *)

\* rateStage2: a run fixes the goal, the version and its date for all it will
\* write; two runs may find the same date.
StartRun(w) ==
  /\ rater[w].at = "idle"
  /\ today' \in {today, today + 1} \cap (1 .. MaxDates)
  /\ rater' = [rater EXCEPT ![w] = By(settings, "asked", today', "none")]
  /\ UNCHANGED <<settings, readings, outcome, ratings, rowLock, made>>

\* reratePosting: the question has no reading yet, and the call comes back.
Rated(w, state) ==
  /\ rater[w].at = "asked"
  /\ Cache(KeyOf(rater[w])) = {}
  /\ rater' = [rater EXCEPT ![w] = By(rater[w], "begin", rater[w].date, state)]
  /\ UNCHANGED <<settings, readings, outcome, ratings, today, rowLock, made>>

\* A bug for comparison with LockPosting: a failure is written without the row lock.
LockPosting_OnlyScores(w) ==
  /\ rater[w].at = "begin" /\ (rater[w].state \in Success => rowLock = {})
  /\ rowLock' = IF rater[w].state \in Success THEN {w} ELSE rowLock
  /\ rater' = [rater EXCEPT ![w].at = IF rater[w].state \in Success THEN "score" ELSE "check"]
  /\ UNCHANGED <<settings, readings, outcome, ratings, today, made>>
LockPosting(w) ==
  /\ rater[w].at = "begin" /\ rowLock = {} /\ rowLock' = {w}
  /\ rater' = [rater EXCEPT ![w].at = IF rater[w].state \in Success THEN "score" ELSE "check"]
  /\ UNCHANGED <<settings, readings, outcome, ratings, today, made>>

\* The readings with the latest date: one, unless runs share it.
Newest(rows) == {r \in rows : \A q \in rows : q.at <= r.at}
Others(rows, v) == {r \in rows : r.version # v}

\* A bug for comparison with Pruned: only rows of the version just written are kept.
Pruned_All(rows, v) == {rows \ Others(rows, v)}
\* What may be left: all rows of the version, and a newest one of the others.
Pruned(rows, v) ==
  IF Others(rows, v) = {} THEN {rows} ELSE {(rows \ Others(rows, v)) \cup {r} : r \in Newest(Others(rows, v))}

Done(w) == /\ rater' = [rater EXCEPT ![w] = NoRater] /\ rowLock' = rowLock \ {w}
           /\ UNCHANGED <<settings, today>>

\* UpsertAIResult: score, pruning and provenance in one transaction.
WriteScore(w) ==
  LET k   == KeyOf(rater[w])
      new == [goal |-> rater[w].goal, version |-> rater[w].version, at |-> rater[w].date]
  IN  /\ rater[w].at = "score" /\ ratings < MaxRatings /\ ratings' = ratings + 1
      /\ readings' \in Pruned((readings \ Cache(k)) \cup {new}, new.version)
      /\ outcome' = [outcome EXCEPT ![k] = rater[w].state]
      /\ made' = [made EXCEPT ![k] = [date |-> rater[w].date, nth |-> ratings + 1]]
      /\ Done(w)

\* UpsertAIScoreFailure: refused when the cache has an exact hit.
CheckCache(w) ==
  /\ rater[w].at = "check"
  /\ IF Cache(KeyOf(rater[w])) # {} THEN Done(w)
     ELSE rater' = [rater EXCEPT ![w].at = "outcome"] /\ UNCHANGED <<settings, today, rowLock>>
  /\ UNCHANGED <<readings, outcome, ratings, made>>
WriteFailure(w) ==
  /\ rater[w].at = "outcome"
  /\ outcome' = [outcome EXCEPT ![KeyOf(rater[w])] = rater[w].state]
  /\ Done(w) /\ UNCHANGED <<readings, ratings, made>>

\* The question has a reading by now; or a statement fails or the process stops
\* and the transaction rolls back.
RatingLost(w) ==
  /\ rater[w].at # "idle" /\ Done(w) /\ UNCHANGED <<readings, outcome, ratings, made>>

\* The account edits its goal, or changes its provider or model.
ChangeSettings(k) ==
  /\ settings' = Ask(k)
  /\ UNCHANGED <<readings, outcome, ratings, today, rowLock, rater, made>>

RatingNext ==
  \/ \E w \in Raters : \/ StartRun(w) \/ \E s \in Results : Rated(w, s)
                       \/ LockPosting(w) \/ WriteScore(w)
                       \/ CheckCache(w) \/ WriteFailure(w) \/ RatingLost(w)
  \/ \E k \in RatingKeys : ChangeSettings(k)

RatingSpec == RatingInit /\ [][RatingNext]_ratingVars

-----------------------------------------------------------------------------
(* What a page shows.                                                      *)

Fresh    == Cache(KeyOf(settings))
Latest   == Newest({r \in readings : r.version = settings.version})
AnyOther == Newest(readings)

\* composeStoredScore: the readings a page may merge.
Composed == IF Fresh # {} THEN Fresh ELSE IF Latest # {} THEN Latest ELSE AnyOther

-----------------------------------------------------------------------------
(* Properties.                                                             *)

RaterTypes == [goal : Goals, version : RatingVersions, date : 0 .. MaxDates, state : {"none"} \cup Results,
               at : {"idle", "asked", "begin", "score", "check", "outcome"}]
RatingTypeOK ==
  /\ settings \in [goal : Goals, version : RatingVersions] /\ KeyOf(settings) \in RatingKeys
  /\ rater \in [Raters -> RaterTypes]
  /\ readings \subseteq [goal : Goals, version : RatingVersions, at : 1 .. MaxDates]
  /\ outcome \in [RatingKeys -> {"none"} \cup Results] /\ ratings \in 0 .. MaxRatings /\ today \in 0 .. MaxDates
  /\ rowLock \subseteq Raters /\ (\A w, x \in rowLock : w = x)
  /\ made \in [RatingKeys -> [date : 0 .. MaxDates, nth : 0 .. MaxRatings]]

\* The question whose result is the newest of its version by date and the last
\* one written: none, if an older result of the version came back after it.
LatestOf(v) == {k \in RatingKeys : /\ k[2] = v /\ made[k].nth > 0
                                   /\ \A q \in RatingKeys : q[2] = v => /\ made[q].date <= made[k].date
                                                                       /\ made[q].nth <= made[k].nth}
\* The versions with a result that was written after the one of k, or is of a run
\* that began no earlier.
Rivals(k) == {q[2] : q \in {x \in RatingKeys : /\ x[2] # k[2] /\ made[x].nth > 0
                                              /\ (made[x].nth > made[k].nth \/ made[x].date >= made[k].date)}}

\* A reading outlives a change of provider or model and the change back
\* (ai_scores.go "Pruning it would make a provider round-trip silently lose the
\* old reading"): the latest reading of a version is kept until two other versions
\* have results that came after it, by date or by writing, whatever the account
\* switched to, and whichever results came back late with the date of an earlier
\* run; and an account whose posting was ever rated is shown a reading.
ReadingsSurvive ==
  /\ RatingTypeOK
  /\ \A v \in RatingVersions : \A k \in LatestOf(v) :
       (\A u, x \in Rivals(k) : u = x) => \E r \in readings : r.version = v /\ r.at = made[k].date
  /\ ratings > 0 => Composed # {}

\* A failure is told only of a question that has no reading, however it raced with
\* a success for the same question (ai_score_outcomes.go "A concurrent successful
\* transaction must not be overwritten by a failure's older view").
FailureAlone == \A k \in RatingKeys : outcome[k] \in Failure => Cache(k) = {}

\* Whatever the account switches to and whatever comes back late, the cache keeps
\* the readings it promises to keep and tells no failure that contradicts them
\* (upsertAIScore, UpsertAIScoreFailure).
ReadingsExact == ReadingsSurvive /\ FailureAlone
=============================================================================
