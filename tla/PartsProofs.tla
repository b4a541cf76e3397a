----------------------------- MODULE PartsProofs -----------------------------
(***************************************************************************)
(* Theorems of three parts that MCParts runs: RatingCache, Migrations and  *)
(* LegacyImport, what the database keeps and who may change it, each for   *)
(* every value of its constants.  The parts share no variable, so each is  *)
(* a section with an invariant of its own.                                 *)
(***************************************************************************)
EXTENDS RatingCache, Migrations, LegacyImport, FiniteSetTheorems, WellFoundedInduction, TLAPS

-----------------------------------------------------------------------------
(* A set of numbers has a least one.                                      *)

LEMMA LeastNumber ==
  ASSUME NEW N \in SUBSET Nat, N # {}
  PROVE  \E n \in N : \A m \in N : n <= m
<1> DEFINE Less == {ss \in Nat \X Nat : ss[1] < ss[2]}
<1>1. IsWellFoundedOn(Less, Nat)
  BY NatLessThanWellFounded DEF OpToRel
<1> HIDE DEF Less
<1>2. PICK n \in N : \A m \in N : ~ (<<m, n>> \in Less)
  BY <1>1, WFMin
<1>3. \A a, b \in Nat : a < b => <<a, b>> \in Less
  BY DEF Less
<1>4. n \in Nat /\ \A m \in N : m \in Nat /\ ~ (m < n)
  BY <1>2, <1>3
<1> QED
  BY <1>4

-----------------------------------------------------------------------------
(* RatingCache.  What the runs check is not inductive; what makes it so is *)
(* whose turn the row lock says it is (LockHeld, Underway) and that every  *)
(* reading carries the date of its question's last result (Dated).         *)

\* Keys of the readings and of the writers' questions are ones the account asks.
KeysAsked ==
  /\ \A r \in readings : KeyOf(r) \in RatingKeys
  /\ \A w \in Raters : KeyOf(rater[w]) \in RatingKeys
\* The posting's row is locked by the writer that is past its first statement.
LockHeld == \A w \in Raters : w \in rowLock <=> rater[w].at \in {"score", "check", "outcome"}
\* A writer has the date of its run, does what its result calls for, and has
\* looked when it says so.
Underway ==
  \A w \in Raters :
    /\ rater[w].at # "idle" => rater[w].date \in 1 .. MaxDates
    /\ rater[w].at \in {"begin", "score", "check", "outcome"} => rater[w].state \in Success \cup Failure
    /\ rater[w].at = "score" => rater[w].state \in Success
    /\ rater[w].at = "outcome" => Cache(KeyOf(rater[w])) = {}
\* A reading has the date of the last result for its question.
Dated ==
  /\ \A r \in readings : r.at = made[KeyOf(r)].date /\ made[KeyOf(r)].nth > 0
  /\ \A k \in RatingKeys : made[k].nth <= ratings
  /\ ratings > 0 => readings # {}

Lonely(S) == \A u, x \in S : u = x
\* The second conjunct of ReadingsSurvive.
NewestKept ==
  \A v \in RatingVersions : \A k \in LatestOf(v) :
    Lonely(Rivals(k)) => \E r \in readings : r.version = v /\ r.at = made[k].date

RatingIInv == RatingTypeOK /\ KeysAsked /\ LockHeld /\ Underway /\ FailureAlone /\ Dated /\ NewestKept

-----------------------------------------------------------------------------
(* Facts about questions, and about the rows that pruning leaves.          *)

LEMMA KeysArePairs ==
  ASSUME NEW k \in RatingKeys
  PROVE  /\ k[1] \in Goals /\ k[2] \in RatingVersions /\ KeyOf(Ask(k)) = k
         /\ Ask(k) \in [goal : Goals, version : RatingVersions]
  BY RatingAssumption DEF KeyOf, Ask

LEMMA OutcomesDiffer == Success \cap Failure = {} /\ "none" \notin Success \cup Failure
                        /\ Success \cup Failure = Results
  BY RatingAssumption DEF Success, Failure

LEMMA IdleTyped == NoRater \in RaterTypes /\ NoRater.at = "idle" /\ KeyOf(NoRater) \in RatingKeys
<1> DEFINE k == CHOOSE q \in RatingKeys : TRUE
<1>1. k \in RatingKeys
  BY RatingAssumption
<1> QED
  BY <1>1, KeysArePairs, RatingAssumption DEF NoRater, By, Ask, KeyOf, RaterTypes

\* The rows of the version just written stay, and so does one of the newest others.
LEMMA PrunedRows ==
  ASSUME NEW rows, NEW v, NEW kept \in Pruned(rows, v)
  PROVE  /\ kept \subseteq rows
         /\ \A r \in rows : r.version = v => r \in kept
         /\ Others(rows, v) # {} => \E r \in kept : r \in Newest(Others(rows, v))
  BY DEF Pruned, Others, Newest

-----------------------------------------------------------------------------
(* The invariant.                                                          *)

LEMMA RatingInitInv == RatingInit => RatingIInv
<1> SUFFICES ASSUME RatingInit PROVE RatingIInv
  OBVIOUS
<1>1. PICK k \in RatingKeys : settings = Ask(k)
  BY DEF RatingInit
<1>2. RatingTypeOK
  <2>1. settings \in [goal : Goals, version : RatingVersions] /\ KeyOf(settings) \in RatingKeys
    BY <1>1, KeysArePairs
  <2>2. rater \in [Raters -> RaterTypes]
    BY IdleTyped DEF RatingInit
  <2>3. NotMade \in [date : 0 .. MaxDates, nth : 0 .. MaxRatings] /\ 0 \in 0 .. MaxRatings /\ 0 \in 0 .. MaxDates
    BY RatingAssumption DEF NotMade
  <2>4. readings = {} /\ rowLock = {} /\ outcome \in [RatingKeys -> {"none"} \cup Results]
    BY DEF RatingInit
  <2>5. ratings \in 0 .. MaxRatings /\ today \in 0 .. MaxDates
        /\ made \in [RatingKeys -> [date : 0 .. MaxDates, nth : 0 .. MaxRatings]]
    BY <2>3 DEF RatingInit
  <2> QED
    BY <2>1, <2>2, <2>4, <2>5 DEF RatingTypeOK
<1>3. KeysAsked /\ LockHeld /\ Underway
  BY IdleTyped DEF RatingInit, KeysAsked, LockHeld, Underway
<1>4. FailureAlone
  BY DEF RatingInit, FailureAlone, Cache
<1>5. Dated
  BY DEF RatingInit, Dated, NotMade
<1>6. NewestKept
  BY DEF RatingInit, NewestKept, LatestOf, NotMade
<1> QED
  BY <1>2, <1>3, <1>4, <1>5, <1>6 DEF RatingIInv

\* The steps that write no result keep what is said of results.
LEMMA SameReadings ==
  ASSUME Dated, NewestKept, UNCHANGED <<readings, ratings, made>>
  PROVE  Dated' /\ NewestKept'
<1>1. (\A v : LatestOf(v)' = LatestOf(v)) /\ (\A k : Rivals(k)' = Rivals(k))
  BY DEF LatestOf, Rivals
<1>2. NewestKept'
  BY <1>1 DEF NewestKept
<1> QED
  BY <1>2 DEF Dated

LEMMA StartRunInv ==
  ASSUME RatingIInv, NEW w \in Raters, StartRun(w)
  PROVE  RatingIInv'
<1> USE DEF RatingIInv
<1> DEFINE asked == By(settings, "asked", today', "none")
<1>1. /\ today' \in 1 .. MaxDates /\ rater' = [rater EXCEPT ![w] = asked] /\ rater[w].at = "idle"
      /\ UNCHANGED <<settings, readings, outcome, ratings, rowLock, made>>
  BY DEF StartRun
<1>2. /\ asked \in RaterTypes /\ KeyOf(asked) = KeyOf(settings) /\ asked.at = "asked" /\ asked.date = today'
  BY <1>1, RatingAssumption DEF By, RatingTypeOK, RaterTypes, KeyOf
<1> HIDE DEF asked
<1>3. \A x \in Raters : rater'[x] = IF x = w THEN asked ELSE rater[x]
  BY <1>1 DEF RatingTypeOK
<1>4. RatingTypeOK'
  <2>1. rater' \in [Raters -> RaterTypes] /\ today' \in 0 .. MaxDates
    BY <1>1, <1>2, RatingAssumption DEF RatingTypeOK
  <2> QED
    BY <1>1, <2>1 DEF RatingTypeOK, KeyOf
<1>5. KeysAsked'
  BY <1>1, <1>2, <1>3 DEF KeysAsked, RatingTypeOK, KeyOf
<1>6. LockHeld'
  BY <1>1, <1>2, <1>3 DEF LockHeld
<1>7. Underway'
  BY <1>1, <1>2, <1>3 DEF Underway, Cache, KeyOf
<1>8. FailureAlone' /\ Dated' /\ NewestKept'
  BY <1>1, SameReadings DEF FailureAlone, Cache
<1> QED
  BY <1>4, <1>5, <1>6, <1>7, <1>8

LEMMA RatedInv ==
  ASSUME RatingIInv, NEW w \in Raters, NEW s \in Results, Rated(w, s)
  PROVE  RatingIInv'
<1> USE DEF RatingIInv
<1> DEFINE back == By(rater[w], "begin", rater[w].date, s)
<1>1. /\ rater' = [rater EXCEPT ![w] = back] /\ rater[w].at = "asked"
      /\ UNCHANGED <<settings, readings, outcome, ratings, today, rowLock, made>>
  BY DEF Rated
<1>2. /\ back \in RaterTypes /\ KeyOf(back) = KeyOf(rater[w]) /\ back.at = "begin"
      /\ back.date = rater[w].date /\ back.state = s
  BY DEF By, RatingTypeOK, RaterTypes, KeyOf
<1> HIDE DEF back
<1>3. \A x \in Raters : rater'[x] = IF x = w THEN back ELSE rater[x]
  BY <1>1 DEF RatingTypeOK
<1>4. RatingTypeOK'
  <2>1. rater' \in [Raters -> RaterTypes]
    BY <1>1, <1>2 DEF RatingTypeOK
  <2> QED
    BY <1>1, <2>1 DEF RatingTypeOK, KeyOf
<1>5. KeysAsked'
  BY <1>1, <1>2, <1>3 DEF KeysAsked, KeyOf
<1>6. LockHeld'
  BY <1>1, <1>2, <1>3 DEF LockHeld
<1>7. Underway'
  BY <1>1, <1>2, <1>3, OutcomesDiffer DEF Underway, Cache, KeyOf
<1>8. FailureAlone' /\ Dated' /\ NewestKept'
  BY <1>1, SameReadings DEF FailureAlone, Cache
<1> QED
  BY <1>4, <1>5, <1>6, <1>7, <1>8

LEMMA LockPostingInv ==
  ASSUME RatingIInv, NEW w \in Raters, LockPosting(w)
  PROVE  RatingIInv'
<1> USE DEF RatingIInv
<1> DEFINE next == IF rater[w].state \in Success THEN "score" ELSE "check"
<1>1. /\ rater' = [rater EXCEPT ![w].at = next] /\ rater[w].at = "begin" /\ rowLock = {} /\ rowLock' = {w}
      /\ UNCHANGED <<settings, readings, outcome, ratings, today, made>>
  BY DEF LockPosting
<1>2. /\ \A x \in Raters : x # w => rater'[x] = rater[x]
      /\ rater'[w] = [rater[w] EXCEPT !.at = next] /\ rater[w] \in RaterTypes
  BY <1>1 DEF RatingTypeOK
<1>3. /\ rater'[w] \in RaterTypes /\ rater'[w].at = next /\ KeyOf(rater'[w]) = KeyOf(rater[w])
      /\ rater'[w].date = rater[w].date /\ rater'[w].state = rater[w].state
  BY <1>2 DEF RaterTypes, KeyOf
<1>4. RatingTypeOK'
  <2>1. rater' \in [Raters -> RaterTypes]
    BY <1>1, <1>2, <1>3 DEF RatingTypeOK
  <2> QED
    BY <1>1, <2>1 DEF RatingTypeOK, KeyOf
<1>5. KeysAsked'
  BY <1>1, <1>2, <1>3 DEF KeysAsked, KeyOf
<1>6. LockHeld'
  BY <1>1, <1>2, <1>3 DEF LockHeld
<1>7. Underway'
  BY <1>1, <1>2, <1>3, OutcomesDiffer DEF Underway, Cache, KeyOf
<1>8. FailureAlone' /\ Dated' /\ NewestKept'
  BY <1>1, SameReadings DEF FailureAlone, Cache
<1> QED
  BY <1>4, <1>5, <1>6, <1>7, <1>8

\* A writer that is done leaves the row to the others and what they know as it is.
LEMMA DoneKeeps ==
  ASSUME RatingTypeOK, KeysAsked, LockHeld, NEW w \in Raters, rater[w].at # "idle", Done(w)
  PROVE  /\ rowLock' \subseteq Raters /\ (\A x, y \in rowLock' : x = y)
         /\ rater' \in [Raters -> RaterTypes] /\ settings' = settings /\ today' = today
         /\ \A x \in Raters : KeyOf(rater[x])' \in RatingKeys
         /\ LockHeld'
         /\ \A x \in Raters : rater'[x] = rater[x] \/ rater'[x].at = "idle"
<1>1. \A x \in Raters : rater'[x] = IF x = w THEN NoRater ELSE rater[x]
  BY DEF Done, RatingTypeOK
<1>2. \A x \in Raters : KeyOf(rater[x])' \in RatingKeys
  BY <1>1, IdleTyped DEF KeysAsked, KeyOf
<1>3. LockHeld'
  BY <1>1, IdleTyped DEF Done, LockHeld
<1>4. rater' \in [Raters -> RaterTypes]
  BY IdleTyped DEF Done, RatingTypeOK
<1> QED
  BY <1>1, <1>2, <1>3, <1>4, IdleTyped DEF Done, RatingTypeOK

\* The steps that write no result and end with Done.
LEMMA DoneInv ==
  ASSUME RatingIInv, NEW w \in Raters, rater[w].at # "idle", Done(w), UNCHANGED <<readings, ratings, made>>,
         outcome' \in [RatingKeys -> {"none"} \cup Results], FailureAlone'
  PROVE  RatingIInv'
<1> USE DEF RatingIInv
<1>1. RatingTypeOK'
  BY DoneKeeps DEF RatingTypeOK, KeyOf
<1>2. KeysAsked' /\ LockHeld'
  BY DoneKeeps DEF KeysAsked, KeyOf
<1>3. Underway'
  BY DoneKeeps DEF Underway, Cache, KeyOf
<1>4. Dated' /\ NewestKept'
  BY SameReadings
<1> QED
  BY <1>1, <1>2, <1>3, <1>4

LEMMA CheckCacheInv ==
  ASSUME RatingIInv, NEW w \in Raters, CheckCache(w)
  PROVE  RatingIInv'
<1> USE DEF RatingIInv
<1>1. FailureAlone' /\ UNCHANGED <<readings, outcome, ratings, made>> /\ rater[w].at = "check"
  BY DEF CheckCache, FailureAlone, Cache
<1>2. CASE Cache(KeyOf(rater[w])) # {}
  BY <1>1, <1>2, DoneInv DEF CheckCache, RatingTypeOK
<1>3. CASE Cache(KeyOf(rater[w])) = {}
  <2>1. rater' = [rater EXCEPT ![w].at = "outcome"] /\ UNCHANGED <<settings, today, rowLock>>
    BY <1>3 DEF CheckCache
  <2>2. /\ \A x \in Raters : x # w => rater'[x] = rater[x]
        /\ rater'[w] = [rater[w] EXCEPT !.at = "outcome"] /\ rater[w] \in RaterTypes
    BY <2>1 DEF RatingTypeOK
  <2>3. /\ rater'[w] \in RaterTypes /\ rater'[w].at = "outcome" /\ KeyOf(rater'[w]) = KeyOf(rater[w])
        /\ rater'[w].date = rater[w].date /\ rater'[w].state = rater[w].state
    BY <2>2 DEF RaterTypes, KeyOf
  <2>4. RatingTypeOK'
    <3>1. rater' \in [Raters -> RaterTypes]
      BY <2>1, <2>2, <2>3 DEF RatingTypeOK
    <3> QED
      BY <1>1, <2>1, <3>1 DEF RatingTypeOK, KeyOf
  <2>5. KeysAsked' /\ LockHeld'
    BY <1>1, <2>1, <2>2, <2>3 DEF KeysAsked, LockHeld, KeyOf
  <2>6. Underway'
    <3>1. \A x \in Raters : Cache(KeyOf(rater[x]))' = Cache(KeyOf(rater[x]))
      <4> SUFFICES ASSUME NEW x \in Raters PROVE Cache(KeyOf(rater[x]))' = Cache(KeyOf(rater[x]))
        OBVIOUS
      <4>1. KeyOf(rater[x])' = KeyOf(rater[x])
        BY <2>2, <2>3 DEF KeyOf
      <4> QED
        BY <1>1, <4>1 DEF Cache, KeyOf
    <3>2. \A x \in Raters : x # w => rater'[x] = rater[x]
      BY <2>2
    <3> QED
      BY <1>1, <1>3, <2>3, <3>1, <3>2 DEF Underway
  <2> QED
    BY <1>1, <2>4, <2>5, <2>6, SameReadings
<1> QED
  BY <1>2, <1>3

LEMMA WriteFailureInv ==
  ASSUME RatingIInv, NEW w \in Raters, WriteFailure(w)
  PROVE  RatingIInv'
<1> USE DEF RatingIInv
<1>1. Done(w) /\ rater[w].at = "outcome" /\ KeyOf(rater[w]) \in RatingKeys /\ Cache(KeyOf(rater[w])) = {}
      /\ outcome' = [outcome EXCEPT ![KeyOf(rater[w])] = rater[w].state]
      /\ UNCHANGED <<readings, ratings, made>>
  BY DEF WriteFailure, KeysAsked, Underway
<1>2. FailureAlone'
  BY <1>1 DEF FailureAlone, Cache, RatingTypeOK
<1>3. outcome' \in [RatingKeys -> {"none"} \cup Results]
  BY <1>1 DEF RatingTypeOK, RaterTypes
<1> QED
  BY <1>1, <1>2, <1>3, DoneInv

LEMMA RatingLostInv ==
  ASSUME RatingIInv, NEW w \in Raters, RatingLost(w)
  PROVE  RatingIInv'
<1>1. FailureAlone' /\ outcome' \in [RatingKeys -> {"none"} \cup Results]
  BY DEF RatingLost, RatingIInv, RatingTypeOK, FailureAlone, Cache
<1> QED
  BY <1>1, DoneInv DEF RatingLost

LEMMA ChangeSettingsInv ==
  ASSUME RatingIInv, NEW k \in RatingKeys, ChangeSettings(k)
  PROVE  RatingIInv'
<1> USE DEF RatingIInv
<1>1. RatingTypeOK'
  BY KeysArePairs DEF ChangeSettings, RatingTypeOK, KeyOf
<1>2. KeysAsked' /\ LockHeld' /\ FailureAlone'
  BY DEF ChangeSettings, KeysAsked, LockHeld, FailureAlone, Cache, KeyOf
<1>3. Underway'
  BY DEF ChangeSettings, Underway, Cache, KeyOf
<1>4. Dated' /\ NewestKept'
  BY SameReadings DEF ChangeSettings
<1> QED
  BY <1>1, <1>2, <1>3, <1>4

\* The step the properties are about.  Only the version just written can have come
\* after one whose reading is still owed, so that reading is newer than those of
\* every third version, and one of its date is what pruning leaves of the others.
LEMMA WriteScoreInv ==
  ASSUME RatingIInv, NEW w \in Raters, WriteScore(w)
  PROVE  RatingIInv'
<1> USE DEF RatingIInv
<1> DEFINE k == KeyOf(rater[w])
           n == rater[w].version
           d == rater[w].date
           t == ratings + 1
           new == [goal |-> rater[w].goal, version |-> n, at |-> d]
           rows == (readings \ Cache(k)) \cup {new}
<1>1. /\ Done(w) /\ rater[w].at = "score" /\ rater[w].state \in Success
      /\ ratings < MaxRatings /\ ratings' = t
      /\ readings' \in Pruned(rows, n)
      /\ outcome' = [outcome EXCEPT ![k] = rater[w].state]
      /\ made' = [made EXCEPT ![k] = [date |-> d, nth |-> t]]
  BY DEF WriteScore, Underway
<1>2. /\ k \in RatingKeys /\ k = <<rater[w].goal, n>> /\ k[2] = n
      /\ n \in RatingVersions /\ rater[w].goal \in Goals
  BY DEF KeysAsked, KeyOf, RatingTypeOK, RaterTypes
<1>3. ratings \in Nat /\ MaxRatings \in Nat /\ MaxDates \in Nat /\ t \in 1 .. MaxRatings /\ t > ratings /\ d \in 1 .. MaxDates
  BY <1>1, RatingAssumption DEF RatingTypeOK, Underway
<1>4. KeyOf(new) = k /\ new \in [goal : Goals, version : RatingVersions, at : 1 .. MaxDates] /\ new.at = d /\ new.version = n
  BY <1>2, <1>3 DEF KeyOf
<1>5. \A r : r \in rows <=> r = new \/ (r \in readings /\ KeyOf(r) # k)
  BY DEF Cache
<1> HIDE DEF k, n, d, t, new, rows
<1>6. /\ readings' \subseteq rows /\ new \in readings'
      /\ Others(rows, n) # {} => \E r \in readings' : r \in Newest(Others(rows, n))
  BY <1>1, <1>4, <1>5, PrunedRows
<1>7. RatingTypeOK'
  <2>1. readings' \subseteq [goal : Goals, version : RatingVersions, at : 1 .. MaxDates]
    BY <1>4, <1>5, <1>6 DEF RatingTypeOK
  <2>2. made' \in [RatingKeys -> [date : 0 .. MaxDates, nth : 0 .. MaxRatings]]
    <3>1. [date |-> d, nth |-> t] \in [date : 0 .. MaxDates, nth : 0 .. MaxRatings]
      BY <1>3
    <3> QED
      BY <1>1, <3>1 DEF RatingTypeOK
  <2>3. outcome' \in [RatingKeys -> {"none"} \cup Results] /\ ratings' \in 0 .. MaxRatings
    <3>1. rater[w].state \in {"none"} \cup Results /\ ratings' \in 0 .. MaxRatings
      BY <1>1, <1>3, OutcomesDiffer
    <3> QED
      BY <1>1, <3>1 DEF RatingTypeOK
  <2> QED
    BY <1>1, <2>1, <2>2, <2>3, DoneKeeps DEF RatingTypeOK, KeyOf
<1>8. KeysAsked' /\ LockHeld'
  BY <1>1, <1>2, <1>4, <1>5, <1>6, DoneKeeps DEF KeysAsked, KeyOf
<1>9. Underway'
  <2>1. \A x \in Raters : x # w => rater[x].at # "outcome"
    BY <1>1 DEF LockHeld, RatingTypeOK
  <2>2. \A x \in Raters : rater'[x].at # "outcome"
    BY <1>1, <2>1, IdleTyped DEF Done, RatingTypeOK
  <2> QED
    BY <1>1, <2>2, DoneKeeps DEF Underway
<1>10. FailureAlone'
  <2> SUFFICES ASSUME NEW q \in RatingKeys, outcome'[q] \in Failure PROVE Cache(q)' = {}
    BY DEF FailureAlone
  <2>1. q # k /\ outcome[q] \in Failure
    BY <1>1, <1>2, OutcomesDiffer DEF RatingTypeOK
  <2> QED
    BY <1>4, <1>5, <1>6, <2>1 DEF FailureAlone, Cache, KeyOf
<1>11. /\ made'[k].date = d /\ made'[k].nth = t
       /\ \A q \in RatingKeys : q # k => made'[q] = made[q]
       /\ \A q \in RatingKeys : made[q].date \in Nat /\ made[q].nth \in Nat /\ made[q].nth <= ratings
  BY <1>1, <1>2, <1>3 DEF RatingTypeOK, Dated
<1>12. Dated'
  <2>1. \A r \in readings' : r.at = made'[KeyOf(r)].date /\ made'[KeyOf(r)].nth > 0
    <3> SUFFICES ASSUME NEW r \in readings' PROVE r.at = made'[KeyOf(r)].date /\ made'[KeyOf(r)].nth > 0
      OBVIOUS
    <3>1. CASE r = new
      BY <1>3, <1>4, <1>11, <3>1
    <3>2. CASE r # new
      <4>1. r \in readings /\ KeyOf(r) # k /\ KeyOf(r) \in RatingKeys
        BY <1>5, <1>6, <3>2 DEF KeysAsked
      <4> QED
        BY <1>11, <4>1 DEF Dated
    <3> QED
      BY <3>1, <3>2
  <2>2. \A q \in RatingKeys : made'[q].nth <= ratings'
    BY <1>1, <1>3, <1>11
  <2> QED
    BY <1>6, <2>1, <2>2 DEF Dated, KeyOf
<1>13. NewestKept'
  <2> SUFFICES ASSUME NEW v \in RatingVersions, NEW p \in LatestOf(v)', Lonely(Rivals(p)')
               PROVE  \E r \in readings' : r.version = v /\ r.at = made'[p].date
    BY DEF NewestKept, Lonely
  <2>1. /\ p \in RatingKeys /\ p[2] = v /\ made'[p].nth > 0
        /\ \A q \in RatingKeys : q[2] = v => made'[q].date <= made'[p].date /\ made'[q].nth <= made'[p].nth
    BY DEF LatestOf
  <2>2. \A q \in RatingKeys : q[2] # v /\ made'[q].nth > 0
                              /\ (made'[q].nth > made'[p].nth \/ made'[q].date >= made'[p].date) => q[2] \in Rivals(p)'
    BY <2>1 DEF Rivals
  <2>3. CASE v = n
    <3>1. p = k
      BY <1>2, <1>3, <1>11, <2>1, <2>3
    <3> QED
      BY <1>4, <1>6, <1>11, <2>3, <3>1
  <2>4. CASE v # n
    <3>1. p # k /\ made'[p] = made[p] /\ \A q \in RatingKeys : q[2] = v => made'[q] = made[q]
      BY <1>2, <1>11, <2>1, <2>4
    <3>2. n \in Rivals(p)'
      <4>1. made[p].nth <= ratings /\ made[p].nth \in Nat
        BY <1>11, <2>1
      <4>2. made'[k].nth > 0 /\ made'[k].nth > made'[p].nth
        BY <1>3, <1>11, <3>1, <4>1
      <4> QED
        BY <1>2, <2>2, <2>4, <4>2
    <3>3. \A q \in RatingKeys : q[2] \notin {v, n} /\ made[q].nth > 0
                                => ~ (made[q].nth > made[p].nth) /\ ~ (made[q].date >= made[p].date)
      <4> SUFFICES ASSUME NEW q \in RatingKeys, q[2] \notin {v, n}, made[q].nth > 0,
                          made[q].nth > made[p].nth \/ made[q].date >= made[p].date
                   PROVE  FALSE
        OBVIOUS
      <4>1. made'[q] = made[q]
        BY <1>2, <1>11
      <4>2. q[2] \in Rivals(p)'
        BY <2>2, <3>1, <4>1
      <4> QED
        BY <3>2, <4>2 DEF Lonely
    <3>4. p \in LatestOf(v)
      BY <2>1, <3>1 DEF LatestOf
    <3>5. Lonely(Rivals(p))
      <4>1. \A u \in Rivals(p) : u = n
        BY <2>1, <3>3 DEF Rivals
      <4> QED
        BY <4>1 DEF Lonely
    <3>6. PICK r \in readings : r.version = v /\ r.at = made[p].date
      BY <3>4, <3>5 DEF NewestKept
    <3>7. r \in Others(rows, n)
      BY <1>2, <1>5, <2>4, <3>6 DEF KeyOf, Others
    <3>8. PICK s \in readings' : s \in Newest(Others(rows, n))
      BY <1>6, <3>7
    <3>9. /\ s \in readings /\ s.version # n /\ s.at >= r.at /\ s.at \in Nat /\ KeyOf(s) \in RatingKeys
          /\ KeyOf(s)[2] = s.version /\ s.at = made[KeyOf(s)].date /\ made[KeyOf(s)].nth > 0
      <4>1. s \in rows /\ s.version # n /\ s.at >= r.at
        BY <3>7, <3>8 DEF Newest, Others
      <4>2. s \in readings
        BY <1>4, <1>5, <4>1
      <4> QED
        BY <4>1, <4>2, <1>3 DEF RatingTypeOK, KeysAsked, Dated, KeyOf
    <3>10. s.version = v
      BY <3>3, <3>6, <3>9
    <3>11. s.at <= made[p].date
      BY <2>1, <3>1, <3>9, <3>10
    <3>12. s.at = made'[p].date
      BY <1>11, <2>1, <3>1, <3>6, <3>9, <3>11
    <3> QED
      BY <3>8, <3>10, <3>12
  <2> QED
    BY <2>3, <2>4
<1> QED
  BY <1>7, <1>8, <1>9, <1>10, <1>12, <1>13

LEMMA RatingStepInv == RatingIInv /\ [RatingNext]_ratingVars => RatingIInv'
<1> SUFFICES ASSUME RatingIInv, [RatingNext]_ratingVars PROVE RatingIInv'
  OBVIOUS
<1>1. ASSUME NEW w \in Raters, StartRun(w) PROVE RatingIInv'
  BY <1>1, StartRunInv
<1>2. ASSUME NEW w \in Raters, NEW s \in Results, Rated(w, s) PROVE RatingIInv'
  BY <1>2, RatedInv
<1>3. ASSUME NEW w \in Raters, LockPosting(w) PROVE RatingIInv'
  BY <1>3, LockPostingInv
<1>4. ASSUME NEW w \in Raters, WriteScore(w) PROVE RatingIInv'
  BY <1>4, WriteScoreInv
<1>5. ASSUME NEW w \in Raters, CheckCache(w) PROVE RatingIInv'
  BY <1>5, CheckCacheInv
<1>6. ASSUME NEW w \in Raters, WriteFailure(w) PROVE RatingIInv'
  BY <1>6, WriteFailureInv
<1>7. ASSUME NEW w \in Raters, RatingLost(w) PROVE RatingIInv'
  BY <1>7, RatingLostInv
<1>8. ASSUME NEW q \in RatingKeys, ChangeSettings(q) PROVE RatingIInv'
  BY <1>8, ChangeSettingsInv
<1>9. CASE UNCHANGED ratingVars
  <2>1. RatingTypeOK' /\ KeysAsked' /\ LockHeld'
    BY <1>9 DEF RatingIInv, ratingVars, RatingTypeOK, KeysAsked, LockHeld, KeyOf
  <2>2. Underway' /\ FailureAlone'
    BY <1>9 DEF RatingIInv, ratingVars, Underway, FailureAlone, Cache, KeyOf
  <2>3. Dated' /\ NewestKept'
    BY <1>9, SameReadings DEF RatingIInv, ratingVars
  <2> QED
    BY <2>1, <2>2, <2>3 DEF RatingIInv
<1> QED
  BY <1>1, <1>2, <1>3, <1>4, <1>5, <1>6, <1>7, <1>8, <1>9 DEF RatingNext

LEMMA RatingInvImplies == RatingIInv => ReadingsExact
<1> SUFFICES ASSUME RatingIInv PROVE ReadingsExact
  OBVIOUS
<1>1. ratings > 0 => Composed # {}
  <2> SUFFICES ASSUME ratings > 0 PROVE Composed # {}
    OBVIOUS
  <2> DEFINE ages == {MaxDates - r.at : r \in readings}
  <2>1. MaxDates \in Nat /\ \A r \in readings : r.at \in 1 .. MaxDates
    BY RatingAssumption DEF RatingIInv, RatingTypeOK
  <2>2. ages \in SUBSET Nat /\ ages # {}
    BY <2>1 DEF RatingIInv, Dated
  <2>3. PICK a \in ages : \A b \in ages : a <= b
    BY <2>2, LeastNumber
  <2>4. PICK r \in readings : a = MaxDates - r.at
    BY <2>3
  <2>5. \A q \in readings : q.at <= r.at
    <3> SUFFICES ASSUME NEW q \in readings PROVE q.at <= r.at
      OBVIOUS
    <3>1. MaxDates - r.at <= MaxDates - q.at
      BY <2>3, <2>4
    <3>2. q.at \in Int /\ r.at \in Int /\ MaxDates \in Int
      BY <2>1
    <3> QED
      BY <3>1, <3>2
  <2>6. AnyOther # {}
    BY <2>4, <2>5 DEF AnyOther, Newest
  <2> QED
    BY <2>6 DEF Composed
<1>2. ReadingsSurvive
  BY <1>1 DEF RatingIInv, ReadingsSurvive, NewestKept, Lonely
<1> QED
  BY <1>2 DEF RatingIInv, ReadingsExact

-----------------------------------------------------------------------------
(* The theorems.                                                           *)

\* The invariant holds for every instance.
THEOREM RatingInvariant == RatingSpec => []RatingIInv
<1> QED
  BY RatingInitInv, RatingStepInv, PTL DEF RatingSpec

\* A reading outlives a change of model and the change back, although a run writes
\* with the date it began and may write late; an account whose posting was ever
\* rated is shown a reading; and no failure is told of a question that has one
\* (rateStage2, upsertAIScore, UpsertAIScoreFailure, composeStoredScore):
\* ReadingsExact for every set of writers, goals, versions, results and dates.
THEOREM ReadingsExactAlways == RatingSpec => []ReadingsExact
<1> QED
  BY RatingInvariant, RatingInvImplies, PTL

-----------------------------------------------------------------------------
(* Migrations.  The schema is built of the manifests' migrations, each at  *)
(* its place (SchemaBuilt); the ledger has one row for each (LedgerRight); *)
(* who works has the lock alone, has passed only what is recorded and is   *)
(* about to apply only what is not (LockAlone, Passed).                    *)

\* The order in which jobcron numbers its migrations: a build that has a k-th
\* migration gives it the number every other build gives its k-th.  store.go does
\* not check it; the numbers come from the names of the files.
AppendOnly ==
  \A b, c \in Builds : \A k \in DOMAIN Manifest[b] \cap DOMAIN Manifest[c] :
    Manifest[b][k].version = Manifest[c][k].version

Locking == {"prepare", "check", "apply"}
Stepping == {"next", "check", "apply"}

MTypes ==
  /\ mpc \in [Migrators -> {"idle", "open", "known", "verify"} \cup Locking \cup Stepping]
  /\ step \in [Migrators -> Nat]
  /\ report \in [Migrators -> {"none", "refused", "failed", "ready"}]
  /\ build \in [Migrators -> Builds] /\ allow \in [Migrators -> BOOLEAN]
  /\ serving \subseteq Builds

\* Who is between BeginMigration and its end has the lock, alone.
LockAlone ==
  /\ mlock \subseteq Migrators
  /\ \A m \in Migrators : mpc[m] \in Locking => mlock = {m}

\* The schema is made of the builds' migrations, each at its place.
SchemaBuilt ==
  /\ schema \in Seq(UNION {MigrationsOf(b) : b \in Builds})
  /\ \A k \in DOMAIN schema : \E b \in Builds : k \in DOMAIN Manifest[b] /\ schema[k] = Manifest[b][k]

\* One row of the ledger for each migration of the schema, with its digest or none.
RowOf(r, k) ==
  r = [version |-> schema[k].version, digest |-> r.digest] /\ r.digest \in {NoDigest, schema[k].digest}
LedgerRight ==
  /\ \A r \in ledger : \E k \in DOMAIN schema : RowOf(r, k)
  /\ \A k \in DOMAIN schema : \E r \in ledger : r.version = schema[k].version
  /\ \A r, q \in ledger : r.version = q.version => r = q

\* A migrator has passed only what is recorded, and is about to apply only what is not.
RecordedVersions == {r.version : r \in ledger}
PassedBy(m) ==
  /\ mpc[m] \in Stepping => step[m] \in 1 .. Len(Manifest[build[m]])
  /\ mpc[m] = "verify" => step[m] = Len(Manifest[build[m]]) + 1
  /\ mpc[m] \notin Stepping \cup {"verify"} => step[m] = 0
  /\ \A k \in 1 .. step[m] - 1 : Manifest[build[m]][k].version \in RecordedVersions
  /\ mpc[m] = "apply" => CurrentMigration(m).version \notin RecordedVersions
Passed == \A m \in Migrators : PassedBy(m)

\* What an audited backfill would fill in is the build's own.
Audited ==
  \A m \in Migrators : allow[m] =>
    \A k \in DOMAIN schema :
      [version |-> schema[k].version, digest |-> NoDigest] \in ledger => schema[k] \in MigrationsOf(build[m])

MigrationInv == MTypes /\ LockAlone /\ SchemaBuilt /\ LedgerRight /\ Passed /\ Audited

-----------------------------------------------------------------------------
(* Facts about manifests, and about the schema they build.                 *)

LEMMA ManifestFacts ==
  ASSUME NEW b \in Builds
  PROVE  /\ Manifest[b] \in Seq(MigrationsOf(b)) /\ Len(Manifest[b]) \in Nat
         /\ DOMAIN Manifest[b] = 1 .. Len(Manifest[b])
         /\ \A k \in DOMAIN Manifest[b] :
              /\ Manifest[b][k] \in MigrationsOf(b)
              /\ Manifest[b][k] = [version |-> Manifest[b][k].version, digest |-> Manifest[b][k].digest]
              /\ Manifest[b][k].version \in Nat /\ Manifest[b][k].digest # NoDigest
         /\ \A j, k \in DOMAIN Manifest[b] : j < k => Manifest[b][j].version < Manifest[b][k].version
<1>1. Manifest[b] \in Seq(MigrationsOf(b))
  BY MigrationsAssumption DEF MigrationsOf
<1>2. Len(Manifest[b]) \in Nat /\ DOMAIN Manifest[b] = 1 .. Len(Manifest[b])
  BY <1>1
<1> QED
  BY <1>1, <1>2, MigrationsAssumption DEF MigrationsOf, Range

LEMMA InManifest ==
  ASSUME NEW b \in Builds, NEW r \in MigrationsOf(b)
  PROVE  \E k \in DOMAIN Manifest[b] : r = Manifest[b][k]
  BY DEF MigrationsOf, Range

\* Two builds give a number to migrations at one place.
LEMMA SamePlace ==
  ASSUME AppendOnly, NEW b \in Builds, NEW c \in Builds, NEW j \in DOMAIN Manifest[b], NEW k \in DOMAIN Manifest[c],
         Manifest[b][j].version = Manifest[c][k].version
  PROVE  j = k
<1>b. /\ DOMAIN Manifest[b] = 1 .. Len(Manifest[b]) /\ Len(Manifest[b]) \in Nat /\ Manifest[b][j].version \in Nat
      /\ \A i \in DOMAIN Manifest[b] : i < j => Manifest[b][i].version < Manifest[b][j].version
  BY ManifestFacts
<1>c. /\ DOMAIN Manifest[c] = 1 .. Len(Manifest[c]) /\ Len(Manifest[c]) \in Nat /\ Manifest[c][k].version \in Nat
      /\ \A i \in DOMAIN Manifest[c] : i < k => Manifest[c][i].version < Manifest[c][k].version
  BY ManifestFacts
<1>1. CASE j < k
  <2>1. j \in DOMAIN Manifest[c]
    BY <1>1, <1>b, <1>c
  <2>2. Manifest[b][j].version = Manifest[c][j].version
    BY <2>1 DEF AppendOnly
  <2> QED
    BY <2>1, <2>2, <1>1, <1>b, <1>c
<1>2. CASE k < j
  <2>1. k \in DOMAIN Manifest[b]
    BY <1>2, <1>b, <1>c
  <2>2. Manifest[b][k].version = Manifest[c][k].version
    BY <2>1 DEF AppendOnly
  <2> QED
    BY <2>1, <2>2, <1>2, <1>b, <1>c
<1> QED
  BY <1>1, <1>2, <1>b, <1>c

\* The digest a build has for a version is that of its migration.
LEMMA DigestOf ==
  ASSUME AppendOnly, NEW b \in Builds, NEW r \in MigrationsOf(b)
  PROVE  Digest(b, r.version) = r.digest /\ r.version \in Versions(b)
<1> DEFINE q == CHOOSE q \in MigrationsOf(b) : q.version = r.version
<1>1. q \in MigrationsOf(b) /\ q.version = r.version
  OBVIOUS
<1>2. q = r
  BY <1>1, InManifest, SamePlace
<1> QED
  BY <1>2 DEF Digest, Versions

LEMMA SchemaFacts ==
  ASSUME AppendOnly, SchemaBuilt
  PROVE  /\ Len(schema) \in Nat /\ DOMAIN schema = 1 .. Len(schema)
         /\ \A k \in DOMAIN schema :
              /\ schema[k] = [version |-> schema[k].version, digest |-> schema[k].digest]
              /\ schema[k].version \in Nat /\ schema[k].digest # NoDigest
         /\ \A j, k \in DOMAIN schema : j < k => schema[j].version < schema[k].version
<1>1. Len(schema) \in Nat /\ DOMAIN schema = 1 .. Len(schema)
  BY DEF SchemaBuilt
<1>2. ASSUME NEW k \in DOMAIN schema
      PROVE  /\ schema[k] = [version |-> schema[k].version, digest |-> schema[k].digest]
             /\ schema[k].version \in Nat /\ schema[k].digest # NoDigest
  <2>1. PICK b \in Builds : k \in DOMAIN Manifest[b] /\ schema[k] = Manifest[b][k]
    BY DEF SchemaBuilt
  <2> QED
    BY <2>1, ManifestFacts
<1>3. ASSUME NEW j \in DOMAIN schema, NEW k \in DOMAIN schema, j < k
      PROVE  schema[j].version < schema[k].version
  <2>1. PICK b \in Builds : k \in DOMAIN Manifest[b] /\ schema[k] = Manifest[b][k]
    BY DEF SchemaBuilt
  <2>2. PICK c \in Builds : j \in DOMAIN Manifest[c] /\ schema[j] = Manifest[c][j]
    BY DEF SchemaBuilt
  <2>3. j \in DOMAIN Manifest[b]
    BY <2>1, <1>1, <1>3, ManifestFacts
  <2>4. Manifest[b][j].version = schema[j].version
    BY <2>2, <2>3 DEF AppendOnly
  <2> QED
    BY <2>1, <2>3, <2>4, <1>3, ManifestFacts
<1> QED
  BY <1>1, <1>2, <1>3

\* A build's migration is recorded exactly when the schema has one at its place.
LEMMA AtItsPlace ==
  ASSUME AppendOnly, SchemaBuilt, LedgerRight, NEW b \in Builds, NEW k \in DOMAIN Manifest[b]
  PROVE  /\ Manifest[b][k].version \in RecordedVersions <=> k \in DOMAIN schema
         /\ k \in DOMAIN schema => schema[k].version = Manifest[b][k].version
<1>1. ASSUME k \in DOMAIN schema PROVE schema[k].version = Manifest[b][k].version
  BY <1>1 DEF SchemaBuilt, AppendOnly
<1>2. ASSUME k \in DOMAIN schema PROVE Manifest[b][k].version \in RecordedVersions
  BY <1>1, <1>2 DEF LedgerRight, RecordedVersions
<1>3. ASSUME Manifest[b][k].version \in RecordedVersions PROVE k \in DOMAIN schema
  <2>1. PICK r \in ledger : r.version = Manifest[b][k].version
    BY <1>3 DEF RecordedVersions
  <2>2. PICK j \in DOMAIN schema : RowOf(r, j)
    BY DEF LedgerRight
  <2>3. schema[j].version = r.version
    BY <2>2 DEF RowOf
  <2>4. PICK c \in Builds : j \in DOMAIN Manifest[c] /\ schema[j] = Manifest[c][j]
    BY DEF SchemaBuilt
  <2>5. j = k
    BY <2>1, <2>3, <2>4, SamePlace
  <2> QED
    BY <2>5
<1> QED
  BY <1>1, <1>2, <1>3

-----------------------------------------------------------------------------
(* The invariant holds at first, and every step keeps it.                  *)

LEMMA MigrationsInitInv == ASSUME AppendOnly, MigrationsInit PROVE MigrationInv
<1>1. PICK b \in Builds, n \in OldLedgers :
        /\ n <= Len(Manifest[b]) /\ schema = SubSeq(Manifest[b], 1, n)
        /\ ledger = {[version |-> Manifest[b][j].version, digest |-> NoDigest] : j \in 1 .. n}
  BY DEF MigrationsInit
<1>2. n \in Nat /\ Len(Manifest[b]) \in Nat /\ DOMAIN Manifest[b] = 1 .. Len(Manifest[b])
  BY MigrationsAssumption, ManifestFacts
<1>3. /\ schema \in Seq(MigrationsOf(b)) /\ DOMAIN schema = 1 .. n
      /\ \A k \in 1 .. n : k \in DOMAIN Manifest[b] /\ schema[k] = Manifest[b][k]
  BY <1>1, <1>2, ManifestFacts
<1>4. SchemaBuilt
  <2>1. schema \in Seq(UNION {MigrationsOf(c) : c \in Builds})
    <3>1. \A k \in 1 .. n : schema[k] \in UNION {MigrationsOf(c) : c \in Builds}
      BY <1>3, ManifestFacts
    <3> QED
      BY <3>1, <1>3, <1>2
  <2> QED
    BY <2>1, <1>3 DEF SchemaBuilt
<1>5. LedgerRight
  <2>1. ASSUME NEW r \in ledger PROVE \E k \in DOMAIN schema : RowOf(r, k)
    <3>1. PICK j \in 1 .. n : r = [version |-> Manifest[b][j].version, digest |-> NoDigest]
      BY <1>1
    <3> QED
      BY <3>1, <1>3 DEF RowOf
  <2>2. ASSUME NEW k \in DOMAIN schema PROVE \E r \in ledger : r.version = schema[k].version
    <3>1. [version |-> Manifest[b][k].version, digest |-> NoDigest] \in ledger
      BY <1>1, <1>3
    <3> QED
      BY <3>1, <1>3
  <2>3. \A r, q \in ledger : r.version = q.version => r = q
    BY <1>1
  <2> QED
    BY <2>1, <2>2, <2>3 DEF LedgerRight
<1>6. MTypes /\ LockAlone
  BY DEF MigrationsInit, MTypes, LockAlone, Locking
<1>7. Passed
  BY DEF MigrationsInit, Passed, PassedBy, Stepping
<1>8. Audited
  BY DEF MigrationsInit, Audited
<1> QED
  BY <1>4, <1>5, <1>6, <1>7, <1>8 DEF MigrationInv

\* What a step of one migrator may do to the places of the others: nothing.
OnlyMoves(m) ==
  /\ mpc' \in [Migrators -> {"idle", "open", "known", "verify"} \cup Locking \cup Stepping]
  /\ step' \in [Migrators -> Nat]
  /\ \A n \in Migrators \ {m} : mpc'[n] = mpc[n] /\ step'[n] = step[n]
  /\ build' = build

LEMMA LockKept ==
  ASSUME MTypes, LockAlone, NEW m \in Migrators, OnlyMoves(m),
         \/ mlock' = mlock \ {m} /\ mpc'[m] \notin Locking
         \/ mlock = {} /\ mlock' = {m}
         \/ mlock' = mlock /\ (mpc'[m] \in Locking => mpc[m] \in Locking)
         \/ mlock' = {} /\ mpc[m] \in Locking /\ mpc'[m] \notin Locking
  PROVE  LockAlone'
<1>1. mlock' \subseteq Migrators
  BY DEF LockAlone
<1>2. ASSUME NEW n \in Migrators, mpc'[n] \in Locking PROVE mlock' = {n}
  <2>1. CASE n = m
    BY <2>1, <1>2 DEF LockAlone
  <2>2. CASE n # m
    <3>1. mpc[n] \in Locking /\ mlock = {n}
      BY <2>2, <1>2 DEF OnlyMoves, LockAlone
    <3>2. mpc[m] \notin Locking
      BY <3>1, <2>2 DEF LockAlone
    <3> QED
      BY <3>1, <3>2, <2>2
  <2> QED
    BY <2>1, <2>2
<1> QED
  BY <1>1, <1>2 DEF LockAlone

\* A step that records nothing new.
LEMMA PassedKept ==
  ASSUME MTypes, Passed, NEW m \in Migrators, OnlyMoves(m),
         RecordedVersions' = RecordedVersions, PassedBy(m)'
  PROVE  Passed'
<1>1. ASSUME NEW n \in Migrators, n # m PROVE PassedBy(n)'
  <2>1. mpc'[n] = mpc[n] /\ step'[n] = step[n] /\ build'[n] = build[n]
    BY <1>1 DEF OnlyMoves
  <2>2. PassedBy(n)
    BY DEF Passed
  <2> QED
    BY <2>1, <2>2 DEF PassedBy, CurrentMigration
<1> QED
  BY <1>1 DEF Passed

LEMMA SchemaKept ==
  ASSUME SchemaBuilt, LedgerRight, UNCHANGED <<schema, ledger>>
  PROVE  SchemaBuilt' /\ LedgerRight' /\ RecordedVersions' = RecordedVersions
<1>1. SchemaBuilt'
  BY DEF SchemaBuilt
<1>2. LedgerRight'
  BY DEF LedgerRight, RowOf
<1> QED
  BY <1>1, <1>2 DEF RecordedVersions

LEMMA AuditKept == ASSUME Audited, UNCHANGED <<schema, ledger, allow, build>> PROVE Audited'
  BY DEF Audited

\* A step of one migrator that leaves the database alone.
LEMMA QuietStep ==
  ASSUME MigrationInv, NEW m \in Migrators, OnlyMoves(m), LockAlone',
         UNCHANGED <<ledger, schema, allow, serving>>,
         report' \in [Migrators -> {"none", "refused", "failed", "ready"}], PassedBy(m)'
  PROVE  MigrationInv'
<1>1. SchemaBuilt' /\ LedgerRight' /\ RecordedVersions' = RecordedVersions
  BY SchemaKept DEF MigrationInv
<1>2. Passed'
  BY <1>1, PassedKept DEF MigrationInv
<1>3. Audited'
  BY AuditKept DEF MigrationInv, OnlyMoves
<1>4. MTypes'
  BY DEF MigrationInv, MTypes, OnlyMoves
<1> QED
  BY <1>1, <1>2, <1>3, <1>4 DEF MigrationInv

\* A command that ends leaves no place and no lock behind.
LEMMA FinishMoves ==
  ASSUME MTypes, LockAlone, NEW m \in Migrators,
         NEW r \in {"none", "refused", "failed", "ready"}, Finish(m, r), build' = build
  PROVE  OnlyMoves(m) /\ LockAlone' /\ PassedBy(m)'
         /\ report' \in [Migrators -> {"none", "refused", "failed", "ready"}]
<1>1. /\ mpc' = [mpc EXCEPT ![m] = "idle"] /\ step' = [step EXCEPT ![m] = 0]
      /\ report' = [report EXCEPT ![m] = r] /\ mlock' = mlock \ {m}
  BY DEF Finish
<1>2. OnlyMoves(m) /\ mpc'[m] = "idle" /\ step'[m] = 0
  BY <1>1 DEF OnlyMoves, MTypes
<1>3. LockAlone'
  BY <1>1, <1>2, LockKept DEF Locking
<1>4. PassedBy(m)'
  BY <1>2 DEF PassedBy, Stepping
<1>5. report' \in [Migrators -> {"none", "refused", "failed", "ready"}]
  BY <1>1 DEF MTypes
<1> QED
  BY <1>2, <1>3, <1>4, <1>5

LEMMA FinishStep ==
  ASSUME MigrationInv, NEW m \in Migrators, NEW r \in {"none", "refused", "failed", "ready"}, Finish(m, r),
         UNCHANGED <<ledger, schema, build, allow, serving>>
  PROVE  MigrationInv'
<1>1. OnlyMoves(m) /\ LockAlone' /\ PassedBy(m)'
      /\ report' \in [Migrators -> {"none", "refused", "failed", "ready"}]
  BY FinishMoves DEF MigrationInv
<1> QED
  BY <1>1, QuietStep

LEMMA CommandInv ==
  ASSUME MigrationInv, NEW m \in Migrators, NEW a \in BOOLEAN, MigrateCommand(m, a) PROVE MigrationInv'
<1>1. /\ mpc[m] = "idle" /\ mpc' = [mpc EXCEPT ![m] = "open"] /\ step' = step /\ build' = build
      /\ mlock' = mlock /\ report' = [report EXCEPT ![m] = "none"]
      /\ allow' = [allow EXCEPT ![m] = a] /\ (a => Range(schema) \subseteq MigrationsOf(build[m]))
      /\ UNCHANGED <<ledger, schema, serving>>
  BY DEF MigrateCommand
<1>2. OnlyMoves(m) /\ mpc'[m] = "open"
  BY <1>1 DEF OnlyMoves, MigrationInv, MTypes
<1>3. PassedBy(m)
  BY DEF MigrationInv, Passed
<1>4. PassedBy(m)'
  BY <1>1, <1>2, <1>3 DEF PassedBy, Stepping, MigrationInv, MTypes
<1>5. LockAlone'
  BY <1>1, <1>2, LockKept DEF Locking, MigrationInv
<1>6. SchemaBuilt' /\ LedgerRight' /\ RecordedVersions' = RecordedVersions
  BY <1>1, SchemaKept DEF MigrationInv
<1>7. Passed'
  BY <1>2, <1>4, <1>6, PassedKept DEF MigrationInv
<1>8. Audited'
  <2>1. ASSUME NEW n \in Migrators, allow'[n], NEW k \in DOMAIN schema,
               [version |-> schema[k].version, digest |-> NoDigest] \in ledger
        PROVE  schema[k] \in MigrationsOf(build[n])
    <3>1. CASE n # m
      BY <3>1, <2>1, <1>1 DEF MigrationInv, Audited, MTypes
    <3>2. CASE n = m
      <4>1. a
        BY <3>2, <2>1, <1>1 DEF MigrationInv, MTypes
      <4> QED
        BY <4>1, <3>2, <1>1 DEF Range
    <3> QED
      BY <3>1, <3>2
  <2> QED
    BY <2>1, <1>1 DEF Audited
<1>9. MTypes'
  BY <1>1, <1>2 DEF MigrationInv, MTypes, OnlyMoves
<1> QED
  BY <1>5, <1>6, <1>7, <1>8, <1>9 DEF MigrationInv

LEMMA BeginInv ==
  ASSUME MigrationInv, NEW m \in Migrators, BeginMigration(m) PROVE MigrationInv'
<1> DEFINE to == IF mpc[m] = "open" THEN "prepare" ELSE "check"
<1>1. /\ mpc[m] \in {"open", "next"} /\ mlock = {} /\ mlock' = {m}
      /\ mpc' = [mpc EXCEPT ![m] = to] /\ UNCHANGED <<step, report, ledger, schema, build, allow, serving>>
  BY DEF BeginMigration, Turn
<1>2. OnlyMoves(m) /\ mpc'[m] = to
  BY <1>1 DEF OnlyMoves, MigrationInv, MTypes, Locking
<1>3. PassedBy(m)
  BY DEF MigrationInv, Passed
<1>4. PassedBy(m)'
  BY <1>1, <1>2, <1>3 DEF PassedBy, Stepping, RecordedVersions
<1>5. LockAlone'
  BY <1>1, <1>2, LockKept DEF MigrationInv
<1> QED
  BY <1>1, <1>2, <1>4, <1>5, QuietStep DEF MigrationInv, MTypes

\* What the check of the first transaction lets through: rows of the build's own
\* migrations, and without digests only those of an audited backfill.
LEMMA PrepareInv ==
  ASSUME AppendOnly, MigrationInv, NEW m \in Migrators, PrepareLedger(m) PROVE MigrationInv'
<1> DEFINE refuses == Unknown(m) \/ Mismatched(m) \/ (~allow[m] /\ \E r \in ledger : r.digest = NoDigest)
<1>1. CASE refuses
  <2>1. Finish(m, "refused") /\ UNCHANGED <<ledger, schema, build, allow, serving>>
    BY <1>1 DEF PrepareLedger
  <2> QED
    BY <2>1, FinishStep
<1>2. CASE ~refuses
  <2>1. /\ mpc[m] = "prepare" /\ ledger' = Backfilled(m) /\ mlock' = {} /\ mpc' = [mpc EXCEPT ![m] = "known"]
        /\ UNCHANGED <<step, report, schema, build, allow, serving>>
    BY <1>2 DEF PrepareLedger, Turn
  <2>2. OnlyMoves(m) /\ mpc'[m] = "known"
    BY <2>1 DEF OnlyMoves, MigrationInv, MTypes, Locking
  <2>3. LockAlone'
    BY <2>1, <2>2, LockKept DEF Locking, MigrationInv
  <2> DEFINE Fill(r) == IF r.digest = NoDigest THEN [r EXCEPT !.digest = Digest(build[m], r.version)] ELSE r
  <2>4. ASSUME NEW r \in ledger, NEW k \in DOMAIN schema, RowOf(r, k)
        PROVE  /\ Fill(r).version = r.version /\ Fill(r).digest # NoDigest
               /\ RowOf(Fill(r), k)
    <3>1. CASE r.digest # NoDigest
      <4>1. Fill(r) = r
        BY <3>1
      <4> HIDE DEF Fill
      <4> QED
        BY <4>1, <3>1, <2>4
    <3>2. CASE r.digest = NoDigest
      <4>1. allow[m] /\ r = [version |-> schema[k].version, digest |-> NoDigest]
        BY <3>2, <1>2, <2>4 DEF RowOf
      <4>2. schema[k] \in MigrationsOf(build[m])
        BY <4>1 DEF MigrationInv, Audited
      <4>3. build[m] \in Builds
        BY DEF MigrationInv, MTypes
      <4>4. Digest(build[m], schema[k].version) = schema[k].digest
        BY <4>2, <4>3, DigestOf
      <4>5. Fill(r) = [version |-> schema[k].version, digest |-> schema[k].digest]
        BY <3>2, <4>1, <4>4
      <4>6. schema[k].digest # NoDigest
        BY SchemaFacts DEF MigrationInv
      <4> HIDE DEF Fill
      <4> QED
        BY <4>1, <4>5, <4>6 DEF RowOf
    <3> QED
      BY <3>1, <3>2
  <2>5. \A r \in ledger : \E k \in DOMAIN schema : RowOf(r, k)
    BY DEF MigrationInv, LedgerRight
  <2>6. ledger' = {Fill(r) : r \in ledger}
    BY <2>1 DEF Backfilled
  <2> HIDE DEF Fill
  <2>7. RecordedVersions' = RecordedVersions
    BY <2>4, <2>5, <2>6 DEF RecordedVersions
  <2>8. LedgerRight'
    <3>1. ASSUME NEW q \in ledger' PROVE \E k \in DOMAIN schema : RowOf(q, k)
      BY <2>4, <2>5, <2>6
    <3>2. ASSUME NEW k \in DOMAIN schema PROVE \E q \in ledger' : q.version = schema[k].version
      <4>1. PICK r \in ledger : r.version = schema[k].version
        BY DEF MigrationInv, LedgerRight
      <4> QED
        BY <4>1, <2>4, <2>5, <2>6
    <3>3. ASSUME NEW q \in ledger', NEW p \in ledger', q.version = p.version PROVE q = p
      <4>1. PICK r \in ledger : q = Fill(r)
        BY <2>6
      <4>2. PICK s \in ledger : p = Fill(s)
        BY <2>6
      <4>3. r.version = s.version
        BY <4>1, <4>2, <3>3, <2>4, <2>5
      <4>4. r = s
        BY <4>3 DEF MigrationInv, LedgerRight
      <4> QED
        BY <4>1, <4>2, <4>4
    <3> QED
      BY <3>1, <3>2, <3>3, <2>1 DEF LedgerRight, RowOf
  <2>9. PassedBy(m)
    BY DEF MigrationInv, Passed
  <2>10. PassedBy(m)'
    BY <2>1, <2>2, <2>7, <2>9 DEF PassedBy, Stepping
  <2>11. Passed'
    BY <2>2, <2>7, <2>10, PassedKept DEF MigrationInv
  <2>12. Audited'
    <3>1. ASSUME NEW k \in DOMAIN schema PROVE [version |-> schema[k].version, digest |-> NoDigest] \notin ledger'
      <4>1. \A r \in ledger : Fill(r).digest # NoDigest
        BY <2>4, <2>5
      <4> QED
        BY <4>1, <2>6
    <3> QED
      BY <3>1, <2>1 DEF Audited
  <2>13. SchemaBuilt'
    BY <2>1 DEF MigrationInv, SchemaBuilt
  <2>14. MTypes'
    BY <2>1, <2>2 DEF MigrationInv, MTypes, OnlyMoves
  <2> QED
    BY <2>3, <2>8, <2>11, <2>12, <2>13, <2>14 DEF MigrationInv
<1> QED
  BY <1>1, <1>2

LEMMA KnownInv ==
  ASSUME MigrationInv, NEW m \in Migrators, CheckKnown(m) PROVE MigrationInv'
<1>1. CASE Unknown(m) \/ Mismatched(m)
  <2>1. Finish(m, "refused") /\ UNCHANGED <<ledger, schema, build, allow, serving>>
    BY <1>1 DEF CheckKnown
  <2> QED
    BY <2>1, FinishStep
<1>2. CASE ~(Unknown(m) \/ Mismatched(m))
  <2> DEFINE to == IF Manifest[build[m]] = <<>> THEN "verify" ELSE "next"
  <2>1. /\ mpc[m] = "known" /\ mpc' = [mpc EXCEPT ![m] = to] /\ step' = [step EXCEPT ![m] = 1]
        /\ UNCHANGED <<report, mlock, ledger, schema, build, allow, serving>>
    BY <1>2 DEF CheckKnown
  <2>2. OnlyMoves(m) /\ mpc'[m] = to /\ step'[m] = 1
    BY <2>1 DEF OnlyMoves, MigrationInv, MTypes, Locking, Stepping
  <2>3. LockAlone'
    BY <2>1, <2>2, LockKept DEF Locking, MigrationInv
  <2>4. build[m] \in Builds /\ build' = build
    BY <2>1 DEF MigrationInv, MTypes
  <2>5. Manifest[build[m]] \in Seq(MigrationsOf(build[m]))
    BY <2>4, ManifestFacts
  <2>6. PassedBy(m)'
    <3>1. CASE Manifest[build[m]] = <<>>
      <4>1. Len(Manifest[build[m]]) = 0 /\ mpc'[m] = "verify"
        BY <3>1, <2>2
      <4> QED
        BY <4>1, <2>2, <2>4 DEF PassedBy, Stepping
    <3>2. CASE Manifest[build[m]] # <<>>
      <4>1. Len(Manifest[build[m]]) \in Nat /\ Len(Manifest[build[m]]) # 0 /\ mpc'[m] = "next"
        BY <3>2, <2>2, <2>5
      <4> QED
        BY <4>1, <2>2, <2>4 DEF PassedBy, Stepping
    <3> QED
      BY <3>1, <3>2
  <2> QED
    BY <2>1, <2>2, <2>3, <2>6, QuietStep DEF MigrationInv, MTypes
<1> QED
  BY <1>1, <1>2

\* A migrator that goes on: what it leaves behind is recorded.
LEMMA AfterStepMoves ==
  ASSUME MigrationInv, NEW m \in Migrators, AfterStep(m), mpc[m] \in {"check", "apply"}, build' = build,
         RecordedVersions \subseteq RecordedVersions', CurrentMigration(m).version \in RecordedVersions'
  PROVE  OnlyMoves(m) /\ LockAlone' /\ PassedBy(m)'
<1> DEFINE s == step[m]
           to == IF s = Len(Manifest[build[m]]) THEN "verify" ELSE "next"
<1>1. /\ mpc' = [mpc EXCEPT ![m] = to] /\ step' = [step EXCEPT ![m] = @ + 1] /\ mlock' = mlock \ {m}
  BY DEF AfterStep
<1>2. s \in Nat
  BY DEF MigrationInv, MTypes
<1>3. OnlyMoves(m) /\ mpc'[m] = to /\ step'[m] = s + 1
  BY <1>1, <1>2 DEF OnlyMoves, MigrationInv, MTypes, Stepping
<1>4. LockAlone'
  BY <1>1, <1>3, LockKept DEF Locking, MigrationInv
<1>5. /\ s \in 1 .. Len(Manifest[build[m]]) /\ Len(Manifest[build[m]]) \in Nat
      /\ \A k \in 1 .. s - 1 : Manifest[build[m]][k].version \in RecordedVersions
  BY ManifestFacts DEF MigrationInv, Passed, PassedBy, Stepping, MTypes
<1>6. \A k \in 1 .. s : Manifest[build[m]][k].version \in RecordedVersions'
  BY <1>5 DEF CurrentMigration
<1>7. step'[m] - 1 = s /\ build'[m] = build[m]
  BY <1>3, <1>2
<1>f. \A k \in 1 .. step'[m] - 1 : Manifest[build'[m]][k].version \in RecordedVersions'
  BY <1>6, <1>7
<1>8. CASE s = Len(Manifest[build[m]])
  <2>1. mpc'[m] = "verify" /\ step'[m] = Len(Manifest[build'[m]]) + 1
    BY <1>3, <1>7, <1>8
  <2> QED
    BY <2>1, <1>3, <1>4, <1>f DEF PassedBy, Stepping
<1>9. CASE s # Len(Manifest[build[m]])
  <2>1. mpc'[m] = "next" /\ step'[m] \in 1 .. Len(Manifest[build'[m]])
    BY <1>3, <1>5, <1>7, <1>9
  <2> QED
    BY <2>1, <1>3, <1>4, <1>f DEF PassedBy, Stepping
<1> QED
  BY <1>8, <1>9

LEMMA CheckAppliedInv ==
  ASSUME MigrationInv, NEW m \in Migrators, CheckApplied(m) PROVE MigrationInv'
<1> DEFINE now == CurrentMigration(m)
<1>0. mpc[m] = "check" /\ UNCHANGED <<ledger, schema, build, allow, serving>>
  BY DEF CheckApplied
<1>r. RecordedVersions' = RecordedVersions
  BY <1>0 DEF RecordedVersions
<1>1. CASE now \in ledger
  <2>0. now.version \notin {r.version : r \in ledger \ {now}}
    BY <1>1 DEF MigrationInv, LedgerRight
  <2>1. AfterStep(m)
    BY <1>1, <2>0 DEF CheckApplied
  <2>2. now.version \in RecordedVersions
    BY <1>1 DEF RecordedVersions
  <2>3. OnlyMoves(m) /\ LockAlone' /\ PassedBy(m)'
    BY <2>1, <2>2, <1>0, <1>r, AfterStepMoves
  <2> QED
    BY <2>1, <2>3, <1>0, QuietStep DEF AfterStep, MigrationInv, MTypes
<1>2. CASE now \notin ledger /\ now.version \in {r.version : r \in ledger \ {now}}
  <2>1. Finish(m, "refused")
    BY <1>2 DEF CheckApplied
  <2> QED
    BY <2>1, <1>0, FinishStep
<1>3. CASE now \notin ledger /\ now.version \notin {r.version : r \in ledger \ {now}}
  <2>1. /\ mpc' = [mpc EXCEPT ![m] = "apply"] /\ UNCHANGED <<step, report, mlock>>
    BY <1>3 DEF CheckApplied, Turn
  <2>2. OnlyMoves(m) /\ mpc'[m] = "apply"
    BY <2>1, <1>0 DEF OnlyMoves, MigrationInv, MTypes, Locking
  <2>3. LockAlone'
    BY <2>1, <2>2, <1>0, LockKept DEF Locking, MigrationInv
  <2>4. now.version \notin RecordedVersions
    BY <1>3 DEF RecordedVersions
  <2>5. PassedBy(m)
    BY DEF MigrationInv, Passed
  <2>6. PassedBy(m)'
    BY <2>1, <2>2, <2>4, <2>5, <1>0, <1>r DEF PassedBy, Stepping, CurrentMigration
  <2> QED
    BY <2>1, <2>2, <2>3, <2>6, <1>0, QuietStep DEF MigrationInv, MTypes
<1> QED
  BY <1>1, <1>2, <1>3

\* The migration that is applied is the first the schema does not have.
LEMMA ApplyInv ==
  ASSUME AppendOnly, MigrationInv, NEW m \in Migrators, ApplyMigration(m) PROVE MigrationInv'
<1> DEFINE now == CurrentMigration(m)
           s == step[m]
           b == build[m]
<1>1. /\ mpc[m] = "apply" /\ schema' = Append(schema, now) /\ ledger' = ledger \cup {now}
      /\ UNCHANGED <<build, allow, serving>>
  BY DEF ApplyMigration
<1>2. b \in Builds /\ DOMAIN Manifest[b] = 1 .. Len(Manifest[b]) /\ Len(Manifest[b]) \in Nat
  BY ManifestFacts DEF MigrationInv, MTypes
<1>3. /\ s \in DOMAIN Manifest[b] /\ now = Manifest[b][s]
      /\ \A k \in 1 .. s - 1 : Manifest[b][k].version \in RecordedVersions
      /\ now.version \notin RecordedVersions
  BY <1>1, <1>2 DEF MigrationInv, Passed, PassedBy, Stepping, CurrentMigration
<1>4. /\ now \in MigrationsOf(b) /\ now = [version |-> now.version, digest |-> now.digest]
      /\ now.version \in Nat /\ now.digest # NoDigest
  BY <1>2, <1>3, ManifestFacts
<1>5. /\ SchemaBuilt /\ LedgerRight /\ Len(schema) \in Nat /\ DOMAIN schema = 1 .. Len(schema)
  BY SchemaFacts DEF MigrationInv
<1>6. Len(schema) = s - 1
  <2>1. s \notin DOMAIN schema
    BY <1>2, <1>3, <1>5, AtItsPlace
  <2>2. \A k \in 1 .. s - 1 : k \in DOMAIN schema
    <3>1. TAKE k \in 1 .. s - 1
    <3>2. k \in DOMAIN Manifest[b] /\ Manifest[b][k].version \in RecordedVersions
      BY <1>2, <1>3
    <3> QED
      BY <3>2, <1>2, <1>5, AtItsPlace
  <2>3. s \in Nat /\ s >= 1
    BY <1>2, <1>3
  <2>4. s - 1 = 0 \/ s - 1 \in DOMAIN schema
    BY <2>2, <2>3
  <2> QED
    BY <2>1, <2>3, <2>4, <1>5
<1> HIDE DEF now, s, b
<1>7. /\ schema' \in Seq(UNION {MigrationsOf(c) : c \in Builds}) /\ DOMAIN schema' = 1 .. s /\ s \in Nat /\ s >= 1
      /\ DOMAIN schema = 1 .. s - 1 /\ \A k \in 1 .. s - 1 : schema'[k] = schema[k]
      /\ schema'[s] = now
  <2>1. schema \in Seq(UNION {MigrationsOf(c) : c \in Builds}) /\ now \in UNION {MigrationsOf(c) : c \in Builds}
    BY <1>2, <1>4, <1>5 DEF SchemaBuilt
  <2>2. s \in Nat /\ s >= 1
    BY <1>2, <1>3
  <2> QED
    BY <2>1, <2>2, <1>1, <1>5, <1>6
<1>8. SchemaBuilt'
  <2>1. ASSUME NEW k \in DOMAIN schema' PROVE \E c \in Builds : k \in DOMAIN Manifest[c] /\ schema'[k] = Manifest[c][k]
    <3>1. CASE k = s
      BY <3>1, <1>2, <1>3, <1>7
    <3>2. CASE k # s
      <4>1. k \in DOMAIN schema /\ schema'[k] = schema[k]
        BY <3>2, <1>7
      <4> QED
        BY <4>1, <1>5 DEF SchemaBuilt
    <3> QED
      BY <3>1, <3>2
  <2> QED
    BY <2>1, <1>7 DEF SchemaBuilt
<1>9. RecordedVersions' = RecordedVersions \cup {now.version}
  BY <1>1 DEF RecordedVersions
<1>10. LedgerRight'
  <2>1. ASSUME NEW r \in ledger' PROVE \E k \in DOMAIN schema' : RowOf(r, k)'
    <3>1. CASE r = now
      <4>1. PICK k \in DOMAIN schema' : schema'[k] = now
        BY <1>7
      <4>2. RowOf(r, k)'
        BY <3>1, <4>1, <1>4 DEF RowOf
      <4> QED
        BY <4>2
    <3>2. CASE r # now
      <4>1. PICK k \in DOMAIN schema : RowOf(r, k)
        BY <3>2, <1>1, <1>5 DEF LedgerRight
      <4>2. k \in DOMAIN schema' /\ schema'[k] = schema[k]
        BY <1>7
      <4> QED
        BY <4>1, <4>2 DEF RowOf
    <3> QED
      BY <3>1, <3>2
  <2>2. ASSUME NEW k \in DOMAIN schema' PROVE \E r \in ledger' : r.version = schema'[k].version
    <3>1. CASE k = s
      BY <3>1, <1>1, <1>7
    <3>2. CASE k # s
      <4>1. k \in DOMAIN schema /\ schema'[k] = schema[k]
        BY <3>2, <1>7
      <4>2. PICK r \in ledger : r.version = schema[k].version
        BY <4>1, <1>5 DEF LedgerRight
      <4> QED
        BY <4>1, <4>2, <1>1
    <3> QED
      BY <3>1, <3>2
  <2>3. ASSUME NEW r \in ledger', NEW q \in ledger', r.version = q.version PROVE r = q
    BY <2>3, <1>1, <1>3, <1>5 DEF LedgerRight, RecordedVersions
  <2> QED
    BY <2>1, <2>2, <2>3 DEF LedgerRight
<1>11. OnlyMoves(m) /\ LockAlone' /\ PassedBy(m)'
       /\ report' \in [Migrators -> {"none", "refused", "failed", "ready"}]
  <2>1. CASE AfterStep(m)
    <3>1. OnlyMoves(m) /\ LockAlone' /\ PassedBy(m)'
      BY <2>1, <1>1, <1>9, AfterStepMoves DEF now
    <3> QED
      BY <2>1, <3>1 DEF AfterStep, MigrationInv, MTypes
  <2>2. CASE Finish(m, "failed")
    BY <2>2, <1>1, FinishMoves DEF MigrationInv
  <2> QED
    BY <2>1, <2>2 DEF ApplyMigration
<1>12. Passed'
  <2>1. ASSUME NEW n \in Migrators, n # m PROVE PassedBy(n)'
    <3>1. mpc'[n] = mpc[n] /\ step'[n] = step[n] /\ build'[n] = build[n]
      BY <2>1, <1>11 DEF OnlyMoves
    <3>2. PassedBy(n)
      BY DEF MigrationInv, Passed
    <3>3. mpc[n] # "apply"
      BY <2>1, <1>1 DEF MigrationInv, LockAlone, Locking
    <3> QED
      BY <3>1, <3>2, <3>3, <1>9 DEF PassedBy
  <2> QED
    BY <2>1, <1>11 DEF Passed
<1>13. Audited'
  <2>1. ASSUME NEW n \in Migrators, allow[n], NEW k \in DOMAIN schema',
               [version |-> schema'[k].version, digest |-> NoDigest] \in ledger'
        PROVE  schema'[k] \in MigrationsOf(build[n])
    <3> DEFINE bare == [version |-> schema'[k].version, digest |-> NoDigest]
    <3>1. bare \in ledger
      <4>1. bare.digest = NoDigest
        OBVIOUS
      <4> HIDE DEF bare
      <4>2. bare \in ledger'
        BY <2>1 DEF bare
      <4> QED
        BY <4>1, <4>2, <1>1, <1>4
    <3>2. k # s
      <4>1. bare.version \in RecordedVersions
        BY <3>1 DEF RecordedVersions
      <4> QED
        BY <4>1, <1>3, <1>7
    <3>3. k \in DOMAIN schema /\ schema'[k] = schema[k]
      BY <3>2, <1>7
    <3> QED
      BY <3>1, <3>3, <2>1 DEF MigrationInv, Audited
  <2> QED
    BY <2>1, <1>1 DEF Audited
<1>14. MTypes'
  BY <1>1, <1>11 DEF MigrationInv, MTypes, OnlyMoves
<1> QED
  BY <1>8, <1>10, <1>11, <1>12, <1>13, <1>14 DEF MigrationInv

LEMMA MigrationsStepInv == ASSUME AppendOnly PROVE MigrationInv /\ [MigrationsNext]_migrationVars => MigrationInv'
<1> SUFFICES ASSUME MigrationInv, [MigrationsNext]_migrationVars PROVE MigrationInv'
  OBVIOUS
<1>1. CASE UNCHANGED migrationVars
  <2>1. LockAlone' /\ MTypes'
    BY <1>1 DEF migrationVars, MigrationInv, MTypes, LockAlone
  <2>2. SchemaBuilt' /\ LedgerRight' /\ RecordedVersions' = RecordedVersions
    BY <1>1, SchemaKept DEF migrationVars, MigrationInv
  <2>3. Passed'
    BY <1>1, <2>2 DEF migrationVars, MigrationInv, Passed, PassedBy, CurrentMigration
  <2>4. Audited'
    BY <1>1, AuditKept DEF migrationVars, MigrationInv
  <2> QED
    BY <2>1, <2>2, <2>3, <2>4 DEF MigrationInv
<1>2. ASSUME NEW m \in Migrators, NEW a \in BOOLEAN, MigrateCommand(m, a) PROVE MigrationInv'
  BY <1>2, CommandInv
<1>3. ASSUME NEW m \in Migrators, BeginMigration(m) PROVE MigrationInv'
  BY <1>3, BeginInv
<1>4. ASSUME NEW m \in Migrators, PrepareLedger(m) PROVE MigrationInv'
  BY <1>4, PrepareInv
<1>5. ASSUME NEW m \in Migrators, CheckKnown(m) PROVE MigrationInv'
  BY <1>5, KnownInv
<1>6. ASSUME NEW m \in Migrators, CheckApplied(m) PROVE MigrationInv'
  BY <1>6, CheckAppliedInv
<1>7. ASSUME NEW m \in Migrators, ApplyMigration(m) PROVE MigrationInv'
  BY <1>7, ApplyInv
<1>8. ASSUME NEW m \in Migrators, VerifyMigrations(m) PROVE MigrationInv'
  <2>1. PICK r \in {"ready", "refused"} : Finish(m, r)
    BY <1>8 DEF VerifyMigrations
  <2> QED
    BY <2>1, <1>8, FinishStep DEF VerifyMigrations
<1>9. ASSUME NEW m \in Migrators, AbortMigration(m) PROVE MigrationInv'
  BY <1>9, FinishStep DEF AbortMigration
<1>10. ASSUME NEW b \in Builds, OpenServer(b) \/ StopServer(b) PROVE MigrationInv'
  <2>0. /\ serving' \subseteq Builds
        /\ UNCHANGED <<ledger, schema, mlock, mpc, build, allow, step, report>>
    BY <1>10 DEF OpenServer, StopServer, MigrationInv, MTypes
  <2>1. LockAlone' /\ MTypes'
    BY <2>0 DEF MigrationInv, MTypes, LockAlone
  <2>2. SchemaBuilt' /\ LedgerRight' /\ RecordedVersions' = RecordedVersions
    BY <2>0, SchemaKept DEF MigrationInv
  <2>3. Passed'
    BY <2>0, <2>2 DEF MigrationInv, Passed, PassedBy, CurrentMigration
  <2>4. Audited'
    BY <2>0, AuditKept DEF MigrationInv
  <2> QED
    BY <2>1, <2>2, <2>3, <2>4 DEF MigrationInv
<1> QED
  BY <1>1, <1>2, <1>3, <1>4, <1>5, <1>6, <1>7, <1>8, <1>9, <1>10 DEF MigrationsNext

-----------------------------------------------------------------------------
(* What the invariant says of the ledger, and of a server that opens.      *)

LEMMA LedgerCounted == ASSUME AppendOnly, MigrationInv PROVE Cardinality(ledger) = Len(schema)
<1> DEFINE row(k) == CHOOSE r \in ledger : r.version = schema[k].version
           rows == [k \in 1 .. Len(schema) |-> row(k)]
<1>1. /\ Len(schema) \in Nat /\ DOMAIN schema = 1 .. Len(schema)
      /\ \A j, k \in DOMAIN schema : j < k => schema[j].version < schema[k].version
      /\ \A k \in DOMAIN schema : schema[k].version \in Nat
  BY SchemaFacts DEF MigrationInv
<1>2. ASSUME NEW k \in 1 .. Len(schema) PROVE row(k) \in ledger /\ row(k).version = schema[k].version
  BY <1>1 DEF MigrationInv, LedgerRight
<1>3. rows \in Injection(1 .. Len(schema), ledger)
  <2> HIDE DEF row
  <2>1. rows \in [1 .. Len(schema) -> ledger]
    BY <1>2
  <2>2. ASSUME NEW j \in 1 .. Len(schema), NEW k \in 1 .. Len(schema), rows[j] = rows[k] PROVE j = k
    <3>1. schema[j].version = schema[k].version
      BY <2>2, <1>2
    <3> QED
      BY <3>1, <1>1
  <2> HIDE DEF rows
  <2> QED
    BY <2>1, <2>2 DEF Injection, IsInjective
<1>4. rows \in Surjection(1 .. Len(schema), ledger)
  <2> HIDE DEF row
  <2>1. rows \in [1 .. Len(schema) -> ledger]
    BY <1>2
  <2>2. ASSUME NEW r \in ledger PROVE \E k \in 1 .. Len(schema) : rows[k] = r
    <3>1. PICK k \in DOMAIN schema : RowOf(r, k)
      BY DEF MigrationInv, LedgerRight
    <3>2. r.version = schema[k].version
      BY <3>1 DEF RowOf
    <3>3. rows[k] = r
      BY <3>2, <1>1, <1>2 DEF MigrationInv, LedgerRight
    <3> QED
      BY <3>3, <1>1
  <2> QED
    BY <2>1, <2>2 DEF Surjection
<1>5. ExistsBijection(1 .. Len(schema), ledger)
  BY <1>3, <1>4 DEF ExistsBijection, Bijection
<1> QED
  BY <1>1, <1>5, FS_CountingElements

LEMMA MigrationsRecorded == ASSUME AppendOnly, MigrationInv PROVE MigrationsTypeOK /\ SchemaRecorded
<1>1. SchemaRecorded
  <2>1. \A r \in ledger : \E k \in DOMAIN schema :
          schema[k].version = r.version /\ r.digest \in {NoDigest, schema[k].digest}
    BY DEF MigrationInv, LedgerRight, RowOf
  <2> QED
    BY <2>1, SchemaFacts, LedgerCounted DEF SchemaRecorded, MigrationInv
<1>2. \A m \in Migrators : step[m] \in 0 .. Len(Manifest[build[m]]) + 1
  <2>1. TAKE m \in Migrators
  <2>2. Len(Manifest[build[m]]) \in Nat
    BY ManifestFacts DEF MigrationInv, MTypes
  <2> QED
    BY <2>2 DEF MigrationInv, Passed, PassedBy
<1> QED
  BY <1>1, <1>2 DEF MigrationsTypeOK, MigrationInv, MTypes, LockAlone

\* An exact ledger leaves no room for another schema than the build's.
LEMMA ExactSchema ==
  ASSUME AppendOnly, MigrationInv, NEW b \in Builds, Exact(b)
  PROVE  schema = Manifest[b]
<1>1. /\ Len(schema) \in Nat /\ DOMAIN schema = 1 .. Len(schema) /\ SchemaBuilt /\ LedgerRight
      /\ \A k \in DOMAIN schema : schema[k] = [version |-> schema[k].version, digest |-> schema[k].digest]
  BY SchemaFacts DEF MigrationInv
<1>2. /\ Len(Manifest[b]) \in Nat /\ DOMAIN Manifest[b] = 1 .. Len(Manifest[b])
      /\ Manifest[b] \in Seq(MigrationsOf(b))
      /\ \A k \in DOMAIN Manifest[b] :
           Manifest[b][k] \in MigrationsOf(b) /\ Manifest[b][k].digest # NoDigest
  BY ManifestFacts
<1>3. ledger = MigrationsOf(b)
  BY DEF Exact
<1>4. ASSUME NEW k \in DOMAIN Manifest[b] PROVE k \in DOMAIN schema
  <2>1. Manifest[b][k].version \in RecordedVersions
    BY <1>2, <1>3 DEF RecordedVersions
  <2> QED
    BY <2>1, <1>1, AtItsPlace
<1>5. ASSUME NEW k \in DOMAIN schema PROVE k \in DOMAIN Manifest[b] /\ schema[k] = Manifest[b][k]
  <2>1. PICK r \in ledger : r.version = schema[k].version
    BY <1>1 DEF LedgerRight
  <2>2. PICK i \in DOMAIN Manifest[b] : r = Manifest[b][i]
    BY <1>3, InManifest
  <2>3. PICK c \in Builds : k \in DOMAIN Manifest[c] /\ schema[k] = Manifest[c][k]
    BY <1>1 DEF SchemaBuilt
  <2>4. i = k
    BY <2>1, <2>2, <2>3, SamePlace
  <2>5. PICK j \in DOMAIN schema : RowOf(r, j)
    BY <1>1 DEF LedgerRight
  <2>6. PICK d \in Builds : j \in DOMAIN Manifest[d] /\ schema[j] = Manifest[d][j]
    BY <1>1 DEF SchemaBuilt
  <2>7. Manifest[d][j].version = Manifest[b][k].version
    BY <2>2, <2>4, <2>5, <2>6 DEF RowOf
  <2>8. j = k
    BY <2>4, <2>6, <2>7, SamePlace
  <2>9. r = schema[k]
    BY <2>2, <2>4, <2>5, <2>8, <1>1, <1>2 DEF RowOf
  <2> QED
    BY <2>2, <2>4, <2>9
<1>6. Len(schema) = Len(Manifest[b])
  BY <1>1, <1>2, <1>4, <1>5
<1> QED
  BY <1>1, <1>2, <1>5, <1>6 DEF SchemaBuilt

-----------------------------------------------------------------------------

\* beginPostgresMigration, the check under the lock and the commit of statements
\* and ledger row together make the ledger tell what was done to the database.
THEOREM MigrationsInvariant == ASSUME AppendOnly PROVE MigrationsSpec => []MigrationInv
<1>1. MigrationsInit => MigrationInv
  BY MigrationsInitInv
<1>2. MigrationInv /\ [MigrationsNext]_migrationVars => MigrationInv'
  BY MigrationsStepInv
<1> QED
  BY <1>1, <1>2, PTL DEF MigrationsSpec

\* Whichever builds migrate a database at once and wherever they die, each
\* migration is done once and after those before it, its row is right, and
\* OpenPostgres opens only on the schema the build was made for.
THEOREM MigrationsAlwaysExact == ASSUME AppendOnly PROVE MigrationsSpec => MigrationsExact
<1>1. MigrationInv => MigrationsTypeOK /\ SchemaRecorded
  BY MigrationsRecorded
<1>2. MigrationInv /\ [MigrationsNext]_migrationVars => [ServesItsSchema]_migrationVars
  <2> SUFFICES ASSUME MigrationInv, MigrationsNext, NEW b \in serving' \ serving PROVE schema = Manifest[b]
    BY DEF ServesItsSchema
  <2>1. PICK c \in Builds : OpenServer(c)
    BY DEF MigrationsNext, MigrateCommand, BeginMigration, PrepareLedger, CheckKnown, CheckApplied,
      ApplyMigration, VerifyMigrations, AbortMigration, StopServer
  <2>2. c = b /\ Exact(b)
    BY <2>1 DEF OpenServer
  <2> QED
    BY <2>2, ExactSchema
<1> QED
  BY <1>1, <1>2, MigrationsInvariant, PTL DEF MigrationsSpec, MigrationsExact

-----------------------------------------------------------------------------
(* LegacyImport.  What makes its theorems inductive: an importer past the  *)
(* lock holds it alone (DecidesAlone) and sees the target as it is, or     *)
(* somebody has committed since (SeesTarget); its transaction holds the    *)
(* tables copied so far (HasCopied); an account number is never used again *)
(* (AsksForItsOwner); and as long as the account it looked up is there,    *)
(* what a run verifies is what it found or committed (MayVerify).          *)

ImportRows == [table : Tables, key : 1 .. MaxId, from : -1 .. LastSource, dup : 0 .. MaxId]
Targets == [rows : SUBSET ImportRows, ledger : SUBSET Sources, seq : 1 .. MaxId + 1, owner : Nat]

\* The steps of a transaction that has found its target clean, in their order.
StepOrder == [postings |-> 1, profile |-> 2, scores |-> 3, bookmarks |-> 4, not_interested |-> 5,
         ai_extractions |-> 6, ai_scores |-> 7, ai_usage |-> 8, ai_providers |-> 9, sequence |-> 10,
         verifyCopy |-> 11, ledger |-> 12, commit |-> 13]
Copying == DOMAIN StepOrder
Deciding == {"inspect", "clean"} \cup Copying

ImportTypes ==
  /\ legacy \in [content : Sources, writing : BOOLEAN] /\ server \in BOOLEAN
  /\ target \in Targets /\ count \in [runs : Nat, uses : Nat]
  /\ src \in [Importers -> Sources] /\ keyed \in [Importers -> BOOLEAN] /\ who \in [Importers -> Nat]
  /\ base \in [Importers -> Targets] /\ tx \in [Importers -> Targets] /\ lock \subseteq Importers
  /\ pc \in [Importers -> {"idle", "plan", "begin", "lock"} \cup Deciding \cup AfterCommit]
  /\ DOMAIN result = Importers

\* The importer that decides has the lock; the server is down while one runs.
DecidesAlone(i) == /\ pc[i] \in Deciding => lock = {i}
                   /\ pc[i] # "idle" => ~ server

\* Accounts are numbered upwards, so a number is never used again.
AsksForItsOwner(i) ==
  /\ who[i] <= IF target.owner = 0 THEN count.uses ELSE target.owner
  /\ pc[i] \notin {"idle", "plan"} => who[i] # 0

\* What a transaction sees is the target, unless another has committed since.
SeesTarget(i) ==
  /\ pc[i] \in {"lock"} \cup Deciding /\ base[i].owner = who[i] /\ target.owner = who[i]
       => base[i] = target \/ (base[i].ledger = {} /\ target.ledger # {})
  /\ pc[i] \in Deciding => base[i].owner = who[i] /\ target.owner = who[i]
  /\ pc[i] \in {"lock", "inspect", "clean"} => tx[i] = base[i]
  /\ pc[i] \in {"clean"} \cup Copying => base[i].ledger = {}

\* What a transaction has written, table by table.
HasCopied(i) ==
  pc[i] \in Copying =>
    /\ base[i].rows = {} /\ tx[i].owner = who[i]
    /\ tx[i].rows = {r \in ImportedRows(src[i], keyed[i]) : StepOrder[r.table] < StepOrder[pc[i]]}
    /\ tx[i].ledger = IF pc[i] = "commit" THEN {src[i]} ELSE {}
    /\ StepOrder[pc[i]] > StepOrder["sequence"] => \A k \in RowIds(tx[i]) : k < tx[i].seq

\* What is verified after a commit, or instead of one, while its owner is there.
MayVerify(i) ==
  /\ result[i] # "dangling" /\ (pc[i] # "idle" => result[i] \in {"none", "repeated"})
  /\ pc[i] \in AfterCommit /\ target.owner = who[i] =>
       /\ target.ledger = {src[i]}
       /\ result[i] = "none" => target.rows = ImportedRows(src[i], keyed[i])
       /\ pc[i] = "verifyRows" => TargetCounts(target) = SourceCounts(i)

InStep(i) == DecidesAlone(i) /\ AsksForItsOwner(i) /\ SeesTarget(i) /\ HasCopied(i) /\ MayVerify(i)

\* The target itself.
TargetWhole ==
  /\ OneSource /\ SequenceAhead
  /\ \A r \in target.rows : /\ r.table \in OfPosting => r.key \in RowIds(target)
                            /\ r.dup # 0 => r.dup \in RowIds(target)

ImportInv ==
  /\ ImportTypes /\ target.owner <= count.uses + 1 /\ TargetWhole
  /\ \A i \in Importers : InStep(i)

USE DEF Sources, OfPosting, Tables, Shared, Server, KeyFile, AfterCommit

-----------------------------------------------------------------------------
(* Rows.                                                                   *)

LEMMA TurnFacts ==
  /\ Copying = {"postings", "profile", "scores", "bookmarks", "not_interested", "ai_extractions",
                "ai_scores", "ai_usage", "ai_providers", "sequence", "verifyCopy", "ledger", "commit"}
  /\ Tables \subseteq Copying /\ \A c \in Copying : StepOrder[c] \in 1 .. 13
  /\ \A c, d \in Copying : StepOrder[c] = StepOrder[d] => c = d
  /\ StepOrder["postings"] = 1 /\ StepOrder["profile"] = 2 /\ StepOrder["scores"] = 3 /\ StepOrder["bookmarks"] = 4
  /\ StepOrder["not_interested"] = 5 /\ StepOrder["ai_extractions"] = 6 /\ StepOrder["ai_scores"] = 7
  /\ StepOrder["ai_usage"] = 8 /\ StepOrder["ai_providers"] = 9 /\ StepOrder["sequence"] = 10
  /\ StepOrder["verifyCopy"] = 11 /\ StepOrder["ledger"] = 12 /\ StepOrder["commit"] = 13
  BY DEF Copying, StepOrder

LEMMA RowFields ==
  ASSUME NEW c, NEW k, NEW f, NEW d
  PROVE  LET r == ImportRow(c, k, f, d) IN r.table = c /\ r.key = k /\ r.from = f /\ r.dup = d
  BY DEF ImportRow

\* What the rows of a source are.
SourceRow(s, w, r) ==
  \/ \E c \in Tables \ {"ai_providers"} : \E k \in SourceKeys[s][c] :
       r = ImportRow(c, k, s, IF c = "postings" THEN Link(s, k) ELSE 0)
  \/ w /\ r = ImportRow("ai_providers", 1, KeyFile, 0)

LEMMA RowsOfSource ==
  ASSUME NEW s, NEW w, NEW r PROVE r \in ImportedRows(s, w) <=> SourceRow(s, w, r)
<1> DEFINE Of(c) == {ImportRow(c, k, s, IF c = "postings" THEN Link(s, k) ELSE 0) : k \in SourceKeys[s][c]}
           All == UNION {Of(c) : c \in Tables \ {"ai_providers"}}
<1>1. ImportedRows(s, w) = All \cup (IF w THEN {ImportRow("ai_providers", 1, KeyFile, 0)} ELSE {})
  BY DEF ImportedRows
<1>2. r \in All <=> \E c \in Tables \ {"ai_providers"} : r \in Of(c)
  <2> HIDE DEF Of
  <2> QED
    OBVIOUS
<1>3. \A c : r \in Of(c) <=> \E k \in SourceKeys[s][c] : r = ImportRow(c, k, s, IF c = "postings" THEN Link(s, k) ELSE 0)
  OBVIOUS
<1> HIDE DEF Of, All
<1> QED
  BY <1>1, <1>2, <1>3 DEF SourceRow

LEMMA LinkInSource ==
  ASSUME NEW s \in Sources, NEW k PROVE Link(s, k) \in {0} \cup SourceKeys[s]["postings"]
  BY ImportAssumption DEF Link

LEMMA ImportedFacts ==
  ASSUME NEW s \in Sources, NEW w \in BOOLEAN, NEW r \in ImportedRows(s, w)
  PROVE  /\ r \in ImportRows
         /\ r.table \in Tables /\ r.from \in {s, KeyFile} /\ (r.table # "ai_providers" => r.key \in SourceKeys[s][r.table])
         /\ r.dup # 0 => r.dup \in SourceKeys[s]["postings"]
<1>1. CASE \E c \in Tables \ {"ai_providers"} : \E k \in SourceKeys[s][c] :
             r = ImportRow(c, k, s, IF c = "postings" THEN Link(s, k) ELSE 0)
  <2>3. PICK c \in Tables \ {"ai_providers"} : \E k \in SourceKeys[s][c] :
               r = ImportRow(c, k, s, IF c = "postings" THEN Link(s, k) ELSE 0)
    BY <1>1
  <2>1. PICK k \in SourceKeys[s][c] : r = ImportRow(c, k, s, IF c = "postings" THEN Link(s, k) ELSE 0)
    BY <2>3
  <2>2. k \in 1 .. MaxId /\ Link(s, k) \in {0} \cup SourceKeys[s]["postings"] /\ SourceKeys[s]["postings"] \subseteq 1 .. MaxId
    BY <2>1, LinkInSource, ImportAssumption
  <2> QED
    BY <2>1, <2>2, ImportAssumption DEF ImportRow, ImportRows
<1>2. CASE w /\ r = ImportRow("ai_providers", 1, KeyFile, 0)
  BY <1>2, ImportAssumption DEF ImportRow, ImportRows
<1> QED
  BY <1>1, <1>2, RowsOfSource DEF SourceRow

\* The rows of one table.
CopyRows(s, w, c) == {r \in ImportedRows(s, w) : r.table = c}

LEMMA RowsOfTable ==
  ASSUME NEW s, NEW w
  PROVE  /\ \A c \in Tables \ {"ai_providers", "postings"} :
              {ImportRow(c, k, s, 0) : k \in SourceKeys[s][c]} = CopyRows(s, w, c)
         /\ {ImportRow("postings", k, s, Link(s, k)) : k \in SourceKeys[s]["postings"]} = CopyRows(s, w, "postings")
         /\ (IF w THEN {ImportRow("ai_providers", 1, KeyFile, 0)} ELSE {}) = CopyRows(s, w, "ai_providers")
<1>1. ASSUME NEW c \in Tables \ {"ai_providers"}
      PROVE  {ImportRow(c, k, s, IF c = "postings" THEN Link(s, k) ELSE 0) : k \in SourceKeys[s][c]} = CopyRows(s, w, c)
  <2> DEFINE R == {ImportRow(c, k, s, IF c = "postings" THEN Link(s, k) ELSE 0) : k \in SourceKeys[s][c]}
  <2>1. ASSUME NEW r \in R PROVE r \in CopyRows(s, w, c)
    <3>1. PICK k \in SourceKeys[s][c] : r = ImportRow(c, k, s, IF c = "postings" THEN Link(s, k) ELSE 0)
      BY <2>1
    <3>2. r.table = c
      BY <3>1, RowFields
    <3>3. SourceRow(s, w, r)
      BY <3>1 DEF SourceRow
    <3> QED
      BY <3>2, <3>3, RowsOfSource DEF CopyRows
  <2>2. ASSUME NEW r \in CopyRows(s, w, c) PROVE r \in R
    <3>1. SourceRow(s, w, r) /\ r.table = c
      BY RowsOfSource DEF CopyRows
    <3>2. ~ (r = ImportRow("ai_providers", 1, KeyFile, 0))
      BY <3>1, RowFields
    <3>3. PICK d \in Tables \ {"ai_providers"} : \E k \in SourceKeys[s][d] :
                 r = ImportRow(d, k, s, IF d = "postings" THEN Link(s, k) ELSE 0)
      BY <3>1, <3>2 DEF SourceRow
    <3>4. d = c
      BY <3>1, <3>3, RowFields
    <3> QED
      BY <3>3, <3>4
  <2> QED
    BY <2>1, <2>2
<1>2. {ImportRow("postings", k, s, Link(s, k)) : k \in SourceKeys[s]["postings"]} = CopyRows(s, w, "postings")
  BY <1>1
<1>3. \A c \in Tables \ {"ai_providers", "postings"} : {ImportRow(c, k, s, 0) : k \in SourceKeys[s][c]} = CopyRows(s, w, c)
  BY <1>1
<1>4. (IF w THEN {ImportRow("ai_providers", 1, KeyFile, 0)} ELSE {}) = CopyRows(s, w, "ai_providers")
  <2>1. ASSUME NEW r \in CopyRows(s, w, "ai_providers") PROVE w /\ r = ImportRow("ai_providers", 1, KeyFile, 0)
    <3>1. SourceRow(s, w, r) /\ r.table = "ai_providers"
      BY RowsOfSource DEF CopyRows
    <3>2. ~ \E c \in Tables \ {"ai_providers"} : \E k \in SourceKeys[s][c] :
               r = ImportRow(c, k, s, IF c = "postings" THEN Link(s, k) ELSE 0)
      BY <3>1, RowFields
    <3> QED
      BY <3>1, <3>2 DEF SourceRow
  <2>2. ASSUME w PROVE ImportRow("ai_providers", 1, KeyFile, 0) \in CopyRows(s, w, "ai_providers")
    <3> DEFINE r == ImportRow("ai_providers", 1, KeyFile, 0)
    <3>1. SourceRow(s, w, r) /\ r.table = "ai_providers"
      BY <2>2, RowFields DEF SourceRow
    <3> QED
      BY <3>1, RowsOfSource DEF CopyRows
  <2> QED
    BY <2>1, <2>2
<1> QED
  BY <1>2, <1>3, <1>4

\* There are finitely many rows, so they can be counted.
LEMMA RowsFinite == IsFiniteSet(ImportRows)
<1> DEFINE X == ((Tables \X (1 .. MaxId)) \X (-1 .. LastSource)) \X (0 .. MaxId)
           rowAt == [x \in X |-> [table |-> x[1][1][1], key |-> x[1][1][2], from |-> x[1][2], dup |-> x[2]]]
<1>1. IsFiniteSet(Tables)
  <2>1. IsFiniteSet({}) /\ \A S, x : IsFiniteSet(S) => IsFiniteSet(S \cup {x})
    BY FS_EmptySet, FS_AddElement
  <2>2. Tables = {} \cup {"scores"} \cup {"bookmarks"} \cup {"not_interested"} \cup {"ai_extractions"}
                   \cup {"ai_scores"} \cup {"postings"} \cup {"profile"} \cup {"ai_usage"} \cup {"ai_providers"}
    OBVIOUS
  <2> QED
    BY <2>1, <2>2
<1>2. IsFiniteSet(1 .. MaxId) /\ IsFiniteSet(-1 .. LastSource) /\ IsFiniteSet(0 .. MaxId)
  BY FS_Interval, ImportAssumption
<1>3. IsFiniteSet(X)
  BY <1>1, <1>2, FS_Product
<1>4. ASSUME NEW r \in ImportRows PROVE \E x \in X : rowAt[x] = r
  <2>1. <<<<<<r.table, r.key>>, r.from>>, r.dup>> \in X
    BY DEF ImportRows
  <2>2. rowAt[<<<<<<r.table, r.key>>, r.from>>, r.dup>>] = r
    BY <2>1 DEF ImportRows
  <2> QED
    BY <2>1, <2>2
<1>5. rowAt \in [X -> ImportRows]
  BY DEF ImportRows
<1> HIDE DEF X, rowAt
<1>6. rowAt \in Surjection(X, ImportRows)
  BY <1>4, <1>5 DEF Surjection
<1> QED
  BY <1>3, <1>6, FS_Surjection

LEMMA EmptyRows ==
  ASSUME NEW t \in Targets PROVE Empty(t) <=> t.rows = {}
<1>1. ASSUME NEW c \in Tables PROVE IsFiniteSet(RowsIn(t, c))
  BY RowsFinite, FS_Subset DEF RowsIn, Targets
<1>2. ASSUME Empty(t), NEW r \in t.rows PROVE FALSE
  <2>1. r.table \in Tables /\ r \in RowsIn(t, r.table)
    BY DEF Targets, ImportRows, RowsIn
  <2>2. Cardinality(RowsIn(t, r.table)) = 0
    BY <1>2, <2>1 DEF Empty, TargetCounts, None
  <2> QED
    BY <1>1, <2>1, <2>2, FS_EmptySet
<1>3. ASSUME t.rows = {} PROVE Empty(t)
  <2>1. \A c \in Tables : RowsIn(t, c) = {}
    BY <1>3 DEF RowsIn
  <2> QED
    BY <2>1, FS_EmptySet DEF Empty, TargetCounts, None
<1> QED
  BY <1>2, <1>3

LEMMA GreatestId ==
  ASSUME NEW S \in SUBSET (1 .. MaxId)
  PROVE  Max(S \cup {0}) \in 0 .. MaxId /\ \A k \in S : k <= Max(S \cup {0})
<1> DEFINE N == {MaxId - k : k \in S \cup {0}}
<1>1. N \in SUBSET Nat /\ N # {} /\ MaxId \in Nat
  BY ImportAssumption
<1>2. PICK n \in N : \A m \in N : n <= m
  <2> HIDE DEF N
  <2> QED
    BY <1>1, LeastNumber
<1>3. PICK x \in S \cup {0} : n = MaxId - x
  BY <1>2
<1> HIDE DEF N
<1>4. ASSUME NEW k \in S \cup {0} PROVE x >= k
  <2>1. MaxId - k \in N
    BY DEF N
  <2>2. x \in Nat /\ k \in Nat
    BY <1>1, <1>3
  <2> QED
    BY <1>1, <1>2, <1>3, <2>1, <2>2
<1>5. ASSUME NEW y \in S \cup {0}, \A k \in S \cup {0} : y >= k PROVE y = x
  <2>1. x \in Int /\ y \in Int /\ x >= y /\ y >= x
    BY <1>1, <1>3, <1>4, <1>5
  <2> QED
    BY <2>1
<1>6. Max(S \cup {0}) = x
  BY <1>3, <1>4, <1>5 DEF Max
<1>7. Max(S \cup {0}) \in S \cup {0} /\ \A k \in S \cup {0} : Max(S \cup {0}) >= k
  BY <1>3, <1>4, <1>6
<1>8. Max(S \cup {0}) \in 0 .. MaxId
  <2>1. S \cup {0} \subseteq 0 .. MaxId
    BY <1>1
  <2> QED
    BY <1>7, <2>1
<1>9. ASSUME NEW k \in S PROVE k <= Max(S \cup {0})
  <2>1. k \in Int
    OBVIOUS
  <2> QED
    BY <1>7, <1>8, <2>1
<1> QED
  BY <1>8, <1>9

-----------------------------------------------------------------------------
(* Steps of one importer that leave the target alone.                      *)

\* Another importer keeps what it has, and i takes no lock that is held.
Leaves(i) ==
  /\ target' = target /\ server' = server /\ count'.uses = count.uses
  /\ lock' \in {lock, lock \ {i}} \/ lock = {}
  /\ \A j \in Importers \ {i} :
       /\ pc'[j] = pc[j] /\ who'[j] = who[j] /\ base'[j] = base[j] /\ tx'[j] = tx[j]
       /\ result'[j] = result[j] /\ src'[j] = src[j] /\ keyed'[j] = keyed[j]

LEMMA SourceCountsKept ==
  ASSUME NEW j, src'[j] = src[j], keyed'[j] = keyed[j] PROVE SourceCounts(j)' = SourceCounts(j)
<1>1. \A c : KeysOf(j, c)' = KeysOf(j, c)
  BY DEF KeysOf
<1> QED
  BY <1>1 DEF SourceCounts

LEMMA OthersKeep ==
  ASSUME ImportInv, NEW i \in Importers, Leaves(i), NEW j \in Importers \ {i}
  PROVE  InStep(j)'
<1>1. InStep(j)
  BY DEF ImportInv
<1>2. /\ pc'[j] = pc[j] /\ who'[j] = who[j] /\ base'[j] = base[j] /\ tx'[j] = tx[j]
      /\ result'[j] = result[j] /\ src'[j] = src[j] /\ keyed'[j] = keyed[j]
      /\ target' = target /\ server' = server /\ count'.uses = count.uses
      /\ lock' \in {lock, lock \ {i}} \/ lock = {}
  BY DEF Leaves
<1>3. DecidesAlone(j)'
  BY <1>1, <1>2 DEF DecidesAlone, InStep
<1>4. AsksForItsOwner(j)'
  BY <1>1, <1>2 DEF AsksForItsOwner, InStep
<1>5. SeesTarget(j)'
  BY <1>1, <1>2 DEF SeesTarget, InStep
<1>6. HasCopied(j)'
  BY <1>1, <1>2 DEF HasCopied, InStep, RowIds, RowsIn
<1>7. SourceCounts(j)' = SourceCounts(j) /\ TargetCounts(target)' = TargetCounts(target)
  BY <1>2, SourceCountsKept DEF TargetCounts, RowsIn
<1>8. MayVerify(j)'
  BY <1>1, <1>2, <1>7 DEF MayVerify, InStep
<1> QED
  BY <1>3, <1>4, <1>5, <1>6, <1>8 DEF InStep

\* So it is enough to look at the importer that moves.
LEMMA StepOf ==
  ASSUME ImportInv, NEW i \in Importers, Leaves(i), ImportTypes', InStep(i)' PROVE ImportInv'
<1>1. \A j \in Importers : InStep(j)'
  BY OthersKeep
<1>2. TargetWhole' /\ (target.owner <= count.uses + 1)'
  BY DEF Leaves, ImportInv, TargetWhole, OneSource, SequenceAhead, RowIds, RowsIn
<1> QED
  BY <1>1, <1>2 DEF ImportInv

LEMMA NoTargetTyped == NoTarget \in Targets
  BY ImportAssumption DEF NoTarget, Targets

\* A run that ends, whatever it reports.
EndsWith(i, r) == End(i, r) /\ UNCHANGED <<legacy, target, server, src, keyed, count>>
LEMMA EndKeeps ==
  ASSUME ImportInv, NEW i \in Importers, NEW r, r # "dangling", EndsWith(i, r)
  PROVE  ImportInv'
<1>1. ImportTypes /\ InStep(i)
  BY DEF ImportInv
<1>2. /\ pc'[i] = "idle" /\ result'[i] = r /\ who'[i] = 0 /\ lock' = lock \ {i}
      /\ UNCHANGED <<legacy, target, server, src, keyed, count>>
  BY <1>1 DEF EndsWith, End, ImportTypes
<1>3. Leaves(i)
  BY <1>1 DEF EndsWith, End, ImportTypes, Leaves
<1>4. ImportTypes'
  BY <1>1, NoTargetTyped DEF EndsWith, End, ImportTypes
<1>5. pc'[i] \notin Deciding \cup AfterCommit \cup {"lock"}
  BY <1>2, TurnFacts DEF Deciding
<1>6. who'[i] <= IF target'.owner = 0 THEN count'.uses ELSE target'.owner
  BY <1>1, <1>2 DEF ImportTypes, Targets
<1>7. InStep(i)'
  BY <1>2, <1>5, <1>6, TurnFacts DEF InStep, DecidesAlone, AsksForItsOwner, SeesTarget, HasCopied, MayVerify, Deciding
<1> QED
  BY <1>3, <1>4, <1>7, StepOf

Places == {"idle", "plan", "begin", "lock"} \cup Deciding \cup AfterCommit

\* Which place is which.
LEMMA PlaceFacts ==
  /\ {"idle", "plan", "begin", "lock"} \cap (Deciding \cup AfterCommit) = {} /\ Deciding \cap AfterCommit = {}
  /\ {"inspect", "clean"} \cap (Copying \cup AfterCommit) = {} /\ {"inspect", "clean"} \cup Copying \subseteq Deciding
  /\ Deciding \subseteq {"inspect", "clean"} \cup Copying /\ AfterCommit \subseteq Places /\ Deciding \subseteq Places
  BY TurnFacts DEF Deciding, Places

LEMMA SnapshotInv ==
  ASSUME ImportInv, NEW i \in Importers, NEW k \in BOOLEAN, Snapshot(i, k) PROVE ImportInv'
<1>1. ImportTypes /\ InStep(i) /\ pc[i] = "idle" /\ ~ server
  BY DEF ImportInv, Snapshot
<1>2. CASE legacy.writing
  <2>1. /\ End(i, "refused") /\ UNCHANGED <<legacy, target, server, src, keyed>>
        /\ count' = [count EXCEPT !.runs = @ + 1]
    BY <1>2 DEF Snapshot
  <2>2. /\ pc'[i] = "idle" /\ result'[i] = "refused" /\ who'[i] = 0 /\ lock' = lock \ {i}
        /\ UNCHANGED <<target, server>> /\ count'.uses = count.uses
    BY <1>1, <2>1 DEF End, ImportTypes
  <2>3. Leaves(i)
    BY <1>1, <2>1 DEF End, ImportTypes, Leaves
  <2>4. ImportTypes'
    BY <1>1, <2>1, NoTargetTyped DEF End, ImportTypes
  <2>5. who'[i] <= IF target'.owner = 0 THEN count'.uses ELSE target'.owner
    BY <1>1, <2>2 DEF ImportTypes, Targets
  <2>6. InStep(i)'
    BY <2>2, <2>5, PlaceFacts DEF InStep, DecidesAlone, AsksForItsOwner, SeesTarget, HasCopied, MayVerify
  <2> QED
    BY <2>3, <2>4, <2>6, StepOf
<1>3. CASE ~ legacy.writing
  <2>1. /\ src' = [src EXCEPT ![i] = legacy.content] /\ keyed' = [keyed EXCEPT ![i] = k]
        /\ pc' = [pc EXCEPT ![i] = "plan"] /\ result' = [result EXCEPT ![i] = "none"]
        /\ UNCHANGED <<who, base, tx, lock, legacy, target, server>> /\ count' = [count EXCEPT !.runs = @ + 1]
    BY <1>3 DEF Snapshot
  <2>2. pc'[i] = "plan" /\ result'[i] = "none" /\ who'[i] = who[i] /\ target' = target /\ ~ server' /\ count'.uses = count.uses
    BY <1>1, <2>1 DEF ImportTypes
  <2>3. Leaves(i)
    BY <1>1, <2>1 DEF ImportTypes, Leaves
  <2>4. ImportTypes'
    BY <1>1, <2>1 DEF ImportTypes
  <2>5. InStep(i)'
    BY <1>1, <2>2, PlaceFacts DEF InStep, DecidesAlone, AsksForItsOwner, SeesTarget, HasCopied, MayVerify
  <2> QED
    BY <2>3, <2>4, <2>5, StepOf
<1> QED
  BY <1>2, <1>3

LEMMA PlanInv == ASSUME ImportInv, NEW i \in Importers, Plan(i) PROVE ImportInv'
<1>1. ImportTypes /\ InStep(i) /\ pc[i] = "plan"
  BY DEF ImportInv, Plan
<1>2. CASE \E r \in {"refused", "planned"} : EndsWith(i, r)
  BY <1>2, EndKeeps
<1>3. CASE OwnerFound /\ who' = [who EXCEPT ![i] = target.owner] /\ pc' = [pc EXCEPT ![i] = "begin"]
           /\ UNCHANGED <<base, tx, lock, result, legacy, target, server, src, keyed, count>>
  <2>1. pc'[i] = "begin" /\ who'[i] = target.owner /\ target.owner # 0 /\ UNCHANGED <<target, server, count, lock, result>>
    BY <1>1, <1>3 DEF ImportTypes, OwnerFound
  <2>2. target.owner \in Nat /\ target.owner <= target.owner
    BY <1>1 DEF ImportTypes, Targets
  <2>3. Leaves(i)
    BY <1>1, <1>3 DEF ImportTypes, Leaves
  <2>4. ImportTypes'
    BY <1>1, <1>3, <2>2 DEF ImportTypes
  <2>5. InStep(i)'
    BY <1>1, <2>1, <2>2, PlaceFacts DEF InStep, DecidesAlone, AsksForItsOwner, SeesTarget, HasCopied, MayVerify
  <2> QED
    BY <2>3, <2>4, <2>5, StepOf
<1> QED
  BY <1>2, <1>3 DEF Plan, EndsWith

LEMMA BeginTxInv == ASSUME ImportInv, NEW i \in Importers, BeginTx(i) PROVE ImportInv'
<1>1. ImportTypes /\ InStep(i) /\ pc[i] = "begin"
  BY DEF ImportInv, BeginTx
<1>2. /\ pc'[i] = "lock" /\ base'[i] = target /\ tx'[i] = target
      /\ UNCHANGED <<legacy, target, server, src, keyed, who, lock, result, count>>
  BY <1>1 DEF BeginTx, ImportTypes
<1>3. Leaves(i) /\ ImportTypes'
  BY <1>1 DEF ImportTypes, Leaves, BeginTx
<1>4. InStep(i)'
  BY <1>1, <1>2, PlaceFacts DEF InStep, DecidesAlone, AsksForItsOwner, SeesTarget, HasCopied, MayVerify
<1> QED
  BY <1>3, <1>4, StepOf

LEMMA LockInv == ASSUME ImportInv, NEW i \in Importers, LockImportDecision(i) PROVE ImportInv'
<1>1. ImportTypes /\ InStep(i) /\ pc[i] = "lock" /\ lock = {}
  BY DEF ImportInv, LockImportDecision
<1>2. CASE base[i].owner = who[i] /\ target.owner = who[i]
  <2>1. /\ lock' = {i} /\ pc' = [pc EXCEPT ![i] = "inspect"]
        /\ UNCHANGED <<who, tx, base, result, legacy, target, server, src, keyed, count>>
    BY <1>2 DEF LockImportDecision
  <2>2. pc'[i] = "inspect"
    BY <1>1, <2>1 DEF ImportTypes
  <2>3. Leaves(i) /\ ImportTypes'
    BY <1>1, <2>1, PlaceFacts DEF ImportTypes, Leaves, Places
  <2>4. InStep(i)'
    BY <1>1, <1>2, <2>1, <2>2, PlaceFacts DEF InStep, DecidesAlone, AsksForItsOwner, SeesTarget, HasCopied, MayVerify
  <2> QED
    BY <2>3, <2>4, StepOf
<1>3. CASE EndsWith(i, "failed")
  BY <1>3, EndKeeps
<1> QED
  BY <1>2, <1>3 DEF LockImportDecision, EndsWith

LEMMA InspectInv == ASSUME ImportInv, NEW i \in Importers, InspectLedger(i) PROVE ImportInv'
<1>1. ImportTypes /\ InStep(i) /\ pc[i] = "inspect" /\ pc[i] \in Deciding
  BY PlaceFacts DEF ImportInv, InspectLedger
<1>2. CASE base[i].ledger = {}
  <2>1. pc' = [pc EXCEPT ![i] = "clean"] /\ UNCHANGED <<who, base, tx, lock, result, legacy, target, server, src, keyed, count>>
    BY <1>2 DEF InspectLedger, GoTo
  <2>2. pc'[i] = "clean"
    BY <1>1, <2>1 DEF ImportTypes
  <2>3. Leaves(i) /\ ImportTypes'
    BY <1>1, <2>1, PlaceFacts DEF ImportTypes, Leaves, Places
  <2>4. InStep(i)'
    BY <1>1, <1>2, <2>1, <2>2, PlaceFacts DEF InStep, DecidesAlone, AsksForItsOwner, SeesTarget, HasCopied, MayVerify
  <2> QED
    BY <2>3, <2>4, StepOf
<1>3. CASE base[i].ledger # {} /\ base[i].ledger = {src[i]}
  <2>1. /\ pc' = [pc EXCEPT ![i] = "verifyCounts"] /\ lock' = {} /\ who' = who
        /\ tx' = [tx EXCEPT ![i] = NoTarget] /\ base' = [base EXCEPT ![i] = NoTarget]
        /\ result' = [result EXCEPT ![i] = "repeated"] /\ UNCHANGED <<legacy, target, server, src, keyed, count>>
    BY <1>3 DEF InspectLedger
  <2>2. pc'[i] = "verifyCounts" /\ result'[i] = "repeated" /\ lock = {i} /\ base[i] = target
    BY <1>1, <1>3, <2>1, PlaceFacts DEF ImportTypes, InStep, DecidesAlone, SeesTarget
  <2>3. Leaves(i)
    BY <1>1, <2>1, <2>2 DEF ImportTypes, Leaves
  <2>4. ImportTypes'
    BY <1>1, <2>1, NoTargetTyped, PlaceFacts DEF ImportTypes, Places
  <2>5. InStep(i)'
    BY <1>1, <1>3, <2>1, <2>2, PlaceFacts DEF InStep, DecidesAlone, AsksForItsOwner, SeesTarget, HasCopied, MayVerify
  <2> QED
    BY <2>3, <2>4, <2>5, StepOf
<1>4. CASE EndsWith(i, "refused")
  BY <1>4, EndKeeps
<1> QED
  BY <1>2, <1>3, <1>4 DEF InspectLedger, EndsWith

LEMMA CheckCleanInv == ASSUME ImportInv, NEW i \in Importers, CheckClean(i) PROVE ImportInv'
<1>1. ImportTypes /\ InStep(i) /\ pc[i] = "clean" /\ pc[i] \in Deciding
  BY PlaceFacts DEF ImportInv, CheckClean
<1>2. CASE Clean(i)
  <2>1. pc' = [pc EXCEPT ![i] = "postings"] /\ UNCHANGED <<who, base, tx, lock, result, legacy, target, server, src, keyed, count>>
    BY <1>2 DEF CheckClean, GoTo
  <2>2. pc'[i] = "postings" /\ "postings" \in Copying /\ tx[i] \in Targets /\ src[i] \in Sources /\ keyed[i] \in BOOLEAN
    BY <1>1, <2>1, TurnFacts DEF ImportTypes
  <2>3. tx[i].rows = {} /\ base[i] = tx[i] /\ base[i].owner = who[i] /\ base[i].ledger = {}
    BY <1>1, <1>2, <2>2, EmptyRows DEF Clean, InStep, SeesTarget
  <2>4. Leaves(i) /\ ImportTypes'
    BY <1>1, <2>1, <2>2, PlaceFacts DEF ImportTypes, Leaves, Places
  <2>5. {r \in ImportedRows(src[i], keyed[i]) : StepOrder[r.table] < StepOrder["postings"]} = {}
    <3>1. ASSUME NEW r \in ImportedRows(src[i], keyed[i]) PROVE ~ (StepOrder[r.table] < StepOrder["postings"])
      <4>1. StepOrder[r.table] \in 1 .. 13 /\ StepOrder["postings"] = 1
        BY <2>2, ImportedFacts, TurnFacts
      <4> QED
        BY <4>1
    <3> QED
      BY <3>1
  <2>6. HasCopied(i)'
    BY <2>1, <2>2, <2>3, <2>5, TurnFacts DEF HasCopied
  <2>7. InStep(i)'
    BY <1>1, <2>1, <2>2, <2>3, <2>6, PlaceFacts DEF InStep, DecidesAlone, AsksForItsOwner, SeesTarget, MayVerify
  <2> QED
    BY <2>4, <2>7, StepOf
<1>3. CASE EndsWith(i, "refused")
  BY <1>3, EndKeeps
<1> QED
  BY <1>2, <1>3 DEF CheckClean, EndsWith

-----------------------------------------------------------------------------
(* The transaction's writes.                                               *)

\* A step of the transaction that only writes.
Writes(i, p, t) ==
  /\ pc' = [pc EXCEPT ![i] = p] /\ tx' = [tx EXCEPT ![i] = t]
  /\ UNCHANGED <<who, base, lock, result, legacy, target, server, src, keyed, count>>

LEMMA WritesKeep ==
  ASSUME ImportInv, NEW i \in Importers, pc[i] \in Copying, NEW p \in Copying, NEW t \in Targets, Writes(i, p, t),
         t.owner = tx[i].owner,
         t.rows = {r \in ImportedRows(src[i], keyed[i]) : StepOrder[r.table] < StepOrder[p]},
         t.ledger = IF p = "commit" THEN {src[i]} ELSE {},
         StepOrder[p] > StepOrder["sequence"] => \A k \in RowIds(t) : k < t.seq
  PROVE  ImportInv'
<1>1. ImportTypes /\ InStep(i) /\ pc[i] \in Deciding
  BY PlaceFacts DEF ImportInv
<1>2. /\ pc'[i] = p /\ tx'[i] = t
      /\ UNCHANGED <<who, base, lock, result, legacy, target, server, src, keyed, count>>
  BY <1>1 DEF Writes, ImportTypes
<1>3. Leaves(i)
  BY <1>1 DEF ImportTypes, Leaves, Writes
<1>4. ImportTypes'
  BY <1>1, PlaceFacts DEF ImportTypes, Places, Writes
<1>5. HasCopied(i)'
  <2>1. base[i].rows = {} /\ tx[i].owner = who[i]
    BY <1>1 DEF InStep, HasCopied
  <2>2. RowIds(tx[i])' = RowIds(t)
    BY <1>2 DEF RowIds, RowsIn
  <2> QED
    BY <1>2, <2>1, <2>2 DEF HasCopied
<1>6. InStep(i)'
  BY <1>1, <1>2, <1>5, PlaceFacts DEF InStep, DecidesAlone, AsksForItsOwner, SeesTarget, MayVerify
<1> QED
  BY <1>3, <1>4, <1>6, StepOf

LEMMA UpsertInv ==
  ASSUME ImportInv, NEW i \in Importers, NEW c \in Tables, NEW next \in Copying, pc[i] = c, StepOrder[next] = StepOrder[c] + 1,
         Upsert(i, CopyRows(src[i], keyed[i], c), next), UNCHANGED <<legacy, target, server, src, keyed, count>>
  PROVE  ImportInv'
<1> DEFINE R == CopyRows(src[i], keyed[i], c)
           t == [tx[i] EXCEPT !.rows = {q \in tx[i].rows : ~\E r \in R : Same(q, r)} \cup R]
<1>1. ImportTypes /\ InStep(i) /\ c \in Copying /\ tx[i] \in Targets /\ src[i] \in Sources /\ keyed[i] \in BOOLEAN
  BY TurnFacts DEF ImportInv, ImportTypes
<1>2. StepOrder[c] \in 1 .. 9 /\ c # "commit" /\ next # "commit" /\ (c \in OfPosting => StepOrder[c] > 1) /\ StepOrder[next] \in 2 .. 10
  BY <1>1, TurnFacts
<1>3. /\ base[i].rows = {} /\ tx[i].owner = who[i] /\ tx[i].ledger = {}
      /\ tx[i].rows = {r \in ImportedRows(src[i], keyed[i]) : StepOrder[r.table] < StepOrder[c]}
  BY <1>1, <1>2 DEF InStep, HasCopied
<1>4. ASSUME NEW r \in R, r.table \in OfPosting PROVE r.key \in RowIds(tx[i])
  <2>1. r \in ImportedRows(src[i], keyed[i]) /\ r.table = c
    BY DEF CopyRows
  <2>2. r.key \in SourceKeys[src[i]]["postings"]
    BY <1>1, <1>4, <2>1, ImportedFacts, ImportAssumption
  <2> DEFINE q == ImportRow("postings", r.key, src[i], Link(src[i], r.key))
  <2>3. q \in CopyRows(src[i], keyed[i], "postings")
    BY <2>2, RowsOfTable
  <2>4. q.table = "postings" /\ q.key = r.key
    BY RowFields
  <2>5. StepOrder[q.table] < StepOrder[c]
    BY <1>2, <1>4, <2>1, <2>4, TurnFacts
  <2>6. q \in tx[i].rows
    BY <1>3, <2>3, <2>5 DEF CopyRows
  <2> HIDE DEF q
  <2> QED
    BY <2>4, <2>6 DEF RowIds, RowsIn
<1>5. CASE EndsWith(i, "failed")
  BY <1>5, EndKeeps
<1>6. CASE GoTo(i, next) /\ tx' = [tx EXCEPT ![i].rows = {q \in @ : ~\E r \in R : Same(q, r)} \cup R]
  <2>1. Writes(i, next, t)
    BY <1>1, <1>6 DEF Writes, GoTo, ImportTypes
  <2>2. R \subseteq ImportRows
    BY <1>1, ImportedFacts DEF CopyRows
  <2>3. t \in Targets
    BY <1>1, <2>2 DEF Targets
  <2>4. t.owner = tx[i].owner /\ t.ledger = {} /\ t.rows = {q \in tx[i].rows : ~\E r \in R : Same(q, r)} \cup R
    BY <1>1, <1>3 DEF Targets
  <2>5. {q \in tx[i].rows : ~\E r \in R : Same(q, r)} = tx[i].rows
    <3>1. ASSUME NEW q \in tx[i].rows, NEW r \in R PROVE ~ Same(q, r)
      <4>1. StepOrder[q.table] < StepOrder[c] /\ r.table = c
        BY <1>3 DEF CopyRows
      <4>2. q.table # c
        BY <1>2, <4>1
      <4> QED
        BY <4>1, <4>2 DEF Same
    <3> HIDE DEF R
    <3> QED
      BY <3>1
  <2>6. t.rows = {r \in ImportedRows(src[i], keyed[i]) : StepOrder[r.table] < StepOrder[next]}
    <3>1. ASSUME NEW r \in ImportedRows(src[i], keyed[i])
          PROVE  StepOrder[r.table] < StepOrder[next] <=> StepOrder[r.table] < StepOrder[c] \/ r.table = c
      <4>1. r.table \in Copying
        BY <1>1, ImportedFacts, TurnFacts
      <4>2. StepOrder[r.table] \in 1 .. 13 /\ (StepOrder[r.table] = StepOrder[c] => r.table = c)
        BY <1>1, <4>1, TurnFacts
      <4> QED
        BY <1>2, <4>2
    <3> QED
      BY <1>3, <2>4, <2>5, <3>1 DEF CopyRows
  <2>7. ~ (StepOrder[next] > StepOrder["sequence"])
    BY <1>2, TurnFacts
  <2> HIDE DEF t
  <2> QED
    BY <1>1, <1>2, <2>1, <2>3, <2>4, <2>6, <2>7, WritesKeep
<1> HIDE DEF R
<1> QED
  BY <1>4, <1>5, <1>6 DEF Upsert, EndsWith, R

LEMMA CopyInv == ASSUME ImportInv, NEW i \in Importers, Copy(i) PROVE ImportInv'
<1>1. UNCHANGED <<legacy, target, server, src, keyed, count>>
  BY DEF Copy, CopyPostings, CopyProfile, CopyScores, CopyBookmarks, CopyNotInterested, CopyAIExtractions,
         CopyAIScores, CopyAIUsage, CopyEncryptedCredentials, CopyTable
<1>2. ASSUME NEW c \in Tables \ {"postings", "ai_providers"}, NEW next \in Copying, StepOrder[next] = StepOrder[c] + 1,
             CopyTable(i, c, next)
      PROVE  ImportInv'
  <2>1. {ImportRow(c, k, src[i], 0) : k \in SourceKeys[src[i]][c]} = CopyRows(src[i], keyed[i], c)
    <3>1. c \in Tables \ {"ai_providers", "postings"}
      BY <1>2
    <3>2. \A d \in Tables \ {"ai_providers", "postings"} :
            {ImportRow(d, k, src[i], 0) : k \in SourceKeys[src[i]][d]} = CopyRows(src[i], keyed[i], d)
      BY RowsOfTable
    <3> QED
      BY <3>1, <3>2, Zenon
  <2>2. Upsert(i, {ImportRow(c, k, src[i], 0) : k \in SourceKeys[src[i]][c]}, next) /\ pc[i] = c
    BY <1>2 DEF CopyTable
  <2>3. Upsert(i, CopyRows(src[i], keyed[i], c), next) /\ pc[i] = c
    BY <2>1, <2>2
  <2> QED
    BY <1>1, <1>2, <2>3, UpsertInv
<1>3. CASE CopyPostings(i)
  <2>1. Upsert(i, CopyRows(src[i], keyed[i], "postings"), "profile") /\ pc[i] = "postings"
    BY <1>3, RowsOfTable DEF CopyPostings
  <2> QED
    BY <1>1, <2>1, UpsertInv, TurnFacts
<1>4. CASE CopyEncryptedCredentials(i)
  <2>1. Upsert(i, CopyRows(src[i], keyed[i], "ai_providers"), "sequence") /\ pc[i] = "ai_providers"
    BY <1>4, RowsOfTable DEF CopyEncryptedCredentials
  <2> QED
    BY <1>1, <2>1, UpsertInv, TurnFacts
<1>5. CASE CopyProfile(i)
  BY <1>2, <1>5, TurnFacts DEF CopyProfile
<1>6. CASE CopyScores(i)
  BY <1>2, <1>6, TurnFacts DEF CopyScores
<1>7. CASE CopyBookmarks(i)
  BY <1>2, <1>7, TurnFacts DEF CopyBookmarks
<1>8. CASE CopyNotInterested(i)
  BY <1>2, <1>8, TurnFacts DEF CopyNotInterested
<1>9. CASE CopyAIExtractions(i)
  BY <1>2, <1>9, TurnFacts DEF CopyAIExtractions
<1>10. CASE CopyAIScores(i)
  BY <1>2, <1>10, TurnFacts DEF CopyAIScores
<1>11. CASE CopyAIUsage(i)
  BY <1>2, <1>11, TurnFacts DEF CopyAIUsage
<1> QED
  BY <1>3, <1>4, <1>5, <1>6, <1>7, <1>8, <1>9, <1>10, <1>11 DEF Copy

\* All tables are copied before the sequence is set.
LEMMA AllTables ==
  ASSUME NEW s \in Sources, NEW w \in BOOLEAN, NEW p \in {"sequence", "verifyCopy", "ledger", "commit"}
  PROVE  {r \in ImportedRows(s, w) : StepOrder[r.table] < StepOrder[p]} = ImportedRows(s, w)
<1>1. ASSUME NEW r \in ImportedRows(s, w) PROVE StepOrder[r.table] \in 1 .. 9
  <2>1. r.table \in Tables
    BY ImportedFacts
  <2> QED
    BY <2>1, TurnFacts
<1>2. StepOrder[p] \in 10 .. 13
  BY TurnFacts
<1> QED
  BY <1>1, <1>2

WholeBy(i) ==
  /\ pc[i] \in Copying /\ tx[i] \in Targets /\ src[i] \in Sources /\ keyed[i] \in BOOLEAN
  /\ base[i].rows = {} /\ base[i].ledger = {} /\ base[i].owner = who[i]
  /\ tx[i].owner = who[i] /\ target.owner = who[i] /\ lock = {i}
  /\ tx[i].rows = ImportedRows(src[i], keyed[i])
  /\ tx[i].ledger = IF pc[i] = "commit" THEN {src[i]} ELSE {}
  /\ pc[i] # "sequence" => \A k \in RowIds(tx[i]) : k < tx[i].seq

LEMMA AllCopied ==
  ASSUME ImportInv, NEW i \in Importers, pc[i] \in {"sequence", "verifyCopy", "ledger", "commit"}
  PROVE  WholeBy(i)
<1>1. ImportTypes /\ InStep(i) /\ pc[i] \in Copying
  BY TurnFacts DEF ImportInv
<1>2. src[i] \in Sources /\ keyed[i] \in BOOLEAN /\ tx[i] \in Targets
  BY <1>1 DEF ImportTypes
<1>3. {r \in ImportedRows(src[i], keyed[i]) : StepOrder[r.table] < StepOrder[pc[i]]} = ImportedRows(src[i], keyed[i])
  BY <1>2, AllTables
<1>4. pc[i] # "sequence" => StepOrder[pc[i]] > StepOrder["sequence"]
  BY TurnFacts
<1>5. pc[i] \in Deciding /\ pc[i] \in {"clean"} \cup Copying
  BY <1>1, PlaceFacts
<1>6. HasCopied(i) /\ SeesTarget(i) /\ DecidesAlone(i)
  BY <1>1 DEF InStep
<1>7. /\ base[i].rows = {} /\ tx[i].owner = who[i] /\ tx[i].rows = ImportedRows(src[i], keyed[i])
      /\ tx[i].ledger = IF pc[i] = "commit" THEN {src[i]} ELSE {}
      /\ pc[i] # "sequence" => \A k \in RowIds(tx[i]) : k < tx[i].seq
  BY <1>1, <1>3, <1>4, <1>6 DEF HasCopied
<1> QED
  BY <1>1, <1>2, <1>5, <1>6, <1>7 DEF WholeBy, SeesTarget, DecidesAlone

\* The last writes change the sequence or the ledger, not the rows.
LEMMA LastWritesKeep ==
  ASSUME ImportInv, NEW i \in Importers, WholeBy(i), NEW p \in {"verifyCopy", "ledger", "commit"}, NEW t \in Targets,
         Writes(i, p, t), t.owner = tx[i].owner, t.rows = tx[i].rows, t.ledger = IF p = "commit" THEN {src[i]} ELSE {},
         \A k \in RowIds(t) : k < t.seq
  PROVE  ImportInv'
<1>1. p \in Copying /\ pc[i] \in Copying
  BY TurnFacts DEF WholeBy
<1>2. t.rows = {r \in ImportedRows(src[i], keyed[i]) : StepOrder[r.table] < StepOrder[p]}
  BY AllTables DEF WholeBy
<1> QED
  BY <1>1, <1>2, WritesKeep

LEMMA ResetSequenceInv == ASSUME ImportInv, NEW i \in Importers, ResetSequence(i) PROVE ImportInv'
<1>1. pc[i] = "sequence" /\ ImportTypes /\ WholeBy(i) /\ tx[i] \in Targets /\ tx[i].ledger = {}
  BY AllCopied DEF ResetSequence, ImportInv, WholeBy
<1> DEFINE m == Max(RowIds(tx[i]) \cup {0})
           t == [tx[i] EXCEPT !.seq = m + 1]
<1>2. RowIds(tx[i]) \in SUBSET (1 .. MaxId)
  BY <1>1 DEF RowIds, RowsIn, Targets, ImportRows
<1>3. m \in 0 .. MaxId /\ \A k \in RowIds(tx[i]) : k <= m
  BY <1>2, GreatestId
<1>4. Writes(i, "verifyCopy", t)
  BY <1>1 DEF ResetSequence, GoTo, Writes, ImportTypes
<1> HIDE DEF m
<1>5. t \in Targets /\ t.owner = tx[i].owner /\ t.rows = tx[i].rows /\ t.ledger = tx[i].ledger /\ t.seq = m + 1
  BY <1>1, <1>3, ImportAssumption DEF Targets
<1>6. \A k \in RowIds(t) : k < t.seq
  <2>1. RowIds(t) = RowIds(tx[i])
    BY <1>5 DEF RowIds, RowsIn
  <2> QED
    BY <1>2, <1>3, <1>5, <2>1
<1> HIDE DEF t
<1> QED
  BY <1>1, <1>4, <1>5, <1>6, LastWritesKeep

LEMMA VerifyCopyInv == ASSUME ImportInv, NEW i \in Importers, VerifyCopy(i) PROVE ImportInv'
<1>1. /\ pc[i] = "verifyCopy" /\ ImportTypes /\ WholeBy(i) /\ tx[i] \in Targets /\ tx[i].ledger = {}
      /\ \A k \in RowIds(tx[i]) : k < tx[i].seq
  BY AllCopied DEF VerifyCopy, ImportInv, WholeBy
<1>2. CASE EndsWith(i, "failed")
  BY <1>2, EndKeeps
<1>3. CASE GoTo(i, "ledger") /\ UNCHANGED <<tx, legacy, target, server, src, keyed, count>>
  <2>1. Writes(i, "ledger", tx[i])
    BY <1>1, <1>3 DEF GoTo, Writes, ImportTypes
  <2> QED
    BY <1>1, <2>1, LastWritesKeep
<1> QED
  BY <1>2, <1>3 DEF VerifyCopy, EndsWith

LEMMA InsertLedgerInv == ASSUME ImportInv, NEW i \in Importers, InsertLedger(i) PROVE ImportInv'
<1>1. /\ pc[i] = "ledger" /\ ImportTypes /\ WholeBy(i) /\ tx[i] \in Targets /\ tx[i].ledger = {}
      /\ (\A k \in RowIds(tx[i]) : k < tx[i].seq) /\ src[i] \in Sources
  BY AllCopied DEF InsertLedger, ImportInv, WholeBy
<1>2. CASE EndsWith(i, "failed")
  BY <1>2, EndKeeps
<1>3. CASE /\ GoTo(i, "commit") /\ tx' = [tx EXCEPT ![i].ledger = @ \cup {src[i]}]
           /\ UNCHANGED <<legacy, target, server, src, keyed, count>>
  <2> DEFINE t == [tx[i] EXCEPT !.ledger = tx[i].ledger \cup {src[i]}]
  <2>1. Writes(i, "commit", t)
    BY <1>1, <1>3 DEF GoTo, Writes, ImportTypes
  <2>2. /\ t \in Targets /\ t.owner = tx[i].owner /\ t.rows = tx[i].rows /\ t.ledger = {src[i]} /\ t.seq = tx[i].seq
    BY <1>1 DEF Targets
  <2>3. \A k \in RowIds(t) : k < t.seq
    BY <1>1, <2>2 DEF RowIds, RowsIn
  <2> HIDE DEF t
  <2> QED
    BY <1>1, <2>1, <2>2, <2>3, LastWritesKeep
<1> QED
  BY <1>2, <1>3 DEF InsertLedger, EndsWith

-----------------------------------------------------------------------------
(* The commit, and what follows it.                                        *)

\* What the invariant says of a target.
WholeTarget(t) ==
  /\ Cardinality(t.ledger) <= 1
  /\ \A r, q \in t.rows : {r.from, q.from} \subseteq Sources => r.from = q.from
  /\ \A r \in t.rows : r.table \notin Shared /\ r.from \in Sources => r.from \in t.ledger
  /\ \A k \in RowIds(t) : k < t.seq
  /\ \A r \in t.rows : /\ r.table \in OfPosting => r.key \in RowIds(t)
                       /\ r.dup # 0 => r.dup \in RowIds(t)
LEMMA TargetIsWhole == TargetWhole <=> WholeTarget(target)
  BY DEF TargetWhole, WholeTarget, OneSource, SequenceAhead
LEMMA TargetIsWholeNext == TargetWhole' <=> WholeTarget(target')
  BY DEF TargetWhole, WholeTarget, OneSource, SequenceAhead, RowIds, RowsIn

\* A target that is one source and nothing else.
LEMMA SourceIsWhole ==
  ASSUME NEW t, NEW s \in Sources, NEW w \in BOOLEAN, t.rows = ImportedRows(s, w), t.ledger = {s},
         \A k \in RowIds(t) : k < t.seq
  PROVE  WholeTarget(t)
<1>1. ASSUME NEW r \in t.rows
      PROVE  /\ r.from \in {s, KeyFile} /\ (r.table \in OfPosting => r.key \in RowIds(t))
             /\ r.dup # 0 => r.dup \in RowIds(t)
  <2>1. /\ r.table \in Tables /\ r.from \in {s, KeyFile} /\ (r.table # "ai_providers" => r.key \in SourceKeys[s][r.table])
        /\ r.dup # 0 => r.dup \in SourceKeys[s]["postings"]
    BY ImportedFacts
  <2>2. ASSUME NEW k \in SourceKeys[s]["postings"] PROVE k \in RowIds(t)
    <3> DEFINE q == ImportRow("postings", k, s, Link(s, k))
    <3>1. q \in CopyRows(s, w, "postings") /\ q.table = "postings" /\ q.key = k
      BY RowsOfTable, RowFields
    <3> HIDE DEF q
    <3> QED
      BY <3>1 DEF CopyRows, RowIds, RowsIn
  <2>3. r.table \in OfPosting => r.key \in SourceKeys[s]["postings"]
    BY <2>1, ImportAssumption
  <2> QED
    BY <2>1, <2>2, <2>3
<1>2. KeyFile \notin Sources
  BY ImportAssumption
<1>3. Cardinality(t.ledger) <= 1
  <2>1. Cardinality({s}) = 1
    BY FS_Singleton
  <2> QED
    BY <2>1
<1>4. \A r \in t.rows : r.from \in Sources => r.from = s
  BY <1>1, <1>2
<1>5. \A r, q \in t.rows : {r.from, q.from} \subseteq Sources => r.from = q.from
  BY <1>4
<1>6. \A r \in t.rows : r.table \notin Shared /\ r.from \in Sources => r.from \in t.ledger
  BY <1>4
<1> QED
  BY <1>1, <1>3, <1>5, <1>6 DEF WholeTarget

LEMMA CommitInv == ASSUME ImportInv, NEW i \in Importers, Commit(i) PROVE ImportInv'
<1>1. pc[i] = "commit" /\ ImportTypes /\ InStep(i) /\ WholeBy(i)
  BY AllCopied DEF Commit, ImportInv
<1>2. CASE EndsWith(i, "failed")
  BY <1>2, EndKeeps
<1>3. CASE /\ target.ledger = base[i].ledger /\ target' = tx[i] /\ UNCHANGED <<legacy, server, src, keyed, count>>
           /\ \/ End(i, "failed")
              \/ /\ pc' = [pc EXCEPT ![i] = "verifyCounts"] /\ lock' = lock \ {i}
                 /\ base' = [base EXCEPT ![i] = NoTarget] /\ tx' = [tx EXCEPT ![i] = NoTarget]
                 /\ UNCHANGED <<who, result>>
  <2>1. /\ pc' \in {[pc EXCEPT ![i] = "idle"], [pc EXCEPT ![i] = "verifyCounts"]}
        /\ who' \in {who, [who EXCEPT ![i] = 0]} /\ result' \in {result, [result EXCEPT ![i] = "failed"]}
        /\ lock' = lock \ {i} /\ base' = [base EXCEPT ![i] = NoTarget] /\ tx' = [tx EXCEPT ![i] = NoTarget]
    BY <1>3 DEF End
  <2>2. \/ pc'[i] = "idle" /\ who'[i] = 0 /\ result'[i] = "failed"
        \/ pc'[i] = "verifyCounts" /\ who'[i] = who[i] /\ result'[i] = result[i]
    BY <1>1, <1>3 DEF End, ImportTypes
  <2>3. /\ target'.owner = target.owner /\ target'.owner = who[i] /\ target'.ledger = {src[i]} /\ target.ledger = {}
        /\ target'.rows = ImportedRows(src[i], keyed[i]) /\ src[i] \in Sources /\ keyed[i] \in BOOLEAN
        /\ \A k \in RowIds(target') : k < target'.seq
    BY <1>1, <1>3 DEF WholeBy
  <2>4. ImportTypes'
    BY <1>1, <1>3, <2>1, NoTargetTyped, PlaceFacts DEF ImportTypes, WholeBy, Places
  <2>5. TargetWhole'
    BY <2>3, SourceIsWhole, TargetIsWholeNext
  <2>6. ASSUME NEW j \in Importers \ {i} PROVE InStep(j)'
    <3>1. InStep(j) /\ lock = {i} /\ lock' = {}
      BY <1>1, <2>1 DEF ImportInv, WholeBy
    <3>2. /\ pc'[j] = pc[j] /\ who'[j] = who[j] /\ base'[j] = base[j] /\ tx'[j] = tx[j] /\ result'[j] = result[j]
          /\ src'[j] = src[j] /\ keyed'[j] = keyed[j] /\ server' = server /\ count' = count
      BY <1>1, <1>3, <2>1 DEF ImportTypes
    <3>3. pc[j] \notin Deciding /\ pc[j] \notin Copying
      BY <3>1, PlaceFacts DEF InStep, DecidesAlone
    <3>4. ~ (pc[j] \in AfterCommit /\ target.owner = who[j])
      BY <2>3, <3>1 DEF InStep, MayVerify
    <3>5. DecidesAlone(j)' /\ HasCopied(j)'
      BY <3>1, <3>2, <3>3 DEF InStep, DecidesAlone, HasCopied
    <3>6. AsksForItsOwner(j)'
      BY <2>3, <3>1, <3>2 DEF InStep, AsksForItsOwner
    <3>7. SeesTarget(j)'
      BY <2>3, <3>1, <3>2, <3>3, PlaceFacts DEF InStep, SeesTarget
    <3>8. MayVerify(j)'
      BY <2>3, <3>1, <3>2, <3>4 DEF InStep, MayVerify
    <3> QED
      BY <3>5, <3>6, <3>7, <3>8 DEF InStep
  <2>7. InStep(i)'
    <3>1. pc'[i] \notin Deciding \cup Copying \cup {"lock"} /\ pc'[i] # "verifyRows"
      BY <2>2, PlaceFacts
    <3>2. DecidesAlone(i)' /\ HasCopied(i)' /\ SeesTarget(i)'
      BY <1>1, <1>3, <3>1, PlaceFacts DEF InStep, DecidesAlone, HasCopied, SeesTarget
    <3>3. AsksForItsOwner(i)'
      <4>1. 0 <= IF target'.owner = 0 THEN count'.uses ELSE target'.owner
        BY <2>4 DEF ImportTypes, Targets
      <4>2. count' = count /\ pc[i] \notin {"idle", "plan"}
        BY <1>1, <1>3
      <4> QED
        BY <1>1, <2>2, <2>3, <4>1, <4>2 DEF InStep, AsksForItsOwner
    <3>4. MayVerify(i)'
      <4>1. src'[i] = src[i] /\ keyed'[i] = keyed[i]
        BY <1>3
      <4> QED
        BY <1>1, <2>2, <2>3, <3>1, <4>1 DEF InStep, MayVerify
    <3> QED
      BY <3>2, <3>3, <3>4 DEF InStep
  <2>8. (target.owner <= count.uses + 1)'
    BY <1>3, <2>3 DEF ImportInv
  <2> QED
    BY <2>4, <2>5, <2>6, <2>7, <2>8 DEF ImportInv
<1> QED
  BY <1>2, <1>3 DEF Commit, EndsWith

LEMMA VerifyCountsInv == ASSUME ImportInv, NEW i \in Importers, VerifyCounts(i) PROVE ImportInv'
<1>1. pc[i] = "verifyCounts" /\ ImportTypes /\ InStep(i)
  BY DEF VerifyCounts, ImportInv
<1>2. CASE EndsWith(i, "unverified")
  BY <1>2, EndKeeps
<1>3. CASE /\ TargetCounts(Visible(i, target)) = SourceCounts(i) /\ GoTo(i, "verifyRows")
           /\ UNCHANGED <<tx, legacy, target, server, src, keyed, count>>
  <2>1. pc' = [pc EXCEPT ![i] = "verifyRows"] /\ pc'[i] = "verifyRows"
        /\ UNCHANGED <<who, base, lock, result, tx, legacy, target, server, src, keyed, count>>
    BY <1>1, <1>3 DEF GoTo, ImportTypes
  <2>2. Leaves(i) /\ ImportTypes'
    BY <1>1, <2>1, PlaceFacts DEF ImportTypes, Leaves, Places
  <2>3. target.owner = who[i] => TargetCounts(target) = SourceCounts(i)
    <3> SUFFICES ASSUME target.owner = who[i] PROVE TargetCounts(target) = SourceCounts(i)
      OBVIOUS
    <3>1. Visible(i, target).rows = target.rows
      BY <1>1 DEF Visible, ImportTypes, Targets
    <3>2. \A c : RowsIn(Visible(i, target), c) = RowsIn(target, c)
      BY <3>1 DEF RowsIn
    <3>3. TargetCounts(Visible(i, target)) = TargetCounts(target)
      BY <3>2 DEF TargetCounts
    <3> QED
      BY <1>3, <3>3
  <2>4. SourceCounts(i)' = SourceCounts(i) /\ TargetCounts(target)' = TargetCounts(target)
    BY <2>1, SourceCountsKept DEF TargetCounts, RowsIn
  <2>5. MayVerify(i)'
    BY <1>1, <2>1, <2>3, <2>4 DEF InStep, MayVerify
  <2>6. InStep(i)'
    BY <1>1, <2>1, <2>5, PlaceFacts DEF InStep, DecidesAlone, AsksForItsOwner, SeesTarget, HasCopied
  <2> QED
    BY <2>2, <2>6, StepOf
<1> QED
  BY <1>2, <1>3 DEF VerifyCounts, EndsWith

LEMMA VerifyRowsInv == ASSUME ImportInv, NEW i \in Importers, VerifyRows(i) PROVE ImportInv'
<1>1. \E r \in {"already", "complete", "unverified"} : EndsWith(i, r)
  BY DEF VerifyRows, EndsWith
<1> QED
  BY <1>1, EndKeeps

LEMMA FailInv == ASSUME ImportInv, NEW i \in Importers, Fail(i) PROVE ImportInv'
<1>1. \E r \in {"failed", "unverified"} : EndsWith(i, r)
  BY DEF Fail, EndsWith
<1> QED
  BY <1>1, EndKeeps

-----------------------------------------------------------------------------
(* The world around the importers.                                         *)

\* While the server runs, and so while it changes the target, no importer does.
LEMMA AllIdle ==
  ASSUME ImportInv, server PROVE \A i \in Importers : pc[i] = "idle"
  BY DEF ImportInv, InStep, DecidesAlone

\* A change of the target by the server or the operator, of which importers at
\* work notice nothing but that the owner is gone.
LEMMA UseKeeps ==
  ASSUME ImportInv, NEW t \in Targets, Use(t), WholeTarget(t), t.owner <= count.uses + 2,
         \A i \in Importers : pc[i] \notin Deciding /\ (pc[i] \notin {"idle", "plan"} => t.owner # who[i]),
         \A i \in Importers : who[i] <= IF t.owner = 0 THEN count.uses + 1 ELSE t.owner
  PROVE  ImportInv'
<1>1. /\ target' = t /\ count' = [count EXCEPT !.uses = @ + 1]
      /\ UNCHANGED <<legacy, server, pc, src, keyed, who, base, tx, lock, result>>
  BY DEF Use
<1>2. ImportTypes /\ count'.uses = count.uses + 1 /\ count.uses \in Nat
  BY <1>1 DEF ImportInv, ImportTypes
<1>3. ImportTypes'
  BY <1>1, <1>2 DEF ImportTypes
<1>4. TargetWhole' /\ (target.owner <= count.uses + 1)'
  BY <1>1, <1>2, TargetIsWholeNext
<1>5. ASSUME NEW i \in Importers PROVE InStep(i)'
  <2>1. InStep(i) /\ (pc[i] \notin {"idle", "plan"} => t.owner # who[i]) /\ pc[i] \notin Deciding
        /\ who[i] <= IF t.owner = 0 THEN count.uses + 1 ELSE t.owner
    BY DEF ImportInv
  <2>2. pc[i] \notin Deciding /\ pc[i] \notin Copying /\ pc[i] \notin {"inspect", "clean"}
    BY <2>1, PlaceFacts
  <2>3. DecidesAlone(i)' /\ HasCopied(i)'
    BY <1>1, <2>1, <2>2 DEF InStep, DecidesAlone, HasCopied
  <2>4. AsksForItsOwner(i)'
    BY <1>1, <1>2, <2>1 DEF InStep, AsksForItsOwner
  <2>5. SeesTarget(i)'
    BY <1>1, <2>1, <2>2, PlaceFacts DEF InStep, SeesTarget
  <2>6. MayVerify(i)'
    BY <1>1, <2>1, PlaceFacts DEF InStep, MayVerify
  <2> QED
    BY <2>3, <2>4, <2>5, <2>6 DEF InStep
<1> QED
  BY <1>3, <1>4, <1>5 DEF ImportInv

\* The server's changes leave the owner alone.
LEMMA ServerUseKeeps ==
  ASSUME ImportInv, server, NEW t \in Targets, Use(t), WholeTarget(t), t.owner = target.owner
  PROVE  ImportInv'
<1>1. target.owner \in Nat /\ count.uses \in Nat /\ target.owner <= count.uses + 1
  BY DEF ImportInv, ImportTypes, Targets
<1>2. ASSUME NEW i \in Importers PROVE who[i] <= IF t.owner = 0 THEN count.uses + 1 ELSE t.owner
  <2>1. who[i] \in Nat /\ who[i] <= IF target.owner = 0 THEN count.uses ELSE target.owner
    BY DEF ImportInv, ImportTypes, InStep, AsksForItsOwner
  <2> QED
    BY <1>1, <2>1
<1>3. \A i \in Importers : pc[i] = "idle" /\ pc[i] \notin Deciding
  BY AllIdle, PlaceFacts
<1> QED
  BY <1>1, <1>2, <1>3, UseKeeps

LEMMA ServerInsertsInv == ASSUME ImportInv, ServerInserts PROVE ImportInv'
<1> DEFINE r == ImportRow("postings", target.seq, Server, 0)
           t == [target EXCEPT !.seq = target.seq + 1, !.rows = target.rows \cup {r}]
<1>1. server /\ target.seq <= MaxId /\ Use(t) /\ target \in Targets /\ WholeTarget(target)
  BY TargetIsWhole DEF ServerInserts, ImportInv, ImportTypes
<1>2. r \in ImportRows /\ r.table = "postings" /\ r.key = target.seq /\ r.from = Server /\ r.dup = 0 /\ Server \notin Sources
  BY <1>1, ImportAssumption DEF ImportRow, ImportRows, Targets
<1>6. target.seq + 1 \in 1 .. MaxId + 1 /\ target.seq \in Nat
  BY <1>1, ImportAssumption DEF Targets
<1> HIDE DEF r
<1>3. /\ t \in Targets /\ t.rows = target.rows \cup {r} /\ t.ledger = target.ledger /\ t.owner = target.owner
      /\ t.seq = target.seq + 1 /\ target.seq \in Nat
  BY <1>1, <1>2, <1>6 DEF Targets
<1> HIDE DEF t
<1>4. RowIds(t) = RowIds(target) \cup {target.seq} /\ RowIds(target) \subseteq Nat
  <2>1. RowIds(target) \subseteq Nat
    BY <1>1 DEF RowIds, RowsIn, Targets, ImportRows
  <2>2. RowsIn(t, "postings") = RowsIn(target, "postings") \cup {r}
    BY <1>2, <1>3 DEF RowsIn
  <2> QED
    BY <1>2, <2>1, <2>2 DEF RowIds
<1>5. WholeTarget(t)
  BY <1>1, <1>2, <1>3, <1>4 DEF WholeTarget
<1> QED
  BY <1>1, <1>3, <1>5, ServerUseKeeps

LEMMA ServerSavesInv == ASSUME ImportInv, ServerSaves PROVE ImportInv'
<1> DEFINE r == ImportRow("profile", 1, Server, 0)
           t == [target EXCEPT !.rows = (target.rows \ RowsIn(target, "profile")) \cup {r}]
<1>1. server /\ Use(t) /\ target \in Targets /\ WholeTarget(target)
  BY TargetIsWhole DEF ServerSaves, ImportInv, ImportTypes
<1>2. r \in ImportRows /\ r.table = "profile" /\ r.from = Server /\ r.dup = 0 /\ Server \notin Sources
  BY ImportAssumption DEF ImportRow, ImportRows
<1> HIDE DEF r
<1>3. /\ t \in Targets /\ t.rows = (target.rows \ RowsIn(target, "profile")) \cup {r} /\ t.ledger = target.ledger
      /\ t.owner = target.owner /\ t.seq = target.seq
  BY <1>1, <1>2 DEF Targets
<1> HIDE DEF t
<1>4. RowIds(t) = RowIds(target)
  <2>1. RowsIn(t, "postings") = RowsIn(target, "postings")
    BY <1>2, <1>3 DEF RowsIn
  <2> QED
    BY <2>1 DEF RowIds
<1>5. WholeTarget(t)
  BY <1>1, <1>2, <1>3, <1>4 DEF WholeTarget
<1> QED
  BY <1>1, <1>3, <1>5, ServerUseKeeps

\* What deleting a posting does to a row that stays.
Unlinked(r, k) == IF r.dup = k THEN [r EXCEPT !.dup = 0] ELSE r
LEMMA UnlinkedFields ==
  ASSUME NEW r \in ImportRows, NEW k \in Nat
  PROVE  LET u == Unlinked(r, k)
         IN  u \in ImportRows /\ u.table = r.table /\ u.key = r.key /\ u.from = r.from /\ (u.dup # 0 => u.dup = r.dup /\ u.dup # k)
  BY ImportAssumption DEF Unlinked, ImportRows

LEMMA ServerDeletesInv == ASSUME ImportInv, ServerDeletes PROVE ImportInv'
<1>1. PICK k \in RowIds(target) :
        Use([target EXCEPT !.rows =
               {IF r.dup = k THEN [r EXCEPT !.dup = 0] ELSE r
                  : r \in {q \in @ : ~(q.key = k /\ q.table \in OfPosting \cup {"postings"})}}])
  BY DEF ServerDeletes
<1> DEFINE Stay == {q \in target.rows : ~(q.key = k /\ q.table \in OfPosting \cup {"postings"})}
           R == {Unlinked(r, k) : r \in Stay}
           t == [target EXCEPT !.rows = R]
<1>2. Use(t)
  BY <1>1 DEF Unlinked
<1>3. server /\ target \in Targets /\ WholeTarget(target) /\ k \in Nat
  BY TargetIsWhole DEF ServerDeletes, ImportInv, ImportTypes, Targets, RowIds, RowsIn, ImportRows
<1>4. ASSUME NEW u \in R
      PROVE  \E r \in Stay : /\ u \in ImportRows /\ u.table = r.table /\ u.key = r.key /\ u.from = r.from
                             /\ u.dup # 0 => u.dup = r.dup /\ u.dup # k
  <2>1. PICK r \in Stay : u = Unlinked(r, k)
    OBVIOUS
  <2>2. r \in ImportRows
    BY <1>3 DEF Targets
  <2> QED
    BY <1>3, <2>1, <2>2, UnlinkedFields
<1>5. ASSUME NEW r \in Stay PROVE \E u \in R : u.table = r.table /\ u.key = r.key
  <2>1. r \in ImportRows /\ Unlinked(r, k) \in R
    BY <1>3 DEF Targets
  <2> QED
    BY <1>3, <2>1, UnlinkedFields
<1>6. \A q : q \in Stay <=> q \in target.rows /\ ~(q.key = k /\ q.table \in OfPosting \cup {"postings"})
  OBVIOUS
<1> HIDE DEF R, Stay
<1>7. /\ t \in Targets /\ t.rows = R /\ t.ledger = target.ledger /\ t.owner = target.owner /\ t.seq = target.seq
  BY <1>3, <1>4 DEF Targets
<1> HIDE DEF t
<1>8. \A x : x \in RowIds(t) <=> x \in RowIds(target) /\ x # k
  <2>1. \A x : x \in RowIds(t) <=> \E u \in R : u.table = "postings" /\ u.key = x
    BY <1>7 DEF RowIds, RowsIn
  <2>2. \A x : x \in RowIds(target) <=> \E u \in target.rows : u.table = "postings" /\ u.key = x
    BY DEF RowIds, RowsIn
  <2> QED
    BY <1>4, <1>5, <1>6, <2>1, <2>2
<1>9. WholeTarget(t)
  <2>1. \A k2 \in RowIds(t) : k2 < t.seq
    BY <1>3, <1>7, <1>8 DEF WholeTarget
  <2>2. ASSUME NEW u \in R PROVE \E r \in target.rows : u.from = r.from /\ u.table = r.table
    BY <1>4, <1>6
  <2>3. ASSUME NEW u \in R
        PROVE  (u.table \in OfPosting => u.key \in RowIds(t)) /\ (u.dup # 0 => u.dup \in RowIds(t))
    BY <1>3, <1>4, <1>6, <1>8 DEF WholeTarget
  <2> QED
    BY <1>3, <1>7, <2>1, <2>2, <2>3 DEF WholeTarget
<1> QED
  BY <1>2, <1>3, <1>7, <1>9, ServerUseKeeps

\* An importer that decides has the lock, so with the lock free nobody does.
LEMMA NobodyDecides ==
  ASSUME ImportInv, lock = {} PROVE \A i \in Importers : pc[i] \notin Deciding
  BY DEF ImportInv, InStep, DecidesAlone

LEMMA DeleteOwnerInv == ASSUME ImportInv, DeleteOwner PROVE ImportInv'
<1> DEFINE R == {r \in target.rows : r.table \in Shared}
           t == [target EXCEPT !.owner = 0, !.ledger = {}, !.rows = R]
<1>1. /\ lock = {} /\ Use(t) /\ target \in Targets /\ WholeTarget(target) /\ target.owner > 0
      /\ target.owner <= count.uses + 1 /\ count.uses \in Nat
  BY TargetIsWhole DEF DeleteOwner, ImportInv, ImportTypes
<1>2. R \subseteq target.rows /\ \A r \in R : r.table \in Shared
  OBVIOUS
<1>3. \A r \in target.rows : r.table = "postings" => r \in R
  OBVIOUS
<1> HIDE DEF R
<1>4. t \in Targets /\ t.rows = R /\ t.ledger = {} /\ t.owner = 0 /\ t.seq = target.seq
  BY <1>1, <1>2 DEF Targets
<1> HIDE DEF t
<1>5. RowIds(t) = RowIds(target)
  <2>1. RowsIn(t, "postings") = RowsIn(target, "postings")
    BY <1>2, <1>3, <1>4 DEF RowsIn
  <2> QED
    BY <2>1 DEF RowIds
<1>6. Cardinality(t.ledger) <= 1
  BY <1>4, FS_EmptySet
<1>7. WholeTarget(t)
  BY <1>1, <1>2, <1>4, <1>5, <1>6 DEF WholeTarget
<1>8. ASSUME NEW i \in Importers
      PROVE  /\ pc[i] \notin {"idle", "plan"} => t.owner # who[i]
             /\ who[i] <= IF t.owner = 0 THEN count.uses + 1 ELSE t.owner
  <2>1. AsksForItsOwner(i) /\ who[i] \in Nat
    BY DEF ImportInv, InStep, ImportTypes
  <2>2. target.owner \in Nat
    BY <1>1 DEF Targets
  <2> QED
    BY <1>1, <1>4, <2>1, <2>2 DEF AsksForItsOwner
<1> QED
  BY <1>1, <1>4, <1>7, <1>8, NobodyDecides, UseKeeps

LEMMA CreateOwnerInv == ASSUME ImportInv, CreateOwner PROVE ImportInv'
<1> DEFINE t == [target EXCEPT !.owner = count.uses + 1]
<1>1. /\ lock = {} /\ Use(t) /\ target \in Targets /\ WholeTarget(target) /\ target.owner = 0 /\ count.uses \in Nat
  BY TargetIsWhole DEF CreateOwner, ImportInv, ImportTypes
<1>2. /\ t \in Targets /\ t.rows = target.rows /\ t.ledger = target.ledger /\ t.owner = count.uses + 1
      /\ t.seq = target.seq
  BY <1>1 DEF Targets
<1> HIDE DEF t
<1>3. WholeTarget(t)
  BY <1>1, <1>2 DEF WholeTarget, RowIds, RowsIn
<1>4. ASSUME NEW i \in Importers
      PROVE  t.owner # who[i] /\ who[i] <= IF t.owner = 0 THEN count.uses + 1 ELSE t.owner
  <2>1. AsksForItsOwner(i) /\ who[i] \in Nat
    BY DEF ImportInv, InStep, ImportTypes
  <2> QED
    BY <1>1, <1>2, <2>1 DEF AsksForItsOwner
<1> QED
  BY <1>1, <1>2, <1>3, <1>4, NobodyDecides, UseKeeps

\* The legacy application and a restart of the server change nothing an importer
\* relies on.
LEMMA WorldKeeps ==
  ASSUME ImportInv, UNCHANGED <<target, pc, src, keyed, who, base, tx, lock, result, count>>,
         legacy' \in [content : Sources, writing : BOOLEAN], server' \in BOOLEAN,
         server' = server \/ \A i \in Importers : pc[i] = "idle"
  PROVE  ImportInv'
<1>1. /\ target' = target /\ pc' = pc /\ src' = src /\ keyed' = keyed /\ who' = who /\ base' = base /\ tx' = tx
      /\ lock' = lock /\ result' = result /\ count' = count
  OBVIOUS
<1>2. ImportTypes'
  BY <1>1 DEF ImportInv, ImportTypes
<1>3. TargetWhole' /\ (target.owner <= count.uses + 1)'
  BY <1>1, TargetIsWhole, TargetIsWholeNext DEF ImportInv
<1>4. ASSUME NEW i \in Importers PROVE InStep(i)'
  <2>1. InStep(i)
    BY DEF ImportInv
  <2>2. DecidesAlone(i)'
    BY <1>1, <2>1 DEF InStep, DecidesAlone
  <2>3. AsksForItsOwner(i)' /\ SeesTarget(i)'
    BY <1>1, <2>1 DEF InStep, AsksForItsOwner, SeesTarget
  <2>4. HasCopied(i)'
    BY <1>1, <2>1 DEF InStep, HasCopied, RowIds, RowsIn
  <2>5. SourceCounts(i)' = SourceCounts(i) /\ TargetCounts(target)' = TargetCounts(target)
    BY <1>1, SourceCountsKept DEF TargetCounts, RowsIn
  <2>6. MayVerify(i)'
    BY <1>1, <2>1, <2>5 DEF InStep, MayVerify
  <2> QED
    BY <2>2, <2>3, <2>4, <2>6 DEF InStep
<1> QED
  BY <1>2, <1>3, <1>4 DEF ImportInv

LEMMA LegacyWriteInv == ASSUME ImportInv, LegacyWrite PROVE ImportInv'
<1>1. legacy \in [content : Sources, writing : BOOLEAN] /\ server \in BOOLEAN
  BY DEF ImportInv, ImportTypes
<1>2. legacy' \in [content : Sources, writing : BOOLEAN]
  <2>1. CASE legacy' = [content |-> legacy.content + 1, writing |-> FALSE]
    BY <2>1 DEF LegacyWrite
  <2>2. CASE legacy' = [legacy EXCEPT !.writing = TRUE]
    BY <1>1, <2>2
  <2> QED
    BY <2>1, <2>2 DEF LegacyWrite
<1> QED
  BY <1>1, <1>2, WorldKeeps DEF LegacyWrite

LEMMA StartServerInv == ASSUME ImportInv, StartServer PROVE ImportInv'
<1>1. legacy \in [content : Sources, writing : BOOLEAN] /\ server \in BOOLEAN
  BY DEF ImportInv, ImportTypes
<1>2. server' \in BOOLEAN /\ legacy' = legacy
  <2>1. server' = ~ server /\ legacy' = legacy
    BY DEF StartServer
  <2> QED
    BY <2>1, Zenon
<1> QED
  BY <1>1, <1>2, WorldKeeps DEF StartServer

LEMMA ImportStutterInv == ASSUME ImportInv, UNCHANGED importVars PROVE ImportInv'
<1>1. legacy \in [content : Sources, writing : BOOLEAN] /\ server \in BOOLEAN
  BY DEF ImportInv, ImportTypes
<1> QED
  BY <1>1, WorldKeeps DEF importVars

-----------------------------------------------------------------------------
(* The invariant, and what it gives.                                       *)

LEMMA ImportInitInv == ASSUME ImportInit PROVE ImportInv
<1>1. /\ target = [NoTarget EXCEPT !.owner = 1] /\ target.rows = {} /\ target.ledger = {} /\ target.seq = 1 /\ target.owner = 1
      /\ RowIds(target) = {}
  BY DEF ImportInit, NoTarget, RowIds, RowsIn
<1>2. ImportTypes
  <2>1. target \in Targets
    BY <1>1, NoTargetTyped DEF Targets
  <2>2. 1 \in Sources /\ legacy \in [content : Sources, writing : BOOLEAN]
    BY ImportAssumption DEF ImportInit
  <2>3. pc \in [Importers -> {"idle", "plan", "begin", "lock"} \cup Deciding \cup AfterCommit] /\ DOMAIN result = Importers
    BY DEF ImportInit
  <2>4. who \in [Importers -> Nat] /\ base \in [Importers -> Targets] /\ tx \in [Importers -> Targets]
    BY NoTargetTyped DEF ImportInit
  <2>5. count \in [runs : Nat, uses : Nat] /\ lock \subseteq Importers /\ server \in BOOLEAN
    BY DEF ImportInit
  <2> QED
    BY <2>1, <2>2, <2>3, <2>4, <2>5 DEF ImportInit, ImportTypes
<1>3. WholeTarget(target)
  BY <1>1, FS_EmptySet DEF WholeTarget
<1>4. ASSUME NEW i \in Importers PROVE InStep(i)
  <2>1. pc[i] = "idle" /\ who[i] = 0 /\ result[i] = "none"
    BY DEF ImportInit
  <2> QED
    BY <1>1, <2>1, PlaceFacts DEF InStep, DecidesAlone, AsksForItsOwner, SeesTarget, HasCopied, MayVerify
<1>5. target.owner <= count.uses + 1
  BY <1>1 DEF ImportInit
<1> QED
  BY <1>2, <1>3, <1>4, <1>5, TargetIsWhole DEF ImportInv

LEMMA ImportStepInv == ASSUME ImportInv, [ImportNext]_importVars PROVE ImportInv'
<1>1. ASSUME NEW i \in Importers, Importer(i) PROVE ImportInv'
  BY <1>1, SnapshotInv, PlanInv, BeginTxInv, LockInv, InspectInv, CheckCleanInv, CopyInv, ResetSequenceInv,
     VerifyCopyInv, InsertLedgerInv, CommitInv, VerifyCountsInv, VerifyRowsInv, FailInv DEF Importer, LegacyKeys
<1> QED
  BY <1>1, LegacyWriteInv, StartServerInv, ServerInsertsInv, ServerDeletesInv, ServerSavesInv, DeleteOwnerInv,
     CreateOwnerInv, ImportStutterInv DEF ImportNext

\* The invariant the two results below rest on.
THEOREM ImportInvariant == ImportSpec => []ImportInv
  BY ImportInitInv, ImportStepInv, PTL DEF ImportSpec

\* Two importers, failures anywhere, the server between two imports and an
\* owner that is deleted and created again leave a target of one source, with
\* its references whole and the sequence past every posting.
THEOREM TargetAlwaysSound == ImportSpec => []TargetSound
<1>1. ImportInv => TargetSound
  <2> SUFFICES ASSUME ImportInv PROVE TargetSound
    OBVIOUS
  <2>1. ImportTypeOK
    BY DEF ImportInv, ImportTypes, ImportTypeOK, Targets, ImportRows
  <2>2. OneSource /\ SequenceAhead
    BY DEF ImportInv, TargetWhole
  <2>3. ReferencesWhole
    BY DEF ImportInv, TargetWhole, ReferencesWhole, InStep, MayVerify
  <2> QED
    BY <2>1, <2>2, <2>3 DEF TargetSound
<1> QED
  BY <1>1, ImportInvariant, PTL

\* A target that stays as it is, and one that only loses source rows, bring
\* nothing.
LEMMA NothingArrives ==
  ASSUME target'.ledger \subseteq target.ledger,
         \A r \in target'.rows : r.from \in Sources => \E q \in target.rows : Same(q, r)
  PROVE  ArrivesWhole
<1>1. ASSUME NEW s \in Sources PROVE s \notin target'.ledger \ target.ledger
  OBVIOUS
<1>2. ASSUME NEW s \in Sources, NEW r \in target'.rows, r.from = s PROVE \E q \in target.rows : Same(q, r)
  BY <1>2
<1> QED
  BY <1>1, <1>2 DEF ArrivesWhole

LEMMA SameTarget == ASSUME target' = target PROVE ArrivesWhole
<1>1. \A r \in target'.rows : Same(r, r)
  BY DEF Same
<1> QED
  BY <1>1, NothingArrives

LEMMA CommitArrives == ASSUME ImportInv, NEW i \in Importers, Commit(i) PROVE ArrivesWhole
<1>1. pc[i] = "commit" /\ ImportTypes /\ InStep(i) /\ WholeBy(i)
  BY AllCopied DEF Commit, ImportInv
<1>2. CASE target.ledger = base[i].ledger /\ target' = tx[i]
  <2>1. base[i] = target
    BY <1>1, <1>2, PlaceFacts DEF WholeBy, InStep, SeesTarget
  <2>2. target.rows = {} /\ target.ledger = {} /\ target \in Targets
    BY <1>1, <1>2, <2>1 DEF WholeBy, ImportTypes
  <2>3. Empty(target)
    BY <2>2, EmptyRows
  <2>4. /\ target'.rows = ImportedRows(src[i], keyed[i]) /\ target'.ledger = {src[i]}
        /\ src[i] \in Sources /\ keyed[i] \in BOOLEAN /\ KeyFile \notin Sources
    BY <1>1, <1>2, ImportAssumption DEF WholeBy
  <2>5. ASSUME NEW s \in Sources, NEW r \in target'.rows, r.from = s PROVE s = src[i]
    BY <2>4, <2>5, ImportedFacts
  <2> QED
    BY <2>2, <2>3, <2>4, <2>5 DEF ArrivesWhole
<1> QED
  BY <1>2, SameTarget DEF Commit

LEMMA WorldArrives ==
  ASSUME ImportInv, ServerInserts \/ ServerDeletes \/ ServerSaves \/ DeleteOwner \/ CreateOwner
  PROVE  ArrivesWhole
<1>1. Server \notin Sources /\ target \in Targets
  BY DEF ImportInv, ImportTypes
<1>2. CASE ServerInserts
  <2> DEFINE r == ImportRow("postings", target.seq, Server, 0)
  <2>1. target' = [target EXCEPT !.seq = target.seq + 1, !.rows = target.rows \cup {r}]
    BY <1>2 DEF ServerInserts, Use
  <2>2. r.from = Server
    BY RowFields
  <2> HIDE DEF r
  <2>3. target'.ledger = target.ledger /\ target'.rows = target.rows \cup {r}
    BY <1>1, <2>1 DEF Targets
  <2> QED
    BY <1>1, <2>2, <2>3, NothingArrives DEF Same
<1>3. CASE ServerSaves
  <2> DEFINE r == ImportRow("profile", 1, Server, 0)
  <2>1. target' = [target EXCEPT !.rows = (target.rows \ RowsIn(target, "profile")) \cup {r}]
    BY <1>3 DEF ServerSaves, Use
  <2>2. r.from = Server
    BY RowFields
  <2> HIDE DEF r
  <2>3. target'.ledger = target.ledger /\ target'.rows \subseteq target.rows \cup {r}
    BY <1>1, <2>1 DEF Targets
  <2> QED
    BY <1>1, <2>2, <2>3, NothingArrives DEF Same
<1>4. CASE ServerDeletes
  <2>1. PICK k \in RowIds(target) :
          target' = [target EXCEPT !.rows =
                       {IF r.dup = k THEN [r EXCEPT !.dup = 0] ELSE r
                          : r \in {q \in @ : ~(q.key = k /\ q.table \in OfPosting \cup {"postings"})}}]
    BY <1>4 DEF ServerDeletes, Use
  <2> DEFINE Stay == {q \in target.rows : ~(q.key = k /\ q.table \in OfPosting \cup {"postings"})}
             R == {Unlinked(r, k) : r \in Stay}
  <2>2. target' = [target EXCEPT !.rows = R]
    BY <2>1 DEF Unlinked
  <2>3. target'.rows = R /\ target'.ledger = target.ledger
    BY <1>1, <2>2 DEF Targets
  <2>4. k \in Nat
    BY <1>1 DEF RowIds, RowsIn, Targets, ImportRows
  <2>5. ASSUME NEW u \in R PROVE \E q \in target.rows : Same(q, u)
    <3>1. PICK r \in target.rows : u = Unlinked(r, k)
      OBVIOUS
    <3>2. r \in ImportRows
      BY <1>1 DEF Targets
    <3> QED
      BY <2>4, <3>1, <3>2, UnlinkedFields DEF Same
  <2> HIDE DEF R
  <2> QED
    BY <2>3, <2>5, NothingArrives
<1>5. CASE DeleteOwner
  <2>1. target' = [target EXCEPT !.owner = 0, !.ledger = {}, !.rows = {r \in target.rows : r.table \in Shared}]
    BY <1>5 DEF DeleteOwner, Use
  <2>2. target'.ledger = {} /\ target'.rows \subseteq target.rows
    BY <1>1, <2>1 DEF Targets
  <2> QED
    BY <2>2, NothingArrives DEF Same
<1>6. CASE CreateOwner
  <2>1. target' = [target EXCEPT !.owner = count.uses + 1]
    BY <1>6 DEF CreateOwner, Use
  <2>2. target'.ledger = target.ledger /\ target'.rows = target.rows
    BY <1>1, <2>1 DEF Targets
  <2> QED
    BY <2>2, NothingArrives DEF Same
<1> QED
  BY <1>2, <1>3, <1>4, <1>5, <1>6

\* Only VerifyRows reports a success.
NoSuccess == \A j \in Importers : result'[j] = result[j] \/ result'[j] \notin {"complete", "already"}
LEMMA NoSuccessIsTrue == ASSUME NoSuccess PROVE ReportsTruly
  BY DEF NoSuccess, ReportsTruly

LEMMA EndsWithoutSuccess ==
  ASSUME DOMAIN result = Importers, NEW i \in Importers, NEW r, r \notin {"complete", "already"},
         End(i, r) \/ result' = result \/ result' = [result EXCEPT ![i] = r]
  PROVE  NoSuccess
  BY DEF End, NoSuccess

LEMMA OthersNoSuccess ==
  ASSUME ImportInv, NEW i \in Importers, Importer(i), ~ VerifyRows(i) PROVE NoSuccess
<1>1. DOMAIN result = Importers
  BY DEF ImportInv, ImportTypes
<1> DEFINE Ending == \E r \in {"none", "repeated", "refused", "planned", "failed", "dangling", "unverified"} :
                       End(i, r) \/ result' = result \/ result' = [result EXCEPT ![i] = r]
<1>2. ASSUME Ending PROVE NoSuccess
  BY <1>1, <1>2, EndsWithoutSuccess
<1>3. ASSUME NEW k \in BOOLEAN, Snapshot(i, k) PROVE Ending
  BY <1>3 DEF Snapshot
<1>4. CASE Plan(i) \/ BeginTx(i) \/ LockImportDecision(i)
  BY <1>2, <1>4 DEF Plan, BeginTx, LockImportDecision
<1>5. CASE InspectLedger(i)
  BY <1>2, <1>5 DEF InspectLedger, GoTo
<1>6. CASE CheckClean(i) \/ ResetSequence(i) \/ VerifyCopy(i) \/ InsertLedger(i) \/ VerifyCounts(i)
  BY <1>2, <1>6 DEF CheckClean, ResetSequence, VerifyCopy, InsertLedger, VerifyCounts, GoTo
<1>7. CASE Copy(i)
  <2>1. \E R, p : Upsert(i, R, p)
    BY <1>7 DEF Copy, CopyPostings, CopyProfile, CopyScores, CopyBookmarks, CopyNotInterested, CopyAIExtractions,
                CopyAIScores, CopyAIUsage, CopyEncryptedCredentials, CopyTable
  <2> QED
    BY <1>2, <2>1 DEF Upsert, GoTo
<1>8. CASE Commit(i)
  BY <1>2, <1>8 DEF Commit
<1>9. CASE Fail(i)
  BY <1>2, <1>9 DEF Fail
<1> QED
  BY <1>2, <1>3, <1>4, <1>5, <1>6, <1>7, <1>8, <1>9 DEF Importer, LegacyKeys

\* A success is reported for a ledger entry the run sees, which is then its own.
LEMMA VerifyReports == ASSUME ImportInv, NEW i \in Importers, VerifyRows(i) PROVE ReportsTruly
<1>1. pc[i] = "verifyRows" /\ ImportTypes /\ InStep(i) /\ DOMAIN result = Importers
  BY DEF VerifyRows, ImportInv, ImportTypes
<1>2. CASE End(i, "unverified")
  BY <1>1, <1>2, EndsWithoutSuccess, NoSuccessIsTrue
<1>3. CASE /\ LedgerEntry(i, Visible(i, target))
           /\ End(i, IF result[i] = "repeated" THEN "already" ELSE "complete")
  <2>1. target.owner = who[i]
    BY <1>1, <1>3 DEF LedgerEntry, Visible, ImportTypes, Targets
  <2>2. /\ target.ledger = {src[i]} /\ TargetCounts(target) = SourceCounts(i) /\ result[i] \in {"none", "repeated"}
        /\ result[i] = "none" => target.rows = ImportedRows(src[i], keyed[i])
    BY <1>1, <2>1 DEF InStep, MayVerify
  <2>3. /\ result'[i] = IF result[i] = "repeated" THEN "already" ELSE "complete"
        /\ \A j \in Importers \ {i} : result'[j] = result[j]
    BY <1>1, <1>3 DEF End
  <2> QED
    BY <2>2, <2>3 DEF ReportsTruly
<1> QED
  BY <1>2, <1>3 DEF VerifyRows

\* Every step brings a whole source or nothing, and every report of success is
\* right about the target: whoever else ran and whatever failed in between.
THEOREM ImportAlwaysWhole == ImportSpec => ImportWhole
<1>1. ASSUME ImportInv, [ImportNext]_importVars PROVE ArrivesWhole /\ ReportsTruly
  <2>1. ASSUME NEW i \in Importers, Importer(i) PROVE ArrivesWhole /\ ReportsTruly
    <3>1. ReportsTruly
      BY <1>1, <2>1, VerifyReports, OthersNoSuccess, NoSuccessIsTrue
    <3>2. CASE Commit(i)
      BY <1>1, <3>1, <3>2, CommitArrives
    <3>3. CASE ~ Commit(i)
      <4>1. target' = target
        BY <2>1, <3>3 DEF Importer, Snapshot, Plan, BeginTx, LockImportDecision, InspectLedger, CheckClean, Copy,
             CopyPostings, CopyProfile, CopyScores, CopyBookmarks, CopyNotInterested, CopyAIExtractions, CopyAIScores,
             CopyAIUsage, CopyEncryptedCredentials, CopyTable, ResetSequence, VerifyCopy, InsertLedger, VerifyCounts,
             VerifyRows, Fail
      <4> QED
        BY <3>1, <4>1, SameTarget
    <3> QED
      BY <3>2, <3>3
  <2>2. CASE LegacyWrite \/ StartServer \/ UNCHANGED importVars
    <3>1. target' = target /\ result' = result
      BY <2>2 DEF LegacyWrite, StartServer, importVars
    <3> QED
      BY <3>1, SameTarget, NoSuccessIsTrue DEF NoSuccess
  <2>3. CASE ServerInserts \/ ServerDeletes \/ ServerSaves \/ DeleteOwner \/ CreateOwner
    <3>1. result' = result
      BY <2>3 DEF ServerInserts, ServerDeletes, ServerSaves, DeleteOwner, CreateOwner, Use
    <3> QED
      BY <1>1, <2>3, <3>1, WorldArrives, NoSuccessIsTrue DEF NoSuccess
  <2> QED
    BY <1>1, <2>1, <2>2, <2>3 DEF ImportNext
<1> QED
  BY <1>1, ImportInvariant, PTL DEF ImportSpec, ImportWhole

=============================================================================
