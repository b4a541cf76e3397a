------------------------------ MODULE Scoring ------------------------------
(***************************************************************************)
(* The score of one posting for one account (internal/scoring): from the   *)
(* row of a board, through the board's filter and what is kept of the      *)
(* model's answers, to a total with its breakdown and its reasons.  The    *)
(* score is computed again after every change.                             *)
(***************************************************************************)
EXTENDS BoardFilters, ModelAnswers

CONSTANTS
  BoardRows,    \* rows of boards: what BoardFilters reads, and stacks, pay, remote,
                \* education, phrases, sent, full
  Profiles,     \* profiles accounts save
  Extractions,  \* readings the model returns
  SignalLists,  \* lists of signals the model returns
  VerdictRows   \* lists of verdicts the model returns

\* What a row, a profile and an answer are; weights are any numbers (handlers.go
\* atoi), and no two wordings are the same text.
Texts == Seq([kind : DOMAIN Rung, lo : Nat, hi : Nat])
ProfileFields ==
  {"years", "career", "salary", "floor", "stacks", "location", "cities", "remote", "education", "dealbreakers", "minimum"}
ItemsOf(list) == {list[n] : n \in DOMAIN list}
Signals == UNION {ItemsOf(list) : list \in SignalLists}
VerdictKinds == {"applies", "not_applicable", "uncertain"}
ASSUME ScoringAssumption ==
  /\ \A row \in BoardRows : {row.title, row.position, row.body} \subseteq Texts
  /\ \A q \in Profiles :
       /\ DOMAIN q = ProfileFields /\ {q.career, q.salary, q.location, q.minimum} \subseteq Int
       /\ q.stacks \in Seq(ItemsOf(q.stacks)) /\ \A s \in ItemsOf(q.stacks) : s.weight \in Int
  /\ \A x \in Extractions : {x.min, x.max} \subseteq Int
  /\ \A list \in SignalLists : list \in Seq(ItemsOf(list))
  /\ \A it \in Signals :
       /\ it = [kind |-> it.kind, delta |-> it.delta, cites |-> it.cites, signal |-> it.signal]
       /\ it.delta \in Int /\ WordingOf(it) \in Int
  /\ \A a, b \in Signals : WordingOf(a) = WordingOf(b) => a.cites = b.cites /\ a.signal = b.signal
  /\ \A v \in UNION {ItemsOf(rows) : rows \in VerdictRows} : v.sound => v.verdict \in VerdictKinds

VARIABLES
  posting,   \* the posting, or NoPosting
  reading,   \* its Stage 1 reading, or NoReading
  delta,     \* its Stage 2 result
  reply,     \* (history) the signals the delta was made of
  verdicts,  \* its Stage 1B verdicts on excluded phrases
  profile,   \* the account's profile
  score      \* [total, lines, held, reasons]

scoringVars == <<posting, reading, delta, reply, verdicts, profile, score>>

NoPosting == [title |-> <<>>]
Phrases == UNION {r.phrases : r \in BoardRows}
Unruled == [d \in Phrases |-> "none"]
NoLines == [stacks |-> <<>>, career |-> <<>>, location |-> <<>>, salary |-> <<>>, ai |-> <<>>]
NoScore == [total |-> 0, lines |-> NoLines, held |-> {}, reasons |-> {}]

-----------------------------------------------------------------------------
(* The parts of a score: each is the sequence of the deltas of its lines.   *)

EffectiveCareerWeight(q) == IF q.career > 0 THEN q.career ELSE 25
EffectiveSalaryWeight(q) == IF q.salary > 0 THEN q.salary ELSE 10
EffectiveMinScore(q)     == IF q.minimum >= 0 THEN q.minimum ELSE 40
NearMissAward(q)  == (EffectiveCareerWeight(q) * 2 + 2) \div 5
AmbiguousAward(q) == (EffectiveSalaryWeight(q) + 1) \div 2

StackCap == 50
LocationCap == 15

\* A bug for comparison with StackAward: a stack that does not fit under the cap is passed over.
StackAward_Skips(used, weight) == IF used + weight > StackCap THEN 0 ELSE weight
StackAward(used, weight) == Min({weight, StackCap - used})
AddLine(so, award) == [used |-> so.used + award, items |-> Append(so.items, award)]
NextLine(so, s, p) ==
  IF s.tag \in p.stacks /\ StackAward(so.used, s.weight) > 0
  THEN AddLine(so, StackAward(so.used, s.weight)) ELSE so
ScoreStacks(p, q) ==
  LET walk[n \in 0 .. Len(q.stacks)] ==
        IF n = 0 THEN [used |-> 0, items |-> <<>>] ELSE NextLine(walk[n - 1], q.stacks[n], p)
  IN  walk[Len(q.stacks)].items

\* What a posting asks for, [min, max, newcomer, override]: what was read, or the
\* years its text names, or the board's own.
AskedYears(p, years) ==
  IF years \notin {Unread, <<p.min, p.max>>}
  THEN [min |-> years[1], max |-> years[2], newcomer |-> FALSE, override |-> TRUE]
  ELSE [min |-> p.min, max |-> p.max, newcomer |-> p.newcomer, override |-> FALSE]
CareerFacts(p, x) ==
  IF x # NoReading
  THEN [min |-> IF p.intern THEN 0 ELSE x.min, max |-> IF x.max = -1 THEN OpenEnded ELSE x.max,
        newcomer |-> p.intern \/ x.newcomer, override |-> FALSE]
  ELSE AskedYears(p, ParseExperienceYears(p.title, p.body))

FitsCareer(c, years) == (c.newcomer /\ years = 0) \/ years \in c.min .. c.max
ScoreCareer(c, q) ==
  CASE FitsCareer(c, q.years) -> <<EffectiveCareerWeight(q)>>
    [] ~FitsCareer(c, q.years) /\ q.years \in {c.min - 1, c.max + 1} -> <<NearMissAward(q)>>
    [] OTHER -> IF c.override THEN <<0>> ELSE <<>>

ScoreLocation(p, q) ==
  IF q.location > 0 /\ (p.place \in q.cities \/ (q.remote /\ p.remote))
  THEN <<Min({q.location, LocationCap})>> ELSE <<>>

\* pay is -1 without a salary tag, 0 when its tags carry no figure.
ScoreSalary(p, q) ==
  CASE p.pay = 0                   -> <<AmbiguousAward(q)>>
    [] p.pay > 0 /\ p.pay >= q.floor -> <<EffectiveSalaryWeight(q)>>
    [] OTHER                       -> <<>>

AILine(d) == IF d.items = {} THEN <<>> ELSE <<d.net>>

-----------------------------------------------------------------------------
(* What keeps a posting out, and the score.                                 *)

EducationOrdinal == [none |-> 0, highschool |-> 1, associate |-> 2, bachelor |-> 3, master |-> 4, doctorate |-> 4]
EducationDealbreaker(p, q, x) ==
  /\ q.education # 0
  /\ EducationOrdinal[IF x # NoReading THEN x.education ELSE p.education] > q.education

DealbreakerCandidates(p, q) == q.dealbreakers \cap p.phrases
HardExclusionReasons(p, q, x, v) ==
  {d \in DealbreakerCandidates(p, q) : v[d] # "not_applicable"}
    \cup (IF EducationDealbreaker(p, q, x) THEN {"education"} ELSE {})

\* A bug for comparison with Clamped: no floor.
Clamped_High(n) == Min({100, n})
Clamped(n) == Max({0, Min({100, n})})

SumLines(lines) ==
  Total(lines.stacks) + Total(lines.career) + Total(lines.location) + Total(lines.salary) + Total(lines.ai)

\* A score from its parts; career is what the posting asks for.
Reasons(total, career, q) ==
  (IF FitsCareer(career, q.years) THEN {} ELSE {"career"})
    \cup (IF total < EffectiveMinScore(q) THEN {"min_score"} ELSE {})
Totalled(total, lines, career, q) ==
  [total |-> total, lines |-> lines, held |-> {}, reasons |-> Reasons(total, career, q)]
Weighed(lines, career, q) == Totalled(Clamped(SumLines(lines)), lines, career, q)
Lines(p, q, career, d) ==
  [stacks |-> ScoreStacks(p, q), career |-> ScoreCareer(career, q),
   location |-> ScoreLocation(p, q), salary |-> ScoreSalary(p, q), ai |-> AILine(d)]
Judged(p, q, career, d, held) ==
  IF held # {} THEN [NoScore EXCEPT !.total = -1, !.held = held]
  ELSE Weighed(Lines(p, q, career, d), career, q)

Score(p, q, x, d, v) ==
  IF p = NoPosting THEN NoScore
  ELSE Judged(p, q, CareerFacts(p, x), d, HardExclusionReasons(p, q, x, v))

-----------------------------------------------------------------------------
(* The steps.                                                               *)

Rescored == score' = Score(posting', profile', reading', delta', verdicts')

ScoringInit ==
  /\ posting = NoPosting /\ reading = NoReading /\ delta = NoDelta /\ reply = <<>>
  /\ verdicts = Unruled /\ profile \in Profiles /\ score = NoScore

\* The titles that scoring takes for an internship: by whole tokens, which an
\* underscore ends ("dev_intern") and a plural is not.
IsInternRole(row) == row.marks \cap {"intern", "dev_intern"} # {}

\* A board's row, filtered and normalised.
Normalized(row) ==
  LET b == BoundsOf(row)
  IN  [title |-> row.title, body |-> row.position \o row.body, intern |-> IsInternRole(row),
       newcomer |-> b[1], min |-> b[2], max |-> b[3], place |-> row.place, stacks |-> row.stacks,
       pay |-> row.pay, remote |-> row.remote, education |-> row.education,
       phrases |-> row.phrases, sent |-> row.sent, full |-> row.full]

CollectRow ==
  /\ posting = NoPosting
  /\ \E row \in BoardRows : Kept(row) /\ posting' = Normalized(row)
  /\ UNCHANGED <<reading, delta, reply, verdicts, profile>> /\ Rescored

\* An answer that fails its checks leaves no reading behind.
Extract ==
  /\ posting # NoPosting /\ reading = NoReading
  /\ \E x \in Extractions : ParseExtraction(x) /\ reading' = x
  /\ UNCHANGED <<posting, delta, reply, verdicts, profile>> /\ Rescored

ScoreDelta ==
  /\ posting # NoPosting
  /\ reply' \in SignalLists /\ delta' = GateDelta(reply', posting)
  /\ UNCHANGED <<posting, reading, verdicts, profile>> /\ Rescored

\* Only candidates without a verdict are sent.
ValidateDealbreakers ==
  /\ posting # NoPosting
  /\ LET asked == {d \in DealbreakerCandidates(posting, profile) : verdicts[d] = "none"}
     IN  /\ asked # {}
         /\ \E rows \in VerdictRows : verdicts' = ParseDealbreakerValidations(rows, asked, verdicts)
  /\ UNCHANGED <<posting, reading, delta, reply, profile>> /\ Rescored

SaveScoredProfile ==
  /\ profile' \in Profiles
  /\ UNCHANGED <<posting, reading, delta, reply, verdicts>> /\ Rescored

ScoringNext == CollectRow \/ Extract \/ ScoreDelta \/ ValidateDealbreakers \/ SaveScoredProfile
ScoringSpec == ScoringInit /\ [][ScoringNext]_scoringVars

-----------------------------------------------------------------------------
(* Properties.                                                              *)

ScoringTypeOK ==
  /\ profile \in Profiles
  /\ score.total \in -1 .. 100
  /\ score.held \subseteq Phrases \cup {"education"}
  /\ score.reasons \subseteq {"career", "min_score"}
  /\ \A d \in Phrases : verdicts[d] \in {"none", "applies", "not_applicable", "uncertain"}

\* -1 means excluded and nothing else does: a bad reading stops at 0 and an
\* excluded posting has no line of any kind, the model's least of all.
SentinelExact ==
  /\ score.total = -1 <=> score.held # {}
  /\ score.held # {} => score.lines = NoLines /\ score.reasons = {}

\* No part outgrows its cap, whatever the weights of the profile.
PartsCapped ==
  /\ Total(score.lines.stacks) <= StackCap
  /\ \A n \in DOMAIN score.lines.stacks : score.lines.stacks[n] > 0
  /\ Total(score.lines.location) <= LocationCap

\* A posting that its board kept as open to newcomers is held against a newcomer
\* only for years that the posting itself names: in its text, or in a reading that
\* quotes them, and by a reading never when scoring takes it for an internship
\* (rules.go careerFacts, isInternRole), which not every internship is to it.
NewcomersNotMisled ==
  "career" \in score.reasons /\ posting.newcomer /\ profile.years = 0 =>
    IF reading # NoReading
    THEN ~posting.intern /\ reading.min > 0 /\ reading.careerQuote = "grounded"
    ELSE LET x == ParseExperienceYears(posting.title, posting.body) IN x # Unread /\ x[1] > 0

\* Scores can be told apart and explained (engine.go Score, rules.go careerFacts).
ScoreSound == ScoringTypeOK /\ SentinelExact /\ PartsCapped /\ NewcomersNotMisled

\* The orders in which the items of an answer may come.
Reordered(seq) ==
  {[n \in DOMAIN seq |-> seq[f[n]]] :
     f \in {g \in [DOMAIN seq -> DOMAIN seq] : \A a, b \in DOMAIN seq : g[a] = g[b] => a = b}}

\* What the model says counts only as far as the posting bears it out: quotes
\* from the text that was sent, absences from the whole text, no evidence twice,
\* none that speaks both ways, and the same whatever order the items come in
\* (score_delta.go GateDelta).
AnswersGrounded ==
  posting # NoPosting =>
    /\ \A it \in delta.items :
         /\ it.kind = "presence" => Tokens(it) \subseteq posting.sent
         /\ it.kind = "absence"  => Tokens(it) \cap posting.full = {}
         /\ \A other \in delta.items : EvidenceIdentity(other) = EvidenceIdentity(it) => other = it
         /\ \A n \in DOMAIN reply : EvidenceIdentity(reply[n]) = EvidenceIdentity(it) /\ Usable(reply[n], posting)
                                    => reply[n].delta * it.delta > 0
    /\ Magnitude(delta.net) <= MaxNetDelta
    /\ \A other \in Reordered(reply) : GateDelta(other, posting) = delta

\* r has the weights of q or heavier ones; r excludes what q does or more.
OnlyHeavier(q, r) ==
  /\ q # r
  /\ [r EXCEPT !.career = q.career, !.salary = q.salary, !.location = q.location,
               !.stacks = q.stacks, !.minimum = q.minimum] = q
  /\ EffectiveCareerWeight(q) <= EffectiveCareerWeight(r)
  /\ EffectiveSalaryWeight(q) <= EffectiveSalaryWeight(r)
  /\ q.location <= r.location
  /\ Len(q.stacks) <= Len(r.stacks)
  /\ \A n \in DOMAIN q.stacks : q.stacks[n].tag = r.stacks[n].tag /\ q.stacks[n].weight <= r.stacks[n].weight

OnlyStricter(q, r) ==
  q # r /\ [r EXCEPT !.dealbreakers = q.dealbreakers] = q /\ q.dealbreakers \subseteq r.dealbreakers

\* A change of a profile moves a score the way it says: a heavier weight never
\* costs a posting points (rules.go scoreStacks fills the cap with what is left),
\* one more excluded phrase never gives it any; and no rating of the model brings
\* an excluded posting back or excludes one.
ScoreMonotone ==
  [][posting # NoPosting =>
       /\ OnlyHeavier(profile, profile')  => score'.total >= score.total
       /\ OnlyStricter(profile, profile') => score'.total <= score.total
       /\ delta' # delta => score'.held = score.held]_scoringVars
=============================================================================
