------------------------------ MODULE MCParts ------------------------------
(* Instances of the six parts of which only safety is promised, checked in   *)
(* one run.  They share nothing that both change, so one part moves in a     *)
(* behaviour and the others stay as they were initialised; each part's       *)
(* instance is a section of this module.                                     *)
EXTENDS LegacyImport, Migrations, Boards, RatingCache, LoginThrottle, Scoring

VARIABLE part   \* the part that moves

-----------------------------------------------------------------------------
(* LegacyImport: a source with a link to a later posting, and a smaller one. *)
MCSourceKeys ==
  <<[c \in Tables \ {"ai_providers"} |->
       IF c \in {"postings", "scores"} THEN {1, 2} ELSE IF c = "not_interested" THEN {2} ELSE {1}],
    [c \in Tables \ {"ai_providers"} |->
       IF c = "postings" THEN {3} ELSE IF c = "ai_usage" THEN {2} ELSE {}]>>
MCDuplicateOf == <<(1 :> 2), <<>>>>

-----------------------------------------------------------------------------
(* Migrations: a build, its successor, and one that forked at migration 2.   *)
At(v) == [version |-> v, digest |-> v]
MCManifest ==
  [b \in {"old", "new", "fork"} |->
     CASE b = "old" -> <<At(1), At(2)>>
       [] b = "new" -> <<At(1), At(2), At(3)>>
       [] b = "fork" -> <<At(1), [version |-> 2, digest |-> 9]>>]

-----------------------------------------------------------------------------
(* Boards: two hosts where the board has two, a second tenant with one row.  *)
MCHosts ==
  [k \in Kinds |-> IF k \in {"jumpit", "greenhouse", "demoday", "greeting"} THEN <<"h1", "h2">> ELSE <<"h1">>]
Agent(star)   == [key |-> "agent", star |-> star]
Disallow(len) == [key |-> "disallow", len |-> len]
Allow(len)    == [key |-> "allow", len |-> len]
MCFiles ==
  {<<Agent(TRUE), Disallow(1), Allow(2)>>,
   <<Agent(FALSE), Disallow(1), Agent(TRUE), Disallow(2), Allow(1)>>}
MCTenantOf == [r \in BoardRowIds |-> IF r = "r3" THEN 2 ELSE 1]

-----------------------------------------------------------------------------
(* RatingCache: three versions of one goal, two goals of one version; calls  *)
(* fail for one of the questions, beside at most one result.                 *)
MCRatingKeys == {<<"g1", "v1">>, <<"g2", "v1">>, <<"g1", "v2">>, <<"g1", "v3">>}
FewFailures ==
  \A w \in Raters : rater[w].state \in Failure => KeyOf(rater[w]) = <<"g1", "v1">> /\ ratings <= 1

-----------------------------------------------------------------------------
(* LoginThrottle: one account tried from three addresses.                    *)
MCNames == {<<"i1", "a">>, <<"i2", "a">>, <<"i3", "a">>}

-----------------------------------------------------------------------------
(* Scoring: rows that differ in what the rules look at, and answers to them. *)
Ex(k, l, h) == [kind |-> k, lo |-> l, hi |-> h]
AtLeast2 == <<Ex("minimum", 2, 0)>>
PlainRow == [board |-> "krafton", title |-> <<>>, position |-> <<>>, body |-> <<>>, marks |-> {"newcomer"},
   family |-> "it", dev |-> TRUE, place |-> "seoul", level |-> "newcomer", from |-> 0, to |-> 0,
   stacks |-> {"go"}, pay |-> -1, remote |-> FALSE, education |-> "none", phrases |-> {}, sent |-> {1}, full |-> {1,2}]
Titles == {<<>>, <<Ex("junior", 0, 0)>>, <<Ex("newcomerTo", 0, 3)>>, <<Ex("range", 5, 2), Ex("career", 4, 0)>>}
Bodies == {<<>>, AtLeast2, <<Ex("atLeast", 1, 0)>>}
TitleMarks == SUBSET {"newcomer", "intern"} \cup {{"interns"}, {"newcomer", "dev_intern"}}
CareerRows ==
  {[PlainRow EXCEPT !.board = "krafton", !.title = t, !.body = b, !.marks = m, !.place = l] :
     t \in Titles \cup {<<Ex("senior", 0, 0)>>}, b \in Bodies, m \in TitleMarks, l \in {"seoul", "abroad"}}
  \cup {[PlainRow EXCEPT !.board = "demoday", !.title = t, !.position = b, !.level = l, !.family = f] :
     t \in Titles, b \in {<<>>, AtLeast2}, l \in {"newcomer", "any", "oneToThree"}, f \in {"it", "untagged"}}
  \cup {[PlainRow EXCEPT !.board = "greeting", !.level = l, !.from = a, !.to = b, !.marks = m] :
     l \in {"newcomer", "any", "experienced"}, a \in {-1, 0}, b \in {-1, 3}, m \in SUBSET {"pool", "intern"}}
  \cup {[PlainRow EXCEPT !.board = "daangn", !.level = l] : l \in {"newcomer", "mixed", "experienced"}}
  \cup {[PlainRow EXCEPT !.board = "jumpit", !.level = l, !.from = a, !.to = b, !.title = t] :
     l \in {"newcomer", "experienced"}, a \in {0, 1}, b \in {0, 3}, t \in {<<>>, <<Ex("range", 1, 3)>>}}
Facts == {<<-1, "none", {}>>, <<0, "bachelor", {"go", "db"}>>, <<2, "none", {"go", "db"}>>}
FactRows ==
  {[PlainRow EXCEPT !.board = "worknet", !.pay = f[1], !.education = f[2], !.stacks = f[3], !.phrases = d,
                    !.place = l, !.remote = (l = "busan")] :
     f \in Facts, d \in SUBSET {"night", "sales"}, l \in {"seoul", "busan"}}
MCRows == CareerRows \cup FactRows

Basic == [years |-> 0, career |-> 0, salary |-> 0, floor |-> 3, stacks |-> <<[tag |-> "go", weight |-> 30]>>,
          location |-> 10, cities |-> {"seoul"}, remote |-> FALSE, education |-> 0, dealbreakers |-> {}, minimum |-> -1]
MCProfiles ==
  {Basic,
   [Basic EXCEPT !.years = 4, !.remote = TRUE, !.floor = 2],
   [Basic EXCEPT !.career = 40, !.salary = 15, !.location = 20],
   [Basic EXCEPT !.stacks = <<[tag |-> "go", weight |-> 20], [tag |-> "db", weight |-> 30]>>],
   [Basic EXCEPT !.stacks = <<[tag |-> "go", weight |-> 40], [tag |-> "db", weight |-> 30]>>],
   [Basic EXCEPT !.stacks = <<>>, !.location = 0, !.minimum = 0, !.years = 7],
   [Basic EXCEPT !.dealbreakers = {"night"}],
   [Basic EXCEPT !.dealbreakers = {"night", "sales"}],
   [Basic EXCEPT !.education = 2, !.minimum = 90]}
Ext0 == [min |-> 0, max |-> -1, newcomer |-> TRUE, education |-> "none", careerQuote |-> "none", educationQuote |-> "none"]
MCExtractions ==
  {Ext0, [Ext0 EXCEPT !.min = 2, !.newcomer = FALSE, !.careerQuote = "grounded"],
   [Ext0 EXCEPT !.min = 2, !.newcomer = FALSE], [Ext0 EXCEPT !.max = 3],
   [Ext0 EXCEPT !.min = 1, !.max = 3, !.newcomer = FALSE, !.careerQuote = "grounded", !.education = "master", !.educationQuote = "grounded"],
   [Ext0 EXCEPT !.min = 51, !.careerQuote = "grounded"], [Ext0 EXCEPT !.max = 100], [Ext0 EXCEPT !.careerQuote = "made up"]}
It(k, d, c, s) == [kind |-> k, delta |-> d, cites |-> c, signal |-> s]
MCSignals ==
  {<<It("presence", 35, {<<1, 0>>}, 1), It("presence", 20, {<<1, 1>>}, 1), It("absence", -5, {<<2, 0>>, <<3, 0>>}, 1)>>,
   <<It("presence", 20, {<<1, 0>>}, 2), It("presence", 20, {<<1, 0>>}, 1), It("absence", -35, {<<3, 0>>}, 1)>>,
   <<It("presence", 10, {<<1, 0>>}, 1), It("presence", -10, {<<1, 0>>}, 1), It("absence", -30, {<<3, 1>>}, 1)>>,
   <<It("absence", -30, {<<3, 0>>}, 1), It("absence", -30, {<<4, 0>>}, 1), It("presence", 9, {<<2, 0>>}, 1)>>,
   <<>>}
MCWording(signal, cites) == 1000 * signal + SumSet({2 ^ (2 * c[1] + c[2]) : c \in cites})
V(i, v, ok) == [id |-> i, verdict |-> v, sound |-> ok]
MCVerdicts ==
  {<<V("night", "not_applicable", TRUE)>>, <<V("night", "applies", TRUE), V("sales", "not_applicable", TRUE)>>,
   <<V("night", "not_applicable", TRUE), V("night", "applies", FALSE)>>, <<V("sales", "uncertain", TRUE)>>}

-----------------------------------------------------------------------------
(* The composition.                                                          *)

PartsInit ==
  /\ part \in {"import", "migrations", "boards", "ratings", "throttle", "scoring"}
  /\ IF part = "migrations" THEN TRUE ELSE schema = <<>> /\ build = [m \in Migrators |-> "new"]
  /\ IF part = "boards" THEN TRUE ELSE kind = "rallit" /\ shape = [r \in BoardRowIds |-> "wanted"]
  /\ IF part = "ratings" THEN TRUE ELSE settings = Ask(<<"g1", "v1">>)
  /\ IF part = "throttle" THEN TRUE ELSE door = "login"
  /\ IF part = "scoring" THEN TRUE ELSE profile = Basic
  /\ ImportInit /\ MigrationsInit /\ BoardsInit /\ RatingInit /\ ThrottleInit /\ ScoringInit

partsVars == <<importVars, migrationVars, boardVars, ratingVars, throttleVars, scoringVars>>
PartsNext ==
  /\ UNCHANGED part
  /\ \/ /\ part = "import" /\ ImportNext
        /\ UNCHANGED <<migrationVars, boardVars, ratingVars, throttleVars, scoringVars>>
     \/ /\ part = "migrations" /\ MigrationsNext
        /\ UNCHANGED <<importVars, boardVars, ratingVars, throttleVars, scoringVars>>
     \/ /\ part = "boards" /\ BoardsNext
        /\ UNCHANGED <<importVars, migrationVars, ratingVars, throttleVars, scoringVars>>
     \/ /\ part = "ratings" /\ RatingNext /\ FewFailures'
        /\ UNCHANGED <<importVars, migrationVars, boardVars, throttleVars, scoringVars>>
     \/ /\ part = "throttle" /\ ThrottleNext
        /\ UNCHANGED <<importVars, migrationVars, boardVars, ratingVars, scoringVars>>
     \/ /\ part = "scoring" /\ ScoringNext
        /\ UNCHANGED <<importVars, migrationVars, boardVars, ratingVars, throttleVars>>

\* The importers, migrators, raters and guests of the instance are the same two
\* processes, which are alike: a state and the one with the two exchanged are one.
MCSymmetry == Permutations(Guests)

PartsSpec == PartsInit /\ [][PartsNext]_<<partsVars, part>>
=============================================================================
