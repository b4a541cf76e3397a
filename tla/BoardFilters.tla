---------------------------- MODULE BoardFilters ----------------------------
(***************************************************************************)
(* Which rows of a board become postings, and the career bounds it gives   *)
(* them (internal/scraper).  A text is the sequence of the expressions of  *)
(* experience in it, [kind, lo, hi]; a row is what the filters look at:    *)
(*   board, title, position, body (texts), marks (words in the title),     *)
(*   family of the job (it, other, untagged), dev (a developer keyword),   *)
(*   place, and the board's own career fields level, from and to.          *)
(***************************************************************************)
EXTENDS Integers, Sequences, FiniteSetsExt

OpenEnded == 99     \* experienceUpperOpen, careerUpperOpen, anyMaxYears
Unread == <<>>      \* no bounds were found

\* The ladder of expressions: a more specific one wins wherever it stands.
Rung == [atLeast |-> 1, minimum |-> 2, newcomerTo |-> 3, range |-> 4, career |-> 5, senior |-> 6, junior |-> 7]

YearsOf(x) ==
  CASE x.kind \in {"atLeast", "minimum", "career"} -> <<x.lo, OpenEnded>>
    [] x.kind = "newcomerTo"                       -> <<0, x.hi>>
    [] x.kind = "range"                            -> <<x.lo, x.hi>>
    [] x.kind = "senior"                           -> <<5, OpenEnded>>
    [] x.kind = "junior"                           -> <<1, 3>>

\* Only the leftmost expression of a kind is read; a range the wrong way round
\* sends the reader down the ladder.
Readable(text) ==
  {n \in DOMAIN text :
     /\ \A m \in 1 .. n - 1 : text[m].kind # text[n].kind
     /\ text[n].kind = "range" => text[n].lo <= text[n].hi}
Topmost(text, ns) == CHOOSE n \in ns : \A m \in ns : Rung[text[n].kind] <= Rung[text[m].kind]
Highest(text, ns) == IF ns = {} THEN Unread ELSE YearsOf(text[Topmost(text, ns)])
ParseExperienceText(text) == Highest(text, Readable(text))

FirstRead(title, body) == IF title # Unread THEN title ELSE body
ParseExperienceYears(title, body) == FirstRead(ParseExperienceText(title), ParseExperienceText(body))

-----------------------------------------------------------------------------
(* The words of a title, and the filters.                                  *)

Says(row, kinds) == \E n \in DOMAIN row.title : row.title[n].kind \in kinds
\* "interns" stands for what the boards' word boundary finds and no token of the
\* title is ("Interns", an "Intern" with a Korean ending); Scoring's IsInternRole
\* differs.
HasInternMarker(row)   == row.marks \cap {"intern", "interns"} # {}
HasNewcomerMarker(row) ==
  HasInternMarker(row) \/ "newcomer" \in row.marks \/ Says(row, {"junior", "newcomerTo"})
HasSeniorMarker(row)   == "senior" \in row.marks \/ Says(row, {"senior"})
IsKoreaLocation(row)   == row.place # "abroad"

\* The years a row demands, when it demands any: what a filter reads of it.
Demands(row, body, years) ==
  LET x == ParseExperienceYears(row.title, body) IN x # Unread /\ x[1] >= years

KeepsITSWE(row) ==
  /\ ~Demands(row, row.position, 4)
  /\ row.family = "it" \/ (row.family = "untagged" /\ row.dev)

ClassifyMetadata(row) == row.family = "it" /\ row.level \in {"newcomer", "mixed"}

ClassifyHeuristic(row) ==
  /\ IsKoreaLocation(row) /\ row.dev
  /\ ~HasSeniorMarker(row) /\ HasNewcomerMarker(row)
  /\ ~(Demands(row, row.body, 2) /\ ~HasInternMarker(row))

Qualifies(row) ==
  /\ "pool" \notin row.marks /\ row.level \in {"newcomer", "any"}
  /\ IsKoreaLocation(row)
  /\ row.family # "other" /\ (row.family = "it" \/ row.dev)

Kept(row) ==
  CASE row.board = "demoday"  -> KeepsITSWE(row)
    [] row.board = "daangn"   -> ClassifyMetadata(row)
    [] row.board = "krafton"  -> ClassifyHeuristic(row)
    [] row.board = "greeting" -> Qualifies(row)
    [] OTHER                  -> TRUE

-----------------------------------------------------------------------------
(* The bounds a kept row gets: <<newcomer, min, max>>.                      *)

ExperienceBounds(row) ==
  CASE row.level = "newcomer" -> <<TRUE, 0, 0>>
    [] row.level = "any"      -> <<TRUE, 0, OpenEnded>>
    [] OTHER                  -> <<FALSE, 1, 3>>

MetadataBounds(row) == <<TRUE, 0, IF row.level = "mixed" THEN 3 ELSE 0>>

HeuristicBounds(row) ==
  LET x == ParseExperienceYears(row.title, row.body)
  IN  IF x # Unread /\ x[1] = 0 THEN <<TRUE, 0, x[2]>> ELSE <<TRUE, 0, 0>>

\* Greeting's from and to are optional: -1 when the board does not give them.
GreetingBounds(row) ==
  <<TRUE, Max({0, row.from}),
    IF row.to >= 0 THEN row.to ELSE IF row.level = "newcomer" THEN 0 ELSE OpenEnded>>

\* Jumpit's own fields; Rallit's and Worknet's listings are filtered by the
\* server for newcomers.
BoundsOf(row) ==
  CASE row.board = "demoday"  -> ExperienceBounds(row)
    [] row.board = "daangn"   -> MetadataBounds(row)
    [] row.board = "krafton"  -> HeuristicBounds(row)
    [] row.board = "greeting" -> GreetingBounds(row)
    [] row.board = "jumpit"   -> <<row.level = "newcomer", row.from, row.to>>
    [] OTHER                  -> <<TRUE, 0, 0>>
=============================================================================
