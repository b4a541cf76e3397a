------------------------------ MODULE MCScrape ------------------------------
(* Small instances of module Scrape: postings are source-number pairs.      *)
EXTENDS Scrape

MCSourceOf    == [p \in Ids |-> p[1]]
OneSource     == <<"jumpit">>
TwoSources    == <<"jumpit", "rallit">>
TwoOfOne      == {<<"jumpit", 1>>, <<"jumpit", 2>>}
TwoAndOne     == TwoOfOne \cup {<<"rallit", 1>>}
NoIds         == {}
NoPairs       == {}
FirstOpen     == {<<"jumpit", 1>>}
CrossPairs    == {{<<"jumpit", 1>>, <<"rallit", 1>>}, {<<"jumpit", 2>>, <<"rallit", 1>>}}

\* A third run, or a third row, where the other source has nothing and nothing is
\* bookmarked: it takes three runs for a sweep to find what an earlier one left.
ThirdIsPlain == Len(hist) <= 2 \/ (stored \cup listed \subseteq TwoOfOne /\ marks = {} /\ skip = 0)
PlainThirdSpec == Init /\ [][Next /\ ThirdIsPlain']_vars
=============================================================================
