---------------------------- MODULE ModelAnswers ----------------------------
(***************************************************************************)
(* What is kept of an answer of the language model (internal/ai): a career *)
(* reading, a set of scored signals, verdicts on excluded phrases.  A      *)
(* citation is a set of spellings <<t, v>>: t its tokens, v the way it is  *)
(* written.  A posting knows the tokens it contains (full) and those in    *)
(* the part that was sent (sent).                                          *)
(***************************************************************************)
EXTENDS Integers, Sequences, FiniteSets, SequencesExt, FiniteSetsExt, Lists

CONSTANT
  Wording(_, _)   \* the place of a wording (signal and goal, quote or forms) in the order of texts

MaxItemDelta == 30
MaxNetDelta  == 40
NoReading == [min |-> -1]

Magnitude(n) == IF n < 0 THEN -n ELSE n
Within(n, bound) == Max({-bound, Min({bound, n})})

-----------------------------------------------------------------------------
(* Stage 1: [min, max, newcomer, education, careerQuote, educationQuote],  *)
(* max -1 when the model gives none, a quote "none", "grounded" or "made   *)
(* up".  A reading that restricts must quote the posting.                  *)

CareerYearsMax  == 50
CareerUpperOpen == 99
Restricts(x) == ~x.newcomer \/ x.min > 0
ParseExtraction(x) ==
  /\ x.min \in 0 .. CareerYearsMax /\ (x.max = -1 \/ x.max \in x.min .. CareerUpperOpen)
  /\ "made up" \notin {x.careerQuote, x.educationQuote}
  /\ Restricts(x) => x.careerQuote = "grounded"
  /\ x.education # "none" => x.educationQuote = "grounded"

-----------------------------------------------------------------------------
(* Stage 2: items [kind, delta, cites, signal], signal 0 when the signal   *)
(* or the goal is blank.                                                   *)

Tokens(it) == {c[1] : c \in it.cites}

\* A quote of one short word proves nothing; token 0 is one.
GatePresence(it, p) == it.kind = "presence" /\ 0 \notin Tokens(it) /\ Tokens(it) \subseteq p.sent

\* Every form must be missing from the whole text, not only from what was sent.
GateAbsence(it, p) == it.kind = "absence" /\ Tokens(it) # {} /\ Tokens(it) \cap p.full = {}

Usable(it, p) == it.delta # 0 /\ it.signal # 0 /\ (GatePresence(it, p) \/ GateAbsence(it, p))
EvidenceIdentity(it) == <<it.kind, Tokens(it)>>

\* Ties between items of one magnitude are broken by their wording.
WordingOf(it) == Wording(it.signal, it.cites)
\* A bug for comparison with Preferred: the first item stands.
Preferred_First(new, old) == FALSE
Preferred(new, old) ==
  \/ Magnitude(new.delta) < Magnitude(old.delta)
  \/ Magnitude(new.delta) = Magnitude(old.delta) /\ WordingOf(new) < WordingOf(old)

\* One step of the pass over the items: groups holds a group [item, plus, minus]
\* for each piece of evidence so far.
Bounded(it) == [it EXCEPT !.delta = Within(it.delta, MaxItemDelta)]
Group(it) == [item |-> it, plus |-> it.delta > 0, minus |-> it.delta < 0]
Joined(g, it) ==
  [item |-> IF Preferred(it, g.item) THEN it ELSE g.item,
   plus |-> g.plus \/ it.delta > 0, minus |-> g.minus \/ it.delta < 0]
SameEvidence(a, b) == EvidenceIdentity(a) = EvidenceIdentity(b)
Grouped(groups, it) ==
  IF \E g \in groups : SameEvidence(g.item, it)
  THEN {IF SameEvidence(g.item, it) THEN Joined(g, it) ELSE g : g \in groups}
  ELSE groups \cup {Group(it)}
Groups(raw, p) ==
  LET walk[n \in 0 .. Len(raw)] ==
        IF n = 0 THEN {}
        ELSE IF Usable(raw[n], p) THEN Grouped(walk[n - 1], Bounded(raw[n])) ELSE walk[n - 1]
  IN  walk[Len(raw)]

\* What survives: evidence that speaks for and against counts for nothing.
NetOf(items) == LET list == SetToSeq(items) IN Total([n \in DOMAIN list |-> list[n].delta])
Settled(items) == [items |-> items, net |-> Within(NetOf(items), MaxNetDelta)]
Unopposed(groups) == {g.item : g \in {h \in groups : ~(h.plus /\ h.minus)}}
GateDelta(raw, p) == Settled(Unopposed(Groups(raw, p)))

NoDelta == [items |-> {}, net |-> 0]

-----------------------------------------------------------------------------
(* Stage 1B: rows [id, verdict, sound].  A row counts when its candidate   *)
(* was asked about and is named once, also by rows that do not decode.     *)

Mentions(rows, id) == Cardinality({n \in DOMAIN rows : rows[n].id = id})
ValidRows(rows, asked) ==
  {n \in DOMAIN rows : rows[n].sound /\ rows[n].id \in asked /\ Mentions(rows, rows[n].id) = 1}
ParseDealbreakerValidations(rows, asked, old) ==
  [id \in DOMAIN old |->
     IF \E n \in ValidRows(rows, asked) : rows[n].id = id
     THEN rows[CHOOSE n \in ValidRows(rows, asked) : rows[n].id = id].verdict
     ELSE old[id]]
=============================================================================
