------------------------------ MODULE AIRunsProofs ------------------------------
(***************************************************************************)
(* Theorems of module AIRuns, for any number of postings, users, workers,   *)
(* days and any caps: what a run says of readings is stored, no reading is  *)
(* paid for twice, and the caps hold but for the calls of one pool.         *)
(*                                                                          *)
(* The daily and monthly caps are about the ledger, which lags behind the   *)
(* budget in memory: usage is debited before it is recorded.  What is       *)
(* debited and not recorded yet is a set of disjoint pieces of the budget's *)
(* total, one per worker that is about to record (Unledgered).              *)
(***************************************************************************)
EXTENDS AIRuns, FiniteSetTheorems, WellFoundedInduction, TLAPS

Spending  == {"spend", "reserve", "call", "ledger", "write"}
Calling   == {p \in Postings : wpc[p] = "call"}
Committed == {p \in Postings : wpc[p] \in {"reserve", "call"}}
InPool    == {p \in Postings : wpc[p] \in Busy}
Ub == budget["user"]
Sb == budget["sponsor"]

\* The workers of a run are in the rating phase, and the pool has its width.
Shape ==
  /\ phase \in {"idle", "extract", "context"} => visible = {} /\ \A p \in Postings : wpc[p] = "off"
  /\ phase = "told" => \A p \in visible : wpc[p] = "sent"
  /\ phase = "idle" => calls = 0 /\ called = 0
  /\ phase \in {"context", "rate", "told"} \/ (phase = "extract" /\ kind = "rerate") => Ub.open
  /\ \A p \in Postings : /\ wpc[p] # "off" => p \in visible
                         /\ result[p] # "none" <=> wpc[p] = "sent"
  /\ Cardinality(InPool) <= Workers

\* What was read of a posting before the pool started is still so until its
\* own worker has written.
Known ==
  /\ phase = "rate" => \A p \in Postings : wpc[p] # "sent" => known[p] = outcome[p]
  /\ \A p \in Postings : wpc[p] \in Spending => row[p] = "none"
  /\ kind = "fresh" => \A p \in Postings : wpc[p] \in Busy \cup {"wait"} => known[p] # "rejected"

\* A row is skipped for a limit only, and a run says done over storage that worked.
Blame ==
  /\ kind = "rerate" => \A p \in Postings : result[p] = "skipped" => calls >= PerCallCap \/ Ub.degraded
  /\ phase = "told" /\ kind = "rerate" /\ verdict = "done" => ~StorageFailed

\* Every reserved call is made or about to be made.
CallsCounted == called + Cardinality(Calling) = calls /\ calls <= PerCallCap

\* Under a cap even if c workers past their check spend the most they can.
Room(base, spent, c, cap) == cap > 0 => base + spent + MaxTokens * c < cap + Overshoot
Within(base, cap) == Room(base, Ub.spent, Cardinality(Committed), cap)
RunWithin == Within(0, RunCap) /\ (RunCap > 0 => Sb.spent < RunCap + MaxTokens)

\* What the workers debited and have not recorded: disjoint pieces of the
\* total between what is recorded and what is debited.
Recording == {p \in Postings : wpc[p] = "ledger"}
Used == [p \in Postings |-> reply[p].used]
Packed(lo, S, low, high, use) ==
  \A p \in S : /\ low <= lo[p] /\ lo[p] + use[p] <= high
               /\ \A q \in S : q # p => lo[p] + use[p] <= lo[q] \/ lo[q] + use[q] <= lo[p]
Unledgered ==
  \E lo \in [Postings -> Nat] :
    Packed(lo, Recording, ledger[User][Ub.day], Ub.dayStart + Ub.spent, Used)

\* The ledger of the budget's owner since the budget was opened.
LedgerFollows(u, b) ==
  b.open => /\ ledger[u][b.day] <= b.dayStart + b.spent
            /\ MonthTotal(u) + b.dayStart = ledger[u][b.day] + b.monthStart
LedgerInv ==
  blind = 0 =>
    /\ Within(Ub.dayStart, DailyCap) /\ Within(Ub.monthStart, MonthlyCap)
    /\ DailyCap > 0 => Sb.dayStart + Sb.spent < DailyCap + Overshoot
    /\ MonthlyCap > 0 => Sb.monthStart + Sb.spent < MonthlyCap + Overshoot
    /\ LedgerFollows(User, Ub) /\ LedgerFollows(Sponsor, Sb)
    /\ Unledgered
    /\ DailyCapHolds /\ MonthlyCapHolds

LEMMA DaysPositive == Days \in Nat \ {0}
  BY AIRunsAssumption
USE DaysPositive

-----------------------------------------------------------------------------
(* The sum over the month.                                                   *)

IsRunningTotal(f, r) == f = [d \in 0 .. Days |-> IF d = 0 THEN 0 ELSE f[d - 1] + r[d]]

\* A nonempty set of naturals has a least member.
LEMMA LeastExists ==
  ASSUME NEW S \in SUBSET Nat, S # {}
  PROVE  \E n \in S : \A m \in S : n <= m
<1> DEFINE Less == {ss \in Nat \X Nat : ss[1] < ss[2]}
<1>1. IsWellFoundedOn(Less, Nat)
  BY NatLessThanWellFounded DEF OpToRel
<1>2. \A a, b \in Nat : a < b => <<a, b>> \in Less
  OBVIOUS
<1> HIDE DEF Less
<1>3. S \subseteq Nat
  OBVIOUS
<1>4. PICK n \in S : \A m \in S : ~ (<<m, n>> \in Less)
  BY <1>1, <1>3, WFMin
<1>5. n \in Nat /\ \A m \in S : m \in Nat /\ ~ (m < n)
  BY <1>2, <1>3, <1>4
<1> QED
  BY <1>5

\* The running total of a month exists.
LEMMA RunningTotalExists ==
  ASSUME NEW r \in [1 .. Days -> Nat]
  PROVE  \E f \in [0 .. Days -> Nat] : IsRunningTotal(f, r)
<1> DEFINE Upto(k, f) == f[0] = 0 /\ \A d \in 1 .. k : f[d] = f[d - 1] + r[d]
           Exists(k) == \E f \in [0 .. Days -> Nat] : Upto(k, f)
           Fails == {k \in 0 .. Days : ~ Exists(k)}
<1>1. Exists(0)
  <2> DEFINE z == [d \in 0 .. Days |-> 0]
  <2>1. z \in [0 .. Days -> Nat] /\ Upto(0, z)
    OBVIOUS
  <2> QED
    BY <2>1
<1>2. ASSUME NEW k \in 1 .. Days, Exists(k - 1) PROVE Exists(k)
  <2>1. PICK f \in [0 .. Days -> Nat] : Upto(k - 1, f)
    BY <1>2
  <2> DEFINE g == [f EXCEPT ![k] = f[k - 1] + r[k]]
  <2>2. k - 1 \in 0 .. Days /\ k \in 0 .. Days /\ f[k - 1] + r[k] \in Nat
    BY <2>1
  <2>3. g \in [0 .. Days -> Nat] /\ g[k] = f[k - 1] + r[k] /\ \A d \in 0 .. k - 1 : g[d] = f[d]
    BY <2>1, <2>2
  <2> HIDE DEF g
  <2>4. ASSUME NEW d \in 1 .. k PROVE g[d] = g[d - 1] + r[d]
    <3>1. CASE d = k
      BY <2>2, <2>3, <3>1
    <3>2. CASE d # k
      <4>1. d \in 1 .. k - 1 /\ d - 1 \in 0 .. k - 1 /\ d \in 0 .. k - 1
        BY <3>2
      <4> QED
        BY <2>1, <2>3, <4>1
    <3> QED
      BY <3>1, <3>2
  <2>5. g[0] = 0
    BY <2>1, <2>3
  <2>6. Upto(k, g)
    BY <2>4, <2>5
  <2> QED
    BY <2>3, <2>6
<1> HIDE DEF Exists
<1>3. ASSUME Fails # {} PROVE FALSE
  <2>1. PICK k \in Fails : \A m \in Fails : k <= m
    <3> Fails \in SUBSET Nat
      OBVIOUS
    <3> HIDE DEF Fails
    <3> QED
      BY <1>3, LeastExists
  <2>2. k \in 1 .. Days /\ k - 1 \in 0 .. Days /\ ~Exists(k)
    BY <1>1, <2>1
  <2>3. k - 1 \notin Fails
    BY <2>1, <2>2
  <2> QED
    BY <1>2, <2>2, <2>3
<1>4. Exists(Days)
  BY <1>3
<1>5. PICK f \in [0 .. Days -> Nat] : Upto(Days, f)
  BY <1>4 DEF Exists
<1>6. IsRunningTotal(f, r)
  <2> DEFINE h == [d \in 0 .. Days |-> IF d = 0 THEN 0 ELSE f[d - 1] + r[d]]
  <2>1. \A d \in 0 .. Days : f[d] = h[d]
    BY <1>5
  <2> QED
    BY <2>1 DEF IsRunningTotal
<1> QED
  BY <1>6

\* q is r with t more on day e.
RaisedBy(q, r, e, t) == \A d \in 1 .. Days : q[d] = IF d = e THEN r[d] + t ELSE r[d]

\* f and g are the running totals of r and of r raised by t on day e.
AreTotals(f, r, g, q, e, t) == IsRunningTotal(f, r) /\ IsRunningTotal(g, q) /\ RaisedBy(q, r, e, t)

\* The running totals of two months that differ in one day by t.
LEMMA RunningTotalsDiffer ==
  ASSUME NEW r \in [1 .. Days -> Nat], NEW e \in 1 .. Days, NEW t \in Nat,
         NEW q \in [1 .. Days -> Nat], NEW f, NEW g, AreTotals(f, r, g, q, e, t)
  PROVE  f[Days] \in Nat /\ g[Days] = f[Days] + t
<1> DEFINE Fits(d) == /\ f[d] \in Nat
                      /\ d >= e => g[d] = f[d] + t
                      /\ ~(d >= e) => g[d] = f[d] + 0
           Fails == {d \in 0 .. Days : ~Fits(d)}
<1>0. /\ f[0] = 0 /\ g[0] = 0
      /\ \A d \in 1 .. Days : f[d] = f[d - 1] + r[d] /\ g[d] = g[d - 1] + (IF d = e THEN r[d] + t ELSE r[d])
  <2>1. \A d \in 0 .. Days : f[d] = IF d = 0 THEN 0 ELSE f[d - 1] + r[d]
    BY DEF AreTotals, IsRunningTotal
  <2>2. \A d \in 0 .. Days : g[d] = IF d = 0 THEN 0 ELSE g[d - 1] + q[d]
    BY DEF AreTotals, IsRunningTotal
  <2> QED
    BY <2>1, <2>2 DEF AreTotals, RaisedBy
<1>1. Fits(0)
  BY <1>0
<1>2. ASSUME NEW d \in 1 .. Days, Fits(d - 1) PROVE Fits(d)
  <2> DEFINE x == f[d - 1]
             y == r[d]
             a == f[d]
             b == g[d - 1]
             c == g[d]
  <2>1. x \in Nat /\ y \in Nat /\ t \in Nat /\ d \in Nat /\ e \in Nat
    BY <1>2
  <2>2. a = x + y /\ (d = e => c = b + (y + t)) /\ (d # e => c = b + y)
    BY <1>0
  <2>3. (d - 1 >= e => b = x + t) /\ (~(d - 1 >= e) => b = x + 0)
    BY <1>2
  <2> SUFFICES a \in Nat /\ (d >= e => c = a + t) /\ (~(d >= e) => c = a + 0)
    OBVIOUS
  <2> HIDE DEF x, y, a, b, c
  <2>4. CASE d < e
    BY <2>1, <2>2, <2>3, <2>4
  <2>5. CASE d = e
    BY <2>1, <2>2, <2>3, <2>5
  <2>6. CASE d > e
    BY <2>1, <2>2, <2>3, <2>6
  <2> QED
    BY <2>1, <2>4, <2>5, <2>6
<1> HIDE DEF Fits
<1>3. ASSUME Fails # {} PROVE FALSE
  <2>1. PICK d \in Fails : \A m \in Fails : d <= m
    <3> Fails \in SUBSET Nat
      OBVIOUS
    <3> HIDE DEF Fails
    <3> QED
      BY <1>3, LeastExists
  <2>2. d \in 1 .. Days /\ d - 1 \in 0 .. Days /\ ~Fits(d)
    BY <1>1, <2>1
  <2>3. d - 1 \notin Fails
    BY <2>1, <2>2
  <2> QED
    BY <1>2, <2>2, <2>3
<1>4. Fits(Days)
  BY <1>3
<1> QED
  BY <1>4 DEF Fits

\* The sum of a month is such a total, now and in the next state.
LEMMA MonthTotalIsTotal ==
  ASSUME NEW u \in Users, ledger[u] \in [1 .. Days -> Nat]
  PROVE  \E f : IsRunningTotal(f, ledger[u]) /\ MonthTotal(u) = f[Days]
<1> DEFINE g == CHOOSE g : g = [d \in 0 .. Days |-> IF d = 0 THEN 0 ELSE g[d - 1] + ledger[u][d]]
<1>1. \E f : f = [d \in 0 .. Days |-> IF d = 0 THEN 0 ELSE f[d - 1] + ledger[u][d]]
  BY RunningTotalExists DEF IsRunningTotal
<1>2. g = [d \in 0 .. Days |-> IF d = 0 THEN 0 ELSE g[d - 1] + ledger[u][d]]
  BY <1>1
<1>3. MonthTotal(u) = g[Days]
  BY DEF MonthTotal
<1> QED
  BY <1>2, <1>3 DEF IsRunningTotal

LEMMA MonthTotalIsTotalNext ==
  ASSUME NEW u \in Users, ledger'[u] \in [1 .. Days -> Nat]
  PROVE  \E f : IsRunningTotal(f, ledger'[u]) /\ MonthTotal(u)' = f[Days]
<1> DEFINE g == CHOOSE g : g = [d \in 0 .. Days |-> IF d = 0 THEN 0 ELSE g[d - 1] + ledger'[u][d]]
<1>1. \E f : f = [d \in 0 .. Days |-> IF d = 0 THEN 0 ELSE f[d - 1] + ledger'[u][d]]
  BY RunningTotalExists DEF IsRunningTotal
<1>2. g = [d \in 0 .. Days |-> IF d = 0 THEN 0 ELSE g[d - 1] + ledger'[u][d]]
  BY <1>1
<1>3. MonthTotal(u)' = g[Days]
  BY DEF MonthTotal
<1> QED
  BY <1>2, <1>3 DEF IsRunningTotal

\* A month with t more on day e is a month, and differs from it as said.
LEMMA RaisedMonth ==
  ASSUME NEW r \in [1 .. Days -> Nat], NEW e \in 1 .. Days, NEW t \in Nat
  PROVE  /\ [r EXCEPT ![e] = @ + t] \in [1 .. Days -> Nat]
         /\ RaisedBy([r EXCEPT ![e] = @ + t], r, e, t)
<1>1. r[e] + t \in Nat
  OBVIOUS
<1> QED
  BY <1>1 DEF RaisedBy

\* A recorded usage raises the sum of its user's month by as much, and a month
\* that is left alone keeps its sum.
LEMMA MonthTotalRises ==
  ASSUME NEW u \in Users, ledger[u] \in [1 .. Days -> Nat], NEW e \in 1 .. Days, NEW t \in Nat,
         ledger'[u] = [ledger[u] EXCEPT ![e] = @ + t]
  PROVE  MonthTotal(u) \in Nat /\ MonthTotal(u)' = MonthTotal(u) + t
<1>1. PICK f : IsRunningTotal(f, ledger[u]) /\ MonthTotal(u) = f[Days]
  BY MonthTotalIsTotal
<1>2. ledger'[u] \in [1 .. Days -> Nat]
  BY RaisedMonth
<1>3. PICK g : IsRunningTotal(g, ledger'[u]) /\ MonthTotal(u)' = g[Days]
  BY <1>2, MonthTotalIsTotalNext
<1>4. AreTotals(f, ledger[u], g, ledger'[u], e, t)
  BY <1>1, <1>3, RaisedMonth DEF AreTotals
<1>5. f[Days] \in Nat /\ g[Days] = f[Days] + t
  BY <1>2, <1>4, RunningTotalsDiffer
<1> QED
  BY <1>1, <1>3, <1>5

LEMMA MonthTotalStays ==
  ASSUME NEW u \in Users, ledger[u] \in [1 .. Days -> Nat], ledger'[u] = ledger[u]
  PROVE  MonthTotal(u) \in Nat /\ MonthTotal(u)' = MonthTotal(u)
<1>1. 1 \in 1 .. Days /\ ledger'[u] = [ledger[u] EXCEPT ![1] = @ + 0]
  OBVIOUS
<1>2. 0 \in Nat
  OBVIOUS
<1>3. MonthTotal(u)' = MonthTotal(u) + 0 /\ MonthTotal(u) \in Nat
  BY <1>1, <1>2, MonthTotalRises
<1> QED
  BY <1>3

LEMMA MonthTotalNat ==
  ASSUME NEW u \in Users, ledger[u] \in [1 .. Days -> Nat]
  PROVE  MonthTotal(u) \in Nat
<1>1. PICK f : IsRunningTotal(f, ledger[u]) /\ MonthTotal(u) = f[Days]
  BY MonthTotalIsTotal
<1>2. 1 \in 1 .. Days /\ 0 \in Nat
  BY DaysPositive
<1>3. RaisedBy(ledger[u], ledger[u], 1, 0)
  BY DEF RaisedBy
<1>4. AreTotals(f, ledger[u], f, ledger[u], 1, 0)
  BY <1>1, <1>3 DEF AreTotals
<1> QED
  BY <1>1, <1>2, <1>4, RunningTotalsDiffer

-----------------------------------------------------------------------------
(* Types.                                                                    *)

RunTypes ==
  /\ day \in 1 .. Days
  /\ phase \in {"idle", "extract", "context", "rate", "told"} /\ kind \in Kinds
  /\ todo \subseteq Postings /\ visible \subseteq Postings /\ verdict \in {"none", "done", "failed"}
  /\ calls \in Nat /\ called \in Nat /\ blind \in 0 .. MaxBlind /\ unrecorded \in 0 .. MaxUnrecorded
StoreTypes ==
  /\ ledger \in [Users -> [1 .. Days -> Nat]]
  /\ extracted \subseteq Postings /\ validated \subseteq Postings
  /\ row \in [Postings -> {"none", "items", "empty"}] /\ outcome \in [Postings -> Outcomes]
  /\ merged \in [Postings -> {"none", "items", "empty"}]
BudgetTypes == budget \in [{"user", "sponsor"} -> Budgets]
PoolTypes ==
  /\ known \in [Postings -> Outcomes]
  /\ wpc \in [Postings -> Busy \cup {"off", "wait", "sent"}] /\ result \in [Postings -> Results]
ReplyTypes ==
  /\ reply \in [Postings -> [used : Tokens, verdict : Replies] \cup {NoReply}]
  /\ \A p \in Postings : reply[p] # NoReply <=> wpc[p] \in {"ledger", "write"}
LEMMA TypesTogether ==
  TypeOK <=> RunTypes /\ StoreTypes /\ BudgetTypes /\ PoolTypes /\ ReplyTypes
  BY DEF TypeOK, RunTypes, StoreTypes, BudgetTypes, PoolTypes, ReplyTypes

LEMMA ConstantTypes ==
  /\ IsFiniteSet(Postings) /\ Candidates \subseteq Postings /\ User \in Users /\ Sponsor \in Users
  /\ Workers \in Nat \ {0} /\ Tokens \subseteq Nat
  /\ RunCap \in Nat /\ DailyCap \in Nat /\ MonthlyCap \in Nat /\ PerCallCap \in Nat
  /\ MaxBlind \in Nat /\ MaxUnrecorded \in Nat
  BY AIRunsAssumption

\* A budget as it is opened.
LEMMA OpenedBudget ==
  ASSUME StoreTypes, day \in 1 .. Days, NEW u \in Users, NEW b \in Reads(u)
  PROVE  /\ b.new \in Budgets /\ b.new.open /\ b.new.spent = 0 /\ ~b.new.degraded /\ b.new.day = day
         /\ b.blind \in {0, 1} /\ (b.blind = 1 => blind < MaxBlind)
         /\ b.blind = 0 => b.new.dayStart = ledger[u][day] /\ b.new.monthStart = MonthTotal(u)
<1>1. ledger[u][day] \in Nat /\ ledger[u] \in [1 .. Days -> Nat]
  BY DEF StoreTypes
<1>2. MonthTotal(u) \in Nat
  BY <1>1, MonthTotalNat
<1>3. \A s, m \in Nat : /\ Opened(s, m) \in Budgets /\ Opened(s, m).open /\ Opened(s, m).spent = 0
                        /\ ~Opened(s, m).degraded /\ Opened(s, m).day = day
                        /\ Opened(s, m).dayStart = s /\ Opened(s, m).monthStart = m
  BY DEF Opened, Budgets
<1>4. CASE b = [blind |-> 0, new |-> Opened(ledger[u][day], MonthTotal(u))]
  BY <1>1, <1>2, <1>3, <1>4
<1>5. CASE b = [blind |-> 1, new |-> Opened(0, 0)] /\ blind < MaxBlind
  BY <1>3, <1>5
<1> QED
  BY <1>4, <1>5 DEF Reads

LEMMA ClosedBudget == Closed \in Budgets /\ Closed.spent = 0 /\ ~Closed.open
  BY DEF Closed, Budgets

\* The usage of a call, added to a budget.
LEMMA SpentBudget ==
  ASSUME BudgetTypes, NEW who \in {"user", "sponsor"}, NEW t \in Nat
  PROVE  /\ [budget EXCEPT ![who].spent = @ + t] \in [{"user", "sponsor"} -> Budgets]
         /\ [budget EXCEPT ![who].spent = @ + t, ![who].calls = @ + 1] \in [{"user", "sponsor"} -> Budgets]
         /\ [budget EXCEPT ![who].degraded = TRUE] \in [{"user", "sponsor"} -> Budgets]
<1>1. ASSUME NEW b \in Budgets PROVE [b EXCEPT !.spent = @ + t] \in Budgets
  BY DEF Budgets
<1>2. ASSUME NEW b \in Budgets PROVE [b EXCEPT !.calls = @ + 1] \in Budgets
  BY DEF Budgets
<1>3. ASSUME NEW b \in Budgets PROVE [b EXCEPT !.degraded = TRUE] \in Budgets
  BY DEF Budgets
<1> QED
  BY <1>1, <1>2, <1>3 DEF BudgetTypes

LEMMA InitTypes == Init => TypeOK
  BY ClosedBudget, ConstantTypes, AIRunsAssumption
     DEF Init, TypeOK, Each, Kinds, Outcomes, Results, Busy, NoReply, Budgets

\* A call's usage reaches the ledger or is counted as unrecorded.
LEMMA LedgerWriteTypes ==
  ASSUME TypeOK, NEW who \in {"user", "sponsor"}, NEW t \in Nat, LedgerWrite(who, t)
  PROVE  /\ ledger' \in [Users -> [1 .. Days -> Nat]] /\ unrecorded' \in 0 .. MaxUnrecorded
         /\ \/ /\ ledger'[Owner(who)] = [ledger[Owner(who)] EXCEPT ![budget[who].day] = @ + t]
               /\ \A u \in Users \ {Owner(who)} : ledger'[u] = ledger[u]
            \/ ledger' = ledger
<1>1. Owner(who) \in Users /\ budget[who].day \in 1 .. Days
  BY ConstantTypes DEF TypeOK, Budgets, Owner
<1>2. unrecorded \in Nat /\ MaxUnrecorded \in Nat
  BY ConstantTypes DEF TypeOK
<1>3. CASE ledger' = Record(who, t) /\ UNCHANGED unrecorded
  <2> DEFINE o == Owner(who)  d == budget[who].day
  <2>1. ledger' = [ledger EXCEPT ![o] = [ledger[o] EXCEPT ![d] = @ + t]]
    BY <1>3 DEF Record
  <2>2. ledger \in [Users -> [1 .. Days -> Nat]] /\ o \in Users /\ d \in 1 .. Days
    BY <1>1 DEF TypeOK
  <2> HIDE DEF o, d
  <2>3. [ledger[o] EXCEPT ![d] = @ + t] \in [1 .. Days -> Nat]
    BY <2>2
  <2>4. /\ ledger' \in [Users -> [1 .. Days -> Nat]] /\ ledger'[o] = [ledger[o] EXCEPT ![d] = @ + t]
        /\ \A u \in Users \ {o} : ledger'[u] = ledger[u]
    BY <2>1, <2>2, <2>3
  <2> QED
    BY <1>3, <2>4 DEF o, d, TypeOK
<1>4. CASE unrecorded < MaxUnrecorded /\ unrecorded' = unrecorded + 1 /\ UNCHANGED ledger
  BY <1>1, <1>2, <1>4 DEF TypeOK
<1> QED
  BY <1>3, <1>4 DEF LedgerWrite

\* The moves of the run as a whole.
LEMMA RunTypesStep ==
  ASSUME TypeOK,
         \/ StartRerate \/ StartScrape \/ ResolveSponsor \/ StartContext \/ Merge \/ FinishRerate
         \/ FinishScrape \/ Release \/ Crash \/ EditGoal \/ NewDay \/ UNCHANGED vars
  PROVE  TypeOK'
<1> USE DEF RunTypes, PoolTypes, ReplyTypes, durable, pool
<1>0. RunTypes /\ StoreTypes /\ BudgetTypes /\ PoolTypes /\ ReplyTypes
  BY TypesTogether
<1>1. CASE StartRerate
  <2>1. PICK b \in Reads(User), s \in Reads(Sponsor) :
          /\ blind + b.blind + s.blind <= MaxBlind
          /\ blind' = blind + b.blind + s.blind
          /\ budget' = [user |-> b.new, sponsor |-> s.new]
    BY <1>1 DEF StartRerate
  <2>2. /\ b.new \in Budgets /\ s.new \in Budgets /\ b.blind \in {0, 1} /\ s.blind \in {0, 1}
    BY <1>0, <2>1, OpenedBudget, ConstantTypes
  <2>3. BudgetTypes' /\ blind' \in 0 .. MaxBlind
    BY <1>0, <2>1, <2>2, ConstantTypes DEF BudgetTypes
  <2>4. UNCHANGED <<day, durable, calls, pool, verdict, called>>
        /\ phase' = "extract" /\ kind' = "rerate" /\ todo' = Postings
    BY <1>1 DEF StartRerate
  <2> QED
    BY <1>0, <2>3, <2>4 DEF TypeOK, BudgetTypes, StoreTypes, Kinds
<1>2. CASE StartScrape
  BY <1>0, <1>2 DEF StartScrape, TypeOK, BudgetTypes, StoreTypes, Kinds
<1>3. CASE ResolveSponsor
  <2>1. PICK s \in Reads(Sponsor) : budget' = [budget EXCEPT !["sponsor"] = s.new] /\ blind' = blind + s.blind
    BY <1>3 DEF ResolveSponsor
  <2>2. s.new \in Budgets /\ s.blind \in {0, 1} /\ (s.blind = 1 => blind < MaxBlind)
    BY <1>0, <2>1, OpenedBudget, ConstantTypes
  <2>3. BudgetTypes' /\ blind' \in 0 .. MaxBlind
    BY <1>0, <2>1, <2>2, ConstantTypes DEF BudgetTypes
  <2> QED
    BY <1>0, <1>3, <2>3 DEF ResolveSponsor, TypeOK, BudgetTypes, StoreTypes
<1>4. CASE StartContext
  <2>1. BudgetTypes' /\ blind' \in 0 .. MaxBlind /\ todo' \subseteq Postings
    <3>1. CASE kind = "rerate"
      BY <1>0, <1>4, <3>1, ConstantTypes DEF StartContext, BudgetTypes
    <3>2. CASE kind # "rerate"
      <4>1. PICK b \in Reads(User) : budget' = [budget EXCEPT !["user"] = b.new] /\ blind' = blind + b.blind
        BY <1>4, <3>2 DEF StartContext
      <4>2. b.new \in Budgets /\ b.blind \in {0, 1} /\ (b.blind = 1 => blind < MaxBlind)
        BY <1>0, <4>1, OpenedBudget, ConstantTypes
      <4>3. todo' \subseteq Postings
        BY <1>4, <3>2, ConstantTypes DEF StartContext
      <4> QED
        BY <1>0, <4>1, <4>2, <4>3, ConstantTypes DEF BudgetTypes
    <3> QED
      BY <3>1, <3>2
  <2> QED
    BY <1>0, <1>4, <2>1 DEF StartContext, TypeOK, BudgetTypes, StoreTypes
<1>5. CASE Merge
  <2>1. known' \in [Postings -> Outcomes]
    BY <1>0, <1>5 DEF Merge, Tell, StoreTypes, Outcomes
  <2>2. /\ visible' \subseteq Postings /\ phase' \in {"rate", "told"} /\ verdict' \in {"none", "done", "failed"}
        /\ merged' \in {merged, row}
        /\ UNCHANGED <<day, ledger, unrecorded, extracted, validated, row, outcome, kind,
                       todo, budget, calls, wpc, reply, result, called, blind>>
    BY <1>0, <1>5 DEF Merge, Tell
  <2> QED
    BY <1>0, <2>1, <2>2 DEF TypeOK, BudgetTypes, StoreTypes
<1>6. CASE FinishRerate
  BY <1>0, <1>6 DEF FinishRerate, Tell, TypeOK, BudgetTypes, StoreTypes
<1>7. CASE FinishScrape
  BY <1>0, <1>7 DEF FinishScrape, Tell, TypeOK, BudgetTypes, StoreTypes
<1>8. CASE Release \/ Crash
  <2>1. Forget
    BY <1>8 DEF Release, Crash
  <2> QED
    BY <1>0, <2>1, ClosedBudget DEF Forget, Each, TypeOK, BudgetTypes, StoreTypes, Kinds, Outcomes, Results
<1>9. CASE EditGoal
  BY <1>0, <1>9 DEF EditGoal, Each, TypeOK, BudgetTypes, StoreTypes, Outcomes
<1>10. CASE NewDay
  BY <1>0, <1>10 DEF NewDay, TypeOK, BudgetTypes, StoreTypes
<1>11. CASE UNCHANGED vars
  BY <1>0, <1>11 DEF vars, TypeOK, BudgetTypes, StoreTypes
<1> QED
  BY <1>1, <1>2, <1>3, <1>4, <1>5, <1>6, <1>7, <1>8, <1>9, <1>10, <1>11

\* The moves of one posting.
LEMMA StepTypes ==
  ASSUME TypeOK, NEW p \in Postings, Step(p)
  PROVE  TypeOK'
<1> USE DEF RunTypes, PoolTypes, ReplyTypes, durable, At, Goto, Send, Examine
<1>0. RunTypes /\ StoreTypes /\ BudgetTypes /\ PoolTypes /\ ReplyTypes
  BY TypesTogether
<1>1. CASE ExtractSkip(p) \/ ContextSkip(p)
  <2>1. BudgetTypes'
    BY <1>0, <1>1, SpentBudget, 0 \in Nat DEF ExtractSkip, ContextSkip, BudgetTypes
  <2> QED
    BY <1>0, <1>1, <2>1 DEF ExtractSkip, ContextSkip, pool, TypeOK, BudgetTypes, StoreTypes
<1>2. CASE Extract(p)
  <2>1. PICK t \in Tokens : /\ budget' = [budget EXCEPT !["sponsor"].spent = @ + t, !["sponsor"].calls = @ + 1]
                            /\ LedgerWrite("sponsor", t)
    BY <1>2 DEF Extract
  <2>2. /\ BudgetTypes' /\ ledger' \in [Users -> [1 .. Days -> Nat]] /\ unrecorded' \in 0 .. MaxUnrecorded
    BY <1>0, <2>1, SpentBudget, LedgerWriteTypes, ConstantTypes DEF BudgetTypes
  <2> QED
    BY <1>0, <1>2, <2>2 DEF Extract, pool, TypeOK, BudgetTypes, StoreTypes
<1>3. CASE Context(p)
  <2>1. PICK t \in Tokens : Spend("user", t) /\ LedgerWrite("user", t)
    BY <1>3 DEF Context
  <2>2. /\ BudgetTypes' /\ ledger' \in [Users -> [1 .. Days -> Nat]] /\ unrecorded' \in 0 .. MaxUnrecorded
    BY <1>0, <2>1, SpentBudget, LedgerWriteTypes, ConstantTypes DEF BudgetTypes, Spend
  <2> QED
    BY <1>0, <1>3, <2>2 DEF Context, pool, TypeOK, BudgetTypes, StoreTypes
<1>4. CASE Spawn(p)
  BY <1>0, <1>4 DEF Spawn, Busy, Results, TypeOK, BudgetTypes, StoreTypes
<1>5. CASE Admit(p)
  BY <1>0, <1>5 DEF Admit, Busy, TypeOK, BudgetTypes, StoreTypes
<1>6. CASE Lookup(p)
  BY <1>0, <1>6 DEF Lookup, Busy, Results, TypeOK, BudgetTypes, StoreTypes
<1>7. CASE CheckBudget(p)
  <2>1. BudgetTypes'
    BY <1>0, <1>7, SpentBudget, 0 \in Nat DEF CheckBudget, BudgetTypes
  <2> QED
    BY <1>0, <1>7, <2>1 DEF CheckBudget, Busy, Results, TypeOK, BudgetTypes, StoreTypes
<1>8. CASE Reserve(p)
  <2>1. calls' \in Nat /\ PoolTypes'
    BY <1>0, <1>8 DEF Reserve, Busy, Results
  <2>2. ReplyTypes'
    BY <1>0, <1>8 DEF Reserve
  <2> QED
    BY <1>0, <1>8, <2>1, <2>2 DEF Reserve, TypeOK, BudgetTypes, StoreTypes
<1>9. CASE Call(p)
  <2>1. PICK t \in Tokens, v \in Replies :
          reply' = [reply EXCEPT ![p] = [used |-> t, verdict |-> v]] /\ Spend("user", t)
    BY <1>9 DEF Call
  <2>2. BudgetTypes'
    BY <1>0, <2>1, SpentBudget, ConstantTypes DEF Spend, BudgetTypes
  <2>3. ReplyTypes' /\ wpc' \in [Postings -> Busy \cup {"off", "wait", "sent"}]
    <3>1. [used |-> t, verdict |-> v] # NoReply
      BY <2>1 DEF NoReply, Replies
    <3> QED
      BY <1>0, <1>9, <2>1, <3>1 DEF Call, Busy
  <2> QED
    BY <1>0, <1>9, <2>2, <2>3 DEF Call, TypeOK, BudgetTypes, StoreTypes
<1>10. CASE WriteLedger(p)
  <2>1. reply[p].used \in Nat
    BY <1>0, <1>10, ConstantTypes DEF WriteLedger
  <2>2. ledger' \in [Users -> [1 .. Days -> Nat]] /\ unrecorded' \in 0 .. MaxUnrecorded
    BY <1>10, <2>1, LedgerWriteTypes DEF WriteLedger
  <2> QED
    BY <1>0, <1>10, <2>2 DEF WriteLedger, Busy, TypeOK, BudgetTypes, StoreTypes
<1>11. CASE WriteResult(p)
  <2>1. /\ row' \in [Postings -> {"none", "items", "empty"}] /\ outcome' \in [Postings -> Outcomes]
        /\ wpc' = [wpc EXCEPT ![p] = "sent"] /\ result' \in [Postings -> Results]
    <3>1. reply[p].verdict \in Replies
      BY <1>0, <1>11 DEF WriteResult
    <3>2. CASE Stored(p)
      <4>1. CASE reply[p].verdict = "rated"
        BY <1>0, <3>2, <4>1 DEF Stored, StoreTypes, Outcomes, Results
      <4>2. CASE reply[p].verdict = "nothing"
        <5>1. /\ row' = [row EXCEPT ![p] = "empty"] /\ outcome' = [outcome EXCEPT ![p] = "no_signal"]
              /\ Send(p, "no_signal")
          BY <3>2, <4>2 DEF Stored
        <5> QED
          BY <1>0, <5>1 DEF StoreTypes, Outcomes, Results
      <4>3. CASE reply[p].verdict = "rejected"
        BY <1>0, <3>2, <4>3 DEF Stored, StoreTypes, Outcomes, Results
      <4>4. CASE reply[p].verdict = "error"
        BY <1>0, <3>2, <4>4 DEF Stored, StoreTypes, Outcomes, Results
      <4> QED
        BY <1>11, <3>1, <4>1, <4>2, <4>3, <4>4 DEF WriteResult, Replies
    <3>3. CASE UNCHANGED <<row, outcome>> /\ Send(p, "unsaved")
      BY <1>0, <1>11, <3>3 DEF WriteResult, StoreTypes, Results
    <3> QED
      BY <1>11, <3>2, <3>3 DEF WriteResult
  <2>2. ReplyTypes'
    BY <1>0, <1>11, <2>1 DEF WriteResult
  <2> QED
    BY <1>0, <1>11, <2>1, <2>2 DEF WriteResult, Busy, TypeOK, BudgetTypes, StoreTypes
<1> QED
  BY <1>1, <1>2, <1>3, <1>4, <1>5, <1>6, <1>7, <1>8, <1>9, <1>10, <1>11 DEF Step

-----------------------------------------------------------------------------
(* The pool and the phases.                                                  *)

LEMMA PostingSetsFinite ==
  ASSUME NEW S \in SUBSET Postings
  PROVE  IsFiniteSet(S) /\ Cardinality(S) \in Nat
  BY FS_Subset, FS_CardinalityType, ConstantTypes

LEMMA PostingSetsGrow ==
  ASSUME NEW S \in SUBSET Postings, NEW T \in SUBSET S
  PROVE  Cardinality(T) <= Cardinality(S) /\ Cardinality(T) \in Nat /\ Cardinality(S) \in Nat
         /\ (Cardinality(T) = Cardinality(S) => T = S)
<1>1. IsFiniteSet(S) /\ T \in SUBSET Postings
  BY PostingSetsFinite
<1> QED
  BY <1>1, FS_Subset, PostingSetsFinite

LEMMA PostingSetsChange ==
  ASSUME NEW S \in SUBSET Postings, NEW p \in Postings
  PROVE  /\ Cardinality(S \cup {p}) = IF p \in S THEN Cardinality(S) ELSE Cardinality(S) + 1
         /\ Cardinality(S \ {p}) = IF p \in S THEN Cardinality(S) - 1 ELSE Cardinality(S)
<1>1. IsFiniteSet(S)
  BY PostingSetsFinite
<1> QED
  BY <1>1, FS_AddElement, FS_RemoveElement

\* A worker that starts finds room; others stay or leave.
LEMMA PoolKeepsWidth ==
  ASSUME Shape, NEW p \in Postings,
         \A q \in Postings \ {p} : wpc'[q] = wpc[q],
         wpc'[p] \in Busy => wpc[p] \in Busy \/ Cardinality(InPool) < Workers
  PROVE  Cardinality(InPool') <= Workers
<1>1. InPool \in SUBSET Postings /\ InPool' \in SUBSET Postings /\ Cardinality(InPool) <= Workers
      /\ Cardinality(InPool) \in Nat /\ Workers \in Nat
  BY ConstantTypes, PostingSetsFinite DEF InPool, Shape
<1>2. CASE wpc'[p] \in Busy /\ wpc[p] \notin Busy
  <2>1. InPool' \subseteq InPool \cup {p} /\ p \notin InPool
    BY <1>2 DEF InPool
  <2>2. Cardinality(InPool \cup {p}) = Cardinality(InPool) + 1
    BY <1>1, <2>1, PostingSetsChange
  <2>3. InPool \cup {p} \in SUBSET Postings
    BY <1>1
  <2>4. Cardinality(InPool') <= Cardinality(InPool \cup {p}) /\ Cardinality(InPool') \in Nat
    BY <2>1, <2>3, PostingSetsGrow
  <2> QED
    BY <1>1, <1>2, <2>2, <2>4
<1>3. CASE ~ (wpc'[p] \in Busy /\ wpc[p] \notin Busy)
  <2>1. InPool' \subseteq InPool
    BY <1>3 DEF InPool
  <2>2. Cardinality(InPool') <= Cardinality(InPool) /\ Cardinality(InPool') \in Nat
    BY <1>1, <2>1, PostingSetsGrow
  <2> QED
    BY <1>1, <2>2
<1> QED
  BY <1>2, <1>3

LEMMA EmptyPool ==
  ASSUME \A p \in Postings : wpc[p] \notin Busy
  PROVE  InPool = {} /\ Cardinality(InPool) = 0 /\ Calling = {} /\ Committed = {}
  BY FS_EmptySet DEF InPool, Calling, Committed, Busy

LEMMA InitShape == Init => Shape
<1> SUFFICES ASSUME Init PROVE Shape
  OBVIOUS
<1>1. \A p \in Postings : wpc[p] = "off" /\ result[p] = "none"
  BY DEF Init, Each
<1>2. Cardinality(InPool) = 0
  BY <1>1, EmptyPool DEF Busy
<1> QED
  BY <1>1, <1>2, ConstantTypes DEF Init, Shape

LEMMA RunShapeStep ==
  ASSUME TypeOK, Shape,
         \/ StartRerate \/ StartScrape \/ ResolveSponsor \/ StartContext \/ Merge \/ FinishRerate
         \/ FinishScrape \/ Release \/ Crash \/ EditGoal \/ NewDay \/ UNCHANGED vars
  PROVE  Shape'
<1> USE DEF pool, durable
<1>1. CASE wpc' = wpc /\ result' = result /\ visible' = visible /\ budget' = budget /\ calls' = calls
           /\ called' = called /\ phase' = phase /\ kind' = kind
  BY <1>1 DEF Shape, InPool, Ub
<1>0. CASE StartScrape
  BY <1>0 DEF StartScrape, Shape, InPool, Ub
<1>2. CASE StartRerate
  <2>1. PICK b \in Reads(User), s \in Reads(Sponsor) : budget' = [user |-> b.new, sponsor |-> s.new]
    BY <1>2 DEF StartRerate
  <2>2. b.new.open
    BY <2>1, OpenedBudget, TypesTogether, ConstantTypes DEF RunTypes
  <2>3. Ub'.open
    BY <2>1, <2>2 DEF Ub
  <2> QED
    BY <1>2, <2>3 DEF StartRerate, Shape, InPool
<1>3. CASE ResolveSponsor
  BY <1>3 DEF ResolveSponsor, Shape, InPool, Ub, TypeOK
<1>4. CASE StartContext
  <2>1. Ub'.open
    <3>1. CASE kind = "rerate"
      BY <1>4, <3>1 DEF StartContext, Shape, Ub
    <3>2. CASE kind # "rerate"
      <4>1. PICK b \in Reads(User) : budget' = [budget EXCEPT !["user"] = b.new]
        BY <1>4, <3>2 DEF StartContext
      <4>2. b.new.open
        BY <4>1, OpenedBudget, TypesTogether, ConstantTypes DEF RunTypes
      <4> QED
        BY <4>1, <4>2 DEF Ub, TypeOK
    <3> QED
      BY <3>1, <3>2
  <2> QED
    BY <1>4, <2>1 DEF StartContext, Shape, InPool
<1>5. CASE Merge
  BY <1>5 DEF Merge, Tell, Shape, InPool, Ub
<1>6. CASE FinishRerate \/ FinishScrape
  BY <1>6 DEF FinishRerate, FinishScrape, Collected, Tell, Shape, InPool, Ub
<1>7. CASE Release \/ Crash
  <2>1. Forget
    BY <1>7 DEF Release, Crash
  <2>2. \A p \in Postings : wpc'[p] = "off" /\ result'[p] = "none"
    BY <2>1 DEF Forget, Each
  <2>3. InPool' = {}
    BY <2>2 DEF InPool, Busy
  <2>4. Cardinality(InPool') = 0
    BY <2>3, FS_EmptySet
  <2> QED
    BY <2>1, <2>2, <2>4, ConstantTypes DEF Forget, Shape
<1>8. CASE EditGoal \/ NewDay \/ UNCHANGED vars
  BY <1>1, <1>8 DEF EditGoal, NewDay, vars
<1> QED
  BY <1>0, <1>2, <1>3, <1>4, <1>5, <1>6, <1>7, <1>8

LEMMA StepShape ==
  ASSUME TypeOK, Shape, NEW p \in Postings, Step(p)
  PROVE  Shape'
<1> USE DEF pool, durable, At, Goto, Send, Examine
<1>1. CASE ExtractSkip(p) \/ Extract(p) \/ ContextSkip(p) \/ Context(p)
  <2>1. UNCHANGED <<wpc, result, visible, phase, kind>>
    BY <1>1 DEF ExtractSkip, Extract, ContextSkip, Context
  <2>2. Ub'.open = Ub.open
    <3>1. CASE ExtractSkip(p)
      BY <3>1 DEF ExtractSkip, Ub, TypeOK
    <3>2. CASE Extract(p)
      BY <3>2 DEF Extract, Ub, TypeOK
    <3>3. CASE ContextSkip(p)
      <4>1. budget' \in {budget, [budget EXCEPT !["user"].degraded = TRUE]}
        BY <3>3 DEF ContextSkip
      <4>2. Ub \in Budgets
        BY DEF Ub, TypeOK
      <4> QED
        BY <4>1, <4>2 DEF Ub, TypeOK, Budgets
    <3>4. CASE Context(p)
      BY <3>4 DEF Context, Spend, Ub, TypeOK
    <3> QED
      BY <1>1, <3>1, <3>2, <3>3, <3>4
  <2>3. phase # "idle"
    BY <1>1 DEF ExtractSkip, Extract, ContextSkip, Context
  <2> QED
    BY <2>1, <2>2, <2>3 DEF Shape, InPool
<1>2. CASE \/ Spawn(p) \/ Admit(p) \/ Lookup(p) \/ CheckBudget(p) \/ Reserve(p) \/ Call(p)
           \/ WriteLedger(p) \/ WriteResult(p)
  <2>1. /\ phase = "rate" /\ UNCHANGED <<phase, visible, kind>> /\ p \in visible
    BY <1>2 DEF Spawn, Admit, Lookup, CheckBudget, Reserve, Call, WriteLedger, WriteResult, Stored, Shape
  <2>2. /\ \A q \in Postings \ {p} : wpc'[q] = wpc[q] /\ result'[q] = result[q]
        /\ wpc'[p] # "off" /\ wpc[p] # "sent"
        /\ \/ wpc'[p] = "sent" /\ result'[p] # "none"
           \/ wpc'[p] # "sent" /\ result'[p] = result[p]
    <3>1. CASE Spawn(p) \/ Admit(p) \/ Lookup(p)
      BY <3>1 DEF Spawn, Admit, Lookup, TypeOK, Results
    <3>2. CASE CheckBudget(p) \/ Reserve(p)
      BY <3>2 DEF CheckBudget, Reserve, TypeOK
    <3>3. CASE Call(p) \/ WriteLedger(p)
      BY <3>3 DEF Call, WriteLedger, TypeOK
    <3>4. CASE WriteResult(p)
      <4>1. \E r \in {"rated", "no_signal", "rejected", "failed", "unsaved"} : Send(p, r)
        BY <3>4, TypesTogether DEF WriteResult, Stored, Replies, ReplyTypes
      <4> QED
        BY <3>4, <4>1 DEF WriteResult, TypeOK
    <3> QED
      BY <1>2, <3>1, <3>2, <3>3, <3>4
  <2>3. wpc'[p] \in Busy => wpc[p] \in Busy \/ Cardinality(InPool) < Workers
    <3>1. CASE Admit(p)
      BY <3>1 DEF Admit, InPool
    <3>2. CASE Spawn(p)
      BY <3>2 DEF Spawn, Busy, TypeOK
    <3>3. CASE ~Admit(p) /\ ~Spawn(p)
      BY <1>2, <3>3 DEF Lookup, CheckBudget, Reserve, Call, WriteLedger, WriteResult, Busy
    <3> QED
      BY <3>1, <3>2, <3>3
  <2>4. Cardinality(InPool') <= Workers
    BY <2>2, <2>3, PoolKeepsWidth
  <2>5. Ub'.open = Ub.open
    BY <1>2 DEF Spawn, Admit, Lookup, CheckBudget, Reserve, Call, WriteLedger, WriteResult, Spend,
                Ub, TypeOK, Budgets
  <2>6. \A q \in Postings : /\ wpc'[q] # "off" => q \in visible
                            /\ result'[q] # "none" <=> wpc'[q] = "sent"
    BY <2>1, <2>2 DEF Shape
  <2> QED
    BY <2>1, <2>4, <2>5, <2>6 DEF Shape
<1> QED
  BY <1>1, <1>2 DEF Step

-----------------------------------------------------------------------------
(* Readings.                                                                 *)

Readings == ReadingsKept /\ Known

LEMMA InitReadings == Init => Readings
<1> SUFFICES ASSUME Init PROVE Readings
  OBVIOUS
<1>1. /\ \A p \in Postings : wpc[p] = "off" /\ outcome[p] = "none"
      /\ phase = "idle" /\ visible = {} /\ merged = row
  BY DEF Init, Each
<1> QED
  BY <1>1 DEF Readings, ReadingsKept, Known, AnalyzedIsDurable, PaidReadingsMerged, ProvenanceAgrees,
              Sent, Spending, Busy

LEMMA RunReadingsStep ==
  ASSUME TypeOK, Shape, Readings,
         \/ StartRerate \/ StartScrape \/ ResolveSponsor \/ StartContext \/ Merge \/ FinishRerate
         \/ FinishScrape \/ Release \/ Crash \/ EditGoal \/ NewDay \/ UNCHANGED vars
  PROVE  Readings'
<1> USE DEF pool, durable, Readings, ReadingsKept, Known, AnalyzedIsDurable, PaidReadingsMerged,
            ProvenanceAgrees, Sent
<1>1. CASE /\ UNCHANGED <<wpc, result, visible, known, row, outcome, merged>>
           /\ phase \in {"idle", "extract"} /\ phase' \in {"idle", "extract", "context"}
  <2>1. visible = {} /\ \A p \in Postings : wpc[p] = "off"
    BY <1>1 DEF Shape
  <2> QED
    BY <1>1, <2>1 DEF Spending, Busy
<1>2. CASE StartRerate \/ StartScrape \/ ResolveSponsor \/ StartContext
  BY <1>1, <1>2 DEF StartRerate, StartScrape, ResolveSponsor, StartContext
<1>3. CASE Merge
  <2>1. /\ phase = "context" /\ phase' \in {"rate", "told"} /\ visible = {} /\ \A p \in Postings : wpc[p] = "off"
        /\ \/ merged' = row
           \/ verdict' = "failed"
        /\ UNCHANGED <<wpc, result, row, outcome>> /\ visible' \subseteq Postings
    BY <1>3 DEF Merge, Tell, Shape
  <2>2. \A p \in visible' : result'[p] = "none"
    BY <2>1 DEF Shape
  <2>3. phase' = "rate" => \A p \in Postings : known'[p] = outcome[p]
    BY <1>3, <2>1 DEF Merge, Tell, TypeOK
  <2> QED
    BY <2>1, <2>2, <2>3 DEF Spending, Busy, Success
<1>4. CASE FinishRerate
  <2>1. /\ UNCHANGED <<wpc, result, visible, known, row, outcome>> /\ phase' = "told"
        /\ (verdict' = "done" => merged' = row)
    BY <1>4 DEF FinishRerate, Tell
  <2> QED
    BY <1>4, <2>1 DEF FinishRerate
<1>5. CASE FinishScrape
  <2>1. UNCHANGED <<wpc, result, visible, known, row, outcome>> /\ phase' = "told" /\ kind' = "fresh"
    BY <1>5 DEF FinishScrape, Tell
  <2> QED
    BY <1>5, <2>1 DEF FinishScrape
<1>6. CASE Release \/ Crash
  <2>1. Forget
    BY <1>6 DEF Release, Crash
  <2>2. /\ \A p \in Postings : wpc'[p] = "off" /\ result'[p] = "none"
        /\ phase' = "idle" /\ visible' = {} /\ UNCHANGED <<row, outcome, merged>>
    BY <2>1 DEF Forget, Each
  <2> QED
    BY <2>2 DEF Spending, Busy, Success
<1>7. CASE EditGoal
  <2>1. /\ \A p \in Postings : row'[p] = "none" /\ outcome'[p] = "none"
        /\ phase = "idle" /\ phase' = "idle" /\ visible' = {} /\ \A p \in Postings : wpc'[p] = "off"
    BY <1>7 DEF EditGoal, Each, Shape
  <2> QED
    BY <2>1 DEF Spending, Busy, Success
<1>8. CASE NewDay \/ UNCHANGED vars
  BY <1>8 DEF NewDay, vars
<1> QED
  BY <1>2, <1>3, <1>4, <1>5, <1>6, <1>7, <1>8

\* A worker's step concerns its own posting, and leaves its reading, its outcome
\* and its result alone until it sends.
OneMoves(p) ==
  /\ phase = "rate" /\ p \in visible /\ wpc[p] # "sent"
  /\ UNCHANGED <<known, visible, phase, kind, verdict, merged>>
  /\ \A q \in Postings \ {p} : /\ wpc'[q] = wpc[q] /\ result'[q] = result[q]
                               /\ row'[q] = row[q] /\ outcome'[q] = outcome[q]
  /\ wpc'[p] = "sent" \/ (row'[p] = row[p] /\ outcome'[p] = outcome[p] /\ result'[p] = result[p])

\* What a worker's step must see to for its own posting.
KeepsReading(p) ==
  /\ wpc'[p] \in Spending => row[p] = "none"
  /\ kind = "fresh" /\ wpc'[p] \in Busy \cup {"wait"} => known[p] # "rejected"
  /\ wpc'[p] = "sent" /\ result'[p] \in Success => row'[p] # "none" /\ outcome'[p] \in {"rated", "no_signal"}
  /\ wpc'[p] = "sent" => \/ row'[p] = row[p] /\ outcome'[p] = outcome[p]
                         \/ row'[p] = "items" /\ outcome'[p] = "rated"
                         \/ row'[p] = "empty" /\ outcome'[p] = "no_signal"
                         \/ row'[p] = "none" /\ outcome'[p] \in {"rejected", "failed"}

LEMMA ReadingsMove ==
  ASSUME TypeOK, Shape, Readings, NEW p \in Postings, OneMoves(p), KeepsReading(p)
  PROVE  Readings'
<1>0. p \in visible /\ visible \subseteq Postings /\ wpc[p] # "sent" /\ result[p] = "none"
      /\ phase = "rate" /\ phase' = "rate"
  BY DEF TypeOK, Shape, OneMoves
<1>1. AnalyzedIsDurable'
  <2>1. ASSUME NEW q \in visible, result'[q] \in Success
        PROVE  row'[q] # "none" /\ outcome'[q] \in {"rated", "no_signal"}
    <3>1. CASE q = p
      BY <1>0, <2>1, <3>1 DEF OneMoves, KeepsReading, Success
    <3>2. CASE q # p
      BY <1>0, <2>1, <3>2 DEF OneMoves, Readings, ReadingsKept, AnalyzedIsDurable, Sent
    <3> QED
      BY <3>1, <3>2
  <2> QED
    BY <2>1 DEF AnalyzedIsDurable, Sent, OneMoves
<1>2. PaidReadingsMerged'
  BY <1>0 DEF PaidReadingsMerged
<1>3. ProvenanceAgrees'
  <2>1. ASSUME NEW q \in Postings
        PROVE  /\ outcome'[q] = "rated" => row'[q] = "items"
               /\ outcome'[q] = "no_signal" => row'[q] = "empty"
               /\ outcome'[q] \in {"rejected", "failed"} => row'[q] = "none"
    <3>1. \/ row'[q] = row[q] /\ outcome'[q] = outcome[q]
          \/ row'[q] = "items" /\ outcome'[q] = "rated"
          \/ row'[q] = "empty" /\ outcome'[q] = "no_signal"
          \/ row'[q] = "none" /\ outcome'[q] \in {"rejected", "failed"}
      BY DEF OneMoves, KeepsReading
    <3>2. CASE row'[q] = row[q] /\ outcome'[q] = outcome[q]
      BY <3>2 DEF Readings, ReadingsKept, ProvenanceAgrees
    <3> QED
      BY <3>1, <3>2
  <2> QED
    BY <2>1 DEF ProvenanceAgrees
<1>4. ASSUME NEW q \in Postings
      PROVE  /\ wpc'[q] # "sent" => known'[q] = outcome'[q]
             /\ wpc'[q] \in Spending => row'[q] = "none"
             /\ kind' = "fresh" /\ wpc'[q] \in Busy \cup {"wait"} => known'[q] # "rejected"
  <2>1. /\ wpc[q] # "sent" => known[q] = outcome[q]
        /\ wpc[q] \in Spending => row[q] = "none"
        /\ kind = "fresh" /\ wpc[q] \in Busy \cup {"wait"} => known[q] # "rejected"
    BY <1>0 DEF Readings, Known
  <2>2. CASE q = p
    BY <1>0, <2>1, <2>2 DEF OneMoves, KeepsReading, Spending
  <2>3. CASE q # p
    BY <2>1, <2>3 DEF OneMoves
  <2> QED
    BY <2>2, <2>3
<1> QED
  BY <1>1, <1>2, <1>3, <1>4 DEF Readings, ReadingsKept, Known

LEMMA StepReadings ==
  ASSUME TypeOK, Shape, Readings, NEW p \in Postings, Step(p)
  PROVE  Readings'
<1> USE DEF pool, durable, At, Goto, Send, Examine
<1>1. CASE ExtractSkip(p) \/ Extract(p) \/ ContextSkip(p) \/ Context(p)
  <2>1. /\ UNCHANGED <<wpc, result, visible, known, row, outcome, merged, phase, kind, verdict>>
        /\ phase \in {"extract", "context"}
    BY <1>1 DEF ExtractSkip, Extract, ContextSkip, Context
  <2> QED
    BY <2>1 DEF Readings, ReadingsKept, Known, AnalyzedIsDurable, PaidReadingsMerged, ProvenanceAgrees, Sent
<1>0. /\ wpc[p] # "off" => p \in visible
      /\ phase = "rate" /\ wpc[p] # "sent" => known[p] = outcome[p]
      /\ wpc[p] \in Spending => row[p] = "none"
      /\ kind = "fresh" /\ wpc[p] \in Busy \cup {"wait"} => known[p] # "rejected"
      /\ outcome[p] = "rated" => row[p] = "items"
      /\ outcome[p] = "no_signal" => row[p] = "empty"
  BY DEF Shape, Readings, ReadingsKept, ProvenanceAgrees, Known
<1>2. CASE Spawn(p)
  <2>1. OneMoves(p)
    BY <1>2 DEF Spawn, TypeOK, OneMoves
  <2>2. KeepsReading(p)
    BY <1>2 DEF Spawn, TypeOK, KeepsReading, Spending, Busy, Success
  <2> QED
    BY <2>1, <2>2, ReadingsMove
<1>3. CASE Admit(p)
  <2>1. OneMoves(p)
    BY <1>0, <1>3 DEF Admit, TypeOK, OneMoves
  <2>2. KeepsReading(p)
    BY <1>0, <1>3 DEF Admit, TypeOK, KeepsReading, Spending, Busy
  <2> QED
    BY <2>1, <2>2, ReadingsMove
<1>4. CASE Lookup(p)
  <2>1. OneMoves(p)
    BY <1>0, <1>4 DEF Lookup, TypeOK, OneMoves
  <2>2. \/ wpc'[p] = "sent" /\ result'[p] \in {"unread", "unknown"}
        \/ wpc'[p] = "sent" /\ result'[p] = "cached" /\ row[p] # "none" /\ known[p] \in {"rated", "no_signal"}
        \/ wpc'[p] = "spend" /\ row[p] = "none"
    BY <1>4 DEF Lookup, TypeOK
  <2>3. UNCHANGED <<row, outcome>> /\ wpc[p] = "lookup" /\ phase = "rate"
    BY <1>4 DEF Lookup
  <2>4. KeepsReading(p)
    BY <1>0, <2>2, <2>3 DEF KeepsReading, Spending, Busy, Success
  <2> QED
    BY <2>1, <2>4, ReadingsMove
<1>5. CASE CheckBudget(p) \/ Reserve(p)
  <2>1. OneMoves(p)
    BY <1>0, <1>5 DEF CheckBudget, Reserve, TypeOK, OneMoves
  <2>2. /\ \/ wpc'[p] = "sent" /\ result'[p] = "skipped"
           \/ wpc'[p] \in {"reserve", "call"}
        /\ wpc[p] \in {"spend", "reserve"} /\ UNCHANGED <<row, outcome>>
    BY <1>5 DEF CheckBudget, Reserve, TypeOK
  <2>3. KeepsReading(p)
    BY <1>0, <2>2 DEF KeepsReading, Spending, Busy, Success
  <2> QED
    BY <2>1, <2>3, ReadingsMove
<1>6. CASE Call(p) \/ WriteLedger(p)
  <2>1. OneMoves(p)
    BY <1>0, <1>6 DEF Call, WriteLedger, TypeOK, OneMoves
  <2>2. wpc'[p] \in {"ledger", "write"} /\ wpc[p] \in {"call", "ledger"}
    BY <1>6 DEF Call, WriteLedger, TypeOK
  <2>3. KeepsReading(p)
    BY <1>0, <2>2 DEF KeepsReading, Spending, Busy
  <2> QED
    BY <2>1, <2>3, ReadingsMove
<1>7. CASE WriteResult(p)
  <2>1. /\ phase = "rate" /\ wpc[p] = "write" /\ reply[p].verdict \in Replies /\ p \in visible
        /\ UNCHANGED <<known, visible, phase, kind, verdict, merged>>
    BY <1>0, <1>7, TypesTogether DEF WriteResult, ReplyTypes
  <2>2. /\ wpc'[p] = "sent"
        /\ \A q \in Postings \ {p} : wpc'[q] = wpc[q] /\ result'[q] = result[q]
        /\ \A q \in Postings \ {p} : row'[q] = row[q] /\ outcome'[q] = outcome[q]
        /\ \/ row'[p] = "items" /\ outcome'[p] = "rated"
           \/ row'[p] = "empty" /\ outcome'[p] = "no_signal"
           \/ row'[p] = "none" /\ outcome'[p] \in {"rejected", "failed"} /\ result'[p] \notin Success
           \/ row'[p] = row[p] /\ outcome'[p] = outcome[p] /\ result'[p] \notin Success
    <3>1. CASE UNCHANGED <<row, outcome>> /\ Send(p, "unsaved")
      BY <3>1 DEF TypeOK, Success
    <3>2. CASE Stored(p) /\ reply[p].verdict = "rated"
      BY <3>2 DEF Stored, TypeOK
    <3>3. CASE Stored(p) /\ reply[p].verdict = "nothing"
      <4>1. /\ row' = [row EXCEPT ![p] = "empty"] /\ outcome' = [outcome EXCEPT ![p] = "no_signal"]
            /\ Send(p, "no_signal")
        BY <3>3 DEF Stored
      <4> QED
        BY <4>1 DEF TypeOK
    <3>4. CASE Stored(p) /\ reply[p].verdict = "rejected"
      <4>1. /\ row[p] = "none" /\ row' = row /\ outcome' = [outcome EXCEPT ![p] = "rejected"]
            /\ Send(p, "rejected")
        BY <3>4 DEF Stored
      <4> QED
        BY <4>1 DEF TypeOK, Success
    <3>5. CASE Stored(p) /\ reply[p].verdict = "error"
      <4>1. /\ row[p] = "none" /\ row' = row /\ outcome' = [outcome EXCEPT ![p] = "failed"]
            /\ Send(p, "failed")
        BY <3>5 DEF Stored
      <4> QED
        BY <4>1 DEF TypeOK, Success
    <3> QED
      BY <1>7, <2>1, <3>1, <3>2, <3>3, <3>4, <3>5 DEF WriteResult, Replies
  <2>3. OneMoves(p)
    BY <2>1, <2>2 DEF OneMoves
  <2>4. KeepsReading(p)
    BY <2>1, <2>2 DEF KeepsReading, Spending, Busy
  <2> QED
    BY <2>3, <2>4, ReadingsMove
<1> QED
  BY <1>1, <1>2, <1>3, <1>4, <1>5, <1>6, <1>7 DEF Step

\* The provider is asked by a worker only, about a posting without a reading.
LEMMA AskedOnce ==
  ASSUME TypeOK, Shape, Readings, NEW p \in Postings, Calls(p)
  PROVE  row[p] = "none" /\ (kind = "fresh" => outcome[p] # "rejected")
<1>1. wpc[p] = "call" /\ p \in visible
  BY DEF Calls, Shape
<1>2. phase = "rate"
  BY <1>1 DEF Shape, TypeOK
<1> QED
  BY <1>1, <1>2 DEF Readings, Known, Spending, Busy

-----------------------------------------------------------------------------
(* What a run blames.                                                        *)

LEMMA BlameIsRight ==
  ASSUME TypeOK, Shape, Blame
  PROVE  LimitBlamedRightly
<1> SUFFICES ASSUME phase = "told", kind = "rerate", verdict = "done",
                    ~ (calls >= PerCallCap \/ budget["user"].degraded)
             PROVE  ~ LimitBlocked
  BY DEF LimitBlamedRightly
<1>1. \A p \in visible : p \in Postings /\ result[p] \in Results /\ result[p] # "none" /\ result[p] # "skipped"
  BY DEF TypeOK, Shape, Blame, Ub
<1>2. \A p \in visible : result[p] \notin {"unread", "unsaved"}
  BY DEF Blame, StorageFailed, Sent
<1>3. Sent({"cached", "unknown"} \cup ProviderCalled) = visible
  BY <1>1, <1>2 DEF Sent, ProviderCalled, Results, Outcomes
<1>4. Cardinality(visible) \in Nat
  BY PostingSetsFinite DEF TypeOK
<1> QED
  BY <1>3, <1>4 DEF LimitBlocked, Processed

LEMMA RunBlameStep ==
  ASSUME TypeOK, Shape, Blame,
         \/ StartRerate \/ StartScrape \/ ResolveSponsor \/ StartContext \/ Merge \/ FinishRerate
         \/ FinishScrape \/ Release \/ Crash \/ EditGoal \/ NewDay \/ UNCHANGED vars
  PROVE  Blame'
<1> USE DEF pool, durable
<1>1. CASE UNCHANGED result /\ (phase = "idle" \/ phase = "extract" \/ phase = "context") /\ phase' # "told"
  <2>1. \A p \in Postings : result'[p] = "none"
    BY <1>1 DEF Shape
  <2> QED
    BY <1>1, <2>1 DEF Blame
<1>2. CASE StartRerate \/ StartScrape \/ ResolveSponsor \/ StartContext
  BY <1>1, <1>2 DEF StartRerate, StartScrape, ResolveSponsor, StartContext
<1>3. CASE Merge
  <2>1. \A p \in Postings : result'[p] = "none"
    BY <1>3 DEF Merge, Tell, Shape
  <2>2. visible' \subseteq Postings
    BY <1>3 DEF Merge, Tell, Shape, TypeOK
  <2> QED
    BY <2>1, <2>2 DEF Blame, StorageFailed, Sent
<1>4. CASE FinishRerate
  BY <1>4 DEF FinishRerate, Tell, Blame, StorageFailed, Sent, Ub
<1>5. CASE FinishScrape
  BY <1>5 DEF FinishScrape, Tell, Blame
<1>6. CASE Release \/ Crash
  <2>1. /\ \A p \in Postings : result'[p] = "none"
        /\ phase' = "idle"
    BY <1>6 DEF Release, Crash, Forget, Each
  <2> QED
    BY <2>1 DEF Blame
<1>7. CASE EditGoal \/ NewDay \/ UNCHANGED vars
  BY <1>7 DEF EditGoal, NewDay, vars, Blame, StorageFailed, Sent, Ub
<1> QED
  BY <1>2, <1>3, <1>4, <1>5, <1>6, <1>7

LEMMA StepBlame ==
  ASSUME TypeOK, Shape, Blame, NEW p \in Postings, Step(p)
  PROVE  Blame'
<1> USE DEF pool, durable, At, Goto, Send, Examine
<1>1. phase' = phase /\ kind' = kind /\ phase # "told"
  BY DEF Step, ExtractSkip, Extract, ContextSkip, Context, Spawn, Admit, Lookup, CheckBudget, Reserve,
         Call, WriteLedger, WriteResult
<1>2. calls' \in Nat /\ calls' >= calls
  BY DEF Step, ExtractSkip, Extract, ContextSkip, Context, Spawn, Admit, Lookup, CheckBudget, Reserve,
         Call, WriteLedger, WriteResult, TypeOK
<1>3. Ub.degraded => Ub'.degraded
  <2>1. Ub \in Budgets /\ budget \in [{"user", "sponsor"} -> Budgets]
    BY DEF Ub, TypeOK
  <2>2. CASE ExtractSkip(p) \/ Extract(p)
    BY <2>1, <2>2 DEF ExtractSkip, Extract, Ub
  <2>3. CASE ContextSkip(p) \/ CheckBudget(p)
    <3>1. budget' = budget \/ budget' = [budget EXCEPT !["user"].degraded = TRUE]
      BY <2>3 DEF ContextSkip, CheckBudget
    <3> QED
      BY <2>1, <3>1 DEF Ub, Budgets
  <2>4. CASE Context(p) \/ Call(p)
    <3>1. PICK t \in Tokens : Spend("user", t)
      BY <2>4 DEF Context, Call
    <3> QED
      BY <2>1, <3>1 DEF Spend, Ub, Budgets
  <2>5. CASE Spawn(p) \/ Admit(p) \/ Lookup(p) \/ Reserve(p) \/ WriteLedger(p) \/ WriteResult(p)
    BY <2>5 DEF Spawn, Admit, Lookup, Reserve, WriteLedger, WriteResult, Ub
  <2> QED
    BY <2>2, <2>3, <2>4, <2>5 DEF Step
<1>4. kind = "rerate" => \A q \in Postings : result'[q] = "skipped" =>
        result[q] = "skipped" \/ calls >= PerCallCap \/ Ub'.degraded
  <2>1. CASE ExtractSkip(p) \/ Extract(p) \/ ContextSkip(p) \/ Context(p) \/ Admit(p) \/ Call(p) \/ WriteLedger(p)
    BY <2>1 DEF ExtractSkip, Extract, ContextSkip, Context, Admit, Call, WriteLedger
  <2>2. CASE Spawn(p) \/ Lookup(p)
    BY <2>2 DEF Spawn, Lookup, TypeOK
  <2>3. CASE CheckBudget(p)
    <3>1. result' = result \/ budget' = [budget EXCEPT !["user"].degraded = TRUE]
      BY <2>3 DEF CheckBudget
    <3>2. Ub \in Budgets /\ budget \in [{"user", "sponsor"} -> Budgets]
      BY DEF Ub, TypeOK
    <3> QED
      BY <3>1, <3>2 DEF Ub, Budgets
  <2>4. CASE Reserve(p)
    BY <2>4 DEF Reserve
  <2>5. CASE WriteResult(p)
    <3>1. \E r \in {"rated", "no_signal", "rejected", "failed", "unsaved"} : Send(p, r)
      BY <2>5, TypesTogether DEF WriteResult, Stored, Replies, ReplyTypes
    <3> QED
      BY <3>1 DEF TypeOK
  <2> QED
    BY <2>1, <2>2, <2>3, <2>4, <2>5 DEF Step
<1>5. calls \in Nat /\ PerCallCap \in Nat
  BY ConstantTypes DEF TypeOK
<1> QED
  BY <1>1, <1>2, <1>3, <1>4, <1>5 DEF Blame

-----------------------------------------------------------------------------
(* The call cap.                                                             *)

LEMMA RunCallsStep ==
  ASSUME TypeOK, Shape, CallsCounted,
         \/ StartRerate \/ StartScrape \/ ResolveSponsor \/ StartContext \/ Merge \/ FinishRerate
         \/ FinishScrape \/ Release \/ Crash \/ EditGoal \/ NewDay \/ UNCHANGED vars
  PROVE  CallsCounted'
<1> USE DEF pool, durable
<1>1. CASE UNCHANGED <<wpc, calls, called>>
  BY <1>1 DEF CallsCounted, Calling
<1>2. CASE Release \/ Crash
  <2>1. calls' = 0 /\ called' = 0 /\ \A p \in Postings : wpc'[p] = "off"
    BY <1>2 DEF Release, Crash, Forget, Each
  <2>2. Calling' = {}
    BY <2>1 DEF Calling
  <2>3. Cardinality(Calling') = 0
    BY <2>2, FS_EmptySet
  <2> QED
    BY <2>1, <2>3, ConstantTypes DEF CallsCounted
<1> QED
  BY <1>1, <1>2 DEF StartRerate, StartScrape, ResolveSponsor, StartContext, Merge, Tell, FinishRerate,
                    FinishScrape, EditGoal, NewDay, vars

LEMMA StepCalls ==
  ASSUME TypeOK, Shape, CallsCounted, NEW p \in Postings, Step(p)
  PROVE  CallsCounted'
<1> USE DEF pool, durable, At, Goto, Send, Examine
<1>1. Calling \in SUBSET Postings /\ calls \in Nat /\ called \in Nat /\ PerCallCap \in Nat
      /\ Cardinality(Calling) \in Nat
  BY PostingSetsFinite, ConstantTypes DEF Calling, TypeOK
<1>2. CASE /\ UNCHANGED <<calls, called>> /\ \A q \in Postings : wpc'[q] = "call" <=> wpc[q] = "call"
  <2>1. Calling' = Calling
    BY <1>2 DEF Calling
  <2> QED
    BY <1>2, <2>1 DEF CallsCounted
<1>3. CASE ExtractSkip(p) \/ Extract(p) \/ ContextSkip(p)
  BY <1>2, <1>3 DEF ExtractSkip, Extract, ContextSkip
<1>4. CASE Context(p)
  <2>1. calls' = calls + 1 /\ called' = called + 1 /\ calls < PerCallCap /\ wpc' = wpc
    BY <1>4 DEF Context
  <2>2. Calling' = Calling
    BY <2>1 DEF Calling
  <2>3. Cardinality(Calling') = Cardinality(Calling)
    BY <2>2
  <2>4. called + Cardinality(Calling) = calls
    BY DEF CallsCounted
  <2> DEFINE c == Cardinality(Calling)
  <2>5. c \in Nat /\ called + c = calls /\ Cardinality(Calling') = c
    BY <1>1, <2>3, <2>4
  <2> HIDE DEF c
  <2>6. called' + c = calls' /\ calls' <= PerCallCap
    BY <1>1, <2>1, <2>5
  <2> QED
    BY <2>5, <2>6 DEF CallsCounted
<1>5. CASE Spawn(p) \/ Admit(p) \/ Lookup(p)
  BY <1>2, <1>5 DEF Spawn, Admit, Lookup, TypeOK
<1>6. CASE CheckBudget(p) \/ WriteLedger(p)
  BY <1>2, <1>6 DEF CheckBudget, WriteLedger, TypeOK
<1>7. CASE WriteResult(p)
  <2>1. /\ UNCHANGED <<calls, called>> /\ wpc[p] = "write"
        /\ \E r \in {"rated", "no_signal", "rejected", "failed", "unsaved"} : Send(p, r)
    BY <1>7, TypesTogether DEF WriteResult, Stored, Replies, ReplyTypes
  <2> QED
    BY <1>2, <2>1 DEF TypeOK
<1>8. CASE Reserve(p) /\ calls >= PerCallCap
  BY <1>2, <1>8 DEF Reserve, TypeOK
<1>9. CASE Reserve(p) /\ ~(calls >= PerCallCap)
  <2>1. /\ wpc[p] = "reserve" /\ wpc' = [wpc EXCEPT ![p] = "call"] /\ calls' = calls + 1 /\ called' = called
        /\ calls < PerCallCap
    BY <1>1, <1>9 DEF Reserve
  <2>2. Calling' = Calling \cup {p} /\ p \notin Calling
    BY <2>1 DEF Calling, TypeOK
  <2>3. Cardinality(Calling') = Cardinality(Calling) + 1
    BY <1>1, <2>2, PostingSetsChange
  <2> QED
    BY <1>1, <2>1, <2>3 DEF CallsCounted
<1>10. CASE Call(p)
  <2>1. wpc[p] = "call" /\ wpc' = [wpc EXCEPT ![p] = "ledger"] /\ called' = called + 1 /\ calls' = calls
    BY <1>10 DEF Call
  <2>2. Calling' = Calling \ {p} /\ p \in Calling
    BY <2>1 DEF Calling, TypeOK
  <2>3. Cardinality(Calling') = Cardinality(Calling) - 1
    BY <1>1, <2>2, PostingSetsChange
  <2> QED
    BY <1>1, <2>1, <2>3 DEF CallsCounted
<1> QED
  BY <1>3, <1>4, <1>5, <1>6, <1>7, <1>8, <1>9, <1>10 DEF Step

-----------------------------------------------------------------------------
(* The token caps.                                                           *)

LEMMA TokenBounds == MaxTokens \in Nat /\ \A t \in Tokens : t \in Nat /\ t <= MaxTokens
<1>1. \E t \in Tokens : \A q \in Tokens : q <= t
  BY AIRunsAssumption
<1>2. MaxTokens \in Tokens /\ \A q \in Tokens : q <= MaxTokens
  BY <1>1 DEF MaxTokens
<1> QED
  BY <1>2, ConstantTypes

LEMMA ProductGrows ==
  ASSUME NEW m \in Nat, NEW a \in Nat, NEW b \in Nat, a <= b
  PROVE  m * a <= m * b /\ m * a \in Nat /\ m * b \in Nat /\ m * (a + 1) = m * a + m
<1>1. PICK k \in Nat : b = a + k
  <2>1. b - a \in Nat /\ b = a + (b - a)
    OBVIOUS
  <2> QED
    BY <2>1
<1>2. m * k \in Nat /\ m * a \in Nat /\ m * b = m * a + m * k
  BY <1>1
<1> QED
  BY <1>1, <1>2

\* The most the calls of one pool can spend.
LEMMA PoolSpends ==
  ASSUME NEW c \in Nat, c <= Workers
  PROVE  MaxTokens * c \in Nat /\ MaxTokens * c <= Overshoot /\ Overshoot \in Nat /\ MaxTokens <= Overshoot
<1>1. Workers \in Nat /\ 1 <= Workers /\ MaxTokens \in Nat /\ 1 \in Nat
  BY ConstantTypes, TokenBounds
<1>2. MaxTokens * c <= MaxTokens * Workers /\ MaxTokens * c \in Nat /\ MaxTokens * Workers \in Nat
  BY <1>1, ProductGrows
<1>3. MaxTokens * 1 <= MaxTokens * Workers
  BY <1>1, ProductGrows
<1>4. MaxTokens * 1 = MaxTokens /\ MaxTokens * Workers = Workers * MaxTokens
  BY <1>1
<1> QED
  BY <1>1, <1>2, <1>3, <1>4 DEF Overshoot

\* A check that passes makes room for one worker more.
LEMMA RoomToCommit ==
  ASSUME NEW base \in Nat, NEW spent \in Nat, NEW cap \in Nat, NEW c \in Nat,
         c <= Workers, base + spent < cap
  PROVE  Room(base, spent, c, cap)
<1>1. MaxTokens * c \in Nat /\ MaxTokens * c <= Overshoot /\ Overshoot \in Nat
  BY PoolSpends
<1> QED
  BY <1>1 DEF Room

\* The call of a committed worker uses its room.
LEMMA RoomToCall ==
  ASSUME NEW base \in Nat, NEW spent \in Nat, NEW cap \in Nat, NEW c \in Nat, c + 1 <= Workers,
         NEW t \in Tokens, Room(base, spent, c + 1, cap)
  PROVE  Room(base, spent + t, c, cap)
<1>1. t \in Nat /\ t <= MaxTokens /\ MaxTokens \in Nat
  BY TokenBounds
<1>2. MaxTokens * (c + 1) = MaxTokens * c + MaxTokens /\ MaxTokens * c \in Nat
  BY <1>1, ProductGrows
<1>3. Overshoot \in Nat
  BY PoolSpends
<1> QED
  BY <1>1, <1>2, <1>3 DEF Room

\* A worker that gives up leaves room.
LEMMA RoomGrows ==
  ASSUME NEW base \in Nat, NEW spent \in Nat, NEW cap \in Nat, NEW c \in Nat, NEW k \in Nat,
         k <= c, c <= Workers, Room(base, spent, c, cap)
  PROVE  Room(base, spent, k, cap)
<1>1. MaxTokens \in Nat
  BY TokenBounds
<1>2. MaxTokens * k <= MaxTokens * c /\ MaxTokens * c \in Nat /\ MaxTokens * k \in Nat
  BY <1>1, ProductGrows
<1>3. Overshoot \in Nat
  BY PoolSpends
<1> QED
  BY <1>1, <1>2, <1>3 DEF Room

\* A call outside the pool that passed the check.
LEMMA RoomForOne ==
  ASSUME NEW base \in Nat, NEW spent \in Nat, NEW cap \in Nat, NEW t \in Tokens, base + spent < cap
  PROVE  Room(base, spent + t, 0, cap) /\ base + spent + t < cap + MaxTokens
         /\ base + spent + t < cap + Overshoot
<1>1. t \in Nat /\ t <= MaxTokens /\ MaxTokens \in Nat /\ MaxTokens * 0 = 0
  BY TokenBounds
<1>2. Overshoot \in Nat /\ MaxTokens <= Overshoot
  BY PoolSpends, ConstantTypes
<1> QED
  BY <1>1, <1>2 DEF Room

LEMMA RoomAtStart ==
  ASSUME NEW base \in Nat, NEW cap \in Nat, cap > 0 => base < cap + Overshoot
  PROVE  Room(base, 0, 0, cap)
<1>1. MaxTokens * 0 = 0 /\ Overshoot \in Nat
  BY TokenBounds, PoolSpends, ConstantTypes
<1> QED
  BY <1>1 DEF Room

LEMMA CommittedInPool ==
  ASSUME Shape
  PROVE  Cardinality(Committed) \in Nat /\ Cardinality(Committed) <= Workers
<1>1. InPool \in SUBSET Postings /\ Committed \in SUBSET InPool
  BY DEF InPool, Committed, Busy
<1>2. Cardinality(Committed) <= Cardinality(InPool) /\ Cardinality(Committed) \in Nat /\ Cardinality(InPool) \in Nat
  BY <1>1, PostingSetsGrow
<1> QED
  BY <1>2, ConstantTypes DEF Shape

LEMMA CommittedInPoolNext ==
  ASSUME Shape'
  PROVE  Cardinality(Committed') \in Nat /\ Cardinality(Committed') <= Workers
<1>1. InPool' \in SUBSET Postings /\ Committed' \in SUBSET InPool'
  BY DEF InPool, Committed, Busy
<1>2. Cardinality(Committed') <= Cardinality(InPool') /\ Cardinality(Committed') \in Nat
      /\ Cardinality(InPool') \in Nat
  BY <1>1, PostingSetsGrow
<1> QED
  BY <1>2, ConstantTypes DEF Shape

SameBase(b, c) == c.open = b.open /\ c.day = b.day /\ c.dayStart = b.dayStart /\ c.monthStart = b.monthStart

\* What a step of one posting does to the user's budget: nothing, a worker
\* passes the check, a worker's call returns, or a call outside the pool.
UserMoves ==
  /\ SameBase(Ub, Ub')
  /\ \/ Ub'.spent = Ub.spent /\ Cardinality(Committed') <= Cardinality(Committed)
     \/ Ub'.spent = Ub.spent /\ CanSpend(Ub)
     \/ \E t \in Tokens : Ub'.spent = Ub.spent + t /\ Cardinality(Committed') + 1 = Cardinality(Committed)
     \/ CanSpend(Ub) /\ \E t \in Tokens : Ub'.spent = Ub.spent + t /\ Cardinality(Committed') = 0

\* And to the sponsor's.
SponsorMoves ==
  /\ SameBase(Sb, Sb')
  /\ \/ Sb'.spent = Sb.spent
     \/ CanSpend(Sb) /\ \E t \in Tokens : Sb'.spent = Sb.spent + t

LEMMA StepUser ==
  ASSUME TypeOK, Shape, NEW p \in Postings, Step(p)
  PROVE  UserMoves
<1> USE DEF pool, durable, At, Goto, Send, Examine
<1>0. Ub \in Budgets /\ budget \in [{"user", "sponsor"} -> Budgets]
  BY DEF Ub, TypeOK
<1>1. Committed \in SUBSET Postings /\ Committed' \in SUBSET Postings /\ Cardinality(Committed) \in Nat
  BY PostingSetsFinite DEF Committed
<1>2. CASE Ub' = Ub /\ \A q \in Postings : wpc'[q] \in {"reserve", "call"} => wpc[q] \in {"reserve", "call"}
  <2>1. Committed' \in SUBSET Committed
    BY <1>2 DEF Committed
  <2>2. Cardinality(Committed') <= Cardinality(Committed)
    BY <1>1, <2>1, PostingSetsGrow
  <2> QED
    BY <1>2, <2>2 DEF UserMoves, SameBase
<1>3. CASE ExtractSkip(p) \/ Extract(p)
  <2>1. wpc' = wpc
    BY <1>3 DEF ExtractSkip, Extract
  <2>2. budget'["user"] = budget["user"]
    BY <1>0, <1>3 DEF ExtractSkip, Extract
  <2> QED
    BY <1>2, <2>1, <2>2 DEF Ub
<1>4. CASE /\ \/ budget' = budget
              \/ budget' = [budget EXCEPT !["user"].degraded = TRUE]
           /\ \A q \in Postings : wpc'[q] \in {"reserve", "call"} => wpc[q] \in {"reserve", "call"}
  <2>1. Committed' \in SUBSET Committed
    BY <1>4 DEF Committed
  <2>2. Cardinality(Committed') <= Cardinality(Committed)
    BY <1>1, <2>1, PostingSetsGrow
  <2>3. SameBase(Ub, Ub') /\ Ub'.spent = Ub.spent
    BY <1>0, <1>4 DEF SameBase, Ub, Budgets
  <2> QED
    BY <2>2, <2>3 DEF UserMoves
<1>5. CASE ContextSkip(p)
  <2>1. wpc' = wpc /\ (budget' = budget \/ budget' = [budget EXCEPT !["user"].degraded = TRUE])
    BY <1>5 DEF ContextSkip
  <2> QED
    BY <1>4, <2>1
<1>6. CASE Context(p)
  <2>1. PICK t \in Tokens : Spend("user", t)
    BY <1>6 DEF Context
  <2>2. SameBase(Ub, Ub') /\ Ub'.spent = Ub.spent + t
    BY <1>0, <2>1 DEF SameBase, Spend, Ub, Budgets
  <2>3. Committed' = {}
    BY <1>6 DEF Context, Shape, Committed
  <2>4. Cardinality(Committed') = 0
    BY <2>3, FS_EmptySet
  <2>5. CanSpend(Ub)
    BY <1>6 DEF Context, Ub
  <2> QED
    BY <2>1, <2>2, <2>4, <2>5 DEF UserMoves
<1>7. CASE Spawn(p) \/ Admit(p) \/ Lookup(p)
  BY <1>4, <1>7 DEF Spawn, Admit, Lookup, TypeOK
<1>8. CASE CheckBudget(p) /\ CanSpend(Ub)
  <2>1. budget' = budget
    BY <1>8 DEF CheckBudget, Ub
  <2> QED
    BY <1>8, <2>1 DEF UserMoves, SameBase, Ub
<1>9. CASE CheckBudget(p) /\ ~CanSpend(Ub)
  <2>1. budget' = [budget EXCEPT !["user"].degraded = TRUE] /\ wpc' = [wpc EXCEPT ![p] = "sent"]
    BY <1>9 DEF CheckBudget, Ub
  <2> QED
    BY <1>4, <2>1 DEF TypeOK
<1>10. CASE Reserve(p)
  BY <1>4, <1>10 DEF Reserve, TypeOK
<1>11. CASE Call(p)
  <2>1. PICK t \in Tokens : Spend("user", t)
    BY <1>11 DEF Call
  <2>2. SameBase(Ub, Ub') /\ Ub'.spent = Ub.spent + t
    BY <1>0, <2>1 DEF SameBase, Spend, Ub, Budgets
  <2>3. Committed' = Committed \ {p} /\ p \in Committed
    BY <1>11 DEF Call, Committed, TypeOK
  <2>4. Cardinality(Committed') = Cardinality(Committed) - 1
    BY <1>1, <2>3, PostingSetsChange
  <2>5. Cardinality(Committed') + 1 = Cardinality(Committed)
    BY <1>1, <2>4
  <2> QED
    BY <2>1, <2>2, <2>5 DEF UserMoves
<1>12. CASE WriteLedger(p)
  BY <1>4, <1>12 DEF WriteLedger, TypeOK
<1>13. CASE WriteResult(p)
  <2>1. \E r \in {"rated", "no_signal", "rejected", "failed", "unsaved"} : Send(p, r)
    BY <1>13, TypesTogether DEF WriteResult, Stored, Replies, ReplyTypes
  <2> QED
    BY <1>4, <1>13, <2>1 DEF WriteResult, TypeOK
<1> QED
  BY <1>3, <1>5, <1>6, <1>7, <1>8, <1>9, <1>10, <1>11, <1>12, <1>13 DEF Step

LEMMA StepSponsor ==
  ASSUME TypeOK, NEW p \in Postings, Step(p)
  PROVE  SponsorMoves
<1> USE DEF pool, durable, At, Goto, Send, Examine
<1>0. Sb \in Budgets /\ budget \in [{"user", "sponsor"} -> Budgets]
  BY DEF Sb, TypeOK
<1>1. CASE budget'["sponsor"] = budget["sponsor"]
  BY <1>1 DEF SponsorMoves, SameBase, Sb
<1>2. CASE ExtractSkip(p)
  <2>1. budget' = budget \/ budget' = [budget EXCEPT !["sponsor"].degraded = TRUE]
    BY <1>2 DEF ExtractSkip
  <2> QED
    BY <1>0, <2>1 DEF SponsorMoves, SameBase, Sb, Budgets
<1>3. CASE Extract(p)
  <2>1. PICK t \in Tokens : budget' = [budget EXCEPT !["sponsor"].spent = @ + t, !["sponsor"].calls = @ + 1]
    BY <1>3 DEF Extract
  <2>2. CanSpend(Sb)
    BY <1>3 DEF Extract, Sb
  <2>3. SameBase(Sb, Sb') /\ Sb'.spent = Sb.spent + t
    BY <1>0, <2>1 DEF SameBase, Sb, Budgets
  <2> QED
    BY <2>1, <2>2, <2>3 DEF SponsorMoves
<1>4. CASE ContextSkip(p) \/ CheckBudget(p)
  BY <1>0, <1>1, <1>4 DEF ContextSkip, CheckBudget
<1>5. CASE Context(p) \/ Call(p)
  <2>1. PICK t \in Tokens : Spend("user", t)
    BY <1>5 DEF Context, Call
  <2> QED
    BY <1>0, <1>1, <2>1 DEF Spend
<1>6. CASE Spawn(p) \/ Admit(p) \/ Lookup(p) \/ Reserve(p) \/ WriteLedger(p) \/ WriteResult(p)
  BY <1>1, <1>6 DEF Spawn, Admit, Lookup, Reserve, WriteLedger, WriteResult
<1> QED
  BY <1>2, <1>3, <1>4, <1>5, <1>6 DEF Step

LEMMA WithinMoves ==
  ASSUME TypeOK, Shape, Shape', UserMoves, NEW base \in Nat, NEW cap \in Nat,
         CanSpend(Ub) => base + Ub.spent < cap, Within(base, cap)
  PROVE  Room(base, Ub'.spent, Cardinality(Committed'), cap)
<1> DEFINE c == Cardinality(Committed)  k == Cardinality(Committed')
<1>1. c \in Nat /\ c <= Workers /\ k \in Nat /\ k <= Workers /\ Ub.spent \in Nat /\ Workers \in Nat
  BY CommittedInPool, CommittedInPoolNext, ConstantTypes DEF TypeOK, Budgets, Ub
<1>2. Room(base, Ub.spent, c, cap)
  BY DEF Within
<1>3. \/ Ub'.spent = Ub.spent /\ k <= c
      \/ Ub'.spent = Ub.spent /\ CanSpend(Ub)
      \/ \E t \in Tokens : Ub'.spent = Ub.spent + t /\ k + 1 = c
      \/ CanSpend(Ub) /\ \E t \in Tokens : Ub'.spent = Ub.spent + t /\ k = 0
  BY DEF UserMoves
<1> SUFFICES Room(base, Ub'.spent, k, cap)
  OBVIOUS
<1> HIDE DEF c, k
<1>4. CASE Ub'.spent = Ub.spent /\ k <= c
  BY <1>1, <1>2, <1>4, RoomGrows
<1>5. CASE Ub'.spent = Ub.spent /\ CanSpend(Ub)
  BY <1>1, <1>5, RoomToCommit
<1>6. ASSUME NEW t \in Tokens, Ub'.spent = Ub.spent + t, k + 1 = c
      PROVE  Room(base, Ub'.spent, k, cap)
  <2>1. Room(base, Ub.spent, k + 1, cap) /\ k + 1 <= Workers
    BY <1>1, <1>2, <1>6
  <2> QED
    BY <1>1, <1>6, <2>1, RoomToCall
<1>7. ASSUME CanSpend(Ub), NEW t \in Tokens, Ub'.spent = Ub.spent + t, k = 0
      PROVE  Room(base, Ub'.spent, k, cap)
  BY <1>1, <1>7, RoomForOne
<1> QED
  BY <1>3, <1>4, <1>5, <1>6, <1>7

\* What the moves of a run do to the budgets: they stay, are closed, or are
\* opened from the ledger as it is, which nobody is about to write.
UserOpens ==
  \/ Ub' = Ub /\ Committed' = Committed /\ Recording' = Recording /\ reply' = reply
  \/ Committed' = {} /\ Recording' = {} /\ Ub' = Closed
  \/ /\ Committed' = {} /\ Recording' = {}
     /\ \E r \in Reads(User) : Ub' = r.new /\ blind + r.blind <= blind'
SponsorOpens ==
  \/ Sb' = Sb
  \/ Sb' = Closed
  \/ \E r \in Reads(Sponsor) : Sb' = r.new /\ blind + r.blind <= blind'

LEMMA RunOpens ==
  ASSUME TypeOK, Shape,
         \/ StartRerate \/ StartScrape \/ ResolveSponsor \/ StartContext \/ Merge \/ FinishRerate
         \/ FinishScrape \/ Release \/ Crash \/ EditGoal \/ NewDay \/ UNCHANGED vars
  PROVE  UserOpens /\ SponsorOpens /\ ledger' = ledger /\ blind' >= blind
<1> USE DEF pool, durable
<1>0. blind \in Nat /\ budget \in [{"user", "sponsor"} -> Budgets] /\ StoreTypes /\ day \in 1 .. Days
      /\ User \in Users /\ Sponsor \in Users
  BY ConstantTypes DEF TypeOK, StoreTypes
<1>1. CASE UNCHANGED <<wpc, reply, budget, blind, ledger>>
  BY <1>0, <1>1 DEF UserOpens, SponsorOpens, Ub, Sb, Committed, Recording
<1>2. CASE StartRerate
  <2>1. PICK b \in Reads(User), s \in Reads(Sponsor) :
          blind' = blind + b.blind + s.blind /\ budget' = [user |-> b.new, sponsor |-> s.new]
    BY <1>2 DEF StartRerate
  <2>2. b.blind \in {0, 1} /\ s.blind \in {0, 1}
    BY <1>0, <2>1, OpenedBudget
  <2>3. Committed' = {} /\ Recording' = {}
    BY <1>2 DEF StartRerate, Shape, Committed, Recording
  <2>4. ledger' = ledger
    BY <1>2 DEF StartRerate
  <2>5. Ub' = b.new /\ Sb' = s.new /\ blind + b.blind <= blind' /\ blind + s.blind <= blind' /\ blind' >= blind
    BY <1>0, <2>1, <2>2 DEF Ub, Sb
  <2> QED
    BY <2>1, <2>3, <2>4, <2>5 DEF UserOpens, SponsorOpens
<1>3. CASE ResolveSponsor
  <2>1. PICK s \in Reads(Sponsor) : budget' = [budget EXCEPT !["sponsor"] = s.new] /\ blind' = blind + s.blind
    BY <1>3 DEF ResolveSponsor
  <2>2. s.blind \in {0, 1}
    BY <1>0, <2>1, OpenedBudget
  <2>3. UNCHANGED <<wpc, reply, ledger>>
    BY <1>3 DEF ResolveSponsor
  <2>4. Ub' = Ub /\ Sb' = s.new /\ blind + s.blind <= blind' /\ blind' >= blind
    BY <1>0, <2>1, <2>2 DEF Ub, Sb
  <2> QED
    BY <2>1, <2>3, <2>4 DEF UserOpens, SponsorOpens, Committed, Recording
<1>4. CASE StartContext /\ kind = "rerate"
  BY <1>1, <1>4 DEF StartContext
<1>5. CASE StartContext /\ kind # "rerate"
  <2>1. PICK b \in Reads(User) : budget' = [budget EXCEPT !["user"] = b.new] /\ blind' = blind + b.blind
    BY <1>5 DEF StartContext
  <2>2. b.blind \in {0, 1}
    BY <1>0, <2>1, OpenedBudget
  <2>3. Committed' = {} /\ Recording' = {} /\ ledger' = ledger
    BY <1>5 DEF StartContext, Shape, Committed, Recording
  <2>4. Sb' = Sb /\ Ub' = b.new /\ blind + b.blind <= blind' /\ blind' >= blind
    BY <1>0, <2>1, <2>2 DEF Ub, Sb
  <2> QED
    BY <2>1, <2>3, <2>4 DEF UserOpens, SponsorOpens
<1>6. CASE Merge \/ FinishRerate \/ FinishScrape \/ StartScrape \/ EditGoal \/ NewDay \/ UNCHANGED vars
  BY <1>1, <1>6 DEF Merge, FinishRerate, FinishScrape, StartScrape, EditGoal, NewDay, vars
<1>7. CASE Release \/ Crash
  <2>1. Forget
    BY <1>7 DEF Release, Crash
  <2>2. Committed' = {} /\ Recording' = {} /\ Ub' = Closed /\ Sb' = Closed /\ ledger' = ledger /\ blind' = blind
    BY <2>1 DEF Forget, Each, Committed, Recording, Ub, Sb
  <2> QED
    BY <1>0, <2>2 DEF UserOpens, SponsorOpens
<1> QED
  BY <1>2, <1>3, <1>4, <1>5, <1>6, <1>7

LEMMA RunWithinStep ==
  ASSUME TypeOK, Shape, RunWithin,
         \/ StartRerate \/ StartScrape \/ ResolveSponsor \/ StartContext \/ Merge \/ FinishRerate
         \/ FinishScrape \/ Release \/ Crash \/ EditGoal \/ NewDay \/ UNCHANGED vars
  PROVE  RunWithin'
<1>1. UserOpens /\ SponsorOpens
  BY RunOpens
<1>2. RunCap \in Nat /\ MaxTokens \in Nat /\ Overshoot \in Nat /\ 0 \in Nat /\ User \in Users /\ Sponsor \in Users
  BY ConstantTypes, TokenBounds, PoolSpends
<1>3. Room(0, 0, 0, RunCap)
  BY <1>2, RoomAtStart
<1>4. StoreTypes /\ day \in 1 .. Days
  BY TypesTogether DEF RunTypes
<1>5. Within(0, RunCap)'
  <2>1. CASE Ub' = Ub /\ Committed' = Committed
    BY <2>1 DEF RunWithin, Within
  <2>2. CASE Committed' = {} /\ (Ub' = Closed \/ \E r \in Reads(User) : Ub' = r.new)
    <3>1. Ub'.spent = 0
      BY <1>2, <1>4, <2>2, ClosedBudget, OpenedBudget
    <3>2. Cardinality(Committed') = 0
      BY <2>2, FS_EmptySet
    <3> QED
      BY <1>3, <3>1, <3>2 DEF Within
  <2> QED
    BY <1>1, <2>1, <2>2 DEF UserOpens
<1>6. RunCap > 0 => Sb'.spent < RunCap + MaxTokens
  <2>1. CASE Sb' = Sb
    BY <2>1 DEF RunWithin
  <2>2. CASE Sb' = Closed \/ \E r \in Reads(Sponsor) : Sb' = r.new
    <3>1. Sb'.spent = 0
      BY <1>2, <1>4, <2>2, ClosedBudget, OpenedBudget
    <3> QED
      BY <1>2, <3>1
  <2> QED
    BY <1>1, <2>1, <2>2 DEF SponsorOpens
<1> QED
  BY <1>5, <1>6 DEF RunWithin

LEMMA StepWithin ==
  ASSUME TypeOK, Shape, Shape', RunWithin, NEW p \in Postings, Step(p)
  PROVE  RunWithin'
<1>1. UserMoves /\ SponsorMoves
  BY StepUser, StepSponsor
<1>2. RunCap \in Nat /\ MaxTokens \in Nat /\ 0 \in Nat /\ Ub.spent \in Nat /\ Sb.spent \in Nat
  BY ConstantTypes, TokenBounds DEF TypeOK, Budgets, Ub, Sb
<1>3. CanSpend(Ub) => 0 + Ub.spent < RunCap
  BY <1>2 DEF CanSpend
<1>4. Within(0, RunCap)
  BY DEF RunWithin
<1>5. Room(0, Ub'.spent, Cardinality(Committed'), RunCap)
  BY <1>1, <1>2, <1>3, <1>4, WithinMoves
<1>6. RunCap > 0 => Sb'.spent < RunCap + MaxTokens
  <2>1. CASE Sb'.spent = Sb.spent
    BY <2>1 DEF RunWithin
  <2>2. ASSUME CanSpend(Sb), NEW t \in Tokens, Sb'.spent = Sb.spent + t
        PROVE  Sb'.spent < RunCap + MaxTokens
    BY <1>2, <2>2, TokenBounds DEF CanSpend
  <2> QED
    BY <1>1, <2>1, <2>2 DEF SponsorMoves
<1> QED
  BY <1>5, <1>6 DEF RunWithin, Within

-----------------------------------------------------------------------------
(* Pieces of the total that are debited and not recorded.                    *)

LEMMA UsedNat ==
  ASSUME TypeOK
  PROVE  Used \in [Postings -> Nat]
<1>1. ASSUME NEW p \in Postings PROVE reply[p].used \in Nat
  <2>1. reply[p] \in [used : Tokens, verdict : Replies] \/ reply[p] = [used |-> 0, verdict |-> "none"]
    BY DEF TypeOK, NoReply
  <2>2. CASE reply[p] \in [used : Tokens, verdict : Replies]
    BY <2>2, ConstantTypes
  <2>3. CASE reply[p] = [used |-> 0, verdict |-> "none"]
    BY <2>3
  <2> QED
    BY <2>1, <2>2, <2>3
<1> QED
  BY <1>1 DEF Used

\* The pieces of T are what they were.
Agree(T, use, use2) == \A q \in T : use2[q] = use[q]

\* A call that returns debits a new piece on top.
LEMMA PackedCall ==
  ASSUME NEW S \in SUBSET Postings, NEW p \in Postings, p \notin S, NEW lo \in [Postings -> Nat],
         NEW low \in Nat, NEW high \in Nat, low <= high, NEW t \in Nat,
         NEW use \in [Postings -> Nat], NEW use2 \in [Postings -> Nat],
         use2[p] = t, Agree(S, use, use2), Packed(lo, S, low, high, use)
  PROVE  \E lo2 \in [Postings -> Nat] : Packed(lo2, S \cup {p}, low, high + t, use2)
<1> DEFINE lo2 == [lo EXCEPT ![p] = high]
<1>1. lo2 \in [Postings -> Nat] /\ lo2[p] = high /\ \A q \in S : lo2[q] = lo[q]
  OBVIOUS
<1> HIDE DEF lo2
<1>2. ASSUME NEW q \in S
      PROVE  /\ low <= lo2[q] /\ lo2[q] + use2[q] <= high + t /\ lo2[q] + use2[q] <= lo2[p]
             /\ \A r \in S : r # q => lo2[q] + use2[q] <= lo2[r] \/ lo2[r] + use2[r] <= lo2[q]
  <2>1. /\ low <= lo[q] /\ lo[q] + use[q] <= high /\ lo[q] \in Nat /\ use[q] \in Nat
        /\ \A r \in S : r # q => lo[q] + use[q] <= lo[r] \/ lo[r] + use[r] <= lo[q]
    BY DEF Packed
  <2>2. lo2[q] = lo[q] /\ use2[q] = use[q] /\ lo2[p] = high /\ \A r \in S : use2[r] = use[r]
    BY <1>1 DEF Agree
  <2> QED
    BY <1>1, <2>1, <2>2
<1>3. low <= lo2[p] /\ lo2[p] + use2[p] <= high + t
  BY <1>1
<1>4. Packed(lo2, S \cup {p}, low, high + t, use2)
  BY <1>2, <1>3 DEF Packed
<1> QED
  BY <1>1, <1>4

\* A piece that is recorded moves the bottom up, and the pieces below it.
LEMMA PackedWrite ==
  ASSUME NEW S \in SUBSET Postings, NEW p \in S, NEW lo \in [Postings -> Nat],
         NEW low \in Nat, NEW high \in Nat, NEW use \in [Postings -> Nat], Packed(lo, S, low, high, use)
  PROVE  low + use[p] <= high /\ \E lo2 \in [Postings -> Nat] : Packed(lo2, S \ {p}, low + use[p], high, use)
<1> DEFINE Below(q) == lo[q] + use[q] <= lo[p]
           lo2 == [q \in Postings |-> IF q # p /\ Below(q) THEN lo[q] + use[p] ELSE lo[q]]
<1>1. lo2 \in [Postings -> Nat]
      /\ \A q \in S \ {p} : lo2[q] = IF Below(q) THEN lo[q] + use[p] ELSE lo[q]
  OBVIOUS
<1>2. low <= lo[p] /\ lo[p] + use[p] <= high /\ lo[p] \in Nat /\ use[p] \in Nat
  BY DEF Packed
<1>3. ASSUME NEW q \in S \ {p}
      PROVE  /\ low <= lo[q] /\ lo[q] + use[q] <= high /\ lo[q] \in Nat /\ use[q] \in Nat
             /\ Below(q) \/ lo[p] + use[p] <= lo[q]
             /\ \A r \in S \ {p} : r # q => lo[q] + use[q] <= lo[r] \/ lo[r] + use[r] <= lo[q]
  BY DEF Packed
<1>4. ASSUME NEW q \in S \ {p}
      PROVE  low + use[p] <= lo2[q] /\ lo2[q] + use[q] <= high
  <2>1. CASE Below(q)
    BY <1>1, <1>2, <1>3, <2>1
  <2>2. CASE ~Below(q)
    BY <1>1, <1>2, <1>3, <2>2
  <2> QED
    BY <2>1, <2>2
<1>5. ASSUME NEW q \in S \ {p}, NEW r \in S \ {p}, lo[q] + use[q] <= lo[r]
      PROVE  lo2[q] + use[q] <= lo2[r]
  <2>1. lo[q] \in Nat /\ use[q] \in Nat /\ lo[r] \in Nat /\ use[r] \in Nat
    BY <1>3
  <2>2. CASE Below(r)
    <3>1. lo2[r] = lo[r] + use[p] /\ lo2[q] <= lo[q] + use[p] /\ lo2[q] \in Nat
      BY <1>1, <1>2, <2>1, <2>2
    <3> QED
      BY <1>2, <1>5, <2>1, <3>1
  <2>3. CASE ~Below(r)
    <3>1. lo2[r] = lo[r] /\ lo[p] + use[p] <= lo[r]
      BY <1>1, <1>3, <2>3
    <3>2. CASE Below(q)
      <4>1. lo2[q] = lo[q] + use[p]
        BY <1>1, <3>2
      <4> QED
        BY <1>2, <2>1, <3>1, <3>2, <4>1
    <3>3. CASE ~Below(q)
      <4>1. lo2[q] = lo[q]
        BY <1>1, <3>3
      <4> QED
        BY <1>5, <3>1, <4>1
    <3> QED
      BY <3>2, <3>3
  <2> QED
    BY <2>2, <2>3
<1> HIDE DEF lo2, Below
<1>6. Packed(lo2, S \ {p}, low + use[p], high, use)
  BY <1>3, <1>4, <1>5 DEF Packed
<1>7. low + use[p] <= high
  BY <1>2
<1> QED
  BY <1>1, <1>6, <1>7

\* Fewer pieces under a higher top.
LEMMA PackedStays ==
  ASSUME NEW S \in SUBSET Postings, NEW T \in SUBSET S, NEW lo \in [Postings -> Nat],
         NEW low \in Nat, NEW high \in Nat, NEW high2 \in Nat, high <= high2,
         NEW use \in [Postings -> Nat], NEW use2 \in [Postings -> Nat],
         Agree(T, use, use2), Packed(lo, S, low, high, use)
  PROVE  \E lo2 \in [Postings -> Nat] : Packed(lo2, T, low, high2, use2)
<1>1. ASSUME NEW q \in T
      PROVE  /\ low <= lo[q] /\ lo[q] + use2[q] <= high2
             /\ \A r \in T : r # q => lo[q] + use2[q] <= lo[r] \/ lo[r] + use2[r] <= lo[q]
  <2>1. /\ low <= lo[q] /\ lo[q] + use[q] <= high /\ lo[q] \in Nat /\ use[q] \in Nat
        /\ \A r \in T : r # q => lo[q] + use[q] <= lo[r] \/ lo[r] + use[r] <= lo[q]
    BY DEF Packed
  <2>2. use2[q] = use[q] /\ \A r \in T : use2[r] = use[r]
    BY DEF Agree
  <2> QED
    BY <2>1, <2>2
<1>2. Packed(lo, T, low, high2, use2)
  BY <1>1 DEF Packed
<1> QED
  BY <1>2

-----------------------------------------------------------------------------
(* The ledger.                                                               *)

Recorded(u, d, t) ==
  ledger'[u] = [ledger[u] EXCEPT ![d] = @ + t] /\ \A v \in Users \ {u} : ledger'[v] = ledger[v]

LEMMA RecordedRaises ==
  ASSUME StoreTypes, NEW u \in Users, NEW d \in 1 .. Days, NEW t \in Nat, Recorded(u, d, t)
  PROVE  /\ ledger'[u][d] = ledger[u][d] + t /\ \A e \in 1 .. Days : e # d => ledger'[u][e] = ledger[u][e]
         /\ MonthTotal(u) \in Nat /\ MonthTotal(u)' = MonthTotal(u) + t /\ ledger[u][d] \in Nat
         /\ \A v \in Users \ {u} : ledger'[v] = ledger[v] /\ MonthTotal(v)' = MonthTotal(v)
<1>1. \A v \in Users : ledger[v] \in [1 .. Days -> Nat]
  BY DEF StoreTypes
<1>2. ledger'[u] = [ledger[u] EXCEPT ![d] = @ + t] /\ \A v \in Users \ {u} : ledger'[v] = ledger[v]
  BY DEF Recorded
<1>3. MonthTotal(u) \in Nat /\ MonthTotal(u)' = MonthTotal(u) + t
  BY <1>1, <1>2, MonthTotalRises
<1>4. \A v \in Users \ {u} : MonthTotal(v)' = MonthTotal(v)
  BY <1>1, <1>2, MonthTotalStays
<1>5. ledger[u] \in [1 .. Days -> Nat]
  BY <1>1
<1>6. ledger'[u][d] = ledger[u][d] + t /\ \A e \in 1 .. Days : e # d => ledger'[u][e] = ledger[u][e]
  BY <1>2, <1>5
<1> QED
  BY <1>2, <1>3, <1>4, <1>5, <1>6

\* LedgerFollows in the next state.
FollowsNext(u, c) ==
  c.open => /\ ledger'[u][c.day] <= c.dayStart + c.spent
            /\ MonthTotal(u)' + c.dayStart = ledger'[u][c.day] + c.monthStart

LEMMA FollowsStays ==
  ASSUME StoreTypes, NEW u \in Users, NEW b \in Budgets, NEW c \in Budgets, SameBase(b, c),
         b.spent <= c.spent, LedgerFollows(u, b), ledger'[u] = ledger[u]
  PROVE  FollowsNext(u, c)
<1>1. ledger[u] \in [1 .. Days -> Nat]
  BY DEF StoreTypes
<1>2. MonthTotal(u)' = MonthTotal(u)
  BY <1>1, MonthTotalStays
<1>3. /\ b.day \in 1 .. Days /\ b.dayStart \in Nat /\ b.spent \in Nat /\ c.spent \in Nat
      /\ ledger[u][b.day] \in Nat
  BY <1>1 DEF Budgets
<1>4. c.open => b.open /\ ledger[u][b.day] <= b.dayStart + b.spent
                /\ MonthTotal(u) + b.dayStart = ledger[u][b.day] + b.monthStart
  BY DEF LedgerFollows, SameBase
<1> QED
  BY <1>2, <1>3, <1>4 DEF FollowsNext, SameBase

LEMMA FollowsRecord ==
  ASSUME StoreTypes, NEW u \in Users, NEW b \in Budgets, NEW c \in Budgets, SameBase(b, c),
         LedgerFollows(u, b), NEW t \in Nat, Recorded(u, b.day, t),
         ledger[u][b.day] + t <= c.dayStart + c.spent
  PROVE  FollowsNext(u, c)
<1>1. b.day \in 1 .. Days /\ c.day = b.day /\ c.dayStart = b.dayStart /\ c.monthStart = b.monthStart
      /\ b.dayStart \in Nat /\ b.monthStart \in Nat
  BY DEF Budgets, SameBase
<1>2. /\ ledger'[u][b.day] = ledger[u][b.day] + t /\ MonthTotal(u)' = MonthTotal(u) + t
      /\ MonthTotal(u) \in Nat /\ ledger[u][b.day] \in Nat
  BY <1>1, RecordedRaises
<1>3. c.open => MonthTotal(u) + b.dayStart = ledger[u][b.day] + b.monthStart
  BY DEF LedgerFollows, SameBase
<1>4. c.open => MonthTotal(u)' + b.dayStart = ledger'[u][b.day] + b.monthStart
  BY <1>1, <1>2, <1>3
<1> QED
  BY <1>1, <1>2, <1>4 DEF FollowsNext

\* A ledger that follows a budget within its caps is within the caps.
LEMMA CapsAfterRecord ==
  ASSUME StoreTypes, DailyCapHolds, MonthlyCapHolds, blind' = 0, blind = 0, NEW u \in Users, NEW c \in Budgets,
         c.open, FollowsNext(u, c), NEW t \in Nat, Recorded(u, c.day, t),
         DailyCap > 0 => c.dayStart + c.spent < DailyCap + Overshoot,
         MonthlyCap > 0 => c.monthStart + c.spent < MonthlyCap + Overshoot
  PROVE  DailyCapHolds' /\ MonthlyCapHolds'
<1>1. /\ c.day \in 1 .. Days /\ c.dayStart \in Nat /\ c.spent \in Nat /\ c.monthStart \in Nat
      /\ DailyCap \in Nat /\ MonthlyCap \in Nat /\ Overshoot \in Nat
  BY ConstantTypes, PoolSpends DEF Budgets
<1>2. /\ \A e \in 1 .. Days : e # c.day => ledger'[u][e] = ledger[u][e]
      /\ \A v \in Users \ {u} : ledger'[v] = ledger[v] /\ MonthTotal(v)' = MonthTotal(v)
      /\ ledger'[u][c.day] \in Nat /\ MonthTotal(u)' \in Nat
  BY <1>1, RecordedRaises
<1>3. /\ ledger'[u][c.day] <= c.dayStart + c.spent
      /\ MonthTotal(u)' + c.dayStart = ledger'[u][c.day] + c.monthStart
  BY DEF FollowsNext
<1>4. ASSUME DailyCap > 0, NEW v \in Users, NEW d \in 1 .. Days
      PROVE  ledger'[v][d] < DailyCap + Overshoot
  <2>1. ledger[v][d] < DailyCap + Overshoot
    BY <1>4 DEF DailyCapHolds
  <2>2. CASE v # u \/ d # c.day
    BY <1>2, <2>1, <2>2
  <2>3. CASE v = u /\ d = c.day
    BY <1>1, <1>2, <1>3, <1>4, <2>3
  <2> QED
    BY <2>2, <2>3
<1>5. ASSUME MonthlyCap > 0, NEW v \in Users
      PROVE  MonthTotal(v)' < MonthlyCap + Overshoot
  <2>1. CASE v # u
    BY <1>2, <1>5, <2>1 DEF MonthlyCapHolds
  <2>2. CASE v = u
    <3> DEFINE m == MonthTotal(u)'  l == ledger'[u][c.day]
    <3>1. m \in Nat /\ l \in Nat /\ l <= c.dayStart + c.spent /\ m + c.dayStart = l + c.monthStart
      BY <1>2, <1>3
    <3>2. c.monthStart + c.spent < MonthlyCap + Overshoot
      BY <1>5
    <3> HIDE DEF m, l
    <3>3. m <= c.monthStart + c.spent
      BY <1>1, <3>1
    <3>4. m < MonthlyCap + Overshoot
      BY <1>1, <3>1, <3>2, <3>3
    <3> QED
      BY <2>2, <3>4 DEF m
  <2> QED
    BY <2>1, <2>2
<1> QED
  BY <1>4, <1>5 DEF DailyCapHolds, MonthlyCapHolds

LEMMA RoomMeans ==
  ASSUME NEW base \in Nat, NEW spent \in Nat, NEW cap \in Nat, NEW c \in Nat, c <= Workers,
         Room(base, spent, c, cap)
  PROVE  cap > 0 => base + spent < cap + Overshoot
<1>1. MaxTokens * c \in Nat /\ Overshoot \in Nat
  BY PoolSpends
<1> QED
  BY <1>1 DEF Room

\* A budget opened with the ledger is within the caps and follows it.
LEMMA OpensWithin ==
  ASSUME TypeOK, LedgerInv, blind = 0, NEW u \in Users, NEW r \in Reads(u), r.blind = 0, ledger' = ledger
  PROVE  /\ r.new \in Budgets /\ r.new.spent = 0 /\ FollowsNext(u, r.new)
         /\ DailyCap > 0 => r.new.dayStart < DailyCap + Overshoot
         /\ MonthlyCap > 0 => r.new.monthStart < MonthlyCap + Overshoot
<1>1. day \in 1 .. Days /\ StoreTypes /\ ledger[u] \in [1 .. Days -> Nat]
  BY DEF TypeOK, StoreTypes
<1>2. /\ r.new \in Budgets /\ r.new.spent = 0 /\ r.new.day = day
      /\ r.new.dayStart = ledger[u][day] /\ r.new.monthStart = MonthTotal(u)
  BY <1>1, OpenedBudget
<1>3. MonthTotal(u) \in Nat /\ MonthTotal(u)' = MonthTotal(u)
  BY <1>1, MonthTotalStays
<1>4. DailyCapHolds /\ MonthlyCapHolds
  BY DEF LedgerInv
<1>5. DailyCap > 0 => ledger[u][day] < DailyCap + Overshoot
  BY <1>1, <1>4 DEF DailyCapHolds
<1>6. MonthlyCap > 0 => MonthTotal(u) < MonthlyCap + Overshoot
  BY <1>4 DEF MonthlyCapHolds
<1>7. FollowsNext(u, r.new)
  <2>1. ledger[u][day] \in Nat
    BY <1>1
  <2> QED
    BY <1>2, <1>3, <2>1 DEF FollowsNext
<1> QED
  BY <1>2, <1>5, <1>6, <1>7

LEMMA RunLedgerStep ==
  ASSUME TypeOK, Shape, LedgerInv,
         \/ StartRerate \/ StartScrape \/ ResolveSponsor \/ StartContext \/ Merge \/ FinishRerate
         \/ FinishScrape \/ Release \/ Crash \/ EditGoal \/ NewDay \/ UNCHANGED vars
  PROVE  LedgerInv'
<1>1. UserOpens /\ SponsorOpens /\ ledger' = ledger /\ blind' >= blind /\ blind \in Nat
  BY RunOpens DEF TypeOK
<1> SUFFICES ASSUME blind' = 0
             PROVE  LedgerInv'
  BY DEF LedgerInv
<1>2. blind = 0
  BY <1>1
<1>3. /\ DailyCap \in Nat /\ MonthlyCap \in Nat /\ Overshoot \in Nat /\ 0 \in Nat
      /\ User \in Users /\ Sponsor \in Users
  BY ConstantTypes, PoolSpends
<1>4. StoreTypes /\ day \in 1 .. Days /\ \A u \in Users : ledger[u] \in [1 .. Days -> Nat]
  BY DEF TypeOK, StoreTypes
<1>5. \A u \in Users : MonthTotal(u)' = MonthTotal(u) /\ ledger'[u] = ledger[u]
  BY <1>1, <1>4, MonthTotalStays
<1>6. ASSUME NEW u \in Users, NEW r \in Reads(u), blind + r.blind <= blind' PROVE r.blind = 0
  <2>1. r.blind \in {0, 1}
    BY <1>4, OpenedBudget
  <2> QED
    BY <1>2, <1>6, <2>1
<1>7. DailyCapHolds' /\ MonthlyCapHolds'
  BY <1>1, <1>2, <1>5 DEF LedgerInv, DailyCapHolds, MonthlyCapHolds
<1>8. /\ Within(Ub.dayStart, DailyCap)' /\ Within(Ub.monthStart, MonthlyCap)'
      /\ LedgerFollows(User, Ub)' /\ Unledgered'
  <2>1. CASE Ub' = Ub /\ Committed' = Committed /\ Recording' = Recording /\ reply' = reply
    BY <1>1, <1>2, <1>3, <1>5, <2>1 DEF LedgerInv, Within, LedgerFollows, Unledgered, Used
  <2>2. ASSUME Committed' = {}, Recording' = {}, NEW b \in Budgets, Ub' = b, b.spent = 0, FollowsNext(User, b),
               DailyCap > 0 => b.dayStart < DailyCap + Overshoot,
               MonthlyCap > 0 => b.monthStart < MonthlyCap + Overshoot
        PROVE  /\ Within(Ub.dayStart, DailyCap)' /\ Within(Ub.monthStart, MonthlyCap)'
               /\ LedgerFollows(User, Ub)' /\ Unledgered'
    <3>1. b.dayStart \in Nat /\ b.monthStart \in Nat
      BY DEF Budgets
    <3>2. Room(b.dayStart, 0, 0, DailyCap) /\ Room(b.monthStart, 0, 0, MonthlyCap)
      BY <1>3, <2>2, <3>1, RoomAtStart
    <3>3. Cardinality(Committed') = 0
      BY <2>2, FS_EmptySet
    <3>4. Within(Ub.dayStart, DailyCap)' /\ Within(Ub.monthStart, MonthlyCap)'
      BY <2>2, <3>2, <3>3 DEF Within
    <3>5. LedgerFollows(User, Ub)'
      BY <2>2 DEF LedgerFollows, FollowsNext
    <3>6. Unledgered'
      <4>1. [q \in Postings |-> 0] \in [Postings -> Nat]
        OBVIOUS
      <4> QED
        BY <2>2, <4>1 DEF Unledgered, Packed
    <3> QED
      BY <3>4, <3>5, <3>6
  <2>3. CASE Committed' = {} /\ Recording' = {} /\ Ub' = Closed
    <3>1. Closed \in Budgets /\ Closed.spent = 0 /\ Closed.dayStart = 0 /\ Closed.monthStart = 0 /\ ~Closed.open
      BY ClosedBudget DEF Closed
    <3>2. FollowsNext(User, Closed)
      BY <3>1 DEF FollowsNext
    <3>3. /\ DailyCap > 0 => Closed.dayStart < DailyCap + Overshoot
          /\ MonthlyCap > 0 => Closed.monthStart < MonthlyCap + Overshoot
      BY <1>3, <3>1
    <3> QED
      BY <2>2, <2>3, <3>1, <3>2, <3>3
  <2>4. ASSUME Committed' = {}, Recording' = {}, NEW r \in Reads(User), Ub' = r.new, blind + r.blind <= blind'
        PROVE  /\ Within(Ub.dayStart, DailyCap)' /\ Within(Ub.monthStart, MonthlyCap)'
               /\ LedgerFollows(User, Ub)' /\ Unledgered'
    <3>1. r.blind = 0
      BY <1>3, <1>6, <2>4
    <3>2. /\ r.new \in Budgets /\ r.new.spent = 0 /\ FollowsNext(User, r.new)
          /\ DailyCap > 0 => r.new.dayStart < DailyCap + Overshoot
          /\ MonthlyCap > 0 => r.new.monthStart < MonthlyCap + Overshoot
      BY <1>1, <1>2, <1>3, <3>1, OpensWithin
    <3> QED
      BY <2>2, <2>4, <3>2
  <2> QED
    BY <1>1, <2>1, <2>3, <2>4 DEF UserOpens
<1>9. /\ DailyCap > 0 => Sb'.dayStart + Sb'.spent < DailyCap + Overshoot
      /\ MonthlyCap > 0 => Sb'.monthStart + Sb'.spent < MonthlyCap + Overshoot
      /\ LedgerFollows(Sponsor, Sb)'
  <2>1. CASE Sb' = Sb
    BY <1>1, <1>2, <1>3, <1>5, <2>1 DEF LedgerInv, LedgerFollows
  <2>2. CASE Sb' = Closed
    <3>1. Closed.spent = 0 /\ Closed.dayStart = 0 /\ Closed.monthStart = 0 /\ ~Closed.open
      BY DEF Closed
    <3> QED
      BY <1>3, <2>2, <3>1 DEF LedgerFollows
  <2>3. ASSUME NEW r \in Reads(Sponsor), Sb' = r.new, blind + r.blind <= blind'
        PROVE  /\ DailyCap > 0 => Sb'.dayStart + Sb'.spent < DailyCap + Overshoot
               /\ MonthlyCap > 0 => Sb'.monthStart + Sb'.spent < MonthlyCap + Overshoot
               /\ LedgerFollows(Sponsor, Sb)'
    <3>1. r.blind = 0
      BY <1>3, <1>6, <2>3
    <3>2. /\ r.new \in Budgets /\ r.new.spent = 0 /\ FollowsNext(Sponsor, r.new)
          /\ DailyCap > 0 => r.new.dayStart < DailyCap + Overshoot
          /\ MonthlyCap > 0 => r.new.monthStart < MonthlyCap + Overshoot
      BY <1>1, <1>2, <1>3, <3>1, OpensWithin
    <3>3. r.new.dayStart \in Nat /\ r.new.monthStart \in Nat
      BY <3>2 DEF Budgets
    <3>4. LedgerFollows(Sponsor, Sb)'
      BY <2>3, <3>2 DEF LedgerFollows, FollowsNext
    <3> QED
      BY <2>3, <3>2, <3>3, <3>4
  <2> QED
    BY <1>1, <2>1, <2>2, <2>3 DEF SponsorOpens
<1> QED
  BY <1>7, <1>8, <1>9 DEF LedgerInv

LEMMA UsedNatNext ==
  ASSUME TypeOK'
  PROVE  Used' \in [Postings -> Nat]
<1>1. ASSUME NEW p \in Postings PROVE reply'[p].used \in Nat
  <2>1. reply'[p] \in [used : Tokens, verdict : Replies] \/ reply'[p] = [used |-> 0, verdict |-> "none"]
    BY DEF TypeOK, NoReply
  <2>2. CASE reply'[p] \in [used : Tokens, verdict : Replies]
    BY <2>2, ConstantTypes
  <2>3. CASE reply'[p] = [used |-> 0, verdict |-> "none"]
    BY <2>3
  <2> QED
    BY <2>1, <2>2, <2>3
<1> QED
  BY <1>1 DEF Used

\* The budgets of a step, and how they grow.
LEMMA BudgetsGrow ==
  ASSUME TypeOK, TypeOK', UserMoves, SponsorMoves
  PROVE  /\ Ub \in Budgets /\ Ub' \in Budgets /\ Sb \in Budgets /\ Sb' \in Budgets
         /\ SameBase(Ub, Ub') /\ Ub.spent <= Ub'.spent /\ SameBase(Sb, Sb') /\ Sb.spent <= Sb'.spent
         /\ User \in Users /\ Sponsor \in Users /\ StoreTypes
         /\ Ub.day \in 1 .. Days /\ Sb.day \in 1 .. Days
         /\ ledger[User][Ub.day] \in Nat /\ ledger'[User][Ub.day] \in Nat
         /\ Ub.dayStart + Ub.spent \in Nat /\ Ub'.dayStart + Ub'.spent \in Nat
<1>1. Ub \in Budgets /\ Ub' \in Budgets /\ Sb \in Budgets /\ Sb' \in Budgets
  BY DEF TypeOK, Ub, Sb
<1>2. User \in Users /\ Sponsor \in Users /\ StoreTypes /\ ledger' \in [Users -> [1 .. Days -> Nat]]
  BY ConstantTypes DEF TypeOK, StoreTypes
<1>3. /\ Ub.spent \in Nat /\ Sb.spent \in Nat /\ Ub.day \in 1 .. Days /\ Sb.day \in 1 .. Days
      /\ Ub.dayStart \in Nat /\ Ub'.dayStart \in Nat /\ Ub'.spent \in Nat
  BY <1>1 DEF Budgets
<1>4. Ub.spent <= Ub'.spent /\ Sb.spent <= Sb'.spent
  BY <1>3, TokenBounds DEF UserMoves, SponsorMoves
<1>5. ledger[User][Ub.day] \in Nat /\ ledger'[User][Ub.day] \in Nat
  BY <1>2, <1>3 DEF StoreTypes
<1>6. Ub.dayStart + Ub.spent \in Nat /\ Ub'.dayStart + Ub'.spent \in Nat
  BY <1>3
<1>7. SameBase(Ub, Ub') /\ SameBase(Sb, Sb')
  BY DEF UserMoves, SponsorMoves
<1> QED
  BY <1>1, <1>2, <1>3, <1>4, <1>5, <1>6, <1>7

LEMMA UnledgeredStays ==
  ASSUME TypeOK, TypeOK', UserMoves, SponsorMoves, Unledgered,
         \A q \in Postings : wpc'[q] = "ledger" => wpc[q] = "ledger" /\ reply'[q] = reply[q],
         ledger'[User][Ub.day] = ledger[User][Ub.day]
  PROVE  Unledgered'
<1>1. PICK lo \in [Postings -> Nat] :
        Packed(lo, Recording, ledger[User][Ub.day], Ub.dayStart + Ub.spent, Used)
  BY DEF Unledgered
<1> DEFINE low == ledger[User][Ub.day]  high == Ub.dayStart + Ub.spent  high2 == Ub'.dayStart + Ub'.spent
<1>2. /\ low \in Nat /\ high \in Nat /\ high2 \in Nat /\ high <= high2
      /\ ledger'[User][Ub'.day] = low
  BY BudgetsGrow DEF SameBase, Budgets
<1>3. Recording \in SUBSET Postings /\ Recording' \in SUBSET Recording
  BY DEF Recording
<1>4. Used \in [Postings -> Nat] /\ Used' \in [Postings -> Nat] /\ \A q \in Recording' : Used'[q] = Used[q]
  BY UsedNat, UsedNatNext DEF Used, Recording
<1>5. Packed(lo, Recording, low, high, Used)
  BY <1>1
<1> HIDE DEF low, high, high2
<1> DEFINE S == Recording  T == Recording'  use == Used  use2 == Used'
<1>6. S \in SUBSET Postings /\ T \in SUBSET S /\ use \in [Postings -> Nat] /\ use2 \in [Postings -> Nat]
      /\ Agree(T, use, use2) /\ Packed(lo, S, low, high, use)
  BY <1>3, <1>4, <1>5 DEF Agree
<1> HIDE DEF S, T, use, use2
<1>7. \E lo2 \in [Postings -> Nat] : Packed(lo2, T, low, high2, use2)
  BY <1>1, <1>2, <1>6, PackedStays
<1> QED
  BY <1>2, <1>7 DEF Unledgered, T, use2, high2

\* The budgets stay within the caps.
BasesWithin ==
  /\ Within(Ub.dayStart, DailyCap) /\ Within(Ub.monthStart, MonthlyCap)
  /\ DailyCap > 0 => Sb.dayStart + Sb.spent < DailyCap + Overshoot
  /\ MonthlyCap > 0 => Sb.monthStart + Sb.spent < MonthlyCap + Overshoot

LEMMA StepBases ==
  ASSUME TypeOK, TypeOK', Shape, Shape', UserMoves, SponsorMoves, BasesWithin
  PROVE  BasesWithin'
<1>1. /\ Ub \in Budgets /\ Sb \in Budgets /\ SameBase(Ub, Ub') /\ SameBase(Sb, Sb')
      /\ DailyCap \in Nat /\ MonthlyCap \in Nat
  BY BudgetsGrow, ConstantTypes
<1>2. /\ Ub.dayStart \in Nat /\ Ub.monthStart \in Nat /\ Ub.spent \in Nat
      /\ Sb.dayStart \in Nat /\ Sb.monthStart \in Nat /\ Sb.spent \in Nat
  BY <1>1 DEF Budgets
<1>3. Within(Ub.dayStart, DailyCap) /\ Within(Ub.monthStart, MonthlyCap)
  BY DEF BasesWithin
<1>4. CanSpend(Ub) => Ub.dayStart + Ub.spent < DailyCap /\ Ub.monthStart + Ub.spent < MonthlyCap
  BY DEF CanSpend
<1>5. Room(Ub.dayStart, Ub'.spent, Cardinality(Committed'), DailyCap)
  BY <1>1, <1>2, <1>3, <1>4, WithinMoves
<1>6. Room(Ub.monthStart, Ub'.spent, Cardinality(Committed'), MonthlyCap)
  BY <1>1, <1>2, <1>3, <1>4, WithinMoves
<1>7. Within(Ub.dayStart, DailyCap)' /\ Within(Ub.monthStart, MonthlyCap)'
  BY <1>1, <1>5, <1>6 DEF Within, SameBase
<1>8. /\ DailyCap > 0 => Sb'.dayStart + Sb'.spent < DailyCap + Overshoot
      /\ MonthlyCap > 0 => Sb'.monthStart + Sb'.spent < MonthlyCap + Overshoot
  <2>1. CASE Sb'.spent = Sb.spent
    BY <1>1, <2>1 DEF BasesWithin, SameBase
  <2>2. ASSUME CanSpend(Sb), NEW t \in Tokens, Sb'.spent = Sb.spent + t
        PROVE  /\ Sb'.dayStart + Sb'.spent < DailyCap + Overshoot
               /\ Sb'.monthStart + Sb'.spent < MonthlyCap + Overshoot
    <3>1. Sb.dayStart + Sb.spent < DailyCap /\ Sb.monthStart + Sb.spent < MonthlyCap
      BY <2>2 DEF CanSpend
    <3>2. Sb.dayStart + Sb.spent + t < DailyCap + Overshoot
      BY <1>1, <1>2, <2>2, <3>1, RoomForOne
    <3>3. Sb.monthStart + Sb.spent + t < MonthlyCap + Overshoot
      BY <1>1, <1>2, <2>2, <3>1, RoomForOne
    <3>4. t \in Nat /\ Sb'.dayStart = Sb.dayStart /\ Sb'.monthStart = Sb.monthStart
      BY <1>1, <2>2, TokenBounds DEF SameBase
    <3> QED
      BY <1>2, <2>2, <3>2, <3>3, <3>4
  <2> QED
    BY <2>1, <2>2 DEF SponsorMoves
<1> QED
  BY <1>7, <1>8 DEF BasesWithin

\* The moves that leave the ledger and the debited pieces alone.
LEMMA QuietLedger ==
  ASSUME TypeOK, TypeOK', UserMoves, SponsorMoves, LedgerInv, blind = 0, blind' = 0, ledger' = ledger,
         \A q \in Postings : wpc'[q] = "ledger" => wpc[q] = "ledger" /\ reply'[q] = reply[q]
  PROVE  LedgerFollows(User, Ub)' /\ LedgerFollows(Sponsor, Sb)' /\ Unledgered' /\ DailyCapHolds' /\ MonthlyCapHolds'
<1>1. LedgerFollows(User, Ub) /\ LedgerFollows(Sponsor, Sb) /\ Unledgered /\ DailyCapHolds /\ MonthlyCapHolds
  BY DEF LedgerInv
<1>2. FollowsNext(User, Ub') /\ FollowsNext(Sponsor, Sb')
  BY <1>1, BudgetsGrow, FollowsStays
<1>3. Unledgered'
  BY <1>1, UnledgeredStays
<1>4. \A u \in Users : MonthTotal(u)' = MonthTotal(u)
  BY MonthTotalStays DEF TypeOK
<1>5. DailyCapHolds' /\ MonthlyCapHolds'
  BY <1>1, <1>4 DEF DailyCapHolds, MonthlyCapHolds
<1> QED
  BY <1>2, <1>3, <1>5 DEF LedgerFollows, FollowsNext

LEMMA RecordsOwner ==
  ASSUME TypeOK, NEW who \in {"user", "sponsor"}, NEW t \in Nat, LedgerWrite(who, t)
  PROVE  ledger' = ledger \/ Recorded(Owner(who), budget[who].day, t)
  BY LedgerWriteTypes DEF Recorded

\* What a step of one posting establishes of the ledger, apart from the caps of
\* the budgets.
LedgerNext ==
  LedgerFollows(User, Ub)' /\ LedgerFollows(Sponsor, Sb)' /\ Unledgered' /\ DailyCapHolds' /\ MonthlyCapHolds'

LEMMA ExtractLedger ==
  ASSUME TypeOK, TypeOK', UserMoves, SponsorMoves, LedgerInv, BasesWithin', blind = 0, blind' = 0, User # Sponsor,
         NEW p \in Postings, Extract(p)
  PROVE  LedgerNext
<1> USE DEF pool, durable, LedgerNext
<1>1. PICK t \in Tokens : /\ budget' = [budget EXCEPT !["sponsor"].spent = @ + t, !["sponsor"].calls = @ + 1]
                          /\ LedgerWrite("sponsor", t)
  BY DEF Extract
<1>2. t \in Nat /\ Sb.open /\ UNCHANGED <<wpc, reply>>
  BY <1>1, TokenBounds DEF Extract, Sb
<1>3. ledger' = ledger \/ Recorded(Sponsor, Sb.day, t)
  BY <1>1, <1>2, RecordsOwner DEF Owner, Sb
<1>4. CASE ledger' = ledger
  BY <1>2, <1>4, QuietLedger
<1>5. CASE Recorded(Sponsor, Sb.day, t)
  <2>1. LedgerFollows(User, Ub) /\ LedgerFollows(Sponsor, Sb) /\ Unledgered /\ DailyCapHolds /\ MonthlyCapHolds
    BY DEF LedgerInv
  <2>2. /\ Ub \in Budgets /\ Ub' \in Budgets /\ Sb \in Budgets /\ Sb' \in Budgets
        /\ SameBase(Ub, Ub') /\ Ub.spent <= Ub'.spent /\ SameBase(Sb, Sb')
        /\ User \in Users /\ Sponsor \in Users /\ StoreTypes
    BY BudgetsGrow
  <2>3. ledger'[User] = ledger[User]
    BY <1>5, <2>2 DEF Recorded
  <2>4. FollowsNext(User, Ub')
    BY <2>1, <2>2, <2>3, FollowsStays
  <2>5. ledger[Sponsor][Sb.day] <= Sb.dayStart + Sb.spent
    BY <1>2, <2>1 DEF LedgerFollows
  <2>6. Sb'.spent = Sb.spent + t
    BY <1>1, <2>2 DEF Sb, TypeOK, Budgets
  <2>7. ledger[Sponsor][Sb.day] + t <= Sb'.dayStart + Sb'.spent
    <3>1. /\ Sb.dayStart \in Nat /\ Sb.spent \in Nat /\ Sb.day \in 1 .. Days /\ Sb'.dayStart = Sb.dayStart
          /\ ledger[Sponsor] \in [1 .. Days -> Nat]
      BY <2>2 DEF Budgets, SameBase, StoreTypes
    <3> DEFINE low == ledger[Sponsor][Sb.day]
    <3>2. low \in Nat /\ low <= Sb.dayStart + Sb.spent
      BY <2>5, <3>1
    <3> HIDE DEF low
    <3>3. low + t <= Sb.dayStart + (Sb.spent + t)
      BY <1>2, <3>1, <3>2
    <3> QED
      BY <2>6, <3>1, <3>3 DEF low
  <2>8. FollowsNext(Sponsor, Sb')
    BY <1>2, <1>5, <2>1, <2>2, <2>7, FollowsRecord
  <2>9. Unledgered'
    BY <1>2, <2>1, <2>3, UnledgeredStays
  <2>10. Sb'.open /\ Recorded(Sponsor, Sb'.day, t)
    BY <1>2, <1>5, <2>2 DEF SameBase
  <2>11. /\ DailyCap > 0 => Sb'.dayStart + Sb'.spent < DailyCap + Overshoot
         /\ MonthlyCap > 0 => Sb'.monthStart + Sb'.spent < MonthlyCap + Overshoot
    BY DEF BasesWithin
  <2>12. DailyCapHolds' /\ MonthlyCapHolds'
    BY <1>2, <2>1, <2>2, <2>8, <2>10, <2>11, CapsAfterRecord
  <2> QED
    BY <2>4, <2>8, <2>9, <2>12 DEF LedgerFollows, FollowsNext
<1> QED
  BY <1>3, <1>4, <1>5

\* A usage of the user that is recorded.
LEMMA UserRecords ==
  ASSUME TypeOK, TypeOK', Shape', UserMoves, SponsorMoves, LedgerInv, BasesWithin', blind = 0, blind' = 0,
         User # Sponsor, Ub.open, NEW t \in Nat, Recorded(User, Ub.day, t),
         ledger[User][Ub.day] + t <= Ub'.dayStart + Ub'.spent
  PROVE  LedgerFollows(User, Ub)' /\ LedgerFollows(Sponsor, Sb)' /\ DailyCapHolds' /\ MonthlyCapHolds'
<1>1. LedgerFollows(User, Ub) /\ LedgerFollows(Sponsor, Sb) /\ DailyCapHolds /\ MonthlyCapHolds
  BY DEF LedgerInv
<1>2. /\ Ub \in Budgets /\ Ub' \in Budgets /\ Sb \in Budgets /\ Sb' \in Budgets
      /\ SameBase(Ub, Ub') /\ SameBase(Sb, Sb') /\ Sb.spent <= Sb'.spent
      /\ User \in Users /\ Sponsor \in Users /\ StoreTypes
  BY BudgetsGrow
<1>3. ledger'[Sponsor] = ledger[Sponsor]
  BY <1>2 DEF Recorded
<1>4. FollowsNext(Sponsor, Sb')
  BY <1>1, <1>2, <1>3, FollowsStays
<1>5. FollowsNext(User, Ub')
  BY <1>1, <1>2, FollowsRecord
<1>6. Ub'.open /\ Recorded(User, Ub'.day, t)
  BY <1>2 DEF SameBase
<1>7. /\ DailyCap > 0 => Ub'.dayStart + Ub'.spent < DailyCap + Overshoot
      /\ MonthlyCap > 0 => Ub'.monthStart + Ub'.spent < MonthlyCap + Overshoot
  <2>1. Room(Ub'.dayStart, Ub'.spent, Cardinality(Committed'), DailyCap)
        /\ Room(Ub'.monthStart, Ub'.spent, Cardinality(Committed'), MonthlyCap)
    BY DEF BasesWithin, Within
  <2>2. /\ Ub'.dayStart \in Nat /\ Ub'.spent \in Nat /\ Ub'.monthStart \in Nat
        /\ Cardinality(Committed') \in Nat /\ Cardinality(Committed') <= Workers
        /\ DailyCap \in Nat /\ MonthlyCap \in Nat
    BY <1>2, CommittedInPoolNext, ConstantTypes DEF Budgets
  <2> QED
    BY <2>1, <2>2, RoomMeans
<1>8. DailyCapHolds' /\ MonthlyCapHolds'
  BY <1>1, <1>2, <1>5, <1>6, <1>7, CapsAfterRecord
<1> QED
  BY <1>4, <1>5, <1>8 DEF LedgerFollows, FollowsNext

LEMMA ContextLedger ==
  ASSUME TypeOK, TypeOK', Shape, Shape', UserMoves, SponsorMoves, LedgerInv, BasesWithin', blind = 0, blind' = 0,
         User # Sponsor, NEW p \in Postings, Context(p)
  PROVE  LedgerNext
<1> USE DEF pool, durable, LedgerNext
<1>1. PICK t \in Tokens : Spend("user", t) /\ LedgerWrite("user", t)
  BY DEF Context
<1>2. t \in Nat /\ Ub.open /\ UNCHANGED <<wpc, reply>> /\ \A q \in Postings : wpc[q] = "off"
  BY <1>1, TokenBounds DEF Context, Shape
<1>3. ledger' = ledger \/ Recorded(User, Ub.day, t)
  BY <1>1, <1>2, RecordsOwner DEF Owner, Ub
<1>4. CASE ledger' = ledger
  BY <1>2, <1>4, QuietLedger
<1>5. CASE Recorded(User, Ub.day, t)
  <2>1. ledger[User][Ub.day] <= Ub.dayStart + Ub.spent
    BY <1>2 DEF LedgerInv, LedgerFollows
  <2>2. Ub \in Budgets /\ SameBase(Ub, Ub') /\ ledger[User][Ub.day] \in Nat
    BY BudgetsGrow
  <2>3. Ub'.spent = Ub.spent + t
    BY <1>1, <2>2 DEF Spend, Ub, TypeOK, Budgets
  <2>4. ledger[User][Ub.day] + t <= Ub'.dayStart + Ub'.spent
    <3>1. Ub.dayStart \in Nat /\ Ub.spent \in Nat /\ Ub'.dayStart = Ub.dayStart
      BY <2>2 DEF Budgets, SameBase
    <3> QED
      BY <1>2, <2>1, <2>2, <2>3, <3>1
  <2>5. Unledgered'
    <3>1. Recording' = {}
      BY <1>2 DEF Recording
    <3>2. [q \in Postings |-> 0] \in [Postings -> Nat]
      OBVIOUS
    <3> QED
      BY <3>1, <3>2 DEF Unledgered, Packed
  <2> QED
    BY <1>2, <1>5, <2>4, <2>5, UserRecords
<1> QED
  BY <1>3, <1>4, <1>5

LEMMA CallLedger ==
  ASSUME TypeOK, TypeOK', Shape, UserMoves, SponsorMoves, LedgerInv, blind = 0, blind' = 0,
         NEW p \in Postings, Call(p)
  PROVE  LedgerNext
<1> USE DEF pool, durable, LedgerNext, At, Goto
<1>1. PICK t \in Tokens, v \in Replies :
        reply' = [reply EXCEPT ![p] = [used |-> t, verdict |-> v]] /\ Spend("user", t)
  BY DEF Call
<1>2. t \in Nat /\ phase = "rate" /\ ledger' = ledger /\ wpc[p] = "call" /\ wpc' = [wpc EXCEPT ![p] = "ledger"]
  BY <1>1, TokenBounds DEF Call
<1>3. LedgerFollows(User, Ub) /\ LedgerFollows(Sponsor, Sb) /\ Unledgered /\ DailyCapHolds /\ MonthlyCapHolds
  BY DEF LedgerInv
<1>4. FollowsNext(User, Ub') /\ FollowsNext(Sponsor, Sb')
  BY <1>2, <1>3, BudgetsGrow, FollowsStays
<1>5. \A u \in Users : MonthTotal(u)' = MonthTotal(u)
  BY <1>2, MonthTotalStays DEF TypeOK
<1>6. DailyCapHolds' /\ MonthlyCapHolds'
  BY <1>2, <1>3, <1>5 DEF DailyCapHolds, MonthlyCapHolds
<1>7. Unledgered'
  <2>1. PICK lo \in [Postings -> Nat] :
          Packed(lo, Recording, ledger[User][Ub.day], Ub.dayStart + Ub.spent, Used)
    BY <1>3 DEF Unledgered
  <2> DEFINE low == ledger[User][Ub.day]  high == Ub.dayStart + Ub.spent
             S == Recording  use == Used  use2 == Used'
  <2>2. low \in Nat /\ high \in Nat /\ low <= high
    BY <1>2, <1>3, BudgetsGrow DEF Shape, LedgerFollows
  <2>3. S \in SUBSET Postings /\ p \notin S /\ Recording' = S \cup {p}
    BY <1>2 DEF Recording, TypeOK
  <2>4. use \in [Postings -> Nat] /\ use2 \in [Postings -> Nat] /\ use2[p] = t /\ Agree(S, use, use2)
    BY <1>1, <1>2, UsedNat, UsedNatNext DEF Used, Agree, Recording, TypeOK
  <2>5. ledger'[User][Ub'.day] = low /\ Ub'.dayStart + Ub'.spent = high + t
    <3>1. Ub \in Budgets /\ SameBase(Ub, Ub')
      BY BudgetsGrow
    <3>2. Ub'.spent = Ub.spent + t /\ Ub.spent \in Nat /\ Ub.dayStart \in Nat
      BY <1>1, <3>1 DEF Spend, Ub, TypeOK, Budgets
    <3> QED
      BY <1>2, <3>1, <3>2 DEF SameBase
  <2>6. Packed(lo, S, low, high, use)
    BY <2>1
  <2> HIDE DEF low, high, S, use, use2
  <2>7. \E lo2 \in [Postings -> Nat] : Packed(lo2, S \cup {p}, low, high + t, use2)
    BY <1>2, <2>1, <2>2, <2>3, <2>4, <2>6, PackedCall
  <2>8. \E lo2 \in [Postings -> Nat] :
          Packed(lo2, Recording', ledger'[User][Ub'.day], Ub'.dayStart + Ub'.spent, Used')
    BY <2>3, <2>5, <2>7 DEF use2
  <2> QED
    BY <2>8 DEF Unledgered
<1> QED
  BY <1>4, <1>6, <1>7 DEF LedgerFollows, FollowsNext

LEMMA WriteLedgerLedger ==
  ASSUME TypeOK, TypeOK', Shape, Shape', UserMoves, SponsorMoves, LedgerInv, BasesWithin', blind = 0, blind' = 0,
         User # Sponsor, NEW p \in Postings, WriteLedger(p)
  PROVE  LedgerNext
<1> USE DEF pool, durable, LedgerNext, At, Goto
<1>1. /\ phase = "rate" /\ wpc[p] = "ledger" /\ wpc' = [wpc EXCEPT ![p] = "write"]
      /\ LedgerWrite("user", reply[p].used) /\ reply' = reply /\ budget' = budget
  BY DEF WriteLedger
<1> DEFINE t == reply[p].used
<1>2. t \in Nat /\ t = Used[p] /\ Ub.open /\ Ub' = Ub
  BY <1>1, UsedNat DEF Used, Shape, Ub
<1> HIDE DEF t
<1>3. ledger' = ledger \/ Recorded(User, Ub.day, t)
  BY <1>1, <1>2, RecordsOwner DEF Owner, Ub, t
<1>4. CASE ledger' = ledger
  BY <1>1, <1>4, QuietLedger DEF TypeOK
<1>5. CASE Recorded(User, Ub.day, t)
  <2>1. PICK lo \in [Postings -> Nat] :
          Packed(lo, Recording, ledger[User][Ub.day], Ub.dayStart + Ub.spent, Used)
    BY DEF LedgerInv, Unledgered
  <2> DEFINE low == ledger[User][Ub.day]  high == Ub.dayStart + Ub.spent  S == Recording  use == Used
  <2>2. low \in Nat /\ high \in Nat /\ use \in [Postings -> Nat]
    BY BudgetsGrow, UsedNat
  <2>3. S \in SUBSET Postings /\ p \in S /\ Recording' = S \ {p} /\ Used' = use /\ use[p] = t
    BY <1>1, <1>2 DEF Recording, TypeOK, Used
  <2>4. Packed(lo, S, low, high, use)
    BY <2>1
  <2>5. ledger'[User][Ub'.day] = low + t /\ Ub'.dayStart + Ub'.spent = high
    <3>1. User \in Users /\ Ub.day \in 1 .. Days /\ StoreTypes
      BY BudgetsGrow
    <3> QED
      BY <1>2, <1>5, <3>1, RecordedRaises
  <2> HIDE DEF low, high, S, use
  <2>6. low + use[p] <= high /\ \E lo2 \in [Postings -> Nat] : Packed(lo2, S \ {p}, low + use[p], high, use)
    BY <2>1, <2>2, <2>3, <2>4, PackedWrite
  <2>7. \E lo2 \in [Postings -> Nat] :
          Packed(lo2, Recording', ledger'[User][Ub'.day], Ub'.dayStart + Ub'.spent, Used')
    BY <2>3, <2>5, <2>6
  <2>8. Unledgered'
    BY <2>7 DEF Unledgered
  <2>9. ledger[User][Ub.day] + t <= Ub'.dayStart + Ub'.spent
    BY <1>2, <2>3, <2>6 DEF low, high
  <2> QED
    BY <1>2, <1>5, <2>8, <2>9, UserRecords
<1> QED
  BY <1>3, <1>4, <1>5

LEMMA StepLedger ==
  ASSUME TypeOK, TypeOK', Shape, Shape', LedgerInv, User # Sponsor, NEW p \in Postings, Step(p)
  PROVE  LedgerInv'
<1> USE DEF pool, durable, At, Goto, Send, Examine
<1>1. blind' = blind
  BY DEF Step, ExtractSkip, Extract, ContextSkip, Context, Spawn, Admit, Lookup, CheckBudget, Reserve,
         Call, WriteLedger, WriteResult
<1> SUFFICES ASSUME blind = 0, blind' = 0
             PROVE  LedgerInv'
  BY <1>1 DEF LedgerInv
<1>2. UserMoves /\ SponsorMoves
  BY StepUser, StepSponsor
<1>3. BasesWithin'
  BY <1>2, StepBases DEF LedgerInv, BasesWithin
<1>4. LedgerNext
  <2>1. CASE /\ ledger' = ledger
             /\ \A q \in Postings : wpc'[q] = "ledger" => wpc[q] = "ledger" /\ reply'[q] = reply[q]
    BY <1>2, <2>1, QuietLedger DEF LedgerNext
  <2>2. CASE ExtractSkip(p) \/ ContextSkip(p)
    BY <2>1, <2>2 DEF ExtractSkip, ContextSkip
  <2>3. CASE Spawn(p) \/ Admit(p) \/ Lookup(p)
    BY <2>1, <2>3 DEF Spawn, Admit, Lookup, TypeOK
  <2>4. CASE CheckBudget(p) \/ Reserve(p)
    BY <2>1, <2>4 DEF CheckBudget, Reserve, TypeOK
  <2>5. CASE WriteResult(p)
    <3>1. \E r \in {"rated", "no_signal", "rejected", "failed", "unsaved"} : Send(p, r)
      BY <2>5, TypesTogether DEF WriteResult, Stored, Replies, ReplyTypes
    <3>2. ledger' = ledger /\ reply' = [reply EXCEPT ![p] = NoReply]
      BY <2>5 DEF WriteResult
    <3> QED
      BY <2>1, <3>1, <3>2 DEF TypeOK
  <2>6. CASE Extract(p)
    BY <1>2, <1>3, <2>6, ExtractLedger
  <2>7. CASE Context(p)
    BY <1>2, <1>3, <2>7, ContextLedger
  <2>8. CASE Call(p)
    BY <1>2, <2>8, CallLedger
  <2>9. CASE WriteLedger(p)
    BY <1>2, <1>3, <2>9, WriteLedgerLedger
  <2> QED
    BY <2>2, <2>3, <2>4, <2>5, <2>6, <2>7, <2>8, <2>9 DEF Step
<1> QED
  BY <1>3, <1>4 DEF LedgerInv, LedgerNext, BasesWithin

LEMMA EmptyMonth ==
  ASSUME NEW u \in Users, ledger[u] = [d \in 1 .. Days |-> 0]
  PROVE  MonthTotal(u) = 0
<1> DEFINE z == [d \in 1 .. Days |-> 0]  g == [d \in 0 .. Days |-> 0]
<1>1. z \in [1 .. Days -> Nat] /\ 1 \in 1 .. Days /\ 0 \in Nat /\ ledger[u] = z
  OBVIOUS
<1>2. RaisedBy(z, z, 1, 0)
  BY DEF RaisedBy
<1>3. IsRunningTotal(g, z)
  <2>1. g = [d \in 0 .. Days |-> IF d = 0 THEN 0 ELSE g[d - 1] + z[d]]
    OBVIOUS
  <2> QED
    BY <2>1 DEF IsRunningTotal
<1>4. g[Days] = 0
  OBVIOUS
<1> HIDE DEF z, g
<1>5. PICK f : IsRunningTotal(f, ledger[u]) /\ MonthTotal(u) = f[Days]
  BY <1>1, MonthTotalIsTotal
<1>6. AreTotals(g, z, f, z, 1, 0)
  BY <1>1, <1>2, <1>3, <1>5 DEF AreTotals
<1>7. g[Days] \in Nat /\ f[Days] = g[Days] + 0
  BY <1>1, <1>6, RunningTotalsDiffer
<1> QED
  BY <1>4, <1>5, <1>7

-----------------------------------------------------------------------------
(* The theorems.                                                             *)

\* Everything a run keeps true whoever the sponsor is.
RunInv == TypeOK /\ Shape /\ Readings /\ Blame /\ CallsCounted /\ RunWithin

LEMMA InitRun == Init => RunInv
<1> SUFFICES ASSUME Init PROVE RunInv
  OBVIOUS
<1>1. TypeOK /\ Shape /\ Readings
  BY InitTypes, InitShape, InitReadings
<1>2. /\ phase = "idle" /\ calls = 0 /\ called = 0 /\ Ub = Closed /\ Sb = Closed
      /\ \A p \in Postings : wpc[p] = "off" /\ result[p] = "none"
  BY DEF Init, Each, Ub, Sb
<1>3. Cardinality(Calling) = 0 /\ Cardinality(Committed) = 0
  <2>1. Calling = {} /\ Committed = {}
    BY <1>2 DEF Calling, Committed
  <2> QED
    BY <2>1, FS_EmptySet
<1>4. Blame
  BY <1>2 DEF Blame
<1>5. CallsCounted
  BY <1>2, <1>3, ConstantTypes DEF CallsCounted
<1>6. RunWithin
  <2>1. Closed.spent = 0 /\ RunCap \in Nat /\ MaxTokens \in Nat /\ Overshoot \in Nat /\ 0 \in Nat
    BY ClosedBudget, ConstantTypes, TokenBounds, PoolSpends
  <2>2. Room(0, 0, 0, RunCap)
    BY <2>1, RoomAtStart
  <2>3. Within(0, RunCap)
    BY <1>2, <1>3, <2>1, <2>2 DEF Within
  <2> QED
    BY <1>2, <2>1, <2>3 DEF RunWithin
<1> QED
  BY <1>1, <1>4, <1>5, <1>6 DEF RunInv

LEMMA RunInvStep == RunInv /\ [Next]_vars => RunInv'
<1> SUFFICES ASSUME RunInv, [Next]_vars
             PROVE  RunInv'
  OBVIOUS
<1>0. TypeOK /\ Shape /\ Readings /\ Blame /\ CallsCounted /\ RunWithin
  BY DEF RunInv
<1>1. CASE \/ StartRerate \/ StartScrape \/ ResolveSponsor \/ StartContext \/ Merge \/ FinishRerate
           \/ FinishScrape \/ Release \/ Crash \/ EditGoal \/ NewDay \/ UNCHANGED vars
  <2>1. TypeOK'
    BY <1>0, <1>1, RunTypesStep
  <2>2. Shape'
    BY <1>0, <1>1, RunShapeStep
  <2>3. Readings'
    BY <1>0, <1>1, RunReadingsStep
  <2>4. Blame'
    BY <1>0, <1>1, RunBlameStep
  <2>5. CallsCounted'
    BY <1>0, <1>1, RunCallsStep
  <2>6. RunWithin'
    BY <1>0, <1>1, RunWithinStep
  <2> QED
    BY <2>1, <2>2, <2>3, <2>4, <2>5, <2>6 DEF RunInv
<1>2. ASSUME NEW p \in Postings, Step(p) PROVE RunInv'
  <2>1. TypeOK'
    BY <1>0, <1>2, StepTypes
  <2>2. Shape'
    BY <1>0, <1>2, StepShape
  <2>3. Readings'
    BY <1>0, <1>2, StepReadings
  <2>4. Blame'
    BY <1>0, <1>2, StepBlame
  <2>5. CallsCounted'
    BY <1>0, <1>2, StepCalls
  <2>6. RunWithin'
    BY <1>0, <1>2, <2>2, StepWithin
  <2> QED
    BY <2>1, <2>2, <2>3, <2>4, <2>5, <2>6 DEF RunInv
<1> QED
  BY <1>1, <1>2 DEF Next, RunStep

\* The inductive invariant of the runs: types, phases and pool, readings, what a
\* run blames, and the caps of one run.
THEOREM RunInvariant == Spec => []RunInv
<1> QED
  BY InitRun, RunInvStep, PTL DEF Spec

\* Every variable has its type; the call cap of rerate.go (callCap) holds, and a
\* run ends less than one pool of calls over its own token cap (aiBudget).
THEOREM RunCapsHold == Spec => [](TypeOK /\ CallCapHolds /\ RunCapHolds)
<1>1. ASSUME RunInv PROVE TypeOK /\ CallCapHolds /\ RunCapHolds
  <2>1. TypeOK /\ Shape /\ CallsCounted /\ RunWithin
    BY <1>1 DEF RunInv
  <2>2. Calling \in SUBSET Postings /\ called \in Nat /\ calls \in Nat /\ PerCallCap \in Nat
    BY <2>1, ConstantTypes DEF Calling, TypeOK
  <2>3. Cardinality(Calling) \in Nat
    BY <2>2, PostingSetsFinite
  <2>4. CallCapHolds
    BY <2>1, <2>2, <2>3 DEF CallsCounted, CallCapHolds
  <2>5. Room(0, Ub.spent, Cardinality(Committed), RunCap)
    BY <2>1 DEF RunWithin, Within
  <2>6. Ub.spent \in Nat /\ RunCap \in Nat /\ Cardinality(Committed) \in Nat /\ Cardinality(Committed) <= Workers
    BY <2>1, CommittedInPool, ConstantTypes DEF TypeOK, Budgets, Ub
  <2>7. RunCap > 0 => 0 + Ub.spent < RunCap + Overshoot
    BY <2>5, <2>6, RoomMeans
  <2>8. RunCapHolds
    BY <2>1, <2>6, <2>7 DEF RunCapHolds, RunWithin, Ub, Sb
  <2> QED
    BY <2>1, <2>4, <2>8
<1> QED
  BY <1>1, RunInvariant, PTL

\* rerate.go reratePosting and runRerate, ai_score_outcomes.go: a posting counted
\* as analyzed has its reading and its provenance stored, a re-rate that says
\* done has merged every reading, and provenance never contradicts a reading.
THEOREM RunsKeepReadings == Spec => []ReadingsKept
<1>1. RunInv => ReadingsKept
  BY DEF RunInv, Readings
<1> QED
  BY <1>1, RunInvariant, PTL

\* rerate.go runRerate: the limit is blamed for a missing reading only when the
\* call cap or a token cap stopped the run.
THEOREM RunsBlameRightly == Spec => []LimitBlamedRightly
<1>1. RunInv => LimitBlamedRightly
  BY BlameIsRight DEF RunInv
<1> QED
  BY <1>1, RunInvariant, PTL

\* rerate.go reratePosting, rateStage2: the provider is never asked about a
\* posting whose reading is stored, whatever crashes, failures and repeated
\* presses came before.
THEOREM RunsSpendOnce == Spec => NoDoubleSpend
<1>1. ASSUME RunInv
      PROVE  \A p \in Postings : Calls(p) => row[p] = "none" /\ (kind = "fresh" => outcome[p] # "rejected")
  BY <1>1, AskedOnce DEF RunInv
<1>2. RunInv /\ [Next]_vars =>
        [\A p \in Postings : Calls(p) => row[p] = "none" /\ (kind = "fresh" => outcome[p] # "rejected")]_vars
  BY <1>1
<1> QED
  BY <1>2, RunInvariant, PTL DEF Spec, NoDoubleSpend

LEMMA InitLedger == Init => LedgerInv
<1> SUFFICES ASSUME Init PROVE LedgerInv
  OBVIOUS
<1>1. /\ Ub = Closed /\ Sb = Closed /\ \A p \in Postings : wpc[p] = "off"
      /\ \A u \in Users : ledger[u] = [d \in 1 .. Days |-> 0]
  BY DEF Init, Each, Ub, Sb
<1>2. Closed.spent = 0 /\ Closed.dayStart = 0 /\ Closed.monthStart = 0 /\ ~Closed.open
  BY DEF Closed
<1>3. DailyCap \in Nat /\ MonthlyCap \in Nat /\ Overshoot \in Nat /\ 0 \in Nat
  BY ConstantTypes, PoolSpends
<1>4. Cardinality(Committed) = 0 /\ Recording = {}
  <2>1. Committed = {} /\ Recording = {}
    BY <1>1 DEF Committed, Recording
  <2> QED
    BY <2>1, FS_EmptySet
<1>5. Room(0, 0, 0, DailyCap) /\ Room(0, 0, 0, MonthlyCap)
  BY <1>3, RoomAtStart
<1>6. Within(Ub.dayStart, DailyCap) /\ Within(Ub.monthStart, MonthlyCap)
  BY <1>1, <1>2, <1>4, <1>5 DEF Within
<1>7. Unledgered
  <2>1. [q \in Postings |-> 0] \in [Postings -> Nat]
    OBVIOUS
  <2> QED
    BY <1>4, <2>1 DEF Unledgered, Packed
<1>8. DailyCapHolds
  <2>1. \A u \in Users, d \in 1 .. Days : ledger[u][d] = 0
    BY <1>1
  <2> QED
    BY <1>3, <2>1 DEF DailyCapHolds
<1>9. MonthlyCapHolds
  <2>1. \A u \in Users : MonthTotal(u) = 0
    BY <1>1, EmptyMonth
  <2> QED
    BY <1>3, <2>1 DEF MonthlyCapHolds
<1> QED
  BY <1>1, <1>2, <1>3, <1>6, <1>7, <1>8, <1>9 DEF LedgerInv, LedgerFollows

LEMMA LedgerInvStep ==
  User # Sponsor => (RunInv /\ RunInv' /\ LedgerInv /\ [Next]_vars => LedgerInv')
<1> SUFFICES ASSUME User # Sponsor, RunInv, RunInv', LedgerInv, [Next]_vars
             PROVE  LedgerInv'
  OBVIOUS
<1>0. TypeOK /\ Shape /\ TypeOK' /\ Shape'
  BY DEF RunInv
<1>1. CASE \/ StartRerate \/ StartScrape \/ ResolveSponsor \/ StartContext \/ Merge \/ FinishRerate
           \/ FinishScrape \/ Release \/ Crash \/ EditGoal \/ NewDay \/ UNCHANGED vars
  BY <1>0, <1>1, RunLedgerStep
<1>2. ASSUME NEW p \in Postings, Step(p) PROVE LedgerInv'
  BY <1>0, <1>2, StepLedger
<1> QED
  BY <1>1, <1>2 DEF Next, RunStep

\* server.go aiBudget: when the user is not the sponsor, the daily and the
\* monthly caps hold across runs, crashes, failed writes and midnights but for
\* the calls of one pool, as long as the ledger could be read.
THEOREM LedgerCapsHold == ASSUME User # Sponsor PROVE Spec => []CapsHold
<1>1. RunInv /\ RunInv' /\ LedgerInv /\ [Next]_vars => LedgerInv'
  BY LedgerInvStep
<1>2. Spec => []LedgerInv
  BY <1>1, InitLedger, RunInvariant, PTL DEF Spec
<1>3. LedgerInv => DailyCapHolds /\ MonthlyCapHolds
  BY DEF LedgerInv, DailyCapHolds, MonthlyCapHolds
<1>4. TypeOK /\ CallCapHolds /\ RunCapHolds /\ DailyCapHolds /\ MonthlyCapHolds => CapsHold
  BY DEF CapsHold
<1> QED
  BY <1>2, <1>3, <1>4, RunCapsHold, PTL

\* The monthly cap of server.go aiBudget by itself: the sum over all days of the
\* month of what a user's calls were recorded to use.
THEOREM MonthlyCapAlwaysHolds == ASSUME User # Sponsor PROVE Spec => []MonthlyCapHolds
<1>1. CapsHold => MonthlyCapHolds
  BY DEF CapsHold
<1> QED
  BY <1>1, LedgerCapsHold, PTL

=============================================================================
