--------------------------- MODULE ListPartsProofs ---------------------------
(***************************************************************************)
(* Theorems of the three parts that walk lists: LoginThrottle, Boards and  *)
(* Scoring (with BoardFilters and ModelAnswers), each for every value of   *)
(* its constants.  First what the loops of Lists return, by induction over *)
(* the length of a list; then a section for each part, with an invariant   *)
(* of its own.                                                             *)
(***************************************************************************)
EXTENDS LoginThrottle, Boards, Scoring, SequenceTheorems, FiniteSetTheorems, WellFoundedInduction, TLAPS

-----------------------------------------------------------------------------
(* Lists.                                                                  *)

LEMMA LeastNumber ==
  ASSUME NEW N \in SUBSET Nat, N # {}
  PROVE  \E n \in N : \A m \in N : n <= m
<1> DEFINE Less == {ss \in Nat \X Nat : ss[1] < ss[2]}
<1>1. IsWellFoundedOn(Less, Nat)
  BY NatLessThanWellFounded DEF OpToRel
<1> HIDE DEF Less
<1>2. PICK n \in N : \A m \in N : ~ (<<m, n>> \in Less)
  BY <1>1, WFMin
<1>3. \A a, b \in Nat : a < b => <<a, b>> \in Less
  BY DEF Less
<1>4. n \in Nat /\ \A m \in N : m \in Nat /\ ~ (m < n)
  BY <1>2, <1>3
<1> QED
  BY <1>4

\* The lists after each entry, as the recursive definition has them up to the n-th.
Walks(s, stay, n, f) ==
  f = [j \in 0 .. n |->
         IF j = 0 THEN <<>> ELSE IF s[j] \in stay THEN Append(f[j - 1], s[j]) ELSE f[j - 1]]

LEMMA WalkExists ==
  ASSUME NEW s, NEW stay, NEW n \in Nat
  PROVE  \E f : Walks(s, stay, n, f)
<1> DEFINE Bad == {m \in Nat : ~ \E f : Walks(s, stay, m, f)}
<1>1. SUFFICES ASSUME Bad # {} PROVE FALSE
  OBVIOUS
<1>2. PICK m \in Bad : \A i \in Bad : m <= i
  BY <1>1, LeastNumber
<1>3. CASE m = 0
  <2> DEFINE f == [j \in 0 .. 0 |-> <<>>]
  <2>1. Walks(s, stay, 0, f)
    BY DEF Walks
  <2> QED
    BY <2>1, <1>2, <1>3
<1>4. CASE m # 0
  <2>1. m - 1 \in Nat /\ m - 1 \notin Bad
    BY <1>2, <1>4
  <2>2. PICK f : Walks(s, stay, m - 1, f)
    BY <2>1
  <2> DEFINE next == IF s[m] \in stay THEN Append(f[m - 1], s[m]) ELSE f[m - 1]
             g == [j \in 0 .. m |-> IF j = m THEN next ELSE f[j]]
  <2>3. m \in Nat /\ m > 0
    BY <1>2, <1>4
  <2> HIDE DEF next
  <2>4. \A j \in 0 .. m - 1 : g[j] = f[j]
    BY <2>3
  <2>5. g[m] = next
    BY <2>3
  <2>6. \A j \in 0 .. m - 1 :
          f[j] = IF j = 0 THEN <<>> ELSE IF s[j] \in stay THEN Append(f[j - 1], s[j]) ELSE f[j - 1]
    BY <2>2 DEF Walks
  <2>7. \A j \in 0 .. m :
          g[j] = IF j = 0 THEN <<>> ELSE IF s[j] \in stay THEN Append(g[j - 1], s[j]) ELSE g[j - 1]
    <3>1. TAKE j \in 0 .. m
    <3> HIDE DEF g
    <3>2. CASE j = m
      <4>1. g[j - 1] = f[m - 1] /\ j # 0
        BY <3>2, <2>3, <2>4
      <4> QED
        BY <3>2, <4>1, <2>5 DEF next
    <3>3. CASE j # m /\ j # 0
      <4>1. g[j] = f[j] /\ g[j - 1] = f[j - 1]
        BY <3>3, <2>3, <2>4
      <4> QED
        BY <4>1, <2>6, <3>3, <2>3
    <3>4. CASE j = 0
      BY <3>4, <2>3, <2>4, <2>6
    <3> QED
      BY <3>2, <3>3, <3>4
  <2>8. Walks(s, stay, m, g)
    <3>1. g = [j \in 0 .. m |-> g[j]]
      OBVIOUS
    <3> HIDE DEF g
    <3> QED
      BY <3>1, <2>7 DEF Walks
  <2> QED
    BY <2>8, <1>2
<1> QED
  BY <1>3, <1>4

\* Which entry of s is the i-th of what is left, in order.
Chosen(s, stay, n, left, pos) ==
  /\ pos \in [1 .. Len(left) -> 1 .. n]
  /\ \A i, j \in 1 .. Len(left) : i < j => pos[i] < pos[j]
  /\ \A i \in 1 .. Len(left) : left[i] = s[pos[i]] /\ left[i] \in stay
  /\ \A h \in 1 .. n : s[h] \in stay => \E i \in 1 .. Len(left) : pos[i] = h

\* The n-th entry of s comes after what is left of those before it.
ChoosesNext(S, s, stay, n, left, next) ==
  /\ n > 0 /\ s \in Seq(S) /\ left \in Seq(S) /\ Len(left) <= n - 1 /\ s[n] \in S
  /\ \E pos : Chosen(s, stay, n - 1, left, pos)
  /\ next = IF s[n] \in stay THEN Append(left, s[n]) ELSE left

LEMMA ChosenNext ==
  ASSUME NEW S, NEW s, NEW stay, NEW n \in Nat, NEW left, NEW next, ChoosesNext(S, s, stay, n, left, next)
  PROVE  next \in Seq(S) /\ Len(next) <= n /\ \E p : Chosen(s, stay, n, next, p)
<1>a. PICK pos : Chosen(s, stay, n - 1, left, pos)
  BY DEF ChoosesNext
<1>b. /\ n > 0 /\ s \in Seq(S) /\ left \in Seq(S) /\ Len(left) <= n - 1 /\ s[n] \in S
      /\ next = IF s[n] \in stay THEN Append(left, s[n]) ELSE left
  BY DEF ChoosesNext
<1>0. Len(left) \in Nat /\ DOMAIN left = 1 .. Len(left)
  BY <1>b
<1>1. CASE s[n] \notin stay
  <2>1. next = left
    BY <1>1, <1>b
  <2>2. Chosen(s, stay, n, left, pos)
    <3>1. pos \in [1 .. Len(left) -> 1 .. n]
      BY <1>0, <1>a, <1>b DEF Chosen
    <3>2. ASSUME NEW h \in 1 .. n, s[h] \in stay PROVE \E i \in 1 .. Len(left) : pos[i] = h
      <4>1. h \in 1 .. n - 1
        BY <3>2, <1>1, <1>b
      <4> QED
        BY <4>1, <3>2, <1>a DEF Chosen
    <3> QED
      BY <3>1, <3>2, <1>a DEF Chosen
  <2> QED
    BY <1>b, <2>1, <2>2
<1>2. CASE s[n] \in stay
  <2> DEFINE k == Len(left) + 1
             p == [i \in 1 .. k |-> IF i = k THEN n ELSE pos[i]]
  <2>1. next = Append(left, s[n])
    BY <1>2, <1>b
  <2>2. /\ next \in Seq(S) /\ Len(next) = k /\ next[k] = s[n]
        /\ \A i \in 1 .. Len(left) : next[i] = left[i]
    <3>1. left \in Seq(S) /\ s[n] \in S
      BY <1>b
    <3> QED
      BY <2>1, <3>1
  <2>3. /\ p \in [1 .. k -> 1 .. n] /\ p[k] = n /\ \A i \in 1 .. Len(left) : p[i] = pos[i] /\ pos[i] \in 1 .. n - 1
    <3>1. \A i \in 1 .. Len(left) : pos[i] \in 1 .. n - 1
      BY <1>a DEF Chosen
    <3>2. \A i \in 1 .. k : i # k => i \in 1 .. Len(left)
      BY <1>0
    <3>3. n \in 1 .. n /\ k \in 1 .. k /\ \A x \in 1 .. n - 1 : x \in 1 .. n
      BY <1>0, <1>b
    <3>4. \A i \in 1 .. k : p[i] \in 1 .. n
      BY <3>1, <3>2, <3>3
    <3>5. \A i \in 1 .. Len(left) : i \in 1 .. k /\ i # k
      BY <1>0
    <3> QED
      BY <3>1, <3>3, <3>4, <3>5
  <2> HIDE DEF p
  <2>4. \A i, j \in 1 .. k : i < j => p[i] < p[j]
    <3>1. TAKE i, j \in 1 .. k
    <3>2. HAVE i < j
    <3>3. i \in 1 .. Len(left)
      BY <3>2, <1>0
    <3>4. CASE j = k
      BY <3>3, <3>4, <2>3, <1>b
    <3>5. CASE j # k
      <4>1. j \in 1 .. Len(left)
        BY <3>5, <1>0
      <4> QED
        BY <3>2, <3>3, <4>1, <2>3, <1>a DEF Chosen
    <3> QED
      BY <3>4, <3>5
  <2>5. \A i \in 1 .. k : next[i] = s[p[i]] /\ next[i] \in stay
    <3>1. TAKE i \in 1 .. k
    <3>2. CASE i = k
      BY <3>2, <2>2, <2>3, <1>2
    <3>3. CASE i # k
      <4>1. i \in 1 .. Len(left)
        BY <3>3, <1>0
      <4> QED
        BY <4>1, <2>2, <2>3, <1>a DEF Chosen
    <3> QED
      BY <3>2, <3>3
  <2>6. \A h \in 1 .. n : s[h] \in stay => \E i \in 1 .. k : p[i] = h
    <3>1. TAKE h \in 1 .. n
    <3>2. HAVE s[h] \in stay
    <3>3. CASE h = n
      <4>1. k \in 1 .. k
        BY <1>0
      <4> QED
        BY <4>1, <3>3, <2>3
    <3>4. CASE h # n
      <4>1. h \in 1 .. n - 1
        BY <3>4, <1>b
      <4>2. PICK i \in 1 .. Len(left) : pos[i] = h
        BY <4>1, <3>2, <1>a DEF Chosen
      <4>3. i \in 1 .. k /\ p[i] = h
        BY <4>2, <2>3, <1>0
      <4> QED
        BY <4>3
    <3> QED
      BY <3>3, <3>4
  <2>7. Chosen(s, stay, n, next, p)
    BY <2>2, <2>3, <2>4, <2>5, <2>6 DEF Chosen
  <2>8. Len(next) <= n
    BY <2>2, <1>0, <1>b
  <2> QED
    BY <2>2, <2>7, <2>8
<1> QED
  BY <1>1, <1>2

LEMMA WalkChooses ==
  ASSUME NEW S, NEW s \in Seq(S), NEW stay, NEW w, Walks(s, stay, Len(s), w), NEW n \in 0 .. Len(s)
  PROVE  w[n] \in Seq(S) /\ Len(w[n]) <= n /\ \E pos : Chosen(s, stay, n, w[n], pos)
<1> DEFINE Good(m) == w[m] \in Seq(S) /\ Len(w[m]) <= m /\ \E pos : Chosen(s, stay, m, w[m], pos)
           Bad == {m \in 0 .. Len(s) : ~ Good(m)}
<1>0. Len(s) \in Nat /\ DOMAIN s = 1 .. Len(s)
  OBVIOUS
<1>w. \A j \in 0 .. Len(s) : w[j] = IF j = 0 THEN <<>> ELSE IF s[j] \in stay THEN Append(w[j - 1], s[j]) ELSE w[j - 1]
  BY DEF Walks
<1>1. SUFFICES ASSUME Bad # {} PROVE FALSE
  OBVIOUS
<1>2. PICK m \in Bad : \A i \in Bad : m <= i
  <2>1. Bad \in SUBSET Nat
    BY <1>0
  <2> HIDE DEF Bad
  <2> QED
    BY <1>1, <2>1, LeastNumber
<1>3. CASE m = 0
  <2>1. w[0] = <<>>
    BY <1>w, <1>0
  <2>2. w[0] \in Seq(S) /\ Len(w[0]) = 0
    BY <2>1
  <2>3. Chosen(s, stay, 0, w[0], [i \in 1 .. 0 |-> 0])
    BY <2>2 DEF Chosen
  <2> QED
    BY <1>2, <1>3, <2>2, <2>3
<1>4. CASE m # 0
  <2>1. m - 1 \in 0 .. Len(s) /\ m \in 1 .. Len(s) /\ m \in Nat /\ m > 0
    BY <1>0, <1>2, <1>4
  <2>2. Good(m - 1)
    <3>1. m - 1 \notin Bad
      BY <1>2, <2>1
    <3> QED
      BY <3>1, <2>1
  <2>3. w[m] = IF s[m] \in stay THEN Append(w[m - 1], s[m]) ELSE w[m - 1]
    BY <1>w, <2>1
  <2>4. PICK pos : Chosen(s, stay, m - 1, w[m - 1], pos)
    BY <2>2
  <2>5. s[m] \in S
    BY <2>1
  <2>6. w[m] \in Seq(S) /\ Len(w[m]) <= m /\ \E p : Chosen(s, stay, m, w[m], p)
    <3>1. w[m - 1] \in Seq(S) /\ Len(w[m - 1]) <= m - 1
      BY <2>2
    <3>2. ChoosesNext(S, s, stay, m, w[m - 1], w[m])
      BY <3>1, <2>1, <2>3, <2>4, <2>5 DEF ChoosesNext
    <3> HIDE DEF Good, Bad
    <3> QED
      BY <3>2, <2>1, ChosenNext, Zenon
  <2> QED
    BY <2>6, <1>2
<1> QED
  BY <1>3, <1>4

LEMMA KeptFacts ==
  ASSUME NEW S, NEW s \in Seq(S), NEW stay
  PROVE  /\ EntriesKept(s, stay) \in Seq(S) /\ Len(EntriesKept(s, stay)) <= Len(s)
         /\ \E pos : Chosen(s, stay, Len(s), EntriesKept(s, stay), pos)
<1> DEFINE w == CHOOSE f : f = [j \in 0 .. Len(s) |->
                  IF j = 0 THEN <<>> ELSE IF s[j] \in stay THEN Append(f[j - 1], s[j]) ELSE f[j - 1]]
<1>1. Walks(s, stay, Len(s), w)
  <2>1. \E f : Walks(s, stay, Len(s), f)
    <3>1. Len(s) \in Nat
      OBVIOUS
    <3> QED
      BY <3>1, WalkExists
  <2> QED
    BY <2>1, Zenon DEF Walks
<1>2. EntriesKept(s, stay) = w[Len(s)]
  BY DEF EntriesKept
<1> HIDE DEF w
<1>3. Len(s) \in 0 .. Len(s)
  OBVIOUS
<1> QED
  BY <1>1, <1>2, <1>3, WalkChooses

LEMMA KeptRange ==
  ASSUME NEW S, NEW s \in Seq(S), NEW stay
  PROVE  LET k == EntriesKept(s, stay)
         IN  /\ k \in Seq(S) /\ Len(k) <= Len(s) /\ Range(k) = Range(s) \cap stay
             /\ IsInjective(s) => IsInjective(k)
             /\ Range(s) \subseteq stay => Len(k) = Len(s)
<1> DEFINE k == EntriesKept(s, stay)
<1>1. k \in Seq(S) /\ Len(k) <= Len(s)
  BY KeptFacts
<1>2. PICK pos : Chosen(s, stay, Len(s), k, pos)
  BY KeptFacts
<1> HIDE DEF k
<1>3. DOMAIN k = 1 .. Len(k) /\ DOMAIN s = 1 .. Len(s) /\ Len(s) \in Nat /\ Len(k) \in Nat
  BY <1>1
<1>4. /\ \A i \in DOMAIN k : k[i] \in stay /\ pos[i] \in DOMAIN s /\ k[i] = s[pos[i]]
      /\ \A h \in DOMAIN s : s[h] \in stay => \E i \in DOMAIN k : pos[i] = h
      /\ \A i, j \in DOMAIN k : i < j => pos[i] < pos[j]
  BY <1>2, <1>3 DEF Chosen
<1>5. Range(k) = Range(s) \cap stay
  <2>1. \A x \in Range(k) : x \in Range(s) /\ x \in stay
    BY <1>4, Zenon DEF Range
  <2>2. ASSUME NEW x \in Range(s), x \in stay PROVE x \in Range(k)
    <3>1. PICK h \in DOMAIN s : x = s[h]
      BY DEF Range
    <3>2. PICK i \in DOMAIN k : pos[i] = h
      BY <1>4, <2>2, <3>1
    <3> QED
      BY <1>4, <3>1, <3>2 DEF Range
  <2> QED
    BY <2>1, <2>2
<1>6. ASSUME IsInjective(s) PROVE IsInjective(k)
  <2> SUFFICES ASSUME NEW i \in DOMAIN k, NEW j \in DOMAIN k, k[i] = k[j] PROVE i = j
    BY DEF IsInjective
  <2>1. pos[i] = pos[j]
    BY <1>4, <1>6 DEF IsInjective
  <2>2. i \in Nat /\ j \in Nat /\ pos[i] \in Nat
    BY <1>3, <1>4
  <2>3. ~ (i < j) /\ ~ (j < i)
    BY <1>4, <2>1, <2>2
  <2> QED
    BY <2>2, <2>3
<1>7. ASSUME Range(s) \subseteq stay PROVE Len(k) = Len(s)
  <2>1. \A h \in DOMAIN s : s[h] \in stay
    BY <1>7 DEF Range
  <2> DEFINE f == [i \in 1 .. Len(k) |-> pos[i]]
  <2>2. f \in Surjection(1 .. Len(k), 1 .. Len(s))
    BY <2>1, <1>3, <1>4 DEF Surjection
  <2>3. IsFiniteSet(1 .. Len(k)) /\ Cardinality(1 .. Len(k)) = Len(k) /\ Cardinality(1 .. Len(s)) = Len(s)
    <3>1. Len(k) \in Int /\ Len(s) \in Int /\ 1 \in Int
      BY <1>3
    <3>2. /\ Cardinality(1 .. Len(k)) = IF 1 > Len(k) THEN 0 ELSE Len(k) - 1 + 1
          /\ Cardinality(1 .. Len(s)) = IF 1 > Len(s) THEN 0 ELSE Len(s) - 1 + 1
          /\ IsFiniteSet(1 .. Len(k))
      BY <3>1, FS_Interval
    <3> QED
      BY <3>2, <1>3
  <2>4. Cardinality(1 .. Len(s)) <= Cardinality(1 .. Len(k))
    BY <2>2, <2>3, FS_Surjection
  <2> QED
    BY <2>3, <2>4, <1>1, <1>3
<1> QED
  BY <1>1, <1>5, <1>6, <1>7 DEF k

\* What holds at 0 and from one number to the next holds up to n.
LEMMA UpTo ==
  ASSUME NEW n \in Nat, NEW G, 0 \in G, \A j \in 1 .. n : j - 1 \in G => j \in G
  PROVE  \A j \in 0 .. n : j \in G
<1> DEFINE Bad == {j \in 0 .. n : j \notin G}
<1>1. SUFFICES ASSUME Bad # {} PROVE FALSE
  OBVIOUS
<1>2. PICK m \in Bad : \A i \in Bad : m <= i
  <2>1. Bad \in SUBSET Nat
    OBVIOUS
  <2> HIDE DEF Bad
  <2> QED
    BY <1>1, <2>1, LeastNumber
<1>3. m \in 1 .. n /\ m - 1 \in 0 .. n /\ m - 1 \notin Bad
  BY <1>2
<1> QED
  BY <1>2, <1>3

\* The values of a recursive function over a list, one from the other.
Runs(f, D, base, step, n) == f \in [0 .. n -> D] /\ f[0] = base /\ \A j \in 1 .. n : f[j] = step[<<f[j - 1], j>>]

LEMMA Recursion ==
  ASSUME NEW D, NEW base \in D, NEW step \in [D \X Nat -> D], NEW n \in Nat
  PROVE  \E f : Runs(f, D, base, step, n)
<1> DEFINE G == {m \in Nat : \E f : Runs(f, D, base, step, m)}
<1>1. 0 \in G
  <2> DEFINE f == [j \in 0 .. 0 |-> base]
  <2>1. Runs(f, D, base, step, 0)
    BY DEF Runs
  <2> QED
    BY <2>1
<1>2. ASSUME NEW j \in 1 .. n, j - 1 \in G PROVE j \in G
  <2>1. PICK f : Runs(f, D, base, step, j - 1)
    BY <1>2
  <2>2. j \in Nat /\ j - 1 \in Nat /\ 0 \in 0 .. j - 1 /\ j - 1 \in 0 .. j - 1
    OBVIOUS
  <2>3. f[j - 1] \in D
    BY <2>1, <2>2 DEF Runs
  <2> DEFINE next == step[<<f[j - 1], j>>]
             g == [i \in 0 .. j |-> IF i = j THEN next ELSE f[i]]
  <2>4. next \in D
    BY <2>2, <2>3
  <2> HIDE DEF next
  <2>5. \A i \in 0 .. j - 1 : i \in 0 .. j /\ g[i] = f[i] /\ f[i] \in D
    BY <2>1, <2>2 DEF Runs
  <2>6. g[j] = next
    BY <2>2
  <2>7. g \in [0 .. j -> D]
    <3>1. \A i \in 0 .. j : i = j \/ i \in 0 .. j - 1
      BY <2>2
    <3>2. \A i \in 0 .. j : g[i] \in D
      BY <3>1, <2>4, <2>5, <2>6
    <3> QED
      BY <3>2
  <2> HIDE DEF g
  <2>8. \A i \in 1 .. j : g[i] = step[<<g[i - 1], i>>]
    <3>1. TAKE i \in 1 .. j
    <3>2. CASE i = j
      <4>1. g[i - 1] = f[j - 1]
        BY <3>2, <2>2, <2>5
      <4> QED
        BY <4>1, <3>2, <2>6 DEF next
    <3>3. CASE i # j
      <4>1. i \in 1 .. j - 1 /\ i \in 0 .. j - 1 /\ i - 1 \in 0 .. j - 1
        BY <3>3, <2>2
      <4>2. g[i] = f[i] /\ g[i - 1] = f[i - 1] /\ f[i] = step[<<f[i - 1], i>>]
        BY <4>1, <2>1, <2>5 DEF Runs
      <4> QED
        BY <4>2
    <3> QED
      BY <3>2, <3>3
  <2>9. g[0] = base
    BY <2>1, <2>2, <2>5 DEF Runs
  <2>10. Runs(g, D, base, step, j)
    BY <2>7, <2>8, <2>9 DEF Runs
  <2> QED
    BY <2>2, <2>10
<1> HIDE DEF G
<1>3. \A j \in 0 .. n : j \in G
  BY <1>1, <1>2, UpTo
<1>4. n \in 0 .. n
  OBVIOUS
<1> QED
  BY <1>3, <1>4 DEF G

-----------------------------------------------------------------------------
(* Totals.                                                                  *)

Sums(s, f) == f \in [0 .. Len(s) -> Int] /\ f[0] = 0 /\ \A j \in 1 .. Len(s) : f[j] = f[j - 1] + s[j]

LEMMA TotalSums ==
  ASSUME NEW s \in Seq(Int)
  PROVE  \E f : Sums(s, f) /\ Total(s) = f[Len(s)]
<1> DEFINE Is(f) == f = [j \in 0 .. Len(s) |-> IF j = 0 THEN 0 ELSE f[j - 1] + s[j]]
           w == CHOOSE f : Is(f)
           step == [x \in Int \X Nat |-> IF x[2] \in 1 .. Len(s) THEN x[1] + s[x[2]] ELSE 0]
<1>0. Len(s) \in Nat /\ \A j \in 1 .. Len(s) : s[j] \in Int
  OBVIOUS
<1>1. step \in [Int \X Nat -> Int]
  <2>1. \A x \in Int \X Nat : (IF x[2] \in 1 .. Len(s) THEN x[1] + s[x[2]] ELSE 0) \in Int
    <3>1. TAKE x \in Int \X Nat
    <3>2. x[1] \in Int
      OBVIOUS
    <3>3. CASE x[2] \in 1 .. Len(s)
      <4>1. s[x[2]] \in Int
        BY <3>3, <1>0
      <4> QED
        BY <3>2, <3>3, <4>1
    <3> QED
      BY <3>3
  <2> QED
    BY <2>1
<1>2. ASSUME NEW v \in Int, NEW j \in 1 .. Len(s) PROVE step[<<v, j>>] = v + s[j]
  <2> DEFINE x == <<v, j>>
  <2>1. x \in Int \X Nat /\ x[1] = v /\ x[2] = j
    BY <1>0
  <2> HIDE DEF x
  <2>2. step[x] = v + s[j]
    BY <2>1
  <2> QED
    BY <2>2 DEF x
<1> HIDE DEF step
<1>3. PICK f : Runs(f, Int, 0, step, Len(s))
  <2>1. 0 \in Int /\ Len(s) \in Nat
    BY <1>0
  <2> QED
    BY <2>1, <1>1, Recursion, Zenon
<1>4. Sums(s, f)
  <2>1. ASSUME NEW j \in 1 .. Len(s) PROVE f[j] = f[j - 1] + s[j]
    <3>1. j - 1 \in 0 .. Len(s)
      BY <1>0
    <3>2. f[j - 1] \in Int
      BY <3>1, <1>3 DEF Runs
    <3> QED
      BY <3>2, <1>2, <1>3 DEF Runs
  <2> QED
    BY <2>1, <1>3 DEF Runs, Sums
<1>5. Is(f)
  <2>1. \A j \in 0 .. Len(s) : f[j] = IF j = 0 THEN 0 ELSE f[j - 1] + s[j]
    <3>1. TAKE j \in 0 .. Len(s)
    <3>2. j = 0 \/ j \in 1 .. Len(s)
      BY <1>0
    <3> QED
      BY <3>2, <1>4 DEF Sums
  <2>2. f = [j \in 0 .. Len(s) |-> f[j]]
    BY <1>4 DEF Sums
  <2> QED
    BY <2>1, <2>2
<1>6. Is(w)
  <2> HIDE DEF Is
  <2> QED
    BY <1>5
<1>7. Total(s) = w[Len(s)]
  BY DEF Total
<1> HIDE DEF w
<1>8. w = f
  <2> DEFINE G == {j \in Nat : j \in 0 .. Len(s) => w[j] = f[j]}
  <2>1. 0 \in G
    BY <1>0, <1>5, <1>6
  <2>2. ASSUME NEW j \in 1 .. Len(s), j - 1 \in G PROVE j \in G
    <3>1. j \in 0 .. Len(s) /\ j - 1 \in 0 .. Len(s) /\ j # 0
      BY <1>0
    <3>2. w[j - 1] = f[j - 1]
      BY <2>2, <3>1
    <3>3. w[j] = w[j - 1] + s[j] /\ f[j] = f[j - 1] + s[j]
      BY <3>1, <1>5, <1>6
    <3> QED
      BY <3>1, <3>2, <3>3
  <2>3. \A j \in 0 .. Len(s) : j \in G
    <3> HIDE DEF G
    <3> QED
      BY <1>0, <2>1, <2>2, UpTo
  <2>4. \A j \in 0 .. Len(s) : w[j] = f[j]
    BY <2>3
  <2>5. w = [j \in 0 .. Len(s) |-> w[j]] /\ f = [j \in 0 .. Len(s) |-> f[j]]
    BY <1>5, <1>6
  <2> QED
    BY <2>4, <2>5
<1> QED
  BY <1>4, <1>7, <1>8

LEMMA TotalIsInt == ASSUME NEW s \in Seq(Int) PROVE Total(s) \in Int
<1>1. PICK f : Sums(s, f) /\ Total(s) = f[Len(s)]
  BY TotalSums
<1>2. Len(s) \in 0 .. Len(s)
  OBVIOUS
<1> QED
  BY <1>1, <1>2 DEF Sums

LEMMA TotalAppend ==
  ASSUME NEW s \in Seq(Int), NEW x \in Int
  PROVE  Total(Append(s, x)) = Total(s) + x
<1> DEFINE t == Append(s, x)
<1>1. /\ t \in Seq(Int) /\ Len(t) = Len(s) + 1 /\ Len(s) \in Nat /\ t[Len(t)] = x
      /\ \A j \in 1 .. Len(s) : t[j] = s[j]
  OBVIOUS
<1> HIDE DEF t
<1>2. PICK f : Sums(s, f) /\ Total(s) = f[Len(s)]
  BY TotalSums
<1>3. PICK g : Sums(t, g) /\ Total(t) = g[Len(t)]
  BY <1>1, TotalSums
<1> DEFINE G == {j \in Nat : j \in 0 .. Len(s) => g[j] = f[j]}
<1>4. 0 \in G
  BY <1>1, <1>2, <1>3 DEF Sums
<1>5. ASSUME NEW j \in 1 .. Len(s), j - 1 \in G PROVE j \in G
  <2>1. j \in 1 .. Len(t) /\ j - 1 \in 0 .. Len(s) /\ j \in 0 .. Len(s)
    BY <1>1
  <2>2. g[j - 1] = f[j - 1]
    BY <1>5, <2>1
  <2>3. g[j] = g[j - 1] + t[j] /\ f[j] = f[j - 1] + s[j] /\ t[j] = s[j]
    BY <2>1, <1>1, <1>2, <1>3 DEF Sums
  <2> QED
    BY <2>1, <2>2, <2>3
<1>6. Len(s) \in G
  <2>1. \A j \in 0 .. Len(s) : j \in G
    <3> HIDE DEF G
    <3> QED
      BY <1>1, <1>4, <1>5, UpTo
  <2>2. Len(s) \in 0 .. Len(s)
    BY <1>1
  <2> QED
    BY <2>1, <2>2
<1>7. g[Len(s)] = f[Len(s)]
  BY <1>6, <1>1
<1>8. Len(t) \in 1 .. Len(t) /\ Len(t) - 1 = Len(s)
  BY <1>1
<1>9. g[Len(t)] = g[Len(s)] + x
  BY <1>8, <1>3, <1>1 DEF Sums
<1> QED
  BY <1>2, <1>3, <1>7, <1>9 DEF t

LEMMA ShortTotals ==
  Total(<<>>) = 0 /\ \A x \in Int : Total(<<x>>) = x
<1>1. <<>> \in Seq(Int) /\ Len(<<>>) = 0
  OBVIOUS
<1>2. Total(<<>>) = 0
  <2>1. PICK f : Sums(<<>>, f) /\ Total(<<>>) = f[Len(<<>>)]
    BY <1>1, TotalSums
  <2> QED
    BY <2>1, <1>1 DEF Sums
<1>3. ASSUME NEW x \in Int PROVE Total(<<x>>) = x
  <2>1. <<x>> \in Seq(Int) /\ Len(<<x>>) = 1 /\ <<x>>[1] = x
    OBVIOUS
  <2>2. PICK f : Sums(<<x>>, f) /\ Total(<<x>>) = f[Len(<<x>>)]
    BY <2>1, TotalSums
  <2> QED
    BY <2>1, <2>2 DEF Sums
<1> QED
  BY <1>2, <1>3

LEMMA LeastOfTwo ==
  ASSUME NEW a \in Int, NEW b \in Int
  PROVE  Min({a, b}) = IF a <= b THEN a ELSE b
BY DEF Min

LEMMA GreatestOfTwo ==
  ASSUME NEW a \in Int, NEW b \in Int
  PROVE  Max({a, b}) = IF a >= b THEN a ELSE b
BY DEF Max

LEMMA ListOfSet ==
  ASSUME NEW S, IsFiniteSet(S)
  PROVE  /\ Cardinality(S) \in Nat /\ SetToSeq(S) \in [1 .. Cardinality(S) -> S]
         /\ \A i, j \in 1 .. Cardinality(S) : SetToSeq(S)[i] = SetToSeq(S)[j] => i = j
<1> DEFINE n == Cardinality(S)
<1>1. n \in Nat /\ ExistsBijection(1 .. n, S)
  BY FS_CardinalityType
<1>2. PICK f : f \in Bijection(1 .. n, S)
  BY <1>1 DEF ExistsBijection
<1>3. f \in [1 .. n -> S] /\ IsInjective(f)
  BY <1>2 DEF Bijection, Injection
<1>4. SetToSeq(S) \in [1 .. n -> S] /\ IsInjective(SetToSeq(S))
  BY <1>3, Zenon DEF SetToSeq
<1>5. DOMAIN SetToSeq(S) = 1 .. n
  BY <1>4
<1> QED
  BY <1>1, <1>4, <1>5 DEF IsInjective

-----------------------------------------------------------------------------
(* LoginThrottle.  The entries of a limiter stand in the order in which    *)
(* their windows end, one for a key, and agree with what was let through   *)
(* (Sound); the slots are those of the requests at work (SlotsCounted).    *)

Entries(l) == [key : ThrottleKeys(l), count : 1 .. MaxFailures, left : 0 .. ThrottleWindow]
Tally == [n : 0 .. MaxFailures, left : 0 .. ThrottleWindow]
GuestPlaces == {"outside", "ip", "pair", "slot", "work", "hash", "resetPair", "resetIP"}
ThrottleTypes ==
  /\ door \in Doors /\ knocks \in 0 .. MaxKnocks /\ ~ crowded
  /\ DOMAIN guest = Guests
  /\ \A c \in Guests : /\ guest[c] = [at |-> guest[c].at, name |-> guest[c].name]
                       /\ guest[c].at \in GuestPlaces /\ (guest[c].at # "outside" => guest[c].name \in Names)
  /\ DOMAIN attempts = Limiters /\ DOMAIN tried = Limiters /\ prune \in [Limiters -> 0 .. PruneEvery]

\* Entries stand in the order in which their windows end, one for a key.
InOrder(s) == \A i, j \in DOMAIN s : i < j => s[i].key # s[j].key /\ s[i].left <= s[j].left

\* What was let through in a running window is what its entry counts.
Remembers(s, t, K) ==
  /\ \A j \in DOMAIN s : Running(s[j]) => t[s[j].key] = [n |-> s[j].count, left |-> s[j].left]
  /\ \A k \in K : ~InWindow(s, k) => t[k] = Unused

\* A limiter's list s, and what t remembers of the attempts let through.
Sound(l, s, t) ==
  /\ s \in Seq(Entries(l)) /\ Len(s) <= MaxThrottled /\ InOrder(s)
  /\ t \in [ThrottleKeys(l) -> Tally] /\ Remembers(s, t, ThrottleKeys(l))
ListsSound == \A l \in Limiters : Sound(l, attempts[l], tried[l])

\* The slots are those of the requests at work.
Working == {c \in Guests : guest[c].at \in {"work", "hash"}}
SlotsCounted == slots = Cardinality(Working) /\ slots <= WorkSlots

ThrottleInv == ThrottleTypes /\ ListsSound /\ SlotsCounted

-----------------------------------------------------------------------------
(* What removing entries leaves of a list.                                 *)

\* Removing entries leaves those that stay, and their order.
Leaves(l, s, stay, left) ==
  /\ left \in Seq(Entries(l)) /\ Len(left) <= Len(s) /\ InOrder(left)
  /\ \A i \in DOMAIN left : left[i] \in stay /\ \E h \in DOMAIN s : left[i] = s[h]
  /\ \A h \in DOMAIN s : s[h] \in stay => \E i \in DOMAIN left : left[i] = s[h]

LEMMA KeptInOrder ==
  ASSUME NEW l, NEW s \in Seq(Entries(l)), InOrder(s), NEW stay
  PROVE  Leaves(l, s, stay, EntriesKept(s, stay))
<1> DEFINE left == EntriesKept(s, stay)
<1>1. left \in Seq(Entries(l)) /\ Len(left) <= Len(s)
  BY KeptFacts
<1>2. PICK pos : Chosen(s, stay, Len(s), left, pos)
  BY KeptFacts
<1> HIDE DEF left
<1>3. /\ DOMAIN left = 1 .. Len(left) /\ DOMAIN s = 1 .. Len(s) /\ Len(s) \in Nat
  BY <1>1
<1>4. \A i \in DOMAIN left : left[i] \in stay /\ pos[i] \in DOMAIN s /\ left[i] = s[pos[i]]
  BY <1>2, <1>3 DEF Chosen
<1>5. InOrder(left)
  <2> SUFFICES ASSUME NEW i \in DOMAIN left, NEW j \in DOMAIN left, i < j
               PROVE  left[i].key # left[j].key /\ left[i].left <= left[j].left
    BY DEF InOrder
  <2>1. pos[i] < pos[j]
    BY <1>2, <1>3 DEF Chosen
  <2> QED
    BY <2>1, <1>4 DEF InOrder
<1>6. ASSUME NEW h \in DOMAIN s, s[h] \in stay PROVE \E i \in DOMAIN left : left[i] = s[h]
  <2>1. h \in 1 .. Len(s)
    BY <1>3
  <2>2. PICK i \in 1 .. Len(left) : pos[i] = h
    BY <2>1, <1>6, <1>2 DEF Chosen
  <2>3. i \in DOMAIN left
    BY <1>3
  <2> QED
    BY <2>2, <2>3, <1>4
<1>7. Leaves(l, s, stay, left)
  BY <1>1, <1>4, <1>5, <1>6 DEF Leaves
<1> QED
  BY <1>7 DEF left

LEMMA SameKey ==
  ASSUME NEW l, NEW s \in Seq(Entries(l)), InOrder(s), NEW i \in DOMAIN s, NEW j \in DOMAIN s, s[i].key = s[j].key
  PROVE  i = j
<1>1. i \in Nat /\ j \in Nat
  OBVIOUS
<1> QED
  BY <1>1 DEF InOrder

\* pruneExpired takes only windows that are over.
LEMMA PrunedSound ==
  ASSUME NEW l, NEW s, NEW t, Sound(l, s, t)
  PROVE  Sound(l, EntriesKept(s, {a \in Range(s) : Running(a)}), t)
<1> DEFINE stay == {a \in Range(s) : Running(a)}
           left == EntriesKept(s, stay)
<1>1. s \in Seq(Entries(l)) /\ InOrder(s) /\ Len(s) <= MaxThrottled /\ MaxThrottled \in Nat /\ Len(s) \in Nat
  BY ThrottleAssumption DEF Sound
<1>2. /\ left \in Seq(Entries(l)) /\ Len(left) <= Len(s) /\ InOrder(left)
      /\ \A i \in DOMAIN left : left[i] \in stay /\ \E h \in DOMAIN s : left[i] = s[h]
      /\ \A h \in DOMAIN s : s[h] \in stay => \E i \in DOMAIN left : left[i] = s[h]
  <2>1. Leaves(l, s, stay, left)
    BY <1>1, KeptInOrder
  <2> QED
    BY <2>1 DEF Leaves
<1> HIDE DEF left
<1>3. Len(left) <= MaxThrottled
  BY <1>1, <1>2
<1>4. \A k : InWindow(left, k) <=> InWindow(s, k)
  BY <1>2 DEF InWindow, Range
<1>5. Remembers(left, t, ThrottleKeys(l))
  BY <1>2, <1>4 DEF Sound, Remembers
<1> QED
  BY <1>2, <1>3, <1>5 DEF Sound, left

\* Without a key, everything else stays.
LEMMA WithoutKey ==
  ASSUME NEW l, NEW s, NEW t, Sound(l, s, t), NEW k
  PROVE  /\ Without(s, k) \in Seq(Entries(l)) /\ Len(Without(s, k)) <= MaxThrottled /\ InOrder(Without(s, k))
         /\ \A i \in DOMAIN Without(s, k) :
              Without(s, k)[i].key # k /\ \E h \in DOMAIN s : Without(s, k)[i] = s[h]
         /\ \A h \in DOMAIN s : s[h].key # k => \E i \in DOMAIN Without(s, k) : Without(s, k)[i] = s[h]
<1> DEFINE stay == {a \in Range(s) : a.key # k}
           left == EntriesKept(s, stay)
<1>1. s \in Seq(Entries(l)) /\ InOrder(s) /\ Len(s) <= MaxThrottled /\ MaxThrottled \in Nat /\ Len(s) \in Nat
  BY ThrottleAssumption DEF Sound
<1>2. /\ left \in Seq(Entries(l)) /\ Len(left) <= Len(s) /\ InOrder(left)
      /\ \A i \in DOMAIN left : left[i] \in stay /\ \E h \in DOMAIN s : left[i] = s[h]
      /\ \A h \in DOMAIN s : s[h] \in stay => \E i \in DOMAIN left : left[i] = s[h]
  <2>1. Leaves(l, s, stay, left)
    BY <1>1, KeptInOrder
  <2> QED
    BY <2>1 DEF Leaves
<1>3. Without(s, k) = left
  BY DEF Without
<1> HIDE DEF left
<1>4. Len(left) <= MaxThrottled
  BY <1>1, <1>2
<1>5. \A h \in DOMAIN s : s[h].key # k => s[h] \in stay
  BY DEF Range
<1> QED
  BY <1>2, <1>3, <1>4, <1>5

LEMMA ResetSound ==
  ASSUME NEW l, NEW s, NEW t, Sound(l, s, t), NEW k \in ThrottleKeys(l)
  PROVE  Sound(l, Without(s, k), [t EXCEPT ![k] = Unused])
<1> DEFINE left == Without(s, k)
           u == [t EXCEPT ![k] = Unused]
<1>1. /\ left \in Seq(Entries(l)) /\ Len(left) <= MaxThrottled /\ InOrder(left)
      /\ \A i \in DOMAIN left : left[i].key # k /\ \E h \in DOMAIN s : left[i] = s[h]
      /\ \A h \in DOMAIN s : s[h].key # k => \E i \in DOMAIN left : left[i] = s[h]
  BY WithoutKey
<1>2. Unused \in Tally
  BY ThrottleAssumption DEF Unused, Tally
<1>3. u \in [ThrottleKeys(l) -> Tally] /\ u[k] = Unused /\ \A q \in ThrottleKeys(l) : q # k => u[q] = t[q]
  BY <1>2 DEF Sound
<1> HIDE DEF left, u
<1>4. \A i \in DOMAIN left : left[i].key \in ThrottleKeys(l)
  <2>1. \A i \in DOMAIN left : left[i] \in Entries(l)
    BY <1>1
  <2> QED
    BY <2>1 DEF Entries
<1>5. \A q : q # k => (InWindow(left, q) <=> InWindow(s, q))
  BY <1>1 DEF InWindow, Range
<1>6. ASSUME NEW i \in DOMAIN left, Running(left[i])
      PROVE  u[left[i].key] = [n |-> left[i].count, left |-> left[i].left]
  BY <1>1, <1>3, <1>4, <1>6 DEF Sound, Remembers
<1>7. ASSUME NEW q \in ThrottleKeys(l), ~ InWindow(left, q) PROVE u[q] = Unused
  BY <1>3, <1>5, <1>7 DEF Sound, Remembers
<1> QED
  BY <1>1, <1>3, <1>6, <1>7 DEF Sound, Remembers, left, u

\* A failure within the window is counted, in the entry and in what is remembered.
LEMMA CountedSound ==
  ASSUME NEW l, NEW s, NEW t, Sound(l, s, t), NEW k \in ThrottleKeys(l), InWindow(s, k), ~ Spent(s, k)
  PROVE  Sound(l, Counted(s, k), [t EXCEPT ![k] = Once(@)])
<1> DEFINE c == Counted(s, k)
           u == [t EXCEPT ![k] = Once(@)]
<1>1. /\ s \in Seq(Entries(l)) /\ DOMAIN s = 1 .. Len(s) /\ Len(s) \in Nat /\ InOrder(s)
      /\ MaxFailures \in Nat /\ ThrottleWindow \in Nat
  BY ThrottleAssumption DEF Sound
<1>2. PICK h \in DOMAIN s : s[h].key = k /\ Running(s[h]) /\ s[h].count < MaxFailures
  <2>1. \A j \in DOMAIN s : s[j].count \in 1 .. MaxFailures
    <3>1. \A j \in DOMAIN s : s[j] \in Entries(l)
      BY <1>1
    <3> QED
      BY <3>1 DEF Entries
  <2>2. PICK j \in DOMAIN s : s[j].key = k /\ Running(s[j]) /\ ~ (s[j].count >= MaxFailures)
    BY DEF InWindow, Spent, Range
  <2> QED
    BY <2>1, <2>2, <1>1
<1>3. \A j \in DOMAIN s : s[j].key = k => j = h
  BY <1>1, <1>2, SameKey
<1>4. \A j \in DOMAIN s : /\ s[j] \in Entries(l) /\ s[j].key \in ThrottleKeys(l)
                          /\ s[j].count \in 1 .. MaxFailures /\ s[j].left \in 0 .. ThrottleWindow
  <2>1. \A j \in DOMAIN s : s[j] \in Entries(l)
    BY <1>1
  <2> QED
    BY <2>1 DEF Entries
<1>5. /\ DOMAIN c = DOMAIN s
      /\ \A j \in DOMAIN s : j # h => c[j] = s[j]
      /\ c[h] = [key |-> k, count |-> s[h].count + 1, left |-> s[h].left]
  <2>1. DOMAIN c = DOMAIN s /\ \A j \in DOMAIN s : j # h => c[j] = s[j]
    BY <1>3 DEF Counted
  <2>2. c[h] = [s[h] EXCEPT !.count = @ + 1]
    BY <1>2 DEF Counted
  <2>3. s[h] \in Entries(l)
    BY <1>4
  <2>4. c[h] = [key |-> k, count |-> s[h].count + 1, left |-> s[h].left]
    BY <2>2, <2>3, <1>2 DEF Entries
  <2> QED
    BY <2>1, <2>4
<1> HIDE DEF c
<1>6. c[h] \in Entries(l)
  BY <1>2, <1>4, <1>5, <1>1 DEF Entries
<1>7. \A j \in DOMAIN s : c[j] \in Entries(l) /\ c[j].key = s[j].key /\ c[j].left = s[j].left
  BY <1>2, <1>4, <1>5, <1>6
<1>8. c \in Seq(Entries(l)) /\ Len(c) = Len(s)
  <2>1. c = [j \in 1 .. Len(s) |-> c[j]]
    BY <1>5, <1>1 DEF c, Counted
  <2> QED
    BY <2>1, <1>1, <1>7
<1>9. InOrder(c)
  BY <1>1, <1>5, <1>7 DEF InOrder
<1>10. t[k] = [n |-> s[h].count, left |-> s[h].left] /\ s[h].left > 0
  BY <1>2 DEF Sound, Remembers, Running
<1>11. Once(t[k]) = [n |-> s[h].count + 1, left |-> s[h].left] /\ s[h].count + 1 \in 0 .. MaxFailures
  BY <1>1, <1>2, <1>4, <1>10 DEF Once
<1>12. /\ u \in [ThrottleKeys(l) -> Tally] /\ u[k] = [n |-> s[h].count + 1, left |-> s[h].left]
       /\ \A q \in ThrottleKeys(l) : q # k => u[q] = t[q]
  <2>1. Once(t[k]) \in Tally
    BY <1>4, <1>11 DEF Tally
  <2> QED
    BY <2>1, <1>11 DEF Sound
<1> HIDE DEF u
<1>13. ASSUME NEW j \in DOMAIN c, Running(c[j]) PROVE u[c[j].key] = [n |-> c[j].count, left |-> c[j].left]
  <2>1. CASE j = h
    BY <2>1, <1>5, <1>12
  <2>2. CASE j # h
    <3>1. c[j] = s[j] /\ s[j].key # k /\ j \in DOMAIN s
      BY <2>2, <1>3, <1>5
    <3> QED
      BY <3>1, <1>4, <1>12, <1>13 DEF Sound, Remembers
  <2> QED
    BY <2>1, <2>2
<1>14. ASSUME NEW q \in ThrottleKeys(l), ~ InWindow(c, q) PROVE u[q] = Unused
  <2>1. q # k
    BY <1>14, <1>2, <1>5 DEF InWindow, Range, Running
  <2>2. ~ InWindow(s, q)
    BY <1>14, <1>5, <1>7 DEF InWindow, Range, Running
  <2> QED
    BY <2>1, <2>2, <1>12 DEF Sound, Remembers
<1>15. Len(c) <= MaxThrottled
  BY <1>8 DEF Sound
<1>16. Sound(l, c, u)
  BY <1>8, <1>9, <1>12, <1>13, <1>14, <1>15 DEF Sound, Remembers
<1> QED
  BY <1>16 DEF c, u

\* A new window: the entries that are left, and the new one behind them.
MakesRoom(l, s, k, d) ==
  /\ Opened(s, k) = Append(d, NewEntry(k)) /\ d \in Seq(Entries(l)) /\ Len(d) < MaxThrottled /\ InOrder(d)
  /\ \A i \in DOMAIN d : d[i].key # k /\ \E h \in DOMAIN s : d[i] = s[h]
  /\ \A h, g \in DOMAIN s : s[h].key # k /\ (\A i \in DOMAIN d : d[i] # s[h]) /\ s[g].key # k
                            => s[h].left <= s[g].left

LEMMA OpenedList ==
  ASSUME NEW l, NEW s, NEW t, Sound(l, s, t), NEW k \in ThrottleKeys(l)
  PROVE  \E d : MakesRoom(l, s, k, d)
<1> DEFINE rest == Without(s, k)
           d == IF Crowds(s, k) THEN Tail(rest) ELSE rest
<1>1. /\ rest \in Seq(Entries(l)) /\ Len(rest) <= MaxThrottled /\ InOrder(rest)
      /\ \A i \in DOMAIN rest : rest[i].key # k /\ \E h \in DOMAIN s : rest[i] = s[h]
      /\ \A h \in DOMAIN s : s[h].key # k => \E i \in DOMAIN rest : rest[i] = s[h]
  BY WithoutKey
<1>2. Opened(s, k) = Append(d, NewEntry(k))
  BY DEF Opened
<1>3. Crowds(s, k) <=> Len(rest) >= MaxThrottled
  BY DEF Crowds
<1>4. MaxThrottled \in Nat /\ MaxThrottled > 0 /\ Len(rest) \in Nat /\ DOMAIN rest = 1 .. Len(rest)
  BY <1>1, ThrottleAssumption
<1>5. \A i \in DOMAIN rest : rest[i].left \in Nat
  <2>1. \A i \in DOMAIN rest : rest[i] \in Entries(l)
    BY <1>1
  <2> QED
    BY <2>1, ThrottleAssumption DEF Entries
<1> HIDE DEF rest
<1>6. CASE Crowds(s, k)
  <2>1. d = Tail(rest) /\ rest # <<>> /\ Len(rest) = MaxThrottled
    <3>0. Len(rest) >= MaxThrottled
      BY <1>3, <1>6
    <3>1. Len(rest) = MaxThrottled
      <4>1. Len(rest) <= MaxThrottled
        BY <1>1, Zenon
      <4>2. Len(rest) \in Int /\ MaxThrottled \in Int
        BY <1>4
      <4>3. \A x, y \in Int : x <= y /\ x >= y => x = y
        OBVIOUS
      <4> QED
        BY <4>1, <4>2, <4>3, <3>0, Zenon
    <3>2. rest # <<>>
      BY <3>1, <1>4
    <3> QED
      BY <3>1, <3>2, <1>6
  <2>2. /\ d \in Seq(Entries(l)) /\ Len(d) = Len(rest) - 1 /\ DOMAIN d = 1 .. Len(rest) - 1
        /\ \A i \in 1 .. Len(rest) - 1 : d[i] = rest[i + 1]
    BY <2>1, <1>1, <1>4
  <2> HIDE DEF d
  <2>3. \A i \in 1 .. Len(rest) - 1 : i + 1 \in DOMAIN rest
    BY <1>4
  <2>a. \A i \in DOMAIN d : i + 1 \in DOMAIN rest /\ d[i] = rest[i + 1] /\ i \in Nat
    BY <2>2, <2>3, <1>4
  <2>4. InOrder(d)
    <3> SUFFICES ASSUME NEW i \in DOMAIN d, NEW j \in DOMAIN d, i < j
                 PROVE  d[i].key # d[j].key /\ d[i].left <= d[j].left
      BY DEF InOrder
    <3>1. i + 1 < j + 1
      BY <2>a
    <3>2. rest[i + 1].key # rest[j + 1].key /\ rest[i + 1].left <= rest[j + 1].left
      BY <3>1, <2>a, <1>1 DEF InOrder
    <3> QED
      BY <3>2, <2>a
  <2>5. \A i \in DOMAIN d : d[i].key # k /\ \E h \in DOMAIN s : d[i] = s[h]
    <3>1. TAKE i \in DOMAIN d
    <3>2. i + 1 \in DOMAIN rest /\ d[i] = rest[i + 1]
      BY <2>a
    <3> QED
      BY <3>2, <1>1
  <2>6. ASSUME NEW h \in DOMAIN s, NEW g \in DOMAIN s, s[h].key # k, \A i \in DOMAIN d : d[i] # s[h], s[g].key # k
        PROVE  s[h].left <= s[g].left
    <3>1. PICK a \in DOMAIN rest : rest[a] = s[h]
      BY <2>6, <1>1
    <3>2. PICK b \in DOMAIN rest : rest[b] = s[g]
      BY <2>6, <1>1
    <3>3. a = 1
      <4>1. SUFFICES ASSUME a # 1 PROVE FALSE
        OBVIOUS
      <4>2. a - 1 \in 1 .. Len(rest) - 1 /\ (a - 1) + 1 = a
        BY <4>1, <1>4
      <4>3. d[a - 1] = rest[a] /\ a - 1 \in DOMAIN d
        BY <4>2, <2>2
      <4> QED
        BY <4>3, <3>1, <2>6
    <3>4. b = 1 \/ 1 < b
      BY <1>4
    <3> QED
      BY <3>1, <3>2, <3>3, <3>4, <1>1, <1>5 DEF InOrder
  <2>7. Len(d) < MaxThrottled
    BY <2>1, <2>2, <1>4
  <2> QED
    BY <1>2, <2>2, <2>4, <2>5, <2>6, <2>7 DEF MakesRoom
<1>7. CASE ~ Crowds(s, k)
  <2>1. d = rest /\ Len(rest) < MaxThrottled
    BY <1>3, <1>4, <1>7
  <2> HIDE DEF d
  <2>2. ASSUME NEW h \in DOMAIN s, s[h].key # k PROVE \E i \in DOMAIN d : d[i] = s[h]
    BY <2>1, <2>2, <1>1
  <2>3. MakesRoom(l, s, k, d)
    BY <2>1, <2>2, <1>1, <1>2 DEF MakesRoom
  <2> QED
    BY <2>3
<1> QED
  BY <1>6, <1>7

LEMMA OpenedSound ==
  ASSUME NEW l, NEW s, NEW t, Sound(l, s, t), NEW k \in ThrottleKeys(l), ~ InWindow(s, k),
         NEW gone, gone = {a.key : a \in PushedOut(s, k)},
         NEW u, u = [[q \in ThrottleKeys(l) |-> IF q \in gone THEN Unused ELSE t[q]] EXCEPT ![k] = Once(@)]
  PROVE  Sound(l, Opened(s, k), u) /\ ~ Unfair(s, k)
<1>0. PICK d : MakesRoom(l, s, k, d)
  BY OpenedList
<1>1. /\ Opened(s, k) = Append(d, NewEntry(k)) /\ d \in Seq(Entries(l)) /\ Len(d) < MaxThrottled /\ InOrder(d)
      /\ \A i \in DOMAIN d : d[i].key # k /\ \E h \in DOMAIN s : d[i] = s[h]
      /\ \A h, g \in DOMAIN s : s[h].key # k /\ (\A i \in DOMAIN d : d[i] # s[h]) /\ s[g].key # k
                                => s[h].left <= s[g].left
  BY <1>0 DEF MakesRoom
<1> DEFINE o == Opened(s, k)
           m == Len(d) + 1
<1>a. /\ MaxFailures \in Nat \ {0} /\ ThrottleWindow \in Nat \ {0} /\ MaxThrottled \in Nat
      /\ s \in Seq(Entries(l)) /\ InOrder(s) /\ Len(d) \in Nat /\ DOMAIN d = 1 .. Len(d)
      /\ \A h \in DOMAIN s : s[h] \in Entries(l)
  BY <1>1, ThrottleAssumption DEF Sound
<1>b. \A h \in DOMAIN s : s[h].key \in ThrottleKeys(l) /\ s[h].left \in 0 .. ThrottleWindow
  BY <1>a DEF Entries
<1>2. NewEntry(k) \in Entries(l) /\ NewEntry(k) = [key |-> k, count |-> 1, left |-> ThrottleWindow]
  BY <1>a DEF NewEntry, Entries
<1>3. /\ o \in Seq(Entries(l)) /\ Len(o) = m /\ DOMAIN o = 1 .. m /\ o[m] = NewEntry(k)
      /\ \A i \in 1 .. Len(d) : o[i] = d[i]
  BY <1>1, <1>2, <1>a
<1> HIDE DEF o
<1>4. Len(o) <= MaxThrottled
  BY <1>1, <1>3, <1>a
<1>5. \A i \in DOMAIN o : i # m => i \in DOMAIN d /\ o[i] = d[i]
  BY <1>3, <1>a
<1>6. InOrder(o)
  <2> SUFFICES ASSUME NEW i \in DOMAIN o, NEW j \in DOMAIN o, i < j PROVE o[i].key # o[j].key /\ o[i].left <= o[j].left
    BY DEF InOrder
  <2>1. i # m /\ i \in DOMAIN d /\ o[i] = d[i]
    BY <1>3, <1>5, <1>a
  <2>2. CASE j = m
    BY <2>1, <2>2, <1>1, <1>2, <1>3, <1>b
  <2>3. CASE j # m
    BY <2>1, <2>3, <1>1, <1>5 DEF InOrder
  <2> QED
    BY <2>2, <2>3
<1>7. PushedOut(s, k) = {a \in Range(s) : a.key # k /\ \A i \in DOMAIN d : d[i].key # a.key}
  <2>1. {e.key : e \in Range(o)} = {k} \cup {d[i].key : i \in DOMAIN d}
    <3>1. m \in DOMAIN o /\ o[m].key = k /\ \A i \in DOMAIN d : i \in DOMAIN o /\ o[i] = d[i]
      BY <1>2, <1>3, <1>a
    <3> QED
      BY <3>1, <1>5 DEF Range
  <2> QED
    BY <2>1 DEF PushedOut, o
<1>8. k \notin gone
  BY <1>7
<1>9. Once(Unused) = [n |-> 1, left |-> ThrottleWindow] /\ Once(Unused) \in Tally /\ Unused \in Tally
  BY <1>a DEF Once, Unused, Tally
<1>10. t[k] = Unused /\ t \in [ThrottleKeys(l) -> Tally]
  BY DEF Sound, Remembers
<1>11. /\ u \in [ThrottleKeys(l) -> Tally] /\ u[k] = [n |-> 1, left |-> ThrottleWindow]
       /\ \A q \in ThrottleKeys(l) : q # k => u[q] = IF q \in gone THEN Unused ELSE t[q]
  BY <1>8, <1>9, <1>10
<1>12. ASSUME NEW i \in DOMAIN o, Running(o[i]) PROVE u[o[i].key] = [n |-> o[i].count, left |-> o[i].left]
  <2>1. CASE i = m
    BY <2>1, <1>2, <1>3, <1>11
  <2>2. CASE i # m
    <3>1. i \in DOMAIN d /\ o[i] = d[i] /\ d[i].key # k
      BY <2>2, <1>1, <1>5
    <3>2. PICK h \in DOMAIN s : d[i] = s[h]
      BY <3>1, <1>1
    <3>3. s[h].key \notin gone
      BY <3>1, <3>2, <1>7
    <3> QED
      BY <3>1, <3>2, <3>3, <1>11, <1>12, <1>b DEF Sound, Remembers
  <2> QED
    BY <2>1, <2>2
<1>13. ASSUME NEW q \in ThrottleKeys(l), ~ InWindow(o, q) PROVE u[q] = Unused
  <2>1. q # k
    <3>1. Running(o[m]) /\ o[m].key = k /\ m \in DOMAIN o
      BY <1>2, <1>3, <1>a DEF Running
    <3> QED
      BY <3>1, <1>13 DEF InWindow, Range
  <2>2. SUFFICES ASSUME q \notin gone, InWindow(s, q) PROVE FALSE
    BY <2>1, <1>11 DEF Sound, Remembers
  <2>3. PICK h \in DOMAIN s : s[h].key = q /\ Running(s[h])
    BY <2>2 DEF InWindow, Range
  <2>4. PICK i \in DOMAIN d : d[i].key = q
    BY <2>1, <2>2, <2>3, <1>7 DEF Range
  <2>5. PICK g \in DOMAIN s : d[i] = s[g]
    BY <1>1
  <2>6. g = h
    BY <2>3, <2>4, <2>5, <1>a, SameKey
  <2>7. i \in DOMAIN o /\ o[i] = s[h]
    BY <2>5, <2>6, <1>3, <1>a
  <2> QED
    BY <2>3, <2>7, <1>13 DEF InWindow, Range
<1>14. ~ Unfair(s, k)
  <2> SUFFICES ASSUME NEW a \in PushedOut(s, k), NEW b \in Range(s), b.key # k, b.left < a.left PROVE FALSE
    BY DEF Unfair
  <2>1. PICK h \in DOMAIN s : a = s[h]
    BY <1>7 DEF Range
  <2>2. PICK g \in DOMAIN s : b = s[g]
    BY DEF Range
  <2>3. s[h].key # k /\ \A i \in DOMAIN d : d[i] # s[h]
    BY <2>1, <1>7
  <2>4. s[h].left <= s[g].left
    BY <2>2, <2>3, <1>1
  <2> QED
    BY <2>1, <2>2, <2>4, <1>b
<1>15. Sound(l, o, u)
  BY <1>3, <1>4, <1>6, <1>11, <1>12, <1>13 DEF Sound, Remembers
<1> QED
  BY <1>14, <1>15 DEF o

LEMMA DownToZero == ASSUME NEW n \in Nat PROVE Max({n - 1, 0}) = IF n = 0 THEN 0 ELSE n - 1
<1> DEFINE r == IF n = 0 THEN 0 ELSE n - 1
<1>1. r \in {n - 1, 0} /\ \A y \in {n - 1, 0} : r >= y
  OBVIOUS
<1>2. ASSUME NEW x \in {n - 1, 0}, \A y \in {n - 1, 0} : x >= y PROVE x = r
  BY <1>2
<1> HIDE DEF r
<1>3. Max({n - 1, 0}) = r
  BY <1>1, <1>2 DEF Max
<1> QED
  BY <1>3 DEF r

\* A tick brings every window nearer to its end, in the list and in memory.
Ticked(l, s, t, c, u) ==
  /\ c = [j \in DOMAIN s |-> [s[j] EXCEPT !.left = Max({@ - 1, 0})]]
  /\ u = [k \in ThrottleKeys(l) |-> IF t[k].left <= 1 THEN Unused ELSE [t[k] EXCEPT !.left = @ - 1]]

LEMMA TickSound ==
  ASSUME NEW l, NEW s, NEW t, Sound(l, s, t), NEW c, NEW u, Ticked(l, s, t, c, u)
  PROVE  Sound(l, c, u)
<1>1. /\ s \in Seq(Entries(l)) /\ DOMAIN s = 1 .. Len(s) /\ Len(s) \in Nat /\ InOrder(s)
      /\ MaxFailures \in Nat /\ ThrottleWindow \in Nat /\ t \in [ThrottleKeys(l) -> Tally]
  BY ThrottleAssumption DEF Sound
<1>2. \A j \in DOMAIN s :
        /\ s[j] = [key |-> s[j].key, count |-> s[j].count, left |-> s[j].left] /\ s[j].key \in ThrottleKeys(l)
        /\ s[j].count \in 1 .. MaxFailures /\ s[j].left \in 0 .. ThrottleWindow
  <2>1. \A j \in DOMAIN s : s[j] \in Entries(l)
    BY <1>1
  <2> QED
    BY <2>1 DEF Entries
<1> DEFINE less(n) == IF n = 0 THEN 0 ELSE n - 1
<1>3. \A j \in DOMAIN s : c[j] = [key |-> s[j].key, count |-> s[j].count, left |-> less(s[j].left)]
  <2>1. TAKE j \in DOMAIN s
  <2>2. c[j] = [s[j] EXCEPT !.left = Max({s[j].left - 1, 0})]
    BY DEF Ticked
  <2>3. Max({s[j].left - 1, 0}) = less(s[j].left)
    BY <1>1, <1>2, DownToZero
  <2> HIDE DEF less
  <2> QED
    BY <1>2, <2>2, <2>3
<1>4. ASSUME NEW j \in DOMAIN s
      PROVE  /\ c[j] \in Entries(l) /\ c[j].key = s[j].key /\ c[j].count = s[j].count
             /\ s[j].left = 0 => c[j].left = 0
             /\ s[j].left > 0 => c[j].left = s[j].left - 1
             /\ s[j].left \in Nat /\ c[j].left \in Nat
  <2>1. less(s[j].left) \in 0 .. ThrottleWindow /\ s[j].left \in Nat
    BY <1>1, <1>2
  <2>2. /\ s[j].left = 0 => less(s[j].left) = 0
        /\ s[j].left > 0 => less(s[j].left) = s[j].left - 1
    BY <2>1
  <2> HIDE DEF less
  <2> DEFINE v == less(s[j].left)
  <2>3. c[j] = [key |-> s[j].key, count |-> s[j].count, left |-> v] /\ v \in 0 .. ThrottleWindow
    BY <1>3, <2>1
  <2>4. s[j].key \in ThrottleKeys(l) /\ s[j].count \in 1 .. MaxFailures
    BY <1>2
  <2> HIDE DEF v
  <2>5. c[j] \in Entries(l)
    BY <2>3, <2>4 DEF Entries
  <2>6. c[j].key = s[j].key /\ c[j].count = s[j].count /\ c[j].left = v /\ v \in Nat
    BY <2>3, <1>1
  <2>7. (s[j].left = 0 => v = 0) /\ (s[j].left > 0 => v = s[j].left - 1)
    BY <2>2 DEF v
  <2> QED
    BY <2>1, <2>5, <2>6, <2>7
<1> HIDE DEF less
<1>d. DOMAIN c = DOMAIN s /\ c = [j \in 1 .. Len(s) |-> c[j]]
  BY <1>1 DEF Ticked
<1>5. c \in Seq(Entries(l)) /\ Len(c) = Len(s) /\ DOMAIN c = DOMAIN s
  <2>1. \A j \in 1 .. Len(s) : c[j] \in Entries(l)
    BY <1>1, <1>4
  <2> QED
    BY <2>1, <1>1, <1>d
<1>6. InOrder(c)
  <2> SUFFICES ASSUME NEW i \in DOMAIN s, NEW j \in DOMAIN s, i < j PROVE c[i].key # c[j].key /\ c[i].left <= c[j].left
    BY <1>5 DEF InOrder
  <2>1. s[i].key # s[j].key /\ s[i].left <= s[j].left
    BY <1>1 DEF InOrder
  <2> QED
    BY <2>1, <1>4
<1>7. \A k \in ThrottleKeys(l) : t[k] = [n |-> t[k].n, left |-> t[k].left] /\ t[k] \in Tally
                                 /\ t[k].left \in 0 .. ThrottleWindow /\ t[k].n \in 0 .. MaxFailures
  BY <1>1 DEF Tally
<1>8. ASSUME NEW k \in ThrottleKeys(l)
      PROVE  u[k] = IF t[k].left <= 1 THEN Unused ELSE [n |-> t[k].n, left |-> t[k].left - 1]
  <2>1. u[k] = IF t[k].left <= 1 THEN Unused ELSE [t[k] EXCEPT !.left = t[k].left - 1]
    BY DEF Ticked
  <2>2. [t[k] EXCEPT !.left = t[k].left - 1] = [n |-> t[k].n, left |-> t[k].left - 1]
    <3>1. t[k] \in Tally
      BY <1>7
    <3> QED
      BY <3>1 DEF Tally
  <2> QED
    BY <2>1, <2>2
<1>9. u \in [ThrottleKeys(l) -> Tally]
  <2>1. \A k \in ThrottleKeys(l) : u[k] \in Tally
    <3>1. TAKE k \in ThrottleKeys(l)
    <3>t. t[k].left \in 0 .. ThrottleWindow /\ t[k].n \in 0 .. MaxFailures
      BY <1>7
    <3>2. CASE t[k].left <= 1
      <4>1. u[k] = Unused
        BY <3>2, <1>8
      <4> QED
        BY <4>1, <1>1 DEF Unused, Tally
    <3>3. CASE ~ (t[k].left <= 1)
      <4>1. u[k] = [n |-> t[k].n, left |-> t[k].left - 1]
        BY <3>3, <1>8
      <4>2. t[k].left - 1 \in 0 .. ThrottleWindow
        BY <3>t, <3>3, <1>1
      <4> QED
        BY <4>1, <4>2, <3>t DEF Tally
    <3> QED
      BY <3>2, <3>3
  <2>2. u = [k \in ThrottleKeys(l) |-> u[k]]
    BY DEF Ticked
  <2> QED
    BY <2>1, <2>2
<1>10. ASSUME NEW j \in DOMAIN c, Running(c[j]) PROVE u[c[j].key] = [n |-> c[j].count, left |-> c[j].left]
  <2>1. j \in DOMAIN s /\ c[j].left > 0 /\ s[j].left > 1 /\ c[j].left = s[j].left - 1
    BY <1>4, <1>d, <1>10 DEF Running
  <2>2. Running(s[j])
    BY <2>1, <1>4 DEF Running
  <2>3. t[s[j].key] = [n |-> s[j].count, left |-> s[j].left]
    BY <2>1, <2>2 DEF Sound, Remembers
  <2>4. u[s[j].key] = [n |-> s[j].count, left |-> s[j].left - 1]
    <3>1. ~ (s[j].left <= 1) /\ s[j].key \in ThrottleKeys(l)
      BY <2>1, <1>2, <1>4
    <3> QED
      BY <3>1, <2>3, <1>8
  <2> QED
    BY <2>1, <2>4, <1>4
<1>11. ASSUME NEW q \in ThrottleKeys(l), ~ InWindow(c, q) PROVE u[q] = Unused
  <2>1. CASE InWindow(s, q)
    <3>1. PICK j \in DOMAIN s : s[j].key = q /\ Running(s[j])
      BY <2>1 DEF InWindow, Range
    <3>2. ~ (c[j].left > 0)
      <4>1. c[j] \in Range(c) /\ c[j].key = q
        BY <3>1, <1>4, <1>d DEF Range
      <4> QED
        BY <4>1, <1>11 DEF InWindow, Running
    <3>3. s[j].left <= 1
      <4>1. /\ s[j].left > 0 => c[j].left = s[j].left - 1
            /\ s[j].left \in Nat /\ c[j].left \in Nat
        BY <1>4
      <4> QED
        BY <4>1, <3>2
    <3>4. t[q] = [n |-> s[j].count, left |-> s[j].left]
      BY <3>1 DEF Sound, Remembers
    <3>5. t[q].left <= 1
      BY <3>3, <3>4
    <3> QED
      BY <3>5, <1>8
  <2>2. CASE ~ InWindow(s, q)
    <3>1. t[q].left <= 1
      BY <2>2 DEF Sound, Remembers, Unused
    <3> QED
      BY <3>1, <1>8
  <2> QED
    BY <2>1, <2>2
<1>12. Len(c) <= MaxThrottled
  BY <1>5 DEF Sound
<1> QED
  BY <1>5, <1>6, <1>9, <1>10, <1>11, <1>12 DEF Sound, Remembers

-----------------------------------------------------------------------------
(* The invariant holds at first, and every step keeps it.                  *)

\* What an attempt at one limiter does to the lists.
LEMMA ReserveSound ==
  ASSUME ThrottleTypes, ListsSound, NEW l \in Limiters, NEW k \in ThrottleKeys(l),
         NEW ACTION Allowed, NEW ACTION Denied, ReserveFailure(l, k, Allowed, Denied)
  PROVE  /\ ListsSound' /\ prune' \in [Limiters -> 0 .. PruneEvery] /\ ~ crowded'
         /\ DOMAIN attempts' = Limiters /\ DOMAIN tried' = Limiters
         /\ Allowed \/ Denied
<1> DEFINE s == PruneExpired(l)
           gone == IF InWindow(s, k) THEN {} ELSE {a.key : a \in PushedOut(s, k)}
           spared == [tried EXCEPT ![l] = [q \in ThrottleKeys(l) |-> IF q \in gone THEN Unused ELSE @[q]]]
<1>1. Sound(l, s, tried[l])
  <2>1. Sound(l, attempts[l], tried[l])
    BY DEF ListsSound
  <2> QED
    BY <2>1, PrunedSound DEF PruneExpired
<1>2. prune' = [prune EXCEPT ![l] = IF @ = 0 THEN PruneEvery ELSE @]
  BY DEF ReserveFailure
<1>3. prune' \in [Limiters -> 0 .. PruneEvery]
  BY <1>2, ThrottleAssumption DEF ThrottleTypes
<1>4. CASE Spent(s, k)
  <2>1. Denied /\ attempts' = [attempts EXCEPT ![l] = s] /\ UNCHANGED <<tried, crowded>>
    BY <1>4 DEF ReserveFailure
  <2> HIDE DEF s
  <2>2. ASSUME NEW m \in Limiters PROVE Sound(m, attempts'[m], tried'[m])
    <3>1. CASE m = l
      BY <3>1, <1>1, <2>1 DEF ThrottleTypes
    <3>2. CASE m # l
      BY <3>2, <2>1 DEF ThrottleTypes, ListsSound
    <3> QED
      BY <3>1, <3>2
  <2>3. ListsSound'
    BY <2>2 DEF ListsSound
  <2> QED
    BY <2>1, <2>3, <1>3 DEF ThrottleTypes
<1>5. CASE ~ Spent(s, k)
  <2> DEFINE next == IF InWindow(s, k) THEN Counted(s, k) ELSE Opened(s, k)
  <2>1. /\ Allowed /\ attempts' = [attempts EXCEPT ![l] = next] /\ tried' = [spared EXCEPT ![l][k] = Once(@)]
        /\ crowded' = (crowded \/ (~ InWindow(s, k) /\ Unfair(s, k)))
    BY <1>5 DEF ReserveFailure
  <2> DEFINE u == [[q \in ThrottleKeys(l) |-> IF q \in gone THEN Unused ELSE tried[l][q]] EXCEPT ![k] = Once(@)]
  <2> HIDE DEF gone, s, next
  <2>2. DOMAIN tried' = Limiters /\ tried'[l] = u /\ \A m \in Limiters \ {l} : tried'[m] = tried[m]
    BY <2>1 DEF ThrottleTypes
  <2>3. DOMAIN attempts' = Limiters /\ attempts'[l] = next /\ \A m \in Limiters \ {l} : attempts'[m] = attempts[m]
    BY <2>1 DEF ThrottleTypes
  <2> HIDE DEF u
  <2>4. Sound(l, next, u) /\ ~ (~ InWindow(s, k) /\ Unfair(s, k))
    <3>1. CASE InWindow(s, k)
      <4>1. tried[l] \in [ThrottleKeys(l) -> Tally]
        BY <1>1 DEF Sound
      <4>2. u = [tried[l] EXCEPT ![k] = Once(@)]
        BY <3>1, <4>1 DEF u, gone
      <4> QED
        BY <3>1, <4>2, <1>1, <1>5, CountedSound DEF next
    <3>2. CASE ~ InWindow(s, k)
      <4>1. gone = {a.key : a \in PushedOut(s, k)}
        BY <3>2 DEF gone
      <4>2. Sound(l, Opened(s, k), u) /\ ~ Unfair(s, k)
        <5>1. u = [[q \in ThrottleKeys(l) |-> IF q \in {a.key : a \in PushedOut(s, k)} THEN Unused ELSE tried[l][q]]
                  EXCEPT ![k] = Once(@)]
          BY <4>1 DEF u
        <5> QED
          BY <5>1, <3>2, <1>1, OpenedSound
      <4> QED
        BY <3>2, <4>2 DEF next
    <3> QED
      BY <3>1, <3>2
  <2>5. ListsSound'
    BY <2>2, <2>3, <2>4 DEF ListsSound
  <2>6. ~ crowded'
    BY <2>1, <2>4 DEF ThrottleTypes
  <2> QED
    BY <2>1, <2>2, <2>3, <2>5, <2>6, <1>3
<1> QED
  BY <1>4, <1>5

\* One request takes a slot, gives one back, or neither.
LEMMA WorkingMoves ==
  ASSUME SlotsCounted, DOMAIN guest = Guests, NEW c \in Guests, NEW at, NEW name,
         guest' = [guest EXCEPT ![c] = [at |-> at, name |-> name]],
         \/ slots' = slots /\ (guest[c].at \in {"work", "hash"} <=> at \in {"work", "hash"})
         \/ slots' = slots + 1 /\ slots < WorkSlots /\ guest[c].at \notin {"work", "hash"} /\ at \in {"work", "hash"}
         \/ slots' = slots - 1 /\ guest[c].at \in {"work", "hash"} /\ at \notin {"work", "hash"}
  PROVE  SlotsCounted'
<1>1. /\ \A b \in Guests : b # c => guest'[b] = guest[b]
      /\ guest'[c].at = at
  OBVIOUS
<1>2. Working \subseteq Guests /\ IsFiniteSet(Guests) /\ IsFiniteSet(Working) /\ Cardinality(Working) \in Nat
  <2>1. Working \subseteq Guests /\ IsFiniteSet(Guests)
    BY ThrottleAssumption DEF Working
  <2> QED
    BY <2>1, FS_Subset, FS_CardinalityType
<1>3. WorkSlots \in Nat /\ slots = Cardinality(Working) /\ slots <= WorkSlots
  BY ThrottleAssumption DEF SlotsCounted
<1>4. CASE slots' = slots /\ (guest[c].at \in {"work", "hash"} <=> at \in {"work", "hash"})
  <2>1. Working' = Working
    BY <1>1, <1>4 DEF Working
  <2> QED
    BY <2>1, <1>3, <1>4 DEF SlotsCounted
<1>5. CASE slots' = slots + 1 /\ slots < WorkSlots /\ guest[c].at \notin {"work", "hash"} /\ at \in {"work", "hash"}
  <2>1. Working' = Working \cup {c} /\ c \notin Working
    BY <1>1, <1>5 DEF Working
  <2>2. Cardinality(Working') = Cardinality(Working) + 1
    BY <2>1, <1>2, FS_AddElement
  <2> QED
    BY <2>2, <1>2, <1>3, <1>5 DEF SlotsCounted
<1>6. CASE slots' = slots - 1 /\ guest[c].at \in {"work", "hash"} /\ at \notin {"work", "hash"}
  <2>1. Working' = Working \ {c} /\ c \in Working
    BY <1>1, <1>6 DEF Working
  <2>2. Cardinality(Working') = Cardinality(Working) - 1
    BY <2>1, <1>2, FS_RemoveElement
  <2> QED
    BY <2>2, <1>2, <1>3, <1>6 DEF SlotsCounted
<1> QED
  BY <1>4, <1>5, <1>6

\* A request is moved to a place of its own name, or leaves.
LEMMA GuestMoves ==
  ASSUME ThrottleTypes, NEW c \in Guests, NEW at \in GuestPlaces, NEW name, at # "outside" => name \in Names,
         guest' = [guest EXCEPT ![c] = [at |-> at, name |-> name]]
  PROVE  /\ DOMAIN guest' = Guests
         /\ \A b \in Guests : /\ guest'[b] = [at |-> guest'[b].at, name |-> guest'[b].name]
                              /\ guest'[b].at \in GuestPlaces /\ (guest'[b].at # "outside" => guest'[b].name \in Names)
<1>1. DOMAIN guest' = Guests
  BY DEF ThrottleTypes
<1>2. ASSUME NEW b \in Guests
      PROVE  /\ guest'[b] = [at |-> guest'[b].at, name |-> guest'[b].name]
             /\ guest'[b].at \in GuestPlaces /\ (guest'[b].at # "outside" => guest'[b].name \in Names)
  <2>1. CASE b = c
    <3>1. guest'[b] = [at |-> at, name |-> name]
      BY <2>1 DEF ThrottleTypes
    <3> QED
      BY <3>1
  <2>2. CASE b # c
    <3>1. guest'[b] = guest[b]
      BY <2>2
    <3> QED
      BY <3>1 DEF ThrottleTypes
  <2> QED
    BY <2>1, <2>2
<1> QED
  BY <1>1, <1>2

\* Move and Turned in one form.
GoesTo(c, at, name) == guest' = [guest EXCEPT ![c] = [at |-> at, name |-> name]]

LEMMA MoveGoes ==
  ASSUME ThrottleTypes, NEW c \in Guests, NEW where, Move(c, where)
  PROVE  GoesTo(c, where, guest[c].name)
<1>1. guest[c] = [at |-> guest[c].at, name |-> guest[c].name]
  BY DEF ThrottleTypes
<1>2. [guest[c] EXCEPT !.at = where] = [at |-> where, name |-> guest[c].name]
  <2> DEFINE a == guest[c].at
             n == guest[c].name
  <2>1. guest[c] = [at |-> a, name |-> n]
    BY <1>1
  <2> HIDE DEF a, n
  <2>2. [guest[c] EXCEPT !.at = where] = [at |-> where, name |-> n]
    BY <2>1
  <2> QED
    BY <2>2 DEF n
<1> QED
  BY <1>2 DEF Move, GoesTo

LEMMA TurnedGoes == ASSUME NEW c \in Guests, Turned(c) PROVE GoesTo(c, "outside", Outside.name)
  BY DEF Turned, GoesTo, Outside

\* A step of one request that leaves the limiters alone.
LEMMA GuestStep ==
  ASSUME ThrottleInv, NEW c \in Guests, NEW at \in GuestPlaces, NEW name, at # "outside" => name \in Names,
         GoesTo(c, at, name), UNCHANGED <<door, attempts, prune, tried, crowded>>, knocks' \in 0 .. MaxKnocks,
         \/ slots' = slots /\ (guest[c].at \in {"work", "hash"} <=> at \in {"work", "hash"})
         \/ slots' = slots + 1 /\ slots < WorkSlots /\ guest[c].at \notin {"work", "hash"} /\ at \in {"work", "hash"}
         \/ slots' = slots - 1 /\ guest[c].at \in {"work", "hash"} /\ at \notin {"work", "hash"}
  PROVE  ThrottleInv'
<1>1. SlotsCounted'
  BY WorkingMoves DEF ThrottleInv, ThrottleTypes, GoesTo
<1>2. ThrottleTypes'
  BY GuestMoves DEF ThrottleInv, ThrottleTypes, GoesTo
<1>3. ListsSound'
  BY DEF ThrottleInv, ListsSound
<1> QED
  BY <1>1, <1>2, <1>3 DEF ThrottleInv

\* A step of one request at a limiter.
LEMMA LimiterStep ==
  ASSUME ThrottleInv, NEW c \in Guests, NEW at \in GuestPlaces, NEW name, at # "outside" => name \in Names,
         GoesTo(c, at, name), UNCHANGED <<door, slots, knocks>>,
         guest[c].at \in {"work", "hash"} <=> at \in {"work", "hash"},
         ListsSound', prune' \in [Limiters -> 0 .. PruneEvery], ~ crowded',
         DOMAIN attempts' = Limiters, DOMAIN tried' = Limiters
  PROVE  ThrottleInv'
<1>1. SlotsCounted'
  BY WorkingMoves DEF ThrottleInv, ThrottleTypes, GoesTo
<1>2. ThrottleTypes'
  BY GuestMoves DEF ThrottleInv, ThrottleTypes, GoesTo
<1> QED
  BY <1>1, <1>2 DEF ThrottleInv

LEMMA GuestNamed ==
  ASSUME ThrottleInv, NEW c \in Guests, guest[c].at # "outside"
  PROVE  /\ guest[c].name \in Names /\ \A l \in Limiters : KeyIn(l, guest[c].name) \in ThrottleKeys(l)
         /\ KeyIn("pair", guest[c].name) = guest[c].name
  BY DEF ThrottleInv, ThrottleTypes, ThrottleKeys, KeyIn

LEMMA ReserveIPInv == ASSUME ThrottleInv, NEW c \in Guests, ReserveIP(c) PROVE ThrottleInv'
<1> DEFINE to == IF door = "signup" THEN "slot" ELSE "pair"
           k == KeyIn("ip", guest[c].name)
<1>1. guest[c].at = "ip" /\ UNCHANGED <<door, slots, knocks>> /\ ReserveFailure("ip", k, Move(c, to), Turned(c))
  BY DEF ReserveIP
<1>2. "ip" \in Limiters /\ k \in ThrottleKeys("ip") /\ guest[c].name \in Names
  BY <1>1, GuestNamed DEF Limiters
<1> HIDE DEF k
<1>3. /\ ListsSound' /\ prune' \in [Limiters -> 0 .. PruneEvery] /\ ~ crowded'
      /\ DOMAIN attempts' = Limiters /\ DOMAIN tried' = Limiters /\ (Move(c, to) \/ Turned(c))
  BY <1>1, <1>2, ReserveSound DEF ThrottleInv
<1>4. CASE Move(c, to)
  <2>1. GoesTo(c, to, guest[c].name)
    BY <1>4, MoveGoes DEF ThrottleInv
  <2> QED
    BY <2>1, <1>1, <1>2, <1>3, LimiterStep DEF GuestPlaces
<1>5. CASE Turned(c)
  BY <1>5, <1>1, <1>3, TurnedGoes, LimiterStep DEF GuestPlaces
<1> QED
  BY <1>3, <1>4, <1>5

LEMMA ReservePairInv == ASSUME ThrottleInv, NEW c \in Guests, ReservePair(c) PROVE ThrottleInv'
<1> DEFINE k == guest[c].name
<1>1. guest[c].at = "pair" /\ UNCHANGED <<door, slots, knocks>> /\ ReserveFailure("pair", k, Move(c, "slot"), Turned(c))
  BY DEF ReservePair
<1>2. "pair" \in Limiters /\ k \in ThrottleKeys("pair") /\ k \in Names
  BY <1>1, GuestNamed DEF Limiters
<1>3. /\ ListsSound' /\ prune' \in [Limiters -> 0 .. PruneEvery] /\ ~ crowded'
      /\ DOMAIN attempts' = Limiters /\ DOMAIN tried' = Limiters /\ (Move(c, "slot") \/ Turned(c))
  BY <1>1, <1>2, ReserveSound DEF ThrottleInv
<1>4. CASE Move(c, "slot")
  <2>1. GoesTo(c, "slot", k)
    BY <1>4, MoveGoes DEF ThrottleInv
  <2> QED
    BY <2>1, <1>1, <1>2, <1>3, LimiterStep DEF GuestPlaces
<1>5. CASE Turned(c)
  BY <1>5, <1>1, <1>3, TurnedGoes, LimiterStep DEF GuestPlaces
<1> QED
  BY <1>3, <1>4, <1>5

LEMMA ResetKeeps ==
  ASSUME ThrottleInv, NEW l \in Limiters, NEW k \in ThrottleKeys(l), Reset(l, k), UNCHANGED <<prune, crowded>>
  PROVE  /\ ListsSound' /\ prune' \in [Limiters -> 0 .. PruneEvery] /\ ~ crowded'
         /\ DOMAIN attempts' = Limiters /\ DOMAIN tried' = Limiters
<1>1. /\ attempts' = [attempts EXCEPT ![l] = Without(@, k)] /\ tried' = [tried EXCEPT ![l][k] = Unused]
      /\ DOMAIN attempts = Limiters /\ DOMAIN tried = Limiters
  BY DEF Reset, ThrottleInv, ThrottleTypes
<1>2. /\ DOMAIN attempts' = Limiters /\ DOMAIN tried' = Limiters
      /\ attempts'[l] = Without(attempts[l], k) /\ tried'[l] = [tried[l] EXCEPT ![k] = Unused]
      /\ \A m \in Limiters \ {l} : attempts'[m] = attempts[m] /\ tried'[m] = tried[m]
  BY <1>1
<1>3. Sound(l, Without(attempts[l], k), [tried[l] EXCEPT ![k] = Unused])
  BY ResetSound DEF ThrottleInv, ListsSound
<1>4. ListsSound'
  BY <1>2, <1>3 DEF ThrottleInv, ListsSound
<1> QED
  BY <1>2, <1>4 DEF ThrottleInv, ThrottleTypes

LEMMA ThrottleInitInv == ThrottleInit => ThrottleInv
<1> SUFFICES ASSUME ThrottleInit PROVE ThrottleInv
  OBVIOUS
<1>1. ThrottleTypes
  <2>1. \A c \in Guests : guest[c] = [at |-> "outside", name |-> Outside.name]
    BY DEF ThrottleInit, Outside
  <2> QED
    BY <2>1, ThrottleAssumption DEF ThrottleInit, ThrottleTypes, GuestPlaces
<1>2. ListsSound
  <2> SUFFICES ASSUME NEW l \in Limiters PROVE Sound(l, <<>>, [k \in ThrottleKeys(l) |-> Unused])
    BY DEF ThrottleInit, ListsSound
  <2> DEFINE e == <<>>
  <2>1. e \in Seq(Entries(l)) /\ Len(e) = 0 /\ DOMAIN e = {}
    OBVIOUS
  <2> HIDE DEF e
  <2>2. Unused \in Tally
    BY ThrottleAssumption DEF Unused, Tally
  <2>3. Len(e) <= MaxThrottled
    BY <2>1, ThrottleAssumption
  <2>4. Sound(l, e, [k \in ThrottleKeys(l) |-> Unused])
    BY <2>1, <2>2, <2>3 DEF Sound, InOrder, Remembers
  <2> QED
    BY <2>4 DEF e
<1>3. SlotsCounted
  <2>1. Working = {}
    BY DEF Working, ThrottleInit, Outside
  <2> QED
    BY <2>1, FS_EmptySet, ThrottleAssumption DEF SlotsCounted, ThrottleInit
<1> QED
  BY <1>1, <1>2, <1>3 DEF ThrottleInv

LEMMA ThrottleTickInv == ASSUME ThrottleInv, ThrottleTick PROVE ThrottleInv'
<1>1. ASSUME NEW l \in Limiters PROVE Sound(l, attempts'[l], tried'[l])
  <2>1. Ticked(l, attempts[l], tried[l], attempts'[l], tried'[l])
    BY DEF ThrottleTick, Ticked
  <2>2. Sound(l, attempts[l], tried[l])
    BY DEF ThrottleInv, ListsSound
  <2> QED
    BY <2>1, <2>2, TickSound
<1>2. ListsSound'
  BY <1>1 DEF ListsSound
<1>3. prune' \in [Limiters -> 0 .. PruneEvery]
  <2>1. ASSUME NEW l \in Limiters PROVE prune'[l] \in 0 .. PruneEvery
    <3>1. prune[l] \in 0 .. PruneEvery /\ PruneEvery \in Nat
      BY ThrottleAssumption DEF ThrottleInv, ThrottleTypes
    <3>2. prune'[l] = IF prune[l] = 0 THEN 0 ELSE prune[l] - 1
      <4>1. prune'[l] = Max({prune[l] - 1, 0})
        BY DEF ThrottleTick
      <4>2. prune[l] \in Nat
        BY <3>1
      <4> QED
        BY <4>1, <4>2, DownToZero
    <3> QED
      BY <3>1, <3>2
  <2> QED
    BY <2>1 DEF ThrottleTick
<1>4. ThrottleTypes'
  BY <1>3 DEF ThrottleTick, ThrottleInv, ThrottleTypes
<1>5. SlotsCounted'
  BY DEF ThrottleTick, ThrottleInv, SlotsCounted, Working
<1> QED
  BY <1>2, <1>4, <1>5 DEF ThrottleInv

LEMMA ThrottleStepInv == ThrottleInv /\ [ThrottleNext]_throttleVars => ThrottleInv'
<1> SUFFICES ASSUME ThrottleInv, [ThrottleNext]_throttleVars PROVE ThrottleInv'
  OBVIOUS
<1>t. knocks \in 0 .. MaxKnocks /\ MaxKnocks \in Nat /\ {"ip", "pair"} = Limiters
  BY ThrottleAssumption DEF ThrottleInv, ThrottleTypes, Limiters
<1>1. CASE UNCHANGED throttleVars
  BY <1>1 DEF throttleVars, ThrottleInv, ThrottleTypes, ListsSound, SlotsCounted, Working
<1>2. ASSUME NEW c \in Guests, NEW n \in Names, Knock(c, n) PROVE ThrottleInv'
  <2>1. /\ GoesTo(c, "ip", n) /\ guest[c].at = "outside" /\ knocks' \in 0 .. MaxKnocks
        /\ UNCHANGED <<door, attempts, prune, tried, crowded>> /\ slots' = slots
    BY <1>2, <1>t DEF Knock, GoesTo
  <2> QED
    BY <2>1, GuestStep DEF GuestPlaces
<1>3. ASSUME NEW c \in Guests, AcquirePasswordWork(c) PROVE ThrottleInv'
  <2>1. guest[c].at = "slot" /\ UNCHANGED <<door, attempts, prune, knocks, tried, crowded>>
    BY <1>3 DEF AcquirePasswordWork
  <2>2. CASE slots < WorkSlots /\ slots' = slots + 1 /\ Move(c, "work")
    <3>1. GoesTo(c, "work", guest[c].name) /\ guest[c].name \in Names
      BY <2>1, <2>2, MoveGoes, GuestNamed DEF ThrottleInv
    <3> QED
      BY <3>1, <2>1, <2>2, <1>t, GuestStep DEF GuestPlaces
  <2>3. CASE Turned(c) /\ UNCHANGED slots
    BY <2>3, <2>1, <1>t, TurnedGoes, GuestStep DEF GuestPlaces
  <2> QED
    BY <2>2, <2>3, <1>3 DEF AcquirePasswordWork
<1>4. ASSUME NEW c \in Guests, Wrong(c) \/ ReleasePasswordWork(c) PROVE ThrottleInv'
  <2>1. /\ guest[c].at \in {"work", "hash"} /\ slots' = slots - 1 /\ Turned(c)
        /\ UNCHANGED <<door, attempts, prune, knocks, tried, crowded>>
    BY <1>4 DEF Wrong, ReleasePasswordWork
  <2> QED
    BY <2>1, <1>t, TurnedGoes, GuestStep DEF GuestPlaces
<1>5. ASSUME NEW c \in Guests, Right(c) PROVE ThrottleInv'
  <2> DEFINE to == IF door = "signup" THEN "resetIP" ELSE "resetPair"
  <2>1. /\ guest[c].at = "work" /\ slots' = slots - 1 /\ Move(c, to)
        /\ UNCHANGED <<door, attempts, prune, knocks, tried, crowded>>
    BY <1>5 DEF Right
  <2>2. GoesTo(c, to, guest[c].name) /\ guest[c].name \in Names
    BY <2>1, MoveGoes, GuestNamed DEF ThrottleInv
  <2> QED
    BY <2>1, <2>2, <1>t, GuestStep DEF GuestPlaces
<1>6. ASSUME NEW c \in Guests, RightAccount(c) PROVE ThrottleInv'
  <2>1. /\ guest[c].at = "work" /\ Reset("pair", guest[c].name) /\ Move(c, "hash")
        /\ UNCHANGED <<door, prune, slots, knocks, crowded>>
    BY <1>6 DEF RightAccount
  <2>2. GoesTo(c, "hash", guest[c].name) /\ guest[c].name \in Names /\ guest[c].name \in ThrottleKeys("pair")
    BY <2>1, <1>t, MoveGoes, GuestNamed DEF ThrottleInv
  <2> QED
    BY <2>1, <2>2, <1>t, ResetKeeps, LimiterStep DEF GuestPlaces
<1>7. ASSUME NEW c \in Guests, ResetPair(c) PROVE ThrottleInv'
  <2>1. /\ guest[c].at = "resetPair" /\ Reset("pair", guest[c].name) /\ Move(c, "resetIP")
        /\ UNCHANGED <<door, prune, slots, knocks, crowded>>
    BY <1>7 DEF ResetPair
  <2>2. GoesTo(c, "resetIP", guest[c].name) /\ guest[c].name \in Names /\ guest[c].name \in ThrottleKeys("pair")
    BY <2>1, <1>t, MoveGoes, GuestNamed DEF ThrottleInv
  <2> QED
    BY <2>1, <2>2, <1>t, ResetKeeps, LimiterStep DEF GuestPlaces
<1>8. ASSUME NEW c \in Guests, ResetIP(c) PROVE ThrottleInv'
  <2>1. /\ guest[c].at = "resetIP" /\ Reset("ip", KeyIn("ip", guest[c].name)) /\ Turned(c)
        /\ UNCHANGED <<door, prune, slots, knocks, crowded>>
    BY <1>8 DEF ResetIP
  <2>2. KeyIn("ip", guest[c].name) \in ThrottleKeys("ip")
    BY <2>1, <1>t, GuestNamed
  <2> QED
    BY <2>1, <2>2, <1>t, TurnedGoes, ResetKeeps, LimiterStep DEF GuestPlaces
<1> QED
  BY <1>1, <1>2, <1>3, <1>4, <1>5, <1>6, <1>7, <1>8, ReserveIPInv, ReservePairInv, ThrottleTickInv DEF ThrottleNext

LEMMA ThrottleInvImplies == ThrottleInv => ThrottleHolds
<1> SUFFICES ASSUME ThrottleInv PROVE ThrottleHolds
  OBVIOUS
<1>1. ASSUME NEW l \in Limiters
      PROVE  /\ attempts[l] \in Seq(Entries(l)) /\ Len(attempts[l]) <= MaxThrottled /\ InOrder(attempts[l])
             /\ \A k \in ThrottleKeys(l) : tried[l][k].n <= MaxFailures
  <2>1. Sound(l, attempts[l], tried[l])
    BY DEF ThrottleInv, ListsSound
  <2> QED
    BY <2>1, ThrottleAssumption DEF Sound, Tally
<1>2. ASSUME NEW l \in Limiters, NEW a \in Range(attempts[l]) PROVE a.key \in ThrottleKeys(l)
  <2>1. a \in Entries(l)
    BY <1>1 DEF Range
  <2> QED
    BY <2>1 DEF Entries
<1>3. ASSUME NEW l \in Limiters, NEW k \in ThrottleKeys(l) PROVE Cardinality(EntryOf(l, k)) <= 1
  <2>1. \A a, b \in EntryOf(l, k) : a = b
    BY <1>1, SameKey DEF EntryOf, Range
  <2>2. EntryOf(l, k) = {} \/ \E a : EntryOf(l, k) = {a}
    BY <2>1
  <2>3. CASE EntryOf(l, k) = {}
    BY <2>3, FS_EmptySet
  <2>4. ASSUME NEW a, EntryOf(l, k) = {a} PROVE Cardinality(EntryOf(l, k)) = 1
    BY <2>4, FS_Singleton
  <2> QED
    BY <2>2, <2>3, <2>4
<1>4. slots = Cardinality({c \in Guests : guest[c].at \in {"work", "hash"}}) /\ slots \in 0 .. WorkSlots
  <2>1. Working \subseteq Guests /\ IsFiniteSet(Guests)
    BY ThrottleAssumption DEF Working
  <2>2. Cardinality(Working) \in Nat
    BY <2>1, FS_Subset, FS_CardinalityType
  <2> QED
    BY <2>2, ThrottleAssumption DEF ThrottleInv, SlotsCounted, Working
<1>5. ThrottleTypeOK
  BY <1>1, <1>2, <1>4 DEF ThrottleTypeOK, ThrottleInv, ThrottleTypes
<1> QED
  BY <1>1, <1>3, <1>5 DEF ThrottleHolds, ThrottleInv, ThrottleTypes

-----------------------------------------------------------------------------

\* The lists of loginRateLimiter are in the order in which their windows end and
\* agree with what was let through.
THEOREM ThrottleInvariant == ThrottleSpec => []ThrottleInv
<1> QED
  BY ThrottleInitInv, ThrottleStepInv, PTL DEF ThrottleSpec

\* No more than loginRateLimitMaxFailures attempts of a key are let through in a
\* window, however many run at once, and a full limiter forgets the window that
\* ends first.
THEOREM ThrottleAlwaysHolds == ThrottleSpec => []ThrottleHolds
<1> QED
  BY ThrottleInvariant, ThrottleInvImplies, PTL

-----------------------------------------------------------------------------
(* Boards.  The invariant: a verdict that is kept is the host's last answer *)
(* (AccessInv), what is collected was on the board (BoardSeen), and of the *)
(* rows that last, those before the page or the tenant to come have been   *)
(* collected (ReadSoFar).                                                  *)

LastPage == IF kind \in Paged THEN MaxListingPages ELSE Tenants
WalkRecords ==
  [ever : SUBSET BoardRowIds, always : SUBSET BoardRowIds, moved : BOOLEAN, skipped : SUBSET Nat,
   full : BOOLEAN, changes : Nat]
BoardTypes ==
  /\ kind \in Kinds /\ stage \in {"idle", "access", "page"} /\ limit \in Limits
  /\ verdict \in [AllHosts -> [says : {"nothing", "allowed", "denied"}, left : 0 .. RobotsTTL]]
  /\ asked \in [AllHosts -> [says : {"nothing", "yes", "no"}, ago : 0 .. RobotsTTL]]
  /\ hosts \in Seq(Range(HostsOf[kind]))
  /\ shape \in [BoardRowIds -> ShapesOf(kind)]
  /\ board \in Seq(BoardRowIds) /\ IsInjective(board) /\ all \in Seq(BoardRowIds)
  /\ ending \in {"none", "ok", "error"} /\ walk \in WalkRecords
  /\ IF stage = "page" THEN page \in 1 .. LastPage ELSE page = 0

\* A verdict that is still kept is the one of what the host last answered.
Granted(h) == asked[h].says = "yes" /\ asked[h].ago < RobotsTTL
VerdictKept(h) ==
  verdict[h].says # "nothing" /\ verdict[h].left > 0 =>
    /\ asked[h].ago + verdict[h].left <= RobotsTTL
    /\ verdict[h].says = "allowed" => asked[h].says = "yes"
\* During a call the hosts that were checked have granted it.
AccessInv ==
  /\ \A h \in AllHosts : VerdictKept(h)
  /\ stage # "idle" => \A h \in Range(HostsOf[kind]) : h \in Range(hosts) \/ Granted(h)
  /\ stage = "page" => hosts = <<>>

\* What the walk has seen of the board, and what has been collected of that.
BoardSeen ==
  /\ stage = "page" => /\ Range(board) \subseteq walk.ever /\ walk.always \subseteq Range(board)
                       /\ walk.full \/ ~ TooLong(board)
  /\ \A r \in Range(all) : r \in walk.ever /\ shape[r] = "wanted"
  /\ stage = "access" => all = <<>>
  /\ stage # "idle" => ending = "none"

Excused == limit > 0 \/ walk.full \/ (kind \in Paged /\ (walk.moved \/ BlankSeen))
Lasting == {r \in walk.always : shape[r] = "wanted"}
\* The lasting rows that stand before the page to come, and those of the tenants
\* before the one to come, have been collected.
PagesRead == \A i \in DOMAIN board : i <= (page - 1) * PageSize /\ board[i] \in Lasting => board[i] \in Range(all)
TenantsRead ==
  \A r \in Lasting : TenantOf[r] < page /\ TenantOf[r] \notin walk.skipped => r \in Range(all)
ReadSoFar ==
  stage = "page" => /\ kind \in Paged => Excused \/ PagesRead
                    /\ kind = "greeting" => Excused \/ TenantsRead
AllDue ==
  ending = "ok" => /\ limit > 0 => Len(all) <= limit
                   /\ Excused \/ Due \subseteq Range(all)

BoardsInv == BoardTypes /\ AccessInv /\ BoardSeen /\ ReadSoFar /\ AllDue

-----------------------------------------------------------------------------
(* robots.txt.                                                             *)

LEMMA BoardConstants ==
  /\ RobotsTTL \in Nat /\ RobotsTTL > 0 /\ Tenants \in Nat /\ Tenants > 0 /\ PageSize \in Nat /\ PageSize > 0
  /\ MaxListingPages \in Nat /\ MaxListingPages > 0 /\ ServerRows \in Nat /\ ServerRows > 0
  /\ Limits \subseteq Nat /\ 0 \in Limits
BY BoardsAssumption

LEMMA HostsFacts ==
  ASSUME NEW k \in Kinds
  PROVE  HostsOf[k] \in Seq(Range(HostsOf[k])) /\ Range(HostsOf[k]) \subseteq AllHosts
<1>1. HostsOf[k] \in Seq(Range(HostsOf[k]))
  BY BoardsAssumption
<1>2. Range(HostsOf[k]) \in {Range(HostsOf[j]) : j \in Kinds}
  OBVIOUS
<1> QED
  BY <1>1, <1>2 DEF AllHosts

LEMMA FirstHost ==
  ASSUME NEW S, NEW s \in Seq(S), s # <<>>
  PROVE  /\ Head(s) \in S /\ Tail(s) \in Seq(S)
         /\ \A x \in Range(s) : x = Head(s) \/ x \in Range(Tail(s))
<1>1. Head(s) \in S /\ Tail(s) \in Seq(S) /\ Len(Tail(s)) = Len(s) - 1
      /\ \A i \in 1 .. Len(Tail(s)) : Tail(s)[i] = s[i + 1]
  BY HeadTailProperties
<1>2. DOMAIN s = 1 .. Len(s) /\ Len(s) \in Nat /\ DOMAIN Tail(s) = 1 .. Len(Tail(s))
  BY <1>1
<1>3. Head(s) = s[1]
  OBVIOUS
<1>4. ASSUME NEW i \in DOMAIN s PROVE s[i] = Head(s) \/ s[i] \in Range(Tail(s))
  <2>1. CASE i = 1
    BY <1>3, <2>1
  <2>2. CASE i # 1
    <3>1. i - 1 \in DOMAIN Tail(s) /\ Tail(s)[i - 1] = s[i]
      BY <1>1, <1>2, <2>2
    <3> QED
      BY <3>1 DEF Range
  <2> QED
    BY <2>1, <2>2
<1> QED
  BY <1>1, <1>4 DEF Range

\* While hosts are checked the listing stands still.
LEMMA NextHostKeeps ==
  ASSUME BoardsInv, NEW says, stage = "access", NextHost(says), hosts # <<>>,
         UNCHANGED <<kind, shape, board, page, all, walk>>,
         verdict' \in [AllHosts -> [says : {"nothing", "allowed", "denied"}, left : 0 .. RobotsTTL]],
         asked' \in [AllHosts -> [says : {"nothing", "yes", "no"}, ago : 0 .. RobotsTTL]]
  PROVE  BoardTypes' /\ BoardSeen' /\ ReadSoFar' /\ AllDue'
<1>1. stage' \in {"idle", "access"} /\ limit' \in Limits /\ ending' \in {"none", "error"}
      /\ (stage' = "access" => ending' = "none")
  BY BoardConstants DEF NextHost, BoardsInv, BoardTypes, BoardSeen
<1>2. hosts' \in Seq(Range(HostsOf[kind]))
  <2>1. Tail(hosts) \in Seq(Range(HostsOf[kind])) /\ <<>> \in Seq(Range(HostsOf[kind]))
    BY FirstHost DEF BoardsInv, BoardTypes
  <2> QED
    BY <2>1 DEF NextHost
<1>3. BoardTypes'
  BY <1>1, <1>2, Zenon DEF BoardsInv, BoardTypes
<1>4. BoardSeen'
  BY <1>1 DEF BoardsInv, BoardSeen
<1>5. ReadSoFar' /\ AllDue'
  BY <1>1 DEF ReadSoFar, AllDue
<1> QED
  BY <1>3, <1>4, <1>5

LEMMA UseVerdictInv == ASSUME BoardsInv, UseVerdict PROVE BoardsInv'
<1> DEFINE h == Head(hosts)
<1>1. /\ stage = "access" /\ hosts # <<>> /\ Cached(h) /\ NextHost(verdict[h].says)
      /\ UNCHANGED <<kind, verdict, asked, shape, board, page, all, walk>>
  BY DEF UseVerdict
<1>2. BoardTypes' /\ BoardSeen' /\ ReadSoFar' /\ AllDue'
  BY <1>1, NextHostKeeps DEF BoardsInv, BoardTypes
<1>3. /\ h \in AllHosts /\ \A x \in Range(hosts) : x = h \/ x \in Range(Tail(hosts))
  BY <1>1, FirstHost, HostsFacts DEF BoardsInv, BoardTypes
<1> HIDE DEF h
<1>4. VerdictKept(h)
  BY <1>3 DEF BoardsInv, AccessInv
<1>5. verdict[h].says \in {"nothing", "allowed", "denied"} /\ verdict[h].left \in Nat /\ asked[h].ago \in Nat
  BY <1>3 DEF BoardsInv, BoardTypes
<1>6. verdict[h].says # "denied" => Granted(h)
  BY <1>1, <1>4, <1>5, BoardConstants DEF Cached, VerdictKept, Granted
<1>7. \A x \in AllHosts : VerdictKept(x)'
  BY <1>1 DEF BoardsInv, AccessInv, VerdictKept
<1>8. stage' # "page"
  BY <1>1 DEF NextHost
<1>9. ASSUME stage' # "idle", NEW x \in Range(HostsOf[kind])
      PROVE  x \in Range(hosts') \/ Granted(x)'
  <2>1. verdict[h].says # "denied" /\ hosts' = Tail(hosts)
    BY <1>1, <1>9 DEF NextHost
  <2>2. x \in Range(hosts) \/ Granted(x)
    BY <1>1 DEF BoardsInv, AccessInv
  <2> QED
    BY <1>1, <1>3, <1>6, <2>1, <2>2 DEF Granted
<1>10. AccessInv'
  BY <1>1, <1>7, <1>8, <1>9, Zenon DEF AccessInv
<1> QED
  BY <1>2, <1>10, Zenon DEF BoardsInv

\* What is remembered of an answer is never better than the answer.
LEMMA VerdictsFair ==
  ASSUME NEW a, NEW says, says \in {Lenient(a), JumpitVerdict(a), WorknetVerdict(a)}
  PROVE  says \in {"nothing", "allowed", "denied"} /\ (says # "denied" => ~ Denies(a))
BY DEF Lenient, JumpitVerdict, WorknetVerdict, Denies, Missing, Down

LEMMA AskRobotsInv ==
  ASSUME BoardsInv, NEW a, NEW says, AskRobots(a, says),
         says \in {Lenient(a), JumpitVerdict(a), WorknetVerdict(a)}
  PROVE  BoardsInv'
<1>0. PICK h : h = Head(hosts)
  OBVIOUS
<1> DEFINE answer == [says |-> IF Denies(a) THEN "no" ELSE "yes", ago |-> 0]
           kept == [says |-> says, left |-> RobotsTTL]
<1>1. /\ stage = "access" /\ hosts # <<>> /\ ~ Cached(h) /\ NextHost(says)
      /\ UNCHANGED <<kind, shape, board, page, all, walk>>
  BY <1>0 DEF AskRobots
<1>2. /\ verdict' = (IF says = "nothing" THEN verdict ELSE [verdict EXCEPT ![h] = kept])
      /\ asked' = [asked EXCEPT ![h] = answer]
  BY <1>0 DEF AskRobots
<1>3. says \in {"nothing", "allowed", "denied"} /\ (says # "denied" => ~ Denies(a))
  BY VerdictsFair
<1>4. /\ h \in AllHosts /\ \A x \in Range(hosts) : x = h \/ x \in Range(Tail(hosts))
  BY <1>0, <1>1, FirstHost, HostsFacts DEF BoardsInv, BoardTypes
<1>5. /\ verdict \in [AllHosts -> [says : {"nothing", "allowed", "denied"}, left : 0 .. RobotsTTL]]
      /\ asked \in [AllHosts -> [says : {"nothing", "yes", "no"}, ago : 0 .. RobotsTTL]]
  BY DEF BoardsInv, BoardTypes
<1>6. RobotsTTL \in Nat /\ RobotsTTL > 0
  BY BoardConstants
<1>7. /\ answer \in [says : {"nothing", "yes", "no"}, ago : 0 .. RobotsTTL]
      /\ answer.ago = 0 /\ (says # "denied" => answer.says = "yes")
  BY <1>3, <1>6
<1>8. says # "nothing" => /\ kept \in [says : {"nothing", "allowed", "denied"}, left : 0 .. RobotsTTL]
                          /\ kept.says = says /\ kept.left = RobotsTTL
  BY <1>3, <1>6
<1> HIDE DEF answer, kept
<1>9. /\ verdict' \in [AllHosts -> [says : {"nothing", "allowed", "denied"}, left : 0 .. RobotsTTL]]
      /\ asked' \in [AllHosts -> [says : {"nothing", "yes", "no"}, ago : 0 .. RobotsTTL]]
  BY <1>2, <1>5, <1>7, <1>8
<1>10. BoardTypes' /\ BoardSeen' /\ ReadSoFar' /\ AllDue'
  BY <1>1, <1>9, NextHostKeeps
<1>11. asked'[h] = answer /\ \A x \in AllHosts : x # h => asked'[x] = asked[x] /\ verdict'[x] = verdict[x]
  BY <1>2, <1>4, <1>5
<1>12. says # "denied" => Granted(h)'
  BY <1>6, <1>7, <1>11 DEF Granted
<1>13. VerdictKept(h)'
  <2>1. CASE says = "nothing"
    <3>1. verdict' = verdict
      BY <1>2, <2>1
    <3> QED
      BY <3>1, <1>1 DEF Cached, VerdictKept
  <2>2. CASE says # "nothing"
    <3>1. verdict'[h] = kept
      BY <1>2, <1>4, <1>5, <2>2
    <3> QED
      BY <3>1, <1>6, <1>7, <1>8, <1>11, <2>2 DEF VerdictKept
  <2> QED
    BY <2>1, <2>2
<1>14. ASSUME NEW x \in AllHosts PROVE VerdictKept(x)'
  BY <1>11, <1>13 DEF BoardsInv, AccessInv, VerdictKept
<1>15. stage' # "page"
  BY <1>1 DEF NextHost
<1>16. ASSUME stage' # "idle", NEW x \in Range(HostsOf[kind])
       PROVE  x \in Range(hosts') \/ Granted(x)'
  <2>1. says # "denied" /\ hosts' = Tail(hosts)
    BY <1>1, <1>16 DEF NextHost
  <2>2. x \in Range(hosts) \/ Granted(x)
    BY <1>1 DEF BoardsInv, AccessInv
  <2>3. x \in AllHosts
    BY HostsFacts DEF BoardsInv, BoardTypes
  <2> QED
    BY <1>4, <1>11, <1>12, <2>1, <2>2, <2>3 DEF Granted
<1>17. AccessInv'
  BY <1>1, <1>14, <1>15, <1>16, Zenon DEF AccessInv
<1> QED
  BY <1>10, <1>17, Zenon DEF BoardsInv

LEMMA BeginCollectInv == ASSUME BoardsInv, NEW l \in Limits, BeginCollect(l) PROVE BoardsInv'
<1>1. /\ stage = "idle" /\ stage' = "access" /\ hosts' = HostsOf[kind] /\ limit' = l
      /\ all' = <<>> /\ board' = <<>> /\ walk' = NoWalk /\ ending' = "none" /\ page' = 0
      /\ UNCHANGED <<kind, verdict, asked, shape>>
  BY DEF BeginCollect
<1>2. /\ kind \in Kinds /\ shape \in [BoardRowIds -> ShapesOf(kind)]
      /\ verdict \in [AllHosts -> [says : {"nothing", "allowed", "denied"}, left : 0 .. RobotsTTL]]
      /\ asked \in [AllHosts -> [says : {"nothing", "yes", "no"}, ago : 0 .. RobotsTTL]]
  BY DEF BoardsInv, BoardTypes
<1>3. HostsOf[kind] \in Seq(Range(HostsOf[kind]))
  BY <1>2, HostsFacts
<1>4. <<>> \in Seq(BoardRowIds) /\ IsInjective(<<>>) /\ Range(<<>>) = {}
  BY DEF IsInjective, Range
<1>5. NoWalk \in WalkRecords
  BY DEF NoWalk, WalkRecords
<1>6. BoardTypes'
  BY <1>1, <1>2, <1>3, <1>4, <1>5, Zenon DEF BoardTypes, ShapesOf
<1>7. AccessInv'
  <2>1. \A h \in AllHosts : VerdictKept(h)'
    BY <1>1 DEF BoardsInv, AccessInv, VerdictKept
  <2>2. \A h \in Range(HostsOf[kind]) : h \in Range(hosts')
    BY <1>1
  <2> QED
    BY <1>1, <2>1, <2>2, Zenon DEF AccessInv
<1>8. BoardSeen' /\ ReadSoFar' /\ AllDue'
  BY <1>1, <1>4 DEF BoardSeen, ReadSoFar, AllDue
<1> QED
  BY <1>6, <1>7, <1>8, Zenon DEF BoardsInv

LEMMA BoardsTickInv == ASSUME BoardsInv, BoardsTick PROVE BoardsInv'
<1>1. /\ stage = "idle"
      /\ verdict' = [h \in AllHosts |-> [verdict[h] EXCEPT !.left = Max({@ - 1, 0})]]
      /\ asked' = [h \in AllHosts |-> [asked[h] EXCEPT !.ago = Min({@ + 1, RobotsTTL})]]
      /\ UNCHANGED <<kind, stage, hosts, limit, shape, board, page, all, ending, walk>>
  BY DEF BoardsTick
<1>2. RobotsTTL \in Nat /\ RobotsTTL > 0
  BY BoardConstants
<1>3. ASSUME NEW h \in AllHosts
      PROVE  /\ verdict'[h] \in [says : {"nothing", "allowed", "denied"}, left : 0 .. RobotsTTL]
             /\ asked'[h] \in [says : {"nothing", "yes", "no"}, ago : 0 .. RobotsTTL]
             /\ VerdictKept(h)'
  <2>1. /\ verdict[h] \in [says : {"nothing", "allowed", "denied"}, left : 0 .. RobotsTTL]
        /\ asked[h] \in [says : {"nothing", "yes", "no"}, ago : 0 .. RobotsTTL]
    BY <1>3 DEF BoardsInv, BoardTypes
  <2> DEFINE left == Max({verdict[h].left - 1, 0})
             ago == Min({asked[h].ago + 1, RobotsTTL})
  <2>2. /\ left = IF verdict[h].left - 1 >= 0 THEN verdict[h].left - 1 ELSE 0
        /\ ago = IF asked[h].ago + 1 <= RobotsTTL THEN asked[h].ago + 1 ELSE RobotsTTL
    <3>1. verdict[h].left - 1 \in Int /\ asked[h].ago + 1 \in Int /\ 0 \in Int /\ RobotsTTL \in Int
      BY <2>1, <1>2
    <3> QED
      BY <3>1, LeastOfTwo, GreatestOfTwo
  <2>3. verdict'[h] = [verdict[h] EXCEPT !.left = left] /\ asked'[h] = [asked[h] EXCEPT !.ago = ago]
    BY <1>1, <1>3
  <2> HIDE DEF left, ago
  <2>4. /\ verdict'[h].says = verdict[h].says /\ verdict'[h].left = left
        /\ asked'[h].says = asked[h].says /\ asked'[h].ago = ago
    BY <2>1, <2>3
  <2>5. left \in 0 .. RobotsTTL /\ ago \in 0 .. RobotsTTL
    BY <1>2, <2>1, <2>2
  <2>6. VerdictKept(h)
    BY <1>3 DEF BoardsInv, AccessInv
  <2>7. VerdictKept(h)'
    BY <1>2, <2>1, <2>2, <2>4, <2>6 DEF VerdictKept
  <2> QED
    BY <2>1, <2>3, <2>5, <2>7
<1>4. /\ verdict' \in [AllHosts -> [says : {"nothing", "allowed", "denied"}, left : 0 .. RobotsTTL]]
      /\ asked' \in [AllHosts -> [says : {"nothing", "yes", "no"}, ago : 0 .. RobotsTTL]]
  BY <1>1, <1>3
<1>5. BoardTypes'
  BY <1>1, <1>4, Zenon DEF BoardsInv, BoardTypes, ShapesOf, LastPage
<1>6. AccessInv'
  BY <1>1, <1>3, Zenon DEF AccessInv
<1>7. BoardSeen' /\ ReadSoFar' /\ AllDue'
  BY <1>1 DEF BoardsInv, BoardSeen, ReadSoFar, AllDue, Excused, BlankSeen, Due
<1> QED
  BY <1>5, <1>6, <1>7, Zenon DEF BoardsInv

LEMMA SetAsBoard ==
  ASSUME NEW s \in SUBSET BoardRowIds, IsFiniteSet(s)
  PROVE  SetToSeq(s) \in Seq(BoardRowIds) /\ IsInjective(SetToSeq(s)) /\ Range(SetToSeq(s)) = s
<1> DEFINE n == Cardinality(s)
           f == SetToSeq(s)
<1>1. n \in Nat /\ f \in [1 .. n -> s] /\ \A i, j \in 1 .. n : f[i] = f[j] => i = j
  BY ListOfSet
<1> HIDE DEF f
<1>2. f \in Injection(1 .. n, s)
  BY <1>1 DEF Injection, IsInjective
<1>3. IsFiniteSet(1 .. n) /\ Cardinality(1 .. n) = n
  <2>1. n \in Int /\ 1 \in Int
    BY <1>1
  <2>2. IsFiniteSet(1 .. n) /\ Cardinality(1 .. n) = IF 1 > n THEN 0 ELSE n - 1 + 1
    BY <2>1, FS_Interval
  <2> QED
    BY <2>2, <1>1
<1>4. f \in Surjection(1 .. n, s)
  BY <1>2, <1>3, FS_Injection
<1>5. Range(f) = s
  BY <1>1, <1>4 DEF Surjection, Range
<1>6. f \in Seq(BoardRowIds) /\ IsInjective(f)
  BY <1>1 DEF IsInjective
<1> QED
  BY <1>5, <1>6 DEF f

LEMMA BeginListingInv == ASSUME BoardsInv, BeginListing PROVE BoardsInv'
<1>1. PICK s \in SUBSET BoardRowIds :
        /\ IsFiniteSet(s) /\ board' = SetToSeq(s)
        /\ walk' = [NoWalk EXCEPT !.ever = s, !.always = s, !.full = TooLong(SetToSeq(s))]
  BY DEF BeginListing
<1>2. /\ stage = "access" /\ hosts = <<>> /\ stage' = "page" /\ page' = 1
      /\ UNCHANGED <<kind, verdict, asked, hosts, limit, shape, all, ending>>
  BY DEF BeginListing, accessVars
<1>3. board' \in Seq(BoardRowIds) /\ IsInjective(board') /\ Range(board') = s
  BY <1>1, SetAsBoard
<1>4. TooLong(board') \in BOOLEAN
  BY DEF TooLong
<1>5. walk' = [ever |-> s, always |-> s, moved |-> FALSE, skipped |-> {}, full |-> TooLong(board'), changes |-> 0]
  BY <1>1 DEF NoWalk
<1>6. walk' \in WalkRecords
  BY <1>4, <1>5 DEF WalkRecords
<1>7. walk'.ever = s /\ walk'.always = s /\ walk'.full = TooLong(board')
  BY <1>5
<1>8. 1 \in 1 .. LastPage
  BY BoardConstants DEF LastPage
<1>9. BoardTypes'
  BY <1>2, <1>3, <1>6, <1>8, Zenon DEF BoardsInv, BoardTypes, ShapesOf, LastPage
<1>10. AccessInv'
  <2>1. \A h \in AllHosts : VerdictKept(h)'
    BY <1>2 DEF BoardsInv, AccessInv, VerdictKept
  <2>2. \A h \in Range(HostsOf[kind]) : h \in Range(hosts) \/ Granted(h)
    BY <1>2 DEF BoardsInv, AccessInv
  <2> QED
    BY <1>2, <2>1, <2>2, Zenon DEF AccessInv, Granted
<1>11. BoardSeen'
  <2>1. all' = <<>> /\ Range(all') = {}
    BY <1>2 DEF BoardsInv, BoardSeen, Range
  <2>2. walk'.full \/ ~ TooLong(board)'
    BY <1>2, <1>7 DEF TooLong
  <2>3. ending' = "none"
    BY <1>2 DEF BoardsInv, BoardSeen
  <2> QED
    BY <1>2, <1>3, <1>7, <2>1, <2>2, <2>3 DEF BoardSeen
<1>12. ReadSoFar'
  <2>1. PagesRead'
    <3>1. (page' - 1) * PageSize = 0
      BY <1>2, BoardConstants
    <3>2. \A i \in DOMAIN board' : ~ (i <= 0)
      BY <1>3
    <3> QED
      BY <3>1, <3>2 DEF PagesRead
  <2>2. TenantsRead'
    <3>1. \A r \in Lasting' : TenantOf[r] \in 1 .. Tenants
      BY <1>7, BoardsAssumption DEF Lasting
    <3>2. Tenants \in Nat
      BY BoardConstants
    <3> QED
      BY <1>2, <3>1, <3>2 DEF TenantsRead
  <2> QED
    BY <2>1, <2>2, Zenon DEF ReadSoFar
<1>13. AllDue'
  BY <1>2 DEF BoardsInv, BoardSeen, AllDue
<1> QED
  BY <1>9, <1>10, <1>11, <1>12, <1>13, Zenon DEF BoardsInv

-----------------------------------------------------------------------------
(* A change of the board: what is added comes first, and pushes the rest   *)
(* away from what has been read.                                           *)

LEMMA AddedFirst ==
  ASSUME NEW S, NEW s \in Seq(S), NEW r \in S
  PROVE  /\ <<r>> \o s \in Seq(S) /\ Len(<<r>> \o s) = Len(s) + 1 /\ (<<r>> \o s)[1] = r
         /\ \A i \in 2 .. Len(s) + 1 : (<<r>> \o s)[i] = s[i - 1] /\ i - 1 \in DOMAIN s
         /\ Range(<<r>> \o s) = {r} \cup Range(s)
         /\ IsInjective(s) /\ r \notin Range(s) => IsInjective(<<r>> \o s)
<1> DEFINE t == <<r>> \o s
           n == Len(s)
<1>1. t \in Seq(S) /\ Len(t) = n + 1 /\ t[1] = r /\ n \in Nat /\ DOMAIN s = 1 .. n /\ DOMAIN t = 1 .. n + 1
  OBVIOUS
<1>2. \A i \in 2 .. n + 1 : t[i] = s[i - 1] /\ i - 1 \in DOMAIN s
  OBVIOUS
<1> HIDE DEF t, n
<1>3. \A i \in DOMAIN t : i = 1 \/ i \in 2 .. n + 1
  BY <1>1
<1>4. \A i \in DOMAIN s : i + 1 \in 2 .. n + 1 /\ i + 1 \in DOMAIN t /\ (i + 1) - 1 = i
  BY <1>1
<1>5. Range(t) = {r} \cup Range(s)
  <2>1. \A x \in Range(t) : x = r \/ x \in Range(s)
    BY <1>1, <1>2, <1>3 DEF Range
  <2>2. r \in Range(t)
    BY <1>1 DEF Range
  <2>3. \A i \in DOMAIN s : t[i + 1] = s[i]
    BY <1>2, <1>4
  <2>4. \A x \in Range(s) : x \in Range(t)
    BY <1>4, <2>3 DEF Range
  <2> QED
    BY <2>1, <2>2, <2>4
<1>6. ASSUME IsInjective(s), r \notin Range(s) PROVE IsInjective(t)
  <2> SUFFICES ASSUME NEW i \in DOMAIN t, NEW j \in DOMAIN t, t[i] = t[j] PROVE i = j
    BY DEF IsInjective
  <2>0. i \in Int /\ j \in Int
    BY <1>1
  <2>1. CASE i = 1 /\ j = 1
    BY <2>1
  <2>2. CASE i = 1 /\ j # 1
    BY <2>2, <1>1, <1>2, <1>3, <1>6 DEF Range
  <2>3. CASE i # 1 /\ j = 1
    BY <2>3, <1>1, <1>2, <1>3, <1>6 DEF Range
  <2>4. CASE i # 1 /\ j # 1
    <3>1. s[i - 1] = s[j - 1] /\ i - 1 \in DOMAIN s /\ j - 1 \in DOMAIN s
      BY <2>4, <1>2, <1>3
    <3>2. i - 1 = j - 1
      BY <3>1, <1>6 DEF IsInjective
    <3> QED
      BY <3>2, <2>0
  <2> QED
    BY <2>1, <2>2, <2>3, <2>4
<1> QED
  BY <1>1, <1>2, <1>5, <1>6 DEF t, n

LEMMA ChangesInv ==
  ASSUME BoardsInv, NEW rows \in Seq(BoardRowIds), NEW moved \in BOOLEAN, Changes(rows, moved), IsInjective(rows),
         moved \/ \E r \in BoardRowIds : r \notin Range(board) /\ rows = <<r>> \o board
  PROVE  BoardsInv'
<1>1. /\ stage = "page" /\ board' = rows
      /\ UNCHANGED <<kind, stage, verdict, asked, hosts, limit, shape, page, all, ending>>
      /\ walk' = [ever |-> walk.ever \cup Range(rows), always |-> walk.always \cap Range(rows),
                  moved |-> walk.moved \/ moved, skipped |-> walk.skipped,
                  full |-> walk.full \/ TooLong(rows), changes |-> walk.changes + 1]
  BY DEF Changes, accessVars
<1>2. /\ walk'.ever = walk.ever \cup Range(rows) /\ walk'.always = walk.always \cap Range(rows)
      /\ walk'.skipped = walk.skipped
  BY <1>1
<1>3. (walk'.moved <=> walk.moved \/ moved) /\ (walk'.full <=> walk.full \/ TooLong(rows))
  BY <1>1
<1>4. Range(rows) \subseteq BoardRowIds
  BY DEF Range
<1>5. walk' \in WalkRecords
  <2>1. /\ walk.ever \in SUBSET BoardRowIds /\ walk.always \in SUBSET BoardRowIds /\ walk.moved \in BOOLEAN
        /\ walk.skipped \in SUBSET Nat /\ walk.full \in BOOLEAN /\ walk.changes \in Nat
    BY DEF BoardsInv, BoardTypes, WalkRecords
  <2>2. (walk.moved \/ moved) \in BOOLEAN /\ (walk.full \/ TooLong(rows)) \in BOOLEAN
    BY <2>1
  <2>3. walk.ever \cup Range(rows) \in SUBSET BoardRowIds /\ walk.always \cap Range(rows) \in SUBSET BoardRowIds
    BY <1>4, <2>1
  <2>4. walk.changes + 1 \in Nat
    BY <2>1
  <2> QED
    BY <1>1, <2>1, <2>2, <2>3, <2>4 DEF WalkRecords
<1>6. BoardTypes'
  BY <1>1, <1>5, Zenon DEF BoardsInv, BoardTypes, ShapesOf, LastPage
<1>7. AccessInv'
  BY <1>1, Zenon DEF BoardsInv, AccessInv, VerdictKept, Granted
<1>8. BoardSeen'
  <2>1. TooLong(board)' <=> TooLong(rows)
    BY <1>1 DEF TooLong
  <2>2. walk'.full \/ ~ TooLong(board)'
    BY <1>3, <2>1
  <2>3. Range(board') \subseteq walk'.ever /\ walk'.always \subseteq Range(board')
    BY <1>1, <1>2
  <2>4. \A r \in Range(all') : r \in walk'.ever /\ shape'[r] = "wanted"
    BY <1>1, <1>2 DEF BoardsInv, BoardSeen
  <2> QED
    BY <1>1, <2>2, <2>3, <2>4 DEF BoardsInv, BoardSeen
<1>9. Excused => Excused'
  <2>1. BlankSeen => BlankSeen'
    BY <1>1, <1>2 DEF BlankSeen
  <2> QED
    BY <1>1, <1>3, <2>1 DEF Excused
<1>10. Lasting' \subseteq Lasting
  BY <1>1, <1>2 DEF Lasting
<1>11. kind \in Paged => Excused' \/ PagesRead'
  <2> SUFFICES ASSUME kind \in Paged, ~ Excused' PROVE PagesRead'
    OBVIOUS
  <2>1. ~ moved /\ PagesRead
    BY <1>1, <1>3, <1>9 DEF BoardsInv, ReadSoFar, Excused
  <2>2. PICK r \in BoardRowIds : r \notin Range(board) /\ rows = <<r>> \o board
    BY <2>1
  <2>3. board \in Seq(BoardRowIds) /\ page \in Nat /\ page > 0
    BY <1>1, BoardConstants DEF BoardsInv, BoardTypes, LastPage
  <2>4. /\ DOMAIN rows = 1 .. Len(board) + 1 /\ Len(board) \in Nat /\ rows[1] = r
        /\ \A i \in 2 .. Len(board) + 1 : rows[i] = board[i - 1] /\ i - 1 \in DOMAIN board
    BY <2>2, <2>3, AddedFirst
  <2>5. r \notin Lasting
    BY <1>1, <2>2 DEF BoardsInv, BoardSeen, Lasting
  <2>6. ASSUME NEW i \in DOMAIN rows, i <= (page - 1) * PageSize, rows[i] \in Lasting
        PROVE  rows[i] \in Range(all)
    <3>1. i # 1 /\ i \in 2 .. Len(board) + 1
      BY <2>4, <2>5, <2>6
    <3>2. (page - 1) * PageSize \in Int
      BY <2>3, BoardConstants
    <3>3. i - 1 <= (page - 1) * PageSize
      BY <2>6, <3>1, <3>2
    <3> QED
      BY <2>1, <2>4, <2>6, <3>1, <3>3 DEF PagesRead
  <2> QED
    BY <1>1, <1>10, <2>6 DEF PagesRead
<1>12. kind = "greeting" => Excused' \/ TenantsRead'
  BY <1>1, <1>2, <1>9, <1>10 DEF BoardsInv, ReadSoFar, TenantsRead
<1>13. ReadSoFar'
  BY <1>1, <1>11, <1>12 DEF ReadSoFar
<1>14. AllDue'
  BY <1>1 DEF BoardsInv, BoardSeen, AllDue
<1> QED
  BY <1>6, <1>7, <1>8, <1>13, <1>14, Zenon DEF BoardsInv

LEMMA BoardStepInv ==
  ASSUME BoardsInv, NEW r \in BoardRowIds, Publish(r) \/ Withdraw(r) \/ Promote(r)
  PROVE  BoardsInv'
<1>1. board \in Seq(BoardRowIds) /\ IsInjective(board)
  BY DEF BoardsInv, BoardTypes
<1> DEFINE rest == BoardWithout(r)
<1>2. rest \in Seq(BoardRowIds) /\ IsInjective(rest) /\ r \notin Range(rest)
  BY <1>1, KeptRange DEF BoardWithout
<1> HIDE DEF rest
<1>3. CASE Publish(r)
  <2>1. r \notin Range(board) /\ Changes(<<r>> \o board, FALSE)
    BY <1>3 DEF Publish
  <2>2. <<r>> \o board \in Seq(BoardRowIds) /\ IsInjective(<<r>> \o board)
    BY <1>1, <2>1, AddedFirst
  <2> QED
    BY <2>1, <2>2, ChangesInv
<1>4. CASE Withdraw(r)
  BY <1>2, <1>4, ChangesInv DEF Withdraw, rest
<1>5. CASE Promote(r)
  <2>1. Changes(<<r>> \o rest, TRUE)
    BY <1>5 DEF Promote, rest
  <2>2. <<r>> \o rest \in Seq(BoardRowIds) /\ IsInjective(<<r>> \o rest)
    BY <1>2, AddedFirst
  <2> QED
    BY <2>1, <2>2, ChangesInv
<1> QED
  BY <1>3, <1>4, <1>5

-----------------------------------------------------------------------------
(* The pages of a listing.                                                 *)

\* What a parser that does not refuse makes of rows.
Parsed(kept, rows) ==
  /\ kept \in Seq(BoardRowIds)
  /\ \A r \in Range(kept) : r \in Range(rows) /\ shape[r] = "wanted"
  /\ \A r \in Range(rows) : shape[r] = "wanted" => r \in Range(kept)
  /\ kind \in Paged /\ (\A r \in Range(rows) : shape[r] # "blank") => Len(kept) = Len(rows)

LEMMA WantedParsed ==
  ASSUME NEW rows \in Seq(BoardRowIds), shape \in [BoardRowIds -> ShapesOf(kind)],
         kind = "jumpit" \/ kind = "rallit" => ~ Has(rows, "bad")
  PROVE  Parsed(Wanted(rows), rows)
<1> DEFINE stay == {r \in BoardRowIds : shape[r] = "wanted"}
           kept == EntriesKept(rows, stay)
<1>1. /\ kept \in Seq(BoardRowIds) /\ Range(kept) = Range(rows) \cap stay
      /\ Range(rows) \subseteq stay => Len(kept) = Len(rows)
  BY KeptRange
<1>2. Range(rows) \subseteq BoardRowIds
  BY DEF Range
<1>3. Wanted(rows) = kept
  BY DEF Wanted
<1> HIDE DEF kept
<1>4. /\ \A r \in Range(kept) : r \in Range(rows) /\ shape[r] = "wanted"
      /\ \A r \in Range(rows) : shape[r] = "wanted" => r \in Range(kept)
  BY <1>1, <1>2
<1>5. ASSUME kind \in Paged, \A r \in Range(rows) : shape[r] # "blank" PROVE Len(kept) = Len(rows)
  <2>1. ASSUME NEW r \in Range(rows) PROVE shape[r] = "wanted"
    <3>1. r \in BoardRowIds /\ shape[r] \in ShapesOf(kind) /\ shape[r] # "blank"
      BY <1>2, <1>5
    <3>2. kind \in {"jumpit", "rallit", "worknet"}
      BY <1>5 DEF Paged
    <3>3. kind = "jumpit" \/ kind = "rallit" => shape[r] # "bad"
      BY DEF Has
    <3> QED
      BY <3>1, <3>2, <3>3 DEF ShapesOf
  <2> QED
    BY <1>1, <1>2, <2>1
<1> QED
  BY <1>1, <1>3, <1>4, <1>5 DEF Parsed

LEMMA AllParsed ==
  ASSUME NEW rows \in Seq(BoardRowIds), shape \in [BoardRowIds -> ShapesOf(kind)],
         kind = "jumpit", ~ Has(rows, "bad")
  PROVE  Parsed(rows, rows)
<1>1. ASSUME NEW r \in Range(rows) PROVE shape[r] = "wanted"
  <2>1. r \in BoardRowIds
    BY DEF Range
  <2>2. shape[r] \in {"wanted", "bad"} /\ shape[r] # "bad"
    BY <2>1 DEF Has, ShapesOf
  <2> QED
    BY <2>2
<1> QED
  BY <1>1 DEF Parsed

LEMMA JoinedRange ==
  ASSUME NEW S, NEW s \in Seq(S), NEW t \in Seq(S)
  PROVE  s \o t \in Seq(S) /\ Range(s \o t) = Range(s) \cup Range(t)
<1> DEFINE u == s \o t
           m == Len(s)
           n == Len(t)
<1>1. /\ u \in Seq(S) /\ Len(u) = m + n /\ m \in Nat /\ n \in Nat
      /\ DOMAIN s = 1 .. m /\ DOMAIN t = 1 .. n /\ DOMAIN u = 1 .. m + n
  OBVIOUS
<1>2. (\A i \in 1 .. m : u[i] = s[i]) /\ (\A i \in 1 .. n : u[m + i] = t[i])
  OBVIOUS
<1> HIDE DEF u, m, n
<1>3. \A x \in Range(u) : x \in Range(s) \/ x \in Range(t)
  <2> SUFFICES ASSUME NEW i \in DOMAIN u PROVE u[i] \in Range(s) \/ u[i] \in Range(t)
    BY DEF Range
  <2>1. CASE i \in 1 .. m
    BY <1>1, <1>2, <2>1 DEF Range
  <2>2. CASE i \notin 1 .. m
    <3>1. i - m \in 1 .. n /\ m + (i - m) = i
      BY <1>1, <2>2
    <3>2. u[i] = t[i - m]
      BY <1>2, <3>1
    <3> QED
      BY <1>1, <3>1, <3>2 DEF Range
  <2> QED
    BY <2>1, <2>2
<1>4. \A x \in Range(s) : x \in Range(u)
  <2>1. \A i \in DOMAIN s : i \in DOMAIN u /\ u[i] = s[i]
    BY <1>1, <1>2
  <2> QED
    BY <2>1 DEF Range
<1>5. \A x \in Range(t) : x \in Range(u)
  <2>1. \A i \in DOMAIN t : m + i \in DOMAIN u /\ u[m + i] = t[i]
    BY <1>1, <1>2
  <2> QED
    BY <2>1 DEF Range
<1> QED
  BY <1>1, <1>3, <1>4, <1>5 DEF u

LEMMA ClampFacts ==
  ASSUME NEW S, NEW rows \in Seq(S), limit \in Nat
  PROVE  /\ Clamp(rows) \in Seq(S) /\ Range(Clamp(rows)) \subseteq Range(rows)
         /\ limit > 0 => Len(Clamp(rows)) <= limit
         /\ ~ (limit > 0) => Clamp(rows) = rows
<1>1. CASE limit > 0 /\ Len(rows) > limit
  <2> DEFINE cut == SubSeq(rows, 1, limit)
  <2>1. Clamp(rows) = cut
    BY <1>1 DEF Clamp
  <2>2. DOMAIN rows = 1 .. Len(rows) /\ Len(rows) \in Nat
    OBVIOUS
  <2>3. \A i \in 1 .. limit : i \in DOMAIN rows /\ rows[i] \in S
    BY <1>1, <2>2
  <2>4. /\ cut \in Seq(S) /\ Len(cut) = (IF 1 <= limit THEN limit - 1 + 1 ELSE 0)
        /\ \A i \in 1 .. limit - 1 + 1 : cut[i] = rows[1 + i - 1]
    <3>1. 1 \in Int /\ limit \in Int
      OBVIOUS
    <3> QED
      BY <2>3, <3>1, SubSeqProperties
  <2> HIDE DEF cut
  <2>5. Len(cut) = limit /\ DOMAIN cut = 1 .. limit /\ \A i \in 1 .. limit : cut[i] = rows[i]
    BY <1>1, <2>4
  <2>6. Range(cut) \subseteq Range(rows)
    BY <2>3, <2>5 DEF Range
  <2> QED
    BY <1>1, <2>1, <2>4, <2>5, <2>6
<1>2. CASE ~ (limit > 0 /\ Len(rows) > limit)
  BY <1>2 DEF Clamp
<1> QED
  BY <1>1, <1>2

LEMMA PageFacts ==
  ASSUME board \in Seq(BoardRowIds), page \in Nat, page > 0
  PROVE  /\ PageRows \in Seq(BoardRowIds) /\ Range(PageRows) \subseteq Range(board)
         /\ \A i \in DOMAIN board :
              i <= page * PageSize => i <= (page - 1) * PageSize \/ board[i] \in Range(PageRows)
         /\ Len(PageRows) < PageSize => Len(board) <= page * PageSize
<1> DEFINE n == Len(board)
           a == (page - 1) * PageSize
           b == page * PageSize
           last == Min({b, n})
<1>1. n \in Nat /\ DOMAIN board = 1 .. n /\ \A i \in 1 .. n : board[i] \in BoardRowIds
  OBVIOUS
<1>2. a \in Nat /\ b \in Nat /\ b = a + PageSize
  BY BoardConstants
<1>3. last = IF b <= n THEN b ELSE n
  <2>1. b \in Int /\ n \in Int
    BY <1>1, <1>2
  <2> HIDE DEF b, n
  <2> QED
    BY <2>1, LeastOfTwo
<1>4. PageRows = SubSeq(board, a + 1, last)
  BY DEF PageRows
<1> HIDE DEF n, a, b, last
<1>5. last \in Int /\ a + 1 \in Int /\ \A i \in (a + 1) .. last : i \in 1 .. n
  BY <1>1, <1>2, <1>3
<1> DEFINE rows == SubSeq(board, a + 1, last)
<1>6. /\ rows \in Seq(BoardRowIds) /\ Len(rows) = (IF a + 1 <= last THEN last - (a + 1) + 1 ELSE 0)
      /\ \A i \in 1 .. last - (a + 1) + 1 : rows[i] = board[(a + 1) + i - 1]
  <2>1. \A i \in (a + 1) .. last : board[i] \in BoardRowIds
    BY <1>1, <1>5
  <2> QED
    BY <1>5, <2>1, SubSeqProperties
<1> HIDE DEF rows
<1>7. DOMAIN rows = 1 .. Len(rows) /\ Len(rows) \in Nat
  BY <1>6
<1>8. ASSUME NEW i \in DOMAIN rows PROVE a + i \in DOMAIN board /\ rows[i] = board[a + i]
  <2>1. a + 1 <= last /\ i \in 1 .. last - (a + 1) + 1 /\ i \in Nat
    BY <1>2, <1>5, <1>6, <1>7, <1>8
  <2>2. (a + 1) + i - 1 = a + i /\ a + i \in (a + 1) .. last
    BY <1>2, <1>5, <2>1
  <2> QED
    BY <1>1, <1>5, <1>6, <2>1, <2>2
<1>9. Range(rows) \subseteq Range(board)
  BY <1>8 DEF Range
<1>10. ASSUME NEW i \in DOMAIN board, i <= b, ~ (i <= a) PROVE board[i] \in Range(rows)
  <2>1. i \in 1 .. n /\ i <= last /\ a + 1 <= i
    BY <1>1, <1>2, <1>3, <1>10
  <2>2. i - a \in 1 .. last - (a + 1) + 1 /\ i - a \in DOMAIN rows
    BY <1>1, <1>2, <1>5, <1>6, <1>7, <2>1
  <2>3. a + (i - a) = i
    BY <1>1, <1>2, <2>1
  <2>4. rows[i - a] = board[i]
    BY <1>8, <2>2, <2>3
  <2> QED
    BY <2>2, <2>4 DEF Range
<1>11. Len(rows) < PageSize => n <= b
  BY <1>1, <1>2, <1>3, <1>5, <1>6, BoardConstants
<1> QED
  BY <1>4, <1>6, <1>9, <1>10, <1>11 DEF rows, a, b, n

\* An answer to the listing leaves the rest as it is; a tenant may be skipped.
OnlyListing ==
  /\ stage = "page" /\ UNCHANGED <<kind, verdict, asked, hosts, limit, shape, board>>
  /\ walk' \in WalkRecords /\ walk'.ever = walk.ever /\ walk'.always = walk.always
  /\ walk'.moved = walk.moved /\ walk'.full = walk.full

LEMMA EndListingInv ==
  ASSUME BoardsInv, OnlyListing, NEW rows \in Seq(BoardRowIds), NEW how \in {"ok", "error"}, EndListing(rows, how),
         \A r \in Range(rows) : r \in walk.ever /\ shape[r] = "wanted",
         how = "ok" => (limit > 0 => Len(rows) <= limit) /\ (Excused \/ Due' \subseteq Range(rows))
  PROVE  BoardsInv'
<1>1. stage' = "idle" /\ all' = rows /\ ending' = how /\ page' = 0
  BY DEF EndListing
<1>2. BoardTypes'
  BY <1>1, Zenon DEF OnlyListing, BoardsInv, BoardTypes, ShapesOf
<1>3. AccessInv'
  BY <1>1, Zenon DEF OnlyListing, BoardsInv, AccessInv, VerdictKept
<1>4. BoardSeen'
  BY <1>1, Zenon DEF OnlyListing, BoardSeen
<1>5. ReadSoFar'
  BY <1>1 DEF ReadSoFar
<1>6. Excused => Excused'
  BY Zenon DEF OnlyListing, Excused, BlankSeen
<1>7. AllDue'
  BY <1>1, <1>6, Zenon DEF OnlyListing, AllDue
<1> QED
  BY <1>2, <1>3, <1>4, <1>5, <1>7, Zenon DEF BoardsInv

LEMMA GoOnInv ==
  ASSUME BoardsInv, OnlyListing, NEW rows \in Seq(BoardRowIds), GoOn(rows), page # LastPage,
         \A r \in Range(rows) : r \in walk.ever /\ shape[r] = "wanted",
         kind \in Paged => Excused \/ \A i \in DOMAIN board :
           i <= page * PageSize /\ board[i] \in Lasting => board[i] \in Range(rows),
         kind = "greeting" => Excused \/ \A r \in Lasting :
           TenantOf[r] <= page /\ TenantOf[r] \notin walk'.skipped => r \in Range(rows)
  PROVE  BoardsInv'
<1>1. all' = rows /\ page' = page + 1 /\ UNCHANGED <<stage, ending>> /\ stage = "page"
  BY DEF GoOn, OnlyListing
<1>2. page \in 1 .. LastPage /\ LastPage \in Nat
  BY <1>1, BoardConstants DEF BoardsInv, BoardTypes, LastPage
<1>3. page' \in 1 .. LastPage /\ page' - 1 = page
  BY <1>1, <1>2
<1>4. BoardTypes'
  BY <1>1, <1>3, Zenon DEF OnlyListing, BoardsInv, BoardTypes, ShapesOf, LastPage
<1>5. AccessInv'
  BY <1>1, Zenon DEF OnlyListing, BoardsInv, AccessInv, VerdictKept, Granted
<1>6. BoardSeen'
  BY <1>1, Zenon DEF OnlyListing, BoardsInv, BoardSeen, TooLong
<1>7. Excused => Excused'
  BY Zenon DEF OnlyListing, Excused, BlankSeen
<1>8. Lasting' = Lasting
  BY Zenon DEF OnlyListing, Lasting
<1>9. kind \in Paged => Excused' \/ PagesRead'
  BY <1>1, <1>3, <1>7, <1>8, Zenon DEF OnlyListing, PagesRead
<1>10. kind = "greeting" => Excused' \/ TenantsRead'
  <2> SUFFICES ASSUME kind = "greeting", ~ Excused' PROVE TenantsRead'
    OBVIOUS
  <2>1. \A r \in Lasting : TenantOf[r] <= page /\ TenantOf[r] \notin walk'.skipped => r \in Range(rows)
    BY <1>7
  <2>2. \A r \in Lasting : TenantOf[r] \in Nat
    <3>1. \A r \in Lasting : r \in BoardRowIds
      BY DEF Lasting, BoardsInv, BoardTypes, WalkRecords
    <3> QED
      BY <3>1, BoardsAssumption
  <2>3. \A r \in Lasting : TenantOf[r] < page' => TenantOf[r] <= page
    BY <1>1, <1>2, <2>2
  <2> QED
    BY <1>1, <1>8, <2>1, <2>3 DEF TenantsRead
<1>11. ReadSoFar'
  BY <1>9, <1>10, Zenon DEF OnlyListing, ReadSoFar
<1>12. AllDue'
  BY <1>1 DEF BoardsInv, BoardSeen, AllDue
<1> QED
  BY <1>4, <1>5, <1>6, <1>11, <1>12, Zenon DEF BoardsInv

\* What an answered page or tenant adds.
LEMMA GotRows ==
  ASSUME BoardsInv, stage = "page", NEW rows, Range(rows) \subseteq Range(board), NEW kept, Parsed(kept, rows)
  PROVE  /\ all \o kept \in Seq(BoardRowIds) /\ Range(all \o kept) = Range(all) \cup Range(kept)
         /\ \A r \in Range(all \o kept) : r \in walk.ever /\ shape[r] = "wanted"
<1>1. all \in Seq(BoardRowIds) /\ kept \in Seq(BoardRowIds)
  BY DEF BoardsInv, BoardTypes, Parsed
<1>2. all \o kept \in Seq(BoardRowIds) /\ Range(all \o kept) = Range(all) \cup Range(kept)
  BY <1>1, JoinedRange
<1>3. \A r \in Range(kept) : r \in walk.ever /\ shape[r] = "wanted"
  BY DEF BoardsInv, BoardSeen, Parsed
<1> QED
  BY <1>2, <1>3 DEF BoardsInv, BoardSeen

LEMMA LimitIsNat == ASSUME BoardsInv PROVE limit \in Nat
BY BoardConstants DEF BoardsInv, BoardTypes

LEMMA FailedInv == ASSUME BoardsInv, OnlyListing, EndListing(<<>>, "error") PROVE BoardsInv'
<1>1. <<>> \in Seq(BoardRowIds) /\ Range(<<>>) = {}
  BY DEF Range
<1> QED
  BY <1>1, EndListingInv

LEMMA WalkPagesInv ==
  ASSUME BoardsInv, OnlyListing, kind \in Paged, UNCHANGED walk, NEW kept, WalkPages(kept),
         kept # Refused => Parsed(kept, PageRows)
  PROVE  BoardsInv'
<1> DEFINE got == all \o kept
<1>0. page \in Nat /\ page > 0 /\ page \in 1 .. LastPage /\ LastPage = MaxListingPages /\ stage = "page"
      /\ board \in Seq(BoardRowIds) /\ all \in Seq(BoardRowIds) /\ DOMAIN board = 1 .. Len(board) /\ Len(board) \in Nat
  BY BoardConstants DEF BoardsInv, BoardTypes, OnlyListing, LastPage
<1>1. CASE kept = Refused
  BY <1>1, FailedInv DEF WalkPages
<1>2. CASE kept # Refused
  <2>1. /\ PageRows \in Seq(BoardRowIds) /\ Range(PageRows) \subseteq Range(board)
        /\ \A i \in DOMAIN board :
             i <= page * PageSize => i <= (page - 1) * PageSize \/ board[i] \in Range(PageRows)
        /\ Len(PageRows) < PageSize => Len(board) <= page * PageSize
    BY <1>0, PageFacts
  <2>2. /\ got \in Seq(BoardRowIds) /\ Range(got) = Range(all) \cup Range(kept)
        /\ \A r \in Range(got) : r \in walk.ever /\ shape[r] = "wanted"
    BY <1>0, <1>2, <2>1, GotRows
  <2>3. Excused \/ \A i \in DOMAIN board : i <= page * PageSize /\ board[i] \in Lasting => board[i] \in Range(got)
    <3> SUFFICES ASSUME ~ Excused, NEW i \in DOMAIN board, i <= page * PageSize, board[i] \in Lasting
                 PROVE  board[i] \in Range(got)
      OBVIOUS
    <3>1. PagesRead
      BY <1>0 DEF BoardsInv, ReadSoFar
    <3>2. CASE i <= (page - 1) * PageSize
      BY <2>2, <3>1, <3>2 DEF PagesRead
    <3>3. CASE board[i] \in Range(PageRows)
      BY <1>2, <2>2, <3>3 DEF Parsed, Lasting
    <3> QED
      BY <2>1, <3>2, <3>3
  <2> DEFINE last == LimitReached(got) \/ Len(kept) < PageSize \/ page = MaxListingPages
  <2>4. CASE last
    <3>1. EndListing(Clamp(got), "ok")
      BY <1>2, <2>4 DEF WalkPages
    <3>2. /\ Clamp(got) \in Seq(BoardRowIds) /\ Range(Clamp(got)) \subseteq Range(got)
          /\ limit > 0 => Len(Clamp(got)) <= limit
          /\ ~ (limit > 0) => Clamp(got) = got
      BY <2>2, LimitIsNat, ClampFacts
    <3>3. Excused \/ Due' \subseteq Range(Clamp(got))
      <4> SUFFICES ASSUME ~ Excused PROVE Due' \subseteq Range(Clamp(got))
        OBVIOUS
      <4>1. ~ (limit > 0) /\ ~ walk.full /\ ~ BlankSeen
        BY DEF Excused
      <4>2. Len(board) <= page * PageSize
        <5>1. CASE Len(kept) < PageSize
          <6>1. \A r \in Range(PageRows) : shape[r] # "blank"
            BY <1>0, <2>1, <4>1 DEF BoardsInv, BoardSeen, BlankSeen
          <6>2. Len(kept) = Len(PageRows)
            BY <1>2, <6>1 DEF Parsed
          <6> QED
            BY <2>1, <5>1, <6>2
        <5>2. CASE page = MaxListingPages
          <6>1. ~ (Len(board) > PageSize * MaxListingPages)
            BY <1>0, <4>1 DEF BoardsInv, BoardSeen, TooLong
          <6> QED
            BY <1>0, <5>2, <6>1, BoardConstants
        <5> QED
          BY <2>4, <4>1, <5>1, <5>2 DEF LimitReached
      <4>3. ASSUME NEW r \in Due' PROVE r \in Range(got)
        <5>1. r \in Lasting
          BY DEF Due, Lasting, OnlyListing
        <5>2. PICK i \in DOMAIN board : r = board[i]
          BY <1>0, <5>1 DEF BoardsInv, BoardSeen, Lasting, Range
        <5>3. i <= page * PageSize
          BY <1>0, <4>2, BoardConstants
        <5> QED
          BY <2>3, <5>1, <5>2, <5>3
      <4> QED
        BY <3>2, <4>1, <4>3
    <3>4. \A r \in Range(Clamp(got)) : r \in walk.ever /\ shape[r] = "wanted"
      BY <2>2, <3>2
    <3> HIDE DEF got
    <3> QED
      BY <3>1, <3>2, <3>3, <3>4, EndListingInv
  <2>5. CASE ~ last
    <3>1. GoOn(got) /\ page # LastPage
      BY <1>0, <1>2, <2>5 DEF WalkPages
    <3>2. kind # "greeting"
      BY DEF Paged
    <3> HIDE DEF got
    <3> QED
      BY <2>2, <2>3, <3>1, <3>2, GoOnInv
  <2> QED
    BY <2>4, <2>5
<1> QED
  BY <1>1, <1>2

LEMMA FirstRowsFacts ==
  ASSUME board \in Seq(BoardRowIds)
  PROVE  /\ FirstRows \in Seq(BoardRowIds) /\ Range(FirstRows) \subseteq Range(board)
         /\ Len(board) <= ServerRows => FirstRows = board
<1> DEFINE n == Len(board)
           last == Min({ServerRows, n})
           rows == SubSeq(board, 1, last)
<1>1. n \in Nat /\ DOMAIN board = 1 .. n /\ \A i \in 1 .. n : board[i] \in BoardRowIds
  OBVIOUS
<1>2. last = IF ServerRows <= n THEN ServerRows ELSE n
  <2>1. n \in Int /\ ServerRows \in Int
    BY <1>1, BoardConstants
  <2> HIDE DEF n
  <2> QED
    BY <2>1, LeastOfTwo
<1> HIDE DEF last
<1>3. last \in Nat /\ last <= n /\ \A i \in 1 .. last : i \in 1 .. n
  <2>1. ServerRows \in Nat /\ n \in Nat
    BY <1>1, BoardConstants
  <2> HIDE DEF n
  <2> QED
    BY <1>2, <2>1
<1>4. /\ rows \in Seq(BoardRowIds) /\ Len(rows) = (IF 1 <= last THEN last - 1 + 1 ELSE 0)
      /\ \A i \in 1 .. last - 1 + 1 : rows[i] = board[1 + i - 1]
  <2>1. \A i \in 1 .. last : board[i] \in BoardRowIds
    BY <1>1, <1>3
  <2>2. 1 \in Int /\ last \in Int
    BY <1>3
  <2> QED
    BY <2>1, <2>2, SubSeqProperties
<1>5. FirstRows = rows
  BY DEF FirstRows, last
<1> HIDE DEF rows
<1>6. Len(rows) = last /\ DOMAIN rows = 1 .. last /\ \A i \in 1 .. last : rows[i] = board[i]
  BY <1>3, <1>4
<1>7. Range(rows) \subseteq Range(board)
  BY <1>1, <1>3, <1>6 DEF Range
<1>8. ASSUME Len(board) <= ServerRows PROVE rows = board
  <2>1. last = n
    <3>1. n <= ServerRows /\ n \in Nat /\ ServerRows \in Nat
      BY <1>1, <1>8, BoardConstants
    <3> HIDE DEF n
    <3> QED
      BY <1>2, <3>1
  <2>2. rows = [i \in 1 .. n |-> rows[i]] /\ board = [i \in 1 .. n |-> board[i]]
    BY <1>1, <1>4, <1>6, <2>1
  <2>3. \A i \in 1 .. n : rows[i] = board[i]
    BY <1>6, <2>1
  <2> HIDE DEF n
  <2> QED
    BY <2>2, <2>3, Zenon
<1> QED
  BY <1>4, <1>5, <1>7, <1>8

LEMMA OneAnswerInv ==
  ASSUME BoardsInv, OnlyListing, UNCHANGED walk, NEW rows, NEW kept, OneAnswer(kept),
         Range(rows) \subseteq Range(board), walk.full \/ Range(rows) = Range(board),
         kept # Refused => Parsed(kept, rows)
  PROVE  BoardsInv'
<1>1. CASE kept = Refused
  BY <1>1, FailedInv DEF OneAnswer
<1>2. CASE kept # Refused
  <2>1. EndListing(Clamp(kept), "ok") /\ Parsed(kept, rows) /\ kept \in Seq(BoardRowIds) /\ stage = "page"
    BY <1>2 DEF OneAnswer, Parsed, OnlyListing
  <2>2. /\ Clamp(kept) \in Seq(BoardRowIds) /\ Range(Clamp(kept)) \subseteq Range(kept)
        /\ limit > 0 => Len(Clamp(kept)) <= limit
        /\ ~ (limit > 0) => Clamp(kept) = kept
    BY <2>1, LimitIsNat, ClampFacts
  <2>3. \A r \in Range(Clamp(kept)) : r \in walk.ever /\ shape[r] = "wanted"
    BY <2>1, <2>2 DEF Parsed, BoardsInv, BoardSeen
  <2>4. Excused \/ Due' \subseteq Range(Clamp(kept))
    <3> SUFFICES ASSUME ~ Excused, NEW r \in Due' PROVE r \in Range(Clamp(kept))
      OBVIOUS
    <3>1. ~ (limit > 0) /\ Range(rows) = Range(board)
      BY DEF Excused
    <3>2. r \in Range(board) /\ shape[r] = "wanted"
      BY <2>1 DEF Due, OnlyListing, BoardsInv, BoardSeen
    <3> QED
      BY <2>1, <2>2, <3>1, <3>2 DEF Parsed
  <2> QED
    BY <2>1, <2>2, <2>3, <2>4, EndListingInv
<1> QED
  BY <1>1, <1>2

\* The tenant whose turn it is has answered with kept, or is passed over.
LEMMA NextTenantInv ==
  ASSUME BoardsInv, OnlyListing, kind = "greeting", NEW kept \in Seq(BoardRowIds), NextTenant(kept),
         \A r \in Range(kept) : r \in walk.ever /\ shape[r] = "wanted",
         walk.skipped \subseteq walk'.skipped,
         page \in walk'.skipped \/ \A r \in Lasting : TenantOf[r] = page => r \in Range(kept)
  PROVE  BoardsInv'
<1> DEFINE got == all \o kept
<1>0. page \in Nat /\ page > 0 /\ page \in 1 .. LastPage /\ LastPage = Tenants /\ stage = "page" /\ all \in Seq(BoardRowIds)
  BY BoardConstants DEF BoardsInv, BoardTypes, OnlyListing, LastPage, Paged
<1>1. got \in Seq(BoardRowIds) /\ Range(got) = Range(all) \cup Range(kept)
  BY <1>0, JoinedRange
<1>2. \A r \in Range(got) : r \in walk.ever /\ shape[r] = "wanted"
  BY <1>1 DEF BoardsInv, BoardSeen
<1>3. \A r \in Lasting : TenantOf[r] \in 1 .. Tenants
  <2>1. \A r \in Lasting : r \in BoardRowIds
    BY DEF Lasting, BoardsInv, BoardTypes, WalkRecords
  <2> QED
    BY <2>1, BoardsAssumption
<1>4. Excused \/ \A r \in Lasting : TenantOf[r] <= page /\ TenantOf[r] \notin walk'.skipped => r \in Range(got)
  <2> SUFFICES ASSUME ~ Excused, NEW r \in Lasting, TenantOf[r] <= page, TenantOf[r] \notin walk'.skipped
               PROVE  r \in Range(got)
    OBVIOUS
  <2>1. TenantsRead
    BY <1>0 DEF BoardsInv, ReadSoFar
  <2>2. CASE TenantOf[r] = page
    BY <1>1, <2>2
  <2>3. CASE TenantOf[r] # page
    <3>1. TenantOf[r] < page
      BY <1>0, <1>3, <2>3, BoardConstants
    <3> QED
      BY <1>1, <2>1, <3>1 DEF TenantsRead
  <2> QED
    BY <2>2, <2>3
<1>5. CASE LimitReached(got) \/ page = Tenants
  <2>1. EndListing(Clamp(got), "ok")
    BY <1>5 DEF NextTenant
  <2>2. /\ Clamp(got) \in Seq(BoardRowIds) /\ Range(Clamp(got)) \subseteq Range(got)
        /\ limit > 0 => Len(Clamp(got)) <= limit
        /\ ~ (limit > 0) => Clamp(got) = got
    BY <1>1, LimitIsNat, ClampFacts
  <2>3. Excused \/ Due' \subseteq Range(Clamp(got))
    <3> SUFFICES ASSUME ~ Excused, NEW r \in Due' PROVE r \in Range(Clamp(got))
      OBVIOUS
    <3>1. ~ (limit > 0) /\ page = Tenants
      BY <1>5 DEF Excused, LimitReached
    <3>2. r \in Lasting /\ TenantOf[r] \notin walk'.skipped
      BY DEF Due, Lasting, OnlyListing
    <3>3. TenantOf[r] <= page
      BY <1>3, <3>1, <3>2, BoardConstants
    <3> QED
      BY <1>4, <2>2, <3>1, <3>2, <3>3
  <2>4. \A r \in Range(Clamp(got)) : r \in walk.ever /\ shape[r] = "wanted"
    BY <1>2, <2>2
  <2> HIDE DEF got
  <2> QED
    BY <2>1, <2>2, <2>3, <2>4, EndListingInv
<1>6. CASE ~ (LimitReached(got) \/ page = Tenants)
  <2>1. GoOn(got) /\ page # LastPage /\ kind \notin Paged
    BY <1>0, <1>6 DEF NextTenant, Paged
  <2> HIDE DEF got
  <2> QED
    BY <1>1, <1>2, <1>4, <2>1, GoOnInv
<1> QED
  BY <1>5, <1>6

LEMMA AnsweredOnly == ASSUME BoardsInv, Answered PROVE OnlyListing /\ UNCHANGED walk
BY DEF Answered, OnlyListing, accessVars, BoardsInv, BoardTypes

LEMMA ListingInv == ASSUME BoardsInv, Listing PROVE BoardsInv'
<1>0. /\ board \in Seq(BoardRowIds) /\ shape \in [BoardRowIds -> ShapesOf(kind)]
  BY DEF BoardsInv, BoardTypes
<1>p. ASSUME Answered PROVE PageRows \in Seq(BoardRowIds)
  <2>1. page \in Nat /\ page > 0
    BY <1>p, BoardConstants DEF Answered, BoardsInv, BoardTypes, LastPage
  <2> QED
    BY <1>0, <2>1, PageFacts
<1>1. CASE JumpitFetchListing
  <2>1. kind = "jumpit" /\ Answered /\ WalkPages(JumpitParse(PageRows)) /\ kind \in Paged
    BY <1>1 DEF JumpitFetchListing, Paged
  <2>2. JumpitParse(PageRows) # Refused => Parsed(JumpitParse(PageRows), PageRows)
    BY <1>0, <1>p, <2>1, AllParsed DEF JumpitParse
  <2> QED
    BY <2>1, <2>2, AnsweredOnly, WalkPagesInv
<1>2. CASE RallitFetchListing
  <2>1. kind = "rallit" /\ Answered /\ WalkPages(RallitParse(PageRows)) /\ kind \in Paged
    BY <1>2 DEF RallitFetchListing, Paged
  <2>2. RallitParse(PageRows) # Refused => Parsed(RallitParse(PageRows), PageRows)
    BY <1>0, <1>p, <2>1, WantedParsed DEF RallitParse
  <2> QED
    BY <2>1, <2>2, AnsweredOnly, WalkPagesInv
<1>3. CASE WorknetFetchListing
  <2>1. kind = "worknet" /\ Answered /\ WalkPages(WorknetParse(PageRows)) /\ kind \in Paged
    BY <1>3 DEF WorknetFetchListing, Paged
  <2>2. WorknetParse(PageRows) # Refused => Parsed(WorknetParse(PageRows), PageRows)
    BY <1>0, <1>p, <2>1, WantedParsed DEF WorknetParse
  <2> QED
    BY <2>1, <2>2, AnsweredOnly, WalkPagesInv
<1>4. CASE GreenhouseFetchListing
  <2>1. kind = "greenhouse" /\ Answered /\ OneAnswer(GreenhouseParse(board))
    BY <1>4 DEF GreenhouseFetchListing
  <2>2. GreenhouseParse(board) # Refused => Parsed(GreenhouseParse(board), board)
    BY <1>0, <2>1, WantedParsed DEF GreenhouseParse
  <2> QED
    BY <2>1, <2>2, AnsweredOnly, OneAnswerInv
<1>5. CASE DemodayFetchListing
  <2>1. kind = "demoday" /\ Answered /\ OneAnswer(DemodayParse(FirstRows))
    BY <1>5 DEF DemodayFetchListing
  <2>2. /\ FirstRows \in Seq(BoardRowIds) /\ Range(FirstRows) \subseteq Range(board)
        /\ Len(board) <= ServerRows => FirstRows = board
    BY <1>0, FirstRowsFacts
  <2>3. walk.full \/ Range(FirstRows) = Range(board)
    <3>1. walk.full \/ ~ TooLong(board)
      BY <2>1 DEF Answered, BoardsInv, BoardSeen
    <3>2. ~ TooLong(board) => Len(board) <= ServerRows
      BY <1>0, <2>1, BoardConstants DEF TooLong
    <3> QED
      BY <2>2, <3>1, <3>2
  <2>4. DemodayParse(FirstRows) # Refused => Parsed(DemodayParse(FirstRows), FirstRows)
    BY <1>0, <2>1, <2>2, WantedParsed DEF DemodayParse
  <2> QED
    BY <2>1, <2>2, <2>3, <2>4, AnsweredOnly, OneAnswerInv
<1>6. CASE GreetingFetchListing
  <2>1. kind = "greeting" /\ Answered /\ NextTenant(ParseBoard(TenantRows)) /\ stage = "page"
    BY <1>6 DEF GreetingFetchListing, Answered
  <2> DEFINE theirs == {r \in BoardRowIds : TenantOf[r] = page}
  <2>2. TenantRows \in Seq(BoardRowIds) /\ Range(TenantRows) = Range(board) \cap theirs
    BY <1>0, KeptRange DEF TenantRows
  <2> DEFINE kept == ParseBoard(TenantRows)
  <2>3. Parsed(kept, TenantRows)
    BY <1>0, <2>1, <2>2, WantedParsed DEF ParseBoard
  <2> HIDE DEF kept
  <2>4. kept \in Seq(BoardRowIds) /\ \A r \in Range(kept) : r \in walk.ever /\ shape[r] = "wanted"
    BY <2>1, <2>2, <2>3 DEF Parsed, BoardsInv, BoardSeen
  <2>5. ASSUME NEW r \in Lasting, TenantOf[r] = page PROVE r \in Range(kept)
    <3>1. r \in Range(board) /\ r \in BoardRowIds /\ shape[r] = "wanted"
      BY <2>1 DEF Lasting, BoardsInv, BoardSeen, BoardTypes, WalkRecords
    <3> QED
      BY <2>2, <2>3, <2>5, <3>1 DEF Parsed
  <2>6. OnlyListing /\ UNCHANGED walk /\ NextTenant(kept)
    BY <2>1, AnsweredOnly DEF kept
  <2> QED
    BY <2>1, <2>4, <2>5, <2>6, NextTenantInv
<1> QED
  BY <1>1, <1>2, <1>3, <1>4, <1>5, <1>6 DEF Listing

LEMMA FetchFailedInv == ASSUME BoardsInv, FetchFailed PROVE BoardsInv'
<1>1. EndListing(<<>>, "error") /\ stage = "page" /\ UNCHANGED <<kind, verdict, asked, hosts, limit, shape, board, walk>>
  BY DEF FetchFailed, accessVars
<1>2. OnlyListing
  BY <1>1 DEF OnlyListing, BoardsInv, BoardTypes
<1> QED
  BY <1>1, <1>2, FailedInv

LEMMA TenantFailedInv == ASSUME BoardsInv, TenantFailed PROVE BoardsInv'
<1>1. /\ stage = "page" /\ kind = "greeting" /\ NextTenant(<<>>)
      /\ walk' = [walk EXCEPT !.skipped = walk.skipped \cup {page}]
      /\ UNCHANGED <<kind, verdict, asked, hosts, limit, shape, board>>
  BY DEF TenantFailed, accessVars
<1>2. walk \in WalkRecords /\ page \in Nat
  BY <1>1, BoardConstants DEF BoardsInv, BoardTypes, LastPage
<1>3. /\ walk' \in WalkRecords /\ walk'.ever = walk.ever /\ walk'.always = walk.always
      /\ walk'.moved = walk.moved /\ walk'.full = walk.full
      /\ walk.skipped \subseteq walk'.skipped /\ page \in walk'.skipped
  BY <1>1, <1>2 DEF WalkRecords
<1>4. OnlyListing
  BY <1>1, <1>3 DEF OnlyListing
<1>5. <<>> \in Seq(BoardRowIds) /\ Range(<<>>) = {}
  BY DEF Range
<1> QED
  BY <1>1, <1>3, <1>4, <1>5, NextTenantInv

-----------------------------------------------------------------------------
(* The steps together.                                                     *)

LEMMA BoardsInitInv == BoardsInit => BoardsInv
<1> SUFFICES ASSUME BoardsInit PROVE BoardsInv
  OBVIOUS
<1>1. /\ kind \in Kinds /\ stage = "idle" /\ hosts = <<>> /\ limit = 0
      /\ verdict = [h \in AllHosts |-> [says |-> "nothing", left |-> 0]]
      /\ asked = [h \in AllHosts |-> [says |-> "nothing", ago |-> RobotsTTL]]
      /\ shape \in [BoardRowIds -> ShapesOf(kind)] /\ board = <<>> /\ page = 0
      /\ all = <<>> /\ ending = "none" /\ walk = NoWalk
  BY DEF BoardsInit
<1>2. RobotsTTL \in Nat /\ 0 \in Limits
  BY BoardConstants
<1>3. /\ verdict \in [AllHosts -> [says : {"nothing", "allowed", "denied"}, left : 0 .. RobotsTTL]]
      /\ asked \in [AllHosts -> [says : {"nothing", "yes", "no"}, ago : 0 .. RobotsTTL]]
  BY <1>1, <1>2
<1>4. <<>> \in Seq(BoardRowIds) /\ IsInjective(<<>>) /\ Range(<<>>) = {} /\ <<>> \in Seq(Range(HostsOf[kind]))
  BY DEF IsInjective, Range
<1>5. NoWalk \in WalkRecords
  BY DEF NoWalk, WalkRecords
<1>6. BoardTypes
  BY <1>1, <1>2, <1>3, <1>4, <1>5, Zenon DEF BoardTypes
<1>7. AccessInv
  BY <1>1 DEF AccessInv, VerdictKept
<1>8. BoardSeen /\ ReadSoFar /\ AllDue
  BY <1>1, <1>4 DEF BoardSeen, ReadSoFar, AllDue
<1> QED
  BY <1>6, <1>7, <1>8, Zenon DEF BoardsInv

LEMMA AccessStepInv == ASSUME BoardsInv, Access PROVE BoardsInv'
<1>1. PICK a, says : AskRobots(a, says) /\ says \in {Lenient(a), JumpitVerdict(a), WorknetVerdict(a)}
  BY DEF Access, JumpitCheckAccess, RallitCheckAccess, WorknetCheckAccess, GreenhouseCheckAccess,
         DemodayCheckAccess, GreetingCheckAccess
<1> QED
  BY <1>1, AskRobotsInv

LEMMA BoardsStepInv == BoardsInv /\ [BoardsNext]_boardVars => BoardsInv'
<1> SUFFICES ASSUME BoardsInv, [BoardsNext]_boardVars PROVE BoardsInv'
  OBVIOUS
<1>1. CASE \E l \in Limits : BeginCollect(l)
  BY <1>1, BeginCollectInv
<1>2. CASE UseVerdict
  BY <1>2, UseVerdictInv
<1>3. CASE Access
  BY <1>3, AccessStepInv
<1>4. CASE BeginListing
  BY <1>4, BeginListingInv
<1>5. CASE Listing
  BY <1>5, ListingInv
<1>6. CASE FetchFailed
  BY <1>6, FetchFailedInv
<1>7. CASE TenantFailed
  BY <1>7, TenantFailedInv
<1>8. CASE BoardsTick
  BY <1>8, BoardsTickInv
<1>9. CASE \E r \in BoardRowIds : Publish(r) \/ Withdraw(r) \/ (board # <<>> /\ Promote(r))
  BY <1>9, BoardStepInv
<1>10. CASE UNCHANGED boardVars
  <2>1. UNCHANGED <<kind, stage, verdict, asked, hosts, limit, shape, board, page, all, ending, walk>>
    BY <1>10 DEF boardVars, accessVars
  <2>2. BoardTypes'
    BY <2>1, Zenon DEF BoardsInv, BoardTypes, ShapesOf, LastPage
  <2>3. AccessInv'
    BY <2>1, Zenon DEF BoardsInv, AccessInv, VerdictKept, Granted
  <2>4. BoardSeen'
    BY <2>1, Zenon DEF BoardsInv, BoardSeen, TooLong
  <2>5. ReadSoFar'
    BY <2>1, Zenon DEF BoardsInv, ReadSoFar, Excused, BlankSeen, Lasting, PagesRead, TenantsRead
  <2>6. AllDue'
    BY <2>1, Zenon DEF BoardsInv, AllDue, Excused, BlankSeen, Due
  <2> QED
    BY <2>2, <2>3, <2>4, <2>5, <2>6, Zenon DEF BoardsInv
<1> QED
  BY <1>1, <1>2, <1>3, <1>4, <1>5, <1>6, <1>7, <1>8, <1>9, <1>10 DEF BoardsNext

LEMMA BoardsInvImplies == BoardsInv => CollectionSound
<1> SUFFICES ASSUME BoardsInv PROVE CollectionSound
  OBVIOUS
<1>1. BoardTypes /\ AccessInv /\ BoardSeen /\ AllDue
  BY DEF BoardsInv
<1>2. AccessHonoured
  BY <1>1 DEF AccessInv, AccessHonoured, Granted, Range
<1>3. BoardsTypeOK
  <2>1. Range(board) \subseteq BoardRowIds /\ Range(all) \subseteq BoardRowIds
    BY <1>1 DEF BoardTypes, Range
  <2>2. Range(hosts) \subseteq AllHosts
    <3>1. Range(HostsOf[kind]) \subseteq AllHosts /\ hosts \in Seq(Range(HostsOf[kind]))
      BY <1>1, HostsFacts DEF BoardTypes
    <3>2. \A i \in DOMAIN hosts : hosts[i] \in AllHosts
      BY <3>1
    <3> QED
      BY <3>2 DEF Range
  <2>3. page \in 0 .. Max({MaxListingPages, Tenants})
    <3>1. Max({MaxListingPages, Tenants}) = IF MaxListingPages >= Tenants THEN MaxListingPages ELSE Tenants
      <4>1. MaxListingPages \in Int /\ Tenants \in Int
        BY BoardConstants
      <4> QED
        BY <4>1, GreatestOfTwo
    <3> QED
      BY <1>1, <3>1, BoardConstants DEF BoardTypes, LastPage
  <2> QED
    BY <1>1, <2>1, <2>2, <2>3, Zenon DEF BoardTypes, BoardsTypeOK
<1>4. ListingSound
  BY <1>1, <1>3, Zenon DEF ListingSound, BoardSeen, AllDue, Excused
<1> QED
  BY <1>2, <1>4 DEF CollectionSound

-----------------------------------------------------------------------------
(* The theorems.                                                           *)

\* The inductive invariant of a collection.
THEOREM BoardsInvariant == BoardsSpec => []BoardsInv
<1> QED
  BY BoardsInitInv, BoardsStepInv, PTL DEF BoardsSpec

\* On every board, of any length, with any changes between two requests: no listing starts on a host
\* that forbade it, and one that succeeds has every wanted row that was there all along, except for
\* the causes CollectionSound names (FetchListing, CheckAccess).
THEOREM CollectionAlwaysSound == BoardsSpec => []CollectionSound
<1> QED
  BY BoardsInvariant, BoardsInvImplies, PTL

-----------------------------------------------------------------------------
(* Scoring.  The lines of the stacks: what is used, and the lines that use *)
(* it.                                                                     *)

SoFar == {so \in [used : 0 .. StackCap, items : Seq(Int)] :
            Total(so.items) = so.used /\ \A n \in DOMAIN so.items : so.items[n] > 0}
NothingUsed == [used |-> 0, items |-> <<>>]

LEMMA AwardInt ==
  ASSUME NEW used \in 0 .. StackCap, NEW weight \in Int
  PROVE  /\ StackAward(used, weight) \in Int /\ StackAward(used, weight) <= StackCap - used
         /\ StackAward(used, weight) = IF weight <= StackCap - used THEN weight ELSE StackCap - used
<1>1. used \in Int /\ StackCap - used \in Int
  BY DEF StackCap
<1>2. StackAward(used, weight) = IF weight <= StackCap - used THEN weight ELSE StackCap - used
  BY <1>1, LeastOfTwo DEF StackAward
<1> QED
  BY <1>1, <1>2

LEMMA NothingUsedYet == NothingUsed \in SoFar
<1>1. <<>> \in Seq(Int) /\ DOMAIN <<>> = {} /\ 0 \in 0 .. StackCap
  BY DEF StackCap
<1> QED
  BY <1>1, ShortTotals DEF NothingUsed, SoFar

LEMMA SoFarFacts ==
  ASSUME NEW so \in SoFar
  PROVE  /\ so.used \in Int /\ 0 <= so.used /\ so.used <= StackCap /\ so.used \in 0 .. StackCap
         /\ so.items \in Seq(Int) /\ Total(so.items) = so.used
         /\ \A n \in DOMAIN so.items : so.items[n] > 0
<1>1. /\ so \in [used : 0 .. StackCap, items : Seq(Int)] /\ Total(so.items) = so.used
      /\ \A n \in DOMAIN so.items : so.items[n] > 0
  BY DEF SoFar
<1>2. so.used \in 0 .. StackCap /\ so.items \in Seq(Int)
  BY <1>1
<1>3. \A x \in 0 .. StackCap : x \in Int /\ 0 <= x /\ x <= StackCap
  BY DEF StackCap
<1>4. so.used \in Int /\ 0 <= so.used /\ so.used <= StackCap
  BY <1>2, <1>3
<1> QED
  BY <1>1, <1>2, <1>4

LEMMA NextLineIn ==
  ASSUME NEW so \in SoFar, NEW s, s.weight \in Int, NEW p
  PROVE  NextLine(so, s, p) \in SoFar /\ so.used <= NextLine(so, s, p).used
<1> DEFINE award == StackAward(so.used, s.weight)
<1>1. /\ so.used \in Int /\ 0 <= so.used /\ so.used <= StackCap /\ so.used \in 0 .. StackCap
      /\ so.items \in Seq(Int) /\ Total(so.items) = so.used
      /\ \A n \in DOMAIN so.items : so.items[n] > 0
  BY SoFarFacts
<1>2. award \in Int /\ award <= StackCap - so.used
  BY <1>1, AwardInt
<1>3. CASE s.tag \in p.stacks /\ award > 0
  <2>1. NextLine(so, s, p) = AddLine(so, award)
    BY <1>3 DEF NextLine
  <2> HIDE DEF award
  <2>2. so.used + award \in 0 .. StackCap
    <3>1. award \in Int /\ award > 0 /\ so.used \in Int /\ 0 <= so.used /\ award <= StackCap - so.used
      BY <1>1, <1>2, <1>3
    <3> QED
      BY <3>1 DEF StackCap
  <2>3. Append(so.items, award) \in Seq(Int) /\ Total(Append(so.items, award)) = so.used + award
    BY <1>1, <1>2, TotalAppend
  <2>4. \A n \in DOMAIN Append(so.items, award) : Append(so.items, award)[n] > 0
    <3>1. TAKE n \in DOMAIN Append(so.items, award)
    <3>2. n \in 1 .. Len(so.items) + 1 /\ DOMAIN so.items = 1 .. Len(so.items) /\ Len(so.items) \in Nat
      BY <1>1, <1>2
    <3>3. CASE n = Len(so.items) + 1
      BY <3>3, <1>1, <1>2, <1>3
    <3>4. CASE n # Len(so.items) + 1
      BY <3>2, <3>4, <1>1, <1>2
    <3> QED
      BY <3>3, <3>4
  <2>5. AddLine(so, award) \in SoFar
    BY <2>2, <2>3, <2>4 DEF AddLine, SoFar
  <2>6. AddLine(so, award).used = so.used + award
    BY DEF AddLine
  <2> QED
    BY <2>1, <2>5, <2>6, <1>1, <1>2, <1>3
<1>4. CASE ~ (s.tag \in p.stacks /\ award > 0)
  <2>1. NextLine(so, s, p) = so
    BY <1>4 DEF NextLine
  <2> QED
    BY <2>1, <1>1
<1> QED
  BY <1>3, <1>4

Stacked(f, p, q) ==
  /\ f[0] = NothingUsed
  /\ \A j \in 1 .. Len(q.stacks) : f[j] = NextLine(f[j - 1], q.stacks[j], p)
  /\ \A j \in 0 .. Len(q.stacks) : f[j] \in SoFar

LEMMA StacksTyped ==
  ASSUME NEW q \in Profiles
  PROVE  /\ q.stacks \in Seq(ItemsOf(q.stacks)) /\ Len(q.stacks) \in Nat /\ DOMAIN q.stacks = 1 .. Len(q.stacks)
         /\ \A j \in 1 .. Len(q.stacks) : q.stacks[j].weight \in Int
<1>1. q.stacks \in Seq(ItemsOf(q.stacks)) /\ \A s \in ItemsOf(q.stacks) : s.weight \in Int
  BY ScoringAssumption
<1>2. Len(q.stacks) \in Nat /\ DOMAIN q.stacks = 1 .. Len(q.stacks)
  BY <1>1
<1> QED
  BY <1>1, <1>2 DEF ItemsOf

LEMMA StackWalk ==
  ASSUME NEW p, NEW q \in Profiles
  PROVE  \E f : Stacked(f, p, q) /\ ScoreStacks(p, q) = f[Len(q.stacks)].items
<1> DEFINE n == Len(q.stacks)
           Is(f) == f = [j \in 0 .. n |-> IF j = 0 THEN NothingUsed ELSE NextLine(f[j - 1], q.stacks[j], p)]
           w == CHOOSE f : Is(f)
           step == [x \in SoFar \X Nat |-> IF x[2] \in 1 .. n THEN NextLine(x[1], q.stacks[x[2]], p) ELSE x[1]]
<1>0. n \in Nat /\ \A j \in 1 .. n : q.stacks[j].weight \in Int
  BY StacksTyped
<1>w. ScoreStacks(p, q) = w[n].items
  BY DEF ScoreStacks, NothingUsed
<1> HIDE DEF n
<1>1. step \in [SoFar \X Nat -> SoFar]
  <2>1. ASSUME NEW x \in SoFar \X Nat
        PROVE  (IF x[2] \in 1 .. n THEN NextLine(x[1], q.stacks[x[2]], p) ELSE x[1]) \in SoFar
    <3>1. x[1] \in SoFar
      OBVIOUS
    <3>2. CASE x[2] \in 1 .. n
      BY <3>1, <3>2, <1>0, NextLineIn
    <3> QED
      BY <3>1, <3>2
  <2> QED
    BY <2>1
<1>2. ASSUME NEW v \in SoFar, NEW j \in 1 .. n PROVE step[<<v, j>>] = NextLine(v, q.stacks[j], p)
  <2> DEFINE x == <<v, j>>
  <2>1. x \in SoFar \X Nat /\ x[1] = v /\ x[2] = j
    BY <1>0
  <2> HIDE DEF x
  <2>2. step[x] = NextLine(v, q.stacks[j], p)
    BY <2>1
  <2> QED
    BY <2>2 DEF x
<1> HIDE DEF step
<1>3. PICK f : Runs(f, SoFar, NothingUsed, step, n)
  BY <1>0, <1>1, NothingUsedYet, Recursion, Zenon
<1>4. \A j \in 1 .. n : f[j] = NextLine(f[j - 1], q.stacks[j], p)
  <2>1. TAKE j \in 1 .. n
  <2>2. j - 1 \in 0 .. n
    BY <1>0
  <2>3. f[j - 1] \in SoFar
    BY <2>2, <1>3 DEF Runs
  <2> QED
    BY <2>3, <1>2, <1>3 DEF Runs
<1>5. Is(f)
  <2>1. \A j \in 0 .. n : f[j] = IF j = 0 THEN NothingUsed ELSE NextLine(f[j - 1], q.stacks[j], p)
    <3>1. TAKE j \in 0 .. n
    <3>2. j = 0 \/ j \in 1 .. n
      BY <1>0
    <3> QED
      BY <3>2, <1>3, <1>4 DEF Runs
  <2>2. f = [j \in 0 .. n |-> f[j]]
    BY <1>3 DEF Runs
  <2> QED
    BY <2>1, <2>2
<1>6. Is(w)
  <2> HIDE DEF Is
  <2> QED
    BY <1>5
<1>7. \A j \in 0 .. n : w[j] = IF j = 0 THEN NothingUsed ELSE NextLine(w[j - 1], q.stacks[j], p)
  BY <1>6
<1> HIDE DEF w, Is
<1>8. w[0] = NothingUsed /\ \A j \in 1 .. n : w[j] = NextLine(w[j - 1], q.stacks[j], p)
  <2>1. 0 \in 0 .. n /\ \A j \in 1 .. n : j \in 0 .. n /\ j # 0
    BY <1>0
  <2> QED
    BY <2>1, <1>7
<1> DEFINE G == {j \in 0 .. n : w[j] \in SoFar}
<1>9. \A j \in 0 .. n : w[j] \in SoFar
  <2>1. 0 \in G
    BY <1>0, <1>8, NothingUsedYet
  <2>2. ASSUME NEW j \in 1 .. n, j - 1 \in G PROVE j \in G
    <3>1. w[j - 1] \in SoFar /\ j \in 0 .. n
      BY <2>2, <1>0
    <3> QED
      BY <3>1, <1>0, <1>8, NextLineIn
  <2>3. \A j \in 0 .. n : j \in G
    <3> HIDE DEF G
    <3> QED
      BY <1>0, <2>1, <2>2, UpTo
  <2> QED
    BY <2>3
<1>10. Stacked(w, p, q)
  BY <1>8, <1>9 DEF Stacked, n
<1> QED
  BY <1>10, <1>w DEF n

LEMMA StacksWithin ==
  ASSUME NEW p, NEW q \in Profiles
  PROVE  /\ ScoreStacks(p, q) \in Seq(Int) /\ Total(ScoreStacks(p, q)) \in 0 .. StackCap
         /\ \A n \in DOMAIN ScoreStacks(p, q) : ScoreStacks(p, q)[n] > 0
<1>1. PICK f : Stacked(f, p, q) /\ ScoreStacks(p, q) = f[Len(q.stacks)].items
  BY StackWalk
<1>2. Len(q.stacks) \in 0 .. Len(q.stacks)
  BY StacksTyped
<1>3. f[Len(q.stacks)] \in SoFar
  BY <1>1, <1>2 DEF Stacked
<1> QED
  BY <1>1, <1>3 DEF SoFar

\* Heavier stacks, or more of them, never use less.
LEMMA HeavierLine ==
  ASSUME NEW so \in SoFar, NEW to \in SoFar, so.used <= to.used,
         NEW s, NEW t, s.weight \in Int, t.weight \in Int, s.tag = t.tag, s.weight <= t.weight, NEW p
  PROVE  NextLine(so, s, p).used <= NextLine(to, t, p).used
<1> DEFINE a == StackAward(so.used, s.weight)
           b == StackAward(to.used, t.weight)
<1>1. so.used \in 0 .. StackCap /\ to.used \in 0 .. StackCap
  BY DEF SoFar
<1>2. /\ a = IF s.weight <= StackCap - so.used THEN s.weight ELSE StackCap - so.used
      /\ b = IF t.weight <= StackCap - to.used THEN t.weight ELSE StackCap - to.used
  BY <1>1, AwardInt
<1>3. /\ NextLine(so, s, p).used = IF s.tag \in p.stacks /\ a > 0 THEN so.used + a ELSE so.used
      /\ NextLine(to, t, p).used = IF t.tag \in p.stacks /\ b > 0 THEN to.used + b ELSE to.used
  BY DEF NextLine, AddLine
<1>4. so.used \in Int /\ to.used \in Int /\ so.used <= StackCap /\ to.used <= StackCap /\ StackCap = 50
  BY SoFarFacts DEF StackCap
<1> HIDE DEF a, b
<1>5. CASE s.tag \in p.stacks
  <2>1. /\ NextLine(so, s, p).used = IF a > 0 THEN so.used + a ELSE so.used
        /\ NextLine(to, t, p).used = IF b > 0 THEN to.used + b ELSE to.used
    BY <1>3, <1>5
  <2>2. a \in Int /\ b \in Int
    BY <1>2, <1>4
  <2>3. (IF a > 0 THEN so.used + a ELSE so.used) <= (IF b > 0 THEN to.used + b ELSE to.used)
    BY <1>2, <1>4, <2>2
  <2> QED
    BY <2>1, <2>3
<1>6. CASE s.tag \notin p.stacks
  BY <1>3, <1>6
<1> QED
  BY <1>5, <1>6

LEMMA HeavierStacks ==
  ASSUME NEW p, NEW q \in Profiles, NEW r \in Profiles, Len(q.stacks) <= Len(r.stacks),
         \A n \in DOMAIN q.stacks : q.stacks[n].tag = r.stacks[n].tag /\ q.stacks[n].weight <= r.stacks[n].weight
  PROVE  Total(ScoreStacks(p, q)) <= Total(ScoreStacks(p, r))
<1>1. PICK f : Stacked(f, p, q) /\ ScoreStacks(p, q) = f[Len(q.stacks)].items
  BY StackWalk
<1>2. PICK g : Stacked(g, p, r) /\ ScoreStacks(p, r) = g[Len(r.stacks)].items
  BY StackWalk
<1> DEFINE m == Len(q.stacks)
           n == Len(r.stacks)
<1>3. m \in Nat /\ n \in Nat /\ m <= n /\ DOMAIN q.stacks = 1 .. m
  BY StacksTyped
<1>4. \A j \in 1 .. m : q.stacks[j].weight \in Int
  BY StacksTyped
<1>5. \A j \in 1 .. n : r.stacks[j].weight \in Int
  BY StacksTyped
<1>f. /\ f[0] = NothingUsed /\ \A j \in 1 .. m : f[j] = NextLine(f[j - 1], q.stacks[j], p)
      /\ \A j \in 0 .. m : f[j] \in SoFar
  BY <1>1 DEF Stacked
<1>g. /\ g[0] = NothingUsed /\ \A j \in 1 .. n : g[j] = NextLine(g[j - 1], r.stacks[j], p)
      /\ \A j \in 0 .. n : g[j] \in SoFar
  BY <1>2 DEF Stacked
<1>w. \A j \in 1 .. m : q.stacks[j].tag = r.stacks[j].tag /\ q.stacks[j].weight <= r.stacks[j].weight
  BY <1>3
<1>h. f[m].items = ScoreStacks(p, q) /\ g[n].items = ScoreStacks(p, r)
  BY <1>1, <1>2
<1> HIDE DEF m, n
<1> DEFINE F(j) == f[IF j <= m THEN j ELSE m].used
           G == {j \in 0 .. n : F(j) <= g[j].used}
<1>6. 0 \in G
  BY <1>3, <1>f, <1>g DEF NothingUsed
<1>7. ASSUME NEW j \in 1 .. n, j - 1 \in G PROVE j \in G
  <2>1. j - 1 \in 0 .. n /\ j \in 0 .. n /\ g[j - 1] \in SoFar /\ g[j] = NextLine(g[j - 1], r.stacks[j], p)
    BY <1>3, <1>g
  <2>2. CASE j <= m
    <3>1. j \in 1 .. m /\ j - 1 \in 0 .. m
      BY <2>2, <1>3
    <3>2. F(j - 1) = f[j - 1].used /\ F(j) = f[j].used
      BY <3>1
    <3>3. f[j - 1].used <= g[j - 1].used
      BY <1>7, <3>2
    <3>4. f[j - 1] \in SoFar /\ f[j] = NextLine(f[j - 1], q.stacks[j], p)
      BY <3>1, <1>f
    <3>5. NextLine(f[j - 1], q.stacks[j], p).used <= NextLine(g[j - 1], r.stacks[j], p).used
      <4>1. /\ q.stacks[j].weight \in Int /\ r.stacks[j].weight \in Int
            /\ q.stacks[j].tag = r.stacks[j].tag /\ q.stacks[j].weight <= r.stacks[j].weight
        BY <3>1, <1>4, <1>5, <1>w
      <4> HIDE DEF G, F
      <4> QED
        BY <4>1, <3>3, <3>4, <2>1, HeavierLine
    <3> QED
      BY <3>2, <3>4, <3>5, <2>1
  <2>3. CASE ~ (j <= m)
    <3>1. F(j) = f[m].used /\ F(j - 1) = f[m].used
      BY <2>3, <1>3
    <3>2. f[m] \in SoFar /\ f[m].used \in Int
      <4>1. m \in 0 .. m
        BY <1>3
      <4> QED
        BY <4>1, <1>f DEF SoFar
    <3>3. g[j] \in SoFar /\ g[j - 1].used <= g[j].used
      BY <2>1, <1>5, NextLineIn
    <3>4. g[j].used \in Int /\ g[j - 1].used \in Int
      BY <3>3, <2>1 DEF SoFar
    <3>5. f[m].used <= g[j - 1].used
      BY <1>7, <3>1
    <3> QED
      BY <3>1, <3>2, <3>3, <3>4, <3>5, <2>1
  <2> QED
    BY <2>2, <2>3
<1>8. \A j \in 0 .. n : j \in G
  <2> HIDE DEF G
  <2> QED
    BY <1>3, <1>6, <1>7, UpTo
<1>9. F(n) <= g[n].used /\ F(n) = f[m].used
  <2>1. n \in 0 .. n
    BY <1>3
  <2>2. F(n) = f[m].used
    BY <1>3
  <2> QED
    BY <2>1, <2>2, <1>8
<1>10. f[m] \in SoFar /\ g[n] \in SoFar
  BY <1>3, <1>f, <1>g
<1> QED
  BY <1>9, <1>10, <1>h DEF SoFar

-----------------------------------------------------------------------------
(* The groups of an answer.                                                *)

Gated == {Bounded(it) : it \in Signals}

LEMMA WithinBound ==
  ASSUME NEW n \in Int, NEW bound \in Nat
  PROVE  /\ Within(n, bound) \in Int /\ -bound <= Within(n, bound) /\ Within(n, bound) <= bound
         /\ Within(n, bound) = IF n > bound THEN bound ELSE IF n < -bound THEN -bound ELSE n
<1>1. bound \in Int /\ -bound \in Int
  OBVIOUS
<1> DEFINE m == Min({bound, n})
<1>2. m = IF bound <= n THEN bound ELSE n
  BY <1>1, LeastOfTwo
<1>3. m \in Int
  BY <1>1, <1>2
<1>4. Max({-bound, m}) = IF -bound >= m THEN -bound ELSE m
  <2> HIDE DEF m
  <2> QED
    BY <1>1, <1>3, GreatestOfTwo
<1>5. Within(n, bound) = Max({-bound, m})
  BY DEF Within
<1> HIDE DEF m
<1> QED
  BY <1>1, <1>2, <1>3, <1>4, <1>5

LEMMA GatedItems ==
  ASSUME NEW it \in Signals
  PROVE  /\ Bounded(it) \in Gated /\ Bounded(it).delta \in Int /\ WordingOf(Bounded(it)) = WordingOf(it)
         /\ Bounded(it).delta = Within(it.delta, MaxItemDelta)
         /\ Bounded(it).kind = it.kind /\ Bounded(it).cites = it.cites /\ Bounded(it).signal = it.signal
         /\ Bounded(it) = [kind |-> it.kind, delta |-> Bounded(it).delta, cites |-> it.cites, signal |-> it.signal]
         /\ EvidenceIdentity(Bounded(it)) = EvidenceIdentity(it)
         /\ it.delta > 0 => Bounded(it).delta > 0
         /\ it.delta < 0 => Bounded(it).delta < 0
<1>1. /\ it = [kind |-> it.kind, delta |-> it.delta, cites |-> it.cites, signal |-> it.signal]
      /\ it.delta \in Int
  BY ScoringAssumption, Zenon
<1> DEFINE d == Within(it.delta, MaxItemDelta)
<1>2. d \in Int /\ (it.delta > 0 => d > 0) /\ (it.delta < 0 => d < 0)
  <2>1. MaxItemDelta \in Nat /\ MaxItemDelta = 30
    BY DEF MaxItemDelta
  <2>2. d \in Int /\ d = IF it.delta > MaxItemDelta THEN MaxItemDelta
                         ELSE IF it.delta < -MaxItemDelta THEN -MaxItemDelta ELSE it.delta
    BY <1>1, <2>1, WithinBound
  <2> HIDE DEF d
  <2> QED
    BY <1>1, <2>1, <2>2
<1>3. Bounded(it) = [it EXCEPT !.delta = d]
  BY DEF Bounded
<1> HIDE DEF d
<1>4. Bounded(it) = [kind |-> it.kind, delta |-> d, cites |-> it.cites, signal |-> it.signal]
  BY <1>1, <1>3
<1>5. Bounded(it).delta = d /\ Bounded(it).kind = it.kind /\ Bounded(it).cites = it.cites /\ Bounded(it).signal = it.signal
  BY <1>4
<1>6. WordingOf(Bounded(it)) = WordingOf(it)
  BY <1>5, Zenon DEF WordingOf
<1>7. EvidenceIdentity(Bounded(it)) = EvidenceIdentity(it)
  <2>1. Tokens(Bounded(it)) = Tokens(it)
    BY <1>5, Zenon DEF Tokens
  <2> QED
    BY <1>5, <2>1, Zenon DEF EvidenceIdentity
<1>8. Bounded(it) \in Gated
  BY DEF Gated
<1> QED
  BY <1>2, <1>4, <1>5, <1>6, <1>7, <1>8 DEF d

LEMMA GatedFacts ==
  ASSUME NEW u \in Gated
  PROVE  /\ u.delta \in Int /\ WordingOf(u) \in Int
         /\ u = [kind |-> u.kind, delta |-> u.delta, cites |-> u.cites, signal |-> u.signal]
<1>1. PICK it \in Signals : u = Bounded(it)
  BY DEF Gated
<1>2. WordingOf(it) \in Int
  BY ScoringAssumption
<1> QED
  BY <1>1, <1>2, GatedItems, Zenon

LEMMA GatedAlike ==
  ASSUME NEW u \in Gated, NEW v \in Gated, WordingOf(u) = WordingOf(v)
  PROVE  u.cites = v.cites /\ u.signal = v.signal
<1>1. PICK a \in Signals : u = Bounded(a)
  BY DEF Gated
<1>2. PICK b \in Signals : v = Bounded(b)
  BY DEF Gated
<1>3. WordingOf(a) = WordingOf(b)
  BY <1>1, <1>2, GatedItems
<1>4. a.cites = b.cites /\ a.signal = b.signal
  BY <1>3, ScoringAssumption
<1> QED
  BY <1>1, <1>2, <1>4, GatedItems

LEMMA PreferredOrder ==
  ASSUME NEW u \in Gated, NEW v \in Gated, NEW w \in Gated
  PROVE  ~ Preferred(u, u) /\ (Preferred(u, v) /\ Preferred(v, w) => Preferred(u, w))
<1>1. /\ u.delta \in Int /\ v.delta \in Int /\ w.delta \in Int
      /\ WordingOf(u) \in Int /\ WordingOf(v) \in Int /\ WordingOf(w) \in Int
  BY GatedFacts
<1> QED
  BY <1>1 DEF Preferred, Magnitude

\* The groups G are those of the items U: one for each piece of evidence, with the
\* item that no other is preferred to, and whether any speaks for or against.
SpeaksFor(U, u) == \E v \in U : SameEvidence(v, u) /\ v.delta > 0
SpeaksAgainst(U, u) == \E v \in U : SameEvidence(v, u) /\ v.delta < 0
GroupOf(g, U) ==
  /\ g = [item |-> g.item, plus |-> g.plus, minus |-> g.minus]
  /\ g.plus = SpeaksFor(U, g.item) /\ g.minus = SpeaksAgainst(U, g.item)
  /\ g.item \in U /\ \A u \in U : SameEvidence(u, g.item) => ~ Preferred(u, g.item)
Exact(G, U) ==
  /\ \A g \in G : GroupOf(g, U)
  /\ \A u \in U : \E g \in G : SameEvidence(g.item, u)
  /\ \A g, h \in G : SameEvidence(g.item, h.item) => g = h

LEMMA JoinedExact ==
  ASSUME NEW U \in SUBSET Gated, NEW u \in Gated, NEW g, GroupOf(g, U), SameEvidence(g.item, u)
  PROVE  GroupOf(Joined(g, u), U \cup {u}) /\ SameEvidence(Joined(g, u).item, g.item)
<1> DEFINE j == Joined(g, u)
           V == U \cup {u}
<1>1. /\ g.item \in U /\ g.plus = SpeaksFor(U, g.item) /\ g.minus = SpeaksAgainst(U, g.item)
      /\ \A v \in U : SameEvidence(v, g.item) => ~ Preferred(v, g.item)
  BY DEF GroupOf
<1>2. j = [item |-> IF Preferred(u, g.item) THEN u ELSE g.item,
           plus |-> g.plus \/ u.delta > 0, minus |-> g.minus \/ u.delta < 0]
  BY DEF Joined
<1> HIDE DEF j
<1>3. j.item = (IF Preferred(u, g.item) THEN u ELSE g.item) /\ j.item \in V
  BY <1>1, <1>2
<1>4. SameEvidence(j.item, g.item) /\ SameEvidence(j.item, u)
  BY <1>3 DEF SameEvidence
<1>5. SpeaksFor(V, j.item) = (g.plus \/ u.delta > 0)
  BY <1>1, <1>4 DEF SpeaksFor, SpeaksAgainst, SameEvidence
<1>6. SpeaksAgainst(V, j.item) = (g.minus \/ u.delta < 0)
  BY <1>1, <1>4 DEF SpeaksFor, SpeaksAgainst, SameEvidence
<1>7. /\ j = [item |-> j.item, plus |-> j.plus, minus |-> j.minus]
      /\ j.plus = SpeaksFor(V, j.item) /\ j.minus = SpeaksAgainst(V, j.item)
  <2>1. /\ j = [item |-> j.item, plus |-> j.plus, minus |-> j.minus]
        /\ j.plus = (g.plus \/ u.delta > 0) /\ j.minus = (g.minus \/ u.delta < 0)
    BY <1>2
  <2> QED
    BY <2>1, <1>5, <1>6, Zenon
<1>8. ASSUME NEW v \in V, SameEvidence(v, j.item) PROVE ~ Preferred(v, j.item)
  <2>1. SameEvidence(v, g.item) /\ v \in Gated /\ g.item \in Gated
    BY <1>1, <1>4, <1>8 DEF SameEvidence
  <2>2. CASE Preferred(u, g.item)
    <3>1. j.item = u
      BY <1>3, <2>2
    <3>2. CASE v = u
      BY <3>1, <3>2, PreferredOrder
    <3>3. CASE v # u
      <4>1. v \in U /\ ~ Preferred(v, g.item)
        BY <3>3, <2>1, <1>1
      <4> QED
        BY <4>1, <3>1, <2>1, <2>2, PreferredOrder
    <3> QED
      BY <3>2, <3>3
  <2>3. CASE ~ Preferred(u, g.item)
    <3>1. j.item = g.item
      BY <1>3, <2>3
    <3> QED
      BY <3>1, <2>1, <2>3, <1>1
  <2> QED
    BY <2>2, <2>3
<1>9. GroupOf(j, V)
  BY <1>3, <1>7, <1>8 DEF GroupOf
<1> QED
  BY <1>4, <1>9 DEF j

LEMMA OtherExact ==
  ASSUME NEW U \in SUBSET Gated, NEW u \in Gated, NEW g, GroupOf(g, U), ~ SameEvidence(g.item, u)
  PROVE  GroupOf(g, U \cup {u})
<1>1. SpeaksFor(U \cup {u}, g.item) = SpeaksFor(U, g.item)
  BY DEF SpeaksFor, SpeaksAgainst, SameEvidence
<1>2. SpeaksAgainst(U \cup {u}, g.item) = SpeaksAgainst(U, g.item)
  BY DEF SpeaksFor, SpeaksAgainst, SameEvidence
<1>3. \A v \in U \cup {u} : SameEvidence(v, g.item) => ~ Preferred(v, g.item)
  BY DEF GroupOf, SameEvidence
<1> QED
  BY <1>1, <1>2, <1>3, Zenon DEF GroupOf

LEMMA GroupExact ==
  ASSUME NEW U \in SUBSET Gated, NEW u \in Gated, \A v \in U : ~ SameEvidence(v, u)
  PROVE  GroupOf(Group(u), U \cup {u}) /\ Group(u).item = u
<1>1. Group(u) = [item |-> u, plus |-> u.delta > 0, minus |-> u.delta < 0] /\ Group(u).item = u
  BY DEF Group
<1>a. \A v \in U \cup {u} : SameEvidence(v, u) <=> v = u
  BY DEF SameEvidence
<1>2. SpeaksFor(U \cup {u}, u) = (u.delta > 0)
  <2>1. SpeaksFor(U \cup {u}, u) <=> u.delta > 0
    BY <1>a, Zenon DEF SpeaksFor
  <2>2. SpeaksFor(U \cup {u}, u) \in BOOLEAN
    BY DEF SpeaksFor
  <2> QED
    BY <2>1, <2>2
<1>3. SpeaksAgainst(U \cup {u}, u) = (u.delta < 0)
  <2>1. SpeaksAgainst(U \cup {u}, u) <=> u.delta < 0
    BY <1>a, Zenon DEF SpeaksAgainst
  <2>2. SpeaksAgainst(U \cup {u}, u) \in BOOLEAN
    BY DEF SpeaksAgainst
  <2> QED
    BY <2>1, <2>2
<1>4. \A v \in U \cup {u} : SameEvidence(v, u) => ~ Preferred(v, u)
  BY PreferredOrder
<1>5. /\ Group(u) = [item |-> Group(u).item, plus |-> Group(u).plus, minus |-> Group(u).minus]
      /\ Group(u).plus = SpeaksFor(U \cup {u}, u) /\ Group(u).minus = SpeaksAgainst(U \cup {u}, u)
  <2>1. Group(u).plus = (u.delta > 0) /\ Group(u).minus = (u.delta < 0)
    BY <1>1
  <2>2. Group(u) = [item |-> Group(u).item, plus |-> Group(u).plus, minus |-> Group(u).minus]
    BY <1>1
  <2> QED
    BY <2>1, <2>2, <1>2, <1>3, Zenon
<1> QED
  BY <1>1, <1>4, <1>5 DEF GroupOf

LEMMA GroupedExact ==
  ASSUME NEW U \in SUBSET Gated, NEW u \in Gated, NEW G, Exact(G, U)
  PROVE  Exact(Grouped(G, u), U \cup {u})
<1> DEFINE V == U \cup {u}
<1>1. CASE \E g \in G : SameEvidence(g.item, u)
  <2> DEFINE Next(g) == IF SameEvidence(g.item, u) THEN Joined(g, u) ELSE g
  <2>1. Grouped(G, u) = {Next(g) : g \in G}
    BY <1>1 DEF Grouped
  <2>2. ASSUME NEW g \in G PROVE GroupOf(Next(g), V) /\ SameEvidence(Next(g).item, g.item)
    <3>1. GroupOf(g, U)
      BY DEF Exact
    <3>2. CASE SameEvidence(g.item, u)
      BY <3>1, <3>2, JoinedExact
    <3>3. CASE ~ SameEvidence(g.item, u)
      BY <3>1, <3>3, OtherExact DEF SameEvidence
    <3> QED
      BY <3>2, <3>3
  <2> HIDE DEF Next
  <2>3. \A h \in Grouped(G, u) : GroupOf(h, V)
    BY <2>1, <2>2
  <2>4. ASSUME NEW v \in V PROVE \E h \in Grouped(G, u) : SameEvidence(h.item, v)
    <3>1. PICK g \in G : SameEvidence(g.item, v)
      BY <1>1 DEF Exact
    <3>2. SameEvidence(Next(g).item, v)
      BY <3>1, <2>2 DEF SameEvidence
    <3> QED
      BY <3>2, <2>1
  <2>5. ASSUME NEW h \in Grouped(G, u), NEW k \in Grouped(G, u), SameEvidence(h.item, k.item) PROVE h = k
    <3>1. PICK a \in G : h = Next(a)
      BY <2>1
    <3>2. PICK b \in G : k = Next(b)
      BY <2>1
    <3>3. SameEvidence(a.item, b.item)
      BY <3>1, <3>2, <2>2, <2>5 DEF SameEvidence
    <3>4. a = b
      BY <3>3 DEF Exact
    <3> QED
      BY <3>1, <3>2, <3>4
  <2> QED
    BY <2>3, <2>4, <2>5 DEF Exact
<1>2. CASE ~ \E g \in G : SameEvidence(g.item, u)
  <2>1. Grouped(G, u) = G \cup {Group(u)}
    BY <1>2 DEF Grouped
  <2>2. \A v \in U : ~ SameEvidence(v, u)
    BY <1>2 DEF Exact, SameEvidence
  <2>3. GroupOf(Group(u), V) /\ Group(u).item = u
    BY <2>2, GroupExact
  <2>4. \A g \in G : GroupOf(g, V)
    <3>1. TAKE g \in G
    <3>2. GroupOf(g, U) /\ ~ SameEvidence(g.item, u)
      BY <1>2 DEF Exact
    <3> QED
      BY <3>2, OtherExact
  <2>5. \A v \in V : \E h \in Grouped(G, u) : SameEvidence(h.item, v)
    BY <2>1, <2>3 DEF Exact, SameEvidence
  <2>6. \A h, k \in Grouped(G, u) : SameEvidence(h.item, k.item) => h = k
    <3>1. TAKE h, k \in Grouped(G, u)
    <3>2. HAVE SameEvidence(h.item, k.item)
    <3>3. CASE h \in G /\ k \in G
      BY <3>2, <3>3 DEF Exact
    <3>4. CASE h = Group(u) /\ k \in G
      BY <3>2, <3>4, <2>3, <1>2 DEF SameEvidence
    <3>5. CASE h \in G /\ k = Group(u)
      BY <3>2, <3>5, <2>3, <1>2 DEF SameEvidence
    <3>6. CASE h = Group(u) /\ k = Group(u)
      BY <3>6
    <3> QED
      BY <2>1, <3>3, <3>4, <3>5, <3>6
  <2> QED
    BY <2>1, <2>3, <2>4, <2>5, <2>6 DEF Exact
<1> QED
  BY <1>1, <1>2

AllGroups == [item : Gated, plus : BOOLEAN, minus : BOOLEAN]
UsedOf(raw, p, n) == {Bounded(raw[m]) : m \in {i \in 1 .. n : Usable(raw[i], p)}}

LEMMA GroupedIn ==
  ASSUME NEW G \in SUBSET AllGroups, NEW u \in Gated
  PROVE  Grouped(G, u) \in SUBSET AllGroups
<1>1. ASSUME NEW g \in AllGroups PROVE Joined(g, u) \in AllGroups
  <2>1. g.item \in Gated /\ u \in Gated
    BY DEF AllGroups
  <2> DEFINE i == IF Preferred(u, g.item) THEN u ELSE g.item
             a == g.plus \/ u.delta > 0
             b == g.minus \/ u.delta < 0
  <2>2. i \in Gated /\ a \in BOOLEAN /\ b \in BOOLEAN
    BY <2>1
  <2>3. Joined(g, u) = [item |-> i, plus |-> a, minus |-> b]
    BY DEF Joined
  <2> HIDE DEF i, a, b
  <2> QED
    BY <2>2, <2>3 DEF AllGroups
<1>2. Group(u) \in AllGroups
  <2> DEFINE a == u.delta > 0
             b == u.delta < 0
  <2>1. a \in BOOLEAN /\ b \in BOOLEAN
    OBVIOUS
  <2>2. Group(u) = [item |-> u, plus |-> a, minus |-> b]
    BY DEF Group
  <2> HIDE DEF a, b
  <2> QED
    BY <2>1, <2>2 DEF AllGroups
<1>3. CASE \E g \in G : SameEvidence(g.item, u)
  <2> DEFINE Next(g) == IF SameEvidence(g.item, u) THEN Joined(g, u) ELSE g
  <2>1. Grouped(G, u) = {Next(g) : g \in G}
    BY <1>3 DEF Grouped
  <2>2. \A g \in G : Next(g) \in AllGroups
    BY <1>1
  <2> HIDE DEF Next
  <2> QED
    BY <2>1, <2>2
<1>4. CASE ~ \E g \in G : SameEvidence(g.item, u)
  <2>1. Grouped(G, u) = G \cup {Group(u)}
    BY <1>4 DEF Grouped
  <2> QED
    BY <2>1, <1>2
<1> QED
  BY <1>3, <1>4

LEMMA NothingGrouped == Exact({}, {})
BY DEF Exact

LEMMA UsedNext ==
  ASSUME NEW raw \in Seq(Signals), NEW p, NEW n \in 1 .. Len(raw)
  PROVE  /\ UsedOf(raw, p, n - 1) \in SUBSET Gated /\ raw[n] \in Signals /\ Bounded(raw[n]) \in Gated
         /\ UsedOf(raw, p, n) = IF Usable(raw[n], p) THEN UsedOf(raw, p, n - 1) \cup {Bounded(raw[n])}
                                ELSE UsedOf(raw, p, n - 1)
<1>1. Len(raw) \in Nat /\ n \in Nat /\ n > 0 /\ \A i \in 1 .. Len(raw) : raw[i] \in Signals
  OBVIOUS
<1>2. \A i \in 1 .. Len(raw) : Bounded(raw[i]) \in Gated
  BY <1>1 DEF Gated
<1>3. \A i : i \in 1 .. n - 1 => i \in 1 .. n /\ i \in 1 .. Len(raw) /\ i # n
  BY <1>1
<1>4. \A i : i \in 1 .. n => i \in 1 .. n - 1 \/ i = n
  BY <1>1
<1>5. n \in 1 .. n
  BY <1>1
<1>6. UsedOf(raw, p, n - 1) \in SUBSET Gated
  BY <1>2, <1>3, Zenon DEF UsedOf
<1> DEFINE A == UsedOf(raw, p, n)
           B == UsedOf(raw, p, n - 1)
<1>7. \A x : x \in A <=> x \in B \/ (Usable(raw[n], p) /\ x = Bounded(raw[n]))
  BY <1>3, <1>4, <1>5, Zenon DEF UsedOf
<1> HIDE DEF A, B
<1>8. A = IF Usable(raw[n], p) THEN B \cup {Bounded(raw[n])} ELSE B
  <2>1. CASE Usable(raw[n], p)
    BY <1>7, <2>1
  <2>2. CASE ~ Usable(raw[n], p)
    BY <1>7, <2>2
  <2> QED
    BY <2>1, <2>2
<1> QED
  BY <1>1, <1>2, <1>6, <1>8 DEF A, B

NextGroups(G, it, p) == IF Usable(it, p) THEN Grouped(G, Bounded(it)) ELSE G

LEMMA GroupsExact ==
  ASSUME NEW raw \in Seq(Signals), NEW p
  PROVE  Exact(Groups(raw, p), UsedOf(raw, p, Len(raw)))
<1> DEFINE n == Len(raw)
           D == SUBSET AllGroups
           Is(f) == f = [j \in 0 .. n |-> IF j = 0 THEN {}
                                          ELSE IF Usable(raw[j], p) THEN Grouped(f[j - 1], Bounded(raw[j])) ELSE f[j - 1]]
           w == CHOOSE f : Is(f)
           step == [x \in D \X Nat |-> IF x[2] \in 1 .. n THEN NextGroups(x[1], raw[x[2]], p) ELSE x[1]]
<1>0. n \in Nat /\ \A j \in 1 .. n : Bounded(raw[j]) \in Gated
  <2>1. n \in Nat
    OBVIOUS
  <2>2. \A j \in 1 .. Len(raw) : Bounded(raw[j]) \in Gated
    BY UsedNext
  <2> QED
    BY <2>1, <2>2
<1>w. Groups(raw, p) = w[n]
  BY DEF Groups
<1>d. {} \in D
  OBVIOUS
<1> HIDE DEF n
<1>1. ASSUME NEW G \in D, NEW j \in 1 .. n PROVE NextGroups(G, raw[j], p) \in D
  <2>1. Bounded(raw[j]) \in Gated
    BY <1>0
  <2> QED
    BY <2>1, GroupedIn DEF NextGroups
<1> HIDE DEF D
<1>2. step \in [D \X Nat -> D]
  <2>1. ASSUME NEW x \in D \X Nat PROVE (IF x[2] \in 1 .. n THEN NextGroups(x[1], raw[x[2]], p) ELSE x[1]) \in D
    <3>1. x[1] \in D
      OBVIOUS
    <3>2. CASE x[2] \in 1 .. n
      BY <3>1, <3>2, <1>1
    <3> QED
      BY <3>1, <3>2
  <2> QED
    BY <2>1
<1>3. ASSUME NEW v \in D, NEW j \in 1 .. n PROVE step[<<v, j>>] = NextGroups(v, raw[j], p)
  <2> DEFINE x == <<v, j>>
  <2>1. x \in D \X Nat /\ x[1] = v /\ x[2] = j
    BY <1>0
  <2> HIDE DEF x
  <2>2. step[x] = NextGroups(v, raw[j], p)
    BY <2>1
  <2> QED
    BY <2>2 DEF x
<1> HIDE DEF step
<1>4. PICK f : Runs(f, D, {}, step, n)
  BY <1>0, <1>d, <1>2, Recursion, Zenon
<1>5. \A j \in 1 .. n : f[j] = NextGroups(f[j - 1], raw[j], p)
  <2>1. TAKE j \in 1 .. n
  <2>2. j - 1 \in 0 .. n
    BY <1>0
  <2>3. f[j - 1] \in D
    BY <2>2, <1>4 DEF Runs
  <2> QED
    BY <2>3, <1>3, <1>4 DEF Runs
<1>6. Is(f)
  <2>1. \A j \in 0 .. n :
          f[j] = IF j = 0 THEN {} ELSE IF Usable(raw[j], p) THEN Grouped(f[j - 1], Bounded(raw[j])) ELSE f[j - 1]
    <3>1. TAKE j \in 0 .. n
    <3>2. j = 0 \/ j \in 1 .. n
      BY <1>0
    <3> QED
      BY <3>2, <1>4, <1>5 DEF Runs, NextGroups
  <2>2. f = [j \in 0 .. n |-> f[j]]
    BY <1>4 DEF Runs
  <2> QED
    BY <2>1, <2>2
<1>7. Is(w)
  <2> HIDE DEF Is
  <2> QED
    BY <1>6
<1>8. \A j \in 0 .. n :
        w[j] = IF j = 0 THEN {} ELSE IF Usable(raw[j], p) THEN Grouped(w[j - 1], Bounded(raw[j])) ELSE w[j - 1]
  BY <1>7
<1> HIDE DEF w, Is
<1> DEFINE G == {j \in 0 .. n : Exact(w[j], UsedOf(raw, p, j))}
<1>9. 0 \in G
  <2>1. UsedOf(raw, p, 0) = {} /\ 0 \in 0 .. n
    BY <1>0 DEF UsedOf
  <2> QED
    BY <2>1, <1>8, NothingGrouped
<1>10. ASSUME NEW j \in 1 .. n, j - 1 \in G PROVE j \in G
  <2>1. j \in 0 .. n /\ j # 0 /\ Exact(w[j - 1], UsedOf(raw, p, j - 1)) /\ j \in 1 .. Len(raw)
    BY <1>0, <1>10 DEF n
  <2>2. /\ UsedOf(raw, p, j - 1) \in SUBSET Gated /\ Bounded(raw[j]) \in Gated
        /\ UsedOf(raw, p, j) = IF Usable(raw[j], p) THEN UsedOf(raw, p, j - 1) \cup {Bounded(raw[j])}
                               ELSE UsedOf(raw, p, j - 1)
    BY <2>1, UsedNext
  <2>3. CASE Usable(raw[j], p)
    <3>1. w[j] = Grouped(w[j - 1], Bounded(raw[j]))
      BY <2>1, <2>3, <1>8
    <3>2. Exact(w[j], UsedOf(raw, p, j - 1) \cup {Bounded(raw[j])})
      BY <3>1, <2>1, <2>2, GroupedExact
    <3> QED
      BY <3>2, <2>1, <2>2, <2>3
  <2>4. CASE ~ Usable(raw[j], p)
    <3>1. w[j] = w[j - 1]
      BY <2>1, <2>4, <1>8
    <3> QED
      BY <3>1, <2>1, <2>2, <2>4
  <2> QED
    BY <2>3, <2>4
<1>11. \A j \in 0 .. n : j \in G
  <2> HIDE DEF G
  <2> QED
    BY <1>0, <1>9, <1>10, UpTo
<1>12. n \in 0 .. n
  BY <1>0
<1>13. Exact(w[n], UsedOf(raw, p, n))
  BY <1>11, <1>12
<1> QED
  BY <1>13, <1>w DEF n

\* Groups of the same items leave the same items, in whatever order they came.
LEMMA ExactUnopposed ==
  ASSUME NEW U \in SUBSET Gated, NEW G, NEW H, Exact(G, U), Exact(H, U)
  PROVE  Unopposed(G) \subseteq Unopposed(H)
<1> SUFFICES ASSUME NEW g \in G, ~ (g.plus /\ g.minus) PROVE g.item \in Unopposed(H)
  BY DEF Unopposed
<1>1. GroupOf(g, U)
  BY DEF Exact
<1>2. PICK h \in H : SameEvidence(h.item, g.item)
  BY <1>1 DEF Exact, GroupOf
<1>3. GroupOf(h, U)
  BY DEF Exact
<1>4. /\ g.item \in Gated /\ h.item \in Gated /\ g.item \in U /\ h.item \in U
      /\ SameEvidence(g.item, h.item)
  BY <1>1, <1>2, <1>3 DEF GroupOf, SameEvidence
<1>5. h.plus = g.plus /\ h.minus = g.minus
  <2>1. \A u : SameEvidence(u, h.item) <=> SameEvidence(u, g.item)
    BY <1>2 DEF SameEvidence
  <2>2. SpeaksFor(U, h.item) = SpeaksFor(U, g.item) /\ SpeaksAgainst(U, h.item) = SpeaksAgainst(U, g.item)
    BY <2>1, Zenon DEF SpeaksFor, SpeaksAgainst
  <2> QED
    BY <2>2, <1>1, <1>3 DEF GroupOf
<1>6. ~ Preferred(g.item, h.item) /\ ~ Preferred(h.item, g.item)
  BY <1>1, <1>2, <1>3, <1>4 DEF GroupOf
<1> DEFINE a == g.item
           b == h.item
<1>7. a.delta \in Int /\ b.delta \in Int /\ WordingOf(a) \in Int /\ WordingOf(b) \in Int
  BY <1>4, GatedFacts
<1>8. Magnitude(a.delta) = Magnitude(b.delta) /\ WordingOf(a) = WordingOf(b)
  <2>1. Magnitude(a.delta) \in Int /\ Magnitude(b.delta) \in Int
    BY <1>7 DEF Magnitude
  <2> QED
    BY <2>1, <1>6, <1>7 DEF Preferred
<1>9. a.cites = b.cites /\ a.signal = b.signal
  BY <1>4, <1>8, GatedAlike
<1>10. a.kind = b.kind
  BY <1>4 DEF SameEvidence, EvidenceIdentity
<1>11. a.delta = b.delta
  <2>1. CASE a.delta = b.delta
    BY <2>1
  <2>2. CASE a.delta # b.delta
    <3>1. (a.delta > 0 /\ b.delta < 0) \/ (a.delta < 0 /\ b.delta > 0)
      BY <2>2, <1>7, <1>8 DEF Magnitude
    <3>2. SameEvidence(a, a) /\ SameEvidence(b, a)
      BY <1>4 DEF SameEvidence
    <3>3. SpeaksFor(U, a) /\ SpeaksAgainst(U, a)
      BY <3>1, <3>2, <1>4 DEF SpeaksFor, SpeaksAgainst
    <3> QED
      BY <3>3, <1>1 DEF GroupOf
  <2> QED
    BY <2>1, <2>2
<1>12. a = b
  <2>1. /\ a = [kind |-> a.kind, delta |-> a.delta, cites |-> a.cites, signal |-> a.signal]
        /\ b = [kind |-> b.kind, delta |-> b.delta, cites |-> b.cites, signal |-> b.signal]
    BY <1>4, GatedFacts, Zenon
  <2> QED
    BY <2>1, <1>9, <1>10, <1>11, Zenon
<1> QED
  BY <1>5, <1>12 DEF Unopposed

-----------------------------------------------------------------------------
(* What is kept of an answer.                                              *)

LEMMA NetIsInt ==
  ASSUME NEW S \in SUBSET Gated, IsFiniteSet(S)
  PROVE  NetOf(S) \in Int
<1> DEFINE list == SetToSeq(S)
           n == Cardinality(S)
           deltas == [i \in DOMAIN list |-> list[i].delta]
<1>1. n \in Nat /\ list \in [1 .. n -> S]
  BY ListOfSet
<1>2. NetOf(S) = Total(deltas)
  BY DEF NetOf
<1> HIDE DEF list, n
<1>3. DOMAIN list = 1 .. n /\ \A i \in 1 .. n : list[i] \in S
  BY <1>1
<1>4. \A i \in 1 .. n : list[i].delta \in Int
  BY <1>3, GatedFacts
<1>5. deltas \in [1 .. n -> Int]
  BY <1>3, <1>4
<1>6. deltas \in Seq(Int)
  <2> HIDE DEF deltas
  <2> QED
    BY <1>1, <1>5
<1> HIDE DEF deltas
<1> QED
  BY <1>2, <1>6, TotalIsInt

LEMMA UsedFinite ==
  ASSUME NEW raw \in Seq(Signals), NEW p
  PROVE  UsedOf(raw, p, Len(raw)) \in SUBSET Gated /\ IsFiniteSet(UsedOf(raw, p, Len(raw)))
<1> DEFINE I == {i \in 1 .. Len(raw) : Usable(raw[i], p)}
           U == UsedOf(raw, p, Len(raw))
           f == [i \in I |-> Bounded(raw[i])]
<1>1. Len(raw) \in Nat /\ \A i \in 1 .. Len(raw) : raw[i] \in Signals
  OBVIOUS
<1>2. IsFiniteSet(I)
  <2>1. IsFiniteSet(1 .. Len(raw)) /\ I \in SUBSET (1 .. Len(raw))
    BY <1>1, FS_Interval
  <2> QED
    BY <2>1, FS_Subset
<1>3. U = {Bounded(raw[i]) : i \in I}
  BY DEF UsedOf
<1>4. U \in SUBSET Gated
  BY <1>1, <1>3, Zenon DEF Gated
<1> HIDE DEF U
<1>5. f \in Surjection(I, U)
  <2>1. \A i \in I : Bounded(raw[i]) \in U
    BY <1>3
  <2>2. f \in [I -> U]
    BY <2>1
  <2>3. \A u \in U : \E i \in I : f[i] = u
    BY <1>3
  <2> QED
    BY <2>2, <2>3 DEF Surjection
<1>6. IsFiniteSet(U)
  <2> HIDE DEF f, I
  <2> QED
    BY <1>2, <1>5, FS_Surjection
<1> QED
  BY <1>4, <1>6 DEF U

\* The items that are left of an answer are items of it, with their bounds.
LEMMA ItemsLeft ==
  ASSUME NEW raw \in Seq(Signals), NEW p
  PROVE  /\ GateDelta(raw, p).items = Unopposed(Groups(raw, p))
         /\ GateDelta(raw, p).items \in SUBSET UsedOf(raw, p, Len(raw))
         /\ GateDelta(raw, p).net \in Int /\ Magnitude(GateDelta(raw, p).net) <= MaxNetDelta
<1> DEFINE items == Unopposed(Groups(raw, p))
           U == UsedOf(raw, p, Len(raw))
<1>1. GateDelta(raw, p) = [items |-> items, net |-> Within(NetOf(items), MaxNetDelta)]
  BY DEF GateDelta, Settled
<1>2. \A g \in Groups(raw, p) : g.item \in U
  BY GroupsExact DEF Exact, GroupOf
<1>3. items \in SUBSET U
  BY <1>2 DEF Unopposed
<1>4. U \in SUBSET Gated /\ IsFiniteSet(U)
  BY UsedFinite
<1> HIDE DEF items, U
<1>5. IsFiniteSet(items) /\ items \in SUBSET Gated
  BY <1>3, <1>4, FS_Subset
<1>6. NetOf(items) \in Int
  BY <1>5, NetIsInt
<1>7. MaxNetDelta \in Nat
  BY DEF MaxNetDelta
<1> DEFINE net == Within(NetOf(items), MaxNetDelta)
<1>8. net \in Int /\ -MaxNetDelta <= net /\ net <= MaxNetDelta
  BY <1>6, <1>7, WithinBound
<1> HIDE DEF net
<1>9. Magnitude(net) <= MaxNetDelta
  BY <1>7, <1>8 DEF Magnitude
<1>10. GateDelta(raw, p).items = items /\ GateDelta(raw, p).net = net
  BY <1>1 DEF net
<1> QED
  BY <1>3, <1>8, <1>9, <1>10 DEF items, U

LEMMA SameUsed ==
  ASSUME NEW raw \in Seq(Signals), NEW other \in Seq(Signals), NEW p,
         UsedOf(raw, p, Len(raw)) = UsedOf(other, p, Len(other))
  PROVE  GateDelta(raw, p) = GateDelta(other, p)
<1>1. /\ Exact(Groups(raw, p), UsedOf(raw, p, Len(raw)))
      /\ Exact(Groups(other, p), UsedOf(raw, p, Len(raw)))
      /\ UsedOf(raw, p, Len(raw)) \in SUBSET Gated
  BY GroupsExact, UsedFinite
<1>2. /\ Unopposed(Groups(raw, p)) \subseteq Unopposed(Groups(other, p))
      /\ Unopposed(Groups(other, p)) \subseteq Unopposed(Groups(raw, p))
  BY <1>1, ExactUnopposed
<1>3. Unopposed(Groups(raw, p)) = Unopposed(Groups(other, p))
  BY <1>2
<1> QED
  BY <1>3, Zenon DEF GateDelta

LEMMA ReorderedSame ==
  ASSUME NEW raw \in Seq(Signals), NEW other \in Reordered(raw), NEW p
  PROVE  GateDelta(other, p) = GateDelta(raw, p)
<1> DEFINE n == Len(raw)
<1>1. n \in Nat /\ DOMAIN raw = 1 .. n /\ \A i \in 1 .. n : raw[i] \in Signals
  OBVIOUS
<1>2. PICK f \in [1 .. n -> 1 .. n] :
        (\A a, b \in 1 .. n : f[a] = f[b] => a = b) /\ other = [i \in 1 .. n |-> raw[f[i]]]
  BY <1>1 DEF Reordered
<1> HIDE DEF n
<1>3. \A j \in 1 .. n : \E i \in 1 .. n : f[i] = j
  <2>1. IsFiniteSet(1 .. n)
    BY <1>1, FS_Interval
  <2>2. f \in Injection(1 .. n, 1 .. n)
    BY <1>2 DEF Injection, IsInjective
  <2>3. f \in Surjection(1 .. n, 1 .. n)
    BY <2>1, <2>2, FS_Injection
  <2> QED
    BY <2>3 DEF Surjection
<1>4. other \in [1 .. n -> Signals] /\ \A i \in 1 .. n : other[i] = raw[f[i]]
  BY <1>1, <1>2
<1>5. other \in Seq(Signals) /\ Len(other) = n
  BY <1>1, <1>4
<1>6. UsedOf(raw, p, n) = UsedOf(other, p, n)
  <2>1. \A i \in 1 .. n : f[i] \in 1 .. n
    BY <1>2
  <2>2. UsedOf(other, p, n) \subseteq UsedOf(raw, p, n)
    BY <2>1, <1>4, Zenon DEF UsedOf
  <2>3. UsedOf(raw, p, n) \subseteq UsedOf(other, p, n)
    <3>1. ASSUME NEW i \in 1 .. n, Usable(raw[i], p) PROVE Bounded(raw[i]) \in UsedOf(other, p, n)
      <4>1. PICK k \in 1 .. n : f[k] = i
        BY <1>3
      <4>2. other[k] = raw[i]
        BY <4>1, <1>4
      <4> QED
        BY <4>2, <3>1, Zenon DEF UsedOf
    <3> QED
      BY <3>1, Zenon DEF UsedOf
  <2> QED
    BY <2>2, <2>3
<1>7. UsedOf(raw, p, Len(raw)) = UsedOf(other, p, Len(other))
  BY <1>5, <1>6 DEF n
<1> QED
  BY <1>5, <1>7, SameUsed

LEMMA NothingSaid == ASSUME NEW p PROVE GateDelta(<<>>, p) = NoDelta
<1>1. <<>> \in Seq(Signals) /\ Len(<<>>) = 0
  OBVIOUS
<1>2. Groups(<<>>, p) = {}
  <2>1. Exact(Groups(<<>>, p), UsedOf(<<>>, p, 0)) /\ UsedOf(<<>>, p, 0) = {}
    <3>1. Exact(Groups(<<>>, p), UsedOf(<<>>, p, Len(<<>>)))
      BY <1>1, GroupsExact
    <3>2. 1 .. 0 = {}
      OBVIOUS
    <3>3. UsedOf(<<>>, p, 0) = {}
      BY <3>2, Zenon DEF UsedOf
    <3> QED
      BY <3>1, <3>3, <1>1
  <2>2. Exact(Groups(<<>>, p), {})
    BY <2>1
  <2>3. \A g \in Groups(<<>>, p) : GroupOf(g, {})
    BY <2>2 DEF Exact
  <2>4. \A g : ~ GroupOf(g, {})
    BY DEF GroupOf
  <2> QED
    BY <2>3, <2>4
<1>3. Unopposed({}) = {}
  BY DEF Unopposed
<1>4. NetOf({}) = 0
  <2>1. IsFiniteSet({}) /\ Cardinality({}) = 0
    BY FS_EmptySet
  <2>2. SetToSeq({}) \in [1 .. 0 -> {}]
    BY <2>1, ListOfSet
  <2>3. SetToSeq({}) = <<>>
    BY <2>2
  <2> DEFINE deltas == [i \in DOMAIN SetToSeq({}) |-> SetToSeq({})[i].delta]
  <2>4. deltas = <<>>
    <3>1. DOMAIN SetToSeq({}) = 1 .. 0
      BY <2>2
    <3>2. deltas \in [1 .. 0 -> {}]
      BY <3>1
    <3> HIDE DEF deltas
    <3> QED
      BY <3>2
  <2> QED
    BY <2>4, ShortTotals DEF NetOf
<1>5. Within(0, MaxNetDelta) = 0
  BY WithinBound DEF MaxNetDelta
<1> QED
  BY <1>2, <1>3, <1>4, <1>5 DEF GateDelta, Settled, NoDelta

-----------------------------------------------------------------------------
(* The years a text names.                                                 *)

LEMMA RungsCount == \A k \in DOMAIN Rung : Rung[k] \in 1 .. 7
BY DEF Rung

LEMMA YearsTyped ==
  ASSUME NEW x \in [kind : DOMAIN Rung, lo : Nat, hi : Nat]
  PROVE  YearsOf(x) \in Nat \X Nat
<1>1. x.lo \in Nat /\ x.hi \in Nat /\ OpenEnded \in Nat /\ 0 \in Nat /\ 5 \in Nat /\ 1 \in Nat /\ 3 \in Nat
  BY DEF OpenEnded
<1>2. x.kind \in {"atLeast", "minimum", "newcomerTo", "range", "career", "senior", "junior"}
  BY DEF Rung
<1>3. CASE x.kind \in {"atLeast", "minimum", "career"}
  BY <1>1, <1>3 DEF YearsOf
<1>4. CASE x.kind = "newcomerTo"
  BY <1>1, <1>4 DEF YearsOf
<1>5. CASE x.kind = "range"
  BY <1>1, <1>5 DEF YearsOf
<1>6. CASE x.kind = "senior"
  BY <1>1, <1>6 DEF YearsOf
<1>7. CASE x.kind = "junior"
  BY <1>1, <1>7 DEF YearsOf
<1> QED
  BY <1>2, <1>3, <1>4, <1>5, <1>6, <1>7

\* What is read of a text is nothing or two numbers.
LEMMA TextRead ==
  ASSUME NEW text \in Texts
  PROVE  ParseExperienceText(text) = Unread \/ ParseExperienceText(text) \in Nat \X Nat
<1> DEFINE ns == Readable(text)
           Rank(n) == Rung[text[n].kind]
           Ranks == {k \in 1 .. 7 : \E n \in ns : Rank(n) = k}
<1>1. /\ DOMAIN text = 1 .. Len(text)
      /\ \A n \in DOMAIN text : text[n] \in [kind : DOMAIN Rung, lo : Nat, hi : Nat]
  <2> DEFINE R == [kind : DOMAIN Rung, lo : Nat, hi : Nat]
  <2>1. text \in Seq(R)
    BY DEF Texts
  <2> HIDE DEF R
  <2>2. DOMAIN text = 1 .. Len(text) /\ \A n \in DOMAIN text : text[n] \in R
    BY <2>1
  <2> QED
    BY <2>2 DEF R
<1>2. ns \subseteq DOMAIN text
  BY DEF Readable
<1>3. \A n \in ns : Rung[text[n].kind] \in 1 .. 7
  <2>1. \A n \in ns : text[n].kind \in DOMAIN Rung
    BY <1>1, <1>2
  <2> QED
    BY <2>1, RungsCount
<1> HIDE DEF ns
<1>4. CASE ns = {}
  BY <1>4 DEF ParseExperienceText, Highest, ns
<1>5. CASE ns # {}
  <2>1. PICK a \in ns : TRUE
    BY <1>5
  <2>2. Rank(a) \in Ranks
    BY <1>3, <2>1
  <2>3. Ranks \in SUBSET Nat
    OBVIOUS
  <2>4. PICK k \in Ranks : \A j \in Ranks : k <= j
    <3> HIDE DEF Ranks
    <3> QED
      BY <2>2, <2>3, LeastNumber
  <2>5. PICK n \in ns : Rank(n) = k
    BY <2>4
  <2>6. \A m \in ns : Rung[text[n].kind] <= Rung[text[m].kind]
    <3>1. TAKE m \in ns
    <3>2. Rank(m) \in Ranks
      BY <1>3
    <3>3. Rank(n) <= Rank(m)
      BY <3>2, <2>4, <2>5
    <3> QED
      BY <3>3, <1>3
  <2> DEFINE c == Topmost(text, ns)
  <2>7. c \in ns
    BY <2>6, Zenon DEF Topmost
  <2>8. ParseExperienceText(text) = YearsOf(text[c])
    <3>1. ParseExperienceText(text) = Highest(text, ns)
      BY DEF ParseExperienceText, ns
    <3>2. Highest(text, ns) = YearsOf(text[c])
      BY <1>5 DEF Highest
    <3> QED
      BY <3>1, <3>2
  <2> HIDE DEF c
  <2>9. text[c] \in [kind : DOMAIN Rung, lo : Nat, hi : Nat]
    BY <2>7, <1>1, <1>2
  <2> QED
    BY <2>8, <2>9, YearsTyped
<1> QED
  BY <1>4, <1>5

LEMMA YearsRead ==
  ASSUME NEW title \in Texts, NEW body \in Texts
  PROVE  ParseExperienceYears(title, body) = Unread \/ ParseExperienceYears(title, body) \in Nat \X Nat
BY TextRead, Zenon DEF ParseExperienceYears, FirstRead

-----------------------------------------------------------------------------
(* The parts of a score.                                                   *)

LEMMA ClampedBounds ==
  ASSUME NEW n \in Int
  PROVE  Clamped(n) \in 0 .. 100 /\ Clamped(n) = IF n > 100 THEN 100 ELSE IF n < 0 THEN 0 ELSE n
<1>1. Min({100, n}) = IF 100 <= n THEN 100 ELSE n
  BY LeastOfTwo
<1>2. Min({100, n}) \in Int
  BY <1>1
<1>3. Clamped(n) = IF 0 >= Min({100, n}) THEN 0 ELSE Min({100, n})
  BY <1>2, GreatestOfTwo DEF Clamped
<1> QED
  BY <1>1, <1>3

LEMMA ProfileTyped ==
  ASSUME NEW q \in Profiles
  PROVE  /\ DOMAIN q = ProfileFields
         /\ q.career \in Int /\ q.salary \in Int /\ q.location \in Int /\ q.minimum \in Int
         /\ EffectiveCareerWeight(q) \in Nat /\ EffectiveSalaryWeight(q) \in Nat
<1>1. DOMAIN q = ProfileFields /\ {q.career, q.salary, q.location, q.minimum} \subseteq Int
  BY ScoringAssumption
<1>2. q.career \in Int /\ q.salary \in Int /\ q.location \in Int /\ q.minimum \in Int
  BY <1>1
<1>3. EffectiveCareerWeight(q) \in Nat /\ EffectiveSalaryWeight(q) \in Nat
  BY <1>2 DEF EffectiveCareerWeight, EffectiveSalaryWeight
<1> QED
  BY <1>1, <1>2, <1>3

LEMMA CareerTotal ==
  ASSUME NEW c, NEW q \in Profiles
  PROVE  /\ FitsCareer(c, q.years) => Total(ScoreCareer(c, q)) = EffectiveCareerWeight(q)
         /\ ~ FitsCareer(c, q.years) /\ q.years \in {c.min - 1, c.max + 1} => Total(ScoreCareer(c, q)) = NearMissAward(q)
         /\ ~ FitsCareer(c, q.years) /\ q.years \notin {c.min - 1, c.max + 1} => Total(ScoreCareer(c, q)) = 0
         /\ NearMissAward(q) \in Int
<1>1. EffectiveCareerWeight(q) \in Nat
  BY ProfileTyped
<1>2. NearMissAward(q) \in Int
  BY <1>1 DEF NearMissAward
<1>3. \A x \in Int : Total(<<x>>) = x
  BY ShortTotals
<1>4. Total(<<>>) = 0
  BY ShortTotals
<1>5. CASE FitsCareer(c, q.years)
  <2>1. ScoreCareer(c, q) = <<EffectiveCareerWeight(q)>>
    BY <1>5 DEF ScoreCareer
  <2> QED
    BY <2>1, <1>1, <1>2, <1>3, <1>5
<1>6. CASE ~ FitsCareer(c, q.years) /\ q.years \in {c.min - 1, c.max + 1}
  <2>1. ScoreCareer(c, q) = <<NearMissAward(q)>>
    BY <1>6 DEF ScoreCareer
  <2> QED
    BY <2>1, <1>2, <1>3, <1>6
<1>7. CASE ~ FitsCareer(c, q.years) /\ q.years \notin {c.min - 1, c.max + 1}
  <2>1. ScoreCareer(c, q) = IF c.override THEN <<0>> ELSE <<>>
    BY <1>7 DEF ScoreCareer
  <2> QED
    BY <2>1, <1>2, <1>3, <1>4, <1>7
<1> QED
  BY <1>5, <1>6, <1>7

LEMMA LocationTotal ==
  ASSUME NEW p, NEW q \in Profiles
  PROVE  Total(ScoreLocation(p, q)) =
           IF q.location > 0 /\ (p.place \in q.cities \/ (q.remote /\ p.remote))
           THEN IF q.location <= LocationCap THEN q.location ELSE LocationCap ELSE 0
<1>1. q.location \in Int /\ LocationCap \in Int
  BY ProfileTyped DEF LocationCap
<1>2. Min({q.location, LocationCap}) = IF q.location <= LocationCap THEN q.location ELSE LocationCap
  BY <1>1, LeastOfTwo
<1>3. Min({q.location, LocationCap}) \in Int
  BY <1>1, <1>2
<1>4. Total(<<Min({q.location, LocationCap})>>) = Min({q.location, LocationCap}) /\ Total(<<>>) = 0
  BY <1>3, ShortTotals
<1> QED
  BY <1>2, <1>4 DEF ScoreLocation

LEMMA SalaryTotal ==
  ASSUME NEW p, NEW q \in Profiles
  PROVE  /\ Total(ScoreSalary(p, q)) = IF p.pay = 0 THEN AmbiguousAward(q)
                                       ELSE IF p.pay > 0 /\ p.pay >= q.floor THEN EffectiveSalaryWeight(q) ELSE 0
         /\ AmbiguousAward(q) \in Int
<1>1. EffectiveSalaryWeight(q) \in Nat
  BY ProfileTyped
<1>2. AmbiguousAward(q) \in Int
  BY <1>1 DEF AmbiguousAward
<1>3. /\ Total(<<AmbiguousAward(q)>>) = AmbiguousAward(q)
      /\ Total(<<EffectiveSalaryWeight(q)>>) = EffectiveSalaryWeight(q) /\ Total(<<>>) = 0
  BY <1>1, <1>2, ShortTotals
<1>4. CASE p.pay = 0
  <2>1. ScoreSalary(p, q) = <<AmbiguousAward(q)>>
    BY <1>4 DEF ScoreSalary
  <2> QED
    BY <2>1, <1>2, <1>3, <1>4
<1>5. CASE p.pay # 0 /\ p.pay > 0 /\ p.pay >= q.floor
  <2>1. ScoreSalary(p, q) = <<EffectiveSalaryWeight(q)>>
    BY <1>5 DEF ScoreSalary
  <2> QED
    BY <2>1, <1>2, <1>3, <1>5
<1>6. CASE p.pay # 0 /\ ~ (p.pay > 0 /\ p.pay >= q.floor)
  <2>1. ScoreSalary(p, q) = <<>>
    BY <1>6 DEF ScoreSalary
  <2> QED
    BY <2>1, <1>2, <1>3, <1>6
<1> QED
  BY <1>4, <1>5, <1>6

LEMMA AITotal ==
  ASSUME NEW d, d.net \in Int
  PROVE  Total(AILine(d)) \in Int
BY ShortTotals DEF AILine

LEMMA LinesTotal ==
  ASSUME NEW p, NEW q \in Profiles, NEW c, NEW d, d.net \in Int
  PROVE  /\ SumLines(Lines(p, q, c, d)) \in Int
         /\ SumLines(Lines(p, q, c, d)) =
              Total(ScoreStacks(p, q)) + Total(ScoreCareer(c, q)) + Total(ScoreLocation(p, q))
                + Total(ScoreSalary(p, q)) + Total(AILine(d))
         /\ {Total(ScoreStacks(p, q)), Total(ScoreCareer(c, q)), Total(ScoreLocation(p, q)),
             Total(ScoreSalary(p, q)), Total(AILine(d))} \subseteq Int
<1>1. Total(ScoreStacks(p, q)) \in Int
  <2>1. Total(ScoreStacks(p, q)) \in 0 .. StackCap
    BY StacksWithin
  <2> QED
    BY <2>1 DEF StackCap
<1>2. Total(ScoreCareer(c, q)) \in Int
  BY CareerTotal, ProfileTyped
<1>3. Total(ScoreLocation(p, q)) \in Int
  BY LocationTotal, ProfileTyped DEF LocationCap
<1>4. Total(ScoreSalary(p, q)) \in Int
  BY SalaryTotal, ProfileTyped
<1>5. Total(AILine(d)) \in Int
  BY AITotal
<1>6. SumLines(Lines(p, q, c, d)) =
              Total(ScoreStacks(p, q)) + Total(ScoreCareer(c, q)) + Total(ScoreLocation(p, q))
                + Total(ScoreSalary(p, q)) + Total(AILine(d))
  BY DEF SumLines, Lines
<1> QED
  BY <1>1, <1>2, <1>3, <1>4, <1>5, <1>6

-----------------------------------------------------------------------------
(* The score of a posting, from its parts.                                 *)

\* What a score says of the posting p, the profile q, the reading x, the delta d and the verdicts v.
Explained(s, p, q, x, d, v) ==
  LET c == CareerFacts(p, x)
      lines == Lines(p, q, c, d)
  IN  /\ s.held = HardExclusionReasons(p, q, x, v) /\ (s.total = -1 <=> s.held # {})
      /\ s.total \in -1 .. 100
      /\ s.held # {} => s.total = -1 /\ s.lines = NoLines /\ s.reasons = {}
      /\ s.held = {} => /\ s.total = Clamped(SumLines(lines)) /\ s.lines = lines
                        /\ s.reasons = Reasons(s.total, c, q)

LEMMA ScoreHeld ==
  ASSUME NEW p, NEW q \in Profiles, NEW x, NEW d, d.net \in Int, NEW v, p # NoPosting
  PROVE  Explained(Score(p, q, x, d, v), p, q, x, d, v)
<1> DEFINE s == Score(p, q, x, d, v)
           c == CareerFacts(p, x)
           lines == Lines(p, q, c, d)
           held == HardExclusionReasons(p, q, x, v)
           total == Clamped(SumLines(lines))
<1>1. s = Judged(p, q, c, d, held)
  BY DEF Score
<1>2. SumLines(lines) \in Int
  BY LinesTotal
<1>3. total \in 0 .. 100
  BY <1>2, ClampedBounds
<1> HIDE DEF c, held
<1>4. CASE held # {}
  <2>1. s = [NoScore EXCEPT !.total = -1, !.held = held]
    BY <1>1, <1>4 DEF Judged
  <2>2. s = [total |-> -1, lines |-> NoLines, held |-> held, reasons |-> {}]
    BY <2>1 DEF NoScore
  <2> HIDE DEF s, lines, total
  <2>3. s.total = -1 /\ s.held = held /\ s.lines = NoLines /\ s.reasons = {}
    BY <2>2
  <2>4. s.held # {} /\ s.total \in -1 .. 100
    BY <2>3, <1>4
  <2> QED
    BY <2>3, <2>4 DEF s, lines, total, c, held, Explained
<1>5. CASE held = {}
  <2>1. s = Totalled(total, lines, c, q)
    BY <1>1, <1>5 DEF Judged, Weighed
  <2>2. s = [total |-> total, lines |-> lines, held |-> {}, reasons |-> Reasons(total, c, q)]
    BY <2>1 DEF Totalled
  <2> HIDE DEF s, lines, total
  <2>3. s.total = total /\ s.held = {} /\ s.lines = lines /\ s.reasons = Reasons(total, c, q)
    BY <2>2
  <2>4. s.total \in -1 .. 100 /\ s.total # -1
    BY <2>3, <1>3
  <2> QED
    BY <2>3, <2>4, <1>5 DEF s, lines, total, c, held, Explained
<1> QED
  BY <1>4, <1>5

-----------------------------------------------------------------------------
(* The invariant: the score is the one of what is stored, and what is      *)
(* stored comes from a row, an answer that was checked, and a profile.     *)

ScoringInv ==
  /\ profile \in Profiles
  /\ verdicts \in [Phrases -> {"none"} \cup VerdictKinds]
  /\ posting = NoPosting \/ \E row \in BoardRows : posting = Normalized(row)
  /\ reading = NoReading \/ (reading \in Extractions /\ ParseExtraction(reading))
  /\ \/ reply = <<>> /\ delta = NoDelta
     \/ posting # NoPosting /\ reply \in SignalLists /\ delta = GateDelta(reply, posting)
  /\ score = Score(posting, profile, reading, delta, verdicts)

LEMMA RepliesTyped == \A list \in SignalLists : list \in Seq(Signals)
<1>1. TAKE list \in SignalLists
<1>2. list \in Seq(ItemsOf(list))
  BY ScoringAssumption
<1>3. \A n \in DOMAIN list : list[n] \in Signals
  <2>1. TAKE n \in DOMAIN list
  <2>2. list[n] \in ItemsOf(list)
    BY Zenon DEF ItemsOf
  <2>3. ItemsOf(list) \in {ItemsOf(l) : l \in SignalLists}
    OBVIOUS
  <2> QED
    BY <2>2, <2>3 DEF Signals
<1>4. Len(list) \in Nat /\ DOMAIN list = 1 .. Len(list) /\ list = [n \in 1 .. Len(list) |-> list[n]]
  BY <1>2
<1> QED
  BY <1>3, <1>4

LEMMA NetTyped == ASSUME ScoringInv PROVE delta.net \in Int
<1>1. CASE delta = NoDelta
  BY <1>1 DEF NoDelta
<1>2. CASE reply \in SignalLists /\ delta = GateDelta(reply, posting)
  <2>1. reply \in Seq(Signals)
    BY <1>2, RepliesTyped
  <2>2. GateDelta(reply, posting).net \in Int
    BY <2>1, ItemsLeft
  <2> QED
    BY <1>2, <2>2
<1> QED
  BY <1>1, <1>2 DEF ScoringInv

LEMMA ScoringInitInv == ScoringInit => ScoringInv
<1> SUFFICES ASSUME ScoringInit PROVE ScoringInv
  OBVIOUS
<1>1. verdicts \in [Phrases -> {"none"} \cup VerdictKinds]
  BY DEF ScoringInit, Unruled
<1>2. score = Score(posting, profile, reading, delta, verdicts)
  BY DEF ScoringInit, Score
<1> QED
  BY <1>1, <1>2 DEF ScoringInit, ScoringInv

LEMMA VerdictsTyped ==
  ASSUME NEW rows \in VerdictRows, NEW wanted, NEW old \in [Phrases -> {"none"} \cup VerdictKinds]
  PROVE  ParseDealbreakerValidations(rows, wanted, old) \in [Phrases -> {"none"} \cup VerdictKinds]
<1> DEFINE V == ValidRows(rows, wanted)
           Pick(id) == CHOOSE n \in V : rows[n].id = id
           new == [id \in DOMAIN old |-> IF \E n \in V : rows[n].id = id THEN rows[Pick(id)].verdict ELSE old[id]]
<1>1. \A n \in V : rows[n].verdict \in VerdictKinds
  <2>1. TAKE n \in V
  <2>2. n \in DOMAIN rows /\ rows[n].sound
    BY DEF ValidRows
  <2>3. rows[n] \in UNION {ItemsOf(list) : list \in VerdictRows}
    <3>1. rows[n] \in ItemsOf(rows)
      BY <2>2, Zenon DEF ItemsOf
    <3>2. ItemsOf(rows) \in {ItemsOf(list) : list \in VerdictRows}
      OBVIOUS
    <3> QED
      BY <3>1, <3>2
  <2> QED
    BY <2>2, <2>3, ScoringAssumption
<1> HIDE DEF V
<1>2. \A id \in DOMAIN old : (\E n \in V : rows[n].id = id) => rows[Pick(id)].verdict \in VerdictKinds
  <2>1. TAKE id \in DOMAIN old
  <2>2. HAVE \E n \in V : rows[n].id = id
  <2>3. Pick(id) \in V
    <3>1. PICK n \in V : rows[n].id = id
      BY <2>2
    <3> QED
      BY <3>1
  <2> HIDE DEF Pick
  <2> QED
    BY <2>3, <1>1
<1> HIDE DEF Pick
<1>3. \A id \in DOMAIN old : new[id] \in {"none"} \cup VerdictKinds
  BY <1>2
<1>4. new \in [Phrases -> {"none"} \cup VerdictKinds]
  BY <1>3
<1>5. ParseDealbreakerValidations(rows, wanted, old) = new
  BY Zenon DEF ParseDealbreakerValidations, V, Pick
<1> QED
  BY <1>4, <1>5

LEMMA ScoringStepInv == ScoringInv /\ [ScoringNext]_scoringVars => ScoringInv'
<1> SUFFICES ASSUME ScoringInv, [ScoringNext]_scoringVars PROVE ScoringInv'
  OBVIOUS
<1>0. /\ profile \in Profiles /\ verdicts \in [Phrases -> {"none"} \cup VerdictKinds]
      /\ posting = NoPosting \/ \E row \in BoardRows : posting = Normalized(row)
      /\ reading = NoReading \/ (reading \in Extractions /\ ParseExtraction(reading))
      /\ \/ reply = <<>> /\ delta = NoDelta
         \/ posting # NoPosting /\ reply \in SignalLists /\ delta = GateDelta(reply, posting)
  BY DEF ScoringInv
<1>1. CASE CollectRow
  <2>1. \E row \in BoardRows : posting' = Normalized(row)
    BY <1>1 DEF CollectRow
  <2>2. posting = NoPosting /\ UNCHANGED <<reading, delta, reply, verdicts, profile>> /\ Rescored
    BY <1>1 DEF CollectRow
  <2> QED
    BY <1>0, <2>1, <2>2 DEF ScoringInv, Rescored
<1>2. CASE Extract
  <2>1. reading' \in Extractions /\ ParseExtraction(reading')
    BY <1>2 DEF Extract
  <2>2. UNCHANGED <<posting, delta, reply, verdicts, profile>> /\ Rescored
    BY <1>2 DEF Extract
  <2> QED
    BY <1>0, <2>1, <2>2 DEF ScoringInv, Rescored
<1>3. CASE ScoreDelta
  <2>1. /\ posting # NoPosting /\ reply' \in SignalLists /\ delta' = GateDelta(reply', posting)
        /\ UNCHANGED <<posting, reading, verdicts, profile>> /\ Rescored
    BY <1>3 DEF ScoreDelta
  <2> QED
    BY <1>0, <2>1 DEF ScoringInv, Rescored
<1>4. CASE ValidateDealbreakers
  <2>1. UNCHANGED <<posting, reading, delta, reply, profile>> /\ Rescored
    BY <1>4 DEF ValidateDealbreakers
  <2>2. PICK rows \in VerdictRows :
          verdicts' = ParseDealbreakerValidations(rows,
                        {d \in DealbreakerCandidates(posting, profile) : verdicts[d] = "none"}, verdicts)
    BY <1>4 DEF ValidateDealbreakers
  <2>3. verdicts' \in [Phrases -> {"none"} \cup VerdictKinds]
    BY <1>0, <2>2, VerdictsTyped
  <2> QED
    BY <1>0, <2>1, <2>3 DEF ScoringInv, Rescored
<1>5. CASE SaveScoredProfile
  <2>1. profile' \in Profiles /\ UNCHANGED <<posting, reading, delta, reply, verdicts>> /\ Rescored
    BY <1>5 DEF SaveScoredProfile
  <2> QED
    BY <1>0, <2>1 DEF ScoringInv, Rescored
<1>6. CASE UNCHANGED scoringVars
  BY <1>0, <1>6 DEF ScoringInv, scoringVars
<1> QED
  BY <1>1, <1>2, <1>3, <1>4, <1>5, <1>6 DEF ScoringNext

\* The inductive invariant of the scoring engine.
THEOREM ScoringInvariant == ScoringSpec => []ScoringInv
<1>1. ScoringInit => ScoringInv
  BY ScoringInitInv
<1>2. ScoringInv /\ [ScoringNext]_scoringVars => ScoringInv'
  BY ScoringStepInv
<1> QED
  BY <1>1, <1>2, PTL DEF ScoringSpec

LEMMA RowsTyped ==
  ASSUME NEW row \in BoardRows
  PROVE  /\ row.title \in Texts /\ row.position \o row.body \in Texts
         /\ Normalized(row).title = row.title /\ Normalized(row).body = row.position \o row.body
         /\ Normalized(row).phrases = row.phrases /\ row.phrases \in {r.phrases : r \in BoardRows}
<1>1. row.title \in Texts /\ row.position \in Texts /\ row.body \in Texts
  BY ScoringAssumption
<1>2. row.position \o row.body \in Texts
  <2> DEFINE R == [kind : DOMAIN Rung, lo : Nat, hi : Nat]
  <2>1. row.position \in Seq(R) /\ row.body \in Seq(R)
    BY <1>1 DEF Texts
  <2> HIDE DEF R
  <2>2. row.position \o row.body \in Seq(R)
    BY <2>1
  <2> QED
    BY <2>2 DEF Texts, R
<1>3. /\ Normalized(row).title = row.title /\ Normalized(row).body = row.position \o row.body
      /\ Normalized(row).phrases = row.phrases
  BY DEF Normalized
<1> QED
  BY <1>1, <1>2, <1>3

\* What the invariant says of a score.
LEMMA ScoreNow ==
  ASSUME ScoringInv, posting # NoPosting
  PROVE  Explained(score, posting, profile, reading, delta, verdicts)
BY NetTyped, ScoreHeld, Zenon DEF ScoringInv

LEMMA TypeOfScores == ASSUME ScoringInv PROVE ScoringTypeOK
<1>1. profile \in Profiles /\ \A d \in Phrases : verdicts[d] \in {"none", "applies", "not_applicable", "uncertain"}
  BY DEF ScoringInv, VerdictKinds
<1>2. CASE posting = NoPosting
  <2>1. score = NoScore
    BY <1>2 DEF ScoringInv, Score
  <2> QED
    BY <1>1, <2>1 DEF NoScore, ScoringTypeOK
<1>3. CASE posting # NoPosting
  <2>1. PICK row \in BoardRows : posting = Normalized(row)
    BY <1>3 DEF ScoringInv
  <2>2. posting.phrases \subseteq Phrases
    BY <2>1, RowsTyped, Zenon DEF Phrases
  <2>3. score.held \subseteq Phrases \cup {"education"}
    <3>1. score.held = HardExclusionReasons(posting, profile, reading, verdicts)
      BY <1>3, ScoreNow DEF Explained
    <3> QED
      BY <3>1, <2>2 DEF HardExclusionReasons, DealbreakerCandidates
  <2>4. score.reasons \subseteq {"career", "min_score"}
    <3>1. score.reasons = {} \/ score.reasons = Reasons(score.total, CareerFacts(posting, reading), profile)
      BY <1>3, ScoreNow DEF Explained
    <3>2. Reasons(score.total, CareerFacts(posting, reading), profile) \subseteq {"career", "min_score"}
      BY DEF Reasons
    <3> QED
      BY <3>1, <3>2
  <2>5. score.total \in -1 .. 100
    BY <1>3, ScoreNow DEF Explained
  <2> QED
    BY <1>1, <2>3, <2>4, <2>5 DEF ScoringTypeOK
<1> QED
  BY <1>2, <1>3

LEMMA NoLinesEmpty == NoLines.stacks = <<>> /\ NoLines.location = <<>>
BY DEF NoLines

LEMMA SentinelIsExact == ASSUME ScoringInv PROVE SentinelExact
<1>1. CASE posting = NoPosting
  <2>1. score = NoScore
    BY <1>1 DEF ScoringInv, Score
  <2> QED
    BY <2>1 DEF NoScore, SentinelExact
<1>2. CASE posting # NoPosting
  <2>1. /\ score.total = -1 <=> score.held # {}
        /\ score.held # {} => score.lines = NoLines /\ score.reasons = {}
    BY <1>2, ScoreNow DEF Explained
  <2> QED
    BY <2>1 DEF SentinelExact
<1> QED
  BY <1>1, <1>2

LEMMA PartsAreCapped == ASSUME ScoringInv PROVE PartsCapped
<1>1. score.lines = NoLines \/ score.lines = Lines(posting, profile, CareerFacts(posting, reading), delta)
  <2>1. CASE posting = NoPosting
    BY <2>1 DEF ScoringInv, Score, NoScore
  <2>2. CASE posting # NoPosting
    BY <2>2, ScoreNow DEF Explained
  <2> QED
    BY <2>1, <2>2
<1>2. CASE score.lines = NoLines
  <2>1. Total(<<>>) <= StackCap /\ Total(<<>>) <= LocationCap /\ DOMAIN <<>> = {}
    BY ShortTotals DEF StackCap, LocationCap
  <2> QED
    BY <1>2, <2>1, NoLinesEmpty DEF PartsCapped
<1>3. CASE score.lines = Lines(posting, profile, CareerFacts(posting, reading), delta)
  <2>1. score.lines.stacks = ScoreStacks(posting, profile) /\ score.lines.location = ScoreLocation(posting, profile)
    BY <1>3 DEF Lines
  <2>2. profile \in Profiles
    BY DEF ScoringInv
  <2>3. /\ Total(score.lines.stacks) \in 0 .. StackCap
        /\ \A n \in DOMAIN score.lines.stacks : score.lines.stacks[n] > 0
    BY <2>1, <2>2, StacksWithin
  <2>4. Total(score.lines.location) <= LocationCap
    <3>1. profile.location \in Int /\ LocationCap \in Int /\ 0 <= LocationCap
      BY <2>2, ProfileTyped DEF LocationCap
    <3>2. (Total(score.lines.location) = profile.location /\ profile.location <= LocationCap)
          \/ Total(score.lines.location) = LocationCap \/ Total(score.lines.location) = 0
      BY <2>1, <2>2, LocationTotal
    <3> QED
      BY <3>1, <3>2
  <2>5. Total(score.lines.stacks) <= StackCap
    BY <2>3 DEF StackCap
  <2> QED
    BY <2>3, <2>4, <2>5 DEF PartsCapped
<1> QED
  BY <1>1, <1>2, <1>3

LEMMA NoneMisled == ASSUME ScoringInv PROVE NewcomersNotMisled
<1> SUFFICES ASSUME "career" \in score.reasons, posting.newcomer, profile.years = 0
             PROVE  IF reading # NoReading
                    THEN ~ posting.intern /\ reading.min > 0 /\ reading.careerQuote = "grounded"
                    ELSE LET x == ParseExperienceYears(posting.title, posting.body) IN x # Unread /\ x[1] > 0
  BY Zenon DEF NewcomersNotMisled
<1> DEFINE c == CareerFacts(posting, reading)
<1>1. posting # NoPosting
  <2> SUFFICES ASSUME posting = NoPosting PROVE FALSE
    OBVIOUS
  <2>1. score = NoScore
    BY DEF ScoringInv, Score
  <2> QED
    BY <2>1 DEF NoScore
<1>2. ~ FitsCareer(c, 0)
  <2>1. "career" \in Reasons(score.total, c, profile)
    BY <1>1, ScoreNow DEF Explained
  <2> QED
    BY <2>1 DEF Reasons
<1>3. ~ c.newcomer /\ ~ (0 \in c.min .. c.max)
  BY <1>2 DEF FitsCareer
<1>4. CASE reading # NoReading
  <2>1. reading \in Extractions /\ ParseExtraction(reading)
    BY <1>4 DEF ScoringInv
  <2>2. reading.min \in Int /\ reading.max \in Int
    <3>1. {reading.min, reading.max} \subseteq Int
      BY <2>1, ScoringAssumption
    <3> QED
      BY <3>1
  <2>3. c = [min |-> IF posting.intern THEN 0 ELSE reading.min,
             max |-> IF reading.max = -1 THEN OpenEnded ELSE reading.max,
             newcomer |-> posting.intern \/ reading.newcomer, override |-> FALSE]
    BY <1>4 DEF CareerFacts
  <2> HIDE DEF c
  <2>4. ~ posting.intern /\ ~ reading.newcomer
    BY <1>3, <2>3
  <2>5. c.min = reading.min /\ c.max = IF reading.max = -1 THEN OpenEnded ELSE reading.max
    BY <2>3, <2>4
  <2>6. reading.min >= 0 /\ (reading.max = -1 \/ reading.max >= reading.min) /\ reading.careerQuote = "grounded"
    <3>1. /\ reading.min \in 0 .. CareerYearsMax /\ (reading.max = -1 \/ reading.max \in reading.min .. CareerUpperOpen)
          /\ reading.careerQuote = "grounded"
      BY <2>1, <2>4, Zenon DEF ParseExtraction, Restricts
    <3> QED
      BY <2>2, <3>1 DEF CareerYearsMax, CareerUpperOpen
  <2>7. reading.min > 0
    BY <1>3, <2>2, <2>5, <2>6 DEF OpenEnded
  <2> QED
    BY <1>4, <2>4, <2>6, <2>7
<1>5. CASE reading = NoReading
  <2> DEFINE x == ParseExperienceYears(posting.title, posting.body)
  <2>1. PICK row \in BoardRows : posting = Normalized(row)
    BY <1>1 DEF ScoringInv
  <2>2. x = Unread \/ x \in Nat \X Nat
    BY <2>1, RowsTyped, YearsRead
  <2>3. c = AskedYears(posting, x)
    BY <1>5 DEF CareerFacts
  <2> HIDE DEF c, x
  <2>4. x \notin {Unread, <<posting.min, posting.max>>}
    <3> SUFFICES ASSUME x \in {Unread, <<posting.min, posting.max>>} PROVE FALSE
      OBVIOUS
    <3>1. c = [min |-> posting.min, max |-> posting.max, newcomer |-> posting.newcomer, override |-> FALSE]
      BY <2>3 DEF AskedYears
    <3>2. c.newcomer = posting.newcomer
      BY <3>1
    <3> QED
      BY <3>2, <1>3
  <2>5. c.min = x[1] /\ c.max = x[2]
    <3>1. c = [min |-> x[1], max |-> x[2], newcomer |-> FALSE, override |-> TRUE]
      BY <2>3, <2>4 DEF AskedYears
    <3> QED
      BY <3>1
  <2>6. x[1] \in Nat /\ x[2] \in Nat
    BY <2>2, <2>4
  <2>7. x # Unread /\ x[1] > 0
    BY <1>3, <2>4, <2>5, <2>6
  <2> QED
    BY <1>5, <2>7, Zenon DEF x
<1> QED
  BY <1>4, <1>5

\* Scores can be told apart and explained: -1 means excluded and nothing else
\* does, no part outgrows its cap, and a posting open to newcomers is held against
\* one only for years that it names.
THEOREM ScoresAlwaysSound == ScoringSpec => []ScoreSound
<1>1. ScoringInv => ScoreSound
  BY TypeOfScores, SentinelIsExact, PartsAreCapped, NoneMisled DEF ScoreSound
<1> QED
  BY <1>1, ScoringInvariant, PTL

-----------------------------------------------------------------------------
(* What an answer leaves is borne out by the posting.                      *)

\* What the property asks of one item that an answer left.
BorneOut(it, raw, p) ==
  /\ it.kind = "presence" => Tokens(it) \subseteq p.sent
  /\ it.kind = "absence"  => Tokens(it) \cap p.full = {}
  /\ \A other \in GateDelta(raw, p).items : EvidenceIdentity(other) = EvidenceIdentity(it) => other = it
  /\ \A n \in DOMAIN raw : EvidenceIdentity(raw[n]) = EvidenceIdentity(it) /\ Usable(raw[n], p)
                           => raw[n].delta * it.delta > 0

LEMMA SameSigns ==
  ASSUME NEW a \in Int, NEW b \in Int, (a > 0 /\ b > 0) \/ (a < 0 /\ b < 0)
  PROVE  a * b > 0
OBVIOUS

LEMMA ItemBorneOut ==
  ASSUME NEW raw \in Seq(Signals), NEW p, NEW it \in GateDelta(raw, p).items
  PROVE  BorneOut(it, raw, p)
<1> DEFINE U == UsedOf(raw, p, Len(raw))
           G == Groups(raw, p)
<1>1. Exact(G, U) /\ U \in SUBSET Gated /\ it \in Unopposed(G) /\ it \in U
  BY GroupsExact, UsedFinite, ItemsLeft
<1>2. /\ DOMAIN raw = 1 .. Len(raw) /\ Len(raw) \in Nat /\ \A n \in DOMAIN raw : raw[n] \in Signals
  OBVIOUS
<1>3. PICK k \in DOMAIN raw : Usable(raw[k], p) /\ it = Bounded(raw[k])
  BY <1>1, <1>2, Zenon DEF UsedOf
<1>4. PICK g \in G : it = g.item /\ ~ (g.plus /\ g.minus)
  BY <1>1 DEF Unopposed
<1> HIDE DEF G
<1>5. GroupOf(g, U)
  BY <1>1 DEF Exact
<1>6. raw[k] \in Signals /\ it.kind = raw[k].kind /\ it.cites = raw[k].cites
  BY <1>2, <1>3, GatedItems
<1>7. Tokens(it) = Tokens(raw[k])
  BY <1>6, Zenon DEF Tokens
<1>8. it.kind = "presence" => Tokens(it) \subseteq p.sent
  BY <1>3, <1>6, <1>7, Zenon DEF Usable, GatePresence, GateAbsence
<1>9. it.kind = "absence" => Tokens(it) \cap p.full = {}
  BY <1>3, <1>6, <1>7, Zenon DEF Usable, GatePresence, GateAbsence
<1>10. ASSUME NEW other \in GateDelta(raw, p).items, EvidenceIdentity(other) = EvidenceIdentity(it)
       PROVE  other = it
  <2>1. other \in Unopposed(G)
    BY ItemsLeft DEF G
  <2>2. PICK h \in G : other = h.item
    BY <2>1 DEF Unopposed
  <2>3. h = g
    BY <1>1, <1>4, <1>10, <2>2, Zenon DEF Exact, SameEvidence
  <2> QED
    BY <2>2, <2>3, <1>4
<1>11. ASSUME NEW n \in DOMAIN raw, EvidenceIdentity(raw[n]) = EvidenceIdentity(it), Usable(raw[n], p)
       PROVE  raw[n].delta * it.delta > 0
  <2> DEFINE u == Bounded(raw[n])
             v == raw[k]
  <2>1. raw[n] \in Signals /\ raw[n].delta \in Int /\ raw[n].delta # 0 /\ v.delta \in Int /\ v.delta # 0
    BY <1>2, <1>3, <1>6, <1>11, ScoringAssumption DEF Usable
  <2>2. /\ EvidenceIdentity(u) = EvidenceIdentity(raw[n]) /\ (raw[n].delta > 0 => u.delta > 0)
        /\ (raw[n].delta < 0 => u.delta < 0) /\ u \in Gated
    BY <2>1, GatedItems
  <2>3. /\ it.delta \in Int /\ (v.delta > 0 => it.delta > 0) /\ (v.delta < 0 => it.delta < 0)
    BY <1>3, <1>6, GatedItems
  <2>4. u \in U
    <3>1. \E i \in 1 .. Len(raw) : Usable(raw[i], p) /\ Bounded(raw[i]) = u
      BY <1>2, <1>11
    <3> QED
      BY <3>1, <1>1, Zenon DEF UsedOf
  <2>5. SameEvidence(u, it)
    BY <2>2, <1>11 DEF SameEvidence
  <2>6. g.plus = SpeaksFor(U, it) /\ g.minus = SpeaksAgainst(U, it)
    BY <1>4, <1>5 DEF GroupOf
  <2> HIDE DEF U, u, v
  <2>7. ~ (u.delta > 0 /\ it.delta < 0) /\ ~ (u.delta < 0 /\ it.delta > 0)
    <3>1. SameEvidence(it, it)
      BY DEF SameEvidence
    <3>2. u.delta > 0 /\ it.delta < 0 => SpeaksFor(U, it) /\ SpeaksAgainst(U, it)
      BY <1>1, <2>4, <2>5, <3>1, Zenon DEF SpeaksFor, SpeaksAgainst
    <3>3. u.delta < 0 /\ it.delta > 0 => SpeaksFor(U, it) /\ SpeaksAgainst(U, it)
      BY <1>1, <2>4, <2>5, <3>1, Zenon DEF SpeaksFor, SpeaksAgainst
    <3> QED
      BY <3>2, <3>3, <2>6, <1>4
  <2>8. u.delta > 0 \/ u.delta < 0
    BY <2>1, <2>2
  <2>9. (raw[n].delta > 0 /\ it.delta > 0) \/ (raw[n].delta < 0 /\ it.delta < 0)
    BY <2>1, <2>2, <2>3, <2>7
  <2> QED
    BY <2>1, <2>3, <2>9, SameSigns
<1> QED
  BY <1>8, <1>9, <1>10, <1>11, Zenon DEF BorneOut

LEMMA AnswerIsGrounded == ASSUME ScoringInv PROVE AnswersGrounded
<1> SUFFICES ASSUME posting # NoPosting PROVE AnswersGrounded
  BY DEF AnswersGrounded
<1>1. PICK raw : raw = reply /\ raw \in Seq(Signals) /\ delta = GateDelta(raw, posting)
  <2>1. CASE reply = <<>> /\ delta = NoDelta
    <3>1. <<>> \in Seq(Signals)
      OBVIOUS
    <3>2. reply \in Seq(Signals)
      BY <2>1, <3>1, Zenon
    <3>3. delta = GateDelta(reply, posting)
      BY <2>1, NothingSaid, Zenon
    <3> QED
      BY <3>2, <3>3, Zenon
  <2>2. CASE reply \in SignalLists /\ delta = GateDelta(reply, posting)
    BY <2>2, RepliesTyped
  <2> QED
    BY <2>1, <2>2 DEF ScoringInv
<1>2. \A it \in delta.items : BorneOut(it, raw, posting)
  BY <1>1, ItemBorneOut
<1>3. Magnitude(delta.net) <= MaxNetDelta
  BY <1>1, ItemsLeft
<1>4. \A other \in Reordered(raw) : GateDelta(other, posting) = delta
  BY <1>1, ReorderedSame
<1> QED
  BY <1>1, <1>2, <1>3, <1>4, Zenon DEF AnswersGrounded, BorneOut

\* What the model says counts only as far as the posting bears it out, whatever list of
\* signals it answers and in whatever order (score_delta.go GateDelta).
THEOREM AnswersAlwaysGrounded == ScoringSpec => []AnswersGrounded
<1>1. ScoringInv => AnswersGrounded
  BY AnswerIsGrounded
<1> QED
  BY <1>1, ScoringInvariant, PTL

-----------------------------------------------------------------------------
(* A change of the profile moves the score the way it says.                *)

LEMMA HeavierFields ==
  ASSUME NEW q \in Profiles, NEW r \in Profiles, OnlyHeavier(q, r)
  PROVE  /\ q.years = r.years /\ q.floor = r.floor /\ q.cities = r.cities /\ q.remote = r.remote
         /\ q.education = r.education /\ q.dealbreakers = r.dealbreakers
<1>1. DOMAIN r = ProfileFields
  BY ProfileTyped
<1>2. [r EXCEPT !.career = q.career, !.salary = q.salary, !.location = q.location,
                !.stacks = q.stacks, !.minimum = q.minimum] = q
  BY DEF OnlyHeavier
<1> QED
  BY <1>1, <1>2 DEF ProfileFields

LEMMA StricterFields ==
  ASSUME NEW q \in Profiles, NEW r \in Profiles, OnlyStricter(q, r)
  PROVE  /\ q.years = r.years /\ q.floor = r.floor /\ q.cities = r.cities /\ q.remote = r.remote
         /\ q.education = r.education /\ q.career = r.career /\ q.salary = r.salary
         /\ q.location = r.location /\ q.stacks = r.stacks
         /\ q.dealbreakers \subseteq r.dealbreakers
<1>1. DOMAIN r = ProfileFields
  BY ProfileTyped
<1>2. [r EXCEPT !.dealbreakers = q.dealbreakers] = q /\ q.dealbreakers \subseteq r.dealbreakers
  BY DEF OnlyStricter
<1> QED
  BY <1>1, <1>2 DEF ProfileFields

LEMMA HeavierCareer ==
  ASSUME NEW q \in Profiles, NEW r \in Profiles, q.years = r.years, NEW c,
         EffectiveCareerWeight(q) <= EffectiveCareerWeight(r)
  PROVE  Total(ScoreCareer(c, q)) <= Total(ScoreCareer(c, r))
<1>1. EffectiveCareerWeight(q) \in Nat /\ EffectiveCareerWeight(r) \in Nat
  BY ProfileTyped
<1>2. NearMissAward(q) <= NearMissAward(r) /\ NearMissAward(q) \in Int /\ NearMissAward(r) \in Int
  BY <1>1 DEF NearMissAward
<1>3. CASE FitsCareer(c, q.years)
  <2>1. /\ Total(ScoreCareer(c, q)) = EffectiveCareerWeight(q)
        /\ Total(ScoreCareer(c, r)) = EffectiveCareerWeight(r)
    BY <1>3, CareerTotal
  <2> QED
    BY <2>1
<1>4. CASE ~ FitsCareer(c, q.years) /\ q.years \in {c.min - 1, c.max + 1}
  <2>1. Total(ScoreCareer(c, q)) = NearMissAward(q)
    BY <1>4, CareerTotal, Zenon
  <2>2. Total(ScoreCareer(c, r)) = NearMissAward(r)
    BY <1>4, CareerTotal, Zenon
  <2> QED
    BY <2>1, <2>2, <1>2
<1>5. CASE ~ FitsCareer(c, q.years) /\ q.years \notin {c.min - 1, c.max + 1}
  <2>1. Total(ScoreCareer(c, q)) = 0 /\ Total(ScoreCareer(c, r)) = 0
    BY <1>5, CareerTotal, Zenon
  <2> QED
    BY <2>1
<1> QED
  BY <1>3, <1>4, <1>5

LEMMA HeavierLocation ==
  ASSUME NEW q \in Profiles, NEW r \in Profiles, NEW p,
         q.location <= r.location, q.cities = r.cities, q.remote = r.remote
  PROVE  Total(ScoreLocation(p, q)) <= Total(ScoreLocation(p, r))
<1>1. q.location \in Int /\ r.location \in Int /\ LocationCap \in Int /\ LocationCap > 0
  BY ProfileTyped DEF LocationCap
<1> DEFINE here == p.place \in q.cities \/ (q.remote /\ p.remote)
<1>2. Total(ScoreLocation(p, q)) =
        IF q.location > 0 /\ here THEN IF q.location <= LocationCap THEN q.location ELSE LocationCap ELSE 0
  BY LocationTotal
<1>3. Total(ScoreLocation(p, r)) =
        IF r.location > 0 /\ here THEN IF r.location <= LocationCap THEN r.location ELSE LocationCap ELSE 0
  BY LocationTotal
<1> HIDE DEF here
<1> QED
  BY <1>1, <1>2, <1>3

LEMMA HeavierSalary ==
  ASSUME NEW q \in Profiles, NEW r \in Profiles, NEW p, q.floor = r.floor,
         EffectiveSalaryWeight(q) <= EffectiveSalaryWeight(r)
  PROVE  Total(ScoreSalary(p, q)) <= Total(ScoreSalary(p, r))
<1>1. EffectiveSalaryWeight(q) \in Nat /\ EffectiveSalaryWeight(r) \in Nat
  BY ProfileTyped
<1>2. AmbiguousAward(q) <= AmbiguousAward(r) /\ AmbiguousAward(q) \in Int /\ AmbiguousAward(r) \in Int
  BY <1>1 DEF AmbiguousAward
<1> DEFINE unclear == p.pay = 0
           enough == p.pay > 0 /\ p.pay >= q.floor
<1>3. Total(ScoreSalary(p, q)) = IF unclear THEN AmbiguousAward(q) ELSE IF enough THEN EffectiveSalaryWeight(q) ELSE 0
  BY SalaryTotal
<1>4. Total(ScoreSalary(p, r)) = IF unclear THEN AmbiguousAward(r) ELSE IF enough THEN EffectiveSalaryWeight(r) ELSE 0
  BY SalaryTotal
<1> HIDE DEF unclear, enough
<1> QED
  BY <1>1, <1>2, <1>3, <1>4

LEMMA HeavierLines ==
  ASSUME NEW q \in Profiles, NEW r \in Profiles, OnlyHeavier(q, r), NEW p, NEW c, NEW d, d.net \in Int
  PROVE  SumLines(Lines(p, q, c, d)) <= SumLines(Lines(p, r, c, d))
<1>1. Total(ScoreStacks(p, q)) <= Total(ScoreStacks(p, r))
  BY HeavierStacks DEF OnlyHeavier
<1>2. Total(ScoreCareer(c, q)) <= Total(ScoreCareer(c, r))
  BY HeavierCareer, HeavierFields DEF OnlyHeavier
<1>3. Total(ScoreLocation(p, q)) <= Total(ScoreLocation(p, r))
  BY HeavierLocation, HeavierFields DEF OnlyHeavier
<1>4. Total(ScoreSalary(p, q)) <= Total(ScoreSalary(p, r))
  BY HeavierSalary, HeavierFields DEF OnlyHeavier
<1>5. /\ SumLines(Lines(p, q, c, d)) =
              Total(ScoreStacks(p, q)) + Total(ScoreCareer(c, q)) + Total(ScoreLocation(p, q))
                + Total(ScoreSalary(p, q)) + Total(AILine(d))
      /\ {Total(ScoreStacks(p, q)), Total(ScoreCareer(c, q)), Total(ScoreLocation(p, q)),
             Total(ScoreSalary(p, q)), Total(AILine(d))} \subseteq Int
  BY LinesTotal
<1>6. /\ SumLines(Lines(p, r, c, d)) =
              Total(ScoreStacks(p, r)) + Total(ScoreCareer(c, r)) + Total(ScoreLocation(p, r))
                + Total(ScoreSalary(p, r)) + Total(AILine(d))
      /\ {Total(ScoreStacks(p, r)), Total(ScoreCareer(c, r)), Total(ScoreLocation(p, r)),
             Total(ScoreSalary(p, r)), Total(AILine(d))} \subseteq Int
  BY LinesTotal
<1> QED
  BY <1>1, <1>2, <1>3, <1>4, <1>5, <1>6

LEMMA ClampedGrows ==
  ASSUME NEW m \in Int, NEW n \in Int, m <= n
  PROVE  Clamped(m) <= Clamped(n)
BY ClampedBounds

\* Two profiles, and the scores of one posting under each.
LEMMA HeavierScores ==
  ASSUME NEW q \in Profiles, NEW r \in Profiles, OnlyHeavier(q, r),
         NEW p, NEW x, NEW d, NEW v, d.net \in Int, NEW s, NEW t,
         Explained(s, p, q, x, d, v), Explained(t, p, r, x, d, v)
  PROVE  t.total >= s.total
<1> DEFINE c == CareerFacts(p, x)
           m == SumLines(Lines(p, q, c, d))
           n == SumLines(Lines(p, r, c, d))
<1>1. HardExclusionReasons(p, q, x, v) = HardExclusionReasons(p, r, x, v)
  BY HeavierFields, Zenon DEF HardExclusionReasons, DealbreakerCandidates, EducationDealbreaker
<1>2. m \in Int /\ n \in Int /\ m <= n
  BY LinesTotal, HeavierLines
<1>3. Clamped(m) <= Clamped(n)
  BY <1>2, ClampedGrows
<1>4. s.held = t.held
  BY <1>1 DEF Explained
<1>5. s.held # {} => s.total = -1 /\ t.total = -1
  BY <1>4 DEF Explained
<1>6. s.held = {} => s.total = Clamped(m) /\ t.total = Clamped(n)
  BY <1>4 DEF Explained
<1> HIDE DEF m, n
<1>7. CASE s.held # {}
  BY <1>5, <1>7
<1>8. CASE s.held = {}
  <2>1. Clamped(m) \in Int /\ Clamped(n) \in Int
    BY <1>2, ClampedBounds
  <2> QED
    BY <1>3, <1>6, <1>8, <2>1
<1> QED
  BY <1>7, <1>8

LEMMA StricterScores ==
  ASSUME NEW q \in Profiles, NEW r \in Profiles, OnlyStricter(q, r),
         NEW p, NEW x, NEW d, NEW v, d.net \in Int, NEW s, NEW t,
         Explained(s, p, q, x, d, v), Explained(t, p, r, x, d, v)
  PROVE  t.total <= s.total
<1> DEFINE c == CareerFacts(p, x)
           lines == Lines(p, q, c, d)
<1>1. HardExclusionReasons(p, q, x, v) \subseteq HardExclusionReasons(p, r, x, v)
  BY StricterFields DEF HardExclusionReasons, DealbreakerCandidates, EducationDealbreaker
<1>2. Lines(p, r, c, d) = lines
  <2>1. ScoreStacks(p, r) = ScoreStacks(p, q)
    BY StricterFields, Zenon DEF ScoreStacks
  <2>2. EffectiveCareerWeight(r) = EffectiveCareerWeight(q) /\ EffectiveSalaryWeight(r) = EffectiveSalaryWeight(q)
    BY StricterFields, Zenon DEF EffectiveCareerWeight, EffectiveSalaryWeight
  <2>3. ScoreCareer(c, r) = ScoreCareer(c, q)
    BY <2>2, StricterFields, Zenon DEF ScoreCareer, NearMissAward
  <2>4. ScoreLocation(p, r) = ScoreLocation(p, q)
    <3>1. q.location = r.location /\ q.cities = r.cities /\ q.remote = r.remote
      BY StricterFields, Zenon
    <3> QED
      BY <3>1 DEF ScoreLocation
  <2>5. ScoreSalary(p, r) = ScoreSalary(p, q)
    BY <2>2, StricterFields, Zenon DEF ScoreSalary, AmbiguousAward
  <2> QED
    BY <2>1, <2>3, <2>4, <2>5, Zenon DEF Lines
<1>3. s.held \subseteq t.held /\ s.total \in -1 .. 100
  BY <1>1 DEF Explained
<1>4. t.held # {} => t.total = -1
  BY DEF Explained
<1>5. t.held = {} => s.total = Clamped(SumLines(lines)) /\ t.total = Clamped(SumLines(lines))
  <2>1. t.held = {} => s.held = {}
    BY <1>3
  <2>2. t.held = {} => s.total = Clamped(SumLines(lines))
    BY <2>1, Zenon DEF Explained
  <2>3. t.held = {} => t.total = Clamped(SumLines(Lines(p, r, c, d)))
    BY Zenon DEF Explained
  <2> QED
    BY <2>2, <2>3, <1>2, Zenon
<1> HIDE DEF lines
<1>6. CASE t.held # {}
  BY <1>3, <1>4, <1>6
<1>7. CASE t.held = {}
  <2>1. t.total = s.total
    BY <1>5, <1>7, Zenon
  <2> QED
    BY <2>1, <1>3
<1> QED
  BY <1>6, <1>7

LEMMA ScoresMove ==
  ASSUME ScoringInv, ScoringInv', ScoringNext, posting # NoPosting
  PROVE  /\ OnlyHeavier(profile, profile')  => score'.total >= score.total
         /\ OnlyStricter(profile, profile') => score'.total <= score.total
         /\ delta' # delta => score'.held = score.held
<1>1. ASSUME profile' # profile
      PROVE  UNCHANGED <<posting, reading, delta, verdicts>>
  BY <1>1 DEF ScoringNext, CollectRow, Extract, ScoreDelta, ValidateDealbreakers, SaveScoredProfile
<1>2. ASSUME delta' # delta
      PROVE  UNCHANGED <<posting, reading, profile, verdicts>>
  BY <1>2 DEF ScoringNext, CollectRow, Extract, ScoreDelta, ValidateDealbreakers, SaveScoredProfile
<1>3. profile \in Profiles /\ profile' \in Profiles /\ delta.net \in Int
  BY NetTyped DEF ScoringInv
<1>4. Explained(score, posting, profile, reading, delta, verdicts)
  BY ScoreNow
<1>5. ASSUME posting' = posting
      PROVE  Explained(score', posting, profile', reading', delta', verdicts')
  <2>1. delta'.net \in Int
    <3>1. CASE delta' = NoDelta
      BY <3>1 DEF NoDelta
    <3>2. CASE reply' \in SignalLists /\ delta' = GateDelta(reply', posting')
      BY <3>2, RepliesTyped, ItemsLeft
    <3> QED
      BY <3>1, <3>2 DEF ScoringInv
  <2>2. score' = Score(posting, profile', reading', delta', verdicts')
    BY <1>5 DEF ScoringInv
  <2> QED
    BY <2>1, <2>2, <1>3, ScoreHeld, Zenon
<1>6. ASSUME OnlyHeavier(profile, profile') PROVE score'.total >= score.total
  <2>1. profile' # profile
    BY <1>6 DEF OnlyHeavier
  <2>2. Explained(score', posting, profile', reading, delta, verdicts)
    BY <2>1, <1>1, <1>5
  <2> QED
    BY <1>3, <1>4, <1>6, <2>2, HeavierScores
<1>7. ASSUME OnlyStricter(profile, profile') PROVE score'.total <= score.total
  <2>1. profile' # profile
    BY <1>7 DEF OnlyStricter
  <2>2. Explained(score', posting, profile', reading, delta, verdicts)
    BY <2>1, <1>1, <1>5
  <2> QED
    BY <1>3, <1>4, <1>7, <2>2, StricterScores
<1>8. ASSUME delta' # delta PROVE score'.held = score.held
  <2>1. Explained(score', posting, profile, reading, delta', verdicts)
    BY <1>2, <1>5, <1>8
  <2> QED
    BY <2>1, <1>4, Zenon DEF Explained
<1> QED
  BY <1>6, <1>7, <1>8

\* A heavier weight never costs a posting points, one more excluded phrase never gives it any,
\* and no rating of the model excludes a posting or brings one back, for every profile
\* (rules.go scoreStacks, engine.go Score).
THEOREM ScoresAlwaysMonotone == ScoringSpec => ScoreMonotone
<1>1. /\ ScoringInv /\ ScoringInv' /\ [ScoringNext]_scoringVars
      => [posting # NoPosting =>
            /\ OnlyHeavier(profile, profile')  => score'.total >= score.total
            /\ OnlyStricter(profile, profile') => score'.total <= score.total
            /\ delta' # delta => score'.held = score.held]_scoringVars
  <2> SUFFICES ASSUME ScoringInv, ScoringInv', ScoringNext, posting # NoPosting
               PROVE  /\ OnlyHeavier(profile, profile')  => score'.total >= score.total
                      /\ OnlyStricter(profile, profile') => score'.total <= score.total
                      /\ delta' # delta => score'.held = score.held
    BY Zenon
  <2> QED
    BY ScoresMove, Zenon
<1> QED
  BY <1>1, ScoringInvariant, PTL DEF ScoringSpec, ScoreMonotone

=============================================================================
