---------------------------- MODULE TablesProofs ----------------------------
EXTENDS Tables, SequenceTheorems, FiniteSetTheorems, WellFoundedInduction, TLAPS

-----------------------------------------------------------------------------
(* Induction over the naturals, as a fact about sets: the prover cannot    *)
(* instantiate a theorem over an operator.                                 *)

NatLess == OpToRel(<, Nat)

LEMMA NatLessIs == \A x, y \in Nat : <<x, y>> \in NatLess <=> x < y
  BY DEF NatLess, OpToRel

LEMMA Least ==
  ASSUME NEW T, T \subseteq Nat, T # {}
  PROVE  \E x \in T : \A y \in T : x <= y
<1>1. IsWellFoundedOn(NatLess, Nat)
  BY NatLessThanWellFounded DEF NatLess
<1>2. PICK x \in T : \A y \in T : ~ (<<y, x>> \in NatLess)
  BY <1>1, WFMin
<1>3. \A y \in T : ~(y < x)
  BY <1>2, NatLessIs
<1>4. x \in Nat /\ \A y \in T : y \in Nat
  OBVIOUS
<1> QED
  BY <1>3, <1>4

LEMMA Induction ==
  ASSUME NEW T, 0 \in T, \A n \in Nat : n \in T => n + 1 \in T
  PROVE  \A n \in Nat : n \in T
<1> SUFFICES ASSUME NEW k \in Nat, k \notin T
             PROVE  FALSE
  OBVIOUS
<1>1. PICK x \in Nat \ T : \A y \in Nat \ T : x <= y
  <2>1. Nat \ T \subseteq Nat /\ Nat \ T # {}
    OBVIOUS
  <2> QED
    BY <2>1, Least
<1>2. x # 0 /\ x - 1 \in Nat
  BY <1>1
<1>3. x - 1 \in T
  BY <1>1, <1>2
<1> QED
  BY <1>1, <1>2, <1>3

LEMMA InductionTo ==
  ASSUME NEW n \in Nat, NEW T, 0 \in T, \A i \in 0..n : i \in T /\ i < n => i + 1 \in T
  PROVE  \A i \in 0..n : i \in T
<1> DEFINE U == {i \in Nat : i > n \/ i \in T}
<1>1. 0 \in U
  OBVIOUS
<1>2. \A i \in Nat : i \in U => i + 1 \in U
  OBVIOUS
<1>3. \A i \in Nat : i \in U
  <2> HIDE DEF U
  <2> QED
    BY <1>1, <1>2, Induction
<1> QED
  BY <1>3

(* A function defined by recursion over an interval exists.                *)
Recurses(g, n, S, a, step) ==
    g \in [0..n -> S] /\ g[0] = a /\ \A i \in 1..n : g[i] = step[<<i, g[i - 1]>>]

LEMMA Recursion ==
  ASSUME NEW n \in Nat, NEW S, NEW a \in S, NEW step \in [(1..n) \X S -> S]
  PROVE  \E g : Recurses(g, n, S, a, step)
<1> DEFINE Upto(m) == \E g \in [0..m -> S] :
                         g[0] = a /\ \A i \in 1..m : g[i] = step[<<i, g[i - 1]>>]
           T == {m \in 0..n : Upto(m)}
<1>1. 0 \in T
  <2>1. [i \in 0..0 |-> a] \in [0..0 -> S] /\ [i \in 0..0 |-> a][0] = a
    OBVIOUS
  <2>2. Upto(0)
    <3>1. \A i \in 1..0 : FALSE
      OBVIOUS
    <3> QED
      BY <2>1, <3>1
  <2> QED
    BY <2>2
<1>2. ASSUME NEW m \in 0..n, m \in T, m < n
      PROVE  m + 1 \in T
  <2>1. PICK g \in [0..m -> S] : g[0] = a /\ \A i \in 1..m : g[i] = step[<<i, g[i - 1]>>]
    BY <1>2
  <2> DEFINE h == [i \in 0..m + 1 |-> IF i <= m THEN g[i] ELSE step[<<m + 1, g[m]>>]]
  <2>2. step[<<m + 1, g[m]>>] \in S
    <3>1. g[m] \in S /\ m + 1 \in 1..n
      BY <1>2
    <3> QED
      BY <3>1
  <2>3. h \in [0..m + 1 -> S] /\ h[0] = a
    BY <2>1, <2>2
  <2>4. ASSUME NEW i \in 1..m + 1
        PROVE  h[i] = step[<<i, h[i - 1]>>]
    <3>1. CASE i <= m
      BY <2>1, <3>1
    <3>2. CASE i = m + 1
      BY <3>2
    <3> QED
      BY <3>1, <3>2
  <2>5. Upto(m + 1)
    <3> HIDE DEF h
    <3> QED
      BY <2>3, <2>4
  <2> QED
    BY <1>2, <2>5
<1>3. n \in T
  <2> HIDE DEF T
  <2> QED
    BY <1>1, <1>2, InductionTo
<1> QED
  BY <1>3 DEF Recurses

-----------------------------------------------------------------------------
(* Finite sets *)

(* Of finitely many elements one has the least value.                      *)
LEMMA MinOver ==
  ASSUME NEW S, IsFiniteSet(S), S # {}, NEW f, \A x \in S : f[x] \in Int
  PROVE  \E x \in S : \A y \in S : f[x] <= f[y]
<1> DEFINE HasMin(U) == \E x \in U : \A y \in U : f[x] <= f[y]
           n == Cardinality(S)
           T == {m \in 0..n : \A U \in SUBSET S : Cardinality(U) = m /\ U # {} => HasMin(U)}
<1>1. n \in Nat
  BY FS_CardinalityType
<1>2. \A U \in SUBSET S : IsFiniteSet(U) /\ Cardinality(U) \in Nat
  BY FS_Subset, FS_CardinalityType
<1>3. 0 \in T
  <2>1. \A U \in SUBSET S : Cardinality(U) = 0 => U = {}
    BY <1>2, FS_EmptySet
  <2> QED
    BY <1>1, <2>1
<1>4. ASSUME NEW m \in 0..n, m \in T, m < n
      PROVE  m + 1 \in T
  <2> SUFFICES ASSUME NEW U \in SUBSET S, Cardinality(U) = m + 1, U # {}
               PROVE  HasMin(U)
    BY <1>1, <1>4
  <2>1. PICK u \in U : TRUE
    OBVIOUS
  <2> DEFINE V == U \ {u}
  <2>2. V \in SUBSET S /\ Cardinality(V) = m
    <3>1. Cardinality(V) = Cardinality(U) - 1
      BY <1>2, <2>1, FS_RemoveElement
    <3> QED
      BY <3>1
  <2>3. CASE V = {}
    <3>1. U = {u} /\ f[u] \in Int
      BY <2>1, <2>3
    <3> QED
      BY <3>1
  <2>4. CASE V # {}
    <3>1. PICK x \in V : \A y \in V : f[x] <= f[y]
      BY <1>4, <2>2, <2>4
    <3>2. \A y \in U : y = u \/ y \in V
      OBVIOUS
    <3>3. x \in U /\ u \in U /\ f[x] \in Int /\ f[u] \in Int /\ \A y \in U : f[y] \in Int
      BY <2>1, <3>1
    <3>4. CASE f[x] <= f[u]
      <4>1. \A y \in U : f[x] <= f[y]
        BY <3>1, <3>2, <3>4
      <4> QED
        BY <3>3, <4>1
    <3>5. CASE f[u] < f[x]
      <4>1. \A y \in U : f[u] <= f[y]
        BY <3>1, <3>2, <3>3, <3>5
      <4> QED
        BY <3>3, <4>1
    <3> QED
      BY <3>3, <3>4, <3>5
  <2> QED
    BY <2>3, <2>4
<1>5. n \in T
  <2>1. \A m \in 0..n : m \in T /\ m < n => m + 1 \in T
    BY <1>4
  <2> HIDE DEF T, n
  <2>2. \A i \in 0..n : i \in T
    BY <1>1, <1>3, <2>1, InductionTo
  <2> QED
    BY <1>1, <2>2
<1>6. S \in SUBSET S /\ Cardinality(S) = n
  OBVIOUS
<1> QED
  BY <1>5, <1>6

LEMMA MinIs ==
  ASSUME NEW S, IsFiniteSet(S), S # {}, S \subseteq Int
  PROVE  Min(S) \in S /\ \A y \in S : Min(S) <= y
<1> DEFINE f == [x \in S |-> x]
<1>1. \A x \in S : f[x] \in Int
  OBVIOUS
<1>2. \E x \in S : \A y \in S : f[x] <= f[y]
  <2> HIDE DEF f
  <2> QED
    BY <1>1, MinOver
<1>3. \E x \in S : \A y \in S : x <= y
  BY <1>2
<1> QED
  BY <1>3 DEF Min

LEMMA MaxIs ==
  ASSUME NEW S, IsFiniteSet(S), S # {}, S \subseteq Int
  PROVE  Max(S) \in S /\ \A y \in S : y <= Max(S)
<1> DEFINE f == [x \in S |-> -x]
<1>1. \A x \in S : f[x] \in Int
  OBVIOUS
<1>2. \E x \in S : \A y \in S : f[x] <= f[y]
  <2> HIDE DEF f
  <2> QED
    BY <1>1, MinOver
<1>3. \E x \in S : \A y \in S : x >= y
  BY <1>2
<1> QED
  BY <1>3 DEF Max

LEMMA MaxOfTwo ==
  ASSUME NEW a \in Int, NEW b \in Int
  PROVE  Max({a, b}) = IF a >= b THEN a ELSE b
<1>1. IsFiniteSet({a, b})
  <2>1. IsFiniteSet({a} \cup {b}) /\ {a, b} = {a} \cup {b}
    BY FS_Singleton, FS_Union
  <2> QED
    BY <2>1
<1>2. Max({a, b}) \in {a, b} /\ \A y \in {a, b} : y <= Max({a, b})
  BY <1>1, MaxIs
<1> QED
  BY <1>2

LEMMA MinOfTwo ==
  ASSUME NEW a \in Int, NEW b \in Int
  PROVE  Min({a, b}) = IF a <= b THEN a ELSE b
<1>1. IsFiniteSet({a, b})
  <2>1. IsFiniteSet({a} \cup {b}) /\ {a, b} = {a} \cup {b}
    BY FS_Singleton, FS_Union
  <2> QED
    BY <2>1
<1>2. Min({a, b}) \in {a, b} /\ \A y \in {a, b} : Min({a, b}) <= y
  BY <1>1, MinIs
<1> QED
  BY <1>2

(* The image of a finite set is finite.                                    *)
LEMMA ImageFinite ==
  ASSUME NEW S, IsFiniteSet(S), NEW f, DOMAIN f = S
  PROVE  IsFiniteSet({f[x] : x \in S})
<1> DEFINE T == {f[x] : x \in S}
           g == [x \in S |-> f[x]]
<1>1. g \in Surjection(S, T)
  BY DEF Surjection
<1> QED
  BY <1>1, FS_Surjection

-----------------------------------------------------------------------------
(* Ranks: the elements of a finite set in a strict total order, given as a *)
(* set of pairs, take the places from 1 to its size, each once.            *)

StrictOrder(R, P) ==
    /\ \A r \in P : <<r, r>> \notin R
    /\ \A r, s, t \in P : <<r, s>> \in R /\ <<s, t>> \in R => <<r, t>> \in R
    /\ \A r, s \in P : r = s \/ <<r, s>> \in R \/ <<s, r>> \in R

RankIn(R, P, r) == 1 + Cardinality({s \in P : <<s, r>> \in R})

LEMMA Ranks ==
  ASSUME NEW P, IsFiniteSet(P), NEW R, StrictOrder(R, P)
  PROVE  /\ \A r \in P : RankIn(R, P, r) \in 1..Cardinality(P)
         /\ \A r, s \in P : <<r, s>> \in R => RankIn(R, P, r) < RankIn(R, P, s)
         /\ \A k \in 1..Cardinality(P) : \E r \in P : RankIn(R, P, r) = k
<1> DEFINE Below(r) == {s \in P : <<s, r>> \in R}
           n == Cardinality(P)
<1>1. n \in Nat
  BY FS_CardinalityType
<1>2. ASSUME NEW r \in P
      PROVE  IsFiniteSet(Below(r)) /\ Cardinality(Below(r)) \in Nat
  <2>1. Below(r) \in SUBSET P
    OBVIOUS
  <2> HIDE DEF Below
  <2> QED
    BY <2>1, FS_Subset, FS_CardinalityType
<1>3. ASSUME NEW r \in P, NEW T, IsFiniteSet(T), Below(r) \subseteq T, r \in T
      PROVE  Cardinality(Below(r)) < Cardinality(T)
  <2>1. r \notin Below(r)
    BY DEF StrictOrder
  <2>2. Below(r) \in SUBSET T /\ Below(r) # T
    BY <1>3, <2>1
  <2>3. Cardinality(T) \in Nat /\ Cardinality(Below(r)) \in Nat
    BY <1>2, <1>3, FS_CardinalityType
  <2> HIDE DEF Below
  <2> QED
    BY <1>3, <2>2, <2>3, FS_Subset
<1>4. ASSUME NEW r \in P
      PROVE  RankIn(R, P, r) \in 1..n
  <2>1. Cardinality(Below(r)) < n
    BY <1>3
  <2> QED
    BY <1>1, <1>2, <2>1 DEF RankIn
<1>5. ASSUME NEW r \in P, NEW s \in P, <<r, s>> \in R
      PROVE  RankIn(R, P, r) < RankIn(R, P, s)
  <2>1. Below(r) \subseteq Below(s) /\ r \in Below(s)
    BY <1>5 DEF StrictOrder
  <2>2. Cardinality(Below(r)) < Cardinality(Below(s))
    <3> HIDE DEF Below
    <3> QED
      BY <1>2, <1>3, <2>1
  <2> QED
    BY <1>2, <2>2 DEF RankIn
<1>6. ASSUME NEW k \in 1..n
      PROVE  \E r \in P : RankIn(R, P, r) = k
  <2> DEFINE f == [r \in P |-> RankIn(R, P, r)]
  <2>1. f \in [P -> 1..n]
    BY <1>4
  <2>2. ASSUME NEW r \in P, NEW s \in P, f[r] = f[s]
        PROVE  r = s
    <3>1. RankIn(R, P, r) = RankIn(R, P, s) /\ RankIn(R, P, r) \in Int
      BY <1>1, <1>4, <2>2
    <3>2. ~(<<r, s>> \in R) /\ ~(<<s, r>> \in R)
      BY <1>5, <3>1
    <3> QED
      BY <3>2 DEF StrictOrder
  <2> HIDE DEF f
  <2>3. f \in Injection(P, 1..n)
    BY <2>1, <2>2 DEF Injection, IsInjective
  <2>4. IsFiniteSet(1..n) /\ Cardinality(1..n) = n
    BY <1>1, FS_Interval
  <2>5. f \in Surjection(P, 1..n)
    BY <2>3, <2>4, FS_Injection
  <2>6. PICK r \in P : f[r] = k
    BY <2>5 DEF Surjection
  <2> QED
    BY <2>6 DEF f
<1> QED
  BY <1>4, <1>5, <1>6

-----------------------------------------------------------------------------
(* Sums *)

LEMMA SumIsInt ==
  ASSUME NEW f, NEW S, IsFiniteSet(S), \A x \in S : f[x] \in Int
  PROVE  SumFunctionOnSet(f, S) \in Int
<1> DEFINE pick(s)  == CHOOSE x \in s : TRUE
           Sum(g, s) == IF s = {} THEN 0 ELSE f[pick(s)] + g[s \ {pick(s)}]
           n        == Cardinality(S)
           Small(m) == {s \in SUBSET S : Cardinality(s) <= m}
           Upto(m)  == \E g \in [Small(m) -> Int] : \A s \in Small(m) : g[s] = Sum(g, s)
           T        == {m \in 0..n : Upto(m)}
           it       == CHOOSE iter : iter = [s \in SUBSET S |-> Sum(iter, s)]
<1>1. n \in Nat /\ SUBSET S = Small(n)
  BY FS_CardinalityType, FS_Subset
<1>2. ASSUME NEW s \in SUBSET S
      PROVE  /\ Cardinality(s) \in Nat /\ (Cardinality(s) = 0 <=> s = {})
             /\ s # {} => /\ pick(s) \in s /\ f[pick(s)] \in Int
                          /\ s \ {pick(s)} \in SUBSET S
                          /\ Cardinality(s \ {pick(s)}) = Cardinality(s) - 1
  <2>1. IsFiniteSet(s)
    BY FS_Subset
  <2>2. s # {} => pick(s) \in s
    OBVIOUS
  <2> HIDE DEF pick
  <2> QED
    BY <2>1, <2>2, FS_CardinalityType, FS_EmptySet, FS_RemoveElement
<1>3. 0 \in T
  <2>1. ASSUME NEW s \in Small(0)
        PROVE  s = {}
    <3>1. s \in SUBSET S /\ Cardinality(s) <= 0
      OBVIOUS
    <3>2. Cardinality(s) \in Nat /\ (Cardinality(s) = 0 <=> s = {})
      BY <1>2, <3>1
    <3> QED
      BY <3>1, <3>2
  <2>2. [s \in Small(0) |-> 0] \in [Small(0) -> Int]
    OBVIOUS
  <2>3. Upto(0)
    <3>1. \A s \in Small(0) : [t \in Small(0) |-> 0][s] = Sum([t \in Small(0) |-> 0], s)
      BY <2>1
    <3> QED
      BY <2>2, <3>1
  <2> QED
    <3> HIDE DEF Upto
    <3> QED
      BY <1>1, <2>3
<1>4. ASSUME NEW m \in 0..n, m \in T, m < n
      PROVE  m + 1 \in T
  <2>1. PICK g \in [Small(m) -> Int] : \A s \in Small(m) : g[s] = Sum(g, s)
    BY <1>4
  <2> DEFINE h == [s \in Small(m + 1) |-> Sum(g, s)]
  <2>2. ASSUME NEW s \in Small(m + 1), s # {}
        PROVE  s \ {pick(s)} \in Small(m)
    BY <1>2, <2>2
  <2>3. ASSUME NEW s \in Small(m + 1)
        PROVE  h[s] \in Int
    BY <1>2, <2>1, <2>2, <2>3
  <2>4. \A s \in Small(m) : s \in Small(m + 1) /\ h[s] = g[s]
    BY <1>2, <2>1
  <2>5. ASSUME NEW s \in Small(m + 1)
        PROVE  h[s] = Sum(h, s)
    <3>1. s # {} => h[s \ {pick(s)}] = g[s \ {pick(s)}]
      BY <2>2, <2>4
    <3> QED
      BY <3>1
  <2>6. h \in [Small(m + 1) -> Int]
    BY <2>3
  <2>7. Upto(m + 1)
    <3> HIDE DEF h, Sum, Small
    <3> QED
      BY <2>5, <2>6
  <2> QED
    <3> HIDE DEF Upto
    <3> QED
      BY <1>1, <1>4, <2>7
<1>5. n \in T
  <2> HIDE DEF T, n
  <2> QED
    BY <1>1, <1>3, <1>4, InductionTo
<1>6. it = [s \in SUBSET S |-> Sum(it, s)]
  <2>1. PICK g \in [SUBSET S -> Int] : \A s \in SUBSET S : g[s] = Sum(g, s)
    BY <1>1, <1>5
  <2>2. g = [s \in SUBSET S |-> Sum(g, s)]
    <3> HIDE DEF Sum
    <3> QED
      BY <2>1
  <2> QED
    BY <2>2
<1> HIDE DEF it
<1> DEFINE U == {m \in 0..n : \A s \in Small(m) : it[s] \in Int}
<1>7. 0 \in U
  <2>1. ASSUME NEW s \in Small(0)
        PROVE  s = {} /\ s \in SUBSET S
    <3>1. s \in SUBSET S /\ Cardinality(s) <= 0
      OBVIOUS
    <3>2. Cardinality(s) \in Nat /\ (Cardinality(s) = 0 <=> s = {})
      BY <1>2, <3>1
    <3> QED
      BY <3>1, <3>2
  <2>2. \A s \in Small(0) : it[s] = 0
    BY <1>6, <2>1
  <2> QED
    BY <1>1, <2>2
<1>8. ASSUME NEW m \in 0..n, m \in U, m < n
      PROVE  m + 1 \in U
  <2> SUFFICES ASSUME NEW s \in Small(m + 1)
               PROVE  it[s] \in Int
    BY <1>1, <1>8
  <2>1. it[s] = Sum(it, s)
    BY <1>6
  <2>2. CASE s = {}
    BY <2>1, <2>2
  <2>3. CASE s # {}
    <3>1. s \ {pick(s)} \in Small(m) /\ f[pick(s)] \in Int
      BY <1>2, <2>3
    <3>2. it[s \ {pick(s)}] \in Int
      BY <1>8, <3>1
    <3> HIDE DEF pick
    <3> QED
      BY <2>1, <2>3, <3>1, <3>2
  <2> QED
    BY <2>2, <2>3
<1>9. n \in U
  <2> HIDE DEF U, n
  <2> QED
    BY <1>1, <1>7, <1>8, InductionTo
<1>10. it[S] \in Int
  BY <1>1, <1>9
<1> QED
  BY <1>10 DEF it, Sum, pick, SumFunctionOnSet, FoldFunctionOnSet, MapThenFoldSet

-----------------------------------------------------------------------------
(* Kept *)

(* What one more element does.                                             *)
Step(seq, S, g, i) == IF i \in S THEN Append(g[i - 1], seq[i]) ELSE g[i - 1]

Scans(g, E, seq, S) ==
    /\ g \in [0..Len(seq) -> Seq(E)] /\ g[0] = <<>>
    /\ \A i \in 1..Len(seq) : g[i] = Step(seq, S, g, i)
    /\ Kept(seq, S) = g[Len(seq)]

LEMMA KeptByPrefix ==
  ASSUME NEW E, NEW seq \in Seq(E), NEW S
  PROVE  \E g : Scans(g, E, seq, S)
<1> DEFINE n == Len(seq)
           Q == Seq(E)
           nil == <<>>
           Add(s, i) == IF i \in S THEN Append(s, seq[i]) ELSE s
           Eq(g) == g = [i \in 0..n |-> IF i = 0 THEN nil ELSE Add(g[i - 1], i)]
           step == [p \in (1..n) \X Q |-> Add(p[2], p[1])]
           kept == CHOOSE g : Eq(g)
<1>1. n \in Nat /\ nil \in Q /\ \A i \in 1..n : seq[i] \in E
  BY LenProperties, EmptySeq, ElementOfSeq
<1>2. \A s \in Q, i \in 1..n : Add(s, i) \in Q
  BY <1>1, AppendProperties
<1> HIDE DEF n, Q, nil, Add
<1>3. step \in [(1..n) \X Q -> Q]
  BY <1>2
<1>4. \A i \in 1..n, s \in Q : step[<<i, s>>] = Add(s, i)
  OBVIOUS
<1> HIDE DEF step
<1>5. PICK g : Recurses(g, n, Q, nil, step)
  BY <1>1, <1>3, Recursion
<1>6. g \in [0..n -> Q] /\ g[0] = nil /\ \A i \in 1..n : g[i] = step[<<i, g[i - 1]>>]
  BY <1>5 DEF Recurses
<1>7. Eq(g)
  <2>1. ASSUME NEW i \in 1..n
        PROVE  g[i] = Add(g[i - 1], i)
    <3>1. g[i - 1] \in Q
      BY <1>1, <1>6
    <3> QED
      BY <1>4, <1>6, <3>1
  <2>2. g = [i \in 0..n |-> g[i]]
    BY <1>6
  <2>3. \A i \in 0..n : g[i] = IF i = 0 THEN nil ELSE Add(g[i - 1], i)
    BY <1>1, <1>6, <2>1
  <2> QED
    BY <2>2, <2>3
<1>8. Eq(kept)
  <2> HIDE DEF Eq
  <2> QED
    BY <1>7
<1> HIDE DEF kept
<1>9. /\ DOMAIN kept = 0..n /\ kept[0] = nil
      /\ \A i \in 1..n : kept[i] = Add(kept[i - 1], i)
  BY <1>1, <1>8
<1>10. \A i \in 0..n : kept[i] \in Q
  <2> DEFINE T == {i \in 0..n : kept[i] \in Q}
  <2>1. 0 \in T
    BY <1>1, <1>9
  <2>2. ASSUME NEW i \in 0..n, i \in T, i < n
        PROVE  i + 1 \in T
    <3>1. i + 1 \in 1..n /\ (i + 1) - 1 = i
      BY <1>1, <2>2
    <3>2. kept[i + 1] = Add(kept[i], i + 1)
      BY <1>9, <3>1
    <3>3. kept[i + 1] \in Q
      BY <1>2, <2>2, <3>1, <3>2
    <3> QED
      BY <1>1, <3>1, <3>3
  <2>3. \A i \in 0..n : i \in T => (i < n => i + 1 \in T)
    BY <2>2
  <2>4. \A i \in 0..n : i \in T
    <3> HIDE DEF T
    <3> QED
      BY <1>1, <2>1, <2>3, InductionTo
  <2> QED
    BY <2>4
<1>11. kept \in [0..n -> Q]
  <2>1. kept = [i \in 0..n |-> kept[i]]
    BY <1>8, <1>9
  <2> QED
    BY <1>10, <2>1
<1>12. Kept(seq, S) = kept[n]
  BY DEF Kept, kept, n, nil, Add
<1> QED
  BY <1>9, <1>11, <1>12 DEF Scans, Step, n, Q, nil, Add

(* Two such scans agree as far as their elements and masks do.             *)
LEMMA KeptAgree ==
  ASSUME NEW E, NEW seq \in Seq(E), NEW rows \in Seq(E), NEW S, NEW T, NEW g, NEW h,
         Scans(g, E, seq, S), Scans(h, E, rows, T),
         NEW n \in Nat, n <= Len(seq), n <= Len(rows),
         \A i \in 1..n : seq[i] = rows[i] /\ (i \in S <=> i \in T)
  PROVE  g[n] = h[n]
<1> DEFINE U == {i \in 0..n : g[i] = h[i]}
<1>1. Len(seq) \in Nat /\ Len(rows) \in Nat
  BY LenProperties
<1>2. 0 \in U
  BY DEF Scans
<1>3. ASSUME NEW i \in 0..n, i \in U, i < n
      PROVE  i + 1 \in U
  <2>1. i + 1 \in 1..n /\ (i + 1) - 1 = i /\ i + 1 \in 1..Len(seq) /\ i + 1 \in 1..Len(rows)
    BY <1>1, <1>3
  <2>2. g[i + 1] = Step(seq, S, g, i + 1) /\ h[i + 1] = Step(rows, T, h, i + 1)
    BY <2>1 DEF Scans
  <2>3. seq[i + 1] = rows[i + 1] /\ (i + 1 \in S <=> i + 1 \in T) /\ g[i] = h[i]
    BY <1>3, <2>1
  <2> QED
    BY <2>1, <2>2, <2>3 DEF Step
<1>4. \A i \in 0..n : i \in U => (i < n => i + 1 \in U)
  BY <1>3
<1>5. \A i \in 0..n : i \in U
  <2> HIDE DEF U
  <2> QED
    BY <1>2, <1>4, InductionTo
<1> QED
  BY <1>5

LEMMA KeptSame ==
  ASSUME NEW E, NEW seq \in Seq(E), NEW S, NEW T,
         \A i \in 1..Len(seq) : i \in S <=> i \in T
  PROVE  Kept(seq, S) = Kept(seq, T)
<1>1. Len(seq) \in Nat
  BY LenProperties
<1>2. PICK g : Scans(g, E, seq, S)
  BY KeptByPrefix
<1>3. PICK h : Scans(h, E, seq, T)
  BY KeptByPrefix
<1>4. g[Len(seq)] = h[Len(seq)]
  BY <1>1, <1>2, <1>3, KeptAgree
<1> QED
  BY <1>2, <1>3, <1>4 DEF Scans

LEMMA KeptAppend ==
  ASSUME NEW E, NEW seq \in Seq(E), NEW e \in E, NEW S
  PROVE  Kept(Append(seq, e), S) =
            IF Len(seq) + 1 \in S THEN Append(Kept(seq, S), e) ELSE Kept(seq, S)
<1> DEFINE n == Len(seq)
           long == Append(seq, e)
<1>1. /\ n \in Nat /\ long \in Seq(E) /\ Len(long) = n + 1
      /\ long[n + 1] = e /\ \A i \in 1..n : long[i] = seq[i]
  BY LenProperties, AppendProperties
<1> HIDE DEF long
<1>2. PICK g : Scans(g, E, seq, S)
  BY KeptByPrefix
<1>3. PICK h : Scans(h, E, long, S)
  BY <1>1, KeptByPrefix
<1>4. g[n] = h[n]
  <2>1. n <= Len(seq) /\ n <= Len(long) /\ \A i \in 1..n : seq[i] = long[i] /\ (i \in S <=> i \in S)
    BY <1>1
  <2> QED
    BY <1>1, <1>2, <1>3, <2>1, KeptAgree
<1>5. h[n + 1] = IF n + 1 \in S THEN Append(h[n], e) ELSE h[n]
  <2>1. n + 1 \in 1..Len(long) /\ (n + 1) - 1 = n
    BY <1>1
  <2>2. h[n + 1] = Step(long, S, h, n + 1)
    BY <1>3, <2>1 DEF Scans
  <2> QED
    BY <1>1, <2>1, <2>2 DEF Step
<1>6. Kept(seq, S) = g[n] /\ Kept(long, S) = h[n + 1]
  BY <1>1, <1>2, <1>3 DEF Scans
<1> QED
  BY <1>4, <1>5, <1>6 DEF long

LEMMA KeptAll ==
  ASSUME NEW E, NEW seq \in Seq(E), NEW S, 1..Len(seq) \subseteq S
  PROVE  Kept(seq, S) = seq
<1> DEFINE n == Len(seq)
<1>1. n \in Nat /\ \A i \in 1..n : seq[i] \in E
  BY LenProperties, ElementOfSeq
<1>0. PICK g : Scans(g, E, seq, S)
  BY KeptByPrefix
<1>2. /\ g \in [0..n -> Seq(E)] /\ g[0] = <<>>
      /\ \A i \in 1..n : g[i] = Step(seq, S, g, i)
      /\ Kept(seq, S) = g[n]
  BY <1>0 DEF Scans
<1> DEFINE T == {i \in 0..n : Len(g[i]) = i /\ \A k \in 1..i : g[i][k] = seq[k]}
<1>3. 0 \in T
  BY <1>1, <1>2, EmptySeq
<1>4. ASSUME NEW i \in 0..n, i \in T, i < n
      PROVE  i + 1 \in T
  <2>1. i + 1 \in 1..n /\ (i + 1) - 1 = i /\ i + 1 \in S
    BY <1>1, <1>4
  <2>2. g[i] \in Seq(E) /\ seq[i + 1] \in E /\ g[i + 1] = Append(g[i], seq[i + 1])
    BY <1>1, <1>2, <2>1 DEF Step
  <2>3. /\ Len(g[i + 1]) = i + 1 /\ g[i + 1][i + 1] = seq[i + 1]
        /\ \A k \in 1..i : g[i + 1][k] = seq[k]
    BY <1>4, <2>2, AppendProperties
  <2> QED
    <3>1. \A k \in 1..i + 1 : k \in 1..i \/ k = i + 1
      BY <1>1
    <3>2. \A k \in 1..i + 1 : g[i + 1][k] = seq[k]
      BY <2>3, <3>1
    <3> QED
      BY <1>1, <2>1, <2>3, <3>2
<1>5. \A i \in 0..n : i \in T => (i < n => i + 1 \in T)
  BY <1>4
<1>6. \A i \in 0..n : i \in T
  <2> HIDE DEF T, n
  <2> QED
    BY <1>1, <1>3, <1>5, InductionTo
<1>7. Len(g[n]) = n /\ \A k \in 1..n : g[n][k] = seq[k]
  BY <1>1, <1>6
<1>8. g[n] \in Seq(E)
  BY <1>1, <1>2
<1> QED
  BY <1>2, <1>7, <1>8, SeqEqual

(* The kept elements, each with its position: in their order, and all.     *)
Places(at, K, seq, S) ==
    /\ at \in [1..Len(K) -> S \cap (1..Len(seq))]
    /\ \A k \in 1..Len(K) : K[k] = seq[at[k]]
    /\ \A j, k \in 1..Len(K) : j < k => at[j] < at[k]
    /\ \A i \in S \cap (1..Len(seq)) : \E k \in 1..Len(K) : at[k] = i

LEMMA KeptPositions ==
  ASSUME NEW E, NEW seq \in Seq(E), NEW S
  PROVE  /\ Kept(seq, S) \in Seq(E) /\ Len(Kept(seq, S)) \in Nat
         /\ \E at : Places(at, Kept(seq, S), seq, S)
<1> DEFINE n == Len(seq)
<1>1. n \in Nat /\ \A i \in 1..n : seq[i] \in E
  BY LenProperties, ElementOfSeq
<1>0. PICK g : Scans(g, E, seq, S)
  BY KeptByPrefix
<1>2. /\ g \in [0..n -> Seq(E)] /\ g[0] = <<>>
      /\ \A i \in 1..n : g[i] = Step(seq, S, g, i)
      /\ Kept(seq, S) = g[n]
  BY <1>0 DEF Scans
<1> DEFINE Placed(i, at) ==
             /\ at \in [1..Len(g[i]) -> S \cap (1..i)]
             /\ \A k \in 1..Len(g[i]) : g[i][k] = seq[at[k]]
             /\ \A j, k \in 1..Len(g[i]) : j < k => at[j] < at[k]
             /\ \A x \in S \cap (1..i) : \E k \in 1..Len(g[i]) : at[k] = x
           T == {i \in 0..n : \E at : Placed(i, at)}
<1>3. 0 \in T
  <2>1. g[0] = <<>> /\ Len(g[0]) = 0 /\ S \cap (1..0) = {} /\ 1..0 = {}
    BY <1>2, EmptySeq
  <2>2. Placed(0, [k \in 1..0 |-> 0])
    BY <2>1
  <2> QED
    <3> HIDE DEF Placed
    <3> QED
      BY <1>1, <2>2
<1>4. ASSUME NEW i \in 0..n, i \in T, i < n
      PROVE  i + 1 \in T
  <2>1. PICK at : Placed(i, at)
    BY <1>4
  <2>2. i + 1 \in 1..n /\ (i + 1) - 1 = i /\ g[i] \in Seq(E) /\ seq[i + 1] \in E
    BY <1>1, <1>2, <1>4
  <2>3. Len(g[i]) \in Nat
    BY <2>2, LenProperties
  <2>4. CASE i + 1 \notin S
    <3>1. g[i + 1] = g[i]
      BY <1>2, <2>2, <2>4 DEF Step
    <3>2. S \cap (1..i + 1) = S \cap (1..i)
      BY <2>2, <2>4
    <3>3. Placed(i + 1, at)
      BY <2>1, <3>1, <3>2
    <3> QED
      <4> HIDE DEF Placed
      <4> QED
        BY <2>2, <3>3
  <2>5. CASE i + 1 \in S
    <3> DEFINE m == Len(g[i])
               to == [k \in 1..m + 1 |-> IF k <= m THEN at[k] ELSE i + 1]
    <3>1. g[i + 1] = Append(g[i], seq[i + 1])
      BY <1>2, <2>2, <2>5 DEF Step
    <3>2. /\ Len(g[i + 1]) = m + 1 /\ g[i + 1][m + 1] = seq[i + 1]
          /\ \A k \in 1..m : g[i + 1][k] = g[i][k]
      BY <2>2, <3>1, AppendProperties
    <3> HIDE DEF m
    <3>3. m \in Nat /\ \A k \in 1..m : to[k] = at[k] /\ at[k] \in S \cap (1..i)
      <4>1. m \in Nat
        BY <2>3 DEF m
      <4>2. \A k \in 1..m : at[k] \in S \cap (1..i)
        BY <2>1 DEF m
      <4>3. \A k \in 1..m : k \in 1..m + 1 /\ k <= m
        BY <4>1
      <4> QED
        BY <4>1, <4>2, <4>3
    <3>4. to[m + 1] = i + 1
      BY <3>3
    <3>5. to \in [1..m + 1 -> S \cap (1..i + 1)]
      <4>1. \A k \in 1..m + 1 : to[k] \in S \cap (1..i + 1)
        <5>1. \A k \in 1..m + 1 : k \in 1..m \/ k = m + 1
          BY <3>3
        <5>2. i \in Nat /\ i + 1 \in S \cap (1..i + 1) /\ 1..i \subseteq 1..i + 1
          BY <1>1, <2>5
        <5>3. \A k \in 1..m : to[k] \in S \cap (1..i + 1)
          BY <3>3, <5>2
        <5> HIDE DEF to
        <5> QED
          BY <3>4, <5>1, <5>2, <5>3
      <4> QED
        BY <4>1
    <3> HIDE DEF to
    <3>6. \A k \in 1..m + 1 : g[i + 1][k] = seq[to[k]]
      <4> SUFFICES ASSUME NEW k \in 1..m + 1 PROVE g[i + 1][k] = seq[to[k]]
        OBVIOUS
      <4>1. CASE k \in 1..m
        BY <2>1, <3>2, <3>3, <4>1 DEF m
      <4>2. CASE k = m + 1
        BY <3>2, <3>4, <4>2
      <4> QED
        BY <3>3, <4>1, <4>2
    <3>7. \A j, k \in 1..m + 1 : j < k => to[j] < to[k]
      <4> SUFFICES ASSUME NEW j \in 1..m + 1, NEW k \in 1..m + 1, j < k
                   PROVE  to[j] < to[k]
        OBVIOUS
      <4>1. CASE k \in 1..m
        <5>1. j \in 1..m
          BY <3>3, <4>1
        <5> QED
          BY <2>1, <3>3, <4>1, <5>1 DEF m
      <4>2. CASE k = m + 1
        <5>1. j \in 1..m
          BY <3>3, <4>2
        <5>2. to[j] \in 1..i
          BY <3>3, <5>1
        <5> QED
          BY <2>2, <3>4, <4>2, <5>2
      <4> QED
        BY <3>3, <4>1, <4>2
    <3>8. \A x \in S \cap (1..i + 1) : \E k \in 1..m + 1 : to[k] = x
      <4> SUFFICES ASSUME NEW x \in S \cap (1..i + 1) PROVE \E k \in 1..m + 1 : to[k] = x
        OBVIOUS
      <4>1. CASE x \in 1..i
        <5>1. PICK k \in 1..m : at[k] = x
          BY <2>1, <4>1 DEF m
        <5>2. k \in 1..m + 1 /\ to[k] = x
          BY <3>3, <5>1
        <5> QED
          BY <5>2
      <4>2. CASE x = i + 1
        BY <3>3, <3>4, <4>2
      <4> QED
        BY <2>2, <4>1, <4>2
    <3>9. Placed(i + 1, to)
      BY <3>2, <3>5, <3>6, <3>7, <3>8
    <3> QED
      <4> HIDE DEF Placed
      <4> QED
        BY <2>2, <3>9
  <2> QED
    BY <2>4, <2>5
<1>5. \A i \in 0..n : i \in T => (i < n => i + 1 \in T)
  BY <1>4
<1>6. \A i \in 0..n : i \in T
  <2> HIDE DEF T, n
  <2> QED
    BY <1>1, <1>3, <1>5, InductionTo
<1>7. \E at : Placed(n, at)
  <2> HIDE DEF Placed
  <2> QED
    BY <1>1, <1>6
<1>8. g[n] \in Seq(E) /\ Len(g[n]) \in Nat
  <2>1. g[n] \in Seq(E)
    BY <1>1, <1>2
  <2> QED
    BY <2>1, LenProperties
<1>9. PICK at : Placed(n, at)
  BY <1>7
<1>10. Places(at, g[n], seq, S)
  BY <1>9 DEF Places
<1> QED
  BY <1>2, <1>8, <1>10

COROLLARY KeptElements ==
  ASSUME NEW E, NEW seq \in Seq(E), NEW S
  PROVE  /\ Kept(seq, S) \in Seq(E) /\ Len(Kept(seq, S)) \in Nat
         /\ \A k \in 1..Len(Kept(seq, S)) : \E i \in S \cap (1..Len(seq)) :
               Kept(seq, S)[k] = seq[i]
  BY KeptPositions DEF Places
=============================================================================
