------------------------ MODULE ResultsAnalysis_proofs -----------------------
(***************************************************************************)
(* What multi_sta_analyzer.py computes, for every number of stations,      *)
(* repeats and requests.  Its totals are sums over finite sets, which are  *)
(* recursive functions: the first half of the module proves what they      *)
(* satisfy, by induction.  The library states induction for any set of     *)
(* naturals in the form of least elements (WFMin), and that is the form    *)
(* that is used here: the set of those for which a statement holds.        *)
(***************************************************************************)
EXTENDS ResultsAnalysis, FiniteSetTheorems, TLAPS

(* A set of naturals with 0 and every successor has all of them: else the  *)
(* least of the others would be the successor of one in the set.           *)
LEMMA NaturalsBySteps ==
    ASSUME NEW T \in SUBSET Nat, 0 \in T, \A n \in T : n + 1 \in T
    PROVE  T = Nat
<1> SUFFICES ASSUME Nat \ T # {} PROVE FALSE
  OBVIOUS
<1> DEFINE R == OpToRel(<, Nat)
<1>1. \A m, n \in Nat : m < n => <<m, n>> \in R
  BY DEF OpToRel
<1>2. IsWellFoundedOn(R, Nat)
  BY NatLessThanWellFounded
<1> HIDE DEF R
<1>3. PICK n \in Nat \ T : \A m \in Nat \ T : <<m, n>> \notin R
  BY <1>2, WFMin
<1>4. n # 0 /\ n - 1 \in Nat /\ n - 1 < n /\ (n - 1) + 1 = n
  BY <1>3
<1>5. n - 1 \in T
  BY <1>1, <1>3, <1>4
<1> QED
  BY <1>3, <1>4, <1>5

(* The element that a fold takes off first.                                *)
Pick(T) == CHOOSE x \in T : TRUE

LEMMA PickIn == ASSUME NEW T, T # {} PROVE Pick(T) \in T
  BY DEF Pick

LEMMA OneLess ==
    ASSUME NEW T, IsFiniteSet(T), T # {}
    PROVE  /\ Pick(T) \in T
           /\ Cardinality(T \ {Pick(T)}) \in Nat
           /\ Cardinality(T) = Cardinality(T \ {Pick(T)}) + 1
<1>1. Pick(T) \in T
  BY PickIn
<1>2. IsFiniteSet(T \ {Pick(T)})
  BY FS_RemoveElement
<1>3. Cardinality(T) \in Nat /\ Cardinality(T \ {Pick(T)}) \in Nat
  BY <1>2, FS_CardinalityType
<1>4. Cardinality(T \ {Pick(T)}) = Cardinality(T) - 1
  BY <1>1, FS_RemoveElement
<1> QED
  BY <1>1, <1>3, <1>4

(* A family of subsets of a finite set that has the empty set, and every   *)
(* set that it has without its first element, has the whole set.           *)
LEMMA SetsBySteps ==
    ASSUME NEW S, IsFiniteSet(S), NEW F, {} \in F,
           \A T \in SUBSET S : T # {} /\ T \ {Pick(T)} \in F => T \in F
    PROVE  S \in F
<1> DEFINE L == {n \in Nat : \A T \in SUBSET S : Cardinality(T) = n => T \in F}
<1>1. \A T \in SUBSET S : IsFiniteSet(T) /\ Cardinality(T) \in Nat
  BY FS_Subset, FS_CardinalityType
<1>2. 0 \in L
  <2> SUFFICES ASSUME NEW T \in SUBSET S, Cardinality(T) = 0 PROVE T \in F
    OBVIOUS
  <2>1. T = {}
    BY <1>1, FS_EmptySet
  <2> QED
    BY <2>1
<1>3. ASSUME NEW n \in L PROVE n + 1 \in L
  <2> SUFFICES ASSUME NEW T \in SUBSET S, Cardinality(T) = n + 1 PROVE T \in F
    OBVIOUS
  <2>1. n \in Nat
    OBVIOUS
  <2>2. T # {}
    BY <2>1, FS_EmptySet
  <2>3. Cardinality(T \ {Pick(T)}) = n
    BY <1>1, <2>1, <2>2, PickIn, FS_RemoveElement
  <2>4. T \ {Pick(T)} \in F
    BY <2>3
  <2> QED
    BY <2>2, <2>4
<1>4. L = Nat
  <2> HIDE DEF L
  <2>1. L \in SUBSET Nat
    BY DEF L
  <2> QED
    BY <1>2, <1>3, <2>1, NaturalsBySteps
<1> QED
  BY <1>1, <1>4

-----------------------------------------------------------------------------
(* The recursive function behind a sum over the subsets of S.              *)
Entry(g, f, T) == IF T = {} THEN 0 ELSE f[Pick(T)] + g[T \ {Pick(T)}]

IsTable(g, f, S) ==
    g = [T \in SUBSET S |->
            IF T = {} THEN 0 ELSE f[Pick(T)] + g[T \ {Pick(T)}]]

LEMMA SumIsTable ==
    ASSUME NEW f, NEW S
    PROVE  SumFunctionOnSet(f, S) = (CHOOSE g : IsTable(g, f, S))[S]
  BY DEF SumFunctionOnSet, FoldFunctionOnSet, MapThenFoldSet, IsTable, Pick

(* There is one: it is built for sets of at most n elements, n by n.       *)
LEMMA TableExists ==
    ASSUME NEW S, IsFiniteSet(S), NEW f, \A x \in S : f[x] \in Int
    PROVE  \E g \in [SUBSET S -> Int] : IsTable(g, f, S)
<1> DEFINE Upto(g, n) ==
             \A T \in SUBSET S : Cardinality(T) <= n => g[T] = Entry(g, f, T)
           L == {n \in Nat : \E g \in [SUBSET S -> Int] : Upto(g, n)}
<1>1. \A T \in SUBSET S : IsFiniteSet(T) /\ Cardinality(T) \in Nat
  BY FS_Subset, FS_CardinalityType
<1>2. \A T \in SUBSET S : T # {} =>
         /\ Pick(T) \in S /\ T \ {Pick(T)} \in SUBSET S
         /\ Cardinality(T \ {Pick(T)}) = Cardinality(T) - 1
  BY <1>1, PickIn, FS_RemoveElement
<1>3. ASSUME NEW g \in [SUBSET S -> Int], NEW T \in SUBSET S
      PROVE  Entry(g, f, T) \in Int
  <2>1. CASE T = {}
    BY <2>1 DEF Entry
  <2>2. CASE T # {}
    <3>1. f[Pick(T)] \in Int /\ g[T \ {Pick(T)}] \in Int
      BY <1>2, <2>2
    <3> QED
      BY <2>2, <3>1 DEF Entry
  <2> QED
    BY <2>1, <2>2
<1>4. 0 \in L
  <2> DEFINE zero == [T \in SUBSET S |-> 0]
  <2>1. ASSUME NEW T \in SUBSET S, Cardinality(T) <= 0
        PROVE  zero[T] = Entry(zero, f, T)
    <3>1. T = {}
      BY <1>1, <2>1, FS_EmptySet
    <3> QED
      BY <3>1 DEF Entry
  <2>2. zero \in [SUBSET S -> Int]
    OBVIOUS
  <2> HIDE DEF zero
  <2> QED
    BY <2>1, <2>2
<1>5. ASSUME NEW n \in L PROVE n + 1 \in L
  <2>1. PICK g \in [SUBSET S -> Int] : Upto(g, n)
    OBVIOUS
  <2> DEFINE h == [T \in SUBSET S |-> IF Cardinality(T) <= n THEN g[T]
                                      ELSE Entry(g, f, T)]
  <2>2. h \in [SUBSET S -> Int]
    BY <1>3
  <2>3. n \in Nat
    OBVIOUS
  <2>4. \A T \in SUBSET S : Cardinality(T) <= n => h[T] = g[T]
    OBVIOUS
  <2>5. ASSUME NEW T \in SUBSET S, Cardinality(T) <= n + 1
        PROVE  Entry(h, f, T) = Entry(g, f, T)
    <3>1. CASE T = {}
      BY <3>1 DEF Entry
    <3>2. CASE T # {}
      <4>1. Cardinality(T \ {Pick(T)}) <= n
        BY <1>1, <1>2, <2>3, <2>5, <3>2
      <4> QED
        BY <1>2, <2>4, <3>2, <4>1 DEF Entry
    <3> QED
      BY <3>1, <3>2
  <2>6. ASSUME NEW T \in SUBSET S, Cardinality(T) <= n + 1
        PROVE  h[T] = Entry(g, f, T)
    BY <2>1
  <2> HIDE DEF h
  <2>7. Upto(h, n + 1)
    BY <2>5, <2>6
  <2> QED
    BY <2>2, <2>3, <2>7
<1>6. L = Nat
  <2> HIDE DEF L
  <2>1. L \in SUBSET Nat
    BY DEF L
  <2> QED
    BY <1>4, <1>5, <2>1, NaturalsBySteps
<1>7. PICK g \in [SUBSET S -> Int] : Upto(g, Cardinality(S))
  BY <1>1, <1>6
<1>8. \A T \in SUBSET S : g[T] = Entry(g, f, T)
  BY <1>1, <1>7, FS_Subset
<1>9. g = [T \in SUBSET S |-> Entry(g, f, T)]
  BY <1>8
<1> QED
  BY <1>9 DEF IsTable, Entry

(* And all of them agree on the sets that they have in common.             *)
LEMMA TablesAgree ==
    ASSUME NEW S, IsFiniteSet(S), NEW U \in SUBSET S, NEW f, NEW g, NEW h,
           IsTable(g, f, S), IsTable(h, f, U)
    PROVE  g[U] = h[U]
<1> DEFINE F == {T \in SUBSET U : g[T] = h[T]}
<1>1. \A T \in SUBSET U : g[T] = Entry(g, f, T) /\ h[T] = Entry(h, f, T)
  BY DEF IsTable, Entry
<1>2. {} \in F
  BY <1>1 DEF Entry
<1>3. ASSUME NEW T \in SUBSET U, T # {}, T \ {Pick(T)} \in F PROVE T \in F
  BY <1>1, <1>3 DEF Entry
<1>4. IsFiniteSet(U)
  BY FS_Subset
<1> HIDE DEF F
<1>5. U \in F
  BY <1>2, <1>3, <1>4, SetsBySteps
<1> QED
  BY <1>5 DEF F

LEMMA SumEmpty == ASSUME NEW f PROVE SumFunctionOnSet(f, {}) = 0
<1>1. PICK g : IsTable(g, f, {})
  <2>1. IsFiniteSet({})
    BY FS_EmptySet
  <2> QED
    BY <2>1, TableExists
<1>2. IsTable(CHOOSE c : IsTable(c, f, {}), f, {})
  BY <1>1
<1> QED
  BY <1>2, SumIsTable DEF IsTable

(* The recursion equation.                                                 *)
LEMMA SumOneLess ==
    ASSUME NEW S, IsFiniteSet(S), S # {}, NEW f, \A x \in S : f[x] \in Int
    PROVE  /\ SumFunctionOnSet(f, S)
                = f[Pick(S)] + SumFunctionOnSet(f, S \ {Pick(S)})
           /\ Pick(S) \in S
<1> DEFINE U == S \ {Pick(S)}
           g == CHOOSE c : IsTable(c, f, S)
           h == CHOOSE c : IsTable(c, f, U)
<1>1. IsFiniteSet(U) /\ U \in SUBSET S /\ Pick(S) \in S
  BY PickIn, FS_Subset
<1>2. IsTable(g, f, S)
  BY TableExists
<1>3. IsTable(h, f, U)
  BY <1>1, TableExists
<1>4. SumFunctionOnSet(f, S) = g[S] /\ SumFunctionOnSet(f, U) = h[U]
  BY SumIsTable
<1> HIDE DEF g, h
<1>5. g[U] = h[U]
  BY <1>1, <1>2, <1>3, TablesAgree
<1>6. g[S] = f[Pick(S)] + g[U]
  BY <1>2 DEF IsTable
<1> QED
  BY <1>1, <1>4, <1>5, <1>6

-----------------------------------------------------------------------------
(* Sums of one value, and of values up to a bound.                         *)
LEMMA SumBounds ==
    ASSUME NEW S, IsFiniteSet(S), NEW c \in Nat, NEW f,
           \A x \in S : f[x] \in 0 .. c
    PROVE  SumFunctionOnSet(f, S) \in 0 .. c * Cardinality(S)
<1> DEFINE F == {T \in SUBSET S : SumFunctionOnSet(f, T) \in 0 .. c * Cardinality(T)}
<1>1. {} \in F
  BY SumEmpty, FS_EmptySet
<1>2. ASSUME NEW T \in SUBSET S, T # {}, T \ {Pick(T)} \in F PROVE T \in F
  <2> DEFINE n == Cardinality(T \ {Pick(T)})
             A == SumFunctionOnSet(f, T \ {Pick(T)})
  <2>1. IsFiniteSet(T) /\ \A x \in T : f[x] \in Int
    BY FS_Subset
  <2>2. SumFunctionOnSet(f, T) = f[Pick(T)] + A /\ f[Pick(T)] \in 0 .. c
    BY <1>2, <2>1, SumOneLess
  <2>3. Cardinality(T) = n + 1 /\ n \in Nat
    BY <1>2, <2>1, OneLess
  <2>4. A \in 0 .. c * n
    BY <1>2
  <2> HIDE DEF n, A
  <2>5. c * (n + 1) = c * n + c /\ c * n \in Nat
    BY <2>3
  <2> QED
    BY <2>2, <2>3, <2>4, <2>5
<1> HIDE DEF F
<1>3. S \in F
  BY <1>1, <1>2, SetsBySteps
<1> QED
  BY <1>3 DEF F

LEMMA SumConstant ==
    ASSUME NEW S, IsFiniteSet(S), NEW c \in Nat, NEW f, \A x \in S : f[x] = c
    PROVE  SumFunctionOnSet(f, S) = c * Cardinality(S)
<1> DEFINE F == {T \in SUBSET S : SumFunctionOnSet(f, T) = c * Cardinality(T)}
<1>1. {} \in F
  BY SumEmpty, FS_EmptySet
<1>2. ASSUME NEW T \in SUBSET S, T # {}, T \ {Pick(T)} \in F PROVE T \in F
  <2> DEFINE n == Cardinality(T \ {Pick(T)})
  <2>1. IsFiniteSet(T) /\ \A x \in T : f[x] \in Int
    BY FS_Subset
  <2>2. SumFunctionOnSet(f, T) = c + c * n
    BY <1>2, <2>1, SumOneLess
  <2>3. Cardinality(T) = n + 1 /\ n \in Nat
    BY <1>2, <2>1, OneLess
  <2> HIDE DEF n
  <2>4. c * (n + 1) = c + c * n
    BY <2>3
  <2> QED
    BY <2>2, <2>3, <2>4
<1> HIDE DEF F
<1>3. S \in F
  BY <1>1, <1>2, SetsBySteps
<1> QED
  BY <1>3 DEF F

(* One more value x beside n values with sum A and sum of squares B: the    *)
(* distance of (n + 1)(B + x^2) from (A + x)^2 is at least n times that of  *)
(* n B from A^2, and equal only if x is the mean.                           *)
LEMMA OneMoreSquare ==
    ASSUME NEW n \in Nat \ {0}, NEW A \in Nat, NEW B \in Nat, NEW x \in Nat,
           A * A <= n * B
    PROVE  /\ (A + x) * (A + x) <= (n + 1) * (B + x * x)
           /\ (A + x) * (A + x) = (n + 1) * (B + x * x)
                <=> A * A = n * B /\ A = n * x
<1> DEFINE D == n * B - A * A
           E == (n + 1) * (B + x * x) - (A + x) * (A + x)
           d == A - n * x
<1>1. D \in Nat /\ d \in Int /\ E \in Int
  OBVIOUS
<1>2. n * E = (n + 1) * D + d * d
  OBVIOUS
<1>3. d * d >= 0 /\ (d * d = 0 <=> d = 0)
  BY <1>1
<1>4. (n + 1) * D >= 0 /\ ((n + 1) * D = 0 <=> D = 0)
  BY <1>1
<1>5. E >= 0 /\ (E = 0 <=> D = 0 /\ d = 0)
  <2> HIDE DEF D, E, d
  <2>1. n * E >= 0 /\ (n * E = 0 <=> D = 0 /\ d = 0)
    BY <1>1, <1>2, <1>3, <1>4
  <2>2. (E < 0 => n * E < 0) /\ (E = 0 <=> n * E = 0)
    BY <1>1
  <2> QED
    BY <1>1, <2>1, <2>2
<1> QED
  BY <1>5

(* What Jain's index of values t over a set is made of.                    *)
Squares(t) == [s \in DOMAIN t |-> t[s] * t[s]]

JainParts(t, T) ==
    LET sum == SumFunctionOnSet(t, T)
        sum2 == SumFunctionOnSet(Squares(t), T)
    IN  /\ sum \in Nat /\ sum2 \in Nat
        /\ sum2 <= sum * sum
        /\ sum * sum <= Cardinality(T) * sum2
        /\ sum * sum = Cardinality(T) * sum2 <=> \A x, y \in T : t[x] = t[y]
        /\ sum = 0 => \A x \in T : t[x] = 0

(* The inequality of Cauchy and Schwarz, with the case of equality.        *)
LEMMA JainOfSums ==
    ASSUME NEW S, IsFiniteSet(S), NEW t \in [S -> Nat]
    PROVE  JainParts(t, S)
<1> DEFINE F == {T \in SUBSET S : JainParts(t, T)}
<1>1. {} \in F
  BY SumEmpty, FS_EmptySet DEF JainParts
<1>2. ASSUME NEW T \in SUBSET S, T # {}, T \ {Pick(T)} \in F PROVE T \in F
  <2> DEFINE U == T \ {Pick(T)}
             n == Cardinality(U)
             x == t[Pick(T)]
             A == SumFunctionOnSet(t, U)
             B == SumFunctionOnSet(Squares(t), U)
  <2>1. /\ IsFiniteSet(T) /\ IsFiniteSet(U)
        /\ n \in Nat /\ Cardinality(T) = n + 1
        /\ Pick(T) \in T /\ Pick(T) \in S /\ x \in Nat
    BY <1>2, FS_Subset, OneLess
  <2>2. \A y \in T : t[y] \in Int /\ Squares(t)[y] = t[y] * t[y]
                       /\ Squares(t)[y] \in Int
    BY DEF Squares
  <2>3. JainParts(t, U)
    BY <1>2
  <2>4. A \in Nat /\ B \in Nat /\ B <= A * A /\ A * A <= n * B
    BY <2>3 DEF JainParts
  <2>5. SumFunctionOnSet(t, T) = A + x
    <3>1. SumFunctionOnSet(t, T) = x + A
      BY <1>2, <2>1, <2>2, SumOneLess
    <3> QED
      BY <2>1, <2>4, <3>1
  <2>6. SumFunctionOnSet(Squares(t), T) = B + x * x
    <3>1. SumFunctionOnSet(Squares(t), T) = Squares(t)[Pick(T)] + B
      BY <1>2, <2>1, <2>2, SumOneLess
    <3>2. Squares(t)[Pick(T)] = x * x /\ x * x \in Nat
      BY <2>1, <2>2
    <3> QED
      BY <2>4, <3>1, <3>2
  <2>7. T = U \cup {Pick(T)} /\ Pick(T) \notin U
    BY <2>1
  <2>8. /\ (A + x) * (A + x) <= (n + 1) * (B + x * x)
        /\ (A + x) * (A + x) = (n + 1) * (B + x * x)
             <=> \A y, z \in T : t[y] = t[z]
    <3>1. CASE U = {}
      <4>1. n = 0 /\ A = 0 /\ B = 0
        BY <3>1, SumEmpty, FS_EmptySet
      <4>2. \A y, z \in T : t[y] = t[z]
        BY <2>7, <3>1
      <4> HIDE DEF U, n, x, A, B
      <4> QED
        BY <2>1, <4>1, <4>2
    <3>2. CASE U # {}
      <4>1. n # 0
        BY <2>1, <3>2, FS_EmptySet
      <4>2. PICK u \in U : TRUE
        BY <3>2
      <4>3. t[u] \in Nat
        BY <4>2
      <4>4. (\A y, z \in U : t[y] = t[z]) => A = t[u] * n
        <5> SUFFICES ASSUME \A y, z \in U : t[y] = t[z] PROVE A = t[u] * n
          OBVIOUS
        <5>1. \A y \in U : t[y] = t[u]
          BY <4>2
        <5> QED
          BY <2>1, <4>3, <5>1, SumConstant
      <4>5. A * A = n * B <=> \A y, z \in U : t[y] = t[z]
        BY <2>3 DEF JainParts
      <4>6. t[u] * n = n * x <=> t[u] = x
        <5> HIDE DEF n, x
        <5> QED
          BY <2>1, <4>1, <4>3
      <4>7. (\A y, z \in T : t[y] = t[z])
               <=> (\A y, z \in U : t[y] = t[z]) /\ t[u] = x
        BY <2>7, <4>2
      <4> HIDE DEF U, n, x, A, B
      <4>8. /\ (A + x) * (A + x) <= (n + 1) * (B + x * x)
            /\ (A + x) * (A + x) = (n + 1) * (B + x * x)
                 <=> A * A = n * B /\ A = n * x
        BY <2>1, <2>4, <4>1, OneMoreSquare
      <4> QED
        BY <4>4, <4>5, <4>6, <4>7, <4>8
    <3> QED
      BY <3>1, <3>2
  <2>9. A + x \in Nat /\ B + x * x \in Nat /\ B + x * x <= (A + x) * (A + x)
    <3> HIDE DEF U, n, x, A, B
    <3>1. (A + x) * (A + x) = A * A + 2 * (A * x) + x * x /\ A * x \in Nat
      BY <2>1, <2>4
    <3> QED
      BY <2>1, <2>4, <3>1
  <2>10. A + x = 0 => \A y \in T : t[y] = 0
    <3>1. A = 0 => \A y \in U : t[y] = 0
      BY <2>3 DEF JainParts
    <3>2. A + x = 0 => A = 0 /\ x = 0
      <4> HIDE DEF A, x
      <4> QED
        BY <2>1, <2>4
    <3> QED
      BY <2>7, <3>1, <3>2
  <2> HIDE DEF U, n, x, A, B
  <2>11. JainParts(t, T)
    BY <2>1, <2>5, <2>6, <2>8, <2>9, <2>10 DEF JainParts
  <2> QED
    BY <2>11
<1> HIDE DEF F
<1>3. S \in F
  BY <1>1, <1>2, SetsBySteps
<1> QED
  BY <1>3 DEF F

-----------------------------------------------------------------------------
(* compute_jain_fairness is between 1/n and 1 of any values, and 1 exactly *)
(* if they are equal ([0, 0] stands for the None of values that are all 0).*)
THEOREM JainBounds ==
    ASSUME NEW S, IsFiniteSet(S), NEW t \in [S -> Nat]
    PROVE  LET jain == compute_jain_fairness(t) IN
           /\ jain.num \in Nat /\ jain.den \in Nat
           /\ jain.num <= jain.den
           /\ S # {} => jain.num * Cardinality(S) >= jain.den
           /\ jain.num = jain.den <=> \A x, y \in S : t[x] = t[y]
<1> DEFINE sum == SumFunctionOnSet(t, S)
           sum2 == SumFunctionOnSet(Squares(t), S)
           n == Cardinality(S)
<1>1. compute_jain_fairness(t)
        = IF sum = 0 THEN [num |-> 0, den |-> 0]
          ELSE [num |-> sum * sum, den |-> n * sum2]
  <2>1. DOMAIN t = S /\ DOMAIN Squares(t) = S
    BY DEF Squares
  <2> QED
    BY <2>1 DEF compute_jain_fairness, SumFunction, Squares
<1>2. JainParts(t, S) /\ n \in Nat
  BY JainOfSums, FS_CardinalityType
<1>3. CASE sum = 0
  <2>1. \A x, y \in S : t[x] = t[y]
    BY <1>2, <1>3 DEF JainParts
  <2> QED
    BY <1>1, <1>2, <1>3, <2>1
<1>4. CASE sum # 0
  <2>1. /\ sum \in Nat /\ sum2 \in Nat /\ sum2 <= sum * sum
        /\ sum * sum <= n * sum2
        /\ sum * sum = n * sum2 <=> \A x, y \in S : t[x] = t[y]
    BY <1>2 DEF JainParts
  <2>2. /\ compute_jain_fairness(t).num = sum * sum
        /\ compute_jain_fairness(t).den = n * sum2
    BY <1>1, <1>4
  <2> HIDE DEF sum, sum2, n
  <2>3. sum * sum \in Nat /\ n * sum2 \in Nat
    BY <1>2, <2>1
  <2>4. (sum * sum) * n >= n * sum2
    <3>1. (sum * sum) * n = n * (sum * sum)
      BY <1>2, <2>1
    <3>2. n * (sum * sum) >= n * sum2
      BY <1>2, <2>1, <2>3
    <3> QED
      BY <3>1, <3>2
  <2> QED
    BY <2>1, <2>2, <2>3, <2>4 DEF n
<1> QED
  BY <1>3, <1>4

(* The percentiles of n round trips, l of them losses: in order, between   *)
(* the extremes, and the median is a loss exactly if more than half are.   *)
THEOREM PercentilesOrdered ==
    ASSUME NEW n \in Nat \ {0}, NEW l \in 0 .. n
    PROVE  LET st == compute_stats(n, l) IN
           /\ st.count = n
           /\ \A p, q \in DOMAIN st.at : p < q => st.at[p] <= st.at[q]
           /\ \A p \in DOMAIN st.at : st.min <= st.at[p] /\ st.at[p] <= st.max
           /\ st.at[50] = -1 <=> 2 * l > st.count
<1> DEFINE P == {25, 50, 75, 95, 99}
           st == compute_stats(n, l)
<1>1. /\ st.count = n /\ st.min = RttAt(0, l) /\ st.max = RttAt(n - 1, l)
      /\ DOMAIN st.at = P
      /\ \A p \in P : st.at[p] = RttAt(percentile_idx(n, p), l)
  BY DEF compute_stats
<1>2. \A p \in P : percentile_idx(n, p) \in 0 .. n - 1
  BY DEF percentile_idx
<1>3. \A p, q \in P : p < q => percentile_idx(n, p) <= percentile_idx(n, q)
  BY DEF percentile_idx
<1>4. percentile_idx(n, 50) = n \div 2
  BY DEF percentile_idx
<1>5. \A i, j \in 0 .. n - 1 : i <= j => RttAt(i, l) <= RttAt(j, l)
  BY DEF RttAt
<1>6. RttAt(n \div 2, l) = -1 <=> 2 * l > n
  BY DEF RttAt
<1> HIDE DEF P, st
<1>7. \A p, q \in P : p < q => st.at[p] <= st.at[q]
  BY <1>1, <1>2, <1>3, <1>5
<1>8. \A p \in P : st.min <= st.at[p] /\ st.at[p] <= st.max
  BY <1>1, <1>2, <1>5
<1>9. st.at[50] = -1 <=> 2 * l > st.count
  BY <1>1, <1>4, <1>6 DEF P
<1> QED
  BY <1>1, <1>7, <1>8, <1>9 DEF st

-----------------------------------------------------------------------------
(* Of a directory of experiment logs: finitely many of each station, since *)
(* a name is a station and a repeat.                                       *)
IsDirectory(dir) ==
    /\ DOMAIN dir \subseteq LogNames
    /\ \A f \in DOMAIN dir : dir[f] \in Logs \cup {NoLog}

LEMMA FilesOfStation ==
    ASSUME NEW dir, IsDirectory(dir), NEW s
    PROVE  /\ IsFiniteSet(echo_files(dir, s))
           /\ \A f \in echo_files(dir, s) :
                 /\ f \in DOMAIN dir /\ dir[f] \in Logs /\ dir[f] # NoLog
                 /\ f.repeat \in 1 .. MaxRepeats
                 /\ f = echo_sta(s, f.repeat)
<1>1. \A f \in echo_files(dir, s) :
         /\ f \in DOMAIN dir /\ dir[f] \in Logs /\ dir[f] # NoLog
         /\ f.repeat \in 1 .. MaxRepeats
         /\ f = echo_sta(s, f.repeat)
  BY DEF echo_files, IsDirectory, LogNames, echo_sta
<1> DEFINE R == 1 .. MaxRepeats
           at == [f \in echo_files(dir, s) |-> f.repeat]
<1>2. IsFiniteSet(R)
  BY TestbedAssumption, FS_Interval
<1>3. at \in Injection(echo_files(dir, s), R)
  <2>1. at \in [echo_files(dir, s) -> R]
    BY <1>1
  <2>2. \A f, g \in echo_files(dir, s) : at[f] = at[g] => f = g
    <3>1. \A f, g \in echo_files(dir, s) : f.repeat = g.repeat => f = g
      BY <1>1
    <3> QED
      BY <3>1
  <2> QED
    BY <2>1, <2>2 DEF Injection, IsInjective
<1>4. IsFiniteSet(echo_files(dir, s))
  <2> HIDE DEF at, R
  <2> QED
    BY <1>2, <1>3, FS_Injection
<1> QED
  BY <1>1, <1>4

(* What analyze_logs reports of a station: as many received as there are   *)
(* requests, the losses among them.                                        *)
Lost(dir, s) == SumFunction([f \in echo_files(dir, s) |-> dir[f].lost])

LEMMA AnalyzedStation ==
    ASSUME NEW dir, IsDirectory(dir), NEW s \in DOMAIN analyze_logs(dir)
    PROVE  LET n == Cardinality(echo_files(dir, s))
               found == analyze_logs(dir)[s]
           IN  /\ n \in Nat \ {0} /\ Count * n \in Nat \ {0}
               /\ found.num_runs = n
               /\ found.total_received = Count * n
               /\ found.total_packets = Count * n
               /\ Lost(dir, s) \in 0 .. Count * n
               /\ found.stats = compute_stats(Count * n, Lost(dir, s))
<1> DEFINE files == echo_files(dir, s)
           n == Cardinality(files)
           data == [f \in files |-> parse_rtt_csv(dir[f])]
           total(field) == SumFunction([f \in DOMAIN data |-> data[f][field]])
<1>1. analyze_logs(dir)[s] =
         [stats |-> compute_stats(total("received"), total("lost")),
          total_packets |-> total("total"),
          total_received |-> total("received"),
          num_runs |-> Cardinality(DOMAIN data)]
  BY DEF analyze_logs
<1>2. Count \in Nat \ {0}
  BY TestbedAssumption
<1>3. n \in Nat \ {0}
  <2>1. s \in {f.id : f \in {g \in DOMAIN dir : g \in echo_files(dir, g.id)}}
    BY DEF analyze_logs
  <2>2. files # {}
    BY <2>1
  <2> QED
    BY <2>2, FilesOfStation, FS_EmptySet, FS_CardinalityType
<1>4. \A f \in files :
         /\ data[f]["received"] = Count /\ data[f]["total"] = Count
         /\ data[f]["lost"] = dir[f].lost /\ dir[f].lost \in 0 .. Count
  BY FilesOfStation DEF parse_rtt_csv, Logs
<1>5. total("received") = Count * n /\ total("total") = Count * n
  <2> DEFINE r == [f \in files |-> Count]
  <2>1. \A field \in {"received", "total"} :
           [f \in DOMAIN data |-> data[f][field]] = r
    BY <1>4
  <2>2. SumFunction(r) = Count * n
    <3>1. DOMAIN r = files /\ \A f \in files : r[f] = Count
      OBVIOUS
    <3> HIDE DEF r, files
    <3> QED
      BY <1>2, <3>1, FilesOfStation, SumConstant DEF SumFunction, files
  <2> QED
    BY <2>1, <2>2
<1>6. total("lost") = Lost(dir, s) /\ Lost(dir, s) \in 0 .. Count * n
  <2> DEFINE r == [f \in files |-> dir[f].lost]
  <2>1. [f \in DOMAIN data |-> data[f]["lost"]] = r
    BY <1>4
  <2>2. SumFunction(r) \in 0 .. Count * n
    <3>1. DOMAIN r = files /\ \A f \in files : r[f] \in 0 .. Count
      BY <1>4
    <3> HIDE DEF r, files
    <3> QED
      BY <1>2, <3>1, FilesOfStation, SumBounds DEF SumFunction, files
  <2> QED
    BY <2>1, <2>2 DEF Lost
<1>7. Count * n \in Nat \ {0}
  <2> HIDE DEF n
  <2> QED
    BY <1>2, <1>3
<1> HIDE DEF total
<1> QED
  BY <1>1, <1>3, <1>5, <1>6, <1>7
=============================================================================
