-------------------------- MODULE LiveTrades_proofs --------------------------
(***************************************************************************)
(* The rates that the pages suggest and those of the automatic exit, held  *)
(* against the check of the price band that they will meet; the types of   *)
(* the live account and its rows; the two summaries of the reports page,   *)
(* held against each other; and the books that are made of the filled      *)
(* rows, held against the account, for any number of orders and days.      *)
(*                                                                         *)
(* Books and sums are recursive functions of the ids.  What is said of     *)
(* them follows by induction over numbers, from the well-foundedness of    *)
(* <: a set that has 0, and n + 1 whenever it has n, has all numbers.      *)
(***************************************************************************)
EXTENDS LiveTrades, FiniteSetTheorems, SequenceTheorems, WellFoundedInduction, NaturalsInduction, TLAPS

-----------------------------------------------------------------------------
(* Recursive functions and sums.                                           *)

\* A set of numbers has a least one.
LEMMA LeastNumber ==
    ASSUME NEW S \in SUBSET Nat, S # {}
    PROVE  \E m \in S : \A n \in S : m <= n
<1>1. PICK m \in S : \A n \in S : ~(<<n, m>> \in OpToRel(<, Nat))
  BY NatLessThanWellFounded, WFMin
<1>2. ASSUME NEW n \in S, ~(m <= n) PROVE FALSE
  <2>1. m \in Nat /\ n \in Nat /\ n < m
    BY <1>2
  <2>2. <<n, m>> \in OpToRel(<, Nat)
    BY <2>1 DEF OpToRel
  <2>. QED BY <1>1, <2>2
<1>. QED BY <1>2

\* What holds of 0, and of n + 1 if of n, holds of all numbers.
LEMMA Induct ==
    ASSUME NEW T, 0 \in T, \A n \in Nat : n \in T => n + 1 \in T
    PROVE  Nat \subseteq T
<1>. SUFFICES ASSUME Nat \ T # {} PROVE FALSE
  OBVIOUS
<1>1. PICK x \in Nat \ T : \A y \in Nat \ T : x <= y
  BY LeastNumber
<1>2. x - 1 \in Nat /\ (x - 1) + 1 = x /\ ~(x <= x - 1)
  OBVIOUS
<1>. QED BY <1>1, <1>2

\* g is given step by step, from 0 on.
Recursive(g, start, step) == g[0] = start /\ \A n \in Nat \ {0} : g[n] = step[n][g[n - 1]]

\* Such a function exists.
LEMMA Recursion ==
    ASSUME NEW S, NEW start \in S, NEW step \in [Nat -> [S -> S]]
    PROVE  \E g \in [Nat -> S] : Recursive(g, start, step)
<1>. DEFINE Upto(g, n) == /\ g \in [0..n -> S] /\ g[0] = start
                          /\ \A k \in 1..n : g[k] = step[k][g[k - 1]]
            T == {n \in Nat : \E g : Upto(g, n)}
<1>1. 0 \in T
  <2>. DEFINE h == [k \in 0..0 |-> start]
  <2>1. Upto(h, 0)
    OBVIOUS
  <2>. HIDE DEF Upto, h
  <2>. QED BY <2>1
<1>2. ASSUME NEW n \in Nat, n \in T PROVE n + 1 \in T
  <2>1. PICK g : Upto(g, n)
    BY <1>2
  <2>. DEFINE h == [k \in 0..(n + 1) |-> IF k <= n THEN g[k] ELSE step[n + 1][g[n]]]
  <2>2. h \in [0..(n + 1) -> S] /\ h[0] = start
    BY <2>1
  <2>3. \A k \in 1..(n + 1) : h[k] = step[k][h[k - 1]]
    BY <2>1
  <2>. HIDE DEF h
  <2>4. Upto(h, n + 1)
    BY <2>2, <2>3
  <2>. HIDE DEF Upto
  <2>. QED BY <2>4
<1>3. \A n \in Nat : \E g : Upto(g, n)
  <2>1. Nat \subseteq T
    <3>. HIDE DEF T
    <3>. QED BY <1>1, <1>2, Induct
  <2>. QED BY <2>1
<1>. DEFINE G(n) == CHOOSE g : Upto(g, n)
            f == [n \in Nat |-> G(n)[n]]
<1>4. \A n \in Nat : Upto(G(n), n)
  <2>. HIDE DEF Upto
  <2>. QED BY <1>3
<1>5. ASSUME NEW n \in Nat PROVE G(n + 1)[n] = G(n)[n]
  <2>. DEFINE A == {k \in Nat : k <= n => G(n + 1)[k] = G(n)[k]}
  <2>1. Upto(G(n), n) /\ Upto(G(n + 1), n + 1)
    <3>1. n + 1 \in Nat
      OBVIOUS
    <3>. HIDE DEF Upto, G
    <3>. QED BY <1>4, <3>1
  <2>. HIDE DEF G
  <2>2. 0 \in A
    BY <2>1
  <2>3. ASSUME NEW k \in Nat, k \in A PROVE k + 1 \in A
    <3>. SUFFICES ASSUME k + 1 <= n PROVE G(n + 1)[k + 1] = G(n)[k + 1]
      OBVIOUS
    <3>1. G(n + 1)[k] = G(n)[k] /\ k + 1 \in 1..n /\ k + 1 \in 1..(n + 1) /\ (k + 1) - 1 = k
      BY <2>3
    <3>. QED BY <2>1, <3>1
  <2>4. Nat \subseteq A
    <3>. HIDE DEF A
    <3>. QED BY <2>2, <2>3, Induct
  <2>. QED BY <2>4
<1>6. f \in [Nat -> S] /\ f[0] = start
  <2>. HIDE DEF G
  <2>. QED BY <1>4
<1>7. ASSUME NEW n \in Nat \ {0} PROVE f[n] = step[n][f[n - 1]]
  <2>1. Upto(G(n), n)
    BY <1>4
  <2>2. n - 1 \in Nat /\ (n - 1) + 1 = n /\ n \in 1..n
    OBVIOUS
  <2>3. G(n)[n - 1] = G(n - 1)[n - 1]
    <3>. HIDE DEF G
    <3>. QED BY <1>5, <2>2
  <2>. HIDE DEF G
  <2>. QED BY <2>1, <2>2, <2>3
<1>. HIDE DEF f
<1>8. Recursive(f, start, step)
  BY <1>6, <1>7 DEF Recursive
<1>. QED BY <1>6, <1>8

\* What can be summed: integers for finitely many positive numbers.
Summable(v) == (\E n \in Nat : DOMAIN v \subseteq 1..n) /\ \A i \in DOMAIN v : v[i] \in Int

\* What n has.
At(v, n) == IF n \in DOMAIN v THEN v[n] ELSE 0

LEMMA AtType ==
    ASSUME NEW v, Summable(v), NEW n
    PROVE  At(v, n) \in Int
  BY DEF Summable, At

LEMMA SumsStep ==
    ASSUME NEW v, Summable(v)
    PROVE  /\ SumsOf(v) \in [Nat -> Int] /\ SumsOf(v)[0] = 0
           /\ \A n \in Nat \ {0} : SumsOf(v)[n] = SumsOf(v)[n - 1] + At(v, n)
<1>. DEFINE step == [n \in Nat |-> [a \in Int |-> a + At(v, n)]]
            Sums(h) == h = [n \in Nat |-> IF n = 0 THEN 0 ELSE h[n - 1] + At(v, n)]
<1>1. step \in [Nat -> [Int -> Int]] /\ \A n \in Nat, a \in Int : step[n][a] = a + At(v, n)
  <2>1. \A n \in Nat, a \in Int : a + At(v, n) \in Int
    BY AtType
  <2>. QED BY <2>1
<1>2. PICK g \in [Nat -> Int] : g[0] = 0 /\ \A n \in Nat \ {0} : g[n] = step[n][g[n - 1]]
  <2>1. 0 \in Int /\ step \in [Nat -> [Int -> Int]]
    BY <1>1
  <2>. HIDE DEF step
  <2>2. \E g \in [Nat -> Int] : Recursive(g, 0, step)
    BY <2>1, Recursion, Zenon
  <2>. QED BY <2>2 DEF Recursive
<1>3. Sums(g)
  <2>1. ASSUME NEW n \in Nat PROVE g[n] = IF n = 0 THEN 0 ELSE g[n - 1] + At(v, n)
    <3>. HIDE DEF step
    <3>1. CASE n = 0
      BY <1>2, <3>1
    <3>2. CASE n # 0
      <4>1. n - 1 \in Nat /\ g[n - 1] \in Int
        BY <3>2
      <4>. QED BY <1>1, <1>2, <3>2, <4>1
    <3>. QED BY <3>1, <3>2
  <2>. QED BY <2>1
<1>4. Sums(SumsOf(v))
  <2>1. SumsOf(v) = CHOOSE h : Sums(h)
    BY DEF SumsOf, At
  <2>. HIDE DEF Sums
  <2>. QED BY <1>3, <2>1, Zenon
<1>. DEFINE s == SumsOf(v)
<1>5. \A n \in Nat : s[n] = IF n = 0 THEN 0 ELSE s[n - 1] + At(v, n)
  BY <1>4
<1>. HIDE DEF s
<1>6. s[0] = 0 /\ \A n \in Nat \ {0} : s[n] = s[n - 1] + At(v, n)
  BY <1>5
<1>7. s \in [Nat -> Int]
  <2>. DEFINE T == {n \in Nat : s[n] \in Int}
  <2>1. 0 \in T
    BY <1>6
  <2>2. ASSUME NEW n \in Nat, n \in T PROVE n + 1 \in T
    <3>1. s[n + 1] = s[n] + At(v, n + 1)
      BY <1>6
    <3>. QED BY <2>2, <3>1, AtType
  <2>3. Nat \subseteq T
    <3>. HIDE DEF T
    <3>. QED BY <2>1, <2>2, Induct
  <2>4. s = [n \in Nat |-> s[n]]
    BY <1>4 DEF s
  <2>. QED BY <2>3, <2>4
<1>. QED BY <1>6, <1>7 DEF s

LEMMA SumsType ==
    ASSUME NEW v, Summable(v), NEW n \in Nat
    PROVE  /\ SumsOf(v)[n] \in Int /\ At(v, n + 1) \in Int /\ SumsOf(v)[0] = 0
           /\ SumsOf(v)[n + 1] = SumsOf(v)[n] + At(v, n + 1)
<1>1. SumsOf(v)[n] \in Int /\ SumsOf(v)[0] = 0
  BY SumsStep
<1>2. n + 1 \in Nat \ {0} /\ (n + 1) - 1 = n
  OBVIOUS
<1>. QED BY <1>1, <1>2, SumsStep, AtType

LEMMA MaxIsGreatest ==
    ASSUME NEW S, S # {}, NEW n \in Nat, S \subseteq 0..n
    PROVE  Max(S) \in S /\ \A x \in S : x <= Max(S)
<1>. DEFINE R == {k \in 0..n : n - k \in S}
<1>1. R \subseteq Nat /\ R # {}
  <2>1. PICK x \in S : TRUE
    OBVIOUS
  <2>2. n - x \in 0..n /\ n - (n - x) = x
    BY <2>1
  <2>3. n - x \in R
    BY <2>1, <2>2
  <2>4. R \subseteq Nat
    OBVIOUS
  <2>. HIDE DEF R
  <2>. QED BY <2>3, <2>4
<1>2. PICK k \in R : \A j \in R : k <= j
  BY <1>1, LeastNumber
<1>3. ASSUME NEW x \in S PROVE n - k >= x
  <2>1. n - x \in R
    <3>1. n - x \in 0..n /\ n - (n - x) = x
      OBVIOUS
    <3>. QED BY <3>1
  <2>2. k <= n - x /\ k \in Nat /\ x \in Nat
    BY <1>2, <2>1
  <2>. QED BY <2>2
<1>4. \E x \in S : \A y \in S : x >= y
  <2>1. n - k \in S
    OBVIOUS
  <2>. QED BY <1>3, <2>1
<1>. QED BY <1>4 DEF Max

\* The sum of all values is reached at any number beyond them.
LEMMA SumReached ==
    ASSUME NEW v, Summable(v), NEW n \in Nat, DOMAIN v \subseteq 1..n
    PROVE  SumOf(v) = SumsOf(v)[n] /\ SumOf(v) \in Int
<1>. DEFINE m == Max(DOMAIN v \cup {0})
            T == {k \in Nat : SumsOf(v)[m + k] = SumsOf(v)[m]}
<1>1. m \in 0..n /\ \A x \in DOMAIN v : x \in Nat /\ x <= m
  <2>1. DOMAIN v \cup {0} \subseteq 0..n /\ DOMAIN v \cup {0} # {}
    OBVIOUS
  <2>. QED BY <2>1, MaxIsGreatest
<1>. HIDE DEF m
<1>2. 0 \in T
  BY <1>1
<1>3. ASSUME NEW k \in Nat, k \in T PROVE k + 1 \in T
  <2>1. m + k \in Nat /\ (m + k) + 1 = m + (k + 1) /\ m + k + 1 \notin DOMAIN v
    BY <1>1
  <2>2. SumsOf(v)[m + (k + 1)] = SumsOf(v)[m + k]
    BY <2>1, SumsType DEF At
  <2>. QED BY <1>3, <2>2
<1>4. Nat \subseteq T
  <2>. HIDE DEF T
  <2>. QED BY <1>2, <1>3, Induct
<1>5. n - m \in Nat /\ m + (n - m) = n
  BY <1>1
<1>6. SumsOf(v)[n] = SumsOf(v)[m]
  BY <1>4, <1>5
<1>. QED BY <1>6, SumsType DEF SumOf, m

\* What has the same values has the same sum.
LEMMA SumsSame ==
    ASSUME NEW v, Summable(v), NEW w, Summable(w), NEW n \in Nat, \A k \in 1..n : At(v, k) = At(w, k)
    PROVE  SumsOf(v)[n] = SumsOf(w)[n]
<1>. DEFINE T == {k \in Nat : k <= n => SumsOf(v)[k] = SumsOf(w)[k]}
<1>1. 0 \in T
  BY SumsType
<1>2. ASSUME NEW k \in Nat, k \in T PROVE k + 1 \in T
  <2>. SUFFICES ASSUME k + 1 <= n PROVE SumsOf(v)[k + 1] = SumsOf(w)[k + 1]
    OBVIOUS
  <2>1. SumsOf(v)[k] = SumsOf(w)[k] /\ At(v, k + 1) = At(w, k + 1)
    BY <1>2
  <2>. QED BY <2>1, SumsType
<1>3. Nat \subseteq T
  <2>. HIDE DEF T
  <2>. QED BY <1>1, <1>2, Induct
<1>. QED BY <1>3

\* The sum of sums.
LEMMA SumsPlus ==
    ASSUME NEW u, Summable(u), NEW v, Summable(v), NEW w, Summable(w), NEW n \in Nat,
           \A k \in 1..n : At(u, k) = At(v, k) + At(w, k)
    PROVE  SumsOf(u)[n] = SumsOf(v)[n] + SumsOf(w)[n]
<1>. DEFINE T == {k \in Nat : k <= n => SumsOf(u)[k] = SumsOf(v)[k] + SumsOf(w)[k]}
<1>1. 0 \in T
  BY SumsType
<1>2. ASSUME NEW k \in Nat, k \in T PROVE k + 1 \in T
  <2>. SUFFICES ASSUME k + 1 <= n PROVE SumsOf(u)[k + 1] = SumsOf(v)[k + 1] + SumsOf(w)[k + 1]
    OBVIOUS
  <2>1. SumsOf(u)[k] = SumsOf(v)[k] + SumsOf(w)[k] /\ At(u, k + 1) = At(v, k + 1) + At(w, k + 1)
    BY <1>2
  <2>2. /\ SumsOf(u)[k + 1] = SumsOf(u)[k] + At(u, k + 1)
        /\ SumsOf(v)[k + 1] = SumsOf(v)[k] + At(v, k + 1)
        /\ SumsOf(w)[k + 1] = SumsOf(w)[k] + At(w, k + 1)
        /\ SumsOf(v)[k] \in Int /\ SumsOf(w)[k] \in Int /\ At(v, k + 1) \in Int /\ At(w, k + 1) \in Int
    BY SumsType
  <2>. QED BY <2>1, <2>2
<1>3. Nat \subseteq T
  <2>. HIDE DEF T
  <2>. QED BY <1>1, <1>2, Induct
<1>. QED BY <1>3

\* Where one value is another one, so much is the sum.
LEMMA SumsPoint ==
    ASSUME NEW v, Summable(v), NEW w, Summable(w), NEW n \in Nat, NEW i \in 1..n,
           \A k \in 1..n : k # i => At(v, k) = At(w, k)
    PROVE  SumsOf(w)[n] = SumsOf(v)[n] + At(w, i) - At(v, i)
<1>. DEFINE T == {k \in Nat : k <= n => SumsOf(w)[k] = SumsOf(v)[k] + IF i <= k THEN At(w, i) - At(v, i) ELSE 0}
<1>0. At(v, i) \in Int /\ At(w, i) \in Int
  BY AtType
<1>1. 0 \in T
  BY SumsType
<1>2. ASSUME NEW k \in Nat, k \in T PROVE k + 1 \in T
  <2>. SUFFICES ASSUME k + 1 <= n
                PROVE  SumsOf(w)[k + 1] = SumsOf(v)[k + 1] + IF i <= k + 1 THEN At(w, i) - At(v, i) ELSE 0
    OBVIOUS
  <2>1. /\ SumsOf(w)[k] = SumsOf(v)[k] + IF i <= k THEN At(w, i) - At(v, i) ELSE 0
        /\ k + 1 # i => At(v, k + 1) = At(w, k + 1)
    BY <1>2
  <2>2. /\ SumsOf(v)[k + 1] = SumsOf(v)[k] + At(v, k + 1)
        /\ SumsOf(w)[k + 1] = SumsOf(w)[k] + At(w, k + 1)
        /\ SumsOf(v)[k] \in Int /\ SumsOf(w)[k] \in Int /\ At(v, k + 1) \in Int /\ At(w, k + 1) \in Int
    BY SumsType
  <2>3. CASE i = k + 1
    BY <1>0, <2>1, <2>2, <2>3
  <2>4. CASE i # k + 1
    <3>1. i <= k + 1 <=> i <= k
      BY <2>4
    <3>. QED BY <1>0, <2>1, <2>2, <2>4, <3>1
  <2>. QED BY <2>3, <2>4
<1>3. Nat \subseteq T
  <2>. HIDE DEF T
  <2>. QED BY <1>1, <1>2, Induct
<1>4. SumsOf(w)[n] = SumsOf(v)[n] + (At(w, i) - At(v, i))
  BY <1>3
<1>. QED BY <1>0, <1>4, SumsType

\* Where no value is less, the sum is not.
LEMMA SumsGrow ==
    ASSUME NEW v, Summable(v), NEW w, Summable(w), NEW n \in Nat, \A k \in 1..n : At(v, k) <= At(w, k)
    PROVE  SumsOf(v)[n] <= SumsOf(w)[n]
<1>. DEFINE T == {k \in Nat : k <= n => SumsOf(v)[k] <= SumsOf(w)[k]}
<1>1. 0 \in T
  BY SumsType
<1>2. ASSUME NEW k \in Nat, k \in T PROVE k + 1 \in T
  <2>. SUFFICES ASSUME k + 1 <= n PROVE SumsOf(v)[k + 1] <= SumsOf(w)[k + 1]
    OBVIOUS
  <2>1. SumsOf(v)[k] <= SumsOf(w)[k] /\ At(v, k + 1) <= At(w, k + 1)
    BY <1>2
  <2>2. /\ SumsOf(v)[k + 1] = SumsOf(v)[k] + At(v, k + 1)
        /\ SumsOf(w)[k + 1] = SumsOf(w)[k] + At(w, k + 1)
        /\ SumsOf(v)[k] \in Int /\ SumsOf(w)[k] \in Int /\ At(v, k + 1) \in Int /\ At(w, k + 1) \in Int
    BY SumsType
  <2>. QED BY <2>1, <2>2
<1>3. Nat \subseteq T
  <2>. HIDE DEF T
  <2>. QED BY <1>1, <1>2, Induct
<1>. QED BY <1>3

\* The values of one function are those of another, and then those of a third.
Joins(u, v, w, m, n) ==
    /\ Summable(u) /\ Summable(v) /\ Summable(w) /\ m \in Nat /\ n \in Nat
    /\ \A k \in 1..m : At(u, k) = At(v, k)
    /\ \A k \in 1..n : At(u, m + k) = At(w, k)

\* What is summed in two parts.
LEMMA SumsSplit ==
    ASSUME NEW u, NEW v, NEW w, NEW m, NEW n, Joins(u, v, w, m, n)
    PROVE  SumsOf(u)[m + n] = SumsOf(v)[m] + SumsOf(w)[n]
<1>0. /\ Summable(u) /\ Summable(v) /\ Summable(w) /\ m \in Nat /\ n \in Nat
      /\ \A k \in 1..m : At(u, k) = At(v, k)
      /\ \A k \in 1..n : At(u, m + k) = At(w, k)
  BY DEF Joins
<1>. DEFINE T == {k \in Nat : k <= n => SumsOf(u)[m + k] = SumsOf(v)[m] + SumsOf(w)[k]}
<1>1. 0 \in T
  <2>1. SumsOf(u)[m] = SumsOf(v)[m] /\ SumsOf(v)[m] \in Int /\ SumsOf(w)[0] = 0
    BY <1>0, SumsSame, SumsType
  <2>. QED BY <1>0, <2>1
<1>2. ASSUME NEW k \in Nat, k \in T PROVE k + 1 \in T
  <2>. SUFFICES ASSUME k + 1 <= n PROVE SumsOf(u)[m + (k + 1)] = SumsOf(v)[m] + SumsOf(w)[k + 1]
    OBVIOUS
  <2>1. SumsOf(u)[m + k] = SumsOf(v)[m] + SumsOf(w)[k] /\ At(u, m + (k + 1)) = At(w, k + 1)
    BY <1>0, <1>2
  <2>2. m + k \in Nat /\ (m + k) + 1 = m + (k + 1)
    BY <1>0
  <2>3. /\ SumsOf(u)[m + (k + 1)] = SumsOf(u)[m + k] + At(u, m + (k + 1))
        /\ SumsOf(w)[k + 1] = SumsOf(w)[k] + At(w, k + 1)
        /\ SumsOf(v)[m] \in Int /\ SumsOf(w)[k] \in Int /\ At(w, k + 1) \in Int
    BY <1>0, <2>2, SumsType
  <2>. QED BY <2>1, <2>3
<1>3. Nat \subseteq T
  <2>. HIDE DEF T
  <2>. QED BY <1>1, <1>2, Induct
<1>. QED BY <1>0, <1>3

\* Where all values are one, the sum is so many times that.
LEMMA SumsConstant ==
    ASSUME NEW v, Summable(v), NEW n \in Nat, NEW a \in Int, \A k \in 1..n : At(v, k) = a
    PROVE  SumsOf(v)[n] = n * a
<1>. DEFINE T == {k \in Nat : k <= n => SumsOf(v)[k] = k * a}
<1>1. 0 \in T
  BY SumsType
<1>2. ASSUME NEW k \in Nat, k \in T PROVE k + 1 \in T
  <2>. SUFFICES ASSUME k + 1 <= n PROVE SumsOf(v)[k + 1] = (k + 1) * a
    OBVIOUS
  <2>1. SumsOf(v)[k] = k * a /\ At(v, k + 1) = a
    BY <1>2
  <2>2. (k + 1) * a = k * a + a
    OBVIOUS
  <2>3. SumsOf(v)[k + 1] = SumsOf(v)[k] + At(v, k + 1)
    BY SumsType
  <2>. QED BY <2>1, <2>2, <2>3
<1>3. Nat \subseteq T
  <2>. HIDE DEF T
  <2>. QED BY <1>1, <1>2, Induct
<1>. QED BY <1>3

-----------------------------------------------------------------------------
(* LiveGuardrails.                                                         *)

\* Around a price the band is not empty, and its ends are in it.
LEMMA Band ==
    ASSUME NEW price \in Nat, Tolerance \in Nat
    PROVE  /\ BandLow(price) \in Int /\ BandHigh(price) \in Int
           /\ BandLow(price) = 100 * price - Tolerance * price
           /\ BandHigh(price) = 100 * price + Tolerance * price
           /\ Tolerance * price \in Nat
<1>1. Tolerance * price \in Nat
  OBVIOUS
<1>. QED BY <1>1 DEF BandLow, BandHigh

\* The rate that the Live Ops page suggests for an order passes the check of the
\* price band, at the price it was suggested for, whatever rate was wanted; and
\* a wanted rate that passes it is suggested as it is.
THEOREM SuggestionInBand ==
    ASSUME NEW rate \in Int, NEW price \in Int, NEW stale \in BOOLEAN, Tolerance \in Nat
    PROVE  \A r \in Suggested(rate, price, stale) :
              /\ InBand(r, 100, price)
              /\ InBand(100 * rate, 100, price) => r = 100 * rate
<1>. SUFFICES ASSUME NEW r \in Suggested(rate, price, stale)
              PROVE  InBand(r, 100, price) /\ (InBand(100 * rate, 100, price) => r = 100 * rate)
  OBVIOUS
<1>1. price \in Nat
  BY DEF Suggested
<1>2. PICK width \in Nat : width = Tolerance * price
  BY <1>1, Band
<1>3. BandLow(price) = 100 * price - width /\ BandHigh(price) = 100 * price + width
  BY <1>1, <1>2, Band
<1>4. Tolerance * 100 * price = 100 * width
  BY <1>1, <1>2
<1>5. \A x \in Int : InBand(x, 100, price) <=> x <= 100 * price + width /\ 100 * price - width <= x
  BY <1>1, <1>4 DEF InBand
<1>6. \/ 100 * rate < 100 * price - width /\ r = 100 * price - width
      \/ 100 * rate > 100 * price + width /\ r = 100 * price + width
      \/ 100 * rate >= 100 * price - width /\ 100 * rate <= 100 * price + width /\ r = 100 * rate
  BY <1>1, <1>3 DEF Suggested
<1>. QED BY <1>1, <1>5, <1>6

\* The price band never refuses a stop loss or the taking of a profit.  A sell
\* in the sell zone asks for the rate of the rule, and the band refuses it, and
\* goes on refusing it, when the price is far above that rate.
THEOREM ExitsInBand ==
    ASSUME NEW entry \in Nat, NEW price \in Nat, Tolerance \in Nat, SellAbove \in Nat,
           ExitReason(entry, price) # "WAIT"
    PROVE  InBand(ExitRate(entry, price), 1, price)
              <=> (ExitReason(entry, price) = "SELL_ZONE"
                      => (price - SellAbove) * 100 <= Tolerance * price)
<1>1. Tolerance * price \in Nat /\ Tolerance * 1 * price = Tolerance * price /\ 1 * price = price
  OBVIOUS
<1>2. CASE ExitReason(entry, price) = "SELL_ZONE"
  <2>1. price >= SellAbove
    BY <1>2 DEF ExitReason
  <2>. QED BY <1>1, <1>2, <2>1 DEF ExitRate, InBand
<1>3. CASE ExitReason(entry, price) # "SELL_ZONE"
  BY <1>1, <1>3 DEF ExitRate, InBand
<1>. QED BY <1>2, <1>3

-----------------------------------------------------------------------------
(* The account and its rows.                                               *)

Request == [sym : Pairs, side : {"buy", "sell"}, amt : Nat \ {0}, rate : Nat \ {0}]

LEMMA PairsAreNumbers == \E n \in Nat : Pairs = 1..n
BY PairsAssumption, FS_CardinalityType

LEMMA PutOne ==
    ASSUME NEW S, NEW T, NEW f \in [S -> T], NEW d, NEW e \in T
    PROVE  [f EXCEPT ![d] = e] \in [S -> T]
  OBVIOUS

LEMMA ChangeOne ==
    ASSUME NEW S, NEW s \in Seq(S), NEW i \in DOMAIN s, NEW e \in S
    PROVE  /\ [s EXCEPT ![i] = e] \in Seq(S) /\ DOMAIN [s EXCEPT ![i] = e] = DOMAIN s
           /\ \A j \in DOMAIN s : [s EXCEPT ![i] = e][j] = IF j = i THEN e ELSE s[j]
  OBVIOUS

\* A buy is of a coin at least.
LEMMA QtyOK ==
    ASSUME NEW rate \in Prices
    PROVE  Qty(rate) \in Nat \ {0} /\ Budget \in Nat \ {0} /\ Budget \div rate >= Qty(rate)
<1>1. rate \in Nat \ {0} /\ Budget \in Nat /\ BuyFee \in Nat /\ Qty(rate) >= 1
  BY AmountsAssumption, QtyAssumption
<1>2. PICK a \in Int : a = Budget - BuyFee /\ a <= Budget
  BY <1>1
<1>3. Qty(rate) = a \div rate /\ a \div rate \in Int
  BY <1>1, <1>2 DEF Qty
<1>4. a >= 1
  BY <1>1, <1>3
<1>5. Budget \div rate >= a \div rate
  BY <1>1, <1>2
<1>. QED BY <1>1, <1>2, <1>3, <1>4, <1>5

\* A buy is well formed, and so is a sell of what there is.
LEMMA RequestsOK ==
    ASSUME LiveTypeOK, NEW s \in Pairs, NEW rate \in Prices
    PROVE  /\ BuyRequest(s, rate) \in Request /\ BuyRequest(s, rate).side = "buy"
           /\ \A amt \in Nat \ {0}, to \in Nat \ {0} :
                 /\ SellRequest(s, amt, to) \in Request
                 /\ SellRequest(s, amt, to).sym = s /\ SellRequest(s, amt, to).side = "sell"
                 /\ SellRequest(s, amt, to).amt = amt /\ SellRequest(s, amt, to).rate = to
<1>1. Budget \in Nat \ {0} /\ rate \in Nat \ {0}
  BY QtyOK, AmountsAssumption
<1>. QED BY <1>1 DEF BuyRequest, SellRequest, Request

\* The first exit is one of the candidates: a sell of all coins of a symbol that has
\* no open order.
LEMMA FirstExitOK ==
    ASSUME LiveTypeOK, NEW prices \in [scope.symbols -> Prices], ExitCandidates(prices) # {}
    PROVE  LET r == FirstExit(prices) IN r \in Request /\ r.side = "sell" /\ r.amt = coins[r.sym] /\ OpenRows(r.sym) = {}
<1>1. scope.symbols \subseteq Pairs /\ Pairs \subseteq Nat
  BY PairsAreNumbers DEF LiveTypeOK, Scope
<1>2. ASSUME NEW r \in ExitCandidates(prices)
      PROVE  /\ r \in Request /\ r.side = "sell" /\ r.amt = coins[r.sym] /\ OpenRows(r.sym) = {}
             /\ r.sym \in Nat
  <2>1. PICK s \in scope.symbols :
           /\ OpenRows(s) = {} /\ coins[s] > 0
           /\ r = SellRequest(s, coins[s], ExitRate(orders[CHOOSE i \in LatestFilled(s) : TRUE].rate, prices[s]))
    BY DEF ExitCandidates
  <2>2. coins[s] \in Nat \ {0} /\ s \in Pairs
    <3>1. s \in Pairs /\ coins \in [Pairs -> Nat]
      BY <1>1 DEF LiveTypeOK
    <3>2. coins[s] > 0
      BY <2>1
    <3>. QED BY <3>1, <3>2
  <2>3. PICK to \in Nat \ {0} : r = SellRequest(s, coins[s], to)
    <3>1. prices[s] \in Nat \ {0}
      BY AmountsAssumption
    <3>. QED BY <2>1, <3>1, AmountsAssumption DEF ExitRate
  <2>4. prices[s] \in Prices
    OBVIOUS
  <2>5. PICK amt \in Nat \ {0} : amt = coins[s]
    BY <2>2
  <2>6. SellRequest(s, amt, to) \in Request
    BY <2>2, <2>4, RequestsOK
  <2>7. r.sym = s /\ r.side = "sell" /\ r.amt = amt
    BY <2>3, <2>5 DEF SellRequest
  <2>. QED BY <1>1, <2>1, <2>2, <2>3, <2>5, <2>6, <2>7
<1>. DEFINE syms == {r.sym : r \in ExitCandidates(prices)}
<1>3. PICK m \in syms : \A n \in syms : m <= n
  <2>1. syms \subseteq Nat /\ syms # {}
    BY <1>2
  <2>. HIDE DEF syms
  <2>. QED BY <2>1, LeastNumber
<1>4. PICK r \in ExitCandidates(prices) : r.sym = m
  OBVIOUS
<1>5. \A q \in ExitCandidates(prices) : r.sym <= q.sym
  BY <1>3, <1>4
<1>6. FirstExit(prices) \in ExitCandidates(prices)
  BY <1>4, <1>5 DEF FirstExit
<1>. QED BY <1>2, <1>6

\* An order that is sent of what there is leaves the account and the rows well
\* formed; its row is one more open row.
LEMMA SubmitOK ==
    ASSUME LiveTypeOK, NEW r \in Request, NEW auto \in BOOLEAN, Submit(r, auto),
           r.side = "sell" => coins[r.sym] >= r.amt
    PROVE  /\ thb' \in Int /\ coins' \in [Pairs -> Nat]
           /\ \E row \in Order : row.state = "open" /\ orders' = Append(orders, row)
<1>1. r.sym \in Pairs /\ r.side \in {"buy", "sell"} /\ r.amt \in Nat \ {0} /\ r.rate \in Nat \ {0}
  BY DEF Request
<1>2. thb' \in Int
  BY AmountsAssumption DEF LiveTypeOK, Submit
<1>3. coins' \in [Pairs -> Nat]
  <2>1. CASE r.side = "buy"
    BY <2>1 DEF LiveTypeOK, Submit
  <2>2. CASE r.side # "buy"
    <3>1. coins \in [Pairs -> Nat] /\ coins[r.sym] >= r.amt
      BY <1>1, <2>2 DEF LiveTypeOK
    <3>2. coins[r.sym] - r.amt \in Nat
      BY <1>1, <3>1
    <3>. QED BY <1>1, <2>2, <3>1, <3>2 DEF Submit
  <2>. QED BY <2>1, <2>2
<1>. DEFINE row == [sym |-> r.sym, side |-> r.side, amt |-> r.amt, rate |-> r.rate, state |-> "open",
                    part |-> 0, last |-> 0, told |-> "nothing",
                    day |-> 0, sent |-> mode, auto |-> auto]
<1>4. row \in Order
  BY <1>1, DaysAssumption DEF LiveTypeOK, Order, Tellings
<1>5. row.state = "open" /\ orders' = Append(orders, row)
  BY DEF Submit
<1>. QED BY <1>2, <1>3, <1>4, <1>5

\* So does a request that is only recorded in shadow-live mode.
LEMMA SendOrRecordOK ==
    ASSUME LiveTypeOK, NEW r \in Request, NEW auto \in BOOLEAN, SendOrRecord(r, auto),
           r.side = "sell" => coins[r.sym] >= r.amt
    PROVE  /\ thb' \in Int /\ coins' \in [Pairs -> Nat]
           /\ journal' \in [sym : Pairs \cup {0}, side : {"none", "buy", "sell"}]
           /\ \/ orders' = orders
              \/ \E row \in Order : row.state = "open" /\ orders' = Append(orders, row)
<1>1. CASE mode = "shadow-live"
  BY <1>1 DEF LiveTypeOK, SendOrRecord, Request
<1>2. CASE mode # "shadow-live"
  <2>1. Submit(r, auto) /\ journal' = journal
    BY <1>2 DEF SendOrRecord
  <2>2. journal' \in [sym : Pairs \cup {0}, side : {"none", "buy", "sell"}]
    BY <2>1 DEF LiveTypeOK
  <2>. QED BY <2>1, <2>2, SubmitOK
<1>. QED BY <1>1, <1>2

\* What the operator asks for and may sell is there.
LEMMA ManualOK ==
    ASSUME LiveTypeOK, NEW r \in ManualRequests, NEW pauses, NEW pnl, ManualPasses(r, pauses, pnl)
    PROVE  r \in Request /\ (r.side = "sell" => coins[r.sym] >= r.amt)
<1>1. PICK s \in scope.symbols, side \in {"buy", "sell"}, rate \in scope.rates :
         r = ManualRequest(s, side, 1, rate)
  BY DEF ManualRequests
<1>2. s \in Pairs /\ rate \in Prices /\ rate \in Nat \ {0}
  BY AmountsAssumption DEF LiveTypeOK, Scope
<1>3. r \in Request
  BY <1>1, <1>2, RequestsOK DEF ManualRequest
<1>. QED BY <1>3 DEF ManualPasses, ManualFits

-----------------------------------------------------------------------------
(* The filled rows.                                                        *)

FilledIds(rows) == {i \in DOMAIN rows : rows[i].state = "filled"}

\* Rows that agree on what is filled have the same filled rows.
LEMMA FilledSame ==
    ASSUME NEW rows, NEW others, FilledIds(rows) = FilledIds(others),
           \A i \in FilledIds(rows) : rows[i] = others[i]
    PROVE  FilledRows(rows) = FilledRows(others)
BY DEF FilledIds, FilledRows

LEMMA FilledDomain ==
    ASSUME NEW rows \in Seq(Order)
    PROVE  /\ DOMAIN FilledRows(rows) = FilledIds(rows)
           /\ IsFiniteSet(FilledIds(rows)) /\ Cardinality(FilledIds(rows)) \in Nat
<1>1. DOMAIN FilledRows(rows) = FilledIds(rows)
  BY DEF FilledIds, FilledRows
<1>2. IsFiniteSet(DOMAIN rows)
  <2>1. DOMAIN rows = 1..Len(rows) /\ Len(rows) \in Nat
    OBVIOUS
  <2>. QED BY <2>1, FS_Interval
<1>3. IsFiniteSet(FilledIds(rows))
  <2>1. FilledIds(rows) \subseteq DOMAIN rows
    BY DEF FilledIds
  <2>. QED BY <1>2, <2>1, FS_Subset
<1>. QED BY <1>1, <1>3, FS_CardinalityType

\* What a step may do with the rows: one more open row, or a row is changed that
\* was open.
RowsStep ==
    \/ orders' = orders
    \/ \E row \in Order : row.state = "open" /\ orders' = Append(orders, row)
    \/ \E i \in DOMAIN orders : \E row \in Order :
          orders[i].state = "open" /\ orders' = [orders EXCEPT ![i] = row]

\* It leaves the filled rows as they are, or makes them more.
LEMMA FilledGrow ==
    ASSUME orders \in Seq(Order), RowsStep
    PROVE  /\ orders' \in Seq(Order)
           /\ \/ FilledRows(orders') = FilledRows(orders)
              \/ Cardinality(DOMAIN FilledRows(orders)) < Cardinality(DOMAIN FilledRows(orders'))
<1>1. CASE orders' = orders
  BY <1>1
<1>2. ASSUME NEW row \in Order, row.state = "open", orders' = Append(orders, row)
      PROVE  orders' \in Seq(Order) /\ FilledRows(orders') = FilledRows(orders)
  <2>1. /\ orders' \in Seq(Order) /\ DOMAIN orders = 1..Len(orders) /\ Len(orders) \in Nat
        /\ DOMAIN orders' = 1..Len(orders) + 1 /\ orders'[Len(orders) + 1] = row
        /\ \A i \in 1..Len(orders) : orders'[i] = orders[i]
    BY <1>2
  <2>2. FilledIds(orders') = FilledIds(orders)
    BY <1>2, <2>1 DEF FilledIds
  <2>3. \A i \in FilledIds(orders') : orders'[i] = orders[i]
    BY <2>1, <2>2 DEF FilledIds
  <2>. QED BY <2>1, <2>2, <2>3, FilledSame
<1>3. ASSUME NEW i \in DOMAIN orders, NEW row \in Order,
             orders[i].state = "open", orders' = [orders EXCEPT ![i] = row]
      PROVE  /\ orders' \in Seq(Order)
             /\ \/ FilledRows(orders') = FilledRows(orders)
                \/ Cardinality(DOMAIN FilledRows(orders)) < Cardinality(DOMAIN FilledRows(orders'))
  <2>1. /\ orders' \in Seq(Order) /\ DOMAIN orders' = DOMAIN orders
        /\ \A j \in DOMAIN orders : orders'[j] = IF j = i THEN row ELSE orders[j]
    BY <1>3, ChangeOne
  <2>2. i \notin FilledIds(orders)
    BY <1>3 DEF FilledIds
  <2>3. CASE row.state # "filled"
    <3>1. FilledIds(orders') = FilledIds(orders)
      BY <1>3, <2>1, <2>3 DEF FilledIds
    <3>2. \A j \in FilledIds(orders') : orders'[j] = orders[j]
      BY <2>1, <2>2, <3>1 DEF FilledIds
    <3>. QED BY <2>1, <3>1, <3>2, FilledSame
  <2>4. CASE row.state = "filled"
    <3>1. FilledIds(orders') = FilledIds(orders) \cup {i}
      BY <1>3, <2>1, <2>4 DEF FilledIds
    <3>2. Cardinality(FilledIds(orders')) = Cardinality(FilledIds(orders)) + 1
      BY <2>2, <3>1, FilledDomain, FS_AddElement
    <3>. QED BY <2>1, <3>2, FilledDomain
  <2>. QED BY <2>3, <2>4
<1>. QED BY <1>1, <1>2, <1>3 DEF RowsStep

-----------------------------------------------------------------------------
(* Types.                                                                  *)

\* Numbers have halves.
LEMMA HalfNat == \A n \in Nat : n \div 2 \in Nat /\ n - n \div 2 \in Nat
  OBVIOUS

\* What an order is executed at is a rate, and for a buy one of the prices.
LEMMA RatesOK ==
    ASSUME NEW row \in Order
    PROVE  /\ ExecutionRates(row) \subseteq Nat \ {0}
           /\ row.side = "buy" /\ row.rate \in Prices =>
                 \A rate \in ExecutionRates(row) : rate \in Prices /\ rate <= row.rate
<1>1. row.rate \in Nat \ {0} /\ Prices \subseteq Nat \ {0}
  BY AmountsAssumption DEF Order
<1>2. ASSUME NEW rate \in ExecutionRates(row)
      PROVE  \/ rate = row.rate
             \/ rate \in Prices /\ (row.side = "buy" => rate < row.rate)
  <2>1. rate = row.rate \/ rate \in {p \in Prices : scope.better /\ IF row.side = "buy" THEN p < row.rate ELSE p > row.rate}
    BY DEF ExecutionRates
  <2>2. CASE row.side = "buy"
    BY <2>1, <2>2
  <2>3. CASE row.side # "buy"
    BY <2>1, <2>3
  <2>. QED BY <2>2, <2>3
<1>3. ASSUME NEW rate \in ExecutionRates(row)
      PROVE  rate \in Nat \ {0} /\ (row.side = "buy" /\ row.rate \in Prices => rate \in Prices /\ rate <= row.rate)
  <2>1. CASE rate = row.rate
    BY <1>1, <2>1
  <2>2. CASE rate \in Prices /\ (row.side = "buy" => rate < row.rate)
    BY <1>1, <2>2
  <2>. QED BY <1>2, <2>1, <2>2
<1>. QED BY <1>3

\* The coins of an order can be counted, and so can those that are executed last.
LEMMA CoinsOK ==
    ASSUME NEW row \in Order, NEW rate \in Nat \ {0}
    PROVE  Coins(row, rate) \in Nat /\ Coins(row, rate) \div 2 \in Nat /\ Rest(row, rate) \in Nat
<1>1. PICK a \in Nat : a = Budget - BuyFee
  BY AmountsAssumption
<1>2. Qty(rate) \in Nat
  <2>1. a \div rate \in Nat
    OBVIOUS
  <2>. QED BY <1>1, <2>1 DEF Qty
<1>3. PICK n \in Nat : n = Coins(row, rate)
  BY <1>2 DEF Coins, Order
<1>. QED BY <1>3, HalfNat DEF Rest

\* The exchange fills or cancels an order that is open, and gives what it owes.
LEMMA ExchangeOK ==
    ASSUME LiveTypeOK, NEW i \in DOMAIN orders, FillHalf(i) \/ Fill(i) \/ Cancel(i)
    PROVE  thb' \in Int /\ coins' \in [Pairs -> Nat] /\ RowsStep
<1>1. /\ orders[i] \in Order /\ orders[i].sym \in Pairs /\ orders[i].rate \in Nat \ {0}
      /\ thb \in Int /\ coins \in [Pairs -> Nat] /\ coins[orders[i].sym] \in Nat /\ day \in 0..MaxDay
  <2>1. orders[i] \in Order
    BY DEF LiveTypeOK
  <2>2. day \in 0..MaxDay
    BY DaysAssumption DEF LiveTypeOK, Days
  <2>. QED BY <2>1, <2>2 DEF LiveTypeOK, Order
<1>2. \A n \in Nat : [coins EXCEPT ![orders[i].sym] = @ + n] \in [Pairs -> Nat]
  BY <1>1
<1>3. CASE FillHalf(i)
  <2>1. PICK rate \in ExecutionRates(orders[i]) :
           /\ orders' = [orders EXCEPT ![i].part = rate]
           /\ IF orders[i].side = "buy"
              THEN coins' = [coins EXCEPT ![orders[i].sym] = @ + Coins(orders[i], rate) \div 2] /\ UNCHANGED thb
              ELSE thb' = thb + (Coins(orders[i], rate) \div 2) * rate /\ UNCHANGED coins
    BY <1>3 DEF FillHalf
  <2>2. rate \in Nat \ {0}
    BY <1>1, RatesOK
  <2>3. PICK half \in Nat : half = Coins(orders[i], rate) \div 2
    BY <1>1, <2>2, CoinsOK
  <2>4. half * rate \in Nat
    BY <2>2
  <2>5. thb' \in Int /\ coins' \in [Pairs -> Nat]
    BY <1>1, <1>2, <2>1, <2>3, <2>4
  <2>6. orders[i].state = "open" /\ orders' = [orders EXCEPT ![i] = [orders[i] EXCEPT !.part = rate]]
    BY <1>3, <2>1 DEF FillHalf
  <2>7. [orders[i] EXCEPT !.part = rate] \in Order
    BY <1>1, <2>2 DEF Order
  <2>. QED BY <2>5, <2>6, <2>7 DEF RowsStep
<1>4. CASE Fill(i)
  <2>1. PICK rate \in ExecutionRates(orders[i]), told \in scope.told :
           /\ orders' = [orders EXCEPT ![i].state = "filled", ![i].last = rate, ![i].told = told, ![i].day = day]
           /\ IF orders[i].side = "buy"
              THEN coins' = [coins EXCEPT ![orders[i].sym] = @ + Rest(orders[i], rate)] /\ UNCHANGED thb
              ELSE thb' = thb + Rest(orders[i], rate) * rate - SellFee /\ UNCHANGED coins
    BY <1>4 DEF Fill
  <2>2. rate \in Nat \ {0} /\ told \in Tellings
    BY <1>1, RatesOK DEF LiveTypeOK, Scope
  <2>3. PICK rest \in Nat : rest = Rest(orders[i], rate)
    BY <1>1, <2>2, CoinsOK
  <2>4. rest * rate \in Nat
    BY <2>2
  <2>5. thb' \in Int /\ coins' \in [Pairs -> Nat]
    BY <1>1, <1>2, <2>1, <2>3, <2>4, AmountsAssumption
  <2>6. /\ orders[i].state = "open"
        /\ orders' = [orders EXCEPT ![i] = [orders[i] EXCEPT !.state = "filled", !.last = rate, !.told = told, !.day = day]]
    BY <1>4, <2>1 DEF Fill
  <2>7. [orders[i] EXCEPT !.state = "filled", !.last = rate, !.told = told, !.day = day] \in Order
    BY <1>1, <2>2 DEF Order
  <2>. QED BY <2>5, <2>6, <2>7 DEF RowsStep
<1>5. CASE Cancel(i)
  <2>1. PICK rest \in Nat : rest = Rest(orders[i], orders[i].rate)
    BY <1>1, CoinsOK
  <2>2. Unspent(orders[i]) \in Int
    BY AmountsAssumption, HalfNat DEF Unspent
  <2>3. thb' \in Int /\ coins' \in [Pairs -> Nat]
    BY <1>1, <1>2, <1>5, <2>1, <2>2 DEF Cancel
  <2>4. orders[i].state = "open" /\ orders' = [orders EXCEPT ![i] = [orders[i] EXCEPT !.state = "canceled"]]
    BY <1>5 DEF Cancel
  <2>5. [orders[i] EXCEPT !.state = "canceled"] \in Order
    BY <1>1 DEF Order
  <2>. QED BY <2>3, <2>4, <2>5 DEF RowsStep
<1>. QED BY <1>3, <1>4, <1>5

\* A loop sends nothing, the first exit, or a buy.
LEMMA LoopOK ==
    ASSUME LiveTypeOK, Loop
    PROVE  /\ thb' \in Int /\ coins' \in [Pairs -> Nat] /\ RowsStep
           /\ journal' \in [sym : Pairs \cup {0}, side : {"none", "buy", "sell"}]
<1>1. PICK prices \in [scope.symbols -> Prices] :
         \/ AutoExit(prices)
         \/ NoExit(prices) /\ (AutoEntry(prices) \/ UNCHANGED <<thb, coins, orders, journal>>)
  BY DEF Loop
<1>2. CASE AutoExit(prices)
  <2>1. ExitCandidates(prices) # {} /\ SendOrRecord(FirstExit(prices), TRUE)
    BY <1>2 DEF AutoExit, ExitPasses
  <2>2. PICK r \in Request : r = FirstExit(prices) /\ r.side = "sell" /\ r.amt = coins[r.sym]
    BY <2>1, FirstExitOK
  <2>3. coins[r.sym] >= r.amt
    BY <2>2 DEF Request
  <2>. QED BY <2>1, <2>2, <2>3, SendOrRecordOK DEF RowsStep
<1>3. CASE AutoEntry(prices)
  <2>1. PICK signals \in SUBSET {s \in scope.symbols : prices[s] <= BuyBelow} :
           \E r \in EntryCandidates(signals, prices) : SendOrRecord(r, TRUE)
    BY <1>3 DEF AutoEntry
  <2>2. PICK s \in signals : SendOrRecord(BuyRequest(s, prices[s]), TRUE)
    BY <2>1 DEF EntryCandidates
  <2>3. s \in Pairs /\ prices[s] \in Prices
    BY <2>1 DEF LiveTypeOK, Scope
  <2>4. BuyRequest(s, prices[s]) \in Request /\ BuyRequest(s, prices[s]).side = "buy"
    BY <2>3, RequestsOK
  <2>. QED BY <2>2, <2>4, SendOrRecordOK DEF RowsStep
<1>4. CASE UNCHANGED <<thb, coins, orders, journal>>
  BY <1>4 DEF LiveTypeOK, RowsStep
<1>. QED BY <1>1, <1>2, <1>3, <1>4

\* One more element is put behind the others.
LEMMA AppendOne ==
    ASSUME NEW S, NEW s \in Seq(S), NEW e \in S
    PROVE  /\ Append(s, e) \in Seq(S)
           /\ DOMAIN s = 1..Len(s) /\ Len(s) \in Nat /\ DOMAIN Append(s, e) = 1..Len(s) + 1
           /\ \A i \in DOMAIN s : Append(s, e)[i] = s[i]
  OBVIOUS

Sale == [day : Days, pnl : Int, fee : Nat]

\* What a step may do with the paper trades.
PaperStep == paper' = paper \/ \E sale \in Sale : paper' = Append(paper, sale)

\* A step keeps the types, changes the rows as RowsStep says and appends to the
\* paper trades.
LEMMA StepOK ==
    ASSUME LiveTypeOK, [LiveNext]_live
    PROVE  LiveTypeOK' /\ RowsStep /\ PaperStep
<1>1. CASE Loop
  <2>1. thb' \in Int /\ coins' \in [Pairs -> Nat] /\ RowsStep
        /\ journal' \in [sym : Pairs \cup {0}, side : {"none", "buy", "sell"}]
    BY <1>1, LoopOK
  <2>2. orders' \in Seq(Order)
    BY <2>1, FilledGrow DEF LiveTypeOK
  <2>. QED BY <1>1, <2>1, <2>2 DEF LiveTypeOK, Loop, PaperStep, Scope, Days, Modes
<1>2. CASE LoopWithoutOrders
  <2>1. PaperStep
    <3>1. CASE UNCHANGED paper
      BY <3>1 DEF PaperStep
    <3>2. ASSUME NEW sale \in PaperTrades,
                 paper' = Append(paper, [day |-> day, pnl |-> sale.pnl, fee |-> sale.fee])
          PROVE  PaperStep
      <4>1. sale.pnl \in Int /\ sale.fee \in Nat /\ day \in Days
        BY AmountsAssumption DEF LiveTypeOK
      <4>2. [day |-> day, pnl |-> sale.pnl, fee |-> sale.fee] \in Sale
        BY <4>1 DEF Sale
      <4>. QED BY <3>2, <4>2 DEF PaperStep
    <3>. QED BY <1>2, <3>1, <3>2 DEF LoopWithoutOrders
  <2>2. paper' \in Seq([day : Days, pnl : Int, fee : Nat])
    <3>1. paper \in Seq(Sale)
      BY DEF LiveTypeOK, Sale
    <3>2. paper' \in Seq(Sale)
      BY <2>1, <3>1, AppendOne DEF PaperStep
    <3>. QED BY <3>2 DEF Sale
  <2>3. UNCHANGED <<scope, day, mode, paused, thb, coins, orders, journal, page>>
    BY <1>2 DEF LoopWithoutOrders
  <2>. QED BY <2>1, <2>2, <2>3 DEF LiveTypeOK, RowsStep, Days
<1>3. CASE ConsoleOrder \/ TelegramOrder \/ UiOrder
  <2>1. /\ thb' \in Int /\ coins' \in [Pairs -> Nat] /\ RowsStep
        /\ journal' \in [sym : Pairs \cup {0}, side : {"none", "buy", "sell"}]
    <3>1. CASE ConsoleOrder
      <4>1. PICK r \in ManualRequests : ManualPasses(r, paused, total) /\ SendOrRecord(r, FALSE)
        BY <3>1 DEF ConsoleOrder
      <4>. QED BY <4>1, ManualOK, SendOrRecordOK DEF RowsStep
    <3>2. CASE TelegramOrder
      <4>1. PICK r \in ManualRequests : ManualPasses(r, paused, total) /\ Submit(r, FALSE)
        BY <3>2 DEF TelegramOrder
      <4>2. journal' = journal
        BY <3>2 DEF TelegramOrder
      <4>. QED BY <4>1, <4>2, ManualOK, SubmitOK DEF RowsStep, LiveTypeOK
    <3>3. CASE UiOrder
      <4>1. PICK r \in ManualRequests :
               ManualPasses(r, paused \ {"safety"}, PaperTotal(paper, day)) /\ Submit(r, FALSE)
        BY <3>3 DEF UiOrder
      <4>2. journal' = journal
        BY <3>3 DEF UiOrder
      <4>. QED BY <4>1, <4>2, ManualOK, SubmitOK DEF RowsStep, LiveTypeOK
    <3>. QED BY <1>3, <3>1, <3>2, <3>3
  <2>2. orders' \in Seq(Order)
    BY <2>1, FilledGrow DEF LiveTypeOK
  <2>3. UNCHANGED <<scope, day, mode, paused, paper, page>>
    BY <1>3 DEF ConsoleOrder, TelegramOrder, UiOrder
  <2>. QED BY <2>1, <2>2, <2>3 DEF LiveTypeOK, PaperStep, Days
<1>4. ASSUME NEW i \in DOMAIN orders, FillHalf(i) \/ Fill(i) \/ Cancel(i)
      PROVE  LiveTypeOK' /\ RowsStep /\ PaperStep
  <2>1. thb' \in Int /\ coins' \in [Pairs -> Nat] /\ RowsStep
    BY <1>4, ExchangeOK
  <2>2. orders' \in Seq(Order)
    BY <2>1, FilledGrow DEF LiveTypeOK
  <2>3. UNCHANGED <<scope, day, mode, paused, paper, journal, page>>
    BY <1>4 DEF FillHalf, Fill, Cancel
  <2>. QED BY <2>1, <2>2, <2>3 DEF LiveTypeOK, PaperStep, Days
<1>5. CASE Midnight \/ SwitchMode \/ Pauses
  <2>1. UNCHANGED <<scope, thb, coins, orders, paper, journal, page>>
    BY <1>5 DEF Midnight, SwitchMode, Pauses
  <2>2. day' \in Days /\ mode' \in Modes /\ paused' \subseteq {"manual", "safety"}
    <3>1. CASE Midnight
      <4>1. scope.days \in 1..MaxDay /\ day \in 1..MaxDay /\ MaxDay \in Nat
        BY DaysAssumption DEF LiveTypeOK, Scope, Days
      <4>. QED BY <3>1, <4>1 DEF Midnight, LiveTypeOK, Days
    <3>2. CASE SwitchMode
      BY <3>2 DEF SwitchMode, LiveTypeOK, Scope
    <3>3. CASE Pauses
      BY <3>3 DEF Pauses, LiveTypeOK
    <3>. QED BY <1>5, <3>1, <3>2, <3>3
  <2>. QED BY <2>1, <2>2 DEF LiveTypeOK, RowsStep, PaperStep, Days
<1>6. CASE ReadHistory \/ RefreshPaper \/ RefreshLive \/ Show
  <2>1. UNCHANGED <<scope, day, mode, paused, thb, coins, orders, paper, total, journal>>
    BY <1>6 DEF ReadHistory, RefreshPaper, RefreshLive, Show
  <2>2. page'.at \in {"none", "read", "paper", "live", "shown"}
    BY <1>6 DEF ReadHistory, RefreshPaper, RefreshLive, Show
  <2>. QED BY <2>1, <2>2 DEF LiveTypeOK, RowsStep, PaperStep, Days
<1>7. CASE UNCHANGED live
  BY <1>7 DEF live, LiveTypeOK, RowsStep, PaperStep, Days
<1>. QED BY <1>1, <1>2, <1>3, <1>4, <1>5, <1>6, <1>7 DEF LiveNext

LEMMA LiveStarts == LiveInit => LiveTypeOK
<1>. SUFFICES ASSUME LiveInit PROVE LiveTypeOK
  OBVIOUS
<1>1. scope \in Scope /\ mode \in Modes /\ day \in Days
  BY DaysAssumption DEF LiveInit, Scope, Days
<1>2. thb \in Int /\ coins \in [Pairs -> Nat] /\ paused \subseteq {"manual", "safety"}
  BY AmountsAssumption DEF LiveInit
<1>3. orders \in Seq(Order) /\ paper \in Seq([day : Days, pnl : Int, fee : Nat])
  BY DEF LiveInit
<1>4. /\ journal \in [sym : Pairs \cup {0}, side : {"none", "buy", "sell"}]
      /\ page.at \in {"none", "read", "paper", "live", "shown"}
  BY DEF LiveInit, NoRequest, NoPage
<1>. QED BY <1>1, <1>2, <1>3, <1>4 DEF LiveTypeOK

\* The account, its rows and what the page is about are always well formed: the
\* guards of the sales see to it that no order, of whatever origin and in
\* whatever mode, reserves coins that the account does not have.
THEOREM AccountTypeCorrect == LiveSpec => []LiveTypeOK
<1>1. LiveTypeOK /\ [LiveNext]_live => LiveTypeOK'
  BY StepOK
<1>. QED BY LiveStarts, <1>1, PTL DEF LiveSpec

-----------------------------------------------------------------------------
(* The reports page.                                                       *)

\* A report was made of no more filled rows than another, and if of as many it
\* says the same.
NoNewer(report, other) ==
    /\ report.filled \in Nat /\ report.filled <= other.filled
    /\ report.filled = other.filled =>
          \A d \in Days : report.days[d].trades = other.days[d].trades
                         /\ report.days[d].pnl = other.days[d].pnl

NoMoreSales(days, others) ==
    \A d \in Days : days[d].trades \in Nat /\ days[d].trades <= others[d].trades

\* What the page has read is not newer than what it will read next.
PageInv ==
    /\ LiveTypeOK
    /\ page.at \in {"read", "paper"} => NoNewer(page.live, MetricsReport)
    /\ page.at \in {"paper", "live"} => NoMoreSales(page.metricsPaper, PaperReport)
    /\ page.at \in {"live", "shown"} => NoNewer(page.live, page.metrics)
    /\ page.at = "shown" => NoMoreSales(page.metricsPaper, page.paper)

\* The two reports of one moment differ in their fees alone.
LEMMA SameMoment ==
    ASSUME orders \in Seq(Order)
    PROVE  NoNewer(LiveReport, MetricsReport)
<1>1. Cardinality(DOMAIN FilledRows(orders)) \in Nat
  BY FilledDomain
<1>. QED BY <1>1 DEF NoNewer, LiveReport, MetricsReport, LiveDay, MetricsDay, TradesDay

\* What is not newer than a report is not newer than the next one.
LEMMA StaysNoNewer ==
    ASSUME orders \in Seq(Order), RowsStep, NEW report, NoNewer(report, MetricsReport)
    PROVE  NoNewer(report, MetricsReport')
<1>1. /\ MetricsReport.filled = Cardinality(DOMAIN FilledRows(orders))
      /\ MetricsReport'.filled = Cardinality(DOMAIN FilledRows(orders'))
  BY DEF MetricsReport
<1>2. /\ Cardinality(DOMAIN FilledRows(orders)) \in Nat
      /\ Cardinality(DOMAIN FilledRows(orders')) \in Nat
  BY FilledDomain, FilledGrow
<1>3. CASE FilledRows(orders') = FilledRows(orders)
  <2>1. MetricsReport' = MetricsReport
    BY <1>3 DEF MetricsReport
  <2>. QED BY <2>1
<1>4. CASE Cardinality(DOMAIN FilledRows(orders)) < Cardinality(DOMAIN FilledRows(orders'))
  BY <1>1, <1>2, <1>4 DEF NoNewer
<1>. QED BY <1>3, <1>4, FilledGrow

\* So many paper trades of a day there will be.
LEMMA SalesGrow ==
    ASSUME paper \in Seq(Sale), PaperStep
    PROVE  /\ NoMoreSales(PaperReport, PaperReport)
           /\ NoMoreSales(PaperReport, PaperReport')
           /\ NoMoreSales(PaperReport', PaperReport')
<1>1. ASSUME NEW rows \in Seq(Sale), NEW d
      PROVE  IsFiniteSet(OfDay(d, rows)) /\ Cardinality(OfDay(d, rows)) \in Nat
  <2>1. DOMAIN rows = 1..Len(rows) /\ Len(rows) \in Nat
    OBVIOUS
  <2>2. IsFiniteSet(DOMAIN rows)
    BY <2>1, FS_Interval
  <2>3. OfDay(d, rows) \subseteq DOMAIN rows
    BY DEF OfDay
  <2>. QED BY <2>2, <2>3, FS_Subset, FS_CardinalityType
<1>2. paper' \in Seq(Sale)
  BY AppendOne DEF PaperStep
<1>3. ASSUME NEW d PROVE OfDay(d, paper) \subseteq OfDay(d, paper')
  <2>1. DOMAIN paper \subseteq DOMAIN paper' /\ \A i \in DOMAIN paper : paper'[i] = paper[i]
    <3>1. CASE paper' = paper
      BY <3>1
    <3>2. ASSUME NEW sale \in Sale, paper' = Append(paper, sale)
          PROVE  DOMAIN paper \subseteq DOMAIN paper' /\ \A i \in DOMAIN paper : paper'[i] = paper[i]
      <4>1. /\ DOMAIN paper = 1..Len(paper) /\ Len(paper) \in Nat /\ DOMAIN paper' = 1..Len(paper) + 1
            /\ \A i \in DOMAIN paper : paper'[i] = paper[i]
        BY <3>2, AppendOne
      <4>. QED BY <4>1
    <3>. QED BY <3>1, <3>2 DEF PaperStep
  <2>. QED BY <2>1 DEF OfDay
<1>4. ASSUME NEW d
      PROVE  /\ Cardinality(OfDay(d, paper)) \in Nat
             /\ Cardinality(OfDay(d, paper')) \in Nat
             /\ Cardinality(OfDay(d, paper)) <= Cardinality(OfDay(d, paper'))
  BY <1>1, <1>2, <1>3, FS_Subset
<1>5. \A d \in Days : /\ PaperReport[d].trades = Cardinality(OfDay(d, paper))
                     /\ PaperReport'[d].trades = Cardinality(OfDay(d, paper'))
  BY DEF PaperReport, PaperDay, TradesDay, Days
<1>. QED BY <1>4, <1>5 DEF NoMoreSales

LEMMA PageStep ==
    ASSUME PageInv, [LiveNext]_live
    PROVE  PageInv'
<1>1. LiveTypeOK /\ LiveTypeOK' /\ RowsStep /\ PaperStep
  BY StepOK DEF PageInv
<1>2. orders \in Seq(Order) /\ paper \in Seq(Sale)
  BY <1>1 DEF LiveTypeOK, Sale
<1>3. ASSUME NEW report, NoNewer(report, MetricsReport) PROVE NoNewer(report, MetricsReport')
  BY <1>1, <1>2, <1>3, StaysNoNewer
<1>4. ASSUME NEW days, NoMoreSales(days, PaperReport) PROVE NoMoreSales(days, PaperReport')
  <2>1. NoMoreSales(PaperReport, PaperReport')
    BY <1>1, <1>2, SalesGrow
  <2>2. ASSUME NEW d \in Days
        PROVE  days[d].trades \in Nat /\ days[d].trades <= PaperReport'[d].trades
    <3>1. PICK many \in Nat : many = PaperReport[d].trades /\ many <= PaperReport'[d].trades
      BY <2>1 DEF NoMoreSales
    <3>2. PaperReport'[d].trades \in Nat
      BY <1>1, <1>2, SalesGrow DEF NoMoreSales
    <3>. QED BY <1>4, <3>1, <3>2 DEF NoMoreSales
  <2>. QED BY <2>2 DEF NoMoreSales
<1>5. CASE page' = page
  BY <1>1, <1>3, <1>4, <1>5 DEF PageInv
<1>6. CASE ReadHistory
  <2>1. page'.at = "read" /\ page'.live = LiveReport /\ orders' = orders
    BY <1>6 DEF ReadHistory
  <2>2. NoNewer(page'.live, MetricsReport')
    BY <1>2, <1>3, <2>1, SameMoment
  <2>. QED BY <1>1, <2>1, <2>2 DEF PageInv
<1>7. CASE RefreshPaper
  <2>1. /\ page.at = "read" /\ page'.at = "paper" /\ page'.live = page.live
        /\ page'.metricsPaper = PaperReport
    BY <1>7 DEF RefreshPaper
  <2>2. NoNewer(page'.live, MetricsReport')
    BY <1>3, <2>1 DEF PageInv
  <2>3. NoMoreSales(page'.metricsPaper, PaperReport')
    BY <1>1, <1>2, <2>1, SalesGrow
  <2>. QED BY <1>1, <2>1, <2>2, <2>3 DEF PageInv
<1>8. CASE RefreshLive
  <2>1. /\ page.at = "paper" /\ page'.at = "live" /\ page'.live = page.live
        /\ page'.metricsPaper = page.metricsPaper /\ page'.metrics = MetricsReport
    BY <1>8 DEF RefreshLive
  <2>2. NoNewer(page'.live, page'.metrics)
    BY <2>1 DEF PageInv
  <2>3. NoMoreSales(page'.metricsPaper, PaperReport')
    BY <1>4, <2>1 DEF PageInv
  <2>. QED BY <1>1, <2>1, <2>2, <2>3 DEF PageInv
<1>9. CASE Show
  <2>1. /\ page.at = "live" /\ page'.at = "shown" /\ page'.live = page.live
        /\ page'.metricsPaper = page.metricsPaper /\ page'.metrics = page.metrics
        /\ page'.paper = PaperReport
    BY <1>9 DEF Show
  <2>2. NoNewer(page'.live, page'.metrics)
    BY <2>1 DEF PageInv
  <2>3. NoMoreSales(page'.metricsPaper, page'.paper)
    BY <2>1 DEF PageInv
  <2>. QED BY <1>1, <2>1, <2>2, <2>3 DEF PageInv
<1>. QED
  <2>1. \/ page' = page
        \/ ReadHistory \/ RefreshPaper \/ RefreshLive \/ Show
    BY DEF LiveNext, live, Loop, LoopWithoutOrders, ConsoleOrder, TelegramOrder, UiOrder, FillHalf,
           Fill, Cancel, Midnight, SwitchMode, Pauses
  <2>. QED BY <1>5, <1>6, <1>7, <1>8, <1>9, <2>1

\* A shown page agrees with itself, however the orders and paper sales of the
\* other process fall between its reads.
THEOREM PagesAgree == LiveSpec => []PageAgrees
<1>1. LiveInit => PageInv
  BY LiveStarts DEF LiveInit, NoPage, PageInv
<1>2. PageInv /\ [LiveNext]_live => PageInv'
  BY PageStep
<1>3. PageInv => PageAgrees
  BY DEF PageInv, PageAgrees, NoNewer, NoMoreSales
<1>. QED BY <1>1, <1>2, <1>3, PTL DEF LiveSpec

-----------------------------------------------------------------------------
(* The books.                                                              *)

\* Rows of which books can be made: a buy is of the amount, at prices, and executed at
\* none that is higher; what is filled was executed at last; and half of a first half's
\* coins is a whole number.
BookRow ==
    {row \in Order :
        /\ row.side = "buy" =>
              /\ row.rate \in Prices /\ row.amt = Budget
              /\ row.part \in Prices \cup {0} /\ row.part <= row.rate
              /\ row.last \in Prices \cup {0} /\ row.last <= row.rate
        /\ row.state = "filled" \/ row.told = "executions" => row.last # 0
        /\ row.part # 0 => Halves(row, row.part)}

Trade == [day : Nat, fee : Int, pnl : Int]

Trades == UNION {[D -> Trade] : D \in SUBSET Nat}

BookSet == [lots : [Pairs -> Seq(Lot)], closed : Trades]

LEMMA TradesOK ==
    /\ \A D \in SUBSET Nat : \A f \in [D -> Trade] : f \in Trades
    /\ \A f \in Trades : DOMAIN f \in SUBSET Nat /\ f \in [DOMAIN f -> Trade]
<1>1. ASSUME NEW D \in SUBSET Nat, NEW f \in [D -> Trade] PROVE f \in Trades
  BY DEF Trades
<1>2. ASSUME NEW f \in Trades PROVE DOMAIN f \in SUBSET Nat /\ f \in [DOMAIN f -> Trade]
  <2>1. PICK D \in SUBSET Nat : f \in [D -> Trade]
    BY DEF Trades
  <2>2. DOMAIN f = D
    BY <2>1
  <2>. QED BY <2>1, <2>2
<1>. QED BY <1>1, <1>2

LEMMA MinOfTwo ==
    ASSUME NEW a \in Nat, NEW b \in Nat
    PROVE  Min({a, b}) = IF a <= b THEN a ELSE b
  BY DEF Min

\* What the books take of a row is a rate and a fee, and of a buy a coin in the lots.
LEMMA BookOK ==
    ASSUME NEW row \in BookRow
    PROVE  /\ BookRate(row) \in Nat \ {0} /\ BookFee(row) \in Nat
           /\ row.side = "buy" => LotOf(row) \in Lot /\ LotOf(row).fee = BookFee(row)
<1>1. /\ row.rate \in Nat \ {0} /\ row.last \in Nat /\ row.told \in Tellings /\ BuyFee \in Nat /\ SellFee \in Nat
      /\ row.told = "executions" => row.last # 0
      /\ row.side = "buy" => row.rate \in Prices /\ row.last \in Prices \cup {0}
  BY AmountsAssumption DEF BookRow, Order
<1>2. BookRate(row) \in Nat \ {0} /\ (row.side = "buy" => BookRate(row) \in Prices)
  BY <1>1 DEF BookRate
<1>3. BookFee(row) \in Nat /\ (row.side = "buy" => BookFee(row) \in {0, BuyFee})
  BY <1>1 DEF BookFee
<1>. QED BY <1>2, <1>3 DEF LotOf, Lot

\* What the shares of the coins of a sequence of lots are.
Shares(kind, lot) == IF kind = "cost" THEN CoinCost(lot) ELSE CoinFee(lot)
Worth(kind, lots) == SumOf([c \in DOMAIN lots |-> Shares(kind, lots[c])])

LEMMA WorthIs ==
    ASSUME NEW lots PROVE CostOf(lots) = Worth("cost", lots) /\ FeeOf(lots) = Worth("fee", lots)
  BY DEF CostOf, FeeOf, Worth, Shares

\* The shares of a coin are whole.
LEMMA SharesOK ==
    ASSUME NEW lot \in Lot, NEW kind
    PROVE  /\ Shares(kind, lot) \in Int /\ LotCoins(lot) \in Nat \ {0}
           /\ LotCoins(lot) * Shares(kind, lot) = IF kind = "cost" THEN Budget ELSE lot.fee
<1>1. lot.rate \in Prices /\ lot.fee \in {0, BuyFee} /\ lot.fee \in Nat /\ Budget \in Nat
  BY AmountsAssumption DEF Lot
<1>2. LotCoins(lot) \in Nat \ {0}
  <2>1. Qty(lot.rate) \in Nat \ {0} /\ Budget \div lot.rate >= Qty(lot.rate)
    BY <1>1, QtyOK
  <2>2. CASE lot.fee = BuyFee
    <3>1. LotCoins(lot) = Qty(lot.rate)
      BY <2>2 DEF LotCoins, Qty
    <3>. QED BY <2>1, <3>1
  <2>3. CASE lot.fee = 0
    <3>1. LotCoins(lot) = Budget \div lot.rate
      BY <1>1, <2>3 DEF LotCoins
    <3>2. Budget \div lot.rate \in Int
      <4>1. PICK rate \in Nat \ {0}, budget \in Nat : rate = lot.rate /\ budget = Budget
        BY <1>1, AmountsAssumption
      <4>2. budget \div rate \in Int
        OBVIOUS
      <4>. QED BY <4>1, <4>2
    <3>3. PICK a \in Int, b \in Nat \ {0} : a = Budget \div lot.rate /\ b = Qty(lot.rate) /\ a >= b
      BY <2>1, <3>2
    <3>4. a \in Nat \ {0}
      BY <3>3
    <3>. QED BY <3>1, <3>3, <3>4
  <2>. QED BY <1>1, <2>2, <2>3
<1>3. Budget % LotCoins(lot) = 0 /\ lot.fee % LotCoins(lot) = 0
  BY SharesAssumption
<1>4. \A a \in Nat, n \in Nat \ {0} : a \div n \in Int /\ (a % n = 0 => n * (a \div n) = a)
  OBVIOUS
<1>5. CoinCost(lot) \in Int /\ CoinFee(lot) \in Int
  BY <1>1, <1>2, <1>4 DEF CoinCost, CoinFee
<1>6. LotCoins(lot) * CoinCost(lot) = Budget /\ LotCoins(lot) * CoinFee(lot) = lot.fee
  BY <1>1, <1>2, <1>3, <1>4 DEF CoinCost, CoinFee
<1>. QED BY <1>2, <1>5, <1>6 DEF Shares

LEMMA WorthType ==
    ASSUME NEW lots \in Seq(Lot), NEW kind
    PROVE  LET shares == [c \in DOMAIN lots |-> Shares(kind, lots[c])] IN
           /\ Summable(shares) /\ Worth(kind, lots) = SumsOf(shares)[Len(lots)] /\ Worth(kind, lots) \in Int
           /\ \A c \in 1..Len(lots) : At(shares, c) = Shares(kind, lots[c])
<1>. DEFINE shares == [c \in DOMAIN lots |-> Shares(kind, lots[c])]
<1>1. DOMAIN lots = 1..Len(lots) /\ Len(lots) \in Nat /\ \A c \in 1..Len(lots) : lots[c] \in Lot
  OBVIOUS
<1>2. DOMAIN shares = 1..Len(lots) /\ \A c \in 1..Len(lots) : shares[c] \in Int /\ shares[c] = Shares(kind, lots[c])
  BY <1>1, SharesOK
<1>3. Summable(shares)
  <2>. HIDE DEF shares
  <2>. QED BY <1>1, <1>2 DEF Summable
<1>4. SumOf(shares) = SumsOf(shares)[Len(lots)] /\ SumOf(shares) \in Int
  <2>. HIDE DEF shares
  <2>. QED BY <1>1, <1>2, <1>3, SumReached
<1>5. \A c \in 1..Len(lots) : At(shares, c) = Shares(kind, lots[c])
  <2>. HIDE DEF shares
  <2>. QED BY <1>2 DEF At
<1>. QED BY <1>3, <1>4, <1>5 DEF Worth

\* How many coins a sell takes out of the lots, and what a row leaves there.
Taken(row, lots) == IF row.amt <= Len(lots) THEN row.amt ELSE Len(lots)
LotsAfter(row, lots) ==
    IF row.side = "buy" THEN lots \o LotsOf(row)
    ELSE SubSeq(lots, Taken(row, lots) + 1, Len(lots))

LEMMA LotsAfterOK ==
    ASSUME NEW row \in BookRow, NEW lots \in Seq(Lot)
    PROVE  /\ LotsAfter(row, lots) \in Seq(Lot)
           /\ Taken(row, lots) \in 0..Len(lots) /\ Min({row.amt, Len(lots)}) = Taken(row, lots)
           /\ lots # <<>> => Taken(row, lots) > 0
           /\ row.side = "sell" /\ lots = <<>> => LotsAfter(row, lots) = <<>>
           /\ SubSeq(lots, 1, Taken(row, lots)) \in Seq(Lot)
           /\ Len(SubSeq(lots, 1, Taken(row, lots))) = Taken(row, lots)
           /\ \A c \in 1..Taken(row, lots) : SubSeq(lots, 1, Taken(row, lots))[c] = lots[c]
           /\ row.side = "buy" =>
                /\ Len(LotsAfter(row, lots)) = Len(lots) + LotCoins(LotOf(row))
                /\ \A c \in 1..Len(lots) : LotsAfter(row, lots)[c] = lots[c]
                /\ \A c \in 1..LotCoins(LotOf(row)) : LotsAfter(row, lots)[Len(lots) + c] = LotOf(row)
           /\ row.side = "sell" =>
                /\ Len(LotsAfter(row, lots)) = Len(lots) - Taken(row, lots)
                /\ \A c \in 1..(Len(lots) - Taken(row, lots)) :
                      LotsAfter(row, lots)[c] = lots[Taken(row, lots) + c]
<1>1. row.amt \in Nat \ {0} /\ row.side \in {"buy", "sell"} /\ Len(lots) \in Nat
  BY DEF BookRow, Order
<1>2. Taken(row, lots) \in 0..Len(lots) /\ Min({row.amt, Len(lots)}) = Taken(row, lots)
  BY <1>1, MinOfTwo DEF Taken
<1>3. lots # <<>> => Taken(row, lots) > 0
  BY <1>1 DEF Taken
<1>4. PICK n \in 0..Len(lots) : n = Taken(row, lots)
  BY <1>2
<1>5. /\ SubSeq(lots, 1, n) \in Seq(Lot) /\ Len(SubSeq(lots, 1, n)) = n
      /\ \A c \in 1..n : SubSeq(lots, 1, n)[c] = lots[c]
  BY <1>1
<1>6. /\ SubSeq(lots, n + 1, Len(lots)) \in Seq(Lot) /\ Len(SubSeq(lots, n + 1, Len(lots))) = Len(lots) - n
      /\ \A c \in 1..(Len(lots) - n) : SubSeq(lots, n + 1, Len(lots))[c] = lots[n + c]
  BY <1>1
<1>7. CASE row.side = "buy"
  <2>1. PICK lot \in Lot, n1 \in Nat : lot = LotOf(row) /\ n1 = LotCoins(lot)
    BY <1>7, BookOK, SharesOK
  <2>. DEFINE new == [c \in 1..n1 |-> lot]
  <2>2. new \in Seq(Lot) /\ Len(new) = n1 /\ \A c \in 1..n1 : new[c] = lot
    BY <2>1
  <2>5. new = LotsOf(row)
    BY <2>1 DEF LotsOf
  <2>. HIDE DEF new
  <2>3. /\ lots \o new \in Seq(Lot) /\ Len(lots \o new) = Len(lots) + n1
        /\ \A c \in 1..Len(lots) : (lots \o new)[c] = lots[c]
        /\ \A c \in 1..n1 : (lots \o new)[Len(lots) + c] = lot
    BY <1>1, <2>2
  <2>4. LotsAfter(row, lots) = lots \o new
    BY <1>7, <2>5 DEF LotsAfter
  <2>. QED BY <1>2, <1>3, <1>4, <1>5, <1>7, <2>1, <2>3, <2>4
<1>8. CASE row.side # "buy"
  <2>1. LotsAfter(row, lots) = SubSeq(lots, n + 1, Len(lots))
    BY <1>4, <1>8 DEF LotsAfter
  <2>2. lots = <<>> => LotsAfter(row, lots) = <<>>
    BY <1>6, <2>1
  <2>. QED BY <1>2, <1>3, <1>4, <1>5, <1>6, <1>8, <2>1, <2>2
<1>. QED BY <1>7, <1>8

\* A trade that a sell closes is well formed.
LEMMA ClosedOK ==
    ASSUME NEW row \in BookRow, NEW lots \in Seq(Lot)
    PROVE  LET sold == SubSeq(lots, 1, Taken(row, lots)) IN
           /\ Closed(row, lots) \in Trade
           /\ Closed(row, lots).day = row.day
           /\ Closed(row, lots).fee = BookFee(row) + Worth("fee", sold)
           /\ Closed(row, lots).pnl = Taken(row, lots) * BookRate(row) - BookFee(row) - Worth("cost", sold)
<1>. DEFINE sold == SubSeq(lots, 1, Taken(row, lots))
<1>1. /\ sold \in Seq(Lot) /\ Taken(row, lots) \in Nat
      /\ Min({row.amt, Len(lots)}) = Taken(row, lots)
  <2>1. Len(lots) \in Nat
    OBVIOUS
  <2>2. SubSeq(lots, 1, Taken(row, lots)) \in Seq(Lot) /\ Taken(row, lots) \in 0..Len(lots)
        /\ Min({row.amt, Len(lots)}) = Taken(row, lots)
    BY LotsAfterOK
  <2>. QED BY <2>1, <2>2
<1>2. Closed(row, lots) = [day |-> row.day, fee |-> BookFee(row) + FeeOf(sold),
                           pnl |-> Taken(row, lots) * BookRate(row) - BookFee(row) - CostOf(sold)]
  BY <1>1 DEF Closed
<1>. HIDE DEF sold
<1>3. Worth("fee", sold) \in Int /\ Worth("cost", sold) \in Int
  BY <1>1, WorthType
<1>4. row.day \in Nat /\ BookRate(row) \in Nat /\ BookFee(row) \in Nat
  BY BookOK, DaysAssumption DEF BookRow, Order
<1>5. Taken(row, lots) * BookRate(row) \in Nat
  <2>1. PICK a \in Nat, b \in Nat : a = Taken(row, lots) /\ b = BookRate(row)
    BY <1>1, <1>4
  <2>2. a * b \in Nat
    OBVIOUS
  <2>. QED BY <2>1, <2>2
<1>6. /\ BookFee(row) + Worth("fee", sold) \in Int
      /\ Taken(row, lots) * BookRate(row) - BookFee(row) - Worth("cost", sold) \in Int
  BY <1>3, <1>4, <1>5
<1>7. Closed(row, lots) = [day |-> row.day, fee |-> BookFee(row) + Worth("fee", sold),
                           pnl |-> Taken(row, lots) * BookRate(row) - BookFee(row) - Worth("cost", sold)]
  BY <1>2, WorthIs
<1>. QED BY <1>4, <1>6, <1>7 DEF sold, Trade

\* What entering a row does: to the lots of its symbol, and to the closed trades.
LEMMA EnterRowOK ==
    ASSUME NEW books \in BookSet, NEW i \in Nat, NEW row \in BookRow
    PROVE  LET new == EnterRow(books, i, row)
               lots == books.lots[row.sym]
           IN /\ new \in BookSet
              /\ \A s \in Pairs : new.lots[s] = IF s = row.sym THEN LotsAfter(row, lots) ELSE books.lots[s]
              /\ IF row.side = "sell" /\ lots # <<>>
                 THEN /\ DOMAIN new.closed = DOMAIN books.closed \cup {i}
                      /\ new.closed[i] = Closed(row, lots)
                      /\ \A j \in DOMAIN books.closed \ {i} : new.closed[j] = books.closed[j]
                 ELSE new.closed = books.closed
<1>. DEFINE new == EnterRow(books, i, row)
            lots == books.lots[row.sym]
<1>1. /\ row.sym \in Pairs /\ row.side \in {"buy", "sell"}
      /\ books.lots \in [Pairs -> Seq(Lot)] /\ books.closed \in Trades
      /\ books = [lots |-> books.lots, closed |-> books.closed]
  BY DEF BookRow, Order, BookSet
<1>2. lots \in Seq(Lot)
  BY <1>1
<1>3. /\ LotsAfter(row, lots) \in Seq(Lot) /\ Min({row.amt, Len(lots)}) = Taken(row, lots)
      /\ row.side = "sell" /\ lots = <<>> => LotsAfter(row, lots) = <<>>
  BY <1>2, LotsAfterOK
<1>4. Closed(row, lots) \in Trade
  BY <1>2, ClosedOK
<1>5. CASE row.side = "buy"
  <2>1. new = [lots |-> [books.lots EXCEPT ![row.sym] = LotsAfter(row, lots)], closed |-> books.closed]
    BY <1>5 DEF EnterRow, LotsAfter
  <2>. QED BY <1>1, <1>3, <1>5, <2>1 DEF BookSet
<1>6. CASE row.side = "sell" /\ lots = <<>>
  <2>1. new = books
    BY <1>6 DEF EnterRow
  <2>. QED BY <1>1, <1>3, <1>6, <2>1 DEF BookSet
<1>7. CASE row.side = "sell" /\ lots # <<>>
  <2>. DEFINE closed == [j \in {i} \cup DOMAIN books.closed |-> IF j = i THEN Closed(row, lots) ELSE books.closed[j]]
  <2>1. LotsAfter(row, lots) = SubSeq(lots, Min({row.amt, Len(lots)}) + 1, Len(lots))
    BY <1>3, <1>7 DEF LotsAfter
  <2>2. new = [lots |-> [books.lots EXCEPT ![row.sym] = LotsAfter(row, lots)], closed |-> closed]
    BY <1>7, <2>1 DEF EnterRow, Closing
  <2>3. closed \in Trades
    <3>1. DOMAIN books.closed \in SUBSET Nat /\ books.closed \in [DOMAIN books.closed -> Trade]
      BY <1>1, TradesOK
    <3>2. closed \in [{i} \cup DOMAIN books.closed -> Trade] /\ {i} \cup DOMAIN books.closed \in SUBSET Nat
      BY <1>4, <3>1
    <3>. HIDE DEF closed
    <3>. QED BY <3>2, TradesOK
  <2>4. DOMAIN closed = DOMAIN books.closed \cup {i} /\ closed[i] = Closed(row, lots)
        /\ \A j \in DOMAIN books.closed \ {i} : closed[j] = books.closed[j]
    OBVIOUS
  <2>. HIDE DEF closed
  <2>. QED BY <1>1, <1>3, <1>7, <2>2, <2>3, <2>4 DEF BookSet
<1>. QED BY <1>1, <1>5, <1>6, <1>7

\* Filled rows of which books can be made.
Bookable(filled) == (\E n \in Nat : DOMAIN filled \subseteq 1..n) /\ \A i \in DOMAIN filled : filled[i] \in BookRow

LEMMA NoBooksOK ==
    NoBooks \in BookSet /\ DOMAIN NoBooks.closed = {} /\ \A s \in Pairs : NoBooks.lots[s] = <<>>
<1>1. <<>> \in [{} -> Trade] /\ DOMAIN <<>> = {}
  OBVIOUS
<1>2. <<>> \in Trades
  BY <1>1, TradesOK
<1>3. [s \in Pairs |-> <<>>] \in [Pairs -> Seq(Lot)]
  OBVIOUS
<1>. QED BY <1>1, <1>2, <1>3 DEF NoBooks, BookSet

\* The books are what they are said to be, step by step.
LEMMA BooksStep ==
    ASSUME NEW filled, Bookable(filled)
    PROVE  /\ BooksAfter(filled) \in [Nat -> BookSet] /\ BooksAfter(filled)[0] = NoBooks
           /\ \A n \in Nat \ {0} :
                 BooksAfter(filled)[n] =
                    IF n \in DOMAIN filled THEN EnterRow(BooksAfter(filled)[n - 1], n, filled[n])
                    ELSE BooksAfter(filled)[n - 1]
<1>. DEFINE Next1(b, n) == IF n \in DOMAIN filled THEN EnterRow(b, n, filled[n]) ELSE b
            step == [n \in Nat |-> [b \in BookSet |-> Next1(b, n)]]
            After(h) == h = [n \in Nat |-> IF n = 0 THEN NoBooks ELSE Next1(h[n - 1], n)]
<1>0. \A n \in Nat, b \in BookSet : Next1(b, n) \in BookSet
  BY EnterRowOK DEF Bookable
<1>1. step \in [Nat -> [BookSet -> BookSet]] /\ \A n \in Nat, b \in BookSet : step[n][b] = Next1(b, n)
  <2>. HIDE DEF Next1
  <2>. QED BY <1>0
<1>2. PICK g \in [Nat -> BookSet] : g[0] = NoBooks /\ \A n \in Nat \ {0} : g[n] = step[n][g[n - 1]]
  <2>. HIDE DEF step
  <2>1. \E g \in [Nat -> BookSet] : Recursive(g, NoBooks, step)
    BY <1>1, NoBooksOK, Recursion, Zenon
  <2>. QED BY <2>1 DEF Recursive
<1>. HIDE DEF step
<1>3. After(g)
  <2>. HIDE DEF Next1
  <2>1. ASSUME NEW n \in Nat PROVE g[n] = IF n = 0 THEN NoBooks ELSE Next1(g[n - 1], n)
    <3>1. CASE n = 0
      BY <1>2, <3>1
    <3>2. CASE n # 0
      <4>1. n - 1 \in Nat /\ g[n - 1] \in BookSet
        BY <3>2
      <4>. QED BY <1>1, <1>2, <3>2, <4>1
    <3>. QED BY <3>1, <3>2
  <2>. QED BY <2>1
<1>4. After(BooksAfter(filled))
  <2>1. BooksAfter(filled) = CHOOSE h : After(h)
    BY DEF BooksAfter
  <2>. HIDE DEF After
  <2>. QED BY <1>3, <2>1, Zenon
<1>. DEFINE a == BooksAfter(filled)
<1>5. \A n \in Nat : a[n] = IF n = 0 THEN NoBooks ELSE Next1(a[n - 1], n)
  <2>. HIDE DEF Next1
  <2>. QED BY <1>4
<1>. HIDE DEF a
<1>6. a \in [Nat -> BookSet]
  <2>. HIDE DEF Next1
  <2>. DEFINE T == {n \in Nat : a[n] \in BookSet}
  <2>1. 0 \in T
    BY <1>5, NoBooksOK
  <2>2. ASSUME NEW n \in Nat, n \in T PROVE n + 1 \in T
    <3>1. n + 1 \in Nat /\ n + 1 # 0 /\ (n + 1) - 1 = n
      OBVIOUS
    <3>2. a[n + 1] = Next1(a[n], n + 1)
      BY <1>5, <3>1
    <3>. QED BY <1>0, <2>2, <3>1, <3>2
  <2>3. Nat \subseteq T
    <3>. HIDE DEF T
    <3>. QED BY <2>1, <2>2, Induct
  <2>4. a = [n \in Nat |-> a[n]]
    BY <1>4 DEF a
  <2>. QED BY <2>3, <2>4
<1>7. a[0] = NoBooks /\ \A n \in Nat \ {0} : a[n] = Next1(a[n - 1], n)
  <2>. HIDE DEF Next1
  <2>. QED BY <1>5
<1>. QED BY <1>6, <1>7 DEF a

LEMMA BooksNext ==
    ASSUME NEW filled, Bookable(filled), NEW n \in Nat
    PROVE  /\ BooksAfter(filled)[n] \in BookSet /\ BooksAfter(filled)[0] = NoBooks
           /\ n + 1 \in DOMAIN filled =>
                 BooksAfter(filled)[n + 1] = EnterRow(BooksAfter(filled)[n], n + 1, filled[n + 1])
           /\ n + 1 \notin DOMAIN filled => BooksAfter(filled)[n + 1] = BooksAfter(filled)[n]
<1>1. n + 1 \in Nat \ {0} /\ (n + 1) - 1 = n
  OBVIOUS
<1>. QED BY <1>1, BooksStep

\* All rows are entered at any number beyond them.
LEMMA BooksReached ==
    ASSUME NEW filled, Bookable(filled), NEW n \in Nat, DOMAIN filled \subseteq 1..n
    PROVE  Books(filled) = BooksAfter(filled)[n]
<1>. DEFINE m == Max(DOMAIN filled \cup {0})
            T == {k \in Nat : BooksAfter(filled)[m + k] = BooksAfter(filled)[m]}
<1>1. m \in 0..n /\ \A x \in DOMAIN filled : x \in Nat /\ x <= m
  <2>1. DOMAIN filled \cup {0} \subseteq 0..n /\ DOMAIN filled \cup {0} # {}
    OBVIOUS
  <2>. QED BY <2>1, MaxIsGreatest
<1>. HIDE DEF m
<1>2. 0 \in T
  BY <1>1
<1>3. ASSUME NEW k \in Nat, k \in T PROVE k + 1 \in T
  <2>1. m + k \in Nat /\ (m + k) + 1 = m + (k + 1) /\ (m + k) + 1 \notin DOMAIN filled
    BY <1>1
  <2>2. BooksAfter(filled)[m + (k + 1)] = BooksAfter(filled)[m + k]
    BY <2>1, BooksNext
  <2>. QED BY <1>3, <2>2
<1>4. Nat \subseteq T
  <2>. HIDE DEF T
  <2>. QED BY <1>2, <1>3, Induct
<1>5. n - m \in Nat /\ m + (n - m) = n
  BY <1>1
<1>6. BooksAfter(filled)[n] = BooksAfter(filled)[m]
  BY <1>4, <1>5
<1>. QED BY <1>6 DEF Books, m

\* What one more row changes in the books: the lots of its symbol.
LEMMA LotsNext ==
    ASSUME NEW filled, Bookable(filled), NEW n \in Nat, NEW s \in Pairs
    PROVE  LET lots == BooksAfter(filled)[n].lots[s]
               next == BooksAfter(filled)[n + 1].lots[s]
           IN /\ lots \in Seq(Lot)
              /\ n + 1 \in DOMAIN filled /\ filled[n + 1].sym = s => next = LotsAfter(filled[n + 1], lots)
              /\ ~(n + 1 \in DOMAIN filled /\ filled[n + 1].sym = s) => next = lots
<1>. DEFINE books == BooksAfter(filled)[n]
<1>1. books \in BookSet /\ books.lots[s] \in Seq(Lot)
  BY BooksNext DEF BookSet
<1>2. CASE n + 1 \in DOMAIN filled
  <2>1. filled[n + 1] \in BookRow /\ n + 1 \in Nat
    BY <1>2 DEF Bookable
  <2>2. BooksAfter(filled)[n + 1] = EnterRow(books, n + 1, filled[n + 1])
    BY <1>2, BooksNext
  <2>3. BooksAfter(filled)[n + 1].lots[s]
           = IF s = filled[n + 1].sym THEN LotsAfter(filled[n + 1], books.lots[filled[n + 1].sym]) ELSE books.lots[s]
    <3>. HIDE DEF books
    <3>1. \A t \in Pairs :
             EnterRow(books, n + 1, filled[n + 1]).lots[t]
                = IF t = filled[n + 1].sym THEN LotsAfter(filled[n + 1], books.lots[filled[n + 1].sym])
                  ELSE books.lots[t]
      BY <1>1, <2>1, EnterRowOK
    <3>. QED BY <2>2, <3>1
  <2>4. CASE filled[n + 1].sym = s
    <3>1. BooksAfter(filled)[n + 1].lots[s] = LotsAfter(filled[n + 1], books.lots[s])
      BY <2>3, <2>4
    <3>. QED BY <1>1, <1>2, <2>4, <3>1
  <2>5. CASE filled[n + 1].sym # s
    <3>1. BooksAfter(filled)[n + 1].lots[s] = books.lots[s]
      BY <2>3, <2>5
    <3>. QED BY <1>1, <2>5, <3>1
  <2>. QED BY <2>4, <2>5
<1>3. CASE n + 1 \notin DOMAIN filled
  BY <1>1, <1>3, BooksNext
<1>. QED BY <1>2, <1>3

\* A row closes a trade or none.
Closes(filled, n) ==
    /\ n + 1 \in DOMAIN filled /\ filled[n + 1].side = "sell"
    /\ BooksAfter(filled)[n].lots[filled[n + 1].sym] # <<>>

LEMMA ClosedNext ==
    ASSUME NEW filled, Bookable(filled), NEW n \in Nat
    PROVE  LET closed == BooksAfter(filled)[n].closed
               next == BooksAfter(filled)[n + 1].closed
               row == filled[n + 1]
           IN /\ DOMAIN closed \subseteq 1..n /\ \A i \in DOMAIN closed : closed[i] \in Trade
              /\ Closes(filled, n) =>
                   /\ DOMAIN next = DOMAIN closed \cup {n + 1} /\ n + 1 \notin DOMAIN closed
                   /\ next[n + 1] = Closed(row, BooksAfter(filled)[n].lots[row.sym])
                   /\ \A i \in DOMAIN closed : next[i] = closed[i]
              /\ ~Closes(filled, n) => next = closed
<1>1. ASSUME NEW k \in Nat
      PROVE  LET closed == BooksAfter(filled)[k].closed
                 next == BooksAfter(filled)[k + 1].closed
                 row == filled[k + 1]
             IN IF Closes(filled, k)
                THEN /\ DOMAIN next = DOMAIN closed \cup {k + 1}
                     /\ next[k + 1] = Closed(row, BooksAfter(filled)[k].lots[row.sym])
                     /\ \A i \in DOMAIN closed \ {k + 1} : next[i] = closed[i]
                ELSE next = closed
  <2>. DEFINE books == BooksAfter(filled)[k]
  <2>1. books \in BookSet
    BY BooksNext
  <2>2. CASE k + 1 \in DOMAIN filled
    <3>1. filled[k + 1] \in BookRow /\ k + 1 \in Nat
      BY <2>2 DEF Bookable
    <3>2. BooksAfter(filled)[k + 1] = EnterRow(books, k + 1, filled[k + 1])
      BY <2>2, BooksNext
    <3>3. filled[k + 1].side = "sell" /\ books.lots[filled[k + 1].sym] # <<>> <=> Closes(filled, k)
      BY <2>2 DEF Closes
    <3>. HIDE DEF books
    <3>4. CASE Closes(filled, k)
      <4>1. LET next == EnterRow(books, k + 1, filled[k + 1]) IN
               /\ DOMAIN next.closed = DOMAIN books.closed \cup {k + 1}
               /\ next.closed[k + 1] = Closed(filled[k + 1], books.lots[filled[k + 1].sym])
               /\ \A j \in DOMAIN books.closed \ {k + 1} : next.closed[j] = books.closed[j]
        BY <2>1, <3>1, <3>3, <3>4, EnterRowOK
      <4>. QED BY <3>2, <3>4, <4>1 DEF books
    <3>5. CASE ~Closes(filled, k)
      <4>1. EnterRow(books, k + 1, filled[k + 1]).closed = books.closed
        BY <2>1, <3>1, <3>3, <3>5, EnterRowOK
      <4>. QED BY <3>2, <3>5, <4>1 DEF books
    <3>. QED BY <3>4, <3>5
  <2>3. CASE k + 1 \notin DOMAIN filled
    BY <2>3, BooksNext DEF Closes
  <2>. QED BY <2>2, <2>3
<1>. DEFINE T == {k \in Nat : DOMAIN BooksAfter(filled)[k].closed \subseteq 1..k}
<1>2. 0 \in T
  BY BooksNext, NoBooksOK
<1>3. ASSUME NEW k \in Nat, k \in T PROVE k + 1 \in T
  <2>1. DOMAIN BooksAfter(filled)[k].closed \subseteq 1..k
    BY <1>3
  <2>2. DOMAIN BooksAfter(filled)[k + 1].closed \subseteq DOMAIN BooksAfter(filled)[k].closed \cup {k + 1}
    BY <1>1
  <2>3. DOMAIN BooksAfter(filled)[k + 1].closed \subseteq 1..(k + 1)
    BY <2>1, <2>2
  <2>. QED BY <2>3
<1>4. Nat \subseteq T
  <2>. HIDE DEF T
  <2>. QED BY <1>2, <1>3, Induct
<1>5. DOMAIN BooksAfter(filled)[n].closed \subseteq 1..n /\ n + 1 \notin DOMAIN BooksAfter(filled)[n].closed
  <2>1. DOMAIN BooksAfter(filled)[n].closed \subseteq 1..n
    BY <1>4
  <2>. QED BY <2>1
<1>6. \A i \in DOMAIN BooksAfter(filled)[n].closed : BooksAfter(filled)[n].closed[i] \in Trade
  <2>1. BooksAfter(filled)[n].closed \in Trades
    BY BooksNext DEF BookSet
  <2>2. PICK closed : closed = BooksAfter(filled)[n].closed
    OBVIOUS
  <2>3. closed \in [DOMAIN closed -> Trade]
    BY <2>1, <2>2, TradesOK
  <2>. QED BY <2>2, <2>3
<1>. QED BY <1>1, <1>5, <1>6

-----------------------------------------------------------------------------
(* What a step does to orders and account.                                 *)

Account == <<thb, coins, orders>>

\* What was executed of an order at first.
Half(row) == IF row.part = 0 THEN 0 ELSE Coins(row, row.part) \div 2

\* The order is sent: a buy at one of the prices, or a sell of coins that are
\* there.  The loop sends it where the symbol has no open order, and buys if it
\* has no coins, or sells them all.
Sent(row) ==
    /\ row.state = "open" /\ row.part = 0
    /\ orders' = Append(orders, row)
    /\ IF row.side = "buy"
       THEN thb' = thb - Budget /\ coins' = coins
       ELSE /\ coins[row.sym] >= row.amt /\ thb' = thb
            /\ coins' = [coins EXCEPT ![row.sym] = @ - row.amt]
    /\ row.auto => OpenRows(row.sym) = {} /\ coins[row.sym] = IF row.side = "buy" THEN 0 ELSE row.amt

\* An execution gives a buy coins, and a sell cash.
Gets(row, n, cash) ==
    IF row.side = "buy" THEN coins' = [coins EXCEPT ![row.sym] = @ + n] /\ thb' = thb
    ELSE coins' = coins /\ thb' = thb + cash

\* The exchange executes half of the order i, fills or cancels it, and its row becomes
\* this one.
Moves(i, row) ==
    /\ orders[i].state = "open" /\ orders' = [orders EXCEPT ![i] = row]
    /\ row.sym = orders[i].sym /\ row.side = orders[i].side /\ row.amt = orders[i].amt
    /\ row.rate = orders[i].rate /\ row.auto = orders[i].auto
    /\ \/ /\ row.state = "open" /\ row.part # 0 /\ orders[i].part = 0
          /\ Gets(row, Half(row), Half(row) * row.part)
       \/ /\ row.state = "filled" /\ row.part = orders[i].part /\ row.day = day
          /\ Gets(row, Rest(row, row.last), Rest(row, row.last) * row.last - SellFee)
       \/ /\ row.state = "canceled" /\ row.part = orders[i].part
          /\ IF row.side = "buy" THEN coins' = coins /\ thb' = thb + Unspent(row)
             ELSE coins' = [coins EXCEPT ![row.sym] = @ + Rest(row, row.rate)] /\ thb' = thb

LEMMA SubmitSent ==
    ASSUME LiveTypeOK, NEW r \in Request, NEW auto \in BOOLEAN, Submit(r, auto),
           r.side = "buy" => r.rate \in Prices /\ r.amt = Budget,
           r.side = "sell" => coins[r.sym] >= r.amt,
           auto => OpenRows(r.sym) = {} /\ coins[r.sym] = IF r.side = "buy" THEN 0 ELSE r.amt
    PROVE  \E row \in BookRow : Sent(row)
<1>. DEFINE row == [sym |-> r.sym, side |-> r.side, amt |-> r.amt, rate |-> r.rate, state |-> "open",
                    part |-> 0, last |-> 0, told |-> "nothing",
                    day |-> 0, sent |-> mode, auto |-> auto]
<1>1. r.sym \in Pairs /\ r.side \in {"buy", "sell"} /\ r.amt \in Nat \ {0} /\ r.rate \in Nat \ {0}
  BY DEF Request
<1>2. row \in Order
  BY <1>1, DaysAssumption DEF LiveTypeOK, Order, Tellings
<1>3. /\ orders' = Append(orders, row)
      /\ IF r.side = "buy"
         THEN thb' = thb - Budget /\ UNCHANGED coins
         ELSE coins' = [coins EXCEPT ![r.sym] = @ - r.amt] /\ UNCHANGED thb
  BY DEF Submit
<1>4. /\ row.sym = r.sym /\ row.side = r.side /\ row.amt = r.amt /\ row.rate = r.rate /\ row.state = "open"
      /\ row.part = 0 /\ row.last = 0 /\ row.told = "nothing" /\ row.auto = auto
  OBVIOUS
<1>. HIDE DEF row
<1>5. row \in BookRow
  BY <1>1, <1>2, <1>4 DEF BookRow
<1>6. Sent(row)
  BY <1>1, <1>3, <1>4 DEF Sent
<1>. QED BY <1>5, <1>6

LEMMA BuyIs ==
    ASSUME NEW s, NEW rate
    PROVE  LET r == BuyRequest(s, rate) IN
           r.sym = s /\ r.side = "buy" /\ r.rate = rate /\ r.amt = Budget
  BY DEF BuyRequest

LEMMA ManualSent ==
    ASSUME LiveTypeOK, NEW r \in ManualRequests, NEW pauses, NEW pnl, ManualPasses(r, pauses, pnl),
           Submit(r, FALSE)
    PROVE  \E row \in BookRow : Sent(row)
<1>1. r \in Request /\ (r.side = "sell" => coins[r.sym] >= r.amt)
  BY ManualOK
<1>2. PICK s \in scope.symbols, side \in {"buy", "sell"}, rate \in scope.rates :
         r = ManualRequest(s, side, 1, rate)
  BY DEF ManualRequests
<1>3. rate \in Prices
  BY DEF LiveTypeOK, Scope
<1>4. r.side = "buy" => r.rate \in Prices /\ r.amt = Budget
  <2>1. CASE side = "buy"
    <3>1. r = BuyRequest(s, rate)
      BY <1>2, <2>1 DEF ManualRequest
    <3>. QED BY <1>3, <3>1, BuyIs
  <2>2. CASE side = "sell"
    <3>1. r.side = "sell"
      BY <1>2, <2>2 DEF ManualRequest, SellRequest
    <3>. QED BY <3>1
  <2>. QED BY <2>1, <2>2
<1>. QED BY <1>1, <1>4, SubmitSent

\* A loop sends nothing, or one order.
LEMMA LoopSends ==
    ASSUME LiveTypeOK, Loop
    PROVE  UNCHANGED Account \/ \E row \in BookRow : Sent(row)
<1>0. ASSUME NEW r, SendOrRecord(r, TRUE)
      PROVE  UNCHANGED Account \/ Submit(r, TRUE)
  BY <1>0 DEF SendOrRecord, Account
<1>1. PICK prices \in [scope.symbols -> Prices] :
         \/ AutoExit(prices)
         \/ NoExit(prices) /\ (AutoEntry(prices) \/ UNCHANGED <<thb, coins, orders, journal>>)
  BY DEF Loop
<1>2. CASE AutoExit(prices)
  <2>1. ExitCandidates(prices) # {} /\ SendOrRecord(FirstExit(prices), TRUE)
    BY <1>2 DEF AutoExit, ExitPasses
  <2>2. PICK r \in Request : r = FirstExit(prices) /\ r.side = "sell" /\ r.amt = coins[r.sym] /\ OpenRows(r.sym) = {}
    BY <2>1, FirstExitOK
  <2>3. coins[r.sym] >= r.amt
    BY <2>2 DEF Request
  <2>4. CASE Submit(r, TRUE)
    BY <2>2, <2>3, <2>4, SubmitSent
  <2>. QED BY <1>0, <2>1, <2>2, <2>4
<1>3. CASE AutoEntry(prices)
  <2>1. PICK signals \in SUBSET {s \in scope.symbols : prices[s] <= BuyBelow} :
           \E r \in EntryCandidates(signals, prices) : SendOrRecord(r, TRUE)
    BY <1>3 DEF AutoEntry
  <2>2. PICK s \in signals :
           OpenRows(s) = {} /\ coins[s] = 0 /\ SendOrRecord(BuyRequest(s, prices[s]), TRUE)
    BY <2>1 DEF EntryCandidates
  <2>3. s \in Pairs /\ prices[s] \in Prices
    BY <2>1 DEF LiveTypeOK, Scope
  <2>4. PICK r \in Request : r = BuyRequest(s, prices[s])
    BY <2>3, RequestsOK
  <2>5. r.sym = s /\ r.side = "buy" /\ r.rate \in Prices /\ r.amt = Budget
    BY <2>3, <2>4, BuyIs
  <2>6. CASE Submit(r, TRUE)
    BY <2>2, <2>5, <2>6, SubmitSent
  <2>. QED BY <1>0, <2>2, <2>4, <2>6
<1>4. CASE UNCHANGED <<thb, coins, orders, journal>>
  BY <1>4 DEF Account
<1>. QED BY <1>1, <1>2, <1>3, <1>4

\* The exchange changes a row that is open, and only its progress.
LEMMA ExchangeMoves ==
    ASSUME LiveTypeOK, orders \in Seq(BookRow), NEW i \in DOMAIN orders, FillHalf(i) \/ Fill(i) \/ Cancel(i)
    PROVE  \E row \in BookRow : Moves(i, row)
<1>1. /\ orders[i] \in BookRow /\ orders[i] \in Order /\ orders[i].sym \in Pairs
      /\ orders[i].side \in {"buy", "sell"} /\ orders[i].amt \in Nat /\ orders[i].rate \in Nat \ {0}
      /\ coins \in [Pairs -> Nat] /\ thb \in Int /\ day \in 0..MaxDay
  <2>1. orders[i] \in BookRow /\ orders[i] \in Order
    BY DEF LiveTypeOK
  <2>2. day \in 0..MaxDay
    BY DaysAssumption DEF LiveTypeOK, Days
  <2>. QED BY <2>1, <2>2 DEF LiveTypeOK, Order
<1>2. CASE FillHalf(i)
  <2>1. PICK rate \in ExecutionRates(orders[i]) :
           /\ Halves(orders[i], rate)
           /\ orders' = [orders EXCEPT ![i].part = rate]
           /\ IF orders[i].side = "buy"
              THEN coins' = [coins EXCEPT ![orders[i].sym] = @ + Coins(orders[i], rate) \div 2] /\ UNCHANGED thb
              ELSE thb' = thb + (Coins(orders[i], rate) \div 2) * rate /\ UNCHANGED coins
    BY <1>2 DEF FillHalf
  <2>. DEFINE row == [orders[i] EXCEPT !.part = rate]
  <2>2. /\ rate \in Nat \ {0}
        /\ orders[i].side = "buy" => rate \in Prices /\ rate <= orders[i].rate
    BY <1>1, RatesOK DEF BookRow
  <2>3. orders[i].state = "open" /\ orders[i].part = 0 /\ orders' = [orders EXCEPT ![i] = row]
    BY <1>2, <2>1 DEF FillHalf
  <2>4. /\ row \in Order /\ row.sym = orders[i].sym /\ row.side = orders[i].side
        /\ row.amt = orders[i].amt /\ row.rate = orders[i].rate /\ row.auto = orders[i].auto
        /\ row.state = "open" /\ row.part = rate /\ row.last = orders[i].last /\ row.told = orders[i].told
    BY <1>1, <2>2, <2>3 DEF Order
  <2>. HIDE DEF row
  <2>5. Coins(row, rate) = Coins(orders[i], rate) /\ Halves(row, rate)
    BY <2>1, <2>4 DEF Coins, Halves
  <2>6. row \in BookRow
    BY <1>1, <2>2, <2>3, <2>4, <2>5 DEF BookRow
  <2>7. Half(row) = Coins(orders[i], rate) \div 2
    BY <2>2, <2>4, <2>5 DEF Half
  <2>8. Gets(row, Half(row), Half(row) * row.part)
    BY <2>1, <2>4, <2>7 DEF Gets
  <2>9. Moves(i, row)
    BY <2>2, <2>3, <2>4, <2>8 DEF Moves
  <2>. QED BY <2>6, <2>9
<1>3. CASE Fill(i)
  <2>1. PICK rate \in ExecutionRates(orders[i]), told \in scope.told :
           /\ orders' = [orders EXCEPT ![i].state = "filled", ![i].last = rate, ![i].told = told, ![i].day = day]
           /\ IF orders[i].side = "buy"
              THEN coins' = [coins EXCEPT ![orders[i].sym] = @ + Rest(orders[i], rate)] /\ UNCHANGED thb
              ELSE thb' = thb + Rest(orders[i], rate) * rate - SellFee /\ UNCHANGED coins
    BY <1>3 DEF Fill
  <2>. DEFINE row == [orders[i] EXCEPT !.state = "filled", !.last = rate, !.told = told, !.day = day]
  <2>2. /\ rate \in Nat \ {0} /\ told \in Tellings
        /\ orders[i].side = "buy" => rate \in Prices /\ rate <= orders[i].rate
    BY <1>1, RatesOK DEF BookRow, LiveTypeOK, Scope
  <2>3. orders[i].state = "open" /\ orders' = [orders EXCEPT ![i] = row]
    BY <1>3, <2>1 DEF Fill
  <2>4. /\ row \in Order /\ row.sym = orders[i].sym /\ row.side = orders[i].side
        /\ row.amt = orders[i].amt /\ row.rate = orders[i].rate /\ row.auto = orders[i].auto
        /\ row.state = "filled" /\ row.part = orders[i].part /\ row.last = rate /\ row.told = told
        /\ row.day = day
    BY <1>1, <2>2, <2>3 DEF Order
  <2>. HIDE DEF row
  <2>5. Rest(row, rate) = Rest(orders[i], rate) /\ (row.part # 0 => Halves(row, row.part))
    BY <1>1, <2>4 DEF Coins, Rest, Halves, BookRow
  <2>6. row \in BookRow
    BY <1>1, <2>2, <2>4, <2>5 DEF BookRow
  <2>7. Gets(row, Rest(row, row.last), Rest(row, row.last) * row.last - SellFee)
    <3>1. CASE row.side = "buy"
      BY <2>1, <2>4, <2>5, <3>1 DEF Gets
    <3>2. CASE row.side # "buy"
      <4>1. PICK rest \in Nat : rest = Rest(row, rate)
        BY <2>2, <2>4, CoinsOK
      <4>2. rest * rate \in Int /\ SellFee \in Int
        BY <2>2, AmountsAssumption
      <4>3. thb' = thb + (rest * rate - SellFee) /\ coins' = coins
        BY <1>1, <2>1, <2>4, <2>5, <3>2, <4>1, <4>2
      <4>. QED BY <2>4, <3>2, <4>1, <4>3 DEF Gets
    <3>. QED BY <3>1, <3>2
  <2>8. Moves(i, row)
    BY <2>3, <2>4, <2>7 DEF Moves
  <2>. QED BY <2>6, <2>8
<1>4. CASE Cancel(i)
  <2>. DEFINE row == [orders[i] EXCEPT !.state = "canceled"]
  <2>1. orders[i].state = "open" /\ orders' = [orders EXCEPT ![i] = row]
    BY <1>4 DEF Cancel
  <2>2. /\ row \in Order /\ row.sym = orders[i].sym /\ row.side = orders[i].side
        /\ row.amt = orders[i].amt /\ row.rate = orders[i].rate /\ row.auto = orders[i].auto
        /\ row.state = "canceled" /\ row.part = orders[i].part /\ row.last = orders[i].last
        /\ row.told = orders[i].told
    BY <1>1 DEF Order
  <2>. HIDE DEF row
  <2>3. /\ Rest(row, row.rate) = Rest(orders[i], orders[i].rate) /\ (row.part # 0 => Halves(row, row.part))
        /\ Unspent(row) = Unspent(orders[i])
    BY <1>1, <2>2 DEF Coins, Rest, Halves, Unspent, BookRow
  <2>4. row \in BookRow
    BY <1>1, <2>1, <2>2, <2>3 DEF BookRow
  <2>5. IF row.side = "buy" THEN coins' = coins /\ thb' = thb + Unspent(row)
        ELSE coins' = [coins EXCEPT ![row.sym] = @ + Rest(row, row.rate)] /\ thb' = thb
    BY <1>4, <2>2, <2>3 DEF Cancel
  <2>6. Moves(i, row)
    BY <2>1, <2>2, <2>5 DEF Moves
  <2>. QED BY <2>4, <2>6
<1>. QED BY <1>2, <1>3, <1>4

\* The account, and rows of which books can be made.
Ledger == LiveTypeOK /\ orders \in Seq(BookRow)

\* All that a step does to orders and account.
LEMMA StepKinds ==
    ASSUME Ledger, [LiveNext]_live
    PROVE  \/ UNCHANGED Account
           \/ \E row \in BookRow : Sent(row)
           \/ \E i \in DOMAIN orders : \E row \in BookRow : Moves(i, row)
<1>0. LiveTypeOK /\ orders \in Seq(BookRow)
  BY DEF Ledger
<1>1. CASE Loop
  BY <1>0, <1>1, LoopSends
<1>2. CASE LoopWithoutOrders
  BY <1>2 DEF LoopWithoutOrders, Account
<1>3. CASE ConsoleOrder
  <2>1. PICK r \in ManualRequests : ManualPasses(r, paused, total) /\ SendOrRecord(r, FALSE)
    BY <1>3 DEF ConsoleOrder
  <2>2. UNCHANGED Account \/ Submit(r, FALSE)
    BY <2>1 DEF SendOrRecord, Account
  <2>. QED BY <1>0, <2>1, <2>2, ManualSent
<1>4. CASE TelegramOrder
  <2>1. PICK r \in ManualRequests : ManualPasses(r, paused, total) /\ Submit(r, FALSE)
    BY <1>4 DEF TelegramOrder
  <2>. QED BY <1>0, <2>1, ManualSent
<1>5. CASE UiOrder
  <2>1. PICK r \in ManualRequests :
           ManualPasses(r, paused \ {"safety"}, PaperTotal(paper, day)) /\ Submit(r, FALSE)
    BY <1>5 DEF UiOrder
  <2>. QED BY <1>0, <2>1, ManualSent
<1>6. ASSUME NEW i \in DOMAIN orders, FillHalf(i) \/ Fill(i) \/ Cancel(i)
      PROVE  \E row \in BookRow : Moves(i, row)
  BY <1>0, <1>6, ExchangeMoves
<1>7. CASE Midnight \/ SwitchMode \/ Pauses
  BY <1>7 DEF Midnight, SwitchMode, Pauses, Account
<1>8. CASE ReadHistory \/ RefreshPaper \/ RefreshLive \/ Show
  BY <1>8 DEF ReadHistory, RefreshPaper, RefreshLive, Show, Account
<1>9. CASE UNCHANGED live
  BY <1>9 DEF live, Account
<1>. QED BY <1>1, <1>2, <1>3, <1>4, <1>5, <1>6, <1>7, <1>8, <1>9 DEF LiveNext

\* What the rows are after the step.
LEMMA SentRows ==
    ASSUME Ledger, NEW row \in BookRow, Sent(row)
    PROVE  /\ orders' \in Seq(BookRow) /\ Len(orders') = Len(orders) + 1 /\ Len(orders) \in Nat
           /\ DOMAIN orders = 1..Len(orders) /\ DOMAIN orders' = 1..(Len(orders) + 1)
           /\ orders'[Len(orders) + 1] = row /\ \A j \in DOMAIN orders : orders'[j] = orders[j]
<1>1. orders \in Seq(BookRow) /\ orders' = Append(orders, row)
  BY DEF Ledger, Sent
<1>. QED BY <1>1

LEMMA MovesRows ==
    ASSUME Ledger, NEW i \in DOMAIN orders, NEW row \in BookRow, Moves(i, row)
    PROVE  /\ orders' \in Seq(BookRow) /\ Len(orders') = Len(orders) /\ Len(orders) \in Nat
           /\ DOMAIN orders = 1..Len(orders) /\ DOMAIN orders' = 1..Len(orders)
           /\ orders'[i] = row /\ \A j \in DOMAIN orders : j # i => orders'[j] = orders[j]
<1>1. orders \in Seq(BookRow) /\ orders' = [orders EXCEPT ![i] = row]
  BY DEF Ledger, Moves
<1>. QED BY <1>1

LEMMA LedgerStep ==
    ASSUME Ledger, [LiveNext]_live
    PROVE  Ledger'
<1>1. LiveTypeOK'
  BY StepOK DEF Ledger
<1>2. orders' \in Seq(BookRow)
  <2>1. CASE UNCHANGED Account
    BY <2>1 DEF Account, Ledger
  <2>. QED BY <2>1, StepKinds, SentRows, MovesRows
<1>. QED BY <1>1, <1>2 DEF Ledger

LEMMA LedgerOK == LiveSpec => []Ledger
<1>1. LiveInit => Ledger
  <2>1. LiveInit => orders \in Seq(BookRow)
    BY DEF LiveInit
  <2>. QED BY <2>1, LiveStarts DEF Ledger
<1>2. Ledger /\ [LiveNext]_live => Ledger'
  BY LedgerStep
<1>. QED BY <1>1, <1>2, PTL DEF LiveSpec

\* Of the filled rows books can be made.
LEMMA LedgerBookable ==
    ASSUME NEW rows \in Seq(BookRow)
    PROVE  /\ Bookable(FilledRows(rows)) /\ DOMAIN FilledRows(rows) = FilledIds(rows)
           /\ FilledIds(rows) \subseteq 1..Len(rows) /\ Len(rows) \in Nat
           /\ \A i \in FilledIds(rows) : FilledRows(rows)[i] = rows[i] /\ rows[i] \in BookRow
<1>1. DOMAIN rows = 1..Len(rows) /\ Len(rows) \in Nat /\ \A i \in DOMAIN rows : rows[i] \in BookRow
  OBVIOUS
<1>2. DOMAIN FilledRows(rows) = FilledIds(rows) /\ FilledIds(rows) \subseteq 1..Len(rows)
  BY <1>1 DEF FilledRows, FilledIds
<1>3. \A i \in FilledIds(rows) : FilledRows(rows)[i] = rows[i] /\ rows[i] \in BookRow
  BY <1>1 DEF FilledRows, FilledIds
<1>. QED BY <1>1, <1>2, <1>3 DEF Bookable

\* An order that is sent is in no book.
LEMMA SentFilled ==
    ASSUME Ledger, NEW row \in BookRow, Sent(row)
    PROVE  FilledIds(orders') = FilledIds(orders) /\ FilledRows(orders') = FilledRows(orders)
<1>1. /\ Len(orders) \in Nat /\ DOMAIN orders = 1..Len(orders) /\ DOMAIN orders' = 1..(Len(orders) + 1)
      /\ orders'[Len(orders) + 1] = row /\ \A j \in DOMAIN orders : orders'[j] = orders[j]
  BY SentRows
<1>2. FilledIds(orders') = FilledIds(orders)
  BY <1>1 DEF FilledIds, Sent
<1>3. \A j \in FilledIds(orders') : orders'[j] = orders[j]
  BY <1>1, <1>2 DEF FilledIds
<1>. QED BY <1>2, <1>3, FilledSame

\* What the exchange does to an order makes one more filled row, or none.
LEMMA MovesFilled ==
    ASSUME Ledger, NEW i \in DOMAIN orders, NEW row \in BookRow, Moves(i, row)
    PROVE  /\ row.state # "filled" =>
                FilledIds(orders') = FilledIds(orders) /\ FilledRows(orders') = FilledRows(orders)
           /\ row.state = "filled" =>
                LET F == FilledRows(orders)
                    G == FilledRows(orders')
                IN /\ FilledIds(orders') = FilledIds(orders) \cup {i}
                   /\ Bookable(F) /\ DOMAIN F = FilledIds(orders) /\ DOMAIN F \subseteq 1..Len(orders)
                   /\ Bookable(G) /\ DOMAIN G = DOMAIN F \cup {i} /\ DOMAIN G \subseteq 1..Len(orders)
                   /\ i \in Nat \ {0} /\ i \notin DOMAIN F /\ G[i] = row
                   /\ \A j \in DOMAIN F : G[j] = F[j] /\ F[j] = orders[j]
<1>. DEFINE F == FilledRows(orders)
            G == FilledRows(orders')
<1>1. /\ orders \in Seq(BookRow) /\ orders' \in Seq(BookRow) /\ Len(orders') = Len(orders) /\ Len(orders) \in Nat
      /\ DOMAIN orders = 1..Len(orders) /\ DOMAIN orders' = 1..Len(orders)
      /\ orders'[i] = row /\ \A j \in DOMAIN orders : j # i => orders'[j] = orders[j]
  BY MovesRows DEF Ledger
<1>2. orders[i].state = "open"
  BY DEF Moves
<1>3. CASE row.state # "filled"
  <2>1. FilledIds(orders') = FilledIds(orders)
    BY <1>1, <1>2, <1>3 DEF FilledIds
  <2>2. \A j \in FilledIds(orders') : orders'[j] = orders[j]
    BY <1>1, <1>2, <1>3 DEF FilledIds
  <2>. QED BY <1>3, <2>1, <2>2, FilledSame
<1>4. CASE row.state = "filled"
  <2>1. FilledIds(orders') = FilledIds(orders) \cup {i} /\ i \notin FilledIds(orders)
    BY <1>1, <1>2, <1>4 DEF FilledIds
  <2>2. /\ Bookable(F) /\ DOMAIN F = FilledIds(orders) /\ \A j \in DOMAIN F : F[j] = orders[j]
        /\ Bookable(G) /\ DOMAIN G = FilledIds(orders') /\ \A j \in DOMAIN G : G[j] = orders'[j]
        /\ DOMAIN F \subseteq 1..Len(orders) /\ DOMAIN G \subseteq 1..Len(orders)
    BY <1>1, LedgerBookable
  <2>. HIDE DEF F, G
  <2>3. i \in Nat \ {0} /\ DOMAIN G = DOMAIN F \cup {i} /\ i \notin DOMAIN F /\ G[i] = row
    BY <1>1, <2>1, <2>2
  <2>4. \A j \in DOMAIN F : G[j] = F[j]
    BY <1>1, <2>1, <2>2, <2>3 DEF FilledIds
  <2>. QED BY <1>4, <2>1, <2>2, <2>3, <2>4 DEF F, G
<1>. QED BY <1>3, <1>4

-----------------------------------------------------------------------------
(* The reported profit of past days.                                       *)

\* The trades of a day are kept, or there is one more.
KeepsDay(d, closed, next) ==
    OfDay(d, next) = OfDay(d, closed) /\ \A i \in OfDay(d, closed) : next[i] = closed[i]
AddsToDay(d, closed, next, n, trade) ==
    /\ OfDay(d, next) = OfDay(d, closed) \cup {n} /\ n \notin OfDay(d, closed)
    /\ next[n] = trade
    /\ \A i \in OfDay(d, closed) : next[i] = closed[i]

\* What one more row changes in the trades of a day.
LEMMA DayNext ==
    ASSUME NEW filled, Bookable(filled), NEW n \in Nat, NEW d
    PROVE  IF Closes(filled, n) /\ filled[n + 1].day = d
           THEN AddsToDay(d, BooksAfter(filled)[n].closed, BooksAfter(filled)[n + 1].closed, n + 1,
                          Closed(filled[n + 1], BooksAfter(filled)[n].lots[filled[n + 1].sym]))
           ELSE KeepsDay(d, BooksAfter(filled)[n].closed, BooksAfter(filled)[n + 1].closed)
<1>. DEFINE closed == BooksAfter(filled)[n].closed
            next == BooksAfter(filled)[n + 1].closed
            row == filled[n + 1]
            trade == Closed(row, BooksAfter(filled)[n].lots[row.sym])
<1>1. n + 1 \notin DOMAIN closed
  <2>1. DOMAIN closed \subseteq 1..n
    BY ClosedNext
  <2>. HIDE DEF closed
  <2>. QED BY <2>1
<1>2. CASE Closes(filled, n)
  <2>1. /\ DOMAIN next = DOMAIN closed \cup {n + 1} /\ next[n + 1] = trade
        /\ \A i \in DOMAIN closed : next[i] = closed[i]
    BY <1>2, ClosedNext
  <2>2. trade.day = row.day
    <3>1. row \in BookRow /\ row.sym \in Pairs
      BY <1>2 DEF Closes, Bookable, BookRow, Order
    <3>2. BooksAfter(filled)[n].lots[row.sym] \in Seq(Lot)
      BY <3>1, LotsNext
    <3>. QED BY <3>1, <3>2, ClosedOK
  <2>. HIDE DEF closed, next, row, trade
  <2>3. /\ row.day = d => AddsToDay(d, closed, next, n + 1, trade)
        /\ row.day # d => KeepsDay(d, closed, next)
    BY <1>1, <2>1, <2>2 DEF OfDay, AddsToDay, KeepsDay
  <2>. QED BY <1>2, <2>3 DEF closed, next, row, trade
<1>3. CASE ~Closes(filled, n)
  <2>1. next = closed
    BY <1>3, ClosedNext
  <2>. QED BY <1>3, <2>1 DEF KeepsDay
<1>. QED BY <1>2, <1>3

\* The trades of a day are the same.
SameTrades(d, closed, others) ==
    OfDay(d, closed) = OfDay(d, others) /\ \A i \in OfDay(d, closed) : closed[i] = others[i]

LEMMA SameProfit ==
    ASSUME NEW d, NEW closed, NEW others, SameTrades(d, closed, others)
    PROVE  PnlOn(d, closed) = PnlOn(d, others)
<1>1. [i \in OfDay(d, closed) |-> closed[i].pnl] = [i \in OfDay(d, others) |-> others[i].pnl]
  BY DEF SameTrades
<1>. QED BY <1>1 DEF PnlOn

\* Where a row more is filled on another day, and no sell of its symbol that comes
\* after it was filled on this day, the trades of this day stay as they are.
LEMMA DayStands ==
    ASSUME NEW filled, Bookable(filled), NEW more, Bookable(more), NEW i \in Nat \ {0}, NEW d,
           DOMAIN more = DOMAIN filled \cup {i}, i \notin DOMAIN filled,
           \A j \in DOMAIN filled : more[j] = filled[j],
           more[i].day # d,
           \A j \in DOMAIN filled :
              ~(i < j /\ filled[j].sym = more[i].sym /\ filled[j].side = "sell" /\ filled[j].day = d)
    PROVE  \A n \in Nat : SameTrades(d, BooksAfter(filled)[n].closed, BooksAfter(more)[n].closed)
<1>. DEFINE sym == more[i].sym
            A(n) == BooksAfter(filled)[n]
            B(n) == BooksAfter(more)[n]
            SameLots(n) == \A s \in Pairs : s # sym \/ n < i => A(n).lots[s] = B(n).lots[s]
            T == {n \in Nat : SameLots(n) /\ SameTrades(d, A(n).closed, B(n).closed)}
<1>1. 0 \in T
  <2>1. A(0) = NoBooks /\ B(0) = NoBooks
    BY BooksNext
  <2>. QED BY <2>1 DEF SameTrades
<1>2. ASSUME NEW n \in Nat, n \in T PROVE n + 1 \in T
  <2>0. SameLots(n) /\ SameTrades(d, A(n).closed, B(n).closed)
    BY <1>2
  <2>1. CASE n + 1 = i
    <3>1. \A s \in Pairs : s # sym => A(n + 1).lots[s] = A(n).lots[s] /\ B(n + 1).lots[s] = B(n).lots[s]
      BY <2>1, LotsNext
    <3>2. SameLots(n + 1)
      <4>. HIDE DEF A, B
      <4>. QED BY <2>0, <2>1, <3>1
    <3>3. KeepsDay(d, A(n).closed, A(n + 1).closed)
      BY <2>1, DayNext DEF Closes
    <3>4. KeepsDay(d, B(n).closed, B(n + 1).closed)
      BY <2>1, DayNext
    <3>. HIDE DEF A, B
    <3>. QED BY <2>0, <3>2, <3>3, <3>4 DEF SameTrades, KeepsDay
  <2>2. CASE n + 1 # i /\ n + 1 \in DOMAIN filled
    <3>1. n + 1 \in DOMAIN more /\ filled[n + 1] = more[n + 1]
      BY <2>2
    <3>2. PICK row \in BookRow : row = filled[n + 1] /\ row = more[n + 1] /\ row.sym \in Pairs
      BY <2>2, <3>1 DEF Bookable, BookRow, Order
    <3>3. \A s \in Pairs :
             /\ A(n + 1).lots[s] = IF row.sym = s THEN LotsAfter(row, A(n).lots[s]) ELSE A(n).lots[s]
             /\ B(n + 1).lots[s] = IF row.sym = s THEN LotsAfter(row, B(n).lots[s]) ELSE B(n).lots[s]
      BY <2>2, <3>1, <3>2, LotsNext
    <3>4. SameLots(n + 1)
      <4>. HIDE DEF A, B
      <4>. QED BY <2>0, <3>3
    <3>5. /\ Closes(filled, n) <=> row.side = "sell" /\ A(n).lots[row.sym] # <<>>
          /\ Closes(more, n) <=> row.side = "sell" /\ B(n).lots[row.sym] # <<>>
      BY <2>2, <3>1, <3>2 DEF Closes
    <3>6. CASE row.day = d /\ row.side = "sell"
      <4>1. row.sym # sym \/ n < i
        BY <2>2, <3>2, <3>6
      <4>2. A(n).lots[row.sym] = B(n).lots[row.sym]
        <5>. HIDE DEF A, B
        <5>. QED BY <2>0, <3>2, <4>1
      <4>3. CASE Closes(filled, n)
        <5>1. Closes(more, n)
          BY <3>5, <4>2, <4>3
        <5>2. AddsToDay(d, A(n).closed, A(n + 1).closed, n + 1, Closed(row, A(n).lots[row.sym]))
          BY <3>2, <3>6, <4>3, DayNext
        <5>3. AddsToDay(d, B(n).closed, B(n + 1).closed, n + 1, Closed(row, B(n).lots[row.sym]))
          BY <3>2, <3>6, <5>1, DayNext
        <5>. HIDE DEF A, B
        <5>4. SameTrades(d, A(n + 1).closed, B(n + 1).closed)
          BY <2>0, <4>2, <5>2, <5>3 DEF SameTrades, AddsToDay
        <5>. QED BY <3>4, <5>4
      <4>4. CASE ~Closes(filled, n)
        <5>1. ~Closes(more, n)
          BY <3>5, <4>2, <4>4
        <5>2. A(n + 1).closed = A(n).closed /\ B(n + 1).closed = B(n).closed
          BY <4>4, <5>1, ClosedNext
        <5>. HIDE DEF A, B
        <5>. QED BY <2>0, <3>4, <5>2
      <4>. QED BY <4>3, <4>4
    <3>7. CASE ~(row.day = d /\ row.side = "sell")
      <4>1. ~(Closes(filled, n) /\ filled[n + 1].day = d) /\ ~(Closes(more, n) /\ more[n + 1].day = d)
        BY <3>2, <3>5, <3>7
      <4>2. KeepsDay(d, A(n).closed, A(n + 1).closed)
        BY <4>1, DayNext
      <4>3. KeepsDay(d, B(n).closed, B(n + 1).closed)
        BY <4>1, DayNext
      <4>. HIDE DEF A, B
      <4>. QED BY <2>0, <3>4, <4>2, <4>3 DEF SameTrades, KeepsDay, KeepsDay
    <3>. QED BY <3>6, <3>7
  <2>3. CASE n + 1 # i /\ n + 1 \notin DOMAIN filled
    <3>1. A(n + 1) = A(n) /\ B(n + 1) = B(n)
      BY <2>3, BooksNext
    <3>. HIDE DEF A, B
    <3>. QED BY <2>0, <2>3, <3>1
  <2>. QED BY <2>1, <2>2, <2>3
<1>3. Nat \subseteq T
  <2>. HIDE DEF T
  <2>. QED BY <1>1, <1>2, Induct
<1>. QED BY <1>3

\* The reported profit of a past day is changed by nothing but an order that is
\* filled late, of a symbol of which that day has a sell that was placed after it.
THEOREM PastDaysAreLeft == LiveSpec => PastDaysStand
<1>. DEFINE Late(d) == \E i, j \in DOMAIN orders :
                /\ orders[i].state = "open" /\ orders'[i].state = "filled"
                /\ i < j /\ orders[j].sym = orders[i].sym
                /\ orders[j].side = "sell" /\ orders[j].state = "filled" /\ orders[j].day = d
            Stand == \A d \in 1..(day - 1) :
                        LiveDay(FilledRows(orders), d).pnl # LiveDay(FilledRows(orders'), d).pnl => Late(d)
<1>1. Ledger /\ [LiveNext]_live => [Stand]_live
  <2>. SUFFICES ASSUME Ledger, [LiveNext]_live PROVE Stand
    OBVIOUS
  <2>. SUFFICES ASSUME NEW d \in 1..(day - 1), ~Late(d)
                PROVE  LiveDay(FilledRows(orders), d).pnl = LiveDay(FilledRows(orders'), d).pnl
    OBVIOUS
  <2>. DEFINE F == FilledRows(orders)
              G == FilledRows(orders')
  <2>1. \A filled : LiveDay(filled, d).pnl = PnlOn(d, Books(filled).closed)
    BY DEF LiveDay
  <2>2. CASE UNCHANGED Account
    <3>1. orders' = orders
      BY <2>2 DEF Account
    <3>. QED BY <3>1
  <2>3. ASSUME NEW row \in BookRow, Sent(row) PROVE G = F
    BY <2>3, SentFilled
  <2>4. ASSUME NEW i \in DOMAIN orders, NEW row \in BookRow, Moves(i, row)
        PROVE  LiveDay(F, d).pnl = LiveDay(G, d).pnl
    <3>1. CASE row.state # "filled"
      <4>1. G = F
        BY <2>4, <3>1, MovesFilled
      <4>. QED BY <4>1
    <3>2. CASE row.state = "filled"
      <4>1. row.day = day /\ orders[i].state = "open" /\ orders[i].sym = row.sym
        BY <2>4, <3>2 DEF Moves
      <4>2. Len(orders) \in Nat /\ orders'[i] = row
        BY <2>4, MovesRows
      <4>3. /\ Bookable(F) /\ DOMAIN F = FilledIds(orders) /\ DOMAIN F \subseteq 1..Len(orders)
            /\ Bookable(G) /\ DOMAIN G = DOMAIN F \cup {i} /\ DOMAIN G \subseteq 1..Len(orders)
            /\ i \in Nat \ {0} /\ i \notin DOMAIN F /\ G[i] = row
            /\ \A j \in DOMAIN F : G[j] = F[j] /\ F[j] = orders[j]
        BY <2>4, <3>2, MovesFilled
      <4>. HIDE DEF F, G
      <4>4. G[i].day # d
        <5>1. day \in Nat
          BY DaysAssumption DEF Ledger, LiveTypeOK, Days
        <5>. QED BY <4>1, <4>3, <5>1
      <4>5. \A j \in DOMAIN F : ~(i < j /\ F[j].sym = G[i].sym /\ F[j].side = "sell" /\ F[j].day = d)
        <5>. SUFFICES ASSUME NEW j \in DOMAIN F, i < j, F[j].sym = G[i].sym, F[j].side = "sell", F[j].day = d
                      PROVE  FALSE
          OBVIOUS
        <5>1. j \in DOMAIN orders /\ orders[j].state = "filled" /\ F[j] = orders[j]
          BY <4>3 DEF FilledIds
        <5>2. orders'[i].state = "filled" /\ orders[j].sym = orders[i].sym
          BY <3>2, <4>1, <4>2, <4>3, <5>1
        <5>. QED BY <4>1, <5>1, <5>2
      <4>6. SameTrades(d, BooksAfter(F)[Len(orders)].closed, BooksAfter(G)[Len(orders)].closed)
        BY <4>2, <4>3, <4>4, <4>5, DayStands
      <4>7. Books(F) = BooksAfter(F)[Len(orders)] /\ Books(G) = BooksAfter(G)[Len(orders)]
        BY <4>2, <4>3, BooksReached
      <4>. QED BY <2>1, <4>6, <4>7, SameProfit
    <3>. QED BY <3>1, <3>2
  <2>5. (\E row \in BookRow : Sent(row)) => LiveDay(F, d).pnl = LiveDay(G, d).pnl
    BY <2>3
  <2>. HIDE DEF Late
  <2>. QED BY <2>2, <2>4, <2>5, StepKinds
<1>. QED BY <1>1, LedgerOK, PTL DEF LiveSpec, PastDaysStand

-----------------------------------------------------------------------------
(* The entry rate of what is held.                                         *)

\* What is executed of an order is a number of coins, and what it costs an amount.
LEMMA HalfOK ==
    ASSUME NEW row \in BookRow
    PROVE  /\ row.amt \in Nat \ {0} /\ row.rate \in Nat \ {0} /\ row.sym \in Pairs
           /\ row.side \in {"buy", "sell"} /\ row.state \in {"open", "filled", "canceled"}
           /\ Half(row) \in Nat /\ Half(row) * row.part \in Int /\ Rest(row, row.rate) \in Nat
           /\ row.state = "filled" => Rest(row, row.last) \in Nat /\ Rest(row, row.last) * row.last \in Int
           /\ Unspent(row) \in Int
<1>1. /\ row \in Order /\ row.amt \in Nat \ {0} /\ row.rate \in Nat \ {0} /\ row.sym \in Pairs
      /\ row.side \in {"buy", "sell"} /\ row.state \in {"open", "filled", "canceled"}
      /\ row.part \in Nat /\ row.last \in Nat /\ (row.state = "filled" => row.last # 0)
  BY DEF BookRow, Order
<1>2. PICK half \in Nat : half = Half(row)
  <2>1. CASE row.part = 0
    BY <2>1 DEF Half
  <2>2. CASE row.part # 0
    <3>1. row.part \in Nat \ {0}
      BY <1>1, <2>2
    <3>2. Coins(row, row.part) \div 2 \in Nat
      BY <1>1, <3>1, CoinsOK
    <3>. QED BY <2>2, <3>2 DEF Half
  <2>. QED BY <2>1, <2>2
<1>3. half * row.part \in Int
  BY <1>1
<1>4. Rest(row, row.rate) \in Nat
  BY <1>1, CoinsOK
<1>5. ASSUME row.state = "filled" PROVE Rest(row, row.last) \in Nat /\ Rest(row, row.last) * row.last \in Int
  <2>1. row.last \in Nat \ {0}
    BY <1>1, <1>5
  <2>2. PICK rest \in Nat : rest = Rest(row, row.last)
    BY <1>1, <2>1, CoinsOK
  <2>3. rest * row.last \in Int
    BY <2>1
  <2>. QED BY <2>2, <2>3
<1>6. Unspent(row) \in Int
  BY AmountsAssumption, HalfNat DEF Unspent
<1>. QED BY <1>1, <1>2, <1>3, <1>4, <1>5, <1>6

\* What an order that is filled has bought was executed in one step, or in two.
LEMMA BoughtIs ==
    ASSUME NEW row
    PROVE  Bought(row) = Rest(row, row.last) + Half(row)
  BY DEF Bought, Half

\* Only the loop has sent orders, and none is canceled half executed.
LoopOnly ==
    \A i \in DOMAIN orders : orders[i].auto /\ (orders[i].state = "canceled" => orders[i].part = 0)

SymRows(s) == {i \in DOMAIN orders : orders[i].sym = s}

\* An open order is the last of the symbol: a buy, when there were no coins before, or
\* a sell of all that the last filled order bought.  Where none is open that is what the
\* account has, if it has coins.
Follows(s) ==
    /\ \A i \in OpenRows(s) : \A j \in SymRows(s) : j <= i
    /\ OpenRows(s) = {} /\ coins[s] > 0 => BoughtLast(s, coins[s])
    /\ \A i \in OpenRows(s) :
          IF orders[i].side = "buy" THEN coins[s] = Half(orders[i])
          ELSE coins[s] = 0 /\ BoughtLast(s, orders[i].amt)

FollowsInv == LoopOnly => \A s \in Pairs : Follows(s)

LEMMA RowsOfSymbol ==
    ASSUME NEW s
    PROVE  /\ OpenRows(s) = {i \in SymRows(s) : orders[i].state = "open"}
           /\ LatestFilled(s) = {i \in SymRows(s) : orders[i].state = "filled"
                                    /\ \A j \in SymRows(s) : j > i => orders[j].state # "filled"}
BY DEF OpenRows, SymRows, LatestFilled

LEMMA RowsOfSymbolNext ==
    ASSUME NEW CONSTANT s
    PROVE  /\ OpenRows(s)' = {i \in SymRows(s)' : orders'[i].state = "open"}
           /\ LatestFilled(s)' = {i \in SymRows(s)' : orders'[i].state = "filled"
                                    /\ \A j \in SymRows(s)' : j > i => orders'[j].state # "filled"}
BY DEF OpenRows, SymRows, LatestFilled

\* What was bought last stays so as long as the last filled order does.
LEMMA BoughtKept ==
    ASSUME NEW CONSTANT s, NEW CONSTANT qty, BoughtLast(s, qty), LatestFilled(s)' = LatestFilled(s),
           \A j \in LatestFilled(s) : orders'[j] = orders[j]
    PROVE  BoughtLast(s, qty)'
<1>1. PICK i \in LatestFilled(s) :
        /\ orders[i].side = "buy" /\ Bought(orders[i]) = qty
        /\ orders[i].last <= orders[i].rate /\ orders[i].part <= orders[i].rate
  BY DEF BoughtLast
<1>2. i \in LatestFilled(s)' /\ orders'[i] = orders[i]
  BY <1>1
<1>3. Bought(orders[i])' = Bought(orders[i])
  BY <1>2 DEF Bought, Rest, Coins
<1>. QED BY <1>1, <1>2, <1>3 DEF BoughtLast

\* Where a step does not touch a symbol, its rows and coins go on following.
LEMMA FollowsElsewhere ==
    ASSUME NEW CONSTANT s, Follows(s), SymRows(s)' = SymRows(s), \A j \in SymRows(s) : orders'[j] = orders[j],
           coins'[s] = coins[s]
    PROVE  Follows(s)'
<1>0. PICK rows, opened, openedNext, latest, latestNext :
        /\ rows = SymRows(s) /\ opened = OpenRows(s) /\ openedNext = OpenRows(s)'
        /\ latest = LatestFilled(s) /\ latestNext = LatestFilled(s)'
        /\ opened = {i \in rows : orders[i].state = "open"}
        /\ openedNext = {i \in rows : orders'[i].state = "open"}
        /\ latest = {i \in rows : orders[i].state = "filled"
                         /\ \A j \in rows : j > i => orders[j].state # "filled"}
        /\ latestNext = {i \in rows : orders'[i].state = "filled"
                             /\ \A j \in rows : j > i => orders'[j].state # "filled"}
  BY RowsOfSymbol, RowsOfSymbolNext
<1>1. OpenRows(s)' = OpenRows(s) /\ OpenRows(s) \subseteq SymRows(s)
  BY <1>0
<1>2. LatestFilled(s)' = LatestFilled(s) /\ LatestFilled(s) \subseteq SymRows(s)
  BY <1>0
<1>3. \A j \in LatestFilled(s) : orders'[j] = orders[j]
  BY <1>2
<1>4. ASSUME NEW CONSTANT qty, BoughtLast(s, qty) PROVE BoughtLast(s, qty)'
  BY <1>2, <1>3, <1>4, BoughtKept
<1>5. OpenRows(s)' = {} /\ coins'[s] > 0 => BoughtLast(s, coins[s])'
  <2>. SUFFICES ASSUME OpenRows(s)' = {}, coins'[s] > 0 PROVE BoughtLast(s, coins[s])'
    OBVIOUS
  <2>1. PICK qty : qty = coins[s] /\ qty = coins'[s]
    OBVIOUS
  <2>2. BoughtLast(s, qty)
    BY <1>1, <2>1 DEF Follows
  <2>3. BoughtLast(s, qty)'
    BY <1>4, <2>2
  <2>. QED BY <2>1, <2>3 DEF BoughtLast
<1>6. ASSUME NEW CONSTANT i \in OpenRows(s)
      PROVE  /\ \A j \in SymRows(s)' : j <= i
             /\ IF orders'[i].side = "buy" THEN coins'[s] = Half(orders[i])'
                ELSE coins'[s] = 0 /\ BoughtLast(s, orders[i].amt)'
  <2>1. orders'[i] = orders[i] /\ \A j \in SymRows(s) : j <= i
    BY <1>1 DEF Follows
  <2>2. CASE orders[i].side = "buy"
    <3>1. Half(orders[i])' = Half(orders[i])
      BY <2>1 DEF Half, Coins
    <3>2. coins[s] = Half(orders[i])
      BY <2>2 DEF Follows
    <3>. QED BY <2>1, <2>2, <3>1, <3>2
  <2>3. CASE orders[i].side # "buy"
    <3>1. PICK qty : qty = orders[i].amt /\ qty = orders'[i].amt
      BY <2>1
    <3>2. coins[s] = 0 /\ BoughtLast(s, qty)
      BY <2>3, <3>1 DEF Follows
    <3>3. BoughtLast(s, qty)'
      BY <1>4, <3>2
    <3>4. BoughtLast(s, orders[i].amt)'
      BY <3>1, <3>3 DEF BoughtLast
    <3>. QED BY <2>1, <2>3, <3>2, <3>4
  <2>. QED BY <2>1, <2>2, <2>3
<1>. QED BY <1>1, <1>5, <1>6 DEF Follows

\* An order that the loop sends is followed.
LEMMA FollowsSent ==
    ASSUME Ledger, NEW row \in BookRow, Sent(row), row.auto, NEW CONSTANT s \in Pairs, Follows(s)
    PROVE  Follows(s)'
<1>1. /\ Len(orders) \in Nat /\ DOMAIN orders = 1..Len(orders) /\ DOMAIN orders' = 1..(Len(orders) + 1)
      /\ orders'[Len(orders) + 1] = row /\ \A j \in DOMAIN orders : orders'[j] = orders[j]
  BY SentRows
<1>2. coins \in [Pairs -> Nat] /\ row.sym \in Pairs /\ row.amt \in Nat \ {0} /\ row.side \in {"buy", "sell"}
  BY HalfOK DEF Ledger, LiveTypeOK
<1>3. CASE s # row.sym
  <2>1. SymRows(s)' = SymRows(s) /\ \A j \in SymRows(s) : orders'[j] = orders[j]
    BY <1>1, <1>3 DEF SymRows
  <2>2. coins'[s] = coins[s]
    BY <1>2, <1>3 DEF Sent
  <2>. QED BY <2>1, <2>2, FollowsElsewhere
<1>4. CASE s = row.sym
  <2>1. PICK n \in Nat : n = Len(orders) + 1
    BY <1>1
  <2>2. /\ SymRows(s)' = SymRows(s) \cup {n} /\ n \notin SymRows(s) /\ orders'[n] = row
        /\ SymRows(s) \subseteq 1..Len(orders) /\ \A j \in SymRows(s) : orders'[j] = orders[j]
    BY <1>1, <1>4, <2>1 DEF SymRows
  <2>3. \A j \in SymRows(s)' : j <= n
    BY <1>1, <2>1, <2>2
  <2>4. /\ OpenRows(s) = {} /\ row.state = "open" /\ row.part = 0
        /\ coins[s] = IF row.side = "buy" THEN 0 ELSE row.amt
    BY <1>4 DEF Sent
  <2>5. OpenRows(s)' = {n}
    <3>1. \A i \in SymRows(s) : orders[i].state # "open"
      BY <2>4, RowsOfSymbol
    <3>. QED BY <2>2, <2>4, <3>1, RowsOfSymbolNext
  <2>6. LatestFilled(s)' = LatestFilled(s) /\ LatestFilled(s) \subseteq SymRows(s)
    <3>1. PICK rows, latest, latestNext :
            /\ rows = SymRows(s) /\ latest = LatestFilled(s) /\ latestNext = LatestFilled(s)'
            /\ latest = {i \in rows : orders[i].state = "filled"
                             /\ \A j \in rows : j > i => orders[j].state # "filled"}
            /\ latestNext = {i \in rows \cup {n} : orders'[i].state = "filled"
                                 /\ \A j \in rows \cup {n} : j > i => orders'[j].state # "filled"}
      BY <2>2, RowsOfSymbol, RowsOfSymbolNext
    <3>2. orders'[n].state # "filled" /\ \A j \in rows : orders'[j] = orders[j]
      BY <2>2, <2>4, <3>1
    <3>3. latestNext = latest /\ latest \subseteq rows
      BY <3>1, <3>2
    <3>. QED BY <3>1, <3>3
  <2>7. coins'[s] = 0
    <3>1. CASE row.side = "buy"
      BY <2>4, <3>1 DEF Sent
    <3>2. CASE row.side # "buy"
      <4>1. coins' = [coins EXCEPT ![s] = coins[s] - row.amt] /\ coins[s] = row.amt
        BY <1>4, <2>4, <3>2 DEF Sent
      <4>. QED BY <1>2, <4>1
    <3>. QED BY <3>1, <3>2
  <2>8. row.side # "buy" => BoughtLast(s, row.amt)'
    <3>. SUFFICES ASSUME row.side # "buy" PROVE BoughtLast(s, row.amt)'
      OBVIOUS
    <3>1. coins[s] = row.amt /\ coins[s] > 0
      BY <1>2, <2>4
    <3>2. BoughtLast(s, row.amt)
      BY <2>4, <3>1 DEF Follows
    <3>3. \A j \in LatestFilled(s) : orders'[j] = orders[j]
      BY <2>2, <2>6
    <3>. QED BY <2>6, <3>2, <3>3, BoughtKept
  <2>9. IF row.side = "buy" THEN coins'[s] = Half(row) ELSE coins'[s] = 0 /\ BoughtLast(s, row.amt)'
    BY <2>4, <2>7, <2>8 DEF Half
  <2>10. ASSUME NEW CONSTANT i \in OpenRows(s)'
         PROVE  /\ \A j \in SymRows(s)' : j <= i
                /\ IF orders'[i].side = "buy" THEN coins'[s] = Half(orders[i])'
                   ELSE coins'[s] = 0 /\ BoughtLast(s, orders[i].amt)'
    <3>1. i = n /\ orders'[i] = row
      BY <2>2, <2>5
    <3>2. Half(orders[i])' = Half(row)
      BY <3>1 DEF Half, Coins
    <3>3. BoughtLast(s, row.amt)' => BoughtLast(s, orders[i].amt)'
      BY <3>1 DEF BoughtLast
    <3>. QED BY <2>3, <2>9, <3>1, <3>2, <3>3
  <2>11. OpenRows(s)' # {}
    BY <2>5
  <2>. QED BY <2>10, <2>11 DEF Follows
<1>. QED BY <1>3, <1>4

\* What the exchange gives for an order, in coins.
LEMMA CoinsMoved ==
    ASSUME Ledger, NEW i \in DOMAIN orders, NEW row \in BookRow, Moves(i, row)
    PROVE  /\ \A s \in Pairs : s # row.sym => coins'[s] = coins[s]
           /\ row.state = "open" =>
                coins'[row.sym] = coins[row.sym] + IF row.side = "buy" THEN Half(row) ELSE 0
           /\ row.state = "filled" =>
                coins'[row.sym] = coins[row.sym] + IF row.side = "buy" THEN Rest(row, row.last) ELSE 0
           /\ row.state = "canceled" =>
                coins'[row.sym] = coins[row.sym] + IF row.side = "buy" THEN 0 ELSE Rest(row, row.rate)
<1>1. coins \in [Pairs -> Nat] /\ row.sym \in Pairs /\ coins[row.sym] + 0 = coins[row.sym]
  <2>1. coins \in [Pairs -> Nat] /\ row.sym \in Pairs
    BY HalfOK DEF Ledger, LiveTypeOK
  <2>. QED BY <2>1
<1>2. \A n \in Nat : /\ [coins EXCEPT ![row.sym] = @ + n][row.sym] = coins[row.sym] + n
                     /\ \A s \in Pairs : s # row.sym => [coins EXCEPT ![row.sym] = @ + n][s] = coins[s]
  BY <1>1
<1>3. ASSUME NEW n \in Nat, NEW cash, Gets(row, n, cash)
      PROVE  /\ coins'[row.sym] = coins[row.sym] + IF row.side = "buy" THEN n ELSE 0
             /\ \A s \in Pairs : s # row.sym => coins'[s] = coins[s]
  BY <1>1, <1>2, <1>3 DEF Gets
<1>4. CASE row.state = "open"
  <2>1. Gets(row, Half(row), Half(row) * row.part)
    BY <1>4 DEF Moves
  <2>2. Half(row) \in Nat
    BY HalfOK
  <2>. QED BY <1>3, <1>4, <2>1, <2>2
<1>5. CASE row.state = "filled"
  <2>1. Gets(row, Rest(row, row.last), Rest(row, row.last) * row.last - SellFee)
    BY <1>5 DEF Moves
  <2>2. Rest(row, row.last) \in Nat
    BY <1>5, HalfOK
  <2>. QED BY <1>3, <1>5, <2>1, <2>2
<1>6. CASE row.state = "canceled"
  <2>1. IF row.side = "buy" THEN coins' = coins ELSE coins' = [coins EXCEPT ![row.sym] = @ + Rest(row, row.rate)]
    BY <1>6 DEF Moves
  <2>2. PICK rest \in Nat : rest = Rest(row, row.rate)
    BY HalfOK
  <2>. QED BY <1>1, <1>2, <1>6, <2>1, <2>2
<1>. QED BY <1>4, <1>5, <1>6, HalfOK

\* What the exchange does to an order is followed, unless it cancels one of which half was
\* executed.
LEMMA FollowsMoves ==
    ASSUME Ledger, NEW i \in DOMAIN orders, NEW row \in BookRow, Moves(i, row),
           row.state = "canceled" => row.part = 0, \A t \in Pairs : Follows(t), NEW CONSTANT s \in Pairs
    PROVE  Follows(s)'
<1>1. /\ orders'[i] = row /\ \A j \in DOMAIN orders : j # i => orders'[j] = orders[j]
      /\ DOMAIN orders' = DOMAIN orders /\ Len(orders) \in Nat /\ DOMAIN orders = 1..Len(orders)
  BY MovesRows
<1>2. /\ orders[i].state = "open" /\ row.sym = orders[i].sym /\ row.side = orders[i].side
      /\ row.amt = orders[i].amt
  BY DEF Moves
<1>3. /\ row.sym \in Pairs /\ row.amt \in Nat \ {0} /\ row.side \in {"buy", "sell"} /\ coins \in [Pairs -> Nat]
      /\ row.state \in {"open", "filled", "canceled"} /\ Half(row) \in Nat /\ Follows(row.sym)
      /\ row.state = "filled" => Rest(row, row.last) \in Nat
  BY HalfOK DEF Ledger, LiveTypeOK
<1>4. i \in OpenRows(row.sym) /\ \A j \in SymRows(row.sym) : j <= i
  <2>1. i \in OpenRows(row.sym)
    BY <1>2 DEF OpenRows
  <2>. QED BY <1>3, <2>1 DEF Follows
<1>5. SymRows(s)' = SymRows(s) /\ SymRows(s) \subseteq DOMAIN orders
  BY <1>1, <1>2 DEF SymRows
<1>6. CASE s # row.sym
  <2>1. \A j \in SymRows(s) : orders'[j] = orders[j]
    BY <1>1, <1>2, <1>6 DEF SymRows
  <2>2. coins'[s] = coins[s]
    BY <1>6, CoinsMoved
  <2>. QED BY <1>5, <2>1, <2>2, FollowsElsewhere
<1>7. CASE s = row.sym
  <2>1. /\ i \in SymRows(s) /\ \A j \in SymRows(s) : j <= i
        /\ SymRows(s) \subseteq 1..Len(orders)
    BY <1>1, <1>2, <1>4, <1>5, <1>7 DEF SymRows
  <2>2. PICK rows, opened, openedNext, latest, latestNext :
          /\ rows = SymRows(s) /\ opened = OpenRows(s) /\ openedNext = OpenRows(s)'
          /\ latest = LatestFilled(s) /\ latestNext = LatestFilled(s)'
          /\ opened = {j \in rows : orders[j].state = "open"}
          /\ openedNext = {j \in rows : orders'[j].state = "open"}
          /\ latest = {j \in rows : orders[j].state = "filled"
                           /\ \A k \in rows : k > j => orders[k].state # "filled"}
          /\ latestNext = {j \in rows : orders'[j].state = "filled"
                               /\ \A k \in rows : k > j => orders'[k].state # "filled"}
    BY <1>5, RowsOfSymbol, RowsOfSymbolNext
  <2>3. \A j \in rows : j # i => orders'[j] = orders[j] /\ orders[j].state # "open"
    <3>. SUFFICES ASSUME NEW j \in rows, j # i, orders[j].state = "open" PROVE FALSE
      BY <1>1, <1>5, <2>2
    <3>1. j \in OpenRows(s) /\ i \in SymRows(s)
      BY <2>1, <2>2
    <3>2. i <= j
      BY <3>1 DEF Follows
    <3>. QED BY <2>1, <2>2, <3>2
  <2>4. opened = {i} /\ openedNext = IF row.state = "open" THEN {i} ELSE {}
    BY <1>1, <1>2, <2>1, <2>2, <2>3
  <2>5. IF row.side = "buy" THEN coins[s] = Half(orders[i]) ELSE coins[s] = 0 /\ BoughtLast(s, row.amt)
    BY <1>2, <2>2, <2>4 DEF Follows
  <2>6. ASSUME row.state # "filled", NEW CONSTANT qty, BoughtLast(s, qty) PROVE BoughtLast(s, qty)'
    <3>1. \A j \in rows : orders'[j].state = "filled" <=> orders[j].state = "filled"
      BY <1>1, <1>2, <2>3, <2>6
    <3>2. latestNext = latest
      BY <2>2, <3>1
    <3>3. \A j \in latest : orders'[j] = orders[j]
      BY <1>2, <2>2, <2>3
    <3>. QED BY <2>2, <2>6, <3>2, <3>3, BoughtKept
  <2>7. CASE row.state = "open"
    <3>1. row.part # 0 /\ orders[i].part = 0
      BY <2>7 DEF Moves
    <3>2. coins'[s] = coins[s] + IF row.side = "buy" THEN Half(row) ELSE 0
      BY <1>7, <2>7, CoinsMoved
    <3>3. IF row.side = "buy" THEN coins'[s] = Half(row) ELSE coins'[s] = 0 /\ BoughtLast(s, row.amt)'
      <4>1. CASE row.side = "buy"
        <5>1. coins[s] = 0
          BY <2>5, <3>1, <4>1 DEF Half
        <5>. QED BY <1>3, <3>2, <4>1, <5>1
      <4>2. CASE row.side # "buy"
        BY <2>5, <2>6, <2>7, <3>2, <4>2
      <4>. QED BY <4>1, <4>2
    <3>4. Half(orders[i])' = Half(row) /\ (BoughtLast(s, row.amt)' => BoughtLast(s, orders[i].amt)')
      BY <1>1 DEF Half, Coins, BoughtLast
    <3>5. OpenRows(s)' = {i}
      BY <2>2, <2>4, <2>7
    <3>6. ASSUME NEW CONSTANT j \in OpenRows(s)'
          PROVE  /\ \A k \in SymRows(s)' : k <= j
                 /\ IF orders'[j].side = "buy" THEN coins'[s] = Half(orders[j])'
                    ELSE coins'[s] = 0 /\ BoughtLast(s, orders[j].amt)'
      <4>1. j = i /\ orders'[j] = row
        BY <1>1, <3>5
      <4>2. Half(orders[j])' = Half(row) /\ (BoughtLast(s, row.amt)' => BoughtLast(s, orders[j].amt)')
        BY <4>1 DEF Half, Coins, BoughtLast
      <4>. QED BY <1>5, <2>1, <3>3, <4>1, <4>2
    <3>7. OpenRows(s)' # {}
      BY <3>5
    <3>. QED BY <3>6, <3>7 DEF Follows
  <2>8. CASE row.state = "filled"
    <3>1. OpenRows(s)' = {} /\ row.part = orders[i].part
      BY <2>2, <2>4, <2>8 DEF Moves
    <3>2. coins'[s] = coins[s] + IF row.side = "buy" THEN Rest(row, row.last) ELSE 0
      BY <1>7, <2>8, CoinsMoved
    <3>3. CASE row.side = "buy"
      <4>1. coins[s] = Half(row)
        <5>1. Half(orders[i]) = Half(row)
          BY <1>2, <3>1 DEF Half, Coins
        <5>. QED BY <2>5, <3>3, <5>1
      <4>2. coins'[s] = Bought(row)
        BY <1>3, <2>8, <3>2, <3>3, <4>1, BoughtIs
      <4>3. i \in LatestFilled(s)'
        <5>1. \A k \in rows : ~(k > i)
          BY <2>1, <2>2
        <5>. QED BY <1>1, <2>1, <2>2, <2>8, <5>1
      <4>4. row.last <= row.rate /\ row.part <= row.rate
        BY <3>3 DEF BookRow
      <4>5. Bought(orders[i])' = Bought(row) /\ orders'[i] = row
        BY <1>1 DEF Bought, Rest, Coins
      <4>6. BoughtLast(s, coins[s])'
        BY <3>3, <4>2, <4>3, <4>4, <4>5 DEF BoughtLast
      <4>. QED BY <3>1, <4>6 DEF Follows
    <3>4. CASE row.side # "buy"
      <4>1. coins'[s] = 0
        BY <2>5, <3>2, <3>4
      <4>. QED BY <3>1, <4>1 DEF Follows
    <3>. QED BY <3>3, <3>4
  <2>9. CASE row.state = "canceled"
    <3>1. OpenRows(s)' = {} /\ row.part = 0 /\ orders[i].part = 0
      BY <2>2, <2>4, <2>9 DEF Moves
    <3>2. coins'[s] = coins[s] + IF row.side = "buy" THEN 0 ELSE Rest(row, row.rate)
      BY <1>7, <2>9, CoinsMoved
    <3>3. CASE row.side = "buy"
      <4>1. coins'[s] = 0
        BY <2>5, <3>1, <3>2, <3>3 DEF Half
      <4>. QED BY <3>1, <4>1 DEF Follows
    <3>4. CASE row.side # "buy"
      <4>1. Rest(row, row.rate) = row.amt
        BY <3>1, <3>4 DEF Rest, Coins
      <4>2. coins'[s] = row.amt /\ BoughtLast(s, row.amt)'
        BY <1>3, <2>5, <2>6, <2>9, <3>2, <3>4, <4>1
      <4>3. BoughtLast(s, coins[s])'
        BY <4>2 DEF BoughtLast
      <4>. QED BY <3>1, <4>3 DEF Follows
    <3>. QED BY <3>3, <3>4
  <2>. QED BY <1>3, <2>7, <2>8, <2>9
<1>. QED BY <1>6, <1>7

\* Where only the loop sends orders and none is canceled half executed, what is held of a
\* symbol, or given to its open sell, is what the last filled buy of the symbol brought,
\* and none of it cost more than that order's rate: the automatic exit takes its stop
\* loss and its profit from a rate that no earlier buy has anything to do with.
THEOREM EntryRatesAreCosts == LiveSpec => []EntryRateIsCost
<1>1. LiveInit => FollowsInv
  <2>. SUFFICES ASSUME LiveInit, NEW s \in Pairs PROVE Follows(s)
    BY DEF FollowsInv
  <2>1. orders = <<>> /\ coins[s] = 0 /\ DOMAIN orders = {}
    BY DEF LiveInit
  <2>2. OpenRows(s) = {}
    BY <2>1 DEF OpenRows
  <2>. QED BY <2>1, <2>2 DEF Follows
<1>2. Ledger /\ FollowsInv /\ [LiveNext]_live => FollowsInv'
  <2>. SUFFICES ASSUME Ledger, FollowsInv, [LiveNext]_live, LoopOnly', NEW CONSTANT s \in Pairs PROVE Follows(s)'
    BY DEF FollowsInv
  <2>1. CASE UNCHANGED Account
    <3>1. orders' = orders /\ coins' = coins
      BY <2>1 DEF Account
    <3>2. LoopOnly
      BY <3>1 DEF LoopOnly
    <3>3. Follows(s)
      BY <3>2 DEF FollowsInv
    <3>4. SymRows(s)' = SymRows(s)
      BY <3>1 DEF SymRows
    <3>. QED BY <3>1, <3>3, <3>4, FollowsElsewhere
  <2>2. ASSUME NEW row \in BookRow, Sent(row) PROVE Follows(s)'
    <3>1. /\ Len(orders) \in Nat /\ DOMAIN orders = 1..Len(orders) /\ DOMAIN orders' = 1..(Len(orders) + 1)
          /\ orders'[Len(orders) + 1] = row /\ \A j \in DOMAIN orders : orders'[j] = orders[j]
      BY <2>2, SentRows
    <3>2. LoopOnly
      BY <3>1 DEF LoopOnly
    <3>3. row.auto
      <4>1. Len(orders) + 1 \in DOMAIN orders'
        BY <3>1
      <4>. QED BY <3>1, <4>1 DEF LoopOnly
    <3>. QED BY <2>2, <3>2, <3>3, FollowsSent DEF FollowsInv
  <2>3. ASSUME NEW i \in DOMAIN orders, NEW row \in BookRow, Moves(i, row) PROVE Follows(s)'
    <3>1. /\ orders'[i] = row /\ \A j \in DOMAIN orders : j # i => orders'[j] = orders[j]
          /\ DOMAIN orders' = DOMAIN orders
      BY <2>3, MovesRows
    <3>2. orders[i].state = "open" /\ row.auto = orders[i].auto
      BY <2>3 DEF Moves
    <3>3. LoopOnly
      BY <3>1, <3>2 DEF LoopOnly
    <3>4. row.state = "canceled" => row.part = 0
      BY <3>1 DEF LoopOnly
    <3>. QED BY <2>3, <3>3, <3>4, FollowsMoves DEF FollowsInv
  <2>. QED BY <2>1, <2>2, <2>3, StepKinds
<1>3. Ledger /\ FollowsInv => EntryRateIsCost
  <2>. SUFFICES ASSUME Ledger, FollowsInv, NoHalves, \A i \in DOMAIN orders : orders[i].auto,
                       NEW s \in Pairs
                PROVE  /\ coins[s] > 0 => BoughtLast(s, coins[s])
                       /\ \A i \in OpenRows(s) :
                             orders[i].side = "sell" => coins[s] = 0 /\ BoughtLast(s, orders[i].amt)
    BY DEF EntryRateIsCost
  <2>1. LoopOnly
    BY DEF LoopOnly, NoHalves
  <2>2. Follows(s)
    BY <2>1 DEF FollowsInv
  <2>3. ASSUME NEW i \in OpenRows(s)
        PROVE  coins[s] = 0 /\ (orders[i].side = "sell" => BoughtLast(s, orders[i].amt))
    <3>1. orders[i].part = 0
      BY DEF NoHalves, OpenRows
    <3>. QED BY <2>2, <3>1 DEF Follows, Half
  <2>. QED BY <2>2, <2>3 DEF Follows
<1>. QED BY <1>1, <1>2, <1>3, LedgerOK, PTL DEF LiveSpec

-----------------------------------------------------------------------------
(* What each row has done to the account.                                  *)

\* The coins that the account has got for an order, less those it gave for it.
NetCoins(row) ==
    IF row.side = "buy" THEN Half(row) + (IF row.state = "filled" THEN Rest(row, row.last) ELSE 0)
    ELSE (IF row.state = "canceled" THEN Rest(row, row.rate) ELSE 0) - row.amt

\* And the money.
NetCash(row) ==
    IF row.side = "buy" THEN (IF row.state = "canceled" THEN Unspent(row) ELSE 0) - Budget
    ELSE Half(row) * row.part
            + (IF row.state = "filled" THEN Rest(row, row.last) * row.last - SellFee ELSE 0)

CoinsBy(rows, s) == [i \in DOMAIN rows |-> IF rows[i].sym = s THEN NetCoins(rows[i]) ELSE 0]
CashBy(rows) == [i \in DOMAIN rows |-> NetCash(rows[i])]

\* The account is what the rows have made of it.  Up to no row have more coins been
\* sold than bought: those that a sell reserves were those of earlier orders.
AccountInv ==
    /\ thb = Cash + SumsOf(CashBy(orders))[Len(orders)]
    /\ \A s \in Pairs :
          /\ coins[s] = SumsOf(CoinsBy(orders, s))[Len(orders)]
          /\ \A n \in 0..Len(orders) : SumsOf(CoinsBy(orders, s))[n] >= 0

LEMMA NetType ==
    ASSUME NEW row \in BookRow
    PROVE  NetCoins(row) \in Int /\ NetCash(row) \in Int
<1>1. /\ row.amt \in Int /\ Half(row) \in Int /\ Rest(row, row.rate) \in Int /\ Half(row) * row.part \in Int
      /\ row.state = "filled" => Rest(row, row.last) \in Int /\ Rest(row, row.last) * row.last \in Int
      /\ Unspent(row) \in Int /\ Budget \in Int /\ SellFee \in Int
  BY HalfOK, AmountsAssumption
<1>2. NetCoins(row) \in Int
  BY <1>1 DEF NetCoins
<1>3. \A a \in Int, b \in Int : a + (b - SellFee) \in Int /\ a + 0 \in Int /\ a - Budget \in Int /\ 0 - Budget \in Int
  BY <1>1
<1>4. NetCash(row) \in Int
  BY <1>1, <1>3 DEF NetCash
<1>. QED BY <1>2, <1>4

LEMMA NetSums ==
    ASSUME NEW rows \in Seq(BookRow), NEW s
    PROVE  /\ Summable(CoinsBy(rows, s)) /\ Summable(CashBy(rows))
           /\ Len(rows) \in Nat /\ DOMAIN rows = 1..Len(rows)
           /\ \A k \in 1..Len(rows) :
                 /\ At(CoinsBy(rows, s), k) = IF rows[k].sym = s THEN NetCoins(rows[k]) ELSE 0
                 /\ At(CashBy(rows), k) = NetCash(rows[k])
<1>1. Len(rows) \in Nat /\ DOMAIN rows = 1..Len(rows) /\ \A i \in DOMAIN rows : rows[i] \in BookRow
  OBVIOUS
<1>. DEFINE v == CoinsBy(rows, s)
            w == CashBy(rows)
<1>2. DOMAIN v = 1..Len(rows) /\ \A i \in DOMAIN v : v[i] = IF rows[i].sym = s THEN NetCoins(rows[i]) ELSE 0
  BY <1>1 DEF CoinsBy
<1>3. DOMAIN w = 1..Len(rows) /\ \A i \in DOMAIN w : w[i] = NetCash(rows[i])
  BY <1>1 DEF CashBy
<1>. HIDE DEF v, w
<1>4. Summable(v)
  BY <1>1, <1>2, NetType DEF Summable
<1>5. Summable(w)
  BY <1>1, <1>3, NetType DEF Summable
<1>. QED BY <1>1, <1>2, <1>3, <1>4, <1>5 DEF At, v, w

\* A row that is put behind the others.
LEMMA SumsAppend ==
    ASSUME NEW v, Summable(v), NEW w, Summable(w), NEW n \in Nat, \A k \in 1..n : At(v, k) = At(w, k)
    PROVE  /\ \A k \in 0..n : SumsOf(w)[k] = SumsOf(v)[k]
           /\ SumsOf(w)[n + 1] = SumsOf(v)[n] + At(w, n + 1)
<1>1. ASSUME NEW k \in 0..n PROVE SumsOf(w)[k] = SumsOf(v)[k]
  <2>1. k \in Nat /\ \A j \in 1..k : At(v, j) = At(w, j)
    OBVIOUS
  <2>. QED BY <2>1, SumsSame
<1>2. SumsOf(w)[n] = SumsOf(v)[n]
  BY <1>1
<1>. QED BY <1>1, <1>2, SumsType

LEMMA AccountSent ==
    ASSUME Ledger, AccountInv, NEW row \in BookRow, Sent(row)
    PROVE  AccountInv'
<1>. DEFINE m == Len(orders)
<1>1. /\ orders \in Seq(BookRow) /\ orders' \in Seq(BookRow) /\ Len(orders') = m + 1 /\ m \in Nat
      /\ DOMAIN orders = 1..m /\ orders'[m + 1] = row /\ \A j \in DOMAIN orders : orders'[j] = orders[j]
  BY SentRows DEF Ledger
<1>2. row.state = "open" /\ row.part = 0 /\ Half(row) = 0
  BY DEF Sent, Half
<1>3. thb \in Int /\ coins \in [Pairs -> Nat] /\ row.sym \in Pairs /\ row.amt \in Nat
      /\ row.side \in {"buy", "sell"} /\ row.rate \in Nat
  BY HalfOK DEF Ledger, LiveTypeOK
<1>. HIDE DEF m
<1>4. thb' = Cash + SumsOf(CashBy(orders'))[m + 1]
  <2>. DEFINE v == CashBy(orders)
              w == CashBy(orders')
  <2>1. Summable(v) /\ Summable(w) /\ At(w, m + 1) = NetCash(row) /\ \A k \in 1..m : At(v, k) = At(w, k)
    BY <1>1, NetSums DEF m
  <2>2. thb = Cash + SumsOf(v)[m]
    BY DEF AccountInv, m
  <2>. HIDE DEF v, w
  <2>3. SumsOf(w)[m + 1] = SumsOf(v)[m] + NetCash(row) /\ SumsOf(v)[m] \in Int
    <3>1. SumsOf(w)[m + 1] = SumsOf(v)[m] + At(w, m + 1)
      BY <1>1, <2>1, SumsAppend
    <3>2. SumsOf(v)[m] \in Int
      BY <1>1, <2>1, SumsType
    <3>. QED BY <2>1, <3>1, <3>2
  <2>4. thb' = thb + NetCash(row)
    <3>1. CASE row.side = "buy"
      <4>1. NetCash(row) = 0 - Budget /\ thb' = thb - Budget
        BY <1>2, <3>1 DEF NetCash, Sent
      <4>. QED BY <1>3, <4>1, AmountsAssumption
    <3>2. CASE row.side = "sell"
      <4>1. NetCash(row) = 0 * 0 + 0 /\ thb' = thb
        BY <1>2, <3>2 DEF NetCash, Sent
      <4>. QED BY <1>3, <4>1
    <3>. QED BY <1>3, <3>1, <3>2
  <2>. QED BY <2>2, <2>3, <2>4, NetType, AmountsAssumption DEF w
<1>5. ASSUME NEW s \in Pairs
      PROVE  /\ coins'[s] = SumsOf(CoinsBy(orders', s))[m + 1]
             /\ \A n \in 0..(m + 1) : SumsOf(CoinsBy(orders', s))[n] >= 0
  <2>. DEFINE v == CoinsBy(orders, s)
              w == CoinsBy(orders', s)
              net == IF row.sym = s THEN NetCoins(row) ELSE 0
  <2>1. Summable(v) /\ Summable(w) /\ At(w, m + 1) = net /\ \A k \in 1..m : At(v, k) = At(w, k)
    BY <1>1, NetSums DEF m
  <2>2. coins[s] = SumsOf(v)[m] /\ \A n \in 0..m : SumsOf(v)[n] >= 0
    BY DEF AccountInv, m
  <2>3. coins'[s] = coins[s] + net /\ coins'[s] \in Nat
    <3>1. CASE row.side = "buy"
      <4>1. coins' = coins /\ NetCoins(row) = 0 + 0
        BY <1>2, <3>1 DEF NetCoins, Sent
      <4>. QED BY <1>3, <4>1
    <3>2. CASE row.side = "sell"
      <4>1. coins' = [coins EXCEPT ![row.sym] = @ - row.amt] /\ coins[row.sym] >= row.amt
            /\ NetCoins(row) = 0 - row.amt
        BY <1>2, <3>2 DEF NetCoins, Sent
      <4>. QED BY <1>3, <4>1
    <3>. QED BY <1>3, <3>1, <3>2
  <2>. HIDE DEF v, w, net
  <2>4. SumsOf(w)[m + 1] = SumsOf(v)[m] + net /\ \A n \in 0..m : SumsOf(w)[n] = SumsOf(v)[n]
    BY <1>1, <2>1, SumsAppend
  <2>5. coins'[s] = SumsOf(w)[m + 1]
    BY <2>2, <2>3, <2>4
  <2>6. ASSUME NEW n \in 0..(m + 1) PROVE SumsOf(w)[n] >= 0
    <3>1. n \in 0..m \/ n = m + 1
      BY <1>1
    <3>. QED BY <2>2, <2>3, <2>4, <2>5, <3>1
  <2>. QED BY <2>5, <2>6 DEF w
<1>. QED BY <1>1, <1>4, <1>5 DEF AccountInv

\* What the exchange does for an order is what its row has done to the account since.
LEMMA NetMoved ==
    ASSUME Ledger, NEW i \in DOMAIN orders, NEW row \in BookRow, Moves(i, row)
    PROVE  /\ thb' = thb + NetCash(row) - NetCash(orders[i])
           /\ NetCoins(orders[i]) <= NetCoins(row)
           /\ \A s \in Pairs :
                 coins'[s] = coins[s] + IF row.sym = s THEN NetCoins(row) - NetCoins(orders[i]) ELSE 0
<1>1. PICK old \in BookRow : old = orders[i]
  BY DEF Ledger
<1>2. /\ old.state = "open" /\ row.sym = old.sym /\ row.side = old.side /\ row.amt = old.amt /\ row.rate = old.rate
      /\ row.state = "open" => row.part # 0 /\ old.part = 0
      /\ row.state # "open" => row.part = old.part
      /\ row.side \in {"buy", "sell"} /\ row.state \in {"open", "filled", "canceled"}
  BY <1>1, HalfOK DEF Moves
<1>3. thb \in Int /\ coins \in [Pairs -> Nat] /\ Budget \in Nat /\ SellFee \in Nat
  BY AmountsAssumption DEF Ledger, LiveTypeOK
<1>4. PICK half \in Nat, back \in Nat, amt \in Nat, first \in Int, unspent \in Int :
         /\ half = Half(row) /\ back = Rest(row, row.rate) /\ amt = row.amt /\ first = Half(row) * row.part
         /\ unspent = Unspent(row)
  BY HalfOK
<1>5. PICK rest \in Nat, paid \in Int :
         row.state = "filled" => rest = Rest(row, row.last) /\ paid = Rest(row, row.last) * row.last
  <2>1. CASE row.state = "filled"
    BY <2>1, HalfOK
  <2>2. CASE row.state # "filled"
    <3>1. 0 \in Nat /\ 0 \in Int
      OBVIOUS
    <3>. QED BY <2>2, <3>1
  <2>. QED BY <2>1, <2>2
<1>6. IF row.state = "open" THEN Half(old) = 0 /\ Half(old) * old.part = 0 * 0
      ELSE Half(old) = half /\ Half(old) * old.part = first
  BY <1>2, <1>4 DEF Half, Coins
<1>7. IF row.side = "buy"
      THEN /\ NetCoins(old) = Half(old) + 0
           /\ NetCoins(row) = half + (IF row.state = "filled" THEN rest ELSE 0)
           /\ NetCash(old) = 0 - Budget
           /\ NetCash(row) = (IF row.state = "canceled" THEN unspent ELSE 0) - Budget
      ELSE /\ NetCoins(old) = 0 - amt
           /\ NetCoins(row) = (IF row.state = "canceled" THEN back ELSE 0) - amt
           /\ NetCash(old) = Half(old) * old.part + 0
           /\ NetCash(row) = first + (IF row.state = "filled" THEN paid - SellFee ELSE 0)
  BY <1>2, <1>4, <1>5 DEF NetCoins, NetCash
<1>8. row.side # "buy" => NetCash(old) = IF row.state = "open" THEN 0 ELSE first
  BY <1>4, <1>6, <1>7
<1>9. NetCoins(row) - NetCoins(old)
         = IF row.state = "open" THEN IF row.side = "buy" THEN half ELSE 0
           ELSE IF row.state = "filled" THEN IF row.side = "buy" THEN rest ELSE 0
           ELSE IF row.side = "buy" THEN 0 ELSE back
  BY <1>2, <1>4, <1>5, <1>6, <1>7
<1>10. NetCoins(old) \in Int /\ NetCoins(row) \in Int
  BY NetType
<1>11. NetCoins(old) <= NetCoins(row)
  BY <1>9, <1>10
<1>12. thb' = thb + NetCash(row) - NetCash(old)
  <2>1. CASE row.state = "open"
    <3>1. IF row.side = "buy" THEN thb' = thb ELSE thb' = thb + first
      BY <1>4, <2>1 DEF Moves, Gets
    <3>. QED BY <1>3, <1>4, <1>7, <1>8, <2>1, <3>1
  <2>2. CASE row.state = "filled"
    <3>1. IF row.side = "buy" THEN thb' = thb ELSE thb' = thb + (paid - SellFee)
      BY <1>5, <2>2 DEF Moves, Gets
    <3>. QED BY <1>3, <1>4, <1>5, <1>7, <1>8, <2>2, <3>1
  <2>3. CASE row.state = "canceled"
    <3>1. IF row.side = "buy" THEN thb' = thb + unspent ELSE thb' = thb
      BY <1>4, <2>3 DEF Moves
    <3>. QED BY <1>3, <1>4, <1>7, <1>8, <2>3, <3>1
  <2>. QED BY <1>2, <2>1, <2>2, <2>3
<1>13. ASSUME NEW s \in Pairs
       PROVE  coins'[s] = coins[s] + IF row.sym = s THEN NetCoins(row) - NetCoins(old) ELSE 0
  <2>1. coins[s] \in Nat
    BY <1>3
  <2>2. CASE row.sym # s
    <3>1. coins'[s] = coins[s]
      BY <2>2, CoinsMoved
    <3>. QED BY <2>1, <2>2, <3>1
  <2>3. CASE row.sym = s
    <3>1. /\ row.state = "open" => coins'[s] = coins[s] + IF row.side = "buy" THEN half ELSE 0
          /\ row.state = "filled" => coins'[s] = coins[s] + IF row.side = "buy" THEN rest ELSE 0
          /\ row.state = "canceled" => coins'[s] = coins[s] + IF row.side = "buy" THEN 0 ELSE back
      BY <1>4, <1>5, <2>3, CoinsMoved
    <3>. QED BY <1>2, <1>9, <2>3, <3>1
  <2>. QED BY <2>2, <2>3
<1>. QED BY <1>1, <1>11, <1>12, <1>13

LEMMA AccountMoves ==
    ASSUME Ledger, AccountInv, NEW i \in DOMAIN orders, NEW row \in BookRow, Moves(i, row)
    PROVE  AccountInv'
<1>. DEFINE m == Len(orders)
<1>1. /\ orders \in Seq(BookRow) /\ orders' \in Seq(BookRow) /\ Len(orders') = m /\ m \in Nat
      /\ DOMAIN orders = 1..m /\ orders'[i] = row /\ \A j \in DOMAIN orders : j # i => orders'[j] = orders[j]
  BY MovesRows DEF Ledger
<1>2. row.sym = orders[i].sym /\ i \in 1..m
  BY <1>1 DEF Moves
<1>3. thb \in Int /\ coins \in [Pairs -> Nat] /\ Cash \in Int /\ orders[i] \in BookRow
  BY <1>1, <1>2, AmountsAssumption DEF Ledger, LiveTypeOK
<1>4. NetCash(row) \in Int /\ NetCash(orders[i]) \in Int /\ NetCoins(row) \in Int /\ NetCoins(orders[i]) \in Int
  BY <1>3, NetType
<1>. HIDE DEF m
<1>5. thb' = Cash + SumsOf(CashBy(orders'))[m]
  <2>. DEFINE v == CashBy(orders)
              w == CashBy(orders')
  <2>1. /\ Summable(v) /\ Summable(w) /\ At(w, i) = NetCash(row) /\ At(v, i) = NetCash(orders[i])
        /\ \A k \in 1..m : k # i => At(v, k) = At(w, k)
    BY <1>1, <1>2, NetSums DEF m
  <2>2. thb = Cash + SumsOf(v)[m]
    BY DEF AccountInv, m
  <2>. HIDE DEF v, w
  <2>3. SumsOf(w)[m] = SumsOf(v)[m] + At(w, i) - At(v, i)
    BY <1>1, <1>2, <2>1, SumsPoint
  <2>4. SumsOf(v)[m] \in Int
    BY <1>1, <2>1, SumsType
  <2>5. thb' = thb + NetCash(row) - NetCash(orders[i])
    BY NetMoved
  <2>. QED BY <1>3, <1>4, <2>1, <2>2, <2>3, <2>4, <2>5 DEF w
<1>6. ASSUME NEW s \in Pairs
      PROVE  /\ coins'[s] = SumsOf(CoinsBy(orders', s))[m]
             /\ \A n \in 0..m : SumsOf(CoinsBy(orders', s))[n] >= 0
  <2>. DEFINE v == CoinsBy(orders, s)
              w == CoinsBy(orders', s)
  <2>1. /\ Summable(v) /\ Summable(w)
        /\ At(w, i) = IF row.sym = s THEN NetCoins(row) ELSE 0
        /\ At(v, i) = IF row.sym = s THEN NetCoins(orders[i]) ELSE 0
        /\ \A k \in 1..m : k # i => At(v, k) = At(w, k)
    BY <1>1, <1>2, NetSums DEF m
  <2>2. coins[s] = SumsOf(v)[m] /\ \A n \in 0..m : SumsOf(v)[n] >= 0
    BY DEF AccountInv, m
  <2>. HIDE DEF v, w
  <2>3. NetCoins(orders[i]) <= NetCoins(row)
    BY NetMoved
  <2>4. coins'[s] = coins[s] + IF row.sym = s THEN NetCoins(row) - NetCoins(orders[i]) ELSE 0
    BY NetMoved
  <2>5. coins'[s] = SumsOf(w)[m]
    <3>1. SumsOf(w)[m] = SumsOf(v)[m] + At(w, i) - At(v, i)
      BY <1>1, <1>2, <2>1, SumsPoint
    <3>2. SumsOf(v)[m] \in Int
      BY <1>1, <2>1, SumsType
    <3>. QED BY <1>4, <2>1, <2>2, <2>4, <3>1, <3>2
  <2>6. ASSUME NEW n \in 0..m PROVE SumsOf(w)[n] >= 0
    <3>1. n \in Nat /\ n <= m
      BY <1>1
    <3>2. \A k \in 1..n : At(v, k) <= At(w, k)
      <4>. SUFFICES ASSUME NEW k \in 1..n PROVE At(v, k) <= At(w, k)
        OBVIOUS
      <4>1. At(v, k) \in Int /\ k \in 1..m
        BY <1>1, <2>1, <3>1, AtType
      <4>2. CASE k = i
        BY <1>4, <2>1, <2>3, <4>2
      <4>3. CASE k # i
        BY <2>1, <4>1, <4>3
      <4>. QED BY <4>2, <4>3
    <3>3. SumsOf(v)[n] <= SumsOf(w)[n]
      BY <2>1, <3>1, <3>2, SumsGrow
    <3>4. SumsOf(v)[n] >= 0 /\ SumsOf(v)[n] \in Int /\ SumsOf(w)[n] \in Int
      BY <2>1, <2>2, <3>1, SumsType
    <3>. QED BY <3>3, <3>4
  <2>. QED BY <2>5, <2>6 DEF w
<1>. QED BY <1>1, <1>5, <1>6 DEF AccountInv, m

LEMMA AccountKept == LiveSpec => []AccountInv
<1>1. LiveInit => AccountInv
  <2>. SUFFICES ASSUME LiveInit PROVE AccountInv
    OBVIOUS
  <2>1. orders \in Seq(BookRow) /\ Len(orders) = 0 /\ thb = Cash
    BY DEF LiveInit
  <2>2. SumsOf(CashBy(orders))[0] = 0
    BY <2>1, NetSums, SumsType
  <2>3. \A s \in Pairs : SumsOf(CoinsBy(orders, s))[0] = 0 /\ coins[s] = 0
    BY <2>1, NetSums, SumsType DEF LiveInit
  <2>. QED BY <2>1, <2>2, <2>3, AmountsAssumption DEF AccountInv
<1>2. Ledger /\ AccountInv /\ [LiveNext]_live => AccountInv'
  <2>. SUFFICES ASSUME Ledger, AccountInv, [LiveNext]_live PROVE AccountInv'
    OBVIOUS
  <2>1. CASE UNCHANGED Account
    BY <2>1 DEF Account, AccountInv
  <2>. QED BY <2>1, StepKinds, AccountSent, AccountMoves
<1>. QED BY <1>1, <1>2, LedgerOK, PTL DEF LiveSpec

-----------------------------------------------------------------------------
(* What the books say.                                                     *)

LEMMA SumsMinus ==
    ASSUME NEW v, Summable(v), NEW w, Summable(w), NEW n \in Nat, \A k \in 1..n : At(w, k) = -At(v, k)
    PROVE  SumsOf(w)[n] = -SumsOf(v)[n]
<1>. DEFINE T == {k \in Nat : k <= n => SumsOf(w)[k] = -SumsOf(v)[k]}
<1>1. 0 \in T
  BY SumsType
<1>2. ASSUME NEW k \in Nat, k \in T PROVE k + 1 \in T
  <2>. SUFFICES ASSUME k + 1 <= n PROVE SumsOf(w)[k + 1] = -SumsOf(v)[k + 1]
    OBVIOUS
  <2>1. SumsOf(w)[k] = -SumsOf(v)[k] /\ At(w, k + 1) = -At(v, k + 1)
    BY <1>2
  <2>2. /\ SumsOf(v)[k + 1] = SumsOf(v)[k] + At(v, k + 1)
        /\ SumsOf(w)[k + 1] = SumsOf(w)[k] + At(w, k + 1)
        /\ SumsOf(v)[k] \in Int /\ At(v, k + 1) \in Int
    BY SumsType
  <2>. QED BY <2>1, <2>2
<1>3. Nat \subseteq T
  <2>. HIDE DEF T
  <2>. QED BY <1>1, <1>2, Induct
<1>. QED BY <1>3

\* The coins in the lots that some rows leave.
Held(rows) == Books(FilledRows(rows)).lots

LEMMA HeldIs ==
    ASSUME NEW rows \in Seq(BookRow), NEW s \in Pairs
    PROVE  /\ Held(rows)[s] \in Seq(Lot) /\ Len(Held(rows)[s]) \in Nat
           /\ Held(rows)[s] = BooksAfter(FilledRows(rows))[Len(rows)].lots[s]
<1>1. /\ Bookable(FilledRows(rows)) /\ DOMAIN FilledRows(rows) \subseteq 1..Len(rows) /\ Len(rows) \in Nat
  BY LedgerBookable
<1>2. Books(FilledRows(rows)) = BooksAfter(FilledRows(rows))[Len(rows)]
  BY <1>1, BooksReached
<1>3. BooksAfter(FilledRows(rows))[Len(rows)].lots[s] \in Seq(Lot)
  BY <1>1, LotsNext
<1>. QED BY <1>2, <1>3 DEF Held

\* A row that is filled behind all others of its symbol is entered last.
\* The coins that filled rows bring to a symbol.
CoinsIn(row) == IF row.side = "buy" THEN LotCoins(LotOf(row)) ELSE -row.amt
FilledCoins(filled, s) == [i \in DOMAIN filled |-> IF filled[i].sym = s THEN CoinsIn(filled[i]) ELSE 0]

LEMMA CoinsInOK ==
    ASSUME NEW row \in BookRow
    PROVE  CoinsIn(row) \in Int /\ (row.side = "buy" => LotOf(row) \in Lot /\ LotCoins(LotOf(row)) \in Nat)
<1>1. row.amt \in Nat /\ (row.side = "buy" => LotOf(row) \in Lot /\ LotCoins(LotOf(row)) \in Nat)
  BY BookOK, HalfOK, SharesOK
<1>. QED BY <1>1 DEF CoinsIn

LEMMA FilledSums ==
    ASSUME NEW filled, Bookable(filled), NEW s
    PROVE  /\ Summable(FilledCoins(filled, s))
           /\ \A k : At(FilledCoins(filled, s), k)
                        = IF k \in DOMAIN filled /\ filled[k].sym = s THEN CoinsIn(filled[k]) ELSE 0
<1>. DEFINE v == FilledCoins(filled, s)
<1>1. DOMAIN v = DOMAIN filled /\ \A i \in DOMAIN v : v[i] = IF filled[i].sym = s THEN CoinsIn(filled[i]) ELSE 0
  BY DEF FilledCoins
<1>2. \A i \in DOMAIN filled : CoinsIn(filled[i]) \in Int
  BY CoinsInOK DEF Bookable
<1>. HIDE DEF v
<1>3. Summable(v)
  BY <1>1, <1>2 DEF Summable, Bookable
<1>. QED BY <1>1, <1>3 DEF At, v

\* Where no more coins are sold than were bought, the lots are the difference.
LEMMA LotsCounted ==
    ASSUME NEW filled, Bookable(filled), NEW s \in Pairs, NEW m \in Nat,
           \A n \in 0..m : SumsOf(FilledCoins(filled, s))[n] >= 0
    PROVE  \A n \in 0..m : Len(BooksAfter(filled)[n].lots[s]) = SumsOf(FilledCoins(filled, s))[n]
<1>. DEFINE v == FilledCoins(filled, s)
            A(n) == BooksAfter(filled)[n].lots[s]
            T == {n \in Nat : n <= m => Len(A(n)) = SumsOf(v)[n]}
<1>0. Summable(v)
  BY FilledSums
<1>1. 0 \in T
  <2>1. A(0) = <<>> /\ Len(<<>>) = 0
    BY BooksNext, NoBooksOK
  <2>2. SumsOf(v)[0] = 0
    BY <1>0, SumsType
  <2>. HIDE DEF A, v
  <2>. QED BY <2>1, <2>2
<1>2. ASSUME NEW n \in Nat, n \in T PROVE n + 1 \in T
  <2>. SUFFICES ASSUME n + 1 <= m PROVE Len(A(n + 1)) = SumsOf(v)[n + 1]
    OBVIOUS
  <2>1. Len(A(n)) = SumsOf(v)[n]
    BY <1>2
  <2>2. PICK lots \in Seq(Lot) : lots = A(n) /\ Len(lots) \in Nat
    BY LotsNext
  <2>3. SumsOf(v)[n + 1] = SumsOf(v)[n] + At(v, n + 1)
    <3>. HIDE DEF v
    <3>. QED BY <1>0, SumsType
  <2>4. SumsOf(v)[n + 1] >= 0
    OBVIOUS
  <2>5. CASE n + 1 \in DOMAIN filled /\ filled[n + 1].sym = s
    <3>1. PICK row \in BookRow : row = filled[n + 1]
      BY <2>5 DEF Bookable
    <3>2. A(n + 1) = LotsAfter(row, lots)
      BY <2>2, <2>5, <3>1, LotsNext
    <3>3. At(v, n + 1) = CoinsIn(row)
      BY <2>5, <3>1, FilledSums
    <3>. HIDE DEF A, v
    <3>4. CASE row.side = "buy"
      <4>1. Len(LotsAfter(row, lots)) = Len(lots) + LotCoins(LotOf(row))
        BY <3>4, LotsAfterOK
      <4>. QED BY <2>1, <2>2, <2>3, <3>2, <3>3, <3>4, <4>1 DEF CoinsIn
    <3>5. CASE row.side = "sell"
      <4>1. Len(LotsAfter(row, lots)) = Len(lots) - Taken(row, lots)
        BY <3>5, LotsAfterOK
      <4>2. At(v, n + 1) = -row.amt /\ row.amt \in Nat
        BY <3>3, <3>5, HalfOK DEF CoinsIn
      <4>3. row.amt <= Len(lots)
        BY <2>1, <2>2, <2>3, <2>4, <4>2
      <4>4. Taken(row, lots) = row.amt
        BY <4>3 DEF Taken
      <4>. QED BY <2>1, <2>2, <2>3, <3>2, <4>1, <4>2, <4>4
    <3>. QED BY <3>4, <3>5, HalfOK
  <2>6. CASE ~(n + 1 \in DOMAIN filled /\ filled[n + 1].sym = s)
    <3>1. A(n + 1) = A(n)
      BY <2>6, LotsNext
    <3>2. At(v, n + 1) = 0
      BY <2>6, FilledSums
    <3>. HIDE DEF A, v
    <3>. QED BY <2>1, <2>2, <2>3, <3>1, <3>2
  <2>. QED BY <2>5, <2>6
<1>3. Nat \subseteq T
  <2>. HIDE DEF T
  <2>. QED BY <1>1, <1>2, Induct
<1>. QED BY <1>3

\* What a row adds to or takes from the worth of the lots.
BuyWorth(kind, row) == IF kind = "cost" THEN Budget ELSE BookFee(row)

LEMMA WorthAfter ==
    ASSUME NEW row \in BookRow, NEW lots \in Seq(Lot), NEW kind
    PROVE  /\ Worth(kind, lots) \in Int /\ Worth(kind, LotsAfter(row, lots)) \in Int
           /\ Worth(kind, SubSeq(lots, 1, Taken(row, lots))) \in Int
           /\ row.side = "buy" => Worth(kind, LotsAfter(row, lots)) = Worth(kind, lots) + BuyWorth(kind, row)
           /\ row.side = "sell" =>
                Worth(kind, LotsAfter(row, lots))
                   = Worth(kind, lots) - Worth(kind, SubSeq(lots, 1, Taken(row, lots)))
<1>1. PICK after \in Seq(Lot), sold \in Seq(Lot), taken \in 0..Len(lots) :
         after = LotsAfter(row, lots) /\ sold = SubSeq(lots, 1, Taken(row, lots)) /\ taken = Taken(row, lots)
  BY LotsAfterOK
<1>2. Len(lots) \in Nat /\ Len(after) \in Nat /\ Len(sold) \in Nat
  OBVIOUS
<1>3. \A l \in Seq(Lot) : \E f :
         /\ Summable(f) /\ Worth(kind, l) = SumsOf(f)[Len(l)] /\ Worth(kind, l) \in Int
         /\ \A c \in 1..Len(l) : At(f, c) = Shares(kind, l[c])
  BY WorthType
<1>4. PICK u : /\ Summable(u) /\ Worth(kind, lots) = SumsOf(u)[Len(lots)] /\ Worth(kind, lots) \in Int
               /\ \A c \in 1..Len(lots) : At(u, c) = Shares(kind, lots[c])
  BY <1>3
<1>5. PICK v : /\ Summable(v) /\ Worth(kind, after) = SumsOf(v)[Len(after)] /\ Worth(kind, after) \in Int
               /\ \A c \in 1..Len(after) : At(v, c) = Shares(kind, after[c])
  BY <1>3
<1>6. PICK x : /\ Summable(x) /\ Worth(kind, sold) = SumsOf(x)[Len(sold)] /\ Worth(kind, sold) \in Int
               /\ \A c \in 1..Len(sold) : At(x, c) = Shares(kind, sold[c])
  BY <1>3
<1>7. ASSUME row.side = "buy" PROVE Worth(kind, after) = Worth(kind, lots) + BuyWorth(kind, row)
  <2>1. PICK lot \in Lot, n \in Nat : lot = LotOf(row) /\ n = LotCoins(lot) /\ lot.fee = BookFee(row)
    BY <1>7, BookOK, SharesOK
  <2>. DEFINE share == Shares(kind, lot)
              w == [c \in 1..n |-> share]
  <2>2. share \in Int /\ n * share = BuyWorth(kind, row)
    BY <2>1, SharesOK DEF BuyWorth
  <2>. HIDE DEF share
  <2>3. Summable(w) /\ \A c \in 1..n : At(w, c) = share
    BY <2>1, <2>2 DEF Summable, At
  <2>. HIDE DEF w
  <2>4. /\ Len(after) = Len(lots) + n
        /\ \A c \in 1..Len(lots) : after[c] = lots[c]
        /\ \A c \in 1..n : after[Len(lots) + c] = lot
    BY <1>1, <1>7, <2>1, LotsAfterOK
  <2>5. \A c \in 1..Len(lots) : At(v, c) = At(u, c)
    BY <1>2, <1>4, <1>5, <1>6, <2>1, <2>4
  <2>6. \A c \in 1..n : At(v, Len(lots) + c) = At(w, c)
    <3>1. \A c \in 1..n : Len(lots) + c \in 1..Len(after)
      BY <1>2, <2>1, <2>4
    <3>2. ASSUME NEW c \in 1..n PROVE At(v, Len(lots) + c) = share
      <4>1. At(v, Len(lots) + c) = Shares(kind, after[Len(lots) + c])
        BY <1>5, <3>1
      <4>. QED BY <2>4, <4>1 DEF share
    <3>. QED BY <2>3, <3>2
  <2>7. Joins(v, u, w, Len(lots), n)
    <3>1. Summable(v) /\ Summable(u) /\ Summable(w)
      BY <1>4, <1>5, <2>3
    <3>2. Len(lots) \in Nat /\ n \in Nat
      BY <1>2, <2>1
    <3>3. \A k \in 1..Len(lots) : At(v, k) = At(u, k)
      BY <2>5
    <3>4. \A k \in 1..n : At(v, Len(lots) + k) = At(w, k)
      BY <2>6
    <3>. QED BY <3>1, <3>2, <3>3, <3>4, Zenon DEF Joins
  <2>8. SumsOf(v)[Len(lots) + n] = SumsOf(u)[Len(lots)] + SumsOf(w)[n]
    BY <2>7, SumsSplit
  <2>9. SumsOf(w)[n] = n * share
    BY <2>1, <2>2, <2>3, SumsConstant
  <2>. QED BY <1>4, <1>5, <2>2, <2>4, <2>8, <2>9
<1>8. ASSUME row.side = "sell" PROVE Worth(kind, after) = Worth(kind, lots) - Worth(kind, sold)
  <2>1. /\ Len(after) = Len(lots) - taken /\ Len(sold) = taken /\ taken \in Nat
        /\ taken + Len(after) = Len(lots)
        /\ \A c \in 1..taken : sold[c] = lots[c]
        /\ \A c \in 1..Len(after) : after[c] = lots[taken + c]
    <3>1. Len(after) = Len(lots) - taken /\ \A c \in 1..(Len(lots) - taken) : after[c] = lots[taken + c]
      BY <1>1, <1>8, LotsAfterOK
    <3>2. Len(sold) = taken /\ \A c \in 1..taken : sold[c] = lots[c]
      BY <1>1, LotsAfterOK
    <3>3. taken \in Nat /\ taken + (Len(lots) - taken) = Len(lots)
      BY <1>2
    <3>. QED BY <3>1, <3>2, <3>3
  <2>2. ASSUME NEW c \in 1..taken PROVE At(u, c) = At(x, c)
    <3>1. c \in 1..Len(lots)
      BY <1>2, <2>1
    <3>2. At(u, c) = Shares(kind, lots[c])
      BY <1>4, <3>1
    <3>. QED BY <1>6, <2>1, <3>2
  <2>3. \A c \in 1..Len(after) : At(u, taken + c) = At(v, c)
    <3>1. \A c \in 1..Len(after) : taken + c \in 1..Len(lots)
      BY <1>2, <2>1
    <3>2. ASSUME NEW c \in 1..Len(after) PROVE At(u, taken + c) = At(v, c)
      <4>1. At(u, taken + c) = Shares(kind, lots[taken + c])
        BY <1>4, <3>1
      <4>. QED BY <1>5, <2>1, <4>1
    <3>. QED BY <3>2
  <2>4. Joins(u, x, v, taken, Len(after))
    BY <1>2, <1>4, <1>5, <1>6, <2>1, <2>2, <2>3, Zenon DEF Joins
  <2>5. SumsOf(u)[taken + Len(after)] = SumsOf(x)[taken] + SumsOf(v)[Len(after)]
    BY <2>4, SumsSplit
  <2>. QED BY <1>4, <1>5, <1>6, <2>1, <2>5
<1>. QED BY <1>1, <1>4, <1>5, <1>6, <1>7, <1>8

\* What a closed trade has given back of the worth of the lots: a sell gives the
\* cost of the coins less the profit, or their fees.
Value(kind, trade) == IF kind = "cost" THEN -trade.pnl ELSE trade.fee
RowValue(kind, row) ==
    IF row.side = "buy" THEN BuyWorth(kind, row)
    ELSE IF kind = "cost" THEN BookFee(row) - row.amt * BookRate(row) ELSE BookFee(row)

ClosedValues(kind, closed) == [i \in DOMAIN closed |-> Value(kind, closed[i])]
LotValues(kind, lots) == [s \in Pairs |-> Worth(kind, lots[s])]
RowValues(kind, filled) == [i \in DOMAIN filled |-> RowValue(kind, filled[i])]

LEMMA RowValueType ==
    ASSUME NEW kind, NEW row \in BookRow
    PROVE  RowValue(kind, row) \in Int /\ BuyWorth(kind, row) \in Int /\ row.amt * BookRate(row) \in Int
<1>1. PICK amt \in Nat, rate \in Nat, fee \in Nat : amt = row.amt /\ rate = BookRate(row) /\ fee = BookFee(row)
  BY HalfOK, BookOK
<1>2. amt * rate \in Int
  OBVIOUS
<1>. QED BY <1>1, <1>2, AmountsAssumption DEF RowValue, BuyWorth

LEMMA ValueSums ==
    ASSUME NEW filled, Bookable(filled), NEW kind, NEW n \in Nat
    PROVE  LET closed == BooksAfter(filled)[n].closed
               lots == BooksAfter(filled)[n].lots
           IN /\ Summable(ClosedValues(kind, closed))
              /\ \A k : At(ClosedValues(kind, closed), k) = IF k \in DOMAIN closed THEN Value(kind, closed[k]) ELSE 0
              /\ Summable(LotValues(kind, lots))
              /\ \A s \in Pairs : At(LotValues(kind, lots), s) = Worth(kind, lots[s])
              /\ Summable(RowValues(kind, filled))
              /\ \A k : At(RowValues(kind, filled), k) = IF k \in DOMAIN filled THEN RowValue(kind, filled[k]) ELSE 0
<1>. DEFINE closed == BooksAfter(filled)[n].closed
            lots == BooksAfter(filled)[n].lots
            c == ClosedValues(kind, closed)
            l == LotValues(kind, lots)
            r == RowValues(kind, filled)
<1>1. DOMAIN closed \subseteq 1..n /\ \A i \in DOMAIN closed : closed[i] \in Trade
  BY ClosedNext
<1>2. \A s \in Pairs : lots[s] \in Seq(Lot)
  BY LotsNext
<1>. HIDE DEF closed, lots
<1>3. DOMAIN c = DOMAIN closed /\ \A i \in DOMAIN c : c[i] = Value(kind, closed[i])
  BY DEF ClosedValues
<1>4. DOMAIN l = Pairs /\ \A s \in Pairs : l[s] = Worth(kind, lots[s])
  BY DEF LotValues
<1>5. DOMAIN r = DOMAIN filled /\ \A i \in DOMAIN r : r[i] = RowValue(kind, filled[i])
  BY DEF RowValues
<1>. HIDE DEF c, l, r
<1>6. Summable(c)
  <2>1. \A trade \in Trade : Value(kind, trade) \in Int
    BY DEF Value, Trade
  <2>. QED BY <1>1, <1>3, <2>1 DEF Summable
<1>7. Summable(l)
  <2>1. \A s \in Pairs : Worth(kind, lots[s]) \in Int
    BY <1>2, WorthType
  <2>. QED BY <1>4, <2>1, PairsAreNumbers DEF Summable
<1>8. Summable(r)
  BY <1>5, RowValueType DEF Summable, Bookable
<1>. QED BY <1>3, <1>4, <1>5, <1>6, <1>7, <1>8 DEF At, closed, lots, c, l, r

\* Two functions have the same values for all numbers up to n but i.
Differs(v, w, n, i) ==
    /\ Summable(v) /\ Summable(w) /\ n \in Nat /\ i \in 1..n
    /\ \A k \in 1..n : k # i => At(v, k) = At(w, k)

LEMMA SumsDiffer ==
    ASSUME NEW v, NEW w, NEW n, NEW i, Differs(v, w, n, i)
    PROVE  SumsOf(w)[n] = SumsOf(v)[n] + At(w, i) - At(v, i)
<1>1. /\ Summable(v) /\ Summable(w) /\ n \in Nat /\ i \in 1..n
      /\ \A k \in 1..n : k # i => At(v, k) = At(w, k)
  BY DEF Differs
<1>. QED BY <1>1, SumsPoint

\* Filled rows that sell no more than what is there.
Covered(filled) ==
    \A n \in Nat : n + 1 \in DOMAIN filled /\ filled[n + 1].side = "sell" =>
        filled[n + 1].amt <= Len(BooksAfter(filled)[n].lots[filled[n + 1].sym])

\* What has gone into the lots is in the lots or in the closed trades.
LEMMA ValuesStep ==
    ASSUME NEW filled, Bookable(filled), Covered(filled), NEW kind \in {"cost", "fee"},
           NEW m \in Nat, NEW p \in Nat, Pairs = 1..p, NEW n \in Nat, n + 1 <= m
    PROVE  SumsOf(ClosedValues(kind, BooksAfter(filled)[n + 1].closed))[m]
              + SumsOf(LotValues(kind, BooksAfter(filled)[n + 1].lots))[p]
           = SumsOf(ClosedValues(kind, BooksAfter(filled)[n].closed))[m]
              + SumsOf(LotValues(kind, BooksAfter(filled)[n].lots))[p]
              + At(RowValues(kind, filled), n + 1)
<1>. DEFINE books == BooksAfter(filled)[n]
            next == BooksAfter(filled)[n + 1]
            c == ClosedValues(kind, books.closed)
            d == ClosedValues(kind, next.closed)
            l == LotValues(kind, books.lots)
            k == LotValues(kind, next.lots)
            r == At(RowValues(kind, filled), n + 1)
<1>1. /\ Summable(c) /\ Summable(d) /\ Summable(l) /\ Summable(k)
      /\ \A i : At(c, i) = IF i \in DOMAIN books.closed THEN Value(kind, books.closed[i]) ELSE 0
      /\ \A i : At(d, i) = IF i \in DOMAIN next.closed THEN Value(kind, next.closed[i]) ELSE 0
      /\ \A s \in Pairs : At(l, s) = Worth(kind, books.lots[s]) /\ At(k, s) = Worth(kind, next.lots[s])
      /\ r = IF n + 1 \in DOMAIN filled THEN RowValue(kind, filled[n + 1]) ELSE 0
  BY ValueSums
<1>2. SumsOf(c)[m] \in Int /\ SumsOf(d)[m] \in Int /\ SumsOf(l)[p] \in Int /\ SumsOf(k)[p] \in Int
  <2>. HIDE DEF c, d, l, k
  <2>. QED BY <1>1, SumsType
<1>3. CASE n + 1 \notin DOMAIN filled
  <2>1. next = books
    BY <1>3, BooksNext
  <2>2. c = d /\ l = k /\ r = 0
    BY <1>1, <1>3, <2>1
  <2>. HIDE DEF c, d, l, k, r
  <2>3. SumsOf(d)[m] + SumsOf(k)[p] = SumsOf(c)[m] + SumsOf(l)[p] + r
    BY <1>2, <2>2
  <2>. QED BY <2>3 DEF c, d, l, k, r
<1>4. CASE n + 1 \in DOMAIN filled
  <2>1. PICK row \in BookRow, sym \in Pairs : row = filled[n + 1] /\ sym = row.sym
    BY <1>4, HalfOK DEF Bookable
  <2>2. PICK lots \in Seq(Lot) : lots = books.lots[sym] /\ next.lots[sym] = LotsAfter(row, lots)
    BY <1>4, <2>1, LotsNext
  <2>3. \A s \in Pairs : s # sym => next.lots[s] = books.lots[s]
    BY <2>1, LotsNext
  <2>4. SumsOf(k)[p] = SumsOf(l)[p] + Worth(kind, LotsAfter(row, lots)) - Worth(kind, lots)
    <3>1. At(l, sym) = Worth(kind, lots) /\ At(k, sym) = Worth(kind, LotsAfter(row, lots))
      BY <1>1, <2>2
    <3>2. \A s \in 1..p : s # sym => At(l, s) = At(k, s)
      BY <1>1, <2>3
    <3>3. sym \in 1..p
      OBVIOUS
    <3>. HIDE DEF l, k
    <3>4. SumsOf(k)[p] = SumsOf(l)[p] + At(k, sym) - At(l, sym)
      <4>1. Summable(l) /\ Summable(k) /\ p \in Nat
        BY <1>1
      <4>2. Differs(l, k, p, sym)
        BY <3>2, <3>3, <4>1, Zenon DEF Differs
      <4>. QED BY <4>2, SumsDiffer
    <3>. QED BY <3>1, <3>4
  <2>5. /\ Closes(filled, n) <=> row.side = "sell" /\ lots # <<>>
        /\ r = RowValue(kind, row)
    BY <1>1, <1>4, <2>1, <2>2 DEF Closes
  <2>6. /\ Worth(kind, lots) \in Int /\ Worth(kind, LotsAfter(row, lots)) \in Int
        /\ RowValue(kind, row) \in Int
    BY WorthAfter, RowValueType
  <2>7. CASE row.side = "buy"
    <3>1. next.closed = books.closed
      BY <2>5, <2>7, ClosedNext
    <3>2. c = d
      BY <3>1
    <3>3. RowValue(kind, row) = BuyWorth(kind, row) /\ BuyWorth(kind, row) \in Int
      BY <2>7, RowValueType DEF RowValue
    <3>4. Worth(kind, LotsAfter(row, lots)) = Worth(kind, lots) + BuyWorth(kind, row)
      BY <2>7, WorthAfter
    <3>. HIDE DEF c, d, l, k, r
    <3>5. SumsOf(d)[m] + SumsOf(k)[p] = SumsOf(c)[m] + SumsOf(l)[p] + r
      BY <1>2, <2>4, <2>5, <2>6, <3>2, <3>3, <3>4
    <3>. QED BY <3>5 DEF c, d, l, k, r
  <2>8. CASE row.side = "sell"
    <3>1. PICK sold : sold = SubSeq(lots, 1, Taken(row, lots))
      OBVIOUS
    <3>2. row.amt <= Len(lots) /\ row.amt \in Nat \ {0} /\ Len(lots) \in Nat
      <4>1. filled[n + 1].side = "sell"
        BY <2>1, <2>8
      <4>2. filled[n + 1].amt <= Len(BooksAfter(filled)[n].lots[filled[n + 1].sym])
        BY <1>4, <4>1 DEF Covered
      <4>3. BooksAfter(filled)[n].lots[filled[n + 1].sym] = lots
        BY <2>1, <2>2
      <4>4. row.amt \in Nat \ {0} /\ Len(lots) \in Nat
        BY HalfOK
      <4>. QED BY <2>1, <4>2, <4>3, <4>4
    <3>3. Taken(row, lots) = row.amt /\ lots # <<>>
      BY <3>2 DEF Taken
    <3>4. Closes(filled, n)
      BY <2>5, <2>8, <3>3
    <3>5. /\ DOMAIN next.closed = DOMAIN books.closed \cup {n + 1} /\ n + 1 \notin DOMAIN books.closed
          /\ next.closed[n + 1] = Closed(row, lots)
          /\ \A i \in DOMAIN books.closed : next.closed[i] = books.closed[i]
      BY <2>1, <2>2, <3>4, ClosedNext
    <3>6. Value(kind, Closed(row, lots)) = RowValue(kind, row) + Worth(kind, sold) /\ Worth(kind, sold) \in Int
      <4>1. /\ Closed(row, lots).fee = BookFee(row) + Worth("fee", sold)
            /\ Closed(row, lots).pnl = row.amt * BookRate(row) - BookFee(row) - Worth("cost", sold)
        BY <3>1, <3>3, ClosedOK
      <4>2. Worth("fee", sold) \in Int /\ Worth("cost", sold) \in Int
        BY <3>1, WorthAfter
      <4>3. row.amt * BookRate(row) \in Int /\ BookFee(row) \in Int
        <5>1. row.amt * BookRate(row) \in Int
          BY RowValueType
        <5>2. BookFee(row) \in Nat
          BY BookOK
        <5>. QED BY <5>1, <5>2
      <4>4. PICK paid \in Int, fee \in Int : paid = row.amt * BookRate(row) /\ fee = BookFee(row)
        BY <4>3, Zenon
      <4>. QED BY <2>8, <4>1, <4>2, <4>4 DEF Value, RowValue
    <3>7. Worth(kind, LotsAfter(row, lots)) = Worth(kind, lots) - Worth(kind, sold)
      BY <2>8, <3>1, WorthAfter
    <3>8. /\ \A i \in 1..m : i # n + 1 => At(c, i) = At(d, i)
          /\ At(d, n + 1) = RowValue(kind, row) + Worth(kind, sold) /\ At(c, n + 1) = 0
      <4>. HIDE DEF c, d, books, next
      <4>. QED BY <1>1, <3>5, <3>6
    <3>. HIDE DEF c, d, l, k, r
    <3>9. SumsOf(d)[m] = SumsOf(c)[m] + At(d, n + 1) - At(c, n + 1)
      <4>1. n + 1 \in 1..m
        OBVIOUS
      <4>2. Summable(c) /\ Summable(d) /\ m \in Nat
        BY <1>1
      <4>3. \A i \in 1..m : i # n + 1 => At(c, i) = At(d, i)
        BY <3>8
      <4>4. Differs(c, d, m, n + 1)
        BY <4>1, <4>2, <4>3, Zenon DEF Differs
      <4>. QED BY <4>4, SumsDiffer
    <3>10. SumsOf(d)[m] + SumsOf(k)[p] = SumsOf(c)[m] + SumsOf(l)[p] + r
      <4>1. SumsOf(k)[p] = SumsOf(l)[p] - Worth(kind, sold)
        BY <1>2, <2>4, <2>6, <3>6, <3>7
      <4>2. SumsOf(d)[m] = SumsOf(c)[m] + RowValue(kind, row) + Worth(kind, sold)
        BY <1>2, <2>6, <3>6, <3>8, <3>9
      <4>3. r = RowValue(kind, row) /\ RowValue(kind, row) \in Int /\ Worth(kind, sold) \in Int
        BY <2>5, <2>6, <3>6
      <4>. QED BY <1>2, <4>1, <4>2, <4>3
    <3>. QED BY <3>10 DEF c, d, l, k, r
  <2>. QED BY <2>7, <2>8, HalfOK
<1>. QED BY <1>3, <1>4

\* Lots of no coins are worth nothing.
LEMMA NoWorth ==
    ASSUME NEW kind
    PROVE  Worth(kind, <<>>) = 0
<1>1. <<>> \in Seq(Lot) /\ Len(<<>>) = 0
  OBVIOUS
<1>2. PICK v : Summable(v) /\ Worth(kind, <<>>) = SumsOf(v)[0]
  BY <1>1, WorthType
<1>. QED BY <1>2, SumsType

\* What the filled rows up to n are worth is in the lots and the closed trades.
LEMMA ValuesKept ==
    ASSUME NEW filled, Bookable(filled), Covered(filled), NEW kind \in {"cost", "fee"},
           NEW m \in Nat, NEW p \in Nat, Pairs = 1..p
    PROVE  SumsOf(ClosedValues(kind, BooksAfter(filled)[m].closed))[m]
              + SumsOf(LotValues(kind, BooksAfter(filled)[m].lots))[p]
           = SumsOf(RowValues(kind, filled))[m]
<1>. DEFINE C(n) == SumsOf(ClosedValues(kind, BooksAfter(filled)[n].closed))[m]
            L(n) == SumsOf(LotValues(kind, BooksAfter(filled)[n].lots))[p]
            R(n) == SumsOf(RowValues(kind, filled))[n]
            T == {n \in Nat : n <= m => C(n) + L(n) = R(n)}
<1>1. 0 \in T
  <2>. DEFINE closed == BooksAfter(filled)[0].closed
              lots == BooksAfter(filled)[0].lots
              c == ClosedValues(kind, closed)
              l == LotValues(kind, lots)
              r == RowValues(kind, filled)
  <2>1. DOMAIN closed = {} /\ \A s \in Pairs : lots[s] = <<>>
    BY BooksNext, NoBooksOK
  <2>2. /\ Summable(c) /\ Summable(l) /\ Summable(r)
        /\ \A k : At(c, k) = IF k \in DOMAIN closed THEN Value(kind, closed[k]) ELSE 0
        /\ \A s \in Pairs : At(l, s) = Worth(kind, lots[s])
    BY ValueSums
  <2>3. /\ \A k \in 1..m : At(c, k) = 0
        /\ \A k \in 1..p : At(l, k) = 0
    <3>. HIDE DEF closed, lots, c, l
    <3>. QED BY <2>1, <2>2, NoWorth
  <2>. HIDE DEF c, l, r
  <2>4. SumsOf(c)[m] = m * 0 /\ SumsOf(l)[p] = p * 0 /\ SumsOf(r)[0] = 0
    <3>1. SumsOf(c)[m] = m * 0
      <4>1. Summable(c) /\ \A k \in 1..m : At(c, k) = 0
        BY <2>2, <2>3
      <4>. QED BY <4>1, SumsConstant
    <3>2. SumsOf(l)[p] = p * 0
      <4>1. Summable(l) /\ \A k \in 1..p : At(l, k) = 0
        BY <2>2, <2>3
      <4>. QED BY <4>1, SumsConstant
    <3>3. SumsOf(r)[0] = 0
      BY <2>2, SumsType
    <3>. QED BY <3>1, <3>2, <3>3
  <2>5. SumsOf(c)[m] + SumsOf(l)[p] = SumsOf(r)[0]
    BY <2>4
  <2>. QED BY <2>5 DEF c, l, r
<1>2. ASSUME NEW n \in Nat, n \in T PROVE n + 1 \in T
  <2>. SUFFICES ASSUME n + 1 <= m PROVE C(n + 1) + L(n + 1) = R(n + 1)
    OBVIOUS
  <2>1. C(n) + L(n) = R(n)
    BY <1>2
  <2>2. C(n + 1) + L(n + 1) = C(n) + L(n) + At(RowValues(kind, filled), n + 1)
    BY ValuesStep
  <2>3. R(n + 1) = R(n) + At(RowValues(kind, filled), n + 1)
    <3>1. Summable(RowValues(kind, filled))
      BY ValueSums
    <3>. QED BY <3>1, SumsType
  <2>. HIDE DEF C, L, R
  <2>. QED BY <2>1, <2>2, <2>3
<1>3. Nat \subseteq T
  <2>. HIDE DEF T
  <2>. QED BY <1>1, <1>2, Induct
<1>4. C(m) + L(m) = R(m)
  BY <1>3
<1>. QED BY <1>4

\* What an open row has given of its coins.
Pending(row) == row.state = "open" /\ row.side = "sell"
OpenSells(rows, s) == [i \in {i \in DOMAIN rows : rows[i].sym = s /\ Pending(rows[i])} |-> rows[i].amt]

\* What open buys have reserved.
Reserves(row) == row.state = "open" /\ row.side = "buy"
OpenBuys(rows) == [i \in {i \in DOMAIN rows : Reserves(rows[i])} |-> Budget]

\* A row of which no part is executed without the rest, and of which the books take what
\* happened.
Whole(row) == /\ row.part # 0 => row.state = "filled"
              /\ row.state = "filled" => Truthful(row)

\* Such a row has done to the account what the books say of it.
LEMMA WholeNet ==
    ASSUME NEW row \in BookRow, Whole(row)
    PROVE  /\ NetCoins(row) = IF row.state = "filled" THEN CoinsIn(row) ELSE IF Pending(row) THEN -row.amt ELSE 0
           /\ NetCash(row) = IF row.state = "filled" THEN -RowValue("cost", row)
                             ELSE IF Reserves(row) THEN -Budget ELSE 0
<1>1. PICK amt \in Nat \ {0}, budget \in Nat, sellfee \in Nat : amt = row.amt /\ budget = Budget /\ sellfee = SellFee
  BY HalfOK, AmountsAssumption
<1>2. row.side \in {"buy", "sell"} /\ row.state \in {"open", "filled", "canceled"}
  BY HalfOK
<1>3. CASE row.state # "filled"
  <2>1. row.part = 0 /\ Half(row) = 0
    BY <1>3 DEF Whole, Half
  <2>2. Rest(row, row.rate) = Coins(row, row.rate) /\ Unspent(row) = budget
    BY <1>1, <2>1 DEF Rest, Unspent
  <2>3. CASE row.side = "buy"
    <3>1. NetCoins(row) = 0 + 0 /\ NetCash(row) = (IF row.state = "canceled" THEN budget ELSE 0) - budget
      BY <1>1, <1>3, <2>1, <2>2, <2>3 DEF NetCoins, NetCash
    <3>. QED BY <1>1, <1>2, <1>3, <2>3, <3>1 DEF Pending, Reserves
  <2>4. CASE row.side = "sell"
    <3>1. Coins(row, row.rate) = amt
      BY <1>1, <2>4 DEF Coins
    <3>2. /\ NetCoins(row) = (IF row.state = "canceled" THEN amt ELSE 0) - amt
          /\ NetCash(row) = 0 * 0 + 0
      BY <1>1, <1>3, <2>1, <2>2, <2>4, <3>1 DEF NetCoins, NetCash
    <3>. QED BY <1>1, <1>2, <1>3, <2>4, <3>2 DEF Pending, Reserves
  <2>. QED BY <1>2, <2>3, <2>4
<1>4. CASE row.state = "filled"
  <2>1. /\ row.told # "nothing" /\ BookRate(row) = row.last /\ row.part \in {0, row.last}
        /\ row.last \in Nat \ {0} /\ (row.part # 0 => Halves(row, row.part))
    BY <1>4 DEF Whole, Truthful, BookRow, Order
  <2>2. PICK last \in Nat \ {0} : last = row.last
    BY <2>1
  <2>3. PICK n \in Nat : n = Coins(row, last)
    BY <2>2, CoinsOK DEF BookRow
  <2>4. PICK half \in Nat, rest \in Nat : half = Half(row) /\ rest = Rest(row, last)
    BY <1>4, <2>2, HalfOK
  <2>5. half + rest = n /\ (row.part = 0 => half = 0)
    <3>1. CASE row.part = 0
      BY <2>3, <2>4, <3>1 DEF Half, Rest
    <3>2. CASE row.part # 0
      <4>1. half = n \div 2 /\ rest = n \div 2 /\ n % 2 = 0
        BY <2>1, <2>2, <2>3, <2>4, <3>2 DEF Half, Rest, Halves
      <4>. QED BY <3>2, <4>1
    <3>. QED BY <3>1, <3>2
  <2>6. CASE row.side = "buy"
    <3>1. LotOf(row) = [rate |-> last, fee |-> BuyFee]
      BY <2>1, <2>2, <2>6 DEF LotOf, BookFee
    <3>2. LotCoins(LotOf(row)) = n
      BY <2>3, <2>6, <3>1 DEF LotCoins, Coins, Qty
    <3>3. NetCoins(row) = half + rest /\ NetCash(row) = 0 - budget
      BY <1>1, <1>4, <2>2, <2>4, <2>6 DEF NetCoins, NetCash
    <3>4. CoinsIn(row) = n /\ RowValue("cost", row) = budget
      BY <1>1, <2>6, <3>2 DEF CoinsIn, RowValue, BuyWorth
    <3>. QED BY <1>4, <2>5, <3>3, <3>4
  <2>7. CASE row.side = "sell"
    <3>1. n = amt
      BY <1>1, <2>3, <2>7 DEF Coins
    <3>2. NetCoins(row) = 0 - amt /\ CoinsIn(row) = -amt
      BY <1>1, <1>4, <2>7 DEF NetCoins, CoinsIn
    <3>3. NetCash(row) = half * row.part + (rest * last - sellfee) /\ RowValue("cost", row) = sellfee - amt * last
      BY <1>1, <1>4, <2>1, <2>2, <2>4, <2>7 DEF NetCash, RowValue, BookFee
    <3>4. half * row.part = half * last
      <4>1. 0 * row.part = 0 * last
        BY <2>1, <2>2
      <4>. QED BY <2>1, <2>2, <2>5, <4>1
    <3>5. half * last + rest * last = amt * last
      BY <2>5, <3>1
    <3>6. PICK a \in Int, b \in Int, c \in Int : a = half * last /\ b = rest * last /\ c = amt * last
      OBVIOUS
    <3>7. NetCash(row) = -RowValue("cost", row)
      BY <3>3, <3>4, <3>5, <3>6
    <3>. QED BY <1>1, <1>4, <3>2, <3>7
  <2>. QED BY <1>2, <2>6, <2>7
<1>. QED BY <1>3, <1>4

\* Where no part of an order is executed without the rest, the rows' coins are those of
\* the filled rows, less what open sells have reserved.
LEMMA CoinsOfRows ==
    ASSUME NEW rows \in Seq(BookRow), \A i \in DOMAIN rows : Whole(rows[i]),
           NEW s
    PROVE  LET c == CoinsBy(rows, s)
               f == FilledCoins(FilledRows(rows), s)
               o == OpenSells(rows, s)
           IN /\ Summable(c) /\ Summable(f) /\ Summable(o)
              /\ \A k \in 1..Len(rows) : At(f, k) = At(c, k) + At(o, k) /\ At(c, k) <= At(f, k)
              /\ \A n \in 0..Len(rows) :
                    /\ SumsOf(f)[n] = SumsOf(c)[n] + SumsOf(o)[n]
                    /\ SumsOf(c)[n] <= SumsOf(f)[n]
<1>. DEFINE c == CoinsBy(rows, s)
            f == FilledCoins(FilledRows(rows), s)
            o == OpenSells(rows, s)
            F == FilledRows(rows)
<1>1. /\ Len(rows) \in Nat /\ DOMAIN rows = 1..Len(rows) /\ \A i \in DOMAIN rows : rows[i] \in BookRow
      /\ Bookable(F) /\ DOMAIN F = FilledIds(rows) /\ \A i \in FilledIds(rows) : F[i] = rows[i]
  BY LedgerBookable
<1>2. /\ Summable(c) /\ Summable(f)
      /\ \A k \in 1..Len(rows) : At(c, k) = IF rows[k].sym = s THEN NetCoins(rows[k]) ELSE 0
      /\ \A k : At(f, k) = IF k \in DOMAIN F /\ F[k].sym = s THEN CoinsIn(F[k]) ELSE 0
  BY <1>1, NetSums, FilledSums
<1>3. /\ Summable(o)
      /\ \A k \in 1..Len(rows) : At(o, k) = IF rows[k].sym = s /\ Pending(rows[k]) THEN rows[k].amt ELSE 0
  <2>. DEFINE D == {i \in DOMAIN rows : rows[i].sym = s /\ Pending(rows[i])}
  <2>1. DOMAIN o = D /\ \A i \in D : o[i] = rows[i].amt
    BY DEF OpenSells
  <2>2. \A i \in DOMAIN rows : rows[i].amt \in Int
    BY <1>1, HalfOK
  <2>. HIDE DEF o
  <2>3. Summable(o)
    BY <1>1, <2>1, <2>2 DEF Summable
  <2>. QED BY <1>1, <2>1, <2>3 DEF At
<1>. HIDE DEF c, f, o, F
<1>4. ASSUME NEW k \in 1..Len(rows) PROVE At(f, k) = At(c, k) + At(o, k) /\ At(c, k) <= At(f, k)
  <2>1. PICK row \in BookRow : row = rows[k]
    BY <1>1
  <2>2. NetCoins(row) = IF row.state = "filled" THEN CoinsIn(row) ELSE IF Pending(row) THEN -row.amt ELSE 0
    BY <1>1, <2>1, WholeNet
  <2>3. /\ At(c, k) = IF row.sym = s THEN NetCoins(row) ELSE 0
        /\ At(f, k) = IF row.state = "filled" /\ row.sym = s THEN CoinsIn(row) ELSE 0
        /\ At(o, k) = IF row.sym = s /\ Pending(row) THEN row.amt ELSE 0
    BY <1>1, <1>2, <1>3, <2>1 DEF FilledIds
  <2>4. row.amt \in Nat /\ CoinsIn(row) \in Int
    BY HalfOK, CoinsInOK
  <2>. QED BY <2>2, <2>3, <2>4 DEF Pending
<1>5. ASSUME NEW n \in 0..Len(rows)
      PROVE  SumsOf(f)[n] = SumsOf(c)[n] + SumsOf(o)[n] /\ SumsOf(c)[n] <= SumsOf(f)[n]
  <2>1. n \in Nat /\ \A k \in 1..n : At(f, k) = At(c, k) + At(o, k) /\ At(c, k) <= At(f, k)
    BY <1>1, <1>4
  <2>2. SumsOf(f)[n] = SumsOf(c)[n] + SumsOf(o)[n]
    BY <1>2, <1>3, <2>1, SumsPlus
  <2>3. SumsOf(c)[n] <= SumsOf(f)[n]
    BY <1>2, <2>1, SumsGrow
  <2>. QED BY <2>2, <2>3
<1>. QED BY <1>2, <1>3, <1>4, <1>5 DEF c, f, o

\* And so for the money: the rows' cash is what the filled rows are worth and what open
\* buys have reserved.
LEMMA CashOfRows ==
    ASSUME NEW rows \in Seq(BookRow), \A i \in DOMAIN rows : Whole(rows[i])
    PROVE  LET r == RowValues("cost", FilledRows(rows)) IN
           /\ Summable(OpenBuys(rows)) /\ DOMAIN OpenBuys(rows) \subseteq 1..Len(rows)
           /\ SumsOf(CashBy(rows))[Len(rows)] = -SumsOf(r)[Len(rows)] - SumsOf(OpenBuys(rows))[Len(rows)]
<1>. DEFINE v == CashBy(rows)
            o == OpenBuys(rows)
            F == FilledRows(rows)
            r == RowValues("cost", F)
            m == Len(rows)
<1>1. /\ m \in Nat /\ DOMAIN rows = 1..m /\ \A i \in DOMAIN rows : rows[i] \in BookRow
      /\ Bookable(F) /\ DOMAIN F = FilledIds(rows) /\ \A i \in FilledIds(rows) : F[i] = rows[i]
  BY LedgerBookable
<1>2. /\ Summable(v) /\ \A k \in 1..m : At(v, k) = NetCash(rows[k])
      /\ Summable(r) /\ \A k : At(r, k) = IF k \in DOMAIN F THEN RowValue("cost", F[k]) ELSE 0
  BY <1>1, NetSums, ValueSums
<1>3. /\ Summable(o) /\ DOMAIN o \subseteq 1..m
      /\ \A k \in 1..m : At(o, k) = IF Reserves(rows[k]) THEN Budget ELSE 0
  <2>. DEFINE D == {i \in DOMAIN rows : Reserves(rows[i])}
  <2>1. DOMAIN o = D /\ \A i \in D : o[i] = Budget
    BY DEF OpenBuys
  <2>2. Budget \in Int /\ D \subseteq 1..m
    BY <1>1, AmountsAssumption
  <2>. HIDE DEF o
  <2>3. Summable(o)
    BY <1>1, <2>1, <2>2 DEF Summable
  <2>. QED BY <1>1, <2>1, <2>2, <2>3 DEF At
<1>. HIDE DEF v, o, F, r, m
<1>4. ASSUME NEW k \in 1..m PROVE At(v, k) = -At(r, k) - At(o, k)
  <2>1. PICK row \in BookRow : row = rows[k]
    BY <1>1
  <2>2. NetCash(row) = IF row.state = "filled" THEN -RowValue("cost", row)
                       ELSE IF Reserves(row) THEN -Budget ELSE 0
    BY <1>1, <2>1, WholeNet DEF m
  <2>3. /\ At(v, k) = NetCash(row)
        /\ At(r, k) = IF row.state = "filled" THEN RowValue("cost", row) ELSE 0
        /\ At(o, k) = IF Reserves(row) THEN Budget ELSE 0
    <3>1. At(v, k) = NetCash(row) /\ At(o, k) = IF Reserves(row) THEN Budget ELSE 0
      BY <1>2, <1>3, <2>1
    <3>2. k \in DOMAIN F <=> row.state = "filled"
      BY <1>1, <2>1 DEF FilledIds
    <3>3. k \in DOMAIN F => F[k] = row
      BY <1>1, <2>1
    <3>. QED BY <1>2, <3>1, <3>2, <3>3
  <2>4. Budget \in Int /\ RowValue("cost", row) \in Int
    BY AmountsAssumption, RowValueType
  <2>. QED BY <2>2, <2>3, <2>4 DEF Reserves
<1>5. SumsOf(v)[m] = -SumsOf(r)[m] - SumsOf(o)[m]
  <2>. DEFINE u == [k \in 1..m |-> -At(v, k)]
  <2>1. Summable(u) /\ \A k \in 1..m : At(u, k) = -At(v, k)
    <3>1. \A k \in 1..m : At(v, k) \in Int /\ -At(v, k) \in Int
      BY <1>2, AtType
    <3>. QED BY <1>1, <3>1 DEF Summable, At
  <2>. HIDE DEF u
  <2>2. SumsOf(u)[m] = -SumsOf(v)[m]
    BY <1>1, <1>2, <2>1, SumsMinus
  <2>3. \A k \in 1..m : At(u, k) = At(r, k) + At(o, k)
    <3>1. \A k \in 1..m : At(r, k) \in Int /\ At(o, k) \in Int
      BY <1>2, <1>3, AtType
    <3>. QED BY <1>4, <2>1, <3>1
  <2>4. SumsOf(u)[m] = SumsOf(r)[m] + SumsOf(o)[m]
    BY <1>1, <1>2, <1>3, <2>1, <2>3, SumsPlus
  <2>5. SumsOf(u)[m] \in Int /\ SumsOf(v)[m] \in Int /\ SumsOf(r)[m] \in Int /\ SumsOf(o)[m] \in Int
    BY <1>1, <1>2, <1>3, <2>1, SumsType
  <2>. QED BY <2>2, <2>4, <2>5
<1>. QED BY <1>3, <1>5 DEF v, o, F, r, m

AllWhole == \A i \in DOMAIN orders : Whole(orders[i])

\* No sell takes more than the lots have, and what they have is what the filled rows bring.
LEMMA LotsCovered ==
    ASSUME Ledger, AccountInv, AllWhole
    PROVE  /\ Covered(FilledRows(orders))
           /\ \A s \in Pairs :
                 Len(Held(orders)[s]) = SumsOf(FilledCoins(FilledRows(orders), s))[Len(orders)]
<1>. DEFINE F == FilledRows(orders)
            m == Len(orders)
<1>1. /\ m \in Nat /\ Bookable(F) /\ DOMAIN F \subseteq 1..m /\ orders \in Seq(BookRow)
      /\ \A i \in DOMAIN F : F[i] \in BookRow
  BY LedgerBookable DEF Ledger
<1>2. ASSUME NEW s \in Pairs
      PROVE  \A n \in 0..m : /\ SumsOf(FilledCoins(F, s))[n] >= 0
                             /\ Len(BooksAfter(F)[n].lots[s]) = SumsOf(FilledCoins(F, s))[n]
  <2>1. ASSUME NEW n \in 0..m PROVE SumsOf(FilledCoins(F, s))[n] >= 0
    <3>. DEFINE c == CoinsBy(orders, s)
                f == FilledCoins(F, s)
    <3>1. SumsOf(c)[n] >= 0
      BY DEF AccountInv
    <3>2. Summable(c) /\ Summable(f) /\ SumsOf(c)[n] <= SumsOf(f)[n]
      BY <1>1, CoinsOfRows DEF AllWhole
    <3>. HIDE DEF c, f
    <3>3. SumsOf(c)[n] \in Int /\ SumsOf(f)[n] \in Int
      BY <1>1, <3>2, SumsType
    <3>4. SumsOf(f)[n] >= 0
      BY <3>1, <3>2, <3>3
    <3>. QED BY <3>4 DEF f
  <2>. HIDE DEF F, m
  <2>2. \A n \in 0..m : Len(BooksAfter(F)[n].lots[s]) = SumsOf(FilledCoins(F, s))[n]
    BY <1>1, <2>1, LotsCounted
  <2>. QED BY <2>1, <2>2
<1>3. Covered(F)
  <2>. HIDE DEF F, m
  <2>. SUFFICES ASSUME NEW n \in Nat, n + 1 \in DOMAIN F, F[n + 1].side = "sell"
                PROVE  F[n + 1].amt <= Len(BooksAfter(F)[n].lots[F[n + 1].sym])
    BY DEF Covered
  <2>1. PICK row \in BookRow, s \in Pairs : row = F[n + 1] /\ s = row.sym /\ row.amt \in Nat
    BY <1>1, HalfOK
  <2>. DEFINE f == FilledCoins(F, s)
  <2>2. Summable(f) /\ At(f, n + 1) = -row.amt
    BY <1>1, <2>1, FilledSums DEF CoinsIn
  <2>. HIDE DEF f
  <2>3. SumsOf(f)[n + 1] = SumsOf(f)[n] - row.amt /\ SumsOf(f)[n] \in Int
    BY <2>1, <2>2, SumsType
  <2>4. n \in 0..m /\ n + 1 \in 0..m
    BY <1>1
  <2>5. SumsOf(f)[n + 1] >= 0 /\ Len(BooksAfter(F)[n].lots[s]) = SumsOf(f)[n]
    BY <1>2, <2>4 DEF f
  <2>. QED BY <2>1, <2>3, <2>5
<1>4. ASSUME NEW s \in Pairs PROVE Len(Held(orders)[s]) = SumsOf(FilledCoins(F, s))[m]
  <2>1. Held(orders)[s] = BooksAfter(F)[m].lots[s]
    BY <1>1, HeldIs
  <2>2. m \in 0..m
    BY <1>1
  <2>. HIDE DEF F, m
  <2>. QED BY <1>2, <2>1, <2>2
<1>. QED BY <1>3, <1>4

\* What the parts of the books say, in the words of the sums.
LEMMA BooksSay ==
    ASSUME Ledger, AccountInv, AllWhole, NEW kind \in {"cost", "fee"}
    PROVE  LET F == FilledRows(orders)
               books == Books(F)
               c == ClosedValues(kind, books.closed)
               l == LotValues(kind, books.lots)
               r == RowValues(kind, F)
           IN /\ Summable(c) /\ DOMAIN c \subseteq 1..Len(orders)
              /\ SumOf(c) + SumOf(l) = SumOf(r)
              /\ SumOf(c) \in Int /\ SumOf(l) \in Int /\ SumOf(r) = SumsOf(r)[Len(orders)]
<1>. DEFINE F == FilledRows(orders)
            m == Len(orders)
            books == Books(F)
            c == ClosedValues(kind, books.closed)
            l == LotValues(kind, books.lots)
            r == RowValues(kind, F)
<1>1. /\ m \in Nat /\ Bookable(F) /\ DOMAIN F \subseteq 1..m
  BY LedgerBookable DEF Ledger
<1>2. PICK p \in Nat : Pairs = 1..p
  BY PairsAreNumbers
<1>3. books = BooksAfter(F)[m]
  BY <1>1, BooksReached
<1>4. Summable(c) /\ Summable(l) /\ Summable(r)
  BY <1>1, <1>3, ValueSums
<1>5. DOMAIN c \subseteq 1..m /\ DOMAIN l = 1..p /\ DOMAIN r \subseteq 1..m
  <2>1. DOMAIN BooksAfter(F)[m].closed \subseteq 1..m
    BY <1>1, ClosedNext
  <2>. QED BY <1>1, <1>2, <1>3, <2>1 DEF ClosedValues, LotValues, RowValues
<1>6. SumsOf(c)[m] + SumsOf(l)[p] = SumsOf(r)[m]
  <2>1. Covered(F)
    BY LotsCovered
  <2>. HIDE DEF F, m
  <2>. QED BY <1>1, <1>2, <1>3, <2>1, ValuesKept
<1>. HIDE DEF F, m, books, c, l, r
<1>7. SumOf(c) = SumsOf(c)[m] /\ SumOf(c) \in Int
  BY <1>1, <1>4, <1>5, SumReached
<1>8. SumOf(l) = SumsOf(l)[p] /\ SumOf(l) \in Int
  BY <1>2, <1>4, <1>5, SumReached
<1>9. SumOf(r) = SumsOf(r)[m]
  BY <1>1, <1>4, <1>5, SumReached
<1>. QED BY <1>4, <1>5, <1>6, <1>7, <1>8, <1>9 DEF F, m, books, c, l, r

\* The profit of closed trades is what they say as values, with the other sign.
LEMMA ProfitIs ==
    ASSUME NEW closed, Summable(ClosedValues("cost", closed)), NEW m \in Nat, DOMAIN closed \subseteq 1..m,
           \A i \in DOMAIN closed : closed[i].pnl \in Int
    PROVE  SumOf([i \in DOMAIN closed |-> closed[i].pnl]) = -SumOf(ClosedValues("cost", closed))
<1>. DEFINE v == [i \in DOMAIN closed |-> closed[i].pnl]
            c == ClosedValues("cost", closed)
<1>1. DOMAIN v = DOMAIN closed /\ \A i \in DOMAIN closed : v[i] = closed[i].pnl
  OBVIOUS
<1>2. DOMAIN c = DOMAIN closed /\ \A i \in DOMAIN closed : c[i] = -closed[i].pnl
  BY DEF ClosedValues, Value
<1>. HIDE DEF v, c
<1>3. Summable(v)
  BY <1>1 DEF Summable
<1>4. \A k \in 1..m : At(c, k) = -At(v, k)
  BY <1>1, <1>2 DEF At
<1>5. Summable(c)
  BY DEF c
<1>6. SumsOf(c)[m] = -SumsOf(v)[m] /\ SumsOf(v)[m] \in Int
  BY <1>3, <1>4, <1>5, SumsMinus, SumsType
<1>7. SumOf(v) = SumsOf(v)[m] /\ SumOf(c) = SumsOf(c)[m]
  BY <1>1, <1>2, <1>3, <1>5, SumReached
<1>8. SumOf(v) = -SumOf(c)
  BY <1>6, <1>7
<1>. QED BY <1>8 DEF v, c

\* Where the rows have the rates and fees of what happened, and all of them do, the books
\* that db_service makes of them and the account tell the same story, in whatever order the
\* orders were filled.
THEOREM BooksAndAccountAgree == LiveSpec => []BooksBalance
<1>1. Ledger /\ AccountInv => BooksBalance
  <2>. SUFFICES ASSUME Ledger, AccountInv, AllWhole PROVE BooksBalance
    BY DEF BooksBalance, NoHalves, AllWhole, Whole
  <2>. DEFINE filled == FilledRows(orders)
              books == Books(filled)
              held == books.lots
              profit == SumOf([i \in DOMAIN books.closed |-> books.closed[i].pnl])
              paid == SumOf([i \in DOMAIN books.closed |-> books.closed[i].fee])
              costs == SumOf([s \in Pairs |-> CostOf(held[s])])
              fees == SumOf([s \in Pairs |-> FeeOf(held[s])])
              buys == {i \in DOMAIN orders : orders[i].state = "open" /\ orders[i].side = "buy"}
              sells(s) == {i \in OpenRows(s) : orders[i].side = "sell"}
              m == Len(orders)
  <2>0. orders \in Seq(BookRow) /\ m \in Nat /\ \A i \in DOMAIN orders : Whole(orders[i])
    BY DEF Ledger, AllWhole
  <2>1. costs = SumOf(LotValues("cost", held)) /\ fees = SumOf(LotValues("fee", held))
    BY WorthIs DEF LotValues
  <2>2. paid = SumOf(ClosedValues("fee", books.closed))
    BY DEF ClosedValues, Value
  <2>3. profit = -SumOf(ClosedValues("cost", books.closed))
    <3>1. Summable(ClosedValues("cost", books.closed)) /\ DOMAIN ClosedValues("cost", books.closed) \subseteq 1..m
      BY BooksSay
    <3>2. DOMAIN books.closed \subseteq 1..m
      BY <3>1 DEF ClosedValues
    <3>3. \A i \in DOMAIN books.closed : books.closed[i].pnl \in Int
      <4>1. Bookable(filled) /\ DOMAIN filled \subseteq 1..m
        BY <2>0, LedgerBookable
      <4>2. books = BooksAfter(filled)[m]
        BY <2>0, <4>1, BooksReached
      <4>3. \A i \in DOMAIN BooksAfter(filled)[m].closed : BooksAfter(filled)[m].closed[i] \in Trade
        BY <2>0, <4>1, ClosedNext
      <4>. QED BY <4>2, <4>3 DEF Trade
    <3>. QED BY <2>0, <3>1, <3>2, <3>3, ProfitIs
  <2>4. thb = Cash + profit - costs - SumOf([i \in buys |-> Budget])
    <3>. DEFINE o == OpenBuys(orders)
                r == RowValues("cost", filled)
                c == ClosedValues("cost", books.closed)
                l == LotValues("cost", held)
    <3>1. o = [i \in buys |-> Budget]
      BY DEF OpenBuys, Reserves
    <3>2. /\ Summable(o) /\ DOMAIN o \subseteq 1..m
          /\ SumsOf(CashBy(orders))[m] = -SumsOf(r)[m] - SumsOf(o)[m]
      BY <2>0, CashOfRows
    <3>3. SumOf(c) + SumOf(l) = SumOf(r) /\ SumOf(c) \in Int /\ SumOf(l) \in Int /\ SumOf(r) = SumsOf(r)[m]
      BY BooksSay
    <3>4. SumOf(o) = SumsOf(o)[m] /\ SumOf(o) \in Int
      <4>. HIDE DEF o
      <4>. QED BY <2>0, <3>2, SumReached
    <3>5. thb = Cash + SumsOf(CashBy(orders))[m] /\ Cash \in Int
      BY AmountsAssumption DEF AccountInv
    <3>6. profit = -SumOf(c) /\ costs = SumOf(l)
      BY <2>1, <2>3
    <3>. HIDE DEF o, r, c, l, profit, costs, m
    <3>7. thb = Cash + profit - costs - SumOf(o)
      BY <3>2, <3>3, <3>4, <3>5, <3>6
    <3>. QED BY <3>1, <3>7
  <2>5. ASSUME NEW s \in Pairs PROVE coins[s] = Len(held[s]) - SumOf([i \in sells(s) |-> orders[i].amt])
    <3>. DEFINE c == CoinsBy(orders, s)
                f == FilledCoins(filled, s)
                o == OpenSells(orders, s)
    <3>1. o = [i \in sells(s) |-> orders[i].amt]
      <4>1. sells(s) = {i \in DOMAIN orders : orders[i].sym = s /\ Pending(orders[i])}
        BY DEF Pending, OpenRows
      <4>. HIDE DEF sells
      <4>. QED BY <4>1 DEF OpenSells
    <3>2. coins[s] = SumsOf(c)[m]
      BY DEF AccountInv
    <3>3. Summable(c) /\ Summable(f) /\ Summable(o) /\ SumsOf(f)[m] = SumsOf(c)[m] + SumsOf(o)[m]
      <4>1. m \in 0..Len(orders)
        BY <2>0
      <4>. HIDE DEF m
      <4>. QED BY <2>0, <4>1, CoinsOfRows
    <3>4. Len(held[s]) = SumsOf(f)[m]
      BY LotsCovered DEF Held
    <3>5. SumOf(o) = SumsOf(o)[m]
      <4>1. DOMAIN o \subseteq 1..m
        BY <2>0 DEF OpenSells
      <4>. HIDE DEF o, m
      <4>. QED BY <2>0, <3>3, <4>1, SumReached
    <3>. HIDE DEF c, f, o, m, held, sells
    <3>6. coins[s] = Len(held[s]) - SumOf(o)
      <4>1. SumsOf(c)[m] \in Int /\ SumsOf(o)[m] \in Int
        BY <2>0, <3>3, SumsType
      <4>. QED BY <3>2, <3>3, <3>4, <3>5, <4>1
    <3>. QED BY <3>1, <3>6
  <2>6. OrderFees(filled, DOMAIN filled) = paid + fees
    <3>1. OrderFees(filled, DOMAIN filled) = SumOf(RowValues("fee", filled))
      <4>1. \A row : BookFee(row) = RowValue("fee", row)
        BY DEF RowValue, BuyWorth
      <4>2. [i \in DOMAIN filled |-> BookFee(filled[i])] = RowValues("fee", filled)
        <5>. HIDE DEF filled
        <5>. QED BY <4>1 DEF RowValues
      <4>. HIDE DEF filled
      <4>. QED BY <4>2 DEF OrderFees
    <3>2. SumOf(ClosedValues("fee", books.closed)) + SumOf(LotValues("fee", held)) = SumOf(RowValues("fee", filled))
      BY BooksSay
    <3>. QED BY <2>1, <2>2, <3>1, <3>2
  <2>. QED BY <2>4, <2>5, <2>6 DEF BooksBalance
<1>. QED BY <1>1, LedgerOK, AccountKept, PTL
=============================================================================

