----------------------------- MODULE NatLemmas -----------------------------
(***************************************************************************)
(* Lemmas about natural numbers that the other proofs need: induction over *)
(* an interval, stated of a set so that it can be cited, the existence of  *)
(* a function defined by recursion on an interval, and division with       *)
(* remainder.                                                              *)
(***************************************************************************)
EXTENDS Naturals, NaturalsInduction, WellFoundedInduction, TLAPS

\* A set of natural numbers that is not empty has a least element.
LEMMA LeastNatural ==
  ASSUME NEW S \in SUBSET Nat, S # {}
  PROVE  \E m \in S : \A n \in S : m <= n
<1> DEFINE R == {ss \in Nat \X Nat : ss[1] < ss[2]}
<1>1. IsWellFoundedOn(R, Nat)
  BY NatLessThanWellFounded DEF OpToRel
<1> HIDE DEF R
<1>2. PICK m \in S : \A n \in S : <<n, m>> \notin R
  BY <1>1, WFMin
<1>3. \A n \in S : ~(n < m)
  BY <1>2 DEF R
<1> QED
  BY <1>3

\* Induction over 0..n: a set that has 0, and i + 1 whenever it has i, has them all.
LEMMA IntervalInduction ==
  ASSUME NEW n \in Nat, NEW S, 0 \in S, \A i \in 0..n : i < n /\ i \in S => i + 1 \in S
  PROVE  0..n \subseteq S
<1> DEFINE left == (0..n) \ S
<1> SUFFICES ASSUME left # {} PROVE FALSE
  OBVIOUS
<1>0. left \in SUBSET Nat /\ left # {}
  OBVIOUS
<1> HIDE DEF left
<1>1. PICK m \in left : \A i \in left : m <= i
  BY <1>0, LeastNatural
<1>2. m \in 0..n /\ m \notin S /\ m # 0
  BY <1>1 DEF left
<1>3. m - 1 \in 0..n /\ m - 1 < n /\ (m - 1) + 1 = m
  BY <1>2
<1>4. m - 1 \in S
  BY <1>1, <1>3 DEF left
<1> QED
  BY <1>2, <1>3, <1>4

\* A function on 0..n that begins with base and goes on by step
Recursion(f, n, base, step) ==
  f[0] = base /\ \A i \in 1..n : f[i] = step[i][f[i - 1]]

\* exists.
LEMMA RecursionExists ==
  ASSUME NEW n \in Nat, NEW T, NEW base \in T, NEW step \in [1..n -> [T -> T]]
  PROVE  \E f \in [0..n -> T] : Recursion(f, n, base, step)
<1> DEFINE Good(m, f) == f[0] = base /\ \A i \in 1..m : f[i] = step[i][f[i - 1]]
           S == {m \in 0..n : \E f \in [0..m -> T] : Good(m, f)}
<1>1. 0 \in S
  <2> DEFINE g == [i \in 0..0 |-> base]
  <2>1. g \in [0..0 -> T] /\ g[0] = base
    OBVIOUS
  <2> HIDE DEF g
  <2>2. Good(0, g)
    BY <2>1
  <2> QED
    BY <2>1, <2>2
<1>2. ASSUME NEW m \in 0..n, m < n, m \in S
      PROVE  m + 1 \in S
  <2>1. PICK f \in [0..m -> T] : Good(m, f)
    BY <1>2
  <2> DEFINE g == [i \in 0..m + 1 |-> IF i = m + 1 THEN step[m + 1][f[m]] ELSE f[i]]
  <2>2. step[m + 1][f[m]] \in T
    BY <1>2
  <2>3. g \in [0..m + 1 -> T]
    BY <2>2
  <2>4. g[m + 1] = step[m + 1][f[m]] /\ \A i \in 0..m : g[i] = f[i]
    OBVIOUS
  <2> HIDE DEF g
  <2>5. Good(m + 1, g)
    <3>1. g[0] = base
      BY <2>1, <2>4
    <3>2. ASSUME NEW i \in 1..m + 1
          PROVE  g[i] = step[i][g[i - 1]]
      <4>1. CASE i = m + 1
        BY <2>4, <4>1
      <4>2. CASE i \in 1..m
        BY <2>1, <2>4, <4>2
      <4> QED
        BY <4>1, <4>2
    <3> QED
      BY <3>1, <3>2
  <2> QED
    BY <1>2, <2>3, <2>5
<1> HIDE DEF S
<1>3. 0..n \subseteq S
  BY <1>1, <1>2, IntervalInduction
<1>4. n \in S
  BY <1>3
<1> QED
  BY <1>4 DEF S, Recursion

\* Two such functions agree as far as their steps do.
LEMMA RecursionUnique ==
  ASSUME NEW n \in Nat, NEW m \in Nat, n <= m, NEW f, NEW g, NEW base, NEW s, NEW t,
         Recursion(f, n, base, s), Recursion(g, m, base, t), \A i \in 1..n : s[i] = t[i]
  PROVE  \A i \in 0..n : f[i] = g[i]
<1> DEFINE S == {i \in 0..n : f[i] = g[i]}
<1>1. 0 \in S
  BY DEF Recursion
<1>2. ASSUME NEW i \in 0..n, i < n, i \in S
      PROVE  i + 1 \in S
  <2>1. i + 1 \in 1..n /\ i + 1 \in 1..m /\ (i + 1) - 1 = i /\ f[i] = g[i]
    BY <1>2
  <2>2. f[i + 1] = s[i + 1][f[(i + 1) - 1]] /\ g[i + 1] = t[i + 1][g[(i + 1) - 1]]
    BY <2>1 DEF Recursion
  <2>3. f[i + 1] = g[i + 1]
    BY <2>1, <2>2
  <2> QED
    BY <2>1, <2>3
<1> HIDE DEF S
<1>3. 0..n \subseteq S
  BY <1>1, <1>2, IntervalInduction
<1> QED
  BY <1>3 DEF S

LEMMA RemainderRange ==
  ASSUME NEW a \in Nat, NEW c \in Nat \ {0}
  PROVE  a % c \in 0..c - 1
OBVIOUS

LEMMA RemainderUnique ==
  ASSUME NEW q \in Nat, NEW c \in Nat \ {0}, NEW r \in 0..c - 1
  PROVE  (c * q + r) % c = r
OBVIOUS

\* Counting on from a number, one meets every remainder within c steps.
LEMMA RemainderOnto ==
  ASSUME NEW a \in Nat, NEW c \in Nat \ {0}, NEW i \in 0..c - 1
  PROVE  \E n \in 0..c - 1 : (a + n) % c = i
<1> DEFINE h == a % c
           q == a \div c
<1>1. h \in 0..c - 1
  BY RemainderRange
<1>2. a = c * q + h /\ q \in Nat
  OBVIOUS
<1> HIDE DEF h, q
<1>3. CASE h <= i
  <2>1. a + (i - h) = c * q + i
    BY <1>1, <1>2, <1>3
  <2>2. (a + (i - h)) % c = i
    BY <1>2, <2>1, RemainderUnique
  <2> QED
    BY <1>1, <1>3, <2>2
<1>4. CASE h > i
  <2>1. a + (i + c - h) = c * (q + 1) + i /\ q + 1 \in Nat
    BY <1>1, <1>2, <1>4
  <2>2. (a + (i + c - h)) % c = i
    BY <2>1, RemainderUnique
  <2> QED
    BY <1>1, <1>4, <2>2, i + c - h \in 0..c - 1
<1> QED
  BY <1>1, <1>3, <1>4
=============================================================================
