----------------------------- MODULE SumProofs -----------------------------
(***************************************************************************)
(* Running sums of naturals: a segment of a packet begins where those      *)
(* before it end, a page starts when those before it have played.          *)
(* Induction over the naturals comes from their least element.             *)
(***************************************************************************)
EXTENDS Integers, Sequences, WellFoundedInduction, TLAPS

\* f[i] is the sum of the first i of the n values of a.
RunningSums(f, a, n) ==
  /\ f \in [0..n -> Nat]
  /\ f[0] = 0
  /\ \A i \in 1..n : a[i] \in Nat /\ f[i] = f[i - 1] + a[i]

\* Every set of naturals that is not empty has a least element.
LEMMA LeastOf ==
  ASSUME NEW T, T \subseteq Nat, T # {}
  PROVE  \E x \in T : \A y \in T : x <= y
<1> DEFINE R == OpToRel(<, Nat)
<1>1. IsWellFoundedOn(R, Nat)
  BY NatLessThanWellFounded, Zenon
<1> HIDE DEF R
<1>2. PICK x \in T : \A y \in T : ~(<<y, x>> \in R)
  BY <1>1, WFMin
<1>3. ASSUME NEW y \in T PROVE x <= y
  <2>1. y < x => <<y, x>> \in R
    BY DEF R, OpToRel
  <2>2. x \in Nat /\ y \in Nat
    OBVIOUS
  <2> QED
    BY <1>2, <2>1, <2>2
<1> QED
  BY <1>3

\* Induction: a set that has 0 and, with a number, the next one.
LEMMA AllNaturals ==
  ASSUME NEW T, 0 \in T, \A n \in Nat : n \in T => n + 1 \in T
  PROVE  \A n \in Nat : n \in T
<1> SUFFICES ASSUME Nat \ T # {} PROVE FALSE
  OBVIOUS
<1>1. PICK x \in Nat \ T : \A y \in Nat \ T : x <= y
  BY LeastOf
<1>2. x # 0 /\ x - 1 \in Nat /\ (x - 1) + 1 = x /\ ~(x <= x - 1)
  BY <1>1
<1>3. x - 1 \in T
  BY <1>1, <1>2
<1> QED
  BY <1>1, <1>2, <1>3

LEMMA SumsExist ==
  ASSUME NEW a, NEW n \in Nat, \A i \in 1..n : a[i] \in Nat
  PROVE  \E f : RunningSums(f, a, n)
<1> DEFINE T == {m \in Nat : m <= n => \E f : RunningSums(f, a, m)}
<1>1. 0 \in T
  <2>1. RunningSums([i \in 0..0 |-> 0], a, 0)
    BY DEF RunningSums
  <2> QED
    BY <2>1
<1>2. ASSUME NEW m \in Nat, m \in T, m + 1 <= n PROVE \E f : RunningSums(f, a, m + 1)
  <2>1. m <= n
    BY <1>2
  <2>2. PICK f : RunningSums(f, a, m)
    BY <1>2, <2>1
  <2> DEFINE g == [i \in 0..(m + 1) |-> IF i <= m THEN f[i] ELSE f[m] + a[m + 1]]
  <2>3. f[m] \in Nat /\ a[m + 1] \in Nat /\ m + 1 \in 1..n /\ 1..(m + 1) \subseteq 1..n
    BY <1>2, <2>2 DEF RunningSums
  <2>4. g \in [0..(m + 1) -> Nat]
    BY <2>2, <2>3 DEF RunningSums
  <2>5. ASSUME NEW i \in 1..(m + 1) PROVE g[i] = g[i - 1] + a[i]
    <3>1. CASE i <= m
      <4>1. /\ i \in 1..m /\ i - 1 \in 0..(m + 1) /\ i - 1 <= m /\ i \in 0..(m + 1)
        BY <2>5, <3>1
      <4> QED
        BY <2>2, <3>1, <4>1 DEF RunningSums
    <3>2. CASE ~(i <= m)
      <4>1. i = m + 1 /\ i - 1 = m /\ m <= m /\ m \in 0..(m + 1) /\ m + 1 \in 0..(m + 1)
        BY <2>5, <3>2
      <4> QED
        BY <3>2, <4>1
    <3> QED
      BY <3>1, <3>2
  <2>6. g[0] = 0
    BY <2>2 DEF RunningSums
  <2>7. RunningSums(g, a, m + 1)
    <3>1. \A i \in 1..(m + 1) : a[i] \in Nat
      BY <2>3
    <3> HIDE DEF g
    <3> QED
      BY <2>4, <2>5, <2>6, <3>1 DEF RunningSums
  <2> QED
    BY <2>7
<1>3. \A m \in Nat : m \in T => m + 1 \in T
  BY <1>2
<1> HIDE DEF T
<1>4. n \in T
  BY <1>1, <1>3, AllNaturals
<1> QED
  BY <1>4 DEF T

\* The sums of a run of the values are those of the whole, less what comes before.
LEMMA SumsOfRun ==
  ASSUME NEW f, NEW a, NEW n \in Nat, RunningSums(f, a, n),
         NEW g, NEW b, NEW m \in Nat, RunningSums(g, b, m),
         NEW k \in Nat, k + m <= n, \A i \in 1..m : b[i] = a[k + i]
  PROVE  \A i \in 0..m : f[k + i] = f[k] + g[i]
<1> DEFINE T == {j \in Nat : j <= m => f[k + j] = f[k] + g[j]}
<1>1. \A i \in 0..n : f[i] \in Nat
  BY DEF RunningSums
<1>2. \A i \in 0..m : g[i] \in Nat
  BY DEF RunningSums
<1>3. 0 \in T
  <2>1. k + 0 = k /\ k \in 0..n /\ g[0] = 0
    BY DEF RunningSums
  <2>2. f[k] \in Nat
    BY <1>1, <2>1
  <2> QED
    BY <2>1, <2>2
<1>4. ASSUME NEW j \in Nat, j \in T, j + 1 <= m PROVE f[k + (j + 1)] = f[k] + g[j + 1]
  <2>1. /\ j <= m /\ j + 1 \in 1..m /\ (j + 1) - 1 = j /\ k + (j + 1) \in 1..n
        /\ (k + (j + 1)) - 1 = k + j /\ k \in 0..n /\ j \in 0..m /\ j + 1 \in 0..m
        /\ k + (j + 1) \in 0..n
    BY <1>4
  <2>2. f[k + (j + 1)] = f[k + j] + a[k + (j + 1)]
    BY <2>1 DEF RunningSums
  <2>3. g[j + 1] = g[j] + a[k + (j + 1)]
    BY <2>1 DEF RunningSums
  <2>4. f[k + j] = f[k] + g[j]
    BY <1>4, <2>1
  <2>5. f[k] \in Nat /\ g[j] \in Nat /\ g[j + 1] \in Nat
    BY <1>1, <1>2, <2>1
  <2>6. a[k + (j + 1)] \in Nat
    BY <2>1 DEF RunningSums
  <2> QED
    BY <2>2, <2>3, <2>4, <2>5, <2>6
<1>5. \A j \in Nat : j \in T => j + 1 \in T
  BY <1>4
<1> HIDE DEF T
<1>6. \A j \in Nat : j \in T
  BY <1>3, <1>5, AllNaturals
<1> QED
  BY <1>6 DEF T

\* Two sums of the same values are the same.
LEMMA SumsAreOne ==
  ASSUME NEW f, NEW a, NEW n \in Nat, RunningSums(f, a, n),
         NEW g, NEW b, RunningSums(g, b, n), \A i \in 1..n : b[i] = a[i]
  PROVE  f = g
<1>1. 0 + n <= n /\ 0 \in Nat /\ \A i \in 1..n : 0 + i = i
  OBVIOUS
<1>2. \A i \in 1..n : b[i] = a[0 + i]
  BY <1>1
<1>3. \A i \in 0..n : f[0 + i] = f[0] + g[i]
  BY <1>1, <1>2, SumsOfRun
<1>4. f \in [0..n -> Nat] /\ g \in [0..n -> Nat] /\ f[0] = 0
  BY DEF RunningSums
<1>5. ASSUME NEW i \in 0..n PROVE f[i] = g[i]
  <2>1. 0 + i = i /\ g[i] \in Nat
    BY <1>4
  <2>2. f[i] = 0 + g[i]
    BY <1>3, <1>4, <2>1
  <2> QED
    BY <2>1, <2>2
<1> QED
  BY <1>4, <1>5

LEMMA SumsGrow ==
  ASSUME NEW f, NEW a, NEW n \in Nat, RunningSums(f, a, n),
         NEW i \in 0..n, NEW j \in 0..n, i <= j
  PROVE  f[i] <= f[j]
<1> DEFINE T == {k \in Nat : i + k <= n => f[i] <= f[i + k]}
<1>1. \A k \in 0..n : f[k] \in Nat
  BY DEF RunningSums
<1>2. 0 \in T
  BY <1>1
<1>3. ASSUME NEW k \in Nat, k \in T, i + (k + 1) <= n PROVE f[i] <= f[i + (k + 1)]
  <2>1. /\ i + k <= n /\ i + (k + 1) \in 1..n /\ (i + (k + 1)) - 1 = i + k
        /\ i + k \in 0..n
    BY <1>3
  <2>2. f[i + (k + 1)] = f[i + k] + a[i + (k + 1)] /\ a[i + (k + 1)] \in Nat
    BY <2>1 DEF RunningSums
  <2>3. f[i] <= f[i + k] /\ f[i] \in Nat /\ f[i + k] \in Nat
    BY <1>1, <1>3, <2>1
  <2> QED
    BY <2>2, <2>3
<1>4. \A k \in Nat : k \in T => k + 1 \in T
  BY <1>3
<1> HIDE DEF T
<1>5. \A k \in Nat : k \in T
  BY <1>2, <1>4, AllNaturals
<1>6. j - i \in Nat /\ i + (j - i) = j /\ j <= n
  OBVIOUS
<1> QED
  BY <1>5, <1>6 DEF T

\* Sums of a run of equal values.
LEMMA SumsOfEquals ==
  ASSUME NEW f, NEW a, NEW n \in Nat, RunningSums(f, a, n), NEW u \in Nat,
         NEW m \in 0..n, \A i \in 1..m : a[i] = u
  PROVE  \A i \in 0..m : f[i] = i * u
<1> DEFINE T == {k \in Nat : k <= m => f[k] = k * u}
<1>1. 0 \in T
  BY DEF RunningSums
<1>2. ASSUME NEW k \in Nat, k \in T, k + 1 <= m PROVE f[k + 1] = (k + 1) * u
  <2>1. k <= m /\ k + 1 \in 1..n /\ k + 1 \in 1..m /\ (k + 1) - 1 = k
    BY <1>2
  <2>2. f[k + 1] = k * u + u
    BY <1>2, <2>1 DEF RunningSums
  <2>3. (k + 1) * u = k * u + u
    OBVIOUS
  <2> QED
    BY <2>2, <2>3
<1>3. \A k \in Nat : k \in T => k + 1 \in T
  BY <1>2
<1> HIDE DEF T
<1>4. \A k \in Nat : k \in T
  BY <1>1, <1>3, AllNaturals
<1> QED
  BY <1>4 DEF T
=============================================================================
