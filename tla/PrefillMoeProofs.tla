------------------------- MODULE PrefillMoeProofs --------------------------
(***************************************************************************)
(* The expert-parallel exchange of prefill, for any number of ranks and    *)
(* experts, any sizes of tiles, segments and shards, and whatever lengths  *)
(* and gates the requests bring: every expert gets the rows routed to it   *)
(* and their sources get the results, and no counter is cleared early.     *)
(* First the arithmetic of positions, then the counters, then what the     *)
(* windows and the slabs hold.                                             *)
(***************************************************************************)
EXTENDS PrefillMoeInv, FiniteSetTheorems, WellFoundedInduction, TLAPS

-----------------------------------------------------------------------------
(* Arithmetic.                                                             *)

LEMMA Products ==
    ASSUME NEW a \in Nat, NEW b \in Nat, NEW c \in Nat
    PROVE  /\ a * c \in Nat
           /\ a <= b => a * c <= b * c
           /\ a < b => a * c + c <= b * c
  <1>1. a * c \in Nat /\ b * c \in Nat
    OBVIOUS
  <1>2. ASSUME a <= b
        PROVE  a * c <= b * c
    <2>1. (b - a) * c \in Nat
      BY <1>2
    <2>2. (b - a) * c = b * c - a * c
      OBVIOUS
    <2> QED
      BY <1>1, <2>1, <2>2
  <1>3. ASSUME a < b
        PROVE  a * c + c <= b * c
    <2>1. b - a - 1 \in Nat
      BY <1>3
    <2>2. (b - a - 1) * c \in Nat
      BY <2>1
    <2>3. (b - a - 1) * c = b * c - a * c - c
      OBVIOUS
    <2> QED
      BY <1>1, <2>2, <2>3
  <1> QED
    BY <1>1, <1>2, <1>3

\* Quotient and remainder.
LEMMA Divided ==
    ASSUME NEW c \in Nat \ {0}, NEW n \in Nat
    PROVE  /\ n \div c \in Nat /\ n % c \in 0 .. c - 1
           /\ n = (n \div c) * c + (n % c)
           /\ \A q \in Nat : n < q * c => n \div c < q
           /\ \A q \in Nat, m \in 0 .. c - 1 : n = q * c + m => n \div c = q /\ n % c = m
  <1> DEFINE d == n \div c
             k == n % c
  <1>1. d \in Int /\ k \in 0 .. c - 1 /\ n = c * d + k
    OBVIOUS
  <1>a. d * c = c * d
    BY <1>1
  <1>2. d \in Nat
    <2> HIDE DEF d, k
    <2>1. CASE d <= -1
      <3>1. (-d - 1) * c >= 0
        BY <1>1, <2>1
      <3>2. (-d - 1) * c = -(c * d) - c
        BY <1>1
      <3> QED
        BY <1>1, <3>1, <3>2
    <2> QED
      BY <1>1, <2>1
  <1>3. ASSUME NEW q \in Nat, n < q * c
        PROVE  d < q
    <2> HIDE DEF d, k
    <2>1. CASE q <= d
      <3>1. q * c <= d * c
        BY <1>2, <2>1, Products
      <3> QED
        BY <1>1, <1>2, <1>3, <1>a, <3>1
    <2> QED
      BY <1>2, <2>1
  <1>4. ASSUME NEW q \in Nat, NEW m \in 0 .. c - 1, n = q * c + m
        PROVE  d = q /\ k = m
    <2> HIDE DEF d, k
    <2>1. CASE d < q
      <3>1. d * c + c <= q * c
        BY <1>2, <2>1, Products
      <3> QED
        BY <1>1, <1>2, <1>4, <1>a, <3>1
    <2>2. CASE q < d
      <3>1. q * c + c <= d * c
        BY <1>2, <2>2, Products
      <3> QED
        BY <1>1, <1>2, <1>4, <1>a, <3>1
    <2> QED
      BY <1>1, <1>2, <1>4, <1>a, <2>1, <2>2
  <1> QED
    BY <1>1, <1>a, <1>2, <1>3, <1>4

\* Induction as a least counterexample: a set of naturals has a least element.
LEMMA Least ==
    ASSUME NEW S \in SUBSET Nat, S # {}
    PROVE  \E m \in S : \A y \in S : m <= y
  <1>1. PICK m \in S : \A y \in S : ~ (<<y, m>> \in OpToRel(<, Nat))
    BY NatLessThanWellFounded, WFMin
  <1>2. \A y \in S : y \in Nat /\ m \in Nat /\ ~ (y < m)
    BY <1>1 DEF OpToRel
  <1> QED
    BY <1>2

LEMMA Inductive ==
    ASSUME NEW S \in SUBSET Nat, 0 \in S, \A n \in S : n + 1 \in S
    PROVE  S = Nat
  <1> DEFINE rest == Nat \ S
  <1>1. ASSUME rest # {}
        PROVE  FALSE
    <2>1. PICK m \in rest : \A y \in rest : m <= y
      BY <1>1, Least
    <2>2. m \in Nat /\ m # 0 /\ m - 1 \in Nat
      OBVIOUS
    <2>3. m - 1 \in S
      BY <2>1, <2>2
    <2> QED
      BY <2>2, <2>3
  <1> QED
    BY <1>1

\* Partial sums of f, as the recursive function of Sum.
Sums(f, n, u) == u = [i \in 0 .. n |-> IF i = 0 THEN 0 ELSE u[i - 1] + f[i - 1]]

LEMMA SumsExist ==
    ASSUME NEW f, NEW n \in Nat
    PROVE  \E u : Sums(f, n, u)
  <1> DEFINE S == {k \in Nat : \E u : Sums(f, k, u)}
  <1>1. 0 \in S
    <2> DEFINE u == [i \in 0 .. 0 |-> 0]
    <2>1. Sums(f, 0, u)
      BY DEF Sums
    <2> HIDE DEF u
    <2> QED
      BY <2>1
  <1>2. ASSUME NEW k \in S
        PROVE  k + 1 \in S
    <2>1. PICK u : Sums(f, k, u)
      OBVIOUS
    <2> DEFINE v == [i \in 0 .. k + 1 |-> IF i = k + 1 THEN u[k] + f[k] ELSE u[i]]
    <2>2. \A i \in 0 .. k : u[i] = IF i = 0 THEN 0 ELSE u[i - 1] + f[i - 1]
      BY <2>1 DEF Sums
    <2>3. \A i \in 0 .. k + 1 : v[i] = IF i = 0 THEN 0 ELSE v[i - 1] + f[i - 1]
      <3> SUFFICES ASSUME NEW i \in 0 .. k + 1
                   PROVE  v[i] = IF i = 0 THEN 0 ELSE v[i - 1] + f[i - 1]
        OBVIOUS
      <3>1. CASE i = k + 1
        <4>1. v[i] = u[k] + f[k] /\ v[k] = u[k] /\ i - 1 = k /\ i # 0
          BY <3>1
        <4> QED
          BY <4>1
      <3>2. CASE i # k + 1
        <4>1. i \in 0 .. k /\ v[i] = u[i] /\ (i # 0 => v[i - 1] = u[i - 1])
          BY <3>2
        <4> QED
          BY <4>1, <2>2
      <3> QED
        BY <3>1, <3>2
    <2>4. v = [i \in 0 .. k + 1 |-> v[i]]
      OBVIOUS
    <2> HIDE DEF v
    <2>5. v = [i \in 0 .. k + 1 |-> IF i = 0 THEN 0 ELSE v[i - 1] + f[i - 1]]
      BY <2>3, <2>4
    <2>6. Sums(f, k + 1, v)
      BY <2>5 DEF Sums
    <2> QED
      BY <2>6
  <1> HIDE DEF S
  <1>3. S = Nat
    <2>1. S \in SUBSET Nat
      BY DEF S
    <2> QED
      BY <1>1, <1>2, <2>1, Inductive
  <1> QED
    BY <1>3 DEF S

LEMMA SumsAgree ==
    ASSUME NEW f, NEW g, NEW n \in Nat, NEW m \in Nat, n <= m,
           \A i \in 0 .. n - 1 : f[i] = g[i],
           NEW u, Sums(f, n, u), NEW v, Sums(g, m, v)
    PROVE  \A i \in 0 .. n : u[i] = v[i]
  <1> DEFINE S == {k \in Nat : k <= n => u[k] = v[k]}
  <1>1. \A i \in 0 .. n : u[i] = IF i = 0 THEN 0 ELSE u[i - 1] + f[i - 1]
    BY DEF Sums
  <1>2. \A i \in 0 .. m : v[i] = IF i = 0 THEN 0 ELSE v[i - 1] + g[i - 1]
    BY DEF Sums
  <1>3. 0 \in S
    BY <1>1, <1>2
  <1>4. ASSUME NEW k \in S
        PROVE  k + 1 \in S
    <2>1. ASSUME k + 1 <= n
          PROVE  u[k + 1] = v[k + 1]
      <3>1. k + 1 \in 0 .. n /\ k + 1 \in 0 .. m /\ k + 1 # 0 /\ k + 1 - 1 = k /\ k \in 0 .. n - 1
        BY <2>1
      <3>2. u[k] = v[k] /\ f[k] = g[k]
        BY <2>1, <3>1
      <3> QED
        BY <1>1, <1>2, <3>1, <3>2
    <2> QED
      BY <2>1
  <1> HIDE DEF S
  <1>5. S = Nat
    <2>1. S \in SUBSET Nat
      BY DEF S
    <2> QED
      BY <1>3, <1>4, <2>1, Inductive
  <1> QED
    BY <1>5 DEF S

LEMMA SumIs ==
    ASSUME NEW f, NEW n \in Nat
    PROVE  \E u : Sums(f, n, u) /\ Sum(f, n) = u[n]
  <1> DEFINE u == CHOOSE w : Sums(f, n, w)
  <1>1. Sums(f, n, u)
    BY SumsExist
  <1>2. Sum(f, n) = u[n]
    BY DEF Sum, Sums
  <1> HIDE DEF u
  <1> QED
    BY <1>1, <1>2

LEMMA SumZero ==
    ASSUME NEW f
    PROVE  Sum(f, 0) = 0
  <1>1. PICK u : Sums(f, 0, u) /\ Sum(f, 0) = u[0]
    BY SumIs
  <1>2. u[0] = 0
    BY <1>1 DEF Sums
  <1> QED
    BY <1>1, <1>2

LEMMA SumStep ==
    ASSUME NEW f, NEW n \in Nat
    PROVE  Sum(f, n + 1) = Sum(f, n) + f[n]
  <1>1. PICK u : Sums(f, n, u) /\ Sum(f, n) = u[n]
    BY SumIs
  <1>2. PICK v : Sums(f, n + 1, v) /\ Sum(f, n + 1) = v[n + 1]
    BY SumIs, n + 1 \in Nat
  <1>3. u[n] = v[n]
    <2> DEFINE m == n + 1
    <2>1. m \in Nat /\ n <= m /\ n \in 0 .. n /\ Sums(f, m, v)
      BY <1>2
    <2>2. PICK g : g = f
      OBVIOUS
    <2>3. Sums(g, m, v) /\ \A i \in 0 .. n - 1 : f[i] = g[i]
      BY <2>1, <2>2
    <2> HIDE DEF m
    <2> QED
      BY <1>1, <2>1, <2>3, SumsAgree
  <1>4. v[n + 1] = v[n] + f[n]
    <2>1. n + 1 \in 0 .. n + 1 /\ n + 1 # 0 /\ n + 1 - 1 = n
      OBVIOUS
    <2>2. v[n + 1] = IF n + 1 = 0 THEN 0 ELSE v[n + 1 - 1] + f[n + 1 - 1]
      BY <1>2, <2>1 DEF Sums
    <2> QED
      BY <2>1, <2>2
  <1> QED
    BY <1>1, <1>2, <1>3, <1>4

\* A sum is of the first n values, whatever the function's domain.
LEMMA SumSame ==
    ASSUME NEW f, NEW g, NEW n \in Nat, \A i \in 0 .. n - 1 : f[i] = g[i]
    PROVE  Sum(f, n) = Sum(g, n)
  <1>1. PICK u : Sums(f, n, u) /\ Sum(f, n) = u[n]
    BY SumIs
  <1>2. PICK v : Sums(g, n, v) /\ Sum(g, n) = v[n]
    BY SumIs
  <1>3. n <= n /\ n \in 0 .. n
    OBVIOUS
  <1> QED
    BY <1>1, <1>2, <1>3, SumsAgree

LEMMA SumNat ==
    ASSUME NEW f, NEW n \in Nat, \A i \in 0 .. n - 1 : f[i] \in Nat
    PROVE  Sum(f, n) \in Nat
  <1> DEFINE S == {k \in Nat : k <= n => Sum(f, k) \in Nat}
  <1>1. 0 \in S
    BY SumZero
  <1>2. ASSUME NEW k \in S
        PROVE  k + 1 \in S
    <2>1. Sum(f, k + 1) = Sum(f, k) + f[k]
      BY SumStep
    <2>2. k + 1 <= n => k \in 0 .. n - 1 /\ k <= n
      OBVIOUS
    <2> QED
      BY <2>1, <2>2
  <1> HIDE DEF S
  <1>3. S = Nat
    <2>1. S \in SUBSET Nat
      BY DEF S
    <2> QED
      BY <1>1, <1>2, <2>1, Inductive
  <1> QED
    BY <1>3 DEF S

LEMMA SumMonotone ==
    ASSUME NEW f, NEW a \in Nat, NEW b \in Nat, a < b, \A i \in 0 .. b - 1 : f[i] \in Nat
    PROVE  /\ Sum(f, a) \in Nat /\ Sum(f, b) \in Nat
           /\ Sum(f, a) + f[a] <= Sum(f, b)
  <1> DEFINE S == {k \in Nat : a < k /\ k <= b => Sum(f, a) + f[a] <= Sum(f, k)}
  <1>1. 0 \in S
    OBVIOUS
  <1>t. \A k \in 0 .. b : Sum(f, k) \in Nat
    <2> SUFFICES ASSUME NEW k \in 0 .. b
                 PROVE  Sum(f, k) \in Nat
      OBVIOUS
    <2>1. \A i \in 0 .. k - 1 : f[i] \in Nat
      OBVIOUS
    <2> QED
      BY <2>1, SumNat
  <1>2. ASSUME NEW k \in S
        PROVE  k + 1 \in S
    <2>1. Sum(f, k + 1) = Sum(f, k) + f[k]
      BY SumStep
    <2>2. ASSUME a < k + 1, k + 1 <= b
          PROVE  Sum(f, a) + f[a] <= Sum(f, k + 1)
      <3>1. f[k] \in Nat /\ f[a] \in Nat /\ Sum(f, k) \in Nat /\ Sum(f, a) \in Nat
        BY <2>2, <1>t
      <3>2. CASE a = k
        BY <3>1, <3>2, <2>1
      <3>3. CASE a < k
        <4>1. Sum(f, a) + f[a] <= Sum(f, k)
          BY <3>3, <2>2
        <4> QED
          BY <4>1, <3>1, <2>1
      <3> QED
        BY <2>2, <3>2, <3>3
    <2> QED
      BY <2>2
  <1> HIDE DEF S
  <1>3. S = Nat
    <2>1. S \in SUBSET Nat
      BY DEF S
    <2> QED
      BY <1>1, <1>2, <2>1, Inductive
  <1> QED
    BY <1>3, <1>t DEF S

\* Intervals laid end to end do not overlap.
LEMMA SumApart ==
    ASSUME NEW f, NEW n \in Nat, \A i \in 0 .. n - 1 : f[i] \in Nat,
           NEW a \in 0 .. n - 1, NEW b \in 0 .. n - 1, NEW i \in Int,
           i - Sum(f, a) \in 0 .. f[a] - 1, i - Sum(f, b) \in 0 .. f[b] - 1
    PROVE  a = b
  <1>1. ASSUME a < b
        PROVE  FALSE
    <2>1. Sum(f, a) \in Nat /\ Sum(f, b) \in Nat /\ Sum(f, a) + f[a] <= Sum(f, b)
      BY <1>1, SumMonotone
    <2>2. f[a] \in Nat /\ f[b] \in Nat
      OBVIOUS
    <2> QED
      BY <2>1, <2>2
  <1>2. ASSUME b < a
        PROVE  FALSE
    <2>1. Sum(f, a) \in Nat /\ Sum(f, b) \in Nat /\ Sum(f, b) + f[b] <= Sum(f, a)
      BY <1>2, SumMonotone
    <2>2. f[a] \in Nat /\ f[b] \in Nat
      OBVIOUS
    <2> QED
      BY <2>1, <2>2
  <1> QED
    BY <1>1, <1>2

LEMMA SumShift ==
    ASSUME NEW f, NEW g, NEW a \in Nat, NEW b \in Nat,
           \A i \in 0 .. a + b - 1 : f[i] \in Nat,
           \A i \in 0 .. b - 1 : g[i] = f[a + i]
    PROVE  Sum(f, a + b) = Sum(f, a) + Sum(g, b)
  <1> DEFINE S == {k \in Nat : k <= b => Sum(f, a + k) = Sum(f, a) + Sum(g, k)}
  <1>t. Sum(f, a) \in Nat
    <2>1. \A i \in 0 .. a - 1 : f[i] \in Nat
      OBVIOUS
    <2> QED
      BY <2>1, SumNat
  <1>1. 0 \in S
    BY SumZero, <1>t
  <1>2. ASSUME NEW k \in S
        PROVE  k + 1 \in S
    <2>1. Sum(f, (a + k) + 1) = Sum(f, a + k) + f[a + k] /\ Sum(g, k + 1) = Sum(g, k) + g[k]
      BY SumStep, a + k \in Nat
    <2>2. ASSUME k + 1 <= b
          PROVE  Sum(f, a + (k + 1)) = Sum(f, a) + Sum(g, k + 1)
      <3>1. g[k] = f[a + k] /\ f[a + k] \in Nat /\ a + (k + 1) = (a + k) + 1
        BY <2>2
      <3>2. Sum(g, k) \in Nat
        <4>1. \A i \in 0 .. k - 1 : g[i] \in Nat
          <5> TAKE i \in 0 .. k - 1
          <5>1. i \in 0 .. b - 1 /\ a + i \in 0 .. a + b - 1
            BY <2>2
          <5> QED
            BY <5>1
        <4> QED
          BY <4>1, SumNat
      <3>3. Sum(f, a + k) = Sum(f, a) + Sum(g, k)
        BY <2>2
      <3> QED
        BY <2>1, <3>1, <3>2, <3>3, <1>t
    <2> QED
      BY <2>2
  <1> HIDE DEF S
  <1>3. S = Nat
    <2>1. S \in SUBSET Nat
      BY DEF S
    <2> QED
      BY <1>1, <1>2, <2>1, Inductive
  <1> QED
    BY <1>3 DEF S

LEMMA SumAdded ==
    ASSUME NEW f, NEW g, NEW h, NEW n \in Nat,
           \A i \in 0 .. n - 1 : f[i] \in Nat /\ g[i] \in Nat /\ h[i] = f[i] + g[i]
    PROVE  Sum(h, n) = Sum(f, n) + Sum(g, n)
  <1> DEFINE S == {k \in Nat : k <= n => /\ Sum(f, k) \in Nat /\ Sum(g, k) \in Nat
                                         /\ Sum(h, k) = Sum(f, k) + Sum(g, k)}
  <1>1. 0 \in S
    BY SumZero
  <1>2. ASSUME NEW k \in S
        PROVE  k + 1 \in S
    <2>1. /\ Sum(f, k + 1) = Sum(f, k) + f[k] /\ Sum(g, k + 1) = Sum(g, k) + g[k]
          /\ Sum(h, k + 1) = Sum(h, k) + h[k]
      BY SumStep
    <2>2. k + 1 <= n => k \in 0 .. n - 1 /\ k <= n
      OBVIOUS
    <2> QED
      BY <2>1, <2>2
  <1> HIDE DEF S
  <1>3. S = Nat
    <2>1. S \in SUBSET Nat
      BY DEF S
    <2> QED
      BY <1>1, <1>2, <2>1, Inductive
  <1> QED
    BY <1>3 DEF S

LEMMA SumBound ==
    ASSUME NEW f, NEW n \in Nat, NEW c \in Nat, \A i \in 0 .. n - 1 : f[i] \in 0 .. c
    PROVE  Sum(f, n) \in 0 .. n * c
  <1> DEFINE S == {k \in Nat : k <= n => Sum(f, k) \in 0 .. k * c}
  <1>1. 0 \in S
    BY SumZero
  <1>2. ASSUME NEW k \in S
        PROVE  k + 1 \in S
    <2>1. Sum(f, k + 1) = Sum(f, k) + f[k]
      BY SumStep
    <2>2. k + 1 <= n => k \in 0 .. n - 1 /\ k <= n
      OBVIOUS
    <2>3. (k + 1) * c = k * c + c /\ k * c \in Nat
      OBVIOUS
    <2> QED
      BY <2>1, <2>2, <2>3
  <1> HIDE DEF S
  <1>3. S = Nat
    <2>1. S \in SUBSET Nat
      BY DEF S
    <2> QED
      BY <1>1, <1>2, <2>1, Inductive
  <1> QED
    BY <1>3 DEF S

-----------------------------------------------------------------------------
(* Counting. *)

\* Elements of a set whose number is i, and whose number is less.
At(R, h, i) == {x \in R : h[x] = i}
Under(R, h, i) == {x \in R : h[x] < i}

\* Elements sorted by a number add up.
LEMMA CountSum ==
    ASSUME NEW R, IsFiniteSet(R), NEW h, \A x \in R : h[x] \in Nat, NEW k \in Nat,
           NEW f, \A i \in 0 .. k - 1 : f[i] = Cardinality(At(R, h, i))
    PROVE  Sum(f, k) = Cardinality(Under(R, h, k))
  <1> DEFINE less(i) == Under(R, h, i)
             same(i) == At(R, h, i)
             S == {i \in Nat : i <= k => Sum(f, i) = Cardinality(less(i))}
  <1>1. 0 \in S
    <2>1. less(0) = {}
      BY DEF Under
    <2>2. Cardinality(less(0)) = 0
      BY <2>1, FS_EmptySet
    <2> QED
      BY <2>2, SumZero
  <1>2. ASSUME NEW i \in S
        PROVE  i + 1 \in S
    <2>1. ASSUME i + 1 <= k
          PROVE  Sum(f, i + 1) = Cardinality(less(i + 1))
      <3>1. Sum(f, i + 1) = Sum(f, i) + f[i]
        BY SumStep
      <3>2. less(i + 1) = less(i) \cup same(i) /\ less(i) \cap same(i) = {}
        BY DEF Under, At
      <3>3. less(i) \in SUBSET R /\ same(i) \in SUBSET R
        BY DEF Under, At
      <3>4. i \in 0 .. k - 1 /\ i <= k
        BY <2>1
      <3>5. f[i] = Cardinality(same(i)) /\ Sum(f, i) = Cardinality(less(i))
        BY <3>4
      <3> HIDE DEF less, same
      <3>6. IsFiniteSet(less(i)) /\ IsFiniteSet(same(i))
        BY <3>3, FS_Subset
      <3>7. Cardinality(less(i)) \in Nat /\ Cardinality(same(i)) \in Nat
        BY <3>6, FS_CardinalityType
      <3>8. Cardinality(less(i) \cup same(i))
              = Cardinality(less(i)) + Cardinality(same(i)) - Cardinality(less(i) \cap same(i))
        BY <3>6, FS_Union
      <3>9. Cardinality(less(i) \cap same(i)) = 0
        BY <3>2, FS_EmptySet
      <3>10. Cardinality(less(i) \cup same(i)) = Cardinality(less(i)) + Cardinality(same(i))
        BY <3>7, <3>8, <3>9
      <3>11. Cardinality(less(i + 1)) = Cardinality(less(i) \cup same(i))
        BY <3>2
      <3> QED
        BY <3>1, <3>5, <3>10, <3>11
    <2> HIDE DEF less
    <2> QED
      BY <2>1
  <1> HIDE DEF S
  <1>3. S = Nat
    <2>1. S \in SUBSET Nat
      BY DEF S
    <2> QED
      BY <1>1, <1>2, <2>1, Inductive
  <1> QED
    BY <1>3 DEF S

\* Elements of a finite set of naturals below one of them.
Lower(S, x) == Cardinality({y \in S : y < x})

LEMMA LowerStrict ==
    ASSUME NEW S \in SUBSET Nat, IsFiniteSet(S), NEW x \in S, NEW z \in S, x < z
    PROVE  Lower(S, x) < Lower(S, z)
  <1> DEFINE A == {y \in S : y < x}
             B == {y \in S : y < z}
  <1>a. x \in Nat /\ z \in Nat /\ \A y \in S : y \in Nat
    OBVIOUS
  <1>b. A \in SUBSET S /\ B \in SUBSET S /\ x \notin A
    BY <1>a
  <1>c. \A y \in A \cup {x} : y \in B
    BY <1>a
  <1>1. A \in SUBSET S /\ B \in SUBSET S /\ A \cup {x} \in SUBSET B /\ x \notin A
    BY <1>b, <1>c
  <1>2. Lower(S, x) = Cardinality(A) /\ Lower(S, z) = Cardinality(B)
    BY DEF Lower
  <1> HIDE DEF A, B
  <1>3. IsFiniteSet(A) /\ IsFiniteSet(B)
    BY <1>1, FS_Subset
  <1>4. Cardinality(A \cup {x}) = Cardinality(A) + 1
    BY <1>1, <1>3, FS_AddElement
  <1>5. Cardinality(A \cup {x}) <= Cardinality(B)
    BY <1>1, <1>3, FS_Subset
  <1>6. Cardinality(A) \in Nat /\ Cardinality(B) \in Nat
    BY <1>3, FS_CardinalityType
  <1> QED
    BY <1>2, <1>4, <1>5, <1>6

LEMMA LowerRange ==
    ASSUME NEW S \in SUBSET Nat, IsFiniteSet(S), NEW x \in S
    PROVE  Cardinality(S) \in Nat /\ Lower(S, x) \in 0 .. Cardinality(S) - 1
  <1> DEFINE A == {y \in S : y < x}
  <1>1. A \in SUBSET S /\ A \cup {x} \in SUBSET S /\ x \notin A
    OBVIOUS
  <1>2. Lower(S, x) = Cardinality(A)
    BY DEF Lower
  <1> HIDE DEF A
  <1>3. IsFiniteSet(A)
    BY <1>1, FS_Subset
  <1>4. Cardinality(A \cup {x}) = Cardinality(A) + 1
    BY <1>1, <1>3, FS_AddElement
  <1>5. Cardinality(A \cup {x}) <= Cardinality(S)
    BY <1>1, <1>3, FS_Subset
  <1>6. Cardinality(A) \in Nat /\ Cardinality(S) \in Nat
    BY <1>3, FS_CardinalityType
  <1> QED
    BY <1>2, <1>4, <1>5, <1>6

LEMMA LowerOnto ==
    ASSUME NEW S \in SUBSET Nat, IsFiniteSet(S), NEW j \in 0 .. Cardinality(S) - 1
    PROVE  \E x \in S : Lower(S, x) = j
  <1> DEFINE f == [x \in S |-> Lower(S, x)]
             T == 0 .. Cardinality(S) - 1
  <1>t. Cardinality(S) \in Nat
    BY FS_CardinalityType
  <1>1. f \in [S -> T]
    BY LowerRange
  <1>2. ASSUME NEW x \in S, NEW z \in S, f[x] = f[z]
        PROVE  x = z
    <2>0. Lower(S, x) = Lower(S, z) /\ Lower(S, x) \in Int
      BY <1>2, LowerRange
    <2>1. ~ (x < z) /\ ~ (z < x)
      BY <2>0, LowerStrict
    <2>2. x \in Nat /\ z \in Nat
      OBVIOUS
    <2> QED
      BY <2>1, <2>2
  <1>3. IsFiniteSet(T) /\ Cardinality(T) = Cardinality(S)
    <2>1. 0 \in Int /\ Cardinality(S) - 1 \in Int
      BY <1>t
    <2>2. IsFiniteSet(T) /\ Cardinality(T) = IF 0 > Cardinality(S) - 1 THEN 0 ELSE Cardinality(S) - 1 - 0 + 1
      BY <2>1, FS_Interval
    <2> QED
      BY <2>2, <1>t
  <1> HIDE DEF f, T
  <1>4. f \in Injection(S, T)
    BY <1>1, <1>2 DEF Injection, IsInjective
  <1>5. f \in Surjection(S, T)
    BY <1>3, <1>4, FS_Injection
  <1>6. j \in T
    BY DEF T
  <1>7. \E x \in S : f[x] = j
    BY <1>5, <1>6 DEF Surjection
  <1> QED
    BY <1>7 DEF f

-----------------------------------------------------------------------------
(* Routes of a source. *)

\* What a rank brings to a layer, as PlansFit has it.
Brings(n, c) ==
    /\ n \in (0 .. SegmentRows) \X (0 .. SegmentRows)
    /\ \A t \in Tokens :
         /\ c[t] \in [1 .. TopK -> Globals]
         /\ \A i, j \in 1 .. TopK : i # j => c[t][i] # c[t][j]

LEMMA SizeFacts ==
    ASSUME Sizes
    PROVE  /\ EP \in Nat \ {0} /\ Local \in Nat \ {0} /\ SegmentRows \in Nat \ {0}
           /\ TopK \in Nat \ {0} /\ CountTile \in Nat \ {0} /\ PutTile \in Nat \ {0}
           /\ RecvTile \in Nat \ {0} /\ Layers \in Nat \ {0} /\ Requests \in Nat
           /\ PeerCap \in Nat /\ PeerCap = (2 * SegmentRows) * TopK
  BY DEF Sizes, PeerCap

LEMMA LengthFacts ==
    ASSUME NEW n, NEW c, Brings(n, c), Sizes
    PROVE  /\ n[1] \in 0 .. SegmentRows /\ n[2] \in 0 .. SegmentRows
           /\ n[1] + n[2] \in Nat /\ n[1] + n[2] <= 2 * SegmentRows
           /\ (n[1] + n[2]) * TopK \in Nat /\ (n[1] + n[2]) * TopK <= PeerCap
  <1>1. n[1] \in 0 .. SegmentRows /\ n[2] \in 0 .. SegmentRows
    BY DEF Brings
  <1>2. n[1] + n[2] \in Nat /\ n[1] + n[2] <= 2 * SegmentRows /\ 2 * SegmentRows \in Nat
    BY <1>1, SizeFacts
  <1>3. (n[1] + n[2]) * TopK \in Nat /\ (n[1] + n[2]) * TopK <= (2 * SegmentRows) * TopK
    BY <1>2, SizeFacts, Products
  <1> QED
    BY <1>1, <1>2, <1>3, SizeFacts

LEMMA SlotFacts ==
    ASSUME NEW n, NEW c, Brings(n, c), Sizes, NEW t \in 0 .. n[1] + n[2] - 1
    PROVE  /\ SlotIn(n, t) \in Tokens
           /\ \A u \in 0 .. n[1] + n[2] - 1 : t < u => SlotIn(n, t) < SlotIn(n, u)
  <1>1. n[1] \in 0 .. SegmentRows /\ n[2] \in 0 .. SegmentRows /\ SegmentRows \in Nat
    BY LengthFacts, SizeFacts
  <1>2. SlotIn(n, t) = IF t < n[1] THEN t ELSE SegmentRows + t - n[1]
    BY DEF SlotIn
  <1>3. \A u : SlotIn(n, u) = IF u < n[1] THEN u ELSE SegmentRows + u - n[1]
    BY DEF SlotIn
  <1>4. SlotIn(n, t) \in Tokens
    BY <1>1, <1>2 DEF Tokens
  <1>5. ASSUME NEW u \in 0 .. n[1] + n[2] - 1, t < u
        PROVE  SlotIn(n, t) < SlotIn(n, u)
    <2>1. SlotIn(n, u) = IF u < n[1] THEN u ELSE SegmentRows + u - n[1]
      BY <1>3
    <2> QED
      BY <1>1, <1>2, <1>5, <2>1
  <1> QED
    BY <1>4, <1>5

\* A slot is live if it is that of a token.
Live(n, i) == i < n[1] \/ i \in SegmentRows .. SegmentRows + n[2] - 1

LEMMA LiveSlots ==
    ASSUME NEW n, NEW c, Brings(n, c), Sizes, NEW i \in Tokens
    PROVE  Live(n, i) <=> \E t \in 0 .. n[1] + n[2] - 1 : SlotIn(n, t) = i
  <1>1. n[1] \in 0 .. SegmentRows /\ n[2] \in 0 .. SegmentRows /\ SegmentRows \in Nat
    BY LengthFacts, SizeFacts
  <1>2. i \in 0 .. 2 * SegmentRows - 1
    BY DEF Tokens
  <1>3. ASSUME NEW t \in 0 .. n[1] + n[2] - 1, SlotIn(n, t) = i
        PROVE  Live(n, i)
    <2>1. i = IF t < n[1] THEN t ELSE SegmentRows + t - n[1]
      BY <1>3 DEF SlotIn
    <2> QED
      BY <1>1, <1>2, <2>1 DEF Live
  <1>4. ASSUME Live(n, i)
        PROVE  \E t \in 0 .. n[1] + n[2] - 1 : SlotIn(n, t) = i
    <2>1. CASE i < n[1]
      <3>1. i \in 0 .. n[1] + n[2] - 1
        BY <1>1, <1>2, <2>1
      <3>2. SlotIn(n, i) = i
        BY <2>1 DEF SlotIn
      <3> QED
        BY <3>1, <3>2
    <2>2. CASE i \in SegmentRows .. SegmentRows + n[2] - 1
      <3> DEFINE t == i - SegmentRows + n[1]
      <3>1. t \in 0 .. n[1] + n[2] - 1 /\ ~ (t < n[1]) /\ SegmentRows + t - n[1] = i
        BY <1>1, <1>2, <2>2
      <3> HIDE DEF t
      <3>2. SlotIn(n, t) = i
        BY <3>1 DEF SlotIn
      <3> QED
        BY <3>1, <3>2
    <2> QED
      BY <1>4, <2>1, <2>2 DEF Live
  <1> QED
    BY <1>3, <1>4

LEMMA RouteFacts ==
    ASSUME NEW n, NEW c, Brings(n, c), Sizes, NEW x \in RoutesIn(n)
    PROVE  /\ x \in Nat
           /\ x \div TopK \in 0 .. n[1] + n[2] - 1 /\ x % TopK \in 0 .. TopK - 1
           /\ x = (x \div TopK) * TopK + (x % TopK)
           /\ SlotIn(n, x \div TopK) \in Tokens
           /\ ExpertIn(n, c, x) \in Globals
  <1>1. x \in Nat /\ x < (n[1] + n[2]) * TopK /\ n[1] + n[2] \in Nat /\ TopK \in Nat \ {0}
    BY LengthFacts, SizeFacts DEF RoutesIn
  <1>2. /\ x \div TopK \in Nat /\ x % TopK \in 0 .. TopK - 1
        /\ x = (x \div TopK) * TopK + (x % TopK) /\ x \div TopK < n[1] + n[2]
    <2> DEFINE m == n[1] + n[2]
    <2>1. m \in Nat /\ x < m * TopK
      BY <1>1
    <2> HIDE DEF m
    <2>2. /\ x \div TopK \in Nat /\ x % TopK \in 0 .. TopK - 1
          /\ x = (x \div TopK) * TopK + (x % TopK)
          /\ \A q \in Nat : x < q * TopK => x \div TopK < q
      BY <1>1, Divided
    <2>3. x \div TopK < m
      BY <2>1, <2>2
    <2> QED
      BY <2>2, <2>3 DEF m
  <1>3. x \div TopK \in 0 .. n[1] + n[2] - 1
    <2> DEFINE d == x \div TopK
    <2>1. d \in Nat /\ d < n[1] + n[2]
      BY <1>2
    <2>2. n[1] \in Nat /\ n[2] \in Nat
      BY LengthFacts, SizeFacts
    <2> HIDE DEF d
    <2>3. d \in 0 .. n[1] + n[2] - 1
      BY <2>1, <2>2
    <2> QED
      BY <2>3 DEF d
  <1>4. SlotIn(n, x \div TopK) \in Tokens
    BY <1>3, SlotFacts
  <1>5. (x % TopK) + 1 \in 1 .. TopK
    BY <1>1, <1>2
  <1>6. ExpertIn(n, c, x) \in Globals
    BY <1>4, <1>5 DEF ExpertIn, Brings
  <1> QED
    BY <1>1, <1>2, <1>3, <1>4, <1>6

\* The route of a token's k-th choice.
LEMMA RouteOf ==
    ASSUME NEW n, NEW c, Brings(n, c), Sizes,
           NEW t \in 0 .. n[1] + n[2] - 1, NEW k \in 0 .. TopK - 1
    PROVE  /\ t * TopK + k \in RoutesIn(n)
           /\ (t * TopK + k) \div TopK = t /\ (t * TopK + k) % TopK = k
  <1> DEFINE x == t * TopK + k
  <1>1. n[1] + n[2] \in Nat /\ TopK \in Nat \ {0} /\ t \in Nat /\ t < n[1] + n[2]
    BY LengthFacts, SizeFacts
  <1>2. t * TopK \in Nat /\ t * TopK + TopK <= (n[1] + n[2]) * TopK /\ (n[1] + n[2]) * TopK \in Nat
    BY <1>1, LengthFacts, Products
  <1>3. x \in Nat /\ x <= (n[1] + n[2]) * TopK - 1
    BY <1>1, <1>2
  <1>4. x = t * TopK + k
    OBVIOUS
  <1>5. x \in RoutesIn(n)
    BY <1>3, <1>2 DEF RoutesIn
  <1> HIDE DEF x
  <1>6. x \div TopK = t /\ x % TopK = k
    <2>1. \A q \in Nat, m \in 0 .. TopK - 1 :
            x = q * TopK + m => x \div TopK = q /\ x % TopK = m
      BY <1>1, <1>3, Divided
    <2> QED
      BY <1>1, <1>4, <2>1
  <1> QED
    BY <1>4, <1>5, <1>6

LEMMA ClassFacts ==
    ASSUME NEW n, NEW c, Brings(n, c), Sizes, NEW g
    PROVE  /\ RoutesIn(n) \in SUBSET Nat /\ IsFiniteSet(RoutesIn(n))
           /\ Cardinality(RoutesIn(n)) = (n[1] + n[2]) * TopK
           /\ Class(n, c, g) \in SUBSET RoutesIn(n) /\ Class(n, c, g) \in SUBSET Nat
           /\ IsFiniteSet(Class(n, c, g)) /\ Size(n, c, g) \in Nat
  <1> DEFINE m == (n[1] + n[2]) * TopK
  <1>1. m \in Nat
    BY LengthFacts
  <1>2. RoutesIn(n) = 0 .. m - 1
    BY DEF RoutesIn
  <1> HIDE DEF m
  <1>3. RoutesIn(n) \in SUBSET Nat
    BY <1>1, <1>2
  <1>4. 0 \in Int /\ m - 1 \in Int
    BY <1>1
  <1>5. IsFiniteSet(RoutesIn(n)) /\ Cardinality(RoutesIn(n)) = IF 0 > m - 1 THEN 0 ELSE m - 1 - 0 + 1
    BY <1>2, <1>4, FS_Interval
  <1>6. Cardinality(RoutesIn(n)) = m
    BY <1>1, <1>5
  <1>7. Class(n, c, g) \in SUBSET RoutesIn(n)
    BY DEF Class
  <1>8. IsFiniteSet(Class(n, c, g))
    BY <1>5, <1>7, FS_Subset
  <1>9. Size(n, c, g) \in Nat
    BY <1>8, FS_CardinalityType DEF Size
  <1> QED
    BY <1>3, <1>5, <1>6, <1>7, <1>8, <1>9 DEF m

LEMMA FirstStep ==
    ASSUME NEW n, NEW c, Brings(n, c), Sizes, NEW g \in Nat
    PROVE  /\ First(n, c, 0) = 0 /\ First(n, c, g) \in Nat
           /\ First(n, c, g + 1) = First(n, c, g) + Size(n, c, g)
  <1> DEFINE f(k) == [i \in 0 .. k - 1 |-> Size(n, c, i)]
  <1>1. Sum(f(g + 1), g + 1) = Sum(f(g + 1), g) + f(g + 1)[g]
    BY SumStep
  <1>2. f(g + 1)[g] = Size(n, c, g)
    OBVIOUS
  <1>3. \A i \in 0 .. g - 1 : f(g + 1)[i] = f(g)[i]
    OBVIOUS
  <1>4. \A i \in 0 .. g - 1 : f(g)[i] \in Nat
    BY ClassFacts
  <1>5. First(n, c, g + 1) = Sum(f(g + 1), g + 1) /\ First(n, c, g) = Sum(f(g), g)
    BY DEF First
  <1>6. First(n, c, 0) = 0
    BY SumZero DEF First
  <1> HIDE DEF f
  <1>7. Sum(f(g + 1), g) = Sum(f(g), g)
    BY <1>3, SumSame
  <1>8. Sum(f(g), g) \in Nat
    BY <1>4, SumNat
  <1> QED
    BY <1>1, <1>2, <1>5, <1>6, <1>7, <1>8

\* The experts' routes lie one after the other.
LEMMA FirstIs ==
    ASSUME NEW n, NEW c, Brings(n, c), Sizes, NEW g \in Nat
    PROVE  First(n, c, g) = Cardinality({x \in RoutesIn(n) : ExpertIn(n, c, x) < g})
  <1> DEFINE R == RoutesIn(n)
             h == [x \in R |-> ExpertIn(n, c, x)]
             f == [i \in 0 .. g - 1 |-> Size(n, c, i)]
  <1>1. \A x \in R : h[x] = ExpertIn(n, c, x) /\ h[x] \in Nat
    <2>1. Globals \subseteq Nat
      BY DEF Globals
    <2> QED
      BY <2>1, RouteFacts
  <1>2. \A i : At(R, h, i) = Class(n, c, i)
    BY <1>1 DEF Class, At
  <1>3. \A i \in 0 .. g - 1 : f[i] = Cardinality(At(R, h, i))
    BY <1>2 DEF Size
  <1>4. Under(R, h, g) = {x \in R : ExpertIn(n, c, x) < g}
    BY <1>1 DEF Under
  <1>5. First(n, c, g) = Sum(f, g)
    BY DEF First
  <1>6. IsFiniteSet(R)
    BY ClassFacts
  <1> HIDE DEF R, h, f
  <1>7. Sum(f, g) = Cardinality(Under(R, h, g))
    BY <1>1, <1>3, <1>6, CountSum
  <1> QED
    BY <1>4, <1>5, <1>7 DEF R

LEMMA FirstMonotone ==
    ASSUME NEW n, NEW c, Brings(n, c), Sizes, NEW a \in Nat, NEW b \in Nat, a <= b
    PROVE  /\ First(n, c, a) \in Nat /\ First(n, c, b) \in Nat /\ Size(n, c, a) \in Nat
           /\ First(n, c, a) <= First(n, c, b)
           /\ a < b => First(n, c, a) + Size(n, c, a) <= First(n, c, b)
           /\ First(n, c, b) <= (n[1] + n[2]) * TopK
  <1> DEFINE f == [i \in 0 .. b - 1 |-> Size(n, c, i)]
             fa == [i \in 0 .. a - 1 |-> Size(n, c, i)]
  <1>1. First(n, c, a) \in Nat /\ First(n, c, b) \in Nat
    BY FirstStep
  <1>2. \A i \in 0 .. b - 1 : f[i] = Size(n, c, i) /\ f[i] \in Nat
    BY ClassFacts
  <1>3. First(n, c, b) = Sum(f, b) /\ First(n, c, a) = Sum(fa, a)
    BY DEF First
  <1>4. \A i \in 0 .. a - 1 : fa[i] = f[i]
    OBVIOUS
  <1> HIDE DEF f, fa
  <1>5. Sum(fa, a) = Sum(f, a)
    BY <1>4, SumSame
  <1>6. ASSUME a < b
        PROVE  First(n, c, a) + Size(n, c, a) <= First(n, c, b)
    <2>1. Sum(f, a) + f[a] <= Sum(f, b)
      BY <1>2, <1>6, SumMonotone
    <2> QED
      BY <2>1, <1>2, <1>3, <1>5, <1>6
  <1>7. Size(n, c, a) \in Nat
    BY ClassFacts
  <1>8. First(n, c, b) <= (n[1] + n[2]) * TopK
    <2>1. {x \in RoutesIn(n) : ExpertIn(n, c, x) < b} \in SUBSET RoutesIn(n)
      OBVIOUS
    <2>2. Cardinality({x \in RoutesIn(n) : ExpertIn(n, c, x) < b}) <= Cardinality(RoutesIn(n))
      BY <2>1, ClassFacts, FS_Subset
    <2> QED
      BY <2>2, FirstIs, ClassFacts
  <1> QED
    BY <1>1, <1>6, <1>7, <1>8

\* A route is the j-th of its class for exactly one j.
LEMMA RankFacts ==
    ASSUME NEW n, NEW c, Brings(n, c), Sizes, NEW g, NEW x \in Class(n, c, g)
    PROVE  /\ Rank(n, c, x) \in 0 .. Size(n, c, g) - 1
           /\ \A z \in Class(n, c, g) : x < z => Rank(n, c, x) < Rank(n, c, z)
           /\ \A z \in Class(n, c, g) : Rank(n, c, x) = Rank(n, c, z) => x = z
  <1> DEFINE S == Class(n, c, g)
  <1>1. S \in SUBSET Nat /\ IsFiniteSet(S) /\ Size(n, c, g) = Cardinality(S)
    BY ClassFacts DEF Size
  <1>2. \A z \in S : Rank(n, c, z) = Lower(S, z)
    BY DEF Rank, Lower, Class
  <1> HIDE DEF S
  <1>3. x \in S
    BY DEF S
  <1>4. Rank(n, c, x) \in 0 .. Size(n, c, g) - 1
    BY <1>1, <1>2, <1>3, LowerRange
  <1>5. ASSUME NEW z \in S, x < z
        PROVE  Rank(n, c, x) < Rank(n, c, z)
    BY <1>1, <1>2, <1>3, <1>5, LowerStrict
  <1>6. ASSUME NEW z \in S, Rank(n, c, x) = Rank(n, c, z)
        PROVE  x = z
    <2>1. ~ (x < z)
      BY <1>4, <1>5, <1>6
    <2>2. ~ (z < x)
      <3>1. z < x => Rank(n, c, z) < Rank(n, c, x)
        BY <1>1, <1>2, <1>3, LowerStrict
      <3> QED
        BY <1>4, <1>6, <3>1
    <2>3. x \in Nat /\ z \in Nat
      BY <1>1, <1>3
    <2> QED
      BY <2>1, <2>2, <2>3
  <1> QED
    BY <1>4, <1>5, <1>6 DEF S

LEMMA NthFacts ==
    ASSUME NEW n, NEW c, Brings(n, c), Sizes, NEW g, NEW j \in 0 .. Size(n, c, g) - 1
    PROVE  Nth(n, c, g, j) \in Class(n, c, g) /\ Rank(n, c, Nth(n, c, g, j)) = j
  <1> DEFINE S == Class(n, c, g)
  <1>1. S \in SUBSET Nat /\ IsFiniteSet(S) /\ Size(n, c, g) = Cardinality(S)
    BY ClassFacts DEF Size
  <1>2. \A z \in S : Rank(n, c, z) = Lower(S, z)
    BY DEF Rank, Lower, Class
  <1> HIDE DEF S
  <1>3. \E x \in S : Lower(S, x) = j
    BY <1>1, LowerOnto
  <1>4. \E x \in S : Rank(n, c, x) = j
    BY <1>2, <1>3
  <1> QED
    BY <1>4 DEF S, Nth

LEMMA NthOfRank ==
    ASSUME NEW n, NEW c, Brings(n, c), Sizes, NEW g, NEW x \in Class(n, c, g)
    PROVE  Nth(n, c, g, Rank(n, c, x)) = x
  <1>1. Rank(n, c, x) \in 0 .. Size(n, c, g) - 1
    BY RankFacts
  <1>2. /\ Nth(n, c, g, Rank(n, c, x)) \in Class(n, c, g)
        /\ Rank(n, c, Nth(n, c, g, Rank(n, c, x))) = Rank(n, c, x)
    BY <1>1, NthFacts
  <1> QED
    BY <1>2, RankFacts

LEMMA NthIncreases ==
    ASSUME NEW n, NEW c, Brings(n, c), Sizes, NEW g,
           NEW i \in 0 .. Size(n, c, g) - 1, NEW j \in 0 .. Size(n, c, g) - 1, i < j
    PROVE  Nth(n, c, g, i) < Nth(n, c, g, j)
  <1> DEFINE x == Nth(n, c, g, i)
             z == Nth(n, c, g, j)
  <1>1. x \in Class(n, c, g) /\ Rank(n, c, x) = i /\ z \in Class(n, c, g) /\ Rank(n, c, z) = j
    BY NthFacts
  <1>2. x \in Nat /\ z \in Nat
    BY <1>1, ClassFacts
  <1> HIDE DEF x, z
  <1>3. z < x => Rank(n, c, z) < Rank(n, c, x)
    BY <1>1, RankFacts
  <1>4. z # x /\ ~ (z < x)
    BY <1>1, <1>3
  <1>5. x < z
    BY <1>2, <1>4
  <1> QED
    BY <1>5 DEF x, z

-----------------------------------------------------------------------------
(* Packing. *)

LEMMA QuotientOrder ==
    ASSUME NEW c \in Nat \ {0}, NEW a \in Nat, NEW b \in Nat, a <= b
    PROVE  a \div c \in Nat /\ b \div c \in Nat /\ a \div c <= b \div c
  <1> DEFINE d == b \div c
  <1>1. a \div c \in Nat /\ \A q \in Nat : a < q * c => a \div c < q
    BY Divided
  <1>2. d \in Nat /\ b % c \in 0 .. c - 1 /\ b = d * c + (b % c)
    BY Divided
  <1> HIDE DEF d
  <1>3. (d + 1) * c = d * c + c /\ d * c \in Nat
    BY <1>2
  <1>4. a < (d + 1) * c
    BY <1>2, <1>3
  <1>5. a \div c < d + 1
    BY <1>1, <1>2, <1>4
  <1> QED
    BY <1>1, <1>2, <1>5 DEF d

LEMMA ShardOrder ==
    ASSUME Sizes, NEW x \in Nat, NEW y \in Nat
    PROVE  ShardOf(x) \in Nat /\ (y <= x => ShardOf(y) <= ShardOf(x))
  <1>1. x \div TopK \in Nat /\ y \div TopK \in Nat /\ (y <= x => y \div TopK <= x \div TopK)
    BY SizeFacts, QuotientOrder, x <= x, y <= y
  <1>2. (x \div TopK) \div CountTile \in Nat
    BY <1>1, SizeFacts, Divided
  <1>3. y <= x => (y \div TopK) \div CountTile <= (x \div TopK) \div CountTile
    BY <1>1, SizeFacts, QuotientOrder
  <1> QED
    BY <1>2, <1>3 DEF ShardOf

\* Routes of a shard to an expert, and those of them before a route.
Shard(n, c, g, s) == {y \in Class(n, c, g) : ShardOf(y) = s}
Earlier(n, c, g, x) == {y \in Class(n, c, g) : ShardOf(y) = ShardOf(x) /\ y < x}

\* Counted shard by shard, a route comes where its rank says.
LEMMA ShardsCount ==
    ASSUME NEW n, NEW c, Brings(n, c), Sizes, NEW g, NEW x \in Class(n, c, g)
    PROVE  Sum([s \in 0 .. ShardOf(x) - 1 |-> Cardinality(Shard(n, c, g, s))], ShardOf(x))
             + Cardinality(Earlier(n, c, g, x)) = Rank(n, c, x)
  <1> DEFINE S == Class(n, c, g)
             k == ShardOf(x)
             h == [y \in S |-> ShardOf(y)]
             f == [s \in 0 .. k - 1 |-> Cardinality(Shard(n, c, g, s))]
             A == Under(S, h, k)
             B == Earlier(n, c, g, x)
  <1>1. S \in SUBSET Nat /\ IsFiniteSet(S) /\ x \in S
    BY ClassFacts
  <1>2. \A y \in S : h[y] = ShardOf(y) /\ h[y] \in Nat
    BY <1>1, ShardOrder
  <1>3. k \in Nat
    BY <1>1, ShardOrder
  <1>4. \A s : At(S, h, s) = Shard(n, c, g, s)
    BY <1>2 DEF At, Shard
  <1>5. \A s \in 0 .. k - 1 : f[s] = Cardinality(At(S, h, s))
    BY <1>4
  <1>6. Sum(f, k) = Cardinality(A)
    <2> HIDE DEF f, h, k, S
    <2> QED
      BY <1>1, <1>2, <1>3, <1>5, CountSum
  <1>7. \A y \in S : h[y] < k <=> ShardOf(y) < ShardOf(x)
    BY <1>2
  <1>8. {y \in S : y < x} = A \cup B /\ A \cap B = {}
    <2>1. ASSUME NEW y \in S
          PROVE  /\ y \in A \cup B <=> y < x
                 /\ ~ (y \in A /\ y \in B)
      <3>1. y \in Nat /\ x \in Nat /\ ShardOf(y) \in Nat /\ ShardOf(x) \in Nat
        BY <1>1, ShardOrder
      <3>2. (y <= x => ShardOf(y) <= ShardOf(x)) /\ (x <= y => ShardOf(x) <= ShardOf(y))
        BY <3>1, ShardOrder
      <3>3. y \in A <=> ShardOf(y) < ShardOf(x)
        BY <1>7 DEF Under
      <3>4. y \in B <=> ShardOf(y) = ShardOf(x) /\ y < x
        BY DEF Earlier
      <3> HIDE DEF A, B
      <3> QED
        BY <3>1, <3>2, <3>3, <3>4
    <2>2. A \subseteq S /\ B \subseteq S
      BY DEF Under, Earlier
    <2> HIDE DEF A, B, S
    <2> QED
      BY <2>1, <2>2
  <1>9. A \in SUBSET S /\ B \in SUBSET S
    BY DEF Under, Earlier
  <1>10. Rank(n, c, x) = Cardinality({y \in S : y < x})
    BY DEF Rank, Class
  <1> HIDE DEF A, B, S, f, k, h
  <1>11. IsFiniteSet(A) /\ IsFiniteSet(B)
    BY <1>1, <1>9, FS_Subset
  <1>12. Cardinality(A) \in Nat /\ Cardinality(B) \in Nat
    BY <1>11, FS_CardinalityType
  <1>13. Cardinality(A \cup B) = Cardinality(A) + Cardinality(B) - Cardinality(A \cap B)
    BY <1>11, FS_Union
  <1>14. Cardinality(A \cap B) = 0
    BY <1>8, FS_EmptySet
  <1>15. Rank(n, c, x) = Cardinality(A) + Cardinality(B)
    BY <1>8, <1>10, <1>12, <1>13, <1>14
  <1>16. Sum(f, k) + Cardinality(B) = Rank(n, c, x)
    BY <1>6, <1>15
  <1> QED
    BY <1>16 DEF f, k, B

-----------------------------------------------------------------------------
(* The model's operators in terms of what a rank brings. *)

\* What a batch can be.
Fits(b) ==
    /\ \A s \in Ranks : Brings(b.lengths[s], b.gate[s])
    /\ b.call \in 0 .. Requests * Layers + Layers

LEMMA BroughtBy ==
    ASSUME PlansFit, plan \in Plans, NEW q \in 0 .. Requests - 1, NEW l \in 1 .. Layers,
           NEW s \in Ranks
    PROVE  Brings(plan[q].lengths[s], plan[q].gate[l][s])
  <1>1. /\ plan[q].lengths[s] \in (0 .. SegmentRows) \X (0 .. SegmentRows)
        /\ \A t \in Tokens :
             /\ plan[q].gate[l][s][t] \in [1 .. TopK -> Globals]
             /\ \A i, j \in 1 .. TopK :
                  i # j => plan[q].gate[l][s][t][i] # plan[q].gate[l][s][t][j]
    <2>1. PICK p \in Plans : p = plan
      OBVIOUS
    <2>2. \A a \in 0 .. Requests - 1, b \in Ranks :
            /\ p[a].lengths[b] \in (0 .. SegmentRows) \X (0 .. SegmentRows)
            /\ \A m \in 1 .. Layers, t \in Tokens :
                 /\ p[a].gate[m][b][t] \in [1 .. TopK -> Globals]
                 /\ \A i, j \in 1 .. TopK : i # j => p[a].gate[m][b][t][i] # p[a].gate[m][b][t][j]
      BY DEF PlansFit
    <2>3. /\ p[q].lengths[s] \in (0 .. SegmentRows) \X (0 .. SegmentRows)
          /\ \A m \in 1 .. Layers, t \in Tokens :
               /\ p[q].gate[m][s][t] \in [1 .. TopK -> Globals]
               /\ \A i, j \in 1 .. TopK : i # j => p[q].gate[m][s][t][i] # p[q].gate[m][s][t][j]
      BY <2>2
    <2> QED
      BY <2>1, <2>3
  <1> DEFINE c == plan[q].gate[l][s]
  <1>2. \A t \in Tokens :
             /\ c[t] \in [1 .. TopK -> Globals]
             /\ \A i, j \in 1 .. TopK : i # j => c[t][i] # c[t][j]
    BY <1>1
  <1> HIDE DEF c
  <1>3. Brings(plan[q].lengths[s], c)
    BY <1>1, <1>2 DEF Brings
  <1> QED
    BY <1>3 DEF c

LEMMA Brought ==
    ASSUME Sizes, PlansFit, plan \in Plans, NEW q \in 0 .. Requests - 1, NEW l \in 1 .. Layers
    PROVE  Fits(Batch(q, l))
  <1>1. \A s \in Ranks : Brings(plan[q].lengths[s], plan[q].gate[l][s])
    BY BroughtBy
  <1>2. q \in Nat /\ Requests \in Nat /\ Layers \in Nat /\ q <= Requests
    BY SizeFacts
  <1>3. q * Layers \in Nat /\ q * Layers <= Requests * Layers /\ Requests * Layers \in Nat
    BY <1>2, Products
  <1>4. q * Layers + l \in 0 .. Requests * Layers + Layers
    BY <1>2, <1>3
  <1> QED
    BY <1>1, <1>4 DEF Fits, Batch

MyLens(r) == Current(r).lengths[r]
MyGate(r) == Current(r).gate[r]

LEMMA RoutesAre ==
    ASSUME NEW r
    PROVE  /\ Routes(r) = RoutesIn(MyLens(r))
           /\ \A t : SlotOf(r, t) = SlotIn(MyLens(r), t)
           /\ \A x : ExpertOf(r, x) = ExpertIn(MyLens(r), MyGate(r), x)
           /\ \A x : Route(r, x) = [call |-> Current(r).call, source |-> r,
                                    slot |-> SlotIn(MyLens(r), x \div TopK), k |-> x % TopK]
  BY DEF Routes, RoutesIn, Active, Lengths, MyLens, SlotOf, SlotIn, ExpertOf, ExpertIn,
         MyGate, Route, Current, Batch

LEMMA TotalsAre ==
    ASSUME NEW r
    PROVE  /\ \A g : Total(r, g) = Size(MyLens(r), MyGate(r), g)
           /\ \A g : Start(r, g) = First(MyLens(r), MyGate(r), g)
           /\ \A s, g : Partial(r, s, g) = Cardinality(Shard(MyLens(r), MyGate(r), g, s))
  <1> DEFINE n == MyLens(r)
             c == MyGate(r)
  <1>1. \A g : {x \in Routes(r) : ExpertOf(r, x) = g} = Class(n, c, g)
    BY RoutesAre DEF Class
  <1>2. \A g : Total(r, g) = Size(n, c, g)
    BY <1>1 DEF Total, Size
  <1>3. \A g : Start(r, g) = First(n, c, g)
    BY <1>2 DEF Start, First
  <1>4. \A s, g : {x \in Routes(r) : ShardOf(x) = s /\ ExpertOf(r, x) = g} = Shard(n, c, g, s)
    <2> TAKE s, g
    <2>1. \A x : x \in {z \in Routes(r) : ShardOf(z) = s /\ ExpertOf(r, z) = g}
                   <=> x \in Shard(n, c, g, s)
      BY RoutesAre DEF Class, Shard
    <2> QED
      BY <2>1
  <1>5. \A s, g : Partial(r, s, g) = Cardinality(Shard(n, c, g, s))
    BY <1>4 DEF Partial
  <1> QED
    BY <1>2, <1>3, <1>5

\* Row of a route, and its row in the return windows.
LEMMA PositionIs ==
    ASSUME Sizes, NEW r, Brings(MyLens(r), MyGate(r)), NEW x \in Routes(r)
    PROVE  Position(r, x) = <<RowIn(MyLens(r), MyGate(r), x), BackIn(MyLens(r), MyGate(r), x)>>
  <1> DEFINE n == MyLens(r)
             c == MyGate(r)
             g == ExpertIn(n, c, x)
  <1>1. x \in Class(n, c, g)
    BY RoutesAre DEF Class
  <1>2. ExpertOf(r, x) = g
    BY RoutesAre
  <1>3. {y \in Routes(r) : ShardOf(y) = ShardOf(x) /\ y < x /\ ExpertOf(r, y) = g}
          = Earlier(n, c, g, x)
    <2>1. \A y : y \in {z \in Routes(r) : ShardOf(z) = ShardOf(x) /\ z < x /\ ExpertOf(r, z) = g}
                   <=> y \in Earlier(n, c, g, x)
      BY RoutesAre DEF Class, Earlier
    <2> QED
      BY <2>1
  <1>4. [s \in 0 .. ShardOf(x) - 1 |-> Partial(r, s, g)]
          = [s \in 0 .. ShardOf(x) - 1 |-> Cardinality(Shard(n, c, g, s))]
    BY TotalsAre
  <1>5. Packed(r, x) = Start(r, g) + Sum([s \in 0 .. ShardOf(x) - 1 |-> Partial(r, s, g)], ShardOf(x))
                         + Cardinality(Earlier(n, c, g, x))
    BY <1>2, <1>3 DEF Packed
  <1> DEFINE m == Sum([s \in 0 .. ShardOf(x) - 1 |-> Cardinality(Shard(n, c, g, s))], ShardOf(x))
             k == Cardinality(Earlier(n, c, g, x))
  <1>6. m + k = Rank(n, c, x)
    BY <1>1, ShardsCount
  <1>7. Packed(r, x) = First(n, c, g) + m + k
    BY <1>4, <1>5, TotalsAre
  <1>8. m \in Int /\ k \in Int /\ First(n, c, g) \in Int
    <2>1. k \in Nat
      <3>1. Earlier(n, c, g, x) \in SUBSET Class(n, c, g)
        BY DEF Earlier
      <3> QED
        BY <3>1, ClassFacts, FS_Subset, FS_CardinalityType
    <2>2. m \in Nat
      <3> DEFINE f == [s \in 0 .. ShardOf(x) - 1 |-> Cardinality(Shard(n, c, g, s))]
      <3>1. \A s \in 0 .. ShardOf(x) - 1 : f[s] \in Nat
        <4> TAKE s \in 0 .. ShardOf(x) - 1
        <4>1. Shard(n, c, g, s) \in SUBSET Class(n, c, g)
          BY DEF Shard
        <4> QED
          BY <4>1, ClassFacts, FS_Subset, FS_CardinalityType
      <3>2. ShardOf(x) \in Nat
        BY <1>1, ClassFacts, ShardOrder
      <3> HIDE DEF f
      <3>3. Sum(f, ShardOf(x)) \in Nat
        BY <3>1, <3>2, SumNat
      <3> QED
        BY <3>3 DEF f
    <2>3. g \in Nat
      BY <1>1, RouteFacts DEF Class, Globals
    <2> QED
      BY <2>1, <2>2, <2>3, FirstStep
  <1>9. Packed(r, x) = RowIn(n, c, x)
    <2> HIDE DEF m, k
    <2> QED
      BY <1>6, <1>7, <1>8 DEF RowIn
  <1> QED
    BY <1>2, <1>9, TotalsAre DEF Position, BackIn

-----------------------------------------------------------------------------
(* Lanes of a sender. *)

\* The counts of a destination add up to the lane row of an expert.
LEMMA LaneSum ==
    ASSUME NEW n, NEW c, Brings(n, c), Sizes, NEW d \in Nat, NEW m,
           \A e \in Experts : m[e] = Size(n, c, d * Local + e), NEW e \in 0 .. Local
    PROVE  /\ d * Local \in Nat /\ d * Local + e \in Nat
           /\ Sum(m, e) = First(n, c, d * Local + e) - First(n, c, d * Local)
           /\ Sum(m, e) \in Nat /\ Sum(m, e) <= PeerCap
  <1> DEFINE a == d * Local
             w == a + e
             fa == [i \in 0 .. a - 1 |-> Size(n, c, i)]
             f == [i \in 0 .. w - 1 |-> Size(n, c, i)]
             b == (n[1] + n[2]) * TopK
  <1>1. a \in Nat /\ e \in Nat /\ w \in Nat /\ a <= w /\ Local \in Nat /\ w = a + e
    BY SizeFacts
  <1>2. a = d * Local /\ w = d * Local + e
    OBVIOUS
  <1>3. \A i \in Experts : m[i] = Size(n, c, a + i)
    OBVIOUS
  <1> HIDE DEF a, w
  <1>4. First(n, c, w) = Sum(f, w) /\ First(n, c, a) = Sum(fa, a)
    BY DEF First
  <1>5. \A i \in 0 .. w - 1 : f[i] = Size(n, c, i) /\ f[i] \in Nat
    BY ClassFacts
  <1>6. \A i \in 0 .. a - 1 : fa[i] = f[i]
    BY <1>1
  <1>7. \A i \in 0 .. e - 1 : m[i] = f[a + i] /\ m[i] \in Nat
    <2> TAKE i \in 0 .. e - 1
    <2>1. i \in Experts /\ a + i \in 0 .. w - 1
      BY <1>1 DEF Experts
    <2> HIDE DEF f
    <2> QED
      BY <2>1, <1>3, <1>5
  <1>8. /\ First(n, c, a) \in Nat /\ First(n, c, w) \in Nat /\ First(n, c, a) <= First(n, c, w)
        /\ First(n, c, w) <= b
    BY <1>1, FirstMonotone
  <1>9. b \in Nat /\ b <= PeerCap /\ PeerCap \in Nat
    BY LengthFacts, SizeFacts
  <1> HIDE DEF f, fa, b
  <1>10. Sum(fa, a) = Sum(f, a)
    BY <1>1, <1>6, SumSame
  <1>11. Sum(f, w) = Sum(f, a) + Sum(m, e)
    <2>1. \A i \in 0 .. a + e - 1 : f[i] \in Nat
      BY <1>1, <1>5
    <2>2. \A i \in 0 .. e - 1 : m[i] = f[a + i]
      BY <1>7
    <2>3. Sum(f, a + e) = Sum(f, a) + Sum(m, e)
      BY <1>1, <2>1, <2>2, SumShift
    <2> QED
      BY <1>1, <2>3
  <1>12. Sum(m, e) \in Nat
    BY <1>1, <1>7, SumNat
  <1>13. Sum(m, e) = First(n, c, w) - First(n, c, a) /\ Sum(m, e) <= PeerCap
    BY <1>4, <1>8, <1>9, <1>10, <1>11, <1>12
  <1> QED
    BY <1>1, <1>2, <1>12, <1>13

-----------------------------------------------------------------------------
(* The slabs of a receiver. *)

LEMMA CeilFacts ==
    ASSUME NEW n \in Nat, NEW m \in Nat \ {0}
    PROVE  /\ CeilTo(n, m) \in Nat /\ n <= CeilTo(n, m) /\ CeilTo(n, m) - n \in 0 .. m - 1
           /\ \E k \in Nat : CeilTo(n, m) = k * m
  <1> DEFINE d == (n + m - 1) \div m
             p == n + m - 1
  <1>1. p \in Nat
    OBVIOUS
  <1>2. CeilTo(n, m) = d * m
    BY DEF CeilTo
  <1>3. d \in Nat /\ p % m \in 0 .. m - 1 /\ p = d * m + (p % m)
    BY <1>1, Divided
  <1>4. d * m \in Nat
    BY <1>3
  <1> DEFINE w == d * m
             v == p % m
  <1>5. w \in Nat /\ v \in 0 .. m - 1 /\ n + m - 1 = w + v /\ CeilTo(n, m) = w
    BY <1>2, <1>3, <1>4
  <1>6. \E k \in Nat : CeilTo(n, m) = k * m
    BY <1>2, <1>3
  <1> HIDE DEF w, v, d, p
  <1> QED
    BY <1>5, <1>6

\* Counts that fit the lanes.
CountsFit(m) ==
    /\ m \in [Ranks -> [Experts -> 0 .. PeerCap]]
    /\ \A s \in Ranks : Sum(m[s], Local) \in 0 .. PeerCap

LEMMA SourceRows ==
    ASSUME Sizes, NEW m, CountsFit(m), NEW s \in Ranks, NEW e \in Experts
    PROVE  /\ Sum(m[s], e) \in Nat /\ m[s][e] \in 0 .. PeerCap
           /\ Sum(m[s], e) + m[s][e] <= Sum(m[s], Local)
           /\ Sum(m[s], Local) \in 0 .. PeerCap
  <1> DEFINE f == m[s]
  <1>1. f \in [Experts -> 0 .. PeerCap] /\ Sum(f, Local) \in 0 .. PeerCap
    BY DEF CountsFit
  <1>3. e \in Nat /\ Local \in Nat /\ e < Local /\ PeerCap \in Nat
    BY SizeFacts DEF Experts
  <1>4. \A i \in 0 .. Local - 1 : f[i] \in Nat
    BY <1>1, <1>3 DEF Experts
  <1> HIDE DEF f
  <1>5. Sum(f, e) \in Nat /\ Sum(f, e) + f[e] <= Sum(f, Local)
    BY <1>3, <1>4, SumMonotone
  <1>6. f[e] \in 0 .. PeerCap
    BY <1>1
  <1> QED
    BY <1>1, <1>5, <1>6 DEF f

\* A row below the sum lies in one of the summands.
LEMMA SumFind ==
    ASSUME NEW f, NEW n \in Nat, \A i \in 0 .. n - 1 : f[i] \in Nat,
           NEW j \in 0 .. Sum(f, n) - 1
    PROVE  \E a \in 0 .. n - 1 : Sum(f, a) \in Nat /\ j - Sum(f, a) \in 0 .. f[a] - 1
  <1> DEFINE T == {k \in Nat : k <= n /\ j < Sum(f, k)}
  <1>0. Sum(f, n) \in Nat
    BY SumNat
  <1>1. n \in T /\ j \in Nat
    BY <1>0
  <1>2. PICK k \in T : \A y \in T : k <= y
    <2>1. T \in SUBSET Nat /\ T # {}
      BY <1>1
    <2> HIDE DEF T
    <2> QED
      BY <2>1, Least
  <1>3. k # 0
    BY <1>1, SumZero
  <1>4. k - 1 \in Nat /\ k - 1 \in 0 .. n - 1 /\ k - 1 \notin T /\ (k - 1) + 1 = k
    BY <1>2, <1>3
  <1> DEFINE a == k - 1
  <1> HIDE DEF a
  <1>5. Sum(f, a + 1) = Sum(f, a) + f[a]
    BY <1>4, SumStep DEF a
  <1>6. \A i \in 0 .. a - 1 : f[i] \in Nat
    BY <1>4 DEF a
  <1>7. Sum(f, a) \in Nat /\ f[a] \in Nat
    <2>1. a \in Nat /\ a \in 0 .. n - 1
      BY <1>4 DEF a
    <2> QED
      BY <1>6, <2>1, SumNat
  <1>8. ~ (j < Sum(f, a)) /\ j < Sum(f, a + 1)
    <2>1. k \in Nat /\ k <= n /\ j < Sum(f, k) /\ k = a + 1
      BY <1>2, <1>4 DEF a
    <2>2. a \in Nat /\ a <= n /\ a \notin T
      BY <1>4, <2>1 DEF a
    <2>3. j < Sum(f, a) => a \in T
      BY <2>2
    <2> QED
      BY <2>1, <2>2, <2>3
  <1>9. j - Sum(f, a) \in 0 .. f[a] - 1
    BY <1>1, <1>5, <1>7, <1>8
  <1> QED
    BY <1>4, <1>7, <1>9 DEF a

\* The sources of an expert lie one after the other in its slab.
LEMMA SlabRows ==
    ASSUME Sizes, NEW m, CountsFit(m), NEW e \in Experts
    PROVE  /\ RowsIn(m, e) \in Nat
           /\ \A s \in Ranks : /\ PrefixIn(m, s, e) \in Nat
                               /\ PrefixIn(m, s, e) + m[s][e] <= RowsIn(m, e)
           /\ \A s, u \in Ranks : s < u => PrefixIn(m, s, e) + m[s][e] <= PrefixIn(m, u, e)
           /\ \A j \in 0 .. RowsIn(m, e) - 1 :
                \E s \in Ranks : j - PrefixIn(m, s, e) \in 0 .. m[s][e] - 1
  <1> DEFINE f == [s \in Ranks |-> m[s][e]]
  <1>1. EP \in Nat /\ Ranks = 0 .. EP - 1 /\ PeerCap \in Nat
    BY SizeFacts DEF Ranks
  <1>2. \A i \in 0 .. EP - 1 : f[i] = m[i][e] /\ f[i] \in Nat
    BY <1>1 DEF CountsFit
  <1>3. RowsIn(m, e) = Sum(f, EP) /\ \A s : PrefixIn(m, s, e) = Sum(f, s)
    BY DEF RowsIn, PrefixIn
  <1> HIDE DEF f
  <1>4. Sum(f, EP) \in Nat
    BY <1>1, <1>2, SumNat
  <1>5. \A s \in Ranks : Sum(f, s) \in Nat /\ Sum(f, s) + f[s] <= Sum(f, EP)
    <2> TAKE s \in Ranks
    <2>1. s \in Nat /\ s < EP
      BY <1>1
    <2> QED
      BY <1>1, <1>2, <2>1, SumMonotone
  <1>6. \A s, u \in Ranks : s < u => Sum(f, s) + f[s] <= Sum(f, u)
    <2> SUFFICES ASSUME NEW s \in Ranks, NEW u \in Ranks, s < u
                 PROVE  Sum(f, s) + f[s] <= Sum(f, u)
      OBVIOUS
    <2>1. s \in Nat /\ u \in Nat /\ \A i \in 0 .. u - 1 : f[i] \in Nat
      BY <1>1, <1>2
    <2> QED
      BY <2>1, SumMonotone
  <1>7. ASSUME NEW j \in 0 .. RowsIn(m, e) - 1
        PROVE  \E s \in Ranks : j - Sum(f, s) \in 0 .. f[s] - 1
    <2>1. \A i \in 0 .. EP - 1 : f[i] \in Nat
      BY <1>2
    <2>2. j \in 0 .. Sum(f, EP) - 1
      BY <1>3
    <2>3. \E a \in 0 .. EP - 1 : Sum(f, a) \in Nat /\ j - Sum(f, a) \in 0 .. f[a] - 1
      BY <1>1, <2>1, <2>2, SumFind
    <2> QED
      BY <1>1, <2>3
  <1>8. \A s \in Ranks : f[s] = m[s][e]
    BY <1>1, <1>2
  <1> QED
    BY <1>3, <1>4, <1>5, <1>6, <1>7, <1>8

\* Row by row or column by column, a table adds up to the same.
LEMMA SumSwap ==
    ASSUME NEW m, NEW a \in Nat, NEW b \in Nat,
           \A s \in 0 .. a - 1 : \A e \in 0 .. b - 1 : m[s][e] \in Nat
    PROVE  Sum([e \in 0 .. b - 1 |-> Sum([s \in 0 .. a - 1 |-> m[s][e]], a)], b)
             = Sum([s \in 0 .. a - 1 |-> Sum(m[s], b)], a)
  <1> DEFINE col(e) == [s \in 0 .. a - 1 |-> m[s][e]]
             cols == [e \in 0 .. b - 1 |-> Sum(col(e), a)]
             rows(k) == [s \in 0 .. a - 1 |-> Sum(m[s], k)]
             S == {k \in Nat : k <= b => Sum(cols, k) = Sum(rows(k), a)}
  <1>1. 0 \in S
    <2>1. \A s \in 0 .. a - 1 : rows(0)[s] \in 0 .. 0
      BY SumZero
    <2> HIDE DEF rows
    <2>2. Sum(rows(0), a) \in 0 .. a * 0
      BY <2>1, SumBound
    <2>3. Sum(rows(0), a) = 0
      BY <2>2
    <2> QED
      BY <2>3, SumZero
  <1>2. ASSUME NEW k \in S
        PROVE  k + 1 \in S
    <2>1. ASSUME k + 1 <= b
          PROVE  Sum(cols, k + 1) = Sum(rows(k + 1), a)
      <3>1. Sum(cols, k + 1) = Sum(cols, k) + cols[k]
        BY SumStep
      <3>2. k \in 0 .. b - 1 /\ k <= b
        BY <2>1
      <3>3. cols[k] = Sum(col(k), a) /\ Sum(cols, k) = Sum(rows(k), a)
        BY <3>2
      <3>4. \A s \in 0 .. a - 1 : /\ rows(k)[s] \in Nat /\ col(k)[s] \in Nat
                                  /\ rows(k + 1)[s] = rows(k)[s] + col(k)[s]
        <4> TAKE s \in 0 .. a - 1
        <4>1. Sum(m[s], k + 1) = Sum(m[s], k) + m[s][k]
          BY SumStep
        <4>2. \A i \in 0 .. k - 1 : m[s][i] \in Nat
          BY <3>2
        <4>3. Sum(m[s], k) \in Nat
          BY <4>2, SumNat
        <4>4. m[s][k] \in Nat
          BY <3>2
        <4> QED
          BY <4>1, <4>3, <4>4
      <3> HIDE DEF rows, col, cols
      <3>5. Sum(rows(k + 1), a) = Sum(rows(k), a) + Sum(col(k), a)
        BY <3>4, SumAdded
      <3> QED
        BY <3>1, <3>3, <3>5
    <2> HIDE DEF cols, rows
    <2> QED
      BY <2>1
  <1> HIDE DEF S
  <1>3. S = Nat
    <2>1. S \in SUBSET Nat
      BY DEF S
    <2> QED
      BY <1>1, <1>2, <2>1, Inductive
  <1>4. b \in S
    BY <1>3
  <1> QED
    BY <1>4 DEF S

-----------------------------------------------------------------------------
(* Tiles. *)

LEMMA ScaledQuotient ==
    ASSUME NEW m \in Nat \ {0}, NEW k \in Nat \ {0}, NEW w \in Nat
    PROVE  /\ w * m \in Nat /\ k * m \in Nat \ {0}
           /\ (w * m) \div (k * m) = w \div k /\ (w * m) % (k * m) = (w % k) * m
           /\ w \div k \in Nat /\ w % k \in 0 .. k - 1
  <1> DEFINE a == w \div k
             b == w % k
  <1>1. a \in Nat /\ b \in 0 .. k - 1 /\ w = a * k + b
    BY Divided
  <1> HIDE DEF a, b
  <1>2. w * m = a * (k * m) + b * m
    <2>1. (a * k + b) * m = (a * k) * m + b * m
      BY <1>1
    <2>2. (a * k) * m = a * (k * m)
      BY <1>1
    <2> QED
      BY <1>1, <2>1, <2>2
  <1>3. b * m \in Nat /\ b * m + m <= k * m /\ k * m \in Nat
    <2>1. b \in Nat /\ b < k
      BY <1>1
    <2> QED
      BY <2>1, Products
  <1> DEFINE p == w * m
             c == k * m
             d == b * m
  <1>4. p \in Nat
    BY Products
  <1>5. p = a * c + d /\ d \in 0 .. c - 1 /\ c \in Nat \ {0}
    <2>1. p = a * c + d
      BY <1>2
    <2>2. d \in Nat /\ d + m <= c /\ c \in Nat
      BY <1>3
    <2> HIDE DEF c, d, p
    <2> QED
      BY <2>1, <2>2
  <1> HIDE DEF p, c, d
  <1>6. \A q \in Nat, v \in 0 .. c - 1 : p = q * c + v => p \div c = q /\ p % c = v
    BY <1>4, <1>5, Divided, ZenonT(60)
  <1>7. p \div c = a /\ p % c = d
    BY <1>1, <1>5, <1>6
  <1> QED
    BY <1>1, <1>4, <1>5, <1>7 DEF a, b, p, c, d

\* Rounding up leaves whole multiples alone.
LEMMA CeilSplit ==
    ASSUME NEW m \in Nat \ {0}, NEW k \in Nat, NEW v \in Nat
    PROVE  CeilTo(k * m + v, m) = k * m + CeilTo(v, m)
  <1> DEFINE p == v + m - 1
             d == p \div m
             b == p % m
             e == k * m
             z == e + v + m - 1
  <1>1. p \in Nat /\ e \in Nat
    BY Products
  <1>2. d \in Nat /\ b \in 0 .. m - 1 /\ p = d * m + b
    BY <1>1, Divided
  <1>3. CeilTo(v, m) = d * m
    BY DEF CeilTo
  <1>4. (k + d) * m = e + d * m
    BY <1>2
  <1>5. CeilTo(e + v, m) = (z \div m) * m
    BY DEF CeilTo
  <1>6. z = (k + d) * m + b
    <2> DEFINE x == d * m
    <2>1. x \in Nat /\ p = x + b /\ (k + d) * m = e + x
      BY <1>2, <1>4, Products
    <2>2. z = e + p /\ p \in Nat
      BY <1>1
    <2> HIDE DEF x, e, p, z, d, b
    <2> QED
      BY <1>1, <1>2, <2>1, <2>2
  <1>7. z \in Nat /\ k + d \in Nat
    <2>1. z = e + p
      BY <1>1
    <2> HIDE DEF e, p, z, d
    <2> QED
      BY <1>1, <1>2, <2>1
  <1> HIDE DEF z, d, b, p
  <1>8. z \div m = k + d
    <2>1. \A q \in Nat, y \in 0 .. m - 1 : z = q * m + y => z \div m = q /\ z % m = y
      BY <1>7, Divided
    <2> QED
      BY <1>2, <1>6, <1>7, <2>1
  <1> QED
    BY <1>3, <1>4, <1>5, <1>8

\* A run of k tiles of one size.
LEMMA RunCover ==
    ASSUME NEW start \in Nat, NEW size \in Nat \ {0}, NEW k \in Nat, NEW p \in Int,
           NEW f, \A i \in 0 .. k - 1 : f[i] = start + i * size
    PROVE  (\E i \in 0 .. k - 1 : p \in f[i] .. f[i] + size - 1)
             <=> p \in start .. start + k * size - 1
  <1>1. k * size \in Nat
    BY Products
  <1>2. ASSUME NEW i \in 0 .. k - 1, p \in f[i] .. f[i] + size - 1
        PROVE  p \in start .. start + k * size - 1
    <2> DEFINE a == i * size
               b == k * size
    <2>1. a \in Nat /\ a + size <= b /\ b \in Nat
      <3>1. i \in Nat /\ i < k
        OBVIOUS
      <3> QED
        BY <3>1, Products
    <2>2. f[i] = start + a
      OBVIOUS
    <2> HIDE DEF a, b
    <2>3. p \in start .. start + b - 1
      BY <1>2, <2>1, <2>2
    <2> QED
      BY <2>3 DEF b
  <1>3. ASSUME p \in start .. start + k * size - 1
        PROVE  \E i \in 0 .. k - 1 : p \in f[i] .. f[i] + size - 1
    <2> DEFINE z == p - start
               i == z \div size
               v == z % size
               a == i * size
               b == k * size
    <2>1. z \in Nat /\ z < b
      BY <1>1, <1>3
    <2>2. i \in Nat /\ v \in 0 .. size - 1 /\ z = a + v /\ i < k
      <3> HIDE DEF z
      <3>1. /\ z \div size \in Nat /\ z % size \in 0 .. size - 1
            /\ z = (z \div size) * size + (z % size)
            /\ \A q \in Nat : z < q * size => z \div size < q
        BY <2>1, Divided
      <3> QED
        BY <2>1, <3>1
    <2>3. i \in 0 .. k - 1 /\ f[i] = start + a
      <3> HIDE DEF i
      <3>1. i \in 0 .. k - 1
        BY <2>2
      <3> QED
        BY <3>1
    <2>4. p = start + z /\ a \in Nat
      <3>1. p = start + z
        BY <1>3
      <3> HIDE DEF i, z
      <3> QED
        BY <2>2, <3>1, Products
    <2> HIDE DEF z, i, v, a, b
    <2>5. p \in f[i] .. f[i] + size - 1
      BY <2>2, <2>3, <2>4
    <2> QED
      BY <2>3, <2>5
  <1> QED
    BY <1>2, <1>3

\* A tile that covers a row.
Covers(t, p) == p \in t[1] .. t[1] + t[2] - 1
Covered(ts, p) == \E t \in ts : Covers(t, p)

Run(f, size, k) == {<<f[i], size>> : i \in 0 .. k - 1}

LEMMA RunTiles ==
    ASSUME NEW start \in Nat, NEW size \in Nat \ {0}, NEW k \in Nat, NEW p \in Int,
           NEW f, \A i \in 0 .. k - 1 : f[i] = start + i * size
    PROVE  Covered(Run(f, size, k), p) <=> p \in start .. start + k * size - 1
  <1>1. ASSUME NEW t \in Run(f, size, k), Covers(t, p)
        PROVE  \E i \in 0 .. k - 1 : p \in f[i] .. f[i] + size - 1
    <2>1. PICK i \in 0 .. k - 1 : t = <<f[i], size>>
      BY DEF Run
    <2>2. t[1] = f[i] /\ t[2] = size
      BY <2>1
    <2> QED
      BY <1>1, <2>2 DEF Covers
  <1>2. ASSUME NEW i \in 0 .. k - 1, p \in f[i] .. f[i] + size - 1
        PROVE  \E t \in Run(f, size, k) : Covers(t, p)
    <2>1. <<f[i], size>> \in Run(f, size, k)
      BY DEF Run
    <2>2. Covers(<<f[i], size>>, p)
      BY <1>2 DEF Covers
    <2> QED
      BY <2>1, <2>2
  <1> QED
    BY <1>1, <1>2, RunCover DEF Covered

LEMMA TailParts ==
    ASSUME NEW w \in 0 .. 8
    PROVE  /\ w \div 4 \in 0 .. 2 /\ (w % 4) \div 2 \in 0 .. 1 /\ w % 2 \in 0 .. 1
           /\ w = (w \div 4) * 4 + ((w % 4) \div 2) * 2 + (w % 2)
  OBVIOUS

\* The M64, M32 and M16 tiles of a tail of w of the smallest.
Small(after, a, b, c) ==
    {<<after + i * 4 * RecvTile, 4 * RecvTile>> : i \in 0 .. a - 1}
      \cup {<<after + (a * 4 + i * 2) * RecvTile, 2 * RecvTile>> : i \in 0 .. b - 1}
      \cup {<<after + (a * 4 + b * 2 + i) * RecvTile, RecvTile>> : i \in 0 .. c - 1}

LEMMA SmallCover ==
    ASSUME Sizes, NEW after \in Nat, NEW a \in Nat, NEW b \in Nat, NEW c \in Nat, NEW p \in Int
    PROVE  Covered(Small(after, a, b, c), p) <=> p \in after .. after + (a * 4 + b * 2 + c) * RecvTile - 1
  <1> DEFINE m == RecvTile
             z1 == 4 * m
             z2 == 2 * m
             s1 == after + a * z1
             s2 == s1 + b * z2
             s3 == s2 + c * m
             f1 == [i \in 0 .. a - 1 |-> after + i * 4 * m]
             f2 == [i \in 0 .. b - 1 |-> after + (a * 4 + i * 2) * m]
             f3 == [i \in 0 .. c - 1 |-> after + (a * 4 + b * 2 + i) * m]
             A == Run(f1, z1, a)
             B == Run(f2, z2, b)
             C == Run(f3, m, c)
  <1>1. m \in Nat \ {0} /\ z1 \in Nat \ {0} /\ z2 \in Nat \ {0}
    BY SizeFacts
  <1>2. s1 \in Nat /\ s2 \in Nat /\ s3 \in Nat /\ after <= s1 /\ s1 <= s2 /\ s2 <= s3
    <2> HIDE DEF m, z1, z2
    <2>1. a * z1 \in Nat /\ b * z2 \in Nat /\ c * m \in Nat
      BY <1>1, Products
    <2> DEFINE x == a * z1
               y == b * z2
               z == c * m
    <2> HIDE DEF x, y, z
    <2>2. x \in Nat /\ y \in Nat /\ z \in Nat /\ s1 = after + x /\ s2 = s1 + y /\ s3 = s2 + z
      BY <2>1 DEF x, y, z
    <2> HIDE DEF s1, s2, s3
    <2> QED
      BY <2>2
  <1>3. \A i \in 0 .. a - 1 : f1[i] = after + i * z1
    BY <1>1
  <1>4. \A i \in 0 .. b - 1 : f2[i] = s1 + i * z2
    BY <1>1
  <1>5. \A i \in 0 .. c - 1 : f3[i] = s2 + i * m
    BY <1>1
  <1>6. s3 = after + (a * 4 + b * 2 + c) * m
    BY <1>1
  <1>7. Small(after, a, b, c) = A \cup B \cup C
    BY DEF Small, Run
  <1> HIDE DEF f1, f2, f3, z1, z2, m
  <1>11. Covered(A, p) <=> p \in after .. s1 - 1
    BY <1>1, <1>3, RunTiles
  <1>12. Covered(B, p) <=> p \in s1 .. s2 - 1
    <2> HIDE DEF s1
    <2> QED
      BY <1>1, <1>2, <1>4, RunTiles
  <1>13. Covered(C, p) <=> p \in s2 .. s3 - 1
    <2> HIDE DEF s2
    <2> QED
      BY <1>1, <1>2, <1>5, RunTiles
  <1>14. Covered(Small(after, a, b, c), p)
           <=> Covered(A, p) \/ Covered(B, p) \/ Covered(C, p)
    BY <1>7 DEF Covered
  <1>15. Covered(Small(after, a, b, c), p)
           <=> p \in after .. s1 - 1 \/ p \in s1 .. s2 - 1 \/ p \in s2 .. s3 - 1
    BY <1>11, <1>12, <1>13, <1>14
  <1> HIDE DEF s1, s2, s3
  <1>16. Covered(Small(after, a, b, c), p) <=> p \in after .. s3 - 1
    BY <1>2, <1>15
  <1>17. s3 = after + (a * 4 + b * 2 + c) * RecvTile
    BY <1>6 DEF m
  <1> DEFINE y == (a * 4 + b * 2 + c) * RecvTile
  <1>18. y \in Nat
    <2>1. a * 4 + b * 2 + c \in Nat
      OBVIOUS
    <2> QED
      BY <2>1, SizeFacts, Products
  <1>19. s3 = after + y
    BY <1>17
  <1> HIDE DEF y
  <1>20. Covered(Small(after, a, b, c), p) <=> p \in after .. after + y - 1
    BY <1>16, <1>18, <1>19
  <1> QED
    BY <1>20 DEF y

LEMMA TailTiles ==
    ASSUME Sizes, NEW w \in 0 .. 8
    PROVE  /\ (w * RecvTile) \div (4 * RecvTile) = w \div 4
           /\ ((w * RecvTile) % (4 * RecvTile)) \div (2 * RecvTile) = (w % 4) \div 2
           /\ ((w * RecvTile) % (2 * RecvTile)) \div RecvTile = w % 2
  <1> DEFINE m == RecvTile
  <1>1. m \in Nat \ {0} /\ w \in Nat /\ 4 \in Nat \ {0} /\ 2 \in Nat \ {0} /\ 1 \in Nat \ {0}
    BY SizeFacts
  <1>2. (w * m) \div (4 * m) = w \div 4 /\ (w * m) % (4 * m) = (w % 4) * m /\ w % 4 \in 0 .. 3
    <2> DEFINE k == 4
    <2>1. k \in Nat \ {0}
      OBVIOUS
    <2> HIDE DEF m, k
    <2>2. (w * m) \div (k * m) = w \div k /\ (w * m) % (k * m) = (w % k) * m /\ w % k \in 0 .. k - 1
      BY <1>1, <2>1, ScaledQuotient
    <2> QED
      BY <2>2 DEF k
  <1>3. (w * m) % (2 * m) = (w % 2) * m /\ w % 2 \in 0 .. 1
    <2> DEFINE k == 2
    <2>1. k \in Nat \ {0}
      OBVIOUS
    <2> HIDE DEF m, k
    <2>2. (w * m) % (k * m) = (w % k) * m /\ w % k \in 0 .. k - 1
      BY <1>1, <2>1, ScaledQuotient
    <2> QED
      BY <2>2 DEF k
  <1>4. ((w % 4) * m) \div (2 * m) = (w % 4) \div 2
    <2> DEFINE u == w % 4
    <2>1. u \in Nat
      BY <1>2
    <2> HIDE DEF u, m
    <2> QED
      BY <1>1, <2>1, ScaledQuotient
  <1>5. ((w % 2) * m) \div m = w % 2
    <2> DEFINE u == w % 2
    <2>1. u \in Nat
      BY <1>3
    <2> HIDE DEF u, m
    <2>2. u * m = u * m + 0 /\ u * m \in Nat /\ 0 \in 0 .. m - 1
      BY <1>1, <2>1
    <2> DEFINE z == u * m
    <2>3. z \in Nat /\ z = u * m + 0
      BY <2>2
    <2> HIDE DEF z
    <2>4. \A q \in Nat, v \in 0 .. m - 1 : z = q * m + v => z \div m = q /\ z % m = v
      BY <1>1, <2>3, Divided, ZenonT(60)
    <2>5. z \div m = u
      BY <2>1, <2>2, <2>3, <2>4
    <2> QED
      BY <2>5 DEF z, u
  <1> QED
    BY <1>2, <1>3, <1>4, <1>5

\* The tiles of an expert cover its rows and the padding of its slab, and nothing
\* else.
LEMMA TilesCover ==
    ASSUME Sizes, NEW n \in Nat, NEW p \in Int
    PROVE  Covered(Tiles(n), p) <=> p \in 0 .. CeilTo(n, RecvTile) - 1
  <1> DEFINE m == RecvTile
             whole == IF CeilTo(n, m) = 12 * m THEN 1 ELSE 0
             main == (n \div (8 * m)) * (1 - whole)
             tail == CeilTo(n % (8 * m), m) * (1 - whole)
             t96 == IF tail = 6 * m THEN 1 ELSE 0
             rest == tail - t96 * 6 * m
             t64 == rest \div (4 * m)
             t32 == (rest % (4 * m)) \div (2 * m)
             t16 == (rest % (2 * m)) \div m
             after == main * 8 * m + t96 * 6 * m
             A == {<<0, 12 * m>> : i \in 1 .. whole}
             f == [i \in 0 .. main - 1 |-> i * 8 * m]
             B == Run(f, 8 * m, main)
             C == {<<main * 8 * m, 6 * m>> : i \in 1 .. t96}
             D == Small(after, t64, t32, t16)
  <1>1. m \in Nat \ {0} /\ 8 * m \in Nat \ {0}
    BY SizeFacts
  <1>2. Tiles(n) = A \cup B \cup C \cup D
    BY DEF Tiles, Run, Small
  <1>3. Covered(Tiles(n), p) <=> Covered(A, p) \/ Covered(B, p) \/ Covered(C, p) \/ Covered(D, p)
    <2> HIDE DEF A, B, C, D
    <2> QED
      BY <1>2 DEF Covered
  <1> DEFINE q == n \div (8 * m)
             v == n % (8 * m)
  <1>4. q \in Nat /\ v \in 0 .. 8 * m - 1 /\ n = q * (8 * m) + v
    <2> DEFINE e == 8 * m
    <2>1. e \in Nat \ {0}
      BY <1>1
    <2> HIDE DEF e
    <2>2. n \div e \in Nat /\ n % e \in 0 .. e - 1 /\ n = (n \div e) * e + (n % e)
      BY <2>1, Divided
    <2> QED
      BY <2>2 DEF e
  <1>5. PICK w \in 0 .. 8 : CeilTo(v, m) = w * m
    <2>0. v \in Nat
      BY <1>1, <1>4
    <2> HIDE DEF v, m
    <2>1. PICK w \in Nat : CeilTo(v, m) = w * m
      BY <1>1, <2>0, CeilFacts
    <2>2. CeilTo(v, m) - v \in 0 .. m - 1 /\ CeilTo(v, m) \in Nat /\ v \in Nat
      BY <1>1, <2>0, CeilFacts
    <2>3. w * m < 9 * m
      BY <1>1, <1>4, <2>1, <2>2
    <2>4. w < 9
      <3>1. 9 <= w => 9 * m <= w * m
        BY <1>1, Products
      <3> QED
        BY <1>1, <2>1, <2>3, <3>1
    <2> QED
      BY <2>1, <2>4
  <1>6. CeilTo(n, m) = q * (8 * m) + w * m
    <2>0. v \in Nat
      BY <1>1, <1>4
    <2> HIDE DEF q, v, m
    <2> DEFINE z == 8 * q
    <2>1. z \in Nat /\ q * (8 * m) = z * m
      BY <1>1, <1>4
    <2> HIDE DEF z
    <2>2. CeilTo(z * m + v, m) = z * m + CeilTo(v, m)
      BY <1>1, <2>0, <2>1, CeilSplit
    <2> QED
      BY <1>4, <1>5, <2>1, <2>2
  <1>7. CASE whole = 1
    <2>1. main = 0 /\ tail = 0
      <3>1. CeilTo(v, m) \in Nat /\ q \in Nat
        <4>1. v \in Nat
          BY <1>1, <1>4
        <4> HIDE DEF v, m
        <4> QED
          BY <1>1, <1>4, <4>1, CeilFacts
      <3> QED
        BY <1>7, <3>1
    <2>2. t96 = 0 /\ rest = 0 /\ after = 0
      BY <2>1, <1>1
    <2>3. t64 = 0 /\ t32 = 0 /\ t16 = 0
      <3>1. t64 = (0 * m) \div (4 * m) /\ t32 = ((0 * m) % (4 * m)) \div (2 * m)
            /\ t16 = ((0 * m) % (2 * m)) \div m
        BY <2>2, <1>1
      <3>2. t64 = 0 \div 4 /\ t32 = (0 % 4) \div 2 /\ t16 = 0 % 2
        BY <3>1, TailTiles
      <3> QED
        BY <3>2
    <2>4. ~ Covered(B, p) /\ ~ Covered(C, p) /\ ~ Covered(D, p)
      <3>1. B = {} /\ C = {}
        <4> HIDE DEF f
        <4> QED
          BY <2>1, <2>2 DEF Run
      <3>2. D = {}
        <4> HIDE DEF after, t64, t32, t16
        <4> QED
          BY <2>3 DEF Small
      <3> QED
        BY <3>1, <3>2 DEF Covered
    <2>5. Covered(A, p) <=> p \in 0 .. 12 * m - 1
      <3>1. A = {<<0, 12 * m>>}
        <4> HIDE DEF whole
        <4> QED
          BY <1>7
      <3>2. Covered(A, p) <=> Covers(<<0, 12 * m>>, p)
        BY <3>1 DEF Covered
      <3> QED
        BY <3>2, <1>1 DEF Covers
    <2>6. CeilTo(n, m) = 12 * m
      BY <1>7
    <2> HIDE DEF A, B, C, D, m
    <2>7. Covered(Tiles(n), p) <=> p \in 0 .. CeilTo(n, m) - 1
      BY <1>3, <2>4, <2>5, <2>6
    <2> QED
      BY <2>7 DEF m
  <1>8. CASE whole # 1
    <2> DEFINE u == IF w = 6 THEN 0 ELSE w
               k == IF w = 6 THEN 1 ELSE 0
    <2>0. whole = 0
      BY <1>8
    <2>1. main = q /\ tail = w * m /\ w * m \in Nat
      <3>0. main = q * (1 - whole) /\ tail = CeilTo(v, m) * (1 - whole)
        OBVIOUS
      <3> HIDE DEF whole, q, main, tail, m, v
      <3>1. q * (1 - 0) = q /\ (w * m) * (1 - 0) = w * m /\ w * m \in Nat
        BY <1>1, <1>4
      <3> QED
        BY <2>0, <1>5, <3>0, <3>1
    <2>2. t96 = k /\ u \in 0 .. 8 /\ k \in 0 .. 1 /\ w = k * 6 + u
      <3>1. w * m = 6 * m <=> w = 6
        <4>1. w < 6 => w * m + m <= 6 * m
          BY <1>1, Products
        <4>2. 6 < w => 6 * m + m <= w * m
          BY <1>1, Products
        <4> QED
          BY <1>1, <2>1, <4>1, <4>2
      <3> QED
        BY <2>1, <3>1
    <2>3. rest = u * m
      <3>1. w * m = k * 6 * m + u * m /\ u * m \in Nat /\ k * 6 * m \in Nat
        BY <2>2, <1>1
      <3> HIDE DEF k, u, tail, t96
      <3> QED
        BY <2>1, <2>2, <3>1
    <2>4. t64 = u \div 4 /\ t32 = (u % 4) \div 2 /\ t16 = u % 2
      <3> HIDE DEF rest, u
      <3>1. u \in 0 .. 8
        BY <2>2
      <3> QED
        BY <2>3, <3>1, TailTiles
    <2>5. t64 \in Nat /\ t32 \in Nat /\ t16 \in Nat /\ t64 * 4 + t32 * 2 + t16 = u
      <3> HIDE DEF t64, t32, t16, u
      <3>1. u \in 0 .. 8
        BY <2>2
      <3> QED
        BY <2>4, <3>1, TailParts
    <2> DEFINE a == q * (8 * m)
               b == k * (6 * m)
               c == u * m
    <2>6. a \in Nat /\ b \in Nat /\ c \in Nat /\ after = a + b /\ CeilTo(n, m) = a + b + c
      <3>1. a \in Nat /\ b \in Nat /\ c \in Nat
        BY <1>1, <1>4, <2>2
      <3>2. main * 8 * m = a
        <4>1. q * 8 * m = a
          <5> HIDE DEF q, m
          <5> QED
            BY <1>1, <1>4
        <4> HIDE DEF main, q, a
        <4> QED
          BY <2>1, <4>1
      <3>3. t96 * 6 * m = b /\ w * m = b + c
        <4>1. k * 6 * m = b /\ w * m = b + c
          BY <1>1, <2>2
        <4> HIDE DEF t96, k, b
        <4> QED
          BY <2>2, <4>1
      <3>4. after = a + b
        <4> HIDE DEF main, t96, a, b, m
        <4> QED
          BY <3>1, <3>2, <3>3
      <3>5. CeilTo(n, m) = a + w * m
        BY <1>6
      <3> HIDE DEF a, b, c, after, m
      <3> QED
        BY <3>1, <3>3, <3>4, <3>5
    <2>7. ~ Covered(A, p)
      <3>1. A = {}
        <4> HIDE DEF whole
        <4> QED
          BY <2>0
      <3> QED
        BY <3>1 DEF Covered
    <2>8. Covered(B, p) <=> p \in 0 .. a - 1
      <3> DEFINE z == 8 * m
      <3>1. z \in Nat \ {0} /\ main \in Nat /\ 0 \in Nat
        BY <1>1, <1>4, <2>1
      <3>2. \A i \in 0 .. main - 1 : f[i] = 0 + i * z
        <4> TAKE i \in 0 .. main - 1
        <4>1. f[i] = i * 8 * m
          OBVIOUS
        <4>2. i \in Nat
          OBVIOUS
        <4> HIDE DEF f, main
        <4> QED
          BY <4>1, <4>2, <1>1
      <3>3. B = Run(f, z, main)
        OBVIOUS
      <3>4. a = main * z /\ a \in Nat
        BY <2>1, <2>6
      <3> HIDE DEF z, f, main, B, a
      <3>5. Covered(Run(f, z, main), p) <=> p \in 0 .. 0 + main * z - 1
        BY <3>1, <3>2, RunTiles
      <3> QED
        BY <3>3, <3>4, <3>5
    <2>9. Covered(C, p) <=> p \in a .. a + b - 1
      <3>1. CASE k = 1
        <4>1. t96 = 1 /\ main * 8 * m = a
          <5>1. q * 8 * m = a
            <6> HIDE DEF q, m
            <6> QED
              BY <1>1, <1>4
          <5> HIDE DEF main, q, a, t96
          <5> QED
            BY <2>1, <2>2, <3>1, <5>1
        <4>2. C = {<<a, 6 * m>>}
          <5> HIDE DEF t96, main, a, m
          <5> QED
            BY <4>1
        <4>3. Covered(C, p) <=> Covers(<<a, 6 * m>>, p)
          BY <4>2 DEF Covered
        <4>4. b = 6 * m
          BY <3>1, <1>1
        <4> HIDE DEF a, b, C, m
        <4> QED
          BY <4>3, <4>4 DEF Covers
      <3>2. CASE k = 0
        <4>1. C = {}
          <5> HIDE DEF t96, main, m
          <5> QED
            BY <2>2, <3>2
        <4>2. b = 0
          BY <3>2, <1>1
        <4>3. ~ Covered(C, p)
          BY <4>1 DEF Covered
        <4> HIDE DEF a, b, C
        <4> QED
          BY <2>6, <4>2, <4>3
      <3> QED
        BY <2>2, <3>1, <3>2
    <2>10. Covered(D, p) <=> p \in a + b .. a + b + c - 1
      <3> HIDE DEF t64, t32, t16, after, a, b, k, u
      <3>1. after \in Nat
        BY <2>6
      <3>2. Covered(D, p) <=> p \in after .. after + (t64 * 4 + t32 * 2 + t16) * m - 1
        BY <3>1, <2>5, SmallCover
      <3>3. Covered(D, p) <=> p \in after .. after + c - 1
        BY <3>2, <2>5
      <3> HIDE DEF D, c
      <3> QED
        BY <2>6, <3>3
    <2> HIDE DEF A, B, C, D, a, b, c, m
    <2>11. Covered(Tiles(n), p) <=> p \in 0 .. CeilTo(n, m) - 1
      BY <1>3, <2>6, <2>7, <2>8, <2>9, <2>10
    <2> QED
      BY <2>11 DEF m
  <1> QED
    BY <1>7, <1>8

\* The four streams of a destination put every row of it, and no other.
LEMMA Streams ==
    ASSUME Sizes, NEW n \in Nat
    PROVE  UNION {Stream(g, n) : g \in 0 .. 3} = 0 .. n - 1
  <1> DEFINE full == (n \div PutTile) * PutTile
  <1>1. PutTile \in Nat \ {0}
    BY SizeFacts
  <1>2. full \in Nat /\ full <= n
    <2>1. n \div PutTile \in Nat /\ n % PutTile \in Nat /\ n = full + (n % PutTile)
      BY <1>1, Divided
    <2>2. full \in Nat
      BY <1>1, <2>1
    <2> HIDE DEF full
    <2> QED
      BY <2>1, <2>2
  <1>3. \A g : Stream(g, n) = {i \in 0 .. full - 1 : (i \div PutTile) % 4 = g}
                               \cup {i \in full .. n - 1 : (i - full) % 4 = g}
    BY DEF Stream
  <1>4. \A i \in 0 .. full - 1 : (i \div PutTile) % 4 \in 0 .. 3
    <2> TAKE i \in 0 .. full - 1
    <2>1. i \in Nat
      OBVIOUS
    <2> HIDE DEF full
    <2>2. i \div PutTile \in Nat
      BY <1>1, <2>1, Divided
    <2> QED
      BY <2>2
  <1> HIDE DEF full
  <1>5. \A i \in full .. n - 1 : (i - full) % 4 \in 0 .. 3
    BY <1>2
  <1>6. ASSUME NEW i \in 0 .. n - 1
        PROVE  \E g \in 0 .. 3 : i \in Stream(g, n)
    <2>1. CASE i < full
      <3>1. i \in 0 .. full - 1
        BY <1>2, <2>1
      <3> QED
        BY <1>3, <1>4, <3>1
    <2>2. CASE ~ (i < full)
      <3>1. i \in full .. n - 1
        BY <1>2, <2>2
      <3> QED
        BY <1>3, <1>5, <3>1
    <2> QED
      BY <2>1, <2>2
  <1>7. ASSUME NEW g \in 0 .. 3, NEW i \in Stream(g, n)
        PROVE  i \in 0 .. n - 1
    BY <1>2, <1>3
  <1> QED
    BY <1>6, <1>7

\* The slabs of a receiver's experts lie one after the other in its rows.
LEMMA SlabsApart ==
    ASSUME Sizes, NEW m, CountsFit(m), NEW e \in Experts
    PROVE  /\ RowsIn(m, e) \in Nat /\ BaseIn(m, e) \in Nat
           /\ CeilTo(RowsIn(m, e), RecvTile) \in Nat
           /\ RowsIn(m, e) <= CeilTo(RowsIn(m, e), RecvTile)
           /\ \A j \in 0 .. CeilTo(RowsIn(m, e), RecvTile) - 1 : BaseIn(m, e) + j \in GroupedRows
           /\ \A f \in Experts : e < f =>
                BaseIn(m, e) + CeilTo(RowsIn(m, e), RecvTile) <= BaseIn(m, f)
  <1> DEFINE rows == [i \in Experts |-> RowsIn(m, i)]
             slabs == [i \in Experts |-> CeilTo(RowsIn(m, i), RecvTile)]
             pads == [i \in Experts |-> slabs[i] - rows[i]]
             last == RecvTile - 1
  <1>1. EP \in Nat /\ Local \in Nat /\ RecvTile \in Nat \ {0} /\ last \in Nat /\ PeerCap \in Nat
        /\ Experts = 0 .. Local - 1 /\ Ranks = 0 .. EP - 1
    BY SizeFacts DEF Experts, Ranks
  <1>2. \A i \in Experts : rows[i] \in Nat
    BY SlabRows
  <1>3. \A i \in Experts : slabs[i] \in Nat /\ rows[i] <= slabs[i] /\ pads[i] \in 0 .. last
    <2> TAKE i \in Experts
    <2> DEFINE n == RowsIn(m, i)
    <2>1. n \in Nat
      BY SlabRows
    <2> HIDE DEF n
    <2>2. CeilTo(n, RecvTile) \in Nat /\ n <= CeilTo(n, RecvTile)
          /\ CeilTo(n, RecvTile) - n \in 0 .. last
      BY <1>1, <2>1, CeilFacts
    <2>3. slabs[i] = CeilTo(n, RecvTile) /\ rows[i] = n
      BY DEF n
    <2>4. pads[i] = slabs[i] - rows[i]
      OBVIOUS
    <2> HIDE DEF slabs, rows, pads, last
    <2> QED
      BY <2>2, <2>3, <2>4
  <1>4. \A f \in Experts : BaseIn(m, f) = Sum(slabs, f)
    BY DEF BaseIn
  <1>5. e \in Nat /\ e < Local
    BY <1>1
  <1>6. rows[e] = RowsIn(m, e) /\ slabs[e] = CeilTo(RowsIn(m, e), RecvTile)
    OBVIOUS
  <1>a. \A i \in Experts : slabs[i] = rows[i] + pads[i]
    <2> TAKE i \in Experts
    <2>1. pads[i] = slabs[i] - rows[i]
      OBVIOUS
    <2> HIDE DEF rows, slabs, pads
    <2> QED
      BY <1>2, <1>3, <2>1
  <1>7. Sum(rows, Local) \in 0 .. EP * PeerCap
    <2> DEFINE totals == [s \in 0 .. EP - 1 |-> Sum(m[s], Local)]
    <2>1. \A s \in 0 .. EP - 1 : totals[s] \in 0 .. PeerCap
      BY <1>1 DEF CountsFit
    <2>2. Sum(totals, EP) \in 0 .. EP * PeerCap
      <3> HIDE DEF totals
      <3> QED
        BY <1>1, <2>1, SumBound
    <2>3. \A s \in 0 .. EP - 1 : \A i \in 0 .. Local - 1 : m[s][i] \in Nat
      BY <1>1 DEF CountsFit
    <2>4. Sum([i \in 0 .. Local - 1 |-> Sum([s \in 0 .. EP - 1 |-> m[s][i]], EP)], Local)
            = Sum(totals, EP)
      BY <1>1, <2>3, SumSwap
    <2>5. rows = [i \in 0 .. Local - 1 |-> Sum([s \in 0 .. EP - 1 |-> m[s][i]], EP)]
      BY <1>1 DEF RowsIn
    <2> QED
      BY <2>2, <2>4, <2>5
  <1> HIDE DEF rows, slabs, pads, last
  <1>8. Sum(pads, Local) \in 0 .. Local * last
    <2>1. \A i \in 0 .. Local - 1 : pads[i] \in 0 .. last
      BY <1>1, <1>3
    <2> QED
      BY <1>1, <2>1, SumBound
  <1>9. Sum(slabs, Local) = Sum(rows, Local) + Sum(pads, Local)
    <2>1. \A i \in 0 .. Local - 1 : rows[i] \in Nat /\ pads[i] \in Nat /\ slabs[i] = rows[i] + pads[i]
      <3> TAKE i \in 0 .. Local - 1
      <3>1. i \in Experts
        BY <1>1
      <3>2. pads[i] \in 0 .. last
        BY <1>3, <3>1
      <3> QED
        BY <1>1, <1>2, <1>a, <3>1, <3>2
    <2> QED
      BY <1>1, <2>1, SumAdded
  <1>10. Sum(slabs, e) \in Nat /\ Sum(slabs, Local) \in Nat
         /\ Sum(slabs, e) + slabs[e] <= Sum(slabs, Local)
    <2>1. \A i \in 0 .. Local - 1 : slabs[i] \in Nat
      BY <1>1, <1>3
    <2> QED
      BY <1>1, <1>5, <2>1, SumMonotone
  <1>11. ASSUME NEW f \in Experts, e < f
         PROVE  Sum(slabs, e) + slabs[e] <= Sum(slabs, f)
    <2>1. f \in Nat /\ \A i \in 0 .. f - 1 : slabs[i] \in Nat
      BY <1>1, <1>3
    <2> QED
      BY <1>5, <1>11, <2>1, SumMonotone
  <1>12. ASSUME NEW j \in 0 .. slabs[e] - 1
         PROVE  Sum(slabs, e) + j \in GroupedRows
    <2> DEFINE a == EP * PeerCap
               b == Local * last
    <2>1. a \in Nat /\ b \in Nat
      BY <1>1
    <2>2. GroupedRows = 0 .. a + b - 1
      BY DEF GroupedRows, last
    <2>3. Sum(slabs, e) + slabs[e] <= a + b
      <3> HIDE DEF a, b
      <3>1. Sum(rows, Local) \in 0 .. a /\ Sum(pads, Local) \in 0 .. b
        BY <1>7, <1>8 DEF a, b
      <3> QED
        BY <1>9, <1>10, <2>1, <3>1, <1>3
    <2> HIDE DEF a, b
    <2>4. slabs[e] \in Nat
      BY <1>3
    <2> QED
      BY <1>10, <2>1, <2>2, <2>3, <2>4
  <1>13. slabs[e] \in Nat /\ rows[e] \in Nat /\ rows[e] <= slabs[e]
    BY <1>2, <1>3
  <1> QED
    BY <1>4, <1>6, <1>10, <1>11, <1>12, <1>13

\* The lane of a source at a rank: an expert's rows after another's.
LEMMA LaneFacts ==
    ASSUME Sizes, NEW b, Fits(b), NEW s \in Ranks, NEW d \in Ranks
    PROVE  /\ CountsOf(b, s, d) \in [Experts -> 0 .. PeerCap]
           /\ Sum(CountsOf(b, s, d), Local) \in 0 .. PeerCap
           /\ \A e \in Experts :
                /\ Sum(CountsOf(b, s, d), e) = LaneRow(b, s, d, e)
                /\ LaneRow(b, s, d, e) \in Nat /\ SizeOf(b, s, d * Local + e) \in Nat
                /\ LaneRow(b, s, d, e) + SizeOf(b, s, d * Local + e) <= Sum(CountsOf(b, s, d), Local)
                /\ \A f \in Experts : e < f =>
                     LaneRow(b, s, d, e) + SizeOf(b, s, d * Local + e) <= LaneRow(b, s, d, f)
  <1> DEFINE n == b.lengths[s]
             c == b.gate[s]
             m == CountsOf(b, s, d)
  <1>1. Brings(n, c) /\ d \in Nat /\ Local \in Nat \ {0} /\ PeerCap \in Nat
        /\ Experts = 0 .. Local - 1
    BY SizeFacts DEF Fits, Ranks, Experts
  <1>2. \A e \in Experts : m[e] = SizeOf(b, s, d * Local + e) /\ m[e] = Size(n, c, d * Local + e)
    BY DEF CountsOf, SizeOf
  <1>3. \A e \in Experts : LaneRow(b, s, d, e) = First(n, c, d * Local + e) - First(n, c, d * Local)
    BY DEF LaneRow
  <1>4. \A e \in Experts : m[e] \in Nat
    BY <1>1, <1>2, ClassFacts
  <1>4a. DOMAIN m = Experts /\ m = [e \in Experts |-> m[e]]
    BY DEF CountsOf
  <1> HIDE DEF m, n, c
  <1>5. \A e \in 0 .. Local : Sum(m, e) = First(n, c, d * Local + e) - First(n, c, d * Local)
                              /\ Sum(m, e) \in Nat /\ Sum(m, e) <= PeerCap
    <2> TAKE e \in 0 .. Local
    <2>1. \A f \in Experts : m[f] = Size(n, c, d * Local + f)
      BY <1>2
    <2> QED
      BY <1>1, <2>1, LaneSum
  <1>6. \A i \in 0 .. Local - 1 : m[i] \in Nat
    BY <1>1, <1>4
  <1>7. \A e \in Experts : Sum(m, e) = LaneRow(b, s, d, e) /\ Sum(m, e) \in Nat
    <2> TAKE e \in Experts
    <2>1. e \in 0 .. Local
      BY <1>1
    <2> QED
      BY <1>3, <1>5, <2>1
  <1>8. Sum(m, Local) \in 0 .. PeerCap
    <2>1. Local \in 0 .. Local
      BY <1>1
    <2> QED
      BY <1>1, <1>5, <2>1
  <1>9. \A e \in Experts : Sum(m, e) + m[e] <= Sum(m, Local)
    <2> TAKE e \in Experts
    <2>1. e \in Nat /\ e < Local /\ Local \in Nat
      BY <1>1
    <2> QED
      BY <1>6, <2>1, SumMonotone
  <1>10. ASSUME NEW e \in Experts, NEW f \in Experts, e < f
         PROVE  Sum(m, e) + m[e] <= Sum(m, f)
    <2>1. e \in Nat /\ f \in Nat /\ \A i \in 0 .. f - 1 : m[i] \in Nat
      BY <1>1, <1>6
    <2> QED
      BY <1>10, <2>1, SumMonotone
  <1>11. m \in [Experts -> 0 .. PeerCap]
    <2>1. \A e \in Experts : m[e] \in 0 .. PeerCap
      BY <1>1, <1>4, <1>7, <1>8, <1>9
    <2> QED
      BY <1>4a, <2>1
  <1> QED
    BY <1>2, <1>4, <1>7, <1>8, <1>9, <1>10, <1>11 DEF m

\* What a rank receives fits its lanes.
LEMMA CountsAllFit ==
    ASSUME Sizes, NEW b, Fits(b), NEW d \in Ranks
    PROVE  CountsFit([s \in Ranks |-> CountsOf(b, s, d)])
  BY LaneFacts DEF CountsFit

\* No two routes of a source have the same row.
LEMMA RowInjective ==
    ASSUME NEW n, NEW c, Brings(n, c), Sizes, NEW x \in RoutesIn(n), NEW y \in RoutesIn(n),
           RowIn(n, c, x) = RowIn(n, c, y)
    PROVE  x = y
  <1> DEFINE g == ExpertIn(n, c, x)
             h == ExpertIn(n, c, y)
  <1>1. g \in Nat /\ h \in Nat
    <2>1. g \in Globals /\ h \in Globals
      BY RouteFacts
    <2> QED
      BY <2>1 DEF Globals
  <1>2. x \in Class(n, c, g) /\ y \in Class(n, c, h)
    BY DEF Class
  <1>3. RowIn(n, c, x) = First(n, c, g) + Rank(n, c, x) /\ RowIn(n, c, y) = First(n, c, h) + Rank(n, c, y)
    BY DEF RowIn
  <1> HIDE DEF g, h
  <1>4. Rank(n, c, x) \in 0 .. Size(n, c, g) - 1 /\ Rank(n, c, y) \in 0 .. Size(n, c, h) - 1
    BY <1>2, RankFacts
  <1>5. First(n, c, g) \in Nat /\ First(n, c, h) \in Nat /\ Size(n, c, g) \in Nat /\ Size(n, c, h) \in Nat
    BY <1>1, FirstMonotone
  <1> DEFINE a == First(n, c, g)
             v == First(n, c, h)
             k == Rank(n, c, x)
             w == Rank(n, c, y)
             p == Size(n, c, g)
             q == Size(n, c, h)
  <1>6. a \in Nat /\ v \in Nat /\ p \in Nat /\ q \in Nat /\ k \in 0 .. p - 1 /\ w \in 0 .. q - 1
    BY <1>4, <1>5
  <1>7. a + k = v + w
    BY <1>3
  <1>8. (g < h => a + p <= v) /\ (h < g => v + q <= a)
    BY <1>1, FirstMonotone
  <1>9. g = h => a = v
    OBVIOUS
  <1> HIDE DEF a, v, k, w, p, q
  <1>10. g = h
    BY <1>1, <1>6, <1>7, <1>8
  <1>11. k = w
    BY <1>6, <1>7, <1>9, <1>10
  <1> QED
    BY <1>2, <1>10, <1>11, RankFacts DEF k, w

\* An expert of a rank is one of all experts, and the other way round.
LEMMA ExpertSplit ==
    ASSUME Sizes
    PROVE  /\ \A d \in Ranks, e \in Experts :
                /\ d * Local + e \in Globals
                /\ (d * Local + e) \div Local = d /\ (d * Local + e) % Local = e
           /\ \A g \in Globals : /\ g \div Local \in Ranks /\ g % Local \in Experts
                                 /\ g = (g \div Local) * Local + (g % Local)
  <1>1. EP \in Nat \ {0} /\ Local \in Nat \ {0} /\ Ranks = 0 .. EP - 1 /\ Experts = 0 .. Local - 1
    BY SizeFacts DEF Ranks, Experts
  <1>2. ASSUME NEW d \in Ranks, NEW e \in Experts
        PROVE  /\ d * Local + e \in Globals
               /\ (d * Local + e) \div Local = d /\ (d * Local + e) % Local = e
    <2> DEFINE z == d * Local + e
    <2>1. d * Local \in Nat /\ d * Local + Local <= EP * Local /\ EP * Local \in Nat
      <3>1. d \in Nat /\ EP \in Nat /\ d < EP /\ Local \in Nat
        BY <1>1
      <3> QED
        BY <3>1, Products
    <2>2. z \in Nat /\ z \in Globals
      BY <1>1, <2>1 DEF Globals
    <2>3. z = d * Local + e /\ d \in Nat /\ e \in 0 .. Local - 1
      BY <1>1
    <2> HIDE DEF z
    <2>4. \A q \in Nat, m \in 0 .. Local - 1 : z = q * Local + m => z \div Local = q /\ z % Local = m
      BY <1>1, <2>2, Divided
    <2>5. z \div Local = d /\ z % Local = e
      BY <2>3, <2>4
    <2> QED
      BY <2>2, <2>5 DEF z
  <1>3. ASSUME NEW g \in Globals
        PROVE  /\ g \div Local \in Ranks /\ g % Local \in Experts
               /\ g = (g \div Local) * Local + (g % Local)
    <2>1. g \in Nat /\ g < EP * Local
      BY <1>1 DEF Globals
    <2>2. g \div Local \in Nat /\ g % Local \in 0 .. Local - 1
          /\ g = (g \div Local) * Local + (g % Local)
      BY <1>1, <2>1, Divided
    <2>3. \A q \in Nat : g < q * Local => g \div Local < q
      BY <1>1, <2>1, Divided
    <2>4. g \div Local < EP
      BY <1>1, <2>1, <2>3
    <2> QED
      BY <1>1, <2>2, <2>4
  <1> QED
    BY <1>2, <1>3

\* Where a route is packed, and where its result comes back.
LEMMA NthRow ==
    ASSUME Sizes, NEW b, Fits(b), NEW s \in Ranks, NEW d \in Ranks, NEW e \in Experts,
           NEW j \in 0 .. SizeOf(b, s, d * Local + e) - 1,
           NEW x, x = Nth(b.lengths[s], b.gate[s], d * Local + e, j)
    PROVE  /\ x \in RoutesIn(b.lengths[s]) /\ ExpertIn(b.lengths[s], b.gate[s], x) = d * Local + e
           /\ RowIn(b.lengths[s], b.gate[s], x)
                = First(b.lengths[s], b.gate[s], d * Local) + LaneRow(b, s, d, e) + j
           /\ BackIn(b.lengths[s], b.gate[s], x) = d * PeerCap + LaneRow(b, s, d, e) + j
  <1> DEFINE n == b.lengths[s]
             c == b.gate[s]
             g == d * Local + e
             f == First(n, c, d * Local)
  <1>1. Brings(n, c) /\ SizeOf(b, s, g) = Size(n, c, g) /\ j \in 0 .. Size(n, c, g) - 1
    BY DEF Fits, SizeOf
  <1>2. g \in Nat /\ d \in Nat /\ d * Local \in Nat /\ PeerCap \in Nat /\ d * PeerCap \in Nat
        /\ g \div Local = d
    <2>1. d \in Nat /\ e \in Nat /\ Local \in Nat /\ PeerCap \in Nat
      BY SizeFacts DEF Ranks, Experts
    <2>2. g \div Local = d
      BY ExpertSplit
    <2> QED
      BY <2>1, <2>2
  <1>3. LaneRow(b, s, d, e) = First(n, c, g) - f
    BY DEF LaneRow
  <1>4. f \in Nat /\ First(n, c, g) \in Nat
    <2> HIDE DEF n, c, g
    <2> QED
      BY <1>1, <1>2, FirstStep
  <1> HIDE DEF n, c, g, f
  <1>5. x \in Class(n, c, g) /\ Rank(n, c, x) = j
    <2>1. x = Nth(n, c, g, j)
      BY DEF n, c, g
    <2> QED
      BY <1>1, <2>1, NthFacts
  <1>6. x \in RoutesIn(n) /\ ExpertIn(n, c, x) = g
    BY <1>5 DEF Class
  <1>7. RowIn(n, c, x) = First(n, c, g) + j
    BY <1>5, <1>6 DEF RowIn
  <1>8. RowIn(n, c, x) = f + LaneRow(b, s, d, e) + j
    BY <1>3, <1>4, <1>7
  <1>9. BackIn(n, c, x) = d * PeerCap + RowIn(n, c, x) - f
    BY <1>2, <1>6 DEF BackIn, f
  <1>10. BackIn(n, c, x) = d * PeerCap + LaneRow(b, s, d, e) + j
    BY <1>2, <1>3, <1>4, <1>7, <1>9
  <1> QED
    BY <1>6, <1>8, <1>10 DEF n, c, g, f

\* Every route is one of an expert's.
LEMMA RouteNth ==
    ASSUME Sizes, NEW b, Fits(b), NEW s \in Ranks, NEW x \in RoutesIn(b.lengths[s]),
           NEW g, g = ExpertIn(b.lengths[s], b.gate[s], x)
    PROVE  /\ g \div Local \in Ranks /\ g % Local \in Experts
           /\ g = (g \div Local) * Local + (g % Local)
           /\ Rank(b.lengths[s], b.gate[s], x) \in 0 .. SizeOf(b, s, g) - 1
           /\ x = Nth(b.lengths[s], b.gate[s], g, Rank(b.lengths[s], b.gate[s], x))
  <1> DEFINE n == b.lengths[s]
             c == b.gate[s]
  <1>1. Brings(n, c) /\ x \in Class(n, c, g) /\ SizeOf(b, s, g) = Size(n, c, g)
    BY DEF Fits, Class, SizeOf
  <1>2. g \in Globals
    BY <1>1, RouteFacts
  <1>3. Rank(n, c, x) \in 0 .. Size(n, c, g) - 1 /\ Nth(n, c, g, Rank(n, c, x)) = x
    <2> HIDE DEF n, c
    <2> QED
      BY <1>1, RankFacts, NthOfRank
  <1> QED
    BY <1>1, <1>2, <1>3, ExpertSplit

\* Rows of a lane are rows of the windows.
LEMMA LaneInWindow ==
    ASSUME Sizes
    PROVE  /\ \A p \in Ranks : \A k \in 0 .. PeerCap - 1 : p * PeerCap + k \in WindowRows
           /\ \A p \in Ranks : p * PeerCap \in Nat
           /\ \A p, q \in Ranks : \A i \in WindowRows :
                i - p * PeerCap \in 0 .. PeerCap - 1 /\ i - q * PeerCap \in 0 .. PeerCap - 1 => p = q
  <1>1. EP \in Nat \ {0} /\ PeerCap \in Nat /\ Ranks = 0 .. EP - 1
    BY SizeFacts DEF Ranks
  <1>2. \A p \in Ranks : /\ p * PeerCap \in Nat
                         /\ p * PeerCap + PeerCap <= EP * PeerCap
                         /\ \A q \in Ranks : p < q => p * PeerCap + PeerCap <= q * PeerCap
    <2> TAKE p \in Ranks
    <2>1. p \in Nat /\ p < EP /\ EP \in Nat
      BY <1>1
    <2>2. \A q \in Ranks : q \in Nat
      BY <1>1
    <2> QED
      BY <1>1, <2>1, <2>2, Products
  <1>3. WindowRows = 0 .. EP * PeerCap - 1
    BY DEF WindowRows
  <1>4. EP * PeerCap \in Nat
    BY <1>1
  <1>5. ASSUME NEW p \in Ranks, NEW k \in 0 .. PeerCap - 1
        PROVE  p * PeerCap + k \in WindowRows
    <2> DEFINE a == p * PeerCap
               z == EP * PeerCap
    <2>1. a \in Nat /\ a + PeerCap <= z /\ z \in Nat /\ WindowRows = 0 .. z - 1
      BY <1>2, <1>3, <1>4
    <2> HIDE DEF a, z
    <2>2. a + k \in WindowRows
      BY <1>1, <2>1
    <2> QED
      BY <2>2 DEF a
  <1>6. ASSUME NEW p \in Ranks, NEW q \in Ranks, NEW i \in WindowRows,
               i - p * PeerCap \in 0 .. PeerCap - 1, i - q * PeerCap \in 0 .. PeerCap - 1
        PROVE  p = q
    <2> DEFINE a == p * PeerCap
               z == q * PeerCap
    <2>1. a \in Nat /\ z \in Nat /\ (p < q => a + PeerCap <= z) /\ (q < p => z + PeerCap <= a)
      BY <1>2
    <2>2. i - a \in 0 .. PeerCap - 1 /\ i - z \in 0 .. PeerCap - 1 /\ i \in Int
      BY <1>3, <1>6
    <2> HIDE DEF a, z
    <2>3. ~ (p < q) /\ ~ (q < p)
      BY <1>1, <2>1, <2>2
    <2> QED
      BY <1>1, <2>3
  <1> QED
    BY <1>2, <1>5, <1>6

\* The positions of a source's routes.
LEMMA PackedType ==
    ASSUME Sizes, NEW b, Fits(b), NEW s \in Ranks
    PROVE  PackedOf(b, s) \in [RoutesIn(b.lengths[s]) -> (0 .. PeerCap - 1) \X WindowRows]
  <1> DEFINE n == b.lengths[s]
             c == b.gate[s]
  <1>1. ASSUME NEW x \in RoutesIn(n)
        PROVE  RowIn(n, c, x) \in 0 .. PeerCap - 1 /\ BackIn(n, c, x) \in WindowRows
    <2> DEFINE g == ExpertIn(n, c, x)
               d == g \div Local
               e == g % Local
               j == Rank(n, c, x)
    <2>1. /\ d \in Ranks /\ e \in Experts /\ g = d * Local + e
          /\ j \in 0 .. SizeOf(b, s, g) - 1 /\ x = Nth(n, c, g, j)
      BY RouteNth
    <2> HIDE DEF g, d, e, j
    <2>2. BackIn(n, c, x) = d * PeerCap + LaneRow(b, s, d, e) + j
          /\ RowIn(n, c, x) = First(n, c, d * Local) + LaneRow(b, s, d, e) + j
      BY <2>1, NthRow
    <2>3. /\ LaneRow(b, s, d, e) \in Nat /\ SizeOf(b, s, g) \in Nat
          /\ LaneRow(b, s, d, e) + SizeOf(b, s, g) <= Sum(CountsOf(b, s, d), Local)
          /\ Sum(CountsOf(b, s, d), Local) \in 0 .. PeerCap /\ PeerCap \in Nat
      BY <2>1, LaneFacts, SizeFacts
    <2>4. LaneRow(b, s, d, e) + j \in 0 .. PeerCap - 1
      BY <2>1, <2>3
    <2>5. d * PeerCap + (LaneRow(b, s, d, e) + j) \in WindowRows /\ d * PeerCap \in Nat
      BY <2>1, <2>4, LaneInWindow
    <2>6. BackIn(n, c, x) \in WindowRows
      <3> DEFINE a == d * PeerCap
                 k == LaneRow(b, s, d, e)
      <3>1. BackIn(n, c, x) = a + k + j /\ a + (k + j) \in WindowRows /\ a \in Nat /\ k \in Nat /\ j \in Nat
        BY <2>1, <2>2, <2>3, <2>5
      <3> HIDE DEF a, k
      <3>2. a + k + j = a + (k + j)
        BY <3>1
      <3> QED
        BY <3>1, <3>2
    <2>7. RowIn(n, c, x) \in 0 .. PeerCap - 1
      <3>1. Brings(n, c) /\ x \in Class(n, c, g) /\ g \in Nat
        <4>1. Brings(n, c) /\ x \in Class(n, c, g)
          BY DEF Fits, Class, g
        <4>2. g \in Globals
          BY <4>1, RouteFacts DEF g
        <4> QED
          BY <4>1, <4>2 DEF Globals
      <3>2. RowIn(n, c, x) = First(n, c, g) + j
        BY DEF RowIn, g, j
      <3> DEFINE h == g + 1
      <3>3. First(n, c, h) = First(n, c, g) + Size(n, c, g) /\ First(n, c, g) \in Nat /\ h \in Nat
        <4>1. First(n, c, g + 1) = First(n, c, g) + Size(n, c, g) /\ First(n, c, g) \in Nat
          BY <3>1, FirstStep
        <4> QED
          BY <3>1, <4>1
      <3> HIDE DEF h
      <3>4. First(n, c, h) <= (n[1] + n[2]) * TopK /\ (n[1] + n[2]) * TopK <= PeerCap
            /\ (n[1] + n[2]) * TopK \in Nat
        <4> HIDE DEF n, c
        <4>1. 0 \in Nat /\ 0 <= h
          BY <3>3
        <4> QED
          BY <3>1, <3>3, <4>1, FirstMonotone, LengthFacts
      <3>5. j \in 0 .. Size(n, c, g) - 1 /\ Size(n, c, g) \in Nat
        BY <2>1, <2>3 DEF SizeOf
      <3> QED
        BY <2>3, <3>2, <3>3, <3>4, <3>5
    <2> QED
      BY <2>6, <2>7
  <1> QED
    BY <1>1 DEF PackedOf

\* What a row says of its route.
LEMMA ItemType ==
    ASSUME Sizes, NEW b, Fits(b), NEW s \in Ranks, NEW x \in RoutesIn(b.lengths[s])
    PROVE  [call |-> b.call, source |-> s, slot |-> SlotIn(b.lengths[s], x \div TopK),
            k |-> x % TopK] \in RouteItems
  <1>1. Brings(b.lengths[s], b.gate[s]) /\ b.call \in 0 .. Requests * Layers + Layers
    BY DEF Fits
  <1>2. SlotIn(b.lengths[s], x \div TopK) \in Tokens /\ x % TopK \in 0 .. TopK - 1
    BY <1>1, RouteFacts
  <1>3. b.call \in -1 .. Requests * Layers + Layers /\ x % TopK \in -1 .. TopK - 1
    <2> DEFINE z == Requests * Layers + Layers
    <2>1. z \in Nat /\ TopK \in Nat
      BY SizeFacts
    <2>2. b.call \in 0 .. z
      BY <1>1
    <2> HIDE DEF z
    <2>3. b.call \in -1 .. z /\ x % TopK \in -1 .. TopK - 1
      BY <1>2, <2>1, <2>2
    <2> QED
      BY <2>3 DEF z
  <1> QED
    BY <1>2, <1>3 DEF RouteItems

LEMMA NthType ==
    ASSUME Sizes, NEW b, Fits(b), NEW s \in Ranks, NEW d \in Ranks, NEW e \in Experts,
           NEW j \in 0 .. SizeOf(b, s, d * Local + e) - 1
    PROVE  ItemOf(b, s, d * Local + e, j) \in RouteItems
  <1> DEFINE x == Nth(b.lengths[s], b.gate[s], d * Local + e, j)
  <1>1. x \in RoutesIn(b.lengths[s])
    BY NthRow
  <1>2. ItemOf(b, s, d * Local + e, j)
          = [call |-> b.call, source |-> s, slot |-> SlotIn(b.lengths[s], x \div TopK), k |-> x % TopK]
    BY DEF ItemOf
  <1> HIDE DEF x
  <1> QED
    BY <1>1, <1>2, ItemType

\* Every row of a lane is an expert's.
LEMMA LaneOnto ==
    ASSUME Sizes, NEW b, Fits(b), NEW s \in Ranks, NEW d \in Ranks,
           NEW k \in 0 .. Sum(CountsOf(b, s, d), Local) - 1
    PROVE  \E e \in Experts : \E j \in 0 .. SizeOf(b, s, d * Local + e) - 1 :
             k = LaneRow(b, s, d, e) + j
  <1> DEFINE m == CountsOf(b, s, d)
  <1>1. Local \in Nat /\ Experts = 0 .. Local - 1
    BY SizeFacts DEF Experts
  <1>2. \A e \in Experts : m[e] = SizeOf(b, s, d * Local + e)
    BY DEF CountsOf
  <1>3. \A e \in Experts : Sum(m, e) = LaneRow(b, s, d, e) /\ m[e] \in Nat /\ Sum(m, Local) \in Nat
    BY <1>2, LaneFacts, SizeFacts
  <1> HIDE DEF m
  <1>4. \A e \in 0 .. Local - 1 : m[e] \in Nat
    BY <1>1, <1>3
  <1>5. k \in 0 .. Sum(m, Local) - 1
    BY DEF m
  <1>6. PICK e \in 0 .. Local - 1 : Sum(m, e) \in Nat /\ k - Sum(m, e) \in 0 .. m[e] - 1
    BY <1>1, <1>4, <1>5, SumFind
  <1> DEFINE j == k - Sum(m, e)
  <1>7. e \in Experts /\ j \in 0 .. SizeOf(b, s, d * Local + e) - 1 /\ k = Sum(m, e) + j
    <2>1. e \in Experts /\ j \in 0 .. m[e] - 1 /\ Sum(m, e) \in Nat
      BY <1>1, <1>6
    <2>2. k \in Int
      BY <1>5, <1>3, <2>1
    <2> QED
      BY <1>2, <2>1, <2>2
  <1> HIDE DEF j
  <1> QED
    BY <1>3, <1>7

\* What a rank puts fills its own lane with its rows and leaves the rest.
LEMMA PushedIs ==
    ASSUME Sizes, NEW r \in Ranks, NEW d \in Ranks, Fits(Current(r)),
           packed[r] = PackedOf(Current(r), r), NEW before \in [WindowRows -> RouteItems]
    PROVE  /\ Pushed(r, d, before) \in [WindowRows -> RouteItems]
           /\ LaneHolds(Pushed(r, d, before), Current(r), r, d)
           /\ \A i \in WindowRows :
                i - r * PeerCap \notin 0 .. PeerCap - 1 => Pushed(r, d, before)[i] = before[i]
  <1> DEFINE b == Current(r)
             n == b.lengths[r]
             c == b.gate[r]
             base == First(n, c, d * Local)
             total == Sum(CountsOf(b, r, d), Local)
             lane == r * PeerCap
             w == Pushed(r, d, before)
  <1>1. Brings(n, c) /\ PeerCap \in Nat /\ lane \in Nat /\ d * Local \in Nat
    <2>1. r \in Nat /\ d \in Nat /\ Local \in Nat /\ PeerCap \in Nat
      BY SizeFacts DEF Ranks
    <2> QED
      BY <2>1 DEF Fits
  <1>2. Routes(r) = RoutesIn(n) /\ Start(r, d * Local) = base
        /\ \A x : Route(r, x) = [call |-> b.call, source |-> r,
                                 slot |-> SlotIn(n, x \div TopK), k |-> x % TopK]
    BY RoutesAre, TotalsAre DEF MyLens, MyGate
  <1>3. SendCount(r, d) = total
    BY TotalsAre DEF SendCount, CountRow, CountsOf, SizeOf, MyLens, MyGate
  <1>4. total \in 0 .. PeerCap /\ base \in Nat
    BY <1>1, LaneFacts, FirstStep
  <1>5. \A x \in RoutesIn(n) : packed[r][x][1] = RowIn(n, c, x)
    BY DEF PackedOf
  <1>6. UNION {Stream(g, total) : g \in 0 .. 3} = 0 .. total - 1
    <2> HIDE DEF total
    <2> QED
      BY <1>1, <1>4, Streams
  <1>7. DOMAIN before = WindowRows /\ \A i \in WindowRows : before[i] \in RouteItems
    OBVIOUS
  <1>8. w = [i \in WindowRows |->
               IF i - lane \in 0 .. total - 1
               THEN Route(r, CHOOSE x \in RoutesIn(n) : packed[r][x][1] = base + i - lane)
               ELSE before[i]]
    <2> HIDE DEF total, base, n
    <2> QED
      BY <1>2, <1>3, <1>6, <1>7 DEF Pushed
  <1>9. ASSUME NEW e \in Experts, NEW j \in 0 .. SizeOf(b, r, d * Local + e) - 1, NEW i \in WindowRows,
               i - lane = LaneRow(b, r, d, e) + j
        PROVE  w[i] = ItemOf(b, r, d * Local + e, j)
    <2> DEFINE k == LaneRow(b, r, d, e)
               x == Nth(n, c, d * Local + e, j)
    <2>1. k \in Nat /\ j \in Nat /\ k + j \in 0 .. total - 1
      <3>1. k \in Nat /\ SizeOf(b, r, d * Local + e) \in Nat /\ k + SizeOf(b, r, d * Local + e) <= total
        BY LaneFacts
      <3> HIDE DEF k, total
      <3> QED
        BY <1>4, <3>1
    <2>2. x \in RoutesIn(n) /\ RowIn(n, c, x) = base + k + j
      BY NthRow
    <2>3. ItemOf(b, r, d * Local + e, j) = Route(r, x)
      BY <1>2 DEF ItemOf
    <2> HIDE DEF x, k, total, base, n, c, w, lane
    <2>4. base + k + j = base + i - lane
      <3>1. i \in Int
        BY LaneInWindow DEF WindowRows
      <3> QED
        BY <1>1, <1>4, <1>9, <2>1, <3>1 DEF k
    <2>5. \A y \in RoutesIn(n) : packed[r][y][1] = base + i - lane <=> y = x
      <3> TAKE y \in RoutesIn(n)
      <3>1. packed[r][y][1] = RowIn(n, c, y)
        BY <1>5
      <3>2. RowIn(n, c, y) = RowIn(n, c, x) => y = x
        BY <1>1, <2>2, RowInjective
      <3> QED
        BY <2>2, <2>4, <3>1, <3>2
    <2>6. (CHOOSE y \in RoutesIn(n) : packed[r][y][1] = base + i - lane) = x
      BY <2>2, <2>5
    <2>7. i - lane \in 0 .. total - 1
      BY <1>9, <2>1 DEF k
    <2> QED
      BY <1>8, <2>3, <2>6, <2>7
  <1>10. w \in [WindowRows -> RouteItems]
    <2>1. ASSUME NEW i \in WindowRows
          PROVE  w[i] \in RouteItems
      <3>1. CASE i - lane \in 0 .. total - 1
        <4> DEFINE k == i - lane
        <4>1. k \in 0 .. total - 1
          BY <3>1
        <4> HIDE DEF k
        <4>2. PICK e \in Experts : \E j \in 0 .. SizeOf(b, r, d * Local + e) - 1 :
                k = LaneRow(b, r, d, e) + j
          BY <4>1, LaneOnto
        <4>3. PICK j \in 0 .. SizeOf(b, r, d * Local + e) - 1 : k = LaneRow(b, r, d, e) + j
          BY <4>2
        <4>4. w[i] = ItemOf(b, r, d * Local + e, j)
          <5> HIDE DEF w
          <5> QED
            BY <1>9, <4>3 DEF k
        <4>5. ItemOf(b, r, d * Local + e, j) \in RouteItems
          BY NthType
        <4> QED
          BY <4>4, <4>5
      <3>2. CASE i - lane \notin 0 .. total - 1
        <4> HIDE DEF w, total, lane
        <4> QED
          BY <1>7, <1>8, <3>2
      <3> QED
        BY <3>1, <3>2
    <2>2. w = [i \in WindowRows |-> w[i]]
      <3> HIDE DEF total, lane, base, n
      <3> QED
        BY <1>8
    <2> HIDE DEF w
    <2> QED
      BY <2>1, <2>2
  <1>11. LaneHolds(w, b, r, d)
    <2>1. ASSUME NEW e \in Experts, NEW j \in 0 .. SizeOf(b, r, d * Local + e) - 1
          PROVE  w[r * PeerCap + LaneRow(b, r, d, e) + j] = ItemOf(b, r, d * Local + e, j)
      <3> DEFINE k == LaneRow(b, r, d, e)
                 i == r * PeerCap + k + j
      <3>1. k \in Nat /\ j \in Nat /\ k + j \in 0 .. PeerCap - 1
        <4>1. k \in Nat /\ SizeOf(b, r, d * Local + e) \in Nat /\ k + SizeOf(b, r, d * Local + e) <= total
          BY LaneFacts
        <4> HIDE DEF k, total
        <4> QED
          BY <1>1, <1>4, <4>1
      <3>2. i \in WindowRows /\ i - lane = k + j
        <4>1. lane + (k + j) \in WindowRows
          BY <3>1, LaneInWindow
        <4>2. i = lane + (k + j) /\ i - lane = k + j
          <5> HIDE DEF k
          <5>1. i = lane + k + j
            OBVIOUS
          <5> HIDE DEF lane, i
          <5> QED
            BY <1>1, <3>1, <5>1
        <4> QED
          BY <4>1, <4>2
      <3> HIDE DEF w
      <3>3. w[i] = ItemOf(b, r, d * Local + e, j)
        <4> HIDE DEF i, lane
        <4> QED
          BY <1>9, <3>2
      <3> QED
        BY <3>3
    <2> HIDE DEF w
    <2> QED
      BY <2>1 DEF LaneHolds
  <1>12. ASSUME NEW i \in WindowRows, i - lane \notin 0 .. PeerCap - 1
         PROVE  w[i] = before[i]
    <2>1. i - lane \notin 0 .. total - 1
      <3>1. i \in Int
        BY LaneInWindow DEF WindowRows
      <3> HIDE DEF total, lane
      <3> QED
        BY <1>1, <1>4, <1>12, <3>1
    <2> HIDE DEF w, total, lane
    <2> QED
      BY <1>8, <2>1
  <1> QED
    BY <1>10, <1>11, <1>12

\* A lane holds what its rows hold.
LEMMA LaneKept ==
    ASSUME Sizes, NEW b, Fits(b), NEW s \in Ranks, NEW d \in Ranks, NEW x, NEW y,
           \A i \in WindowRows : i - s * PeerCap \in 0 .. PeerCap - 1 => y[i] = x[i],
           LaneHolds(x, b, s, d)
    PROVE  LaneHolds(y, b, s, d)
  <1>1. ASSUME NEW e \in Experts, NEW j \in 0 .. SizeOf(b, s, d * Local + e) - 1
        PROVE  y[s * PeerCap + LaneRow(b, s, d, e) + j] = ItemOf(b, s, d * Local + e, j)
    <2> DEFINE k == LaneRow(b, s, d, e)
               a == s * PeerCap
               i == a + k + j
    <2>1. x[i] = ItemOf(b, s, d * Local + e, j)
      BY DEF LaneHolds
    <2>2. k \in Nat /\ j \in Nat /\ a \in Nat /\ k + j \in 0 .. PeerCap - 1
      <3>1. /\ k \in Nat /\ SizeOf(b, s, d * Local + e) \in Nat
            /\ k + SizeOf(b, s, d * Local + e) <= Sum(CountsOf(b, s, d), Local)
            /\ Sum(CountsOf(b, s, d), Local) \in 0 .. PeerCap /\ PeerCap \in Nat
            /\ a \in Nat
        BY LaneFacts, SizeFacts, LaneInWindow
      <3> HIDE DEF k, a
      <3> QED
        BY <3>1
    <2>3. a + (k + j) \in WindowRows
      BY <2>2, LaneInWindow
    <2> HIDE DEF k
    <2>4. i = a + (k + j) /\ i - a = k + j
      <3> HIDE DEF a
      <3> QED
        BY <2>2
    <2>5. i \in WindowRows /\ i - s * PeerCap \in 0 .. PeerCap - 1
      BY <2>2, <2>3, <2>4
    <2>6. y[i] = x[i]
      <3> HIDE DEF i
      <3> QED
        BY <2>5
    <2> QED
      BY <2>1, <2>6 DEF k
  <1> QED
    BY <1>1 DEF LaneHolds

LEMMA BackKept ==
    ASSUME Sizes, NEW b, Fits(b), NEW s \in Ranks, NEW d \in Ranks, NEW x, NEW y,
           \A i \in WindowRows : i - d * PeerCap \in 0 .. PeerCap - 1 => y[i] = x[i],
           BackHolds(x, b, s, d)
    PROVE  BackHolds(y, b, s, d)
  <1>1. ASSUME NEW e \in Experts, NEW j \in 0 .. SizeOf(b, s, d * Local + e) - 1
        PROVE  y[d * PeerCap + LaneRow(b, s, d, e) + j]
                 = Row(ItemOf(b, s, d * Local + e, j), d * Local + e)
    <2> DEFINE k == LaneRow(b, s, d, e)
               a == d * PeerCap
               i == a + k + j
    <2>1. x[i] = Row(ItemOf(b, s, d * Local + e, j), d * Local + e)
      BY DEF BackHolds
    <2>2. k \in Nat /\ j \in Nat /\ a \in Nat /\ k + j \in 0 .. PeerCap - 1
      <3>1. /\ k \in Nat /\ SizeOf(b, s, d * Local + e) \in Nat
            /\ k + SizeOf(b, s, d * Local + e) <= Sum(CountsOf(b, s, d), Local)
            /\ Sum(CountsOf(b, s, d), Local) \in 0 .. PeerCap /\ PeerCap \in Nat
            /\ a \in Nat
        BY LaneFacts, SizeFacts, LaneInWindow
      <3> HIDE DEF k, a
      <3> QED
        BY <3>1
    <2>3. a + (k + j) \in WindowRows
      BY <2>2, LaneInWindow
    <2> HIDE DEF k
    <2>4. i = a + (k + j) /\ i - a = k + j
      <3> HIDE DEF a
      <3> QED
        BY <2>2
    <2>5. i \in WindowRows /\ i - d * PeerCap \in 0 .. PeerCap - 1
      BY <2>2, <2>3, <2>4
    <2>6. y[i] = x[i]
      <3> HIDE DEF i
      <3> QED
        BY <2>5
    <2> QED
      BY <2>1, <2>6 DEF k
  <1> QED
    BY <1>1 DEF BackHolds

-----------------------------------------------------------------------------
(* Slabs. *)

InSlab(m, e, i) == i - BaseIn(m, e) \in 0 .. CeilTo(RowsIn(m, e), RecvTile) - 1
OfSource(m, e, s, i) == i - BaseIn(m, e) - PrefixIn(m, s, e) \in 0 .. m[s][e] - 1

\* A row lies in one slab, and belongs to one source in it.
LEMMA SlabUnique ==
    ASSUME Sizes, NEW m, CountsFit(m), NEW e \in Experts, NEW f \in Experts, NEW i \in Int,
           InSlab(m, e, i), InSlab(m, f, i)
    PROVE  e = f
  <1> DEFINE a == BaseIn(m, e)
             z == BaseIn(m, f)
             u == CeilTo(RowsIn(m, e), RecvTile)
             v == CeilTo(RowsIn(m, f), RecvTile)
  <1>1. a \in Nat /\ z \in Nat /\ u \in Nat /\ v \in Nat
        /\ (e < f => a + u <= z) /\ (f < e => z + v <= a)
    BY SlabsApart
  <1>2. i - a \in 0 .. u - 1 /\ i - z \in 0 .. v - 1
    BY DEF InSlab
  <1> HIDE DEF a, z, u, v
  <1>3. ~ (e < f) /\ ~ (f < e)
    BY <1>1, <1>2
  <1>4. e \in Nat /\ f \in Nat
    BY SizeFacts DEF Experts
  <1> QED
    BY <1>3, <1>4

LEMMA SourceIn ==
    ASSUME Sizes, NEW m, CountsFit(m), NEW e \in Experts, NEW s \in Ranks, NEW i \in Int,
           OfSource(m, e, s, i)
    PROVE  /\ InSlab(m, e, i) /\ i - BaseIn(m, e) \in 0 .. RowsIn(m, e) - 1
           /\ \A u \in Ranks : OfSource(m, e, u, i) => u = s
  <1>1. /\ RowsIn(m, e) \in Nat /\ BaseIn(m, e) \in Nat
        /\ CeilTo(RowsIn(m, e), RecvTile) \in Nat
        /\ RowsIn(m, e) <= CeilTo(RowsIn(m, e), RecvTile)
    BY SlabsApart
  <1>2. \A u \in Ranks : /\ PrefixIn(m, u, e) \in Nat /\ m[u][e] \in Nat
                         /\ PrefixIn(m, u, e) + m[u][e] <= RowsIn(m, e)
                         /\ \A v \in Ranks : u < v => PrefixIn(m, u, e) + m[u][e] <= PrefixIn(m, v, e)
    BY SlabRows, SourceRows, SizeFacts
  <1> DEFINE k == i - BaseIn(m, e)
  <1>3. k \in Int /\ k - PrefixIn(m, s, e) \in 0 .. m[s][e] - 1
    BY <1>1 DEF OfSource
  <1> HIDE DEF k
  <1>4. k \in 0 .. RowsIn(m, e) - 1 /\ k \in 0 .. CeilTo(RowsIn(m, e), RecvTile) - 1
    BY <1>1, <1>2, <1>3
  <1>5. ASSUME NEW u \in Ranks, k - PrefixIn(m, u, e) \in 0 .. m[u][e] - 1
        PROVE  u = s
    <2>1. ~ (u < s) /\ ~ (s < u)
      BY <1>2, <1>3, <1>5
    <2> QED
      BY <2>1, SizeFacts DEF Ranks
  <1> QED
    BY <1>4, <1>5 DEF k, InSlab, OfSource

LEMMA SlabIs ==
    ASSUME NEW r
    PROVE  /\ \A e : ExpertRows(r, e) = RowsIn(counts[r], e) /\ ExpertBase(r, e) = BaseIn(counts[r], e)
           /\ \A s, e : SourcePrefix(r, s, e) = PrefixIn(counts[r], s, e)
  BY DEF ExpertRows, RowsIn, ExpertBase, BaseIn, SourcePrefix, PrefixIn

\* The rows of a source in a slab.
LEMMA SlabRow ==
    ASSUME Sizes, NEW m, CountsFit(m), NEW e \in Experts, NEW s \in Ranks,
           NEW j \in 0 .. m[s][e] - 1,
           NEW i, i = BaseIn(m, e) + PrefixIn(m, s, e) + j
    PROVE  /\ i \in GroupedRows /\ i \in Int /\ OfSource(m, e, s, i)
           /\ i - BaseIn(m, e) - PrefixIn(m, s, e) = j
  <1> DEFINE a == BaseIn(m, e)
             p == PrefixIn(m, s, e)
             z == CeilTo(RowsIn(m, e), RecvTile)
  <1>1. a \in Nat /\ p \in Nat /\ z \in Nat /\ m[s][e] \in Nat /\ p + m[s][e] <= z
    <2>1. /\ RowsIn(m, e) \in Nat /\ a \in Nat /\ z \in Nat /\ RowsIn(m, e) <= z
      BY SlabsApart
    <2>2. p \in Nat /\ m[s][e] \in Nat /\ p + m[s][e] <= RowsIn(m, e)
      BY SlabRows, SourceRows, SizeFacts
    <2> HIDE DEF a, p, z
    <2> QED
      BY <2>1, <2>2
  <1>2. \A k \in 0 .. z - 1 : a + k \in GroupedRows
    BY SlabsApart
  <1>3. i = a + p + j
    OBVIOUS
  <1> HIDE DEF a, p, z
  <1>4. p + j \in 0 .. z - 1 /\ i = a + (p + j) /\ i - a - p = j /\ i \in Int
    BY <1>1, <1>3
  <1> QED
    BY <1>2, <1>4 DEF OfSource, a, p

LEMMA PadRow ==
    ASSUME Sizes, NEW m, CountsFit(m), NEW e \in Experts,
           NEW j \in RowsIn(m, e) .. CeilTo(RowsIn(m, e), RecvTile) - 1,
           NEW i, i = BaseIn(m, e) + j
    PROVE  i \in GroupedRows /\ i \in Int /\ InSlab(m, e, i) /\ i - BaseIn(m, e) = j
  <1> DEFINE a == BaseIn(m, e)
             z == CeilTo(RowsIn(m, e), RecvTile)
             n == RowsIn(m, e)
  <1>1. a \in Nat /\ z \in Nat /\ n \in Nat
    BY SlabsApart
  <1>2. \A k \in 0 .. z - 1 : a + k \in GroupedRows
    BY SlabsApart
  <1>3. i = a + j /\ j \in n .. z - 1
    OBVIOUS
  <1> HIDE DEF a, z, n
  <1>4. j \in 0 .. z - 1 /\ i - a = j /\ i \in Int
    BY <1>1, <1>3
  <1> QED
    BY <1>2, <1>3, <1>4 DEF InSlab, a, z

\* The blank row is a row.
LEMMA BlankType ==
    ASSUME Sizes
    PROVE  /\ NoRow \in RouteItems /\ Blank \in Rows
           /\ \A x \in RouteItems : Row(x, -1) \in Rows /\ \A g \in Globals : Row(x, g) \in Rows
           /\ \A w \in Rows : w.route \in RouteItems
           /\ \A x, g : Row(x, g).route = x /\ Row(x, g).expert = g
  <1>1. -1 \in -1 .. Requests * Layers + Layers /\ -1 \in -1 .. TopK - 1
    <2> DEFINE z == Requests * Layers
    <2>1. z \in Nat /\ Layers \in Nat /\ TopK \in Nat
      BY SizeFacts
    <2> HIDE DEF z
    <2>2. -1 \in -1 .. z + Layers /\ -1 \in -1 .. TopK - 1
      BY <2>1
    <2> QED
      BY <2>2 DEF z
  <1>2. NoRow \in RouteItems
    BY <1>1 DEF NoRow, RouteItems
  <1> QED
    BY <1>2 DEF Blank, Row, Rows

\* The slabs hold what the lanes held, padded.
LEMMA ResortedIs ==
    ASSUME Sizes, NEW r \in Ranks, NEW b, Fits(b),
           counts[r] = [s \in Ranks |-> CountsOf(b, s, r)],
           \A s \in Ranks : LaneHolds(xTarget[r], b, s, r),
           xTarget[r] \in [WindowRows -> RouteItems], grouped[r] \in [GroupedRows -> Rows]
    PROVE  /\ Resorted(r) \in [GroupedRows -> Rows]
           /\ SlabsHold(Resorted(r), counts[r], b, r, FALSE)
           /\ PadsHold(Resorted(r), counts[r])
  <1> DEFINE m == counts[r]
             w == Resorted(r)
             at(c, i) == c[2] * PeerCap + Sum(m[c[2]], c[1])
                           + (i - BaseIn(m, c[1]) - PrefixIn(m, c[2], c[1]))
             of(i) == CHOOSE c \in Experts \X Ranks : OfSource(m, c[1], c[2], i)
  <1>1. CountsFit(m) /\ \A s \in Ranks : m[s] = CountsOf(b, s, r)
    BY CountsAllFit
  <1>2. \A s \in Ranks, e \in Experts : m[s][e] = SizeOf(b, s, r * Local + e)
    BY <1>1 DEF CountsOf
  <1>3. w = [i \in GroupedRows |->
               IF \E c \in Experts \X Ranks : OfSource(m, c[1], c[2], i)
               THEN Row(xTarget[r][at(of(i), i)], -1)
               ELSE IF \E e \in Experts : InSlab(m, e, i) THEN Blank ELSE grouped[r][i]]
    BY DEF Resorted, ExpertBase, ExpertRows, SourcePrefix, SourceBase, OfSource, InSlab, BaseIn,
           RowsIn, PrefixIn
  <1> HIDE DEF m
  <1>4. ASSUME NEW e \in Experts, NEW s \in Ranks, NEW i \in Int, OfSource(m, e, s, i)
        PROVE  of(i) = <<e, s>>
    <2>1. \A c \in Experts \X Ranks : OfSource(m, c[1], c[2], i) => c = <<e, s>>
      <3> SUFFICES ASSUME NEW c \in Experts \X Ranks, OfSource(m, c[1], c[2], i)
                   PROVE  c = <<e, s>>
        OBVIOUS
      <3>1. c[1] \in Experts /\ c[2] \in Ranks /\ c = <<c[1], c[2]>>
        OBVIOUS
      <3>2. InSlab(m, c[1], i) /\ InSlab(m, e, i)
        BY <1>1, <1>4, <3>1, SourceIn
      <3>3. c[1] = e
        BY <1>1, <3>1, <3>2, SlabUnique
      <3>4. c[2] = s
        BY <1>1, <1>4, <3>1, <3>3, SourceIn
      <3> QED
        BY <3>1, <3>3, <3>4
    <2>2. <<e, s>> \in Experts \X Ranks /\ OfSource(m, <<e, s>>[1], <<e, s>>[2], i)
      BY <1>4
    <2> QED
      BY <2>1, <2>2
  <1>5. ASSUME NEW e \in Experts, NEW s \in Ranks, NEW j \in 0 .. SizeOf(b, s, r * Local + e) - 1,
               NEW i \in GroupedRows, i \in Int, OfSource(m, e, s, i),
               i - BaseIn(m, e) - PrefixIn(m, s, e) = j
        PROVE  w[i] = Row(ItemOf(b, s, r * Local + e, j), -1)
    <2>1. of(i) = <<e, s>>
      BY <1>4, <1>5
    <2>2. at(<<e, s>>, i) = s * PeerCap + LaneRow(b, s, r, e) + j
      <3>1. Sum(m[s], e) = LaneRow(b, s, r, e)
        BY <1>1, LaneFacts
      <3> QED
        BY <1>5, <3>1
    <2>3. \E c \in Experts \X Ranks : OfSource(m, c[1], c[2], i)
      <3>1. <<e, s>> \in Experts \X Ranks /\ OfSource(m, <<e, s>>[1], <<e, s>>[2], i)
        BY <1>5
      <3> QED
        BY <3>1
    <2> HIDE DEF of, at, w
    <2>4. w[i] = Row(xTarget[r][at(<<e, s>>, i)], -1)
      BY <1>3, <2>1, <2>3
    <2>5. xTarget[r][s * PeerCap + LaneRow(b, s, r, e) + j] = ItemOf(b, s, r * Local + e, j)
      BY DEF LaneHolds
    <2> QED
      BY <2>2, <2>4, <2>5
  <1>6. SlabsHold(w, m, b, r, FALSE)
    <2>1. ASSUME NEW e \in Experts, NEW s \in Ranks, NEW j \in 0 .. SizeOf(b, s, r * Local + e) - 1
          PROVE  w[BaseIn(m, e) + PrefixIn(m, s, e) + j] = Row(ItemOf(b, s, r * Local + e, j), -1)
      <3> DEFINE i == BaseIn(m, e) + PrefixIn(m, s, e) + j
      <3>1. j \in 0 .. m[s][e] - 1
        BY <1>2
      <3>2. i = BaseIn(m, e) + PrefixIn(m, s, e) + j
        OBVIOUS
      <3> HIDE DEF i, w
      <3>3. /\ i \in GroupedRows /\ i \in Int /\ OfSource(m, e, s, i)
            /\ i - BaseIn(m, e) - PrefixIn(m, s, e) = j
        BY <1>1, <3>1, <3>2, SlabRow
      <3>4. w[i] = Row(ItemOf(b, s, r * Local + e, j), -1)
        BY <1>5, <3>3
      <3> QED
        BY <3>4 DEF i
    <2> HIDE DEF w
    <2> QED
      BY <2>1 DEF SlabsHold
  <1>7. PadsHold(w, m)
    <2>1. ASSUME NEW e \in Experts, NEW j \in RowsIn(m, e) .. CeilTo(RowsIn(m, e), RecvTile) - 1
          PROVE  w[BaseIn(m, e) + j] = Blank
      <3> DEFINE i == BaseIn(m, e) + j
      <3>1. i = BaseIn(m, e) + j
        OBVIOUS
      <3> HIDE DEF i, w
      <3>2. i \in GroupedRows /\ i \in Int /\ InSlab(m, e, i) /\ i - BaseIn(m, e) = j
        BY <1>1, <3>1, PadRow
      <3>3. ~ \E c \in Experts \X Ranks : OfSource(m, c[1], c[2], i)
        <4> SUFFICES ASSUME NEW c \in Experts \X Ranks, OfSource(m, c[1], c[2], i)
                     PROVE  FALSE
          OBVIOUS
        <4>1. c[1] \in Experts /\ c[2] \in Ranks
          OBVIOUS
        <4>2. InSlab(m, c[1], i) /\ i - BaseIn(m, c[1]) \in 0 .. RowsIn(m, c[1]) - 1
          BY <1>1, <3>2, <4>1, SourceIn
        <4>3. c[1] = e
          BY <1>1, <3>2, <4>1, <4>2, SlabUnique
        <4>4. RowsIn(m, e) \in Nat
          BY <1>1, SlabsApart
        <4> QED
          BY <3>2, <4>2, <4>3, <4>4
      <3>4. w[i] = Blank
        BY <1>3, <3>2, <3>3
      <3> QED
        BY <3>4 DEF i
    <2> HIDE DEF w
    <2> QED
      BY <2>1 DEF PadsHold
  <1>8. w \in [GroupedRows -> Rows]
    <2>1. ASSUME NEW i \in GroupedRows
          PROVE  w[i] \in Rows
      <3>1. i \in Int
        BY DEF GroupedRows
      <3>2. CASE \E c \in Experts \X Ranks : OfSource(m, c[1], c[2], i)
        <4>1. PICK c \in Experts \X Ranks : OfSource(m, c[1], c[2], i)
          BY <3>2
        <4> DEFINE e == c[1]
                   s == c[2]
                   j == i - BaseIn(m, e) - PrefixIn(m, s, e)
        <4>2. e \in Experts /\ s \in Ranks /\ OfSource(m, e, s, i)
          BY <4>1
        <4>3. j \in 0 .. SizeOf(b, s, r * Local + e) - 1
          BY <1>2, <4>2 DEF OfSource
        <4> HIDE DEF w, e, s
        <4>4. w[i] = Row(ItemOf(b, s, r * Local + e, j), -1)
          BY <1>5, <3>1, <4>2, <4>3
        <4> HIDE DEF j
        <4>5. ItemOf(b, s, r * Local + e, j) \in RouteItems
          BY <4>2, <4>3, NthType
        <4> QED
          BY <4>4, <4>5, BlankType
      <3>3. CASE ~ \E c \in Experts \X Ranks : OfSource(m, c[1], c[2], i)
        <4>1. w[i] = IF \E e \in Experts : InSlab(m, e, i) THEN Blank ELSE grouped[r][i]
          BY <1>3, <3>3
        <4> HIDE DEF w
        <4> QED
          BY <4>1, BlankType
      <3> QED
        BY <3>2, <3>3
    <2>2. w = [i \in GroupedRows |-> w[i]]
      <3> HIDE DEF of, at
      <3> QED
        BY <1>3
    <2> HIDE DEF w
    <2> QED
      BY <2>1, <2>2
  <1> QED
    BY <1>6, <1>7, <1>8 DEF m

InRows(m, e, i) == InSlab(m, e, i) /\ i - BaseIn(m, e) < RowsIn(m, e)

\* Every row of an expert runs on that expert, whatever tiles it is cut into.
LEMMA ComputedIs ==
    ASSUME Sizes, NEW r \in Ranks, NEW b, Fits(b),
           counts[r] = [s \in Ranks |-> CountsOf(b, s, r)],
           SlabsHold(grouped[r], counts[r], b, r, FALSE),
           grouped[r] \in [GroupedRows -> Rows]
    PROVE  /\ Computed(r) \in [GroupedRows -> Rows]
           /\ SlabsHold(Computed(r), counts[r], b, r, TRUE)
  <1> DEFINE m == counts[r]
             w == Computed(r)
             hit(e, i) == \E t \in Tiles(RowsIn(m, e)) : i - BaseIn(m, e) \in t[1] .. t[1] + t[2] - 1
             valid(e, i) == hit(e, i) /\ i - BaseIn(m, e) < RowsIn(m, e)
             one(e, i) == valid(e, i) /\ \A f \in Experts \ {e} : ~ hit(f, i)
             of(i) == CHOOSE e \in Experts : valid(e, i)
  <1>1. CountsFit(m) /\ \A s \in Ranks : m[s] = CountsOf(b, s, r)
    BY CountsAllFit
  <1>2. \A s \in Ranks, e \in Experts : m[s][e] = SizeOf(b, s, r * Local + e)
    BY <1>1 DEF CountsOf
  <1>3. w = [i \in GroupedRows |->
               IF \E e \in Experts : one(e, i)
               THEN Row(grouped[r][i].route, r * Local + of(i)) ELSE Blank]
    BY DEF Computed, ExpertBase, ExpertRows, BaseIn, RowsIn
  <1> HIDE DEF m
  <1>4. ASSUME NEW e \in Experts, NEW i \in Int
        PROVE  hit(e, i) <=> InSlab(m, e, i)
    <2> DEFINE n == RowsIn(m, e)
               p == i - BaseIn(m, e)
    <2>1. n \in Nat /\ p \in Int
      BY <1>1, SlabsApart
    <2>2. hit(e, i) <=> Covered(Tiles(n), p)
      BY DEF Covered, Covers
    <2>3. InSlab(m, e, i) <=> p \in 0 .. CeilTo(n, RecvTile) - 1
      BY DEF InSlab
    <2> HIDE DEF n, p
    <2>4. Covered(Tiles(n), p) <=> p \in 0 .. CeilTo(n, RecvTile) - 1
      BY <2>1, TilesCover
    <2> QED
      BY <2>2, <2>3, <2>4
  <1>5. \A e \in Experts, i \in Int : valid(e, i) <=> InRows(m, e, i)
    BY <1>4 DEF InRows
  <1> HIDE DEF hit, valid
  <1>6. ASSUME NEW e \in Experts, NEW i \in Int, valid(e, i)
        PROVE  one(e, i) /\ of(i) = e
    <2>1. \A f \in Experts : InSlab(m, f, i) => f = e
      BY <1>1, <1>5, <1>6, SlabUnique DEF InRows
    <2>2. \A f \in Experts : valid(f, i) => f = e
      BY <1>5, <2>1 DEF InRows
    <2>3. \A f \in Experts \ {e} : ~ hit(f, i)
      BY <1>4, <2>1
    <2> QED
      BY <1>6, <2>2, <2>3
  <1>7. SlabsHold(w, m, b, r, TRUE)
    <2>1. ASSUME NEW e \in Experts, NEW s \in Ranks, NEW j \in 0 .. SizeOf(b, s, r * Local + e) - 1
          PROVE  w[BaseIn(m, e) + PrefixIn(m, s, e) + j]
                   = Row(ItemOf(b, s, r * Local + e, j), r * Local + e)
      <3> DEFINE i == BaseIn(m, e) + PrefixIn(m, s, e) + j
      <3>1. j \in 0 .. m[s][e] - 1
        BY <1>2
      <3>2. i = BaseIn(m, e) + PrefixIn(m, s, e) + j
        OBVIOUS
      <3>3. grouped[r][i] = Row(ItemOf(b, s, r * Local + e, j), -1)
        BY DEF SlabsHold, m
      <3> HIDE DEF i, w
      <3>4. i \in GroupedRows /\ i \in Int /\ OfSource(m, e, s, i)
        BY <1>1, <3>1, <3>2, SlabRow
      <3>5. InSlab(m, e, i) /\ i - BaseIn(m, e) \in 0 .. RowsIn(m, e) - 1 /\ RowsIn(m, e) \in Nat
        BY <1>1, <3>4, SourceIn, SlabsApart
      <3>6. valid(e, i)
        <4>1. InRows(m, e, i)
          BY <3>5 DEF InRows
        <4> QED
          BY <1>5, <3>4, <4>1
      <3>7. one(e, i) /\ of(i) = e
        BY <1>6, <3>4, <3>6
      <3> HIDE DEF one, of
      <3>8. w[i] = Row(grouped[r][i].route, r * Local + e)
        BY <1>3, <3>4, <3>7
      <3>9. grouped[r][i].route = ItemOf(b, s, r * Local + e, j)
        BY <3>3 DEF Row
      <3> QED
        BY <3>8, <3>9 DEF i
    <2> HIDE DEF w
    <2> QED
      BY <2>1 DEF SlabsHold
  <1>8. w \in [GroupedRows -> Rows]
    <2>1. ASSUME NEW i \in GroupedRows
          PROVE  w[i] \in Rows
      <3>1. i \in Int
        BY DEF GroupedRows
      <3>2. CASE \E e \in Experts : one(e, i)
        <4>1. PICK e \in Experts : one(e, i)
          BY <3>2
        <4>2. of(i) = e
          BY <1>6, <3>1, <4>1
        <4>3. grouped[r][i].route \in RouteItems
          BY BlankType
        <4>4. r * Local + e \in Globals
          BY ExpertSplit
        <4> HIDE DEF one, of, w
        <4>5. w[i] = Row(grouped[r][i].route, r * Local + e)
          BY <1>3, <3>2, <4>2
        <4> QED
          BY <4>3, <4>4, <4>5, BlankType
      <3>3. CASE ~ \E e \in Experts : one(e, i)
        <4> HIDE DEF w, one
        <4> QED
          BY <1>3, <3>3, BlankType
      <3> QED
        BY <3>2, <3>3
    <2>2. w = [i \in GroupedRows |-> w[i]]
      <3> HIDE DEF of, one
      <3> QED
        BY <1>3
    <2> HIDE DEF w
    <2> QED
      BY <2>1, <2>2
  <1> QED
    BY <1>7, <1>8 DEF m

\* What a rank returns fills its own lane with the results and leaves the rest.
LEMMA ReturnedIs ==
    ASSUME Sizes, NEW r \in Ranks, NEW d \in Ranks, NEW b, Fits(b),
           counts[r] = [s \in Ranks |-> CountsOf(b, s, r)],
           SlabsHold(grouped[r], counts[r], b, r, TRUE),
           grouped[r] \in [GroupedRows -> Rows],
           NEW before \in [WindowRows -> Rows]
    PROVE  /\ Returned(r, d, before) \in [WindowRows -> Rows]
           /\ BackHolds(Returned(r, d, before), b, d, r)
           /\ \A i \in WindowRows :
                i - r * PeerCap \notin 0 .. PeerCap - 1 => Returned(r, d, before)[i] = before[i]
  <1> DEFINE m == counts[r]
             w == Returned(r, d, before)
             total == Sum(m[d], Local)
             n(e) == IF m[d][e] < total - Sum(m[d], e) THEN m[d][e] ELSE total - Sum(m[d], e)
             hit(i) == {e \in Experts : i - r * PeerCap - Sum(m[d], e) \in 0 .. n(e) - 1}
             mine(e, i) == i - r * PeerCap - Sum(m[d], e) \in 0 .. m[d][e] - 1
             back(e, i) == BaseIn(m, e) + PrefixIn(m, d, e) + i - r * PeerCap - Sum(m[d], e)
             of(i) == CHOOSE e \in hit(i) : TRUE
  <1>1. CountsFit(m) /\ \A s \in Ranks : m[s] = CountsOf(b, s, r)
    BY CountsAllFit
  <1>2. \A e \in Experts : m[d][e] = SizeOf(b, d, r * Local + e)
    BY <1>1 DEF CountsOf
  <1>3. DOMAIN before = WindowRows /\ \A i \in WindowRows : before[i] \in Rows
    OBVIOUS
  <1>4. w = [i \in WindowRows |->
               IF hit(i) = {} THEN before[i] ELSE grouped[r][back(of(i), i)]]
    BY <1>3 DEF Returned, ExpertBase, ExpertRows, BaseIn, RowsIn, SourceBase, SourcePrefix, PrefixIn
  <1>5. \A e \in Experts : /\ Sum(m[d], e) = LaneRow(b, d, r, e) /\ Sum(m[d], e) \in Nat
                           /\ m[d][e] \in Nat /\ total \in 0 .. PeerCap
                           /\ Sum(m[d], e) + m[d][e] <= total
                           /\ \A f \in Experts : e < f => Sum(m[d], e) + m[d][e] <= Sum(m[d], f)
    BY <1>1, <1>2, LaneFacts
  <1>6. PeerCap \in Nat /\ r * PeerCap \in Nat
    BY SizeFacts, LaneInWindow
  <1> HIDE DEF m, total
  <1>7. ASSUME NEW e \in Experts
        PROVE  n(e) = m[d][e]
    <2>1. /\ Sum(m[d], e) \in Nat /\ m[d][e] \in Nat /\ total \in Nat
          /\ Sum(m[d], e) + m[d][e] <= total
      BY <1>5, <1>6
    <2> QED
      BY <2>1
  <1>8. \A i : hit(i) = {e \in Experts : mine(e, i)}
    BY <1>7
  <1> HIDE DEF hit, n
  <1>9. ASSUME NEW e \in Experts, NEW i \in WindowRows, mine(e, i)
        PROVE  hit(i) = {e} /\ of(i) = e
    <2>1. i \in Int
      BY DEF WindowRows
    <2>2. ASSUME NEW f \in Experts, mine(f, i)
          PROVE  f = e
      <3> DEFINE x == r * PeerCap
      <3>1. x \in Nat /\ e \in Nat /\ f \in Nat
        BY <1>6, SizeFacts DEF Experts
      <3>2. i - x - Sum(m[d], e) \in 0 .. m[d][e] - 1 /\ i - x - Sum(m[d], f) \in 0 .. m[d][f] - 1
        BY <1>9, <2>2
      <3> HIDE DEF x
      <3>3. ~ (e < f)
        BY <1>5, <2>1, <3>1, <3>2
      <3>4. ~ (f < e)
        BY <1>5, <2>1, <3>1, <3>2
      <3> QED
        BY <3>1, <3>3, <3>4
    <2> HIDE DEF mine
    <2>3. hit(i) = {e}
      BY <1>8, <1>9, <2>2
    <2> QED
      BY <2>3
  <1>10. ASSUME NEW e \in Experts, NEW j \in 0 .. SizeOf(b, d, r * Local + e) - 1, NEW i \in WindowRows,
                i - r * PeerCap - Sum(m[d], e) = j
         PROVE  w[i] = Row(ItemOf(b, d, r * Local + e, j), r * Local + e)
    <2>1. mine(e, i)
      BY <1>2, <1>10
    <2>2. hit(i) = {e} /\ of(i) = e
      BY <1>9, <2>1
    <2>3. back(e, i) = BaseIn(m, e) + PrefixIn(m, d, e) + j
      <3> DEFINE x == r * PeerCap
                 u == BaseIn(m, e)
                 v == PrefixIn(m, d, e)
                 z == Sum(m[d], e)
      <3>1. x \in Nat /\ i \in Int /\ u \in Nat /\ v \in Nat /\ z \in Nat
        BY <1>1, <1>5, <1>6, SlabsApart, SlabRows DEF WindowRows
      <3>2. i - x - z = j /\ back(e, i) = u + v + i - x - z
        BY <1>10
      <3> HIDE DEF x, u, v, z, back
      <3>3. back(e, i) = u + v + j
        BY <3>1, <3>2
      <3> QED
        BY <3>3 DEF u, v
    <2> HIDE DEF of, back, w
    <2>4. w[i] = grouped[r][back(e, i)]
      BY <1>4, <2>2
    <2>5. grouped[r][BaseIn(m, e) + PrefixIn(m, d, e) + j]
            = Row(ItemOf(b, d, r * Local + e, j), r * Local + e)
      BY DEF SlabsHold, m
    <2> QED
      BY <2>3, <2>4, <2>5
  <1>11. BackHolds(w, b, d, r)
    <2>1. ASSUME NEW e \in Experts, NEW j \in 0 .. SizeOf(b, d, r * Local + e) - 1
          PROVE  w[r * PeerCap + LaneRow(b, d, r, e) + j]
                   = Row(ItemOf(b, d, r * Local + e, j), r * Local + e)
      <3> DEFINE k == LaneRow(b, d, r, e)
                 x == r * PeerCap
                 i == x + k + j
      <3>1. k = Sum(m[d], e) /\ k \in Nat /\ j \in Nat /\ x \in Nat /\ k + j \in 0 .. PeerCap - 1
        <4>1. k = Sum(m[d], e)
          BY <1>5
        <4>2. /\ Sum(m[d], e) \in Nat /\ m[d][e] \in Nat /\ total \in 0 .. PeerCap
              /\ Sum(m[d], e) + m[d][e] <= total /\ j \in 0 .. m[d][e] - 1
          BY <1>2, <1>5
        <4> HIDE DEF k, x
        <4> QED
          BY <1>6, <4>1, <4>2 DEF x
      <3>2. x + (k + j) \in WindowRows
        BY <3>1, LaneInWindow
      <3> HIDE DEF k, x, w
      <3>3. i = x + (k + j) /\ i - x - k = j
        BY <3>1
      <3>4. i \in WindowRows /\ i - r * PeerCap - Sum(m[d], e) = j
        BY <3>1, <3>2, <3>3 DEF x
      <3>5. w[i] = Row(ItemOf(b, d, r * Local + e, j), r * Local + e)
        <4> HIDE DEF i
        <4> QED
          BY <1>10, <3>4
      <3> QED
        BY <3>5 DEF k, x
    <2> HIDE DEF w
    <2> QED
      BY <2>1 DEF BackHolds
  <1>12. ASSUME NEW i \in WindowRows, i - r * PeerCap \notin 0 .. PeerCap - 1
         PROVE  w[i] = before[i]
    <2>1. \A e \in Experts : ~ mine(e, i)
      <3> TAKE e \in Experts
      <3> DEFINE x == r * PeerCap
      <3>1. i \in Int /\ x \in Nat /\ i - x \notin 0 .. PeerCap - 1
        BY <1>6, <1>12 DEF WindowRows
      <3>2. /\ Sum(m[d], e) \in Nat /\ m[d][e] \in Nat /\ total \in 0 .. PeerCap
            /\ Sum(m[d], e) + m[d][e] <= total
        BY <1>5
      <3> HIDE DEF x
      <3>3. ~ (i - x - Sum(m[d], e) \in 0 .. m[d][e] - 1)
        BY <1>6, <3>1, <3>2
      <3> QED
        BY <3>3 DEF x
    <2>2. hit(i) = {}
      <3> HIDE DEF mine
      <3> QED
        BY <1>8, <2>1
    <2> HIDE DEF w, of, back
    <2> QED
      BY <1>4, <2>2
  <1>13. w \in [WindowRows -> Rows]
    <2>1. ASSUME NEW i \in WindowRows
          PROVE  w[i] \in Rows
      <3>1. CASE hit(i) = {}
        <4> HIDE DEF w, of, back
        <4> QED
          BY <1>3, <1>4, <3>1
      <3>2. CASE hit(i) # {}
        <4>1. PICK e \in Experts : mine(e, i)
          BY <1>8, <3>2
        <4> DEFINE j == i - r * PeerCap - Sum(m[d], e)
        <4>2. j \in 0 .. SizeOf(b, d, r * Local + e) - 1
          BY <1>2, <4>1
        <4> HIDE DEF w
        <4>3. w[i] = Row(ItemOf(b, d, r * Local + e, j), r * Local + e)
          BY <1>10, <4>2
        <4> HIDE DEF j
        <4>4. ItemOf(b, d, r * Local + e, j) \in RouteItems
          BY <4>2, NthType
        <4> QED
          BY <4>3, <4>4, BlankType, ExpertSplit
      <3> QED
        BY <3>1, <3>2
    <2>2. w = [i \in WindowRows |-> w[i]]
      <3> HIDE DEF of, back
      <3> QED
        BY <1>4
    <2> HIDE DEF w
    <2> QED
      BY <2>1, <2>2
  <1> QED
    BY <1>11, <1>12, <1>13

\* The result of a route is where its source looks for it.
LEMMA FinalRow ==
    ASSUME Sizes, NEW r \in Ranks, NEW b, Fits(b), NEW y, \A p \in Ranks : BackHolds(y, b, r, p),
           NEW n, n = b.lengths[r], NEW t \in 0 .. n[1] + n[2] - 1, NEW k \in 1 .. TopK
    PROVE  y[PackedOf(b, r)[t * TopK + k - 1][2]]
             = Row([call |-> b.call, source |-> r, slot |-> SlotIn(n, t), k |-> k - 1],
                   b.gate[r][SlotIn(n, t)][k])
  <1> DEFINE c == b.gate[r]
             x == t * TopK + (k - 1)
             g == ExpertIn(n, c, x)
             d == g \div Local
             e == g % Local
             j == Rank(n, c, x)
  <1>1. Brings(n, c)
    BY DEF Fits
  <1>2. x \in RoutesIn(n) /\ x \div TopK = t /\ x % TopK = k - 1
    <2> DEFINE h == k - 1
    <2>1. h \in 0 .. TopK - 1
      BY SizeFacts
    <2> HIDE DEF h, c
    <2>2. t * TopK + h \in RoutesIn(n) /\ (t * TopK + h) \div TopK = t /\ (t * TopK + h) % TopK = h
      BY <1>1, <2>1, RouteOf
    <2> QED
      BY <2>2 DEF h
  <1>3. g = c[SlotIn(n, t)][k]
    <2>1. (k - 1) + 1 = k
      OBVIOUS
    <2> HIDE DEF x, c
    <2> QED
      BY <1>2, <2>1 DEF ExpertIn
  <1>4. /\ d \in Ranks /\ e \in Experts /\ g = d * Local + e
        /\ j \in 0 .. SizeOf(b, r, g) - 1 /\ x = Nth(n, c, g, j)
    <2> DEFINE z == x
    <2> HIDE DEF x, g
    <2>1. x \in RoutesIn(b.lengths[r]) /\ g = ExpertIn(b.lengths[r], b.gate[r], x)
      BY <1>2 DEF g
    <2> QED
      BY <2>1, RouteNth
  <1> HIDE DEF g, d, e, j
  <1>5. BackIn(n, c, x) = d * PeerCap + LaneRow(b, r, d, e) + j
    <2> HIDE DEF x
    <2>1. j \in 0 .. SizeOf(b, r, d * Local + e) - 1 /\ x = Nth(b.lengths[r], b.gate[r], d * Local + e, j)
      BY <1>4
    <2>2. BackIn(b.lengths[r], b.gate[r], x) = d * PeerCap + LaneRow(b, r, d, e) + j
      BY <1>4, <2>1, NthRow
    <2> QED
      BY <2>2
  <1>6. PackedOf(b, r)[x][2] = BackIn(n, c, x)
    <2> HIDE DEF x
    <2> QED
      BY <1>2 DEF PackedOf
  <1>7. y[d * PeerCap + LaneRow(b, r, d, e) + j] = Row(ItemOf(b, r, g, j), g)
    BY <1>4 DEF BackHolds
  <1>8. ItemOf(b, r, g, j) = [call |-> b.call, source |-> r, slot |-> SlotIn(n, t), k |-> k - 1]
    <2>1. ItemOf(b, r, g, j)
            = [call |-> b.call, source |-> r, slot |-> SlotIn(n, x \div TopK), k |-> x % TopK]
      <3> HIDE DEF x
      <3> QED
        BY <1>4 DEF ItemOf
    <2> HIDE DEF x
    <2> QED
      BY <1>2, <2>1
  <1>9. x = t * TopK + k - 1
    OBVIOUS
  <1> HIDE DEF x
  <1> QED
    BY <1>3, <1>5, <1>6, <1>7, <1>8, <1>9

\* What Finalize sums.
Summed(r) ==
    [i \in Tokens |->
        LET ts == {t \in 0 .. Active(r) - 1 : SlotOf(r, t) = i}
        IN  IF ts = {} THEN <<>>
            ELSE LET t == CHOOSE t \in ts : TRUE
                 IN  [k \in 1 .. TopK |->
                        reverseTarget[r][packed[r][t * TopK + k - 1][2]]]]

\* Every token sums the results of its own routes.
LEMMA SummedIs ==
    ASSUME Sizes, NEW r \in Ranks, NEW b, b = Current(r), Fits(b), packed[r] = PackedOf(b, r),
           \A p \in Ranks : BackHolds(reverseTarget[r], b, r, p)
    PROVE  /\ DOMAIN Summed(r) = Tokens
           /\ \A i \in Tokens :
                /\ Summed(r)[i] =
                     IF ~ Live(b.lengths[r], i) THEN <<>>
                     ELSE [k \in 1 .. TopK |->
                             Row([call |-> b.call, source |-> r, slot |-> i, k |-> k - 1],
                                 b.gate[r][i][k])]
                /\ Summed(r)[i] \in Seq(Rows)
  <1> DEFINE n == b.lengths[r]
             c == b.gate[r]
             ts(i) == {t \in 0 .. n[1] + n[2] - 1 : SlotIn(n, t) = i}
             y == reverseTarget[r]
             item(i, k) == [call |-> b.call, source |-> r, slot |-> i, k |-> k - 1]
  <1>1. Brings(n, c)
    BY DEF Fits
  <1>2. Active(r) = n[1] + n[2] /\ \A t : SlotOf(r, t) = SlotIn(n, t)
    BY RoutesAre DEF MyLens, Active, Lengths, Current, Batch
  <1>3. \A i \in Tokens : Summed(r)[i] =
          IF ts(i) = {} THEN <<>>
          ELSE [k \in 1 .. TopK |-> y[PackedOf(b, r)[(CHOOSE t \in ts(i) : TRUE) * TopK + k - 1][2]]]
    <2> TAKE i \in Tokens
    <2> DEFINE us == {t \in 0 .. Active(r) - 1 : SlotOf(r, t) = i}
    <2>1. us = ts(i)
      <3>1. n[1] \in Nat /\ n[2] \in Nat
        BY <1>1, LengthFacts
      <3> HIDE DEF n
      <3>2. Active(r) - 1 = n[1] + n[2] - 1
        BY <1>2, <3>1
      <3> QED
        BY <1>2, <3>2
    <2>2. Summed(r)[i] =
            IF us = {} THEN <<>>
            ELSE [k \in 1 .. TopK |-> y[packed[r][(CHOOSE t \in us : TRUE) * TopK + k - 1][2]]]
      BY DEF Summed
    <2> HIDE DEF us, ts, y
    <2> QED
      BY <2>1, <2>2
  <1>4. DOMAIN Summed(r) = Tokens
    BY DEF Summed
  <1>5. ASSUME NEW i \in Tokens
        PROVE  Live(n, i) <=> ts(i) # {}
    BY <1>1, LiveSlots
  <1>6. ASSUME NEW i \in Tokens, Live(n, i)
        PROVE  Summed(r)[i] = [k \in 1 .. TopK |-> Row(item(i, k), c[i][k])]
    <2> DEFINE t == CHOOSE t \in ts(i) : TRUE
    <2>1. t \in 0 .. n[1] + n[2] - 1 /\ SlotIn(n, t) = i
      BY <1>5, <1>6
    <2>2. Summed(r)[i] = [k \in 1 .. TopK |-> y[PackedOf(b, r)[t * TopK + k - 1][2]]]
      BY <1>3, <1>5, <1>6
    <2> HIDE DEF t
    <2>3. \A k \in 1 .. TopK : y[PackedOf(b, r)[t * TopK + k - 1][2]] = Row(item(i, k), c[i][k])
      <3> TAKE k \in 1 .. TopK
      <3>1. y[PackedOf(b, r)[t * TopK + k - 1][2]]
              = Row([call |-> b.call, source |-> r, slot |-> SlotIn(n, t), k |-> k - 1],
                    b.gate[r][SlotIn(n, t)][k])
        BY <2>1, FinalRow
      <3> QED
        BY <2>1, <3>1
    <2> HIDE DEF y, item, c
    <2> QED
      BY <2>2, <2>3
  <1>7. ASSUME NEW i \in Tokens
        PROVE  Summed(r)[i] \in Seq(Rows)
    <2>1. CASE Live(n, i)
      <3>1. \A k \in 1 .. TopK : Row(item(i, k), c[i][k]) \in Rows
        <4> TAKE k \in 1 .. TopK
        <4>1. c[i][k] \in Globals
          BY <1>1 DEF Brings
        <4>2. item(i, k) \in RouteItems
          <5>1. b.call \in -1 .. Requests * Layers + Layers
            <6> DEFINE z == Requests * Layers + Layers
            <6>1. z \in Nat /\ b.call \in 0 .. z
              BY SizeFacts DEF Fits
            <6> HIDE DEF z
            <6>2. b.call \in -1 .. z
              BY <6>1
            <6> QED
              BY <6>2 DEF z
          <5>2. k - 1 \in -1 .. TopK - 1
            BY SizeFacts
          <5> QED
            BY <5>1, <5>2 DEF RouteItems
        <4> HIDE DEF item, c
        <4> QED
          BY <4>1, <4>2, BlankType
      <3>2. TopK \in Nat
        BY SizeFacts
      <3> HIDE DEF item, c
      <3> DEFINE f == [k \in 1 .. TopK |-> Row(item(i, k), c[i][k])]
      <3>3. f \in [1 .. TopK -> Rows]
        BY <3>1
      <3> HIDE DEF f
      <3>4. f \in Seq(Rows)
        BY <3>2, <3>3
      <3> QED
        BY <1>6, <2>1, <3>4 DEF f
    <2>2. CASE ~ Live(n, i)
      <3>1. Summed(r)[i] = <<>>
        BY <1>3, <1>5, <2>2
      <3> QED
        BY <3>1
    <2> QED
      BY <2>1, <2>2
  <1> QED
    BY <1>3, <1>4, <1>5, <1>6, <1>7

Stages == {"pack", "count", "payload", "experts", "reverse", "complete", "arrive", "stopped"}

\* The part of TypeOK that the control needs.
ControlType ==
    /\ request \in [Ranks -> 0 .. Requests] /\ waiting \in [Ranks -> BOOLEAN]
    /\ layer \in [Ranks -> 1 .. Layers] /\ stage \in [Ranks -> Stages]
    /\ counted \in [Ranks -> 0 .. EP]
    /\ sent \in [Ranks -> SUBSET Ranks] /\ told \in [Ranks -> SUBSET Ranks]
    /\ countSignal \in [Ranks -> [Ranks -> 0 .. Layers]]
    /\ xSignal \in [Ranks -> [Ranks -> 0 .. Layers]]
    /\ reverseSignal \in [Ranks -> [Ranks -> 0 .. Layers]]

LEMMA OutFacts ==
    ASSUME Sizes, ControlType, NEW p \in Ranks, NEW r \in Ranks
    PROVE  /\ layer[p] \in Nat /\ 1 <= layer[p] /\ layer[p] <= Layers
           /\ CountsOut(p, r) = layer[p] \/ CountsOut(p, r) = layer[p] - 1
           /\ PayloadsOut(p, r) = layer[p] \/ PayloadsOut(p, r) = layer[p] - 1
           /\ ReturnsOut(p, r) = layer[p] \/ ReturnsOut(p, r) = layer[p] - 1
           /\ LayersDone(p) = layer[p] \/ LayersDone(p) = layer[p] - 1
           /\ CountsOut(p, r) \in 0 .. Layers /\ PayloadsOut(p, r) \in 0 .. Layers
           /\ ReturnsOut(p, r) \in 0 .. Layers /\ LayersDone(p) \in 0 .. Layers
  <1>1. layer[p] \in Nat /\ 1 <= layer[p] /\ layer[p] <= Layers /\ Layers \in Nat
    BY SizeFacts DEF ControlType
  <1>2. /\ CountsOut(p, r) = layer[p] \/ CountsOut(p, r) = layer[p] - 1
        /\ PayloadsOut(p, r) = layer[p] \/ PayloadsOut(p, r) = layer[p] - 1
        /\ ReturnsOut(p, r) = layer[p] \/ ReturnsOut(p, r) = layer[p] - 1
        /\ LayersDone(p) = layer[p] \/ LayersDone(p) = layer[p] - 1
    BY DEF CountsOut, PayloadsOut, ReturnsOut, LayersDone, Reached
  <1> QED
    BY <1>1, <1>2

LEMMA OutValues ==
    ASSUME NEW p, NEW r
    PROVE  /\ stage[p] \in AfterReverse => LayersDone(p) = layer[p] /\ ReturnsOut(p, r) = layer[p]
           /\ stage[p] \notin AfterReverse => LayersDone(p) = layer[p] - 1
           /\ stage[p] \in {"pack", "count", "payload", "experts", "stopped"} => ReturnsOut(p, r) = layer[p] - 1
           /\ stage[p] = "reverse" /\ r \notin told[p] => ReturnsOut(p, r) = layer[p] - 1
           /\ stage[p] = "payload" /\ r \notin told[p] => PayloadsOut(p, r) = layer[p] - 1
           /\ stage[p] \in {"pack", "stopped"} => CountsOut(p, r) = layer[p] - 1
           /\ stage[p] = "count" /\ ~ (counted[p] > r) => CountsOut(p, r) = layer[p] - 1
  BY DEF AfterReverse, LayersDone, ReturnsOut, PayloadsOut, CountsOut, Reached, ReverseSent,
         PayloadSent, CountSent, AfterPayload, AfterCount

LEMMA ControlValues ==
    ASSUME Sizes, ControlType, NEW p \in Ranks
    PROVE  /\ request[p] \in Nat /\ request[p] <= Requests /\ waiting[p] \in BOOLEAN
           /\ layer[p] \in Nat /\ 1 <= layer[p] /\ layer[p] <= Layers
           /\ stage[p] \in Stages /\ counted[p] \in Nat /\ counted[p] <= EP
           /\ sent[p] \subseteq Ranks /\ told[p] \subseteq Ranks
           /\ p \in Nat /\ p < EP
  <1>1. EP \in Nat /\ Layers \in Nat /\ Requests \in Nat
    BY SizeFacts
  <1>2. request[p] \in Nat /\ request[p] <= Requests
    BY <1>1 DEF ControlType
  <1>3. layer[p] \in Nat /\ 1 <= layer[p] /\ layer[p] <= Layers
    BY <1>1 DEF ControlType
  <1>4. counted[p] \in Nat /\ counted[p] <= EP
    BY <1>1 DEF ControlType
  <1>5. waiting[p] \in BOOLEAN /\ stage[p] \in Stages /\ sent[p] \subseteq Ranks /\ told[p] \subseteq Ranks
    BY DEF ControlType
  <1> QED
    BY <1>1, <1>2, <1>3, <1>4, <1>5 DEF Ranks

LEMMA NotYetCleared ==
    ASSUME Sizes, ControlType, ControlOK, NEW q \in Ranks, NEW p \in Ranks, p # q,
           stage[p] \in {"count", "payload"} \/ (stage[p] = "reverse" /\ q \notin told[p])
    PROVE  ~ Cleared(q, p)
  <1>1. Close(q, p) /\ PlaceOK(q) /\ PlaceOK(p)
    BY DEF ControlOK
  <1>2. ReturnsOut(p, q) = layer[p] - 1
    BY OutValues
  <1>3. layer[p] \in Nat /\ layer[p] <= Layers /\ Layers \in Nat
    BY ControlValues, SizeFacts
  <1>4. stage[q] = "arrive" => LayersDone(q) = Layers
    BY <1>1, OutValues DEF PlaceOK, AfterReverse
  <1>5. ~ (request[p] < request[q])
    BY <1>1 DEF Close, PlaceOK
  <1>6. ~ (request[p] = request[q] /\ stage[q] = "arrive")
    <2>1. request[p] = request[q] /\ stage[q] = "arrive" => layer[p] - 1 >= Layers
      BY <1>1, <1>2, <1>4 DEF Close
    <2> QED
      BY <1>3, <2>1
  <1> QED
    BY <1>5, <1>6 DEF Cleared

LEMMA PackControl ==
    ASSUME Sizes, ControlType, ControlOK, NEW r \in Ranks, Pack(r)
    PROVE  ControlType' /\ ControlOK'
  <1>1. EP \in Nat \ {0} /\ Layers \in Nat \ {0} /\ Requests \in Nat /\ Ranks = 0 .. EP - 1
    BY SizeFacts DEF Ranks
  <1>2. stage[r] = "pack"
    BY DEF Pack
  <1>3. \A q \in Ranks : stage'[q] = IF q = r THEN "count" ELSE stage[q]
    BY DEF Pack, ControlType
  <1>4. UNCHANGED <<request, waiting, layer, counted, sent, told, countSignal, xSignal, reverseSignal>>
    BY DEF Pack, progress, signals
  <1>5. ASSUME NEW q \in Ranks
        PROVE  PlaceOK(q)'
    <2>1. PlaceOK(q) /\ PlaceOK(r)
      BY DEF ControlOK
    <2>2. request[q] \in 0 .. Requests /\ layer[q] \in 1 .. Layers /\ counted[q] \in 0 .. EP
          /\ sent[q] \subseteq Ranks /\ told[q] \subseteq Ranks
      BY DEF ControlType
    <2> QED
      BY <1>1, <1>2, <1>3, <1>4, <2>1, <2>2 DEF PlaceOK, Peers
  <1>6. ASSUME NEW p \in Ranks, NEW q \in Ranks, p # q
        PROVE  /\ CountsOut(p, q)' = CountsOut(p, q)
               /\ PayloadsOut(p, q)' = PayloadsOut(p, q)
               /\ ReturnsOut(p, q)' = ReturnsOut(p, q)
               /\ LayersDone(p)' = LayersDone(p)
    <2>1. PlaceOK(p) /\ layer[p] \in Nat /\ q \in Nat /\ counted[r] \in Nat
      <3>1. PlaceOK(p)
        BY DEF ControlOK
      <3>2. layer[p] \in Nat /\ counted[r] \in Nat
        BY ControlValues
      <3> QED
        BY <1>1, <3>1, <3>2
    <2>2. CountsOut(p, q)' = CountsOut(p, q)
      BY <1>1, <1>2, <1>3, <1>4, <1>6, <2>1 DEF PlaceOK, CountsOut, CountSent, Reached, AfterCount,
         AfterPayload, AfterReverse
    <2>3. PayloadsOut(p, q)' = PayloadsOut(p, q)
      BY <1>1, <1>2, <1>3, <1>4, <1>6, <2>1 DEF PlaceOK, PayloadsOut, PayloadSent, Reached,
         AfterCount, AfterPayload, AfterReverse
    <2>4. ReturnsOut(p, q)' = ReturnsOut(p, q)
      BY <1>1, <1>2, <1>3, <1>4, <1>6, <2>1 DEF PlaceOK, ReturnsOut, ReverseSent, Reached,
         AfterCount, AfterPayload, AfterReverse
    <2>5. LayersDone(p)' = LayersDone(p)
      BY <1>1, <1>2, <1>3, <1>4, <1>6, <2>1 DEF PlaceOK, LayersDone, Reached, AfterCount,
         AfterPayload, AfterReverse
    <2> QED
      BY <2>2, <2>3, <2>4, <2>5
  <1>7. ASSUME NEW q \in Ranks, NEW p \in Ranks, p # q
        PROVE  Close(q, p)' /\ CountersOK(q, p)'
    <2>1. Close(q, p) /\ Close(p, q) /\ PlaceOK(q) /\ PlaceOK(p) /\ CountersOK(q, p)
      BY <1>7 DEF ControlOK
    <2>2. /\ CountsOut(p, q)' = CountsOut(p, q)
          /\ PayloadsOut(p, q)' = PayloadsOut(p, q)
          /\ ReturnsOut(p, q)' = ReturnsOut(p, q)
      BY <1>6, <1>7
    <2>3. LayersDone(q)' = LayersDone(q)
      BY <1>6, <1>7
    <2>4. /\ layer[q] \in 1 .. Layers /\ layer[p] \in 1 .. Layers
          /\ CountsOut(p, q) \in 0 .. Layers /\ PayloadsOut(p, q) \in 0 .. Layers
          /\ ReturnsOut(p, q) \in 0 .. Layers /\ LayersDone(q) \in 0 .. Layers
          /\ request[q] \in 0 .. Requests /\ request[p] \in 0 .. Requests
          /\ stage[q] \in Stages /\ stage[p] \in Stages
      BY OutFacts DEF ControlType
    <2>8. /\ stage[q] \in AfterReverse => LayersDone(q) = layer[q]
          /\ stage[q] \notin AfterReverse => LayersDone(q) = layer[q] - 1
          /\ stage[p] \in {"pack", "count", "payload", "experts", "stopped"} => ReturnsOut(p, q) = layer[p] - 1
          /\ stage[p] = "reverse" /\ q \notin told[p] => ReturnsOut(p, q) = layer[p] - 1
      BY OutValues
    <2>5. Close(q, p)'
      BY <1>1, <1>2, <1>3, <1>4, <1>7, <2>1, <2>2, <2>3, <2>4, <2>8 DEF PlaceOK, CountersOK,
         Cleared, Close, AfterCount, AfterPayload, AfterReverse, Stages
    <2>6. CountersOK(q, p)'
      BY <1>1, <1>2, <1>3, <1>4, <1>7, <2>1, <2>2, <2>4, <2>8 DEF PlaceOK, CountersOK, Cleared,
         Close, AfterCount, AfterPayload, AfterReverse, Stages
    <2> QED
      BY <2>5, <2>6
  <1>8. ControlOK'
    <2>1. \A q \in Ranks : Close(q, q)'
      <3>1. \A q \in Ranks : request'[q] \in Int
        BY <1>1, <1>2, <1>3, <1>4, ControlValues
      <3> QED
        BY <3>1 DEF Close
    <2> QED
      BY <1>5, <1>7, <2>1 DEF ControlOK
  <1>9. ControlType'
    <2>1. stage' \in [Ranks -> Stages]
      <3>1. "count" \in Stages
        BY <1>1, <1>2, ControlValues DEF Stages
      <3> QED
        BY <3>1 DEF Pack, ControlType
    <2> QED
      BY <1>1, <2>1, <1>4 DEF ControlType
  <1> QED
    BY <1>8, <1>9

LEMMA SendCountsControl ==
    ASSUME Sizes, ControlType, ControlOK, NEW r \in Ranks, SendCounts(r)
    PROVE  ControlType' /\ ControlOK'
  <1>1. EP \in Nat \ {0} /\ Layers \in Nat \ {0} /\ Requests \in Nat /\ Ranks = 0 .. EP - 1
    BY SizeFacts DEF Ranks
  <1>2. stage[r] = "count" /\ counted[r] < EP
    BY DEF SendCounts
  <1>3. \A q \in Ranks : counted'[q] = IF q = r THEN counted[r] + 1 ELSE counted[q]
    BY DEF SendCounts, ControlType
  <1>4. \A q, p \in Ranks : countSignal'[q][p] = IF q = counted[r] /\ p = r /\ q # r THEN countSignal[q][p] + 1 ELSE countSignal[q][p]
    BY <1>1, <1>2 DEF SendCounts, ControlType
  <1>5. UNCHANGED <<request, waiting, layer, stage, sent, told, xSignal, reverseSignal>>
    BY DEF SendCounts, progress, signals
  <1>6. ASSUME NEW q \in Ranks
        PROVE  PlaceOK(q)'
    <2>1. PlaceOK(q) /\ PlaceOK(r)
      BY DEF ControlOK
    <2>2. request[q] \in 0 .. Requests /\ layer[q] \in 1 .. Layers /\ counted[q] \in 0 .. EP
          /\ sent[q] \subseteq Ranks /\ told[q] \subseteq Ranks
      BY DEF ControlType
    <2> QED
      BY <1>1, <1>2, <1>3, <1>4, <1>5, <2>1, <2>2 DEF PlaceOK, Peers
  <1>7. ASSUME NEW p \in Ranks, NEW q \in Ranks, p # q
        PROVE  /\ CountsOut(p, q)' = IF p = r /\ q = counted[r] THEN CountsOut(p, q) + 1 ELSE CountsOut(p, q)
               /\ PayloadsOut(p, q)' = PayloadsOut(p, q)
               /\ ReturnsOut(p, q)' = ReturnsOut(p, q)
               /\ LayersDone(p)' = LayersDone(p)
    <2>1. PlaceOK(p) /\ layer[p] \in Nat /\ q \in Nat /\ counted[r] \in Nat
      <3>1. PlaceOK(p)
        BY DEF ControlOK
      <3>2. layer[p] \in Nat /\ counted[r] \in Nat
        BY ControlValues
      <3> QED
        BY <1>1, <3>1, <3>2
    <2>2. CountsOut(p, q)' = IF p = r /\ q = counted[r] THEN CountsOut(p, q) + 1 ELSE CountsOut(p, q)
      BY <1>1, <1>2, <1>3, <1>4, <1>5, <1>7, <2>1 DEF PlaceOK, CountsOut, CountSent, Reached,
         AfterCount, AfterPayload, AfterReverse
    <2>3. PayloadsOut(p, q)' = PayloadsOut(p, q)
      BY <1>1, <1>2, <1>3, <1>4, <1>5, <1>7, <2>1 DEF PlaceOK, PayloadsOut, PayloadSent, Reached,
         AfterCount, AfterPayload, AfterReverse
    <2>4. ReturnsOut(p, q)' = ReturnsOut(p, q)
      BY <1>1, <1>2, <1>3, <1>4, <1>5, <1>7, <2>1 DEF PlaceOK, ReturnsOut, ReverseSent, Reached,
         AfterCount, AfterPayload, AfterReverse
    <2>5. LayersDone(p)' = LayersDone(p)
      BY <1>1, <1>2, <1>3, <1>4, <1>5, <1>7, <2>1 DEF PlaceOK, LayersDone, Reached, AfterCount,
         AfterPayload, AfterReverse
    <2> QED
      BY <2>2, <2>3, <2>4, <2>5
  <1>8. ASSUME NEW q \in Ranks, NEW p \in Ranks, p # q
        PROVE  Close(q, p)' /\ CountersOK(q, p)'
    <2>1. Close(q, p) /\ Close(p, q) /\ PlaceOK(q) /\ PlaceOK(p) /\ CountersOK(q, p)
      BY <1>8 DEF ControlOK
    <2>2. /\ CountsOut(p, q)' = IF p = r /\ q = counted[r] THEN CountsOut(p, q) + 1 ELSE CountsOut(p, q)
          /\ PayloadsOut(p, q)' = PayloadsOut(p, q)
          /\ ReturnsOut(p, q)' = ReturnsOut(p, q)
      BY <1>7, <1>8
    <2>3. LayersDone(q)' = LayersDone(q)
      BY <1>7, <1>8
    <2>4. /\ layer[q] \in 1 .. Layers /\ layer[p] \in 1 .. Layers
          /\ CountsOut(p, q) \in 0 .. Layers /\ PayloadsOut(p, q) \in 0 .. Layers
          /\ ReturnsOut(p, q) \in 0 .. Layers /\ LayersDone(q) \in 0 .. Layers
          /\ request[q] \in 0 .. Requests /\ request[p] \in 0 .. Requests
          /\ stage[q] \in Stages /\ stage[p] \in Stages
      BY OutFacts DEF ControlType
    <2>8. /\ stage[q] \in AfterReverse => LayersDone(q) = layer[q]
          /\ stage[q] \notin AfterReverse => LayersDone(q) = layer[q] - 1
          /\ stage[p] \in {"pack", "count", "payload", "experts", "stopped"} => ReturnsOut(p, q) = layer[p] - 1
          /\ stage[p] = "reverse" /\ q \notin told[p] => ReturnsOut(p, q) = layer[p] - 1
      BY OutValues
    <2>5. Close(q, p)'
      BY <1>1, <1>2, <1>3, <1>4, <1>5, <1>8, <2>1, <2>2, <2>3, <2>4, <2>8 DEF PlaceOK, CountersOK,
         Cleared, Close, AfterCount, AfterPayload, AfterReverse, Stages
    <2>6. CountersOK(q, p)'
      <3>1. p = r /\ q = counted[r] => ~ Cleared(q, p)
        <4> SUFFICES ASSUME p = r /\ q = counted[r] PROVE ~ Cleared(q, p)
          OBVIOUS
        <4>1. q \in Ranks /\ p \in Ranks /\ p # q
          BY <1>8
        <4> QED
          BY <1>2, <4>1, NotYetCleared
      <3>2. Cleared(q, p)' <=> Cleared(q, p)
        BY <1>1, <1>2, <1>3, <1>4, <1>5 DEF Cleared
      <3> QED
        BY <1>1, <1>2, <1>3, <1>4, <1>5, <1>8, <2>1, <2>2, <2>4, <3>1, <3>2, SMTT(30) DEF CountersOK
    <2> QED
      BY <2>5, <2>6
  <1>9. ControlOK'
    <2>1. \A q \in Ranks : Close(q, q)'
      <3>1. \A q \in Ranks : request'[q] \in Int
        BY <1>1, <1>2, <1>3, <1>4, <1>5, ControlValues
      <3> QED
        BY <3>1 DEF Close
    <2> QED
      BY <1>6, <1>8, <2>1 DEF ControlOK
  <1>10. ControlType'
    <2>1. counted' \in [Ranks -> 0 .. EP]
      <3>1. counted[r] + 1 \in 0 .. EP
        BY <1>1, <1>2, ControlValues DEF Stages
      <3> QED
        BY <3>1 DEF SendCounts, ControlType
    <2>2. countSignal' \in [Ranks -> [Ranks -> 0 .. Layers]]
      <3>0. counted[r] \in Ranks
        BY <1>1, <1>2, ControlValues
      <3>1. CASE counted[r] = r
        BY <3>1, <1>2 DEF SendCounts, ControlType
      <3>2. CASE counted[r] # r
        <4>1. ~ Cleared(counted[r], r)
          BY <3>0, <3>2, <1>2, NotYetCleared
        <4>2. countSignal[counted[r]][r] = CountsOut(r, counted[r])
          BY <3>0, <3>2, <4>1 DEF ControlOK, CountersOK
        <4>3. CountsOut(r, counted[r]) = layer[r] - 1
          BY <1>2, <3>0, OutValues, ControlValues
        <4>4. countSignal[counted[r]][r] + 1 \in 0 .. Layers
          BY <1>1, <4>2, <4>3, ControlValues
        <4> QED
          BY <3>0, <4>4 DEF SendCounts, ControlType
      <3> QED
        BY <3>1, <3>2
    <2> QED
      BY <1>1, <2>1, <2>2, <1>5 DEF ControlType
  <1> QED
    BY <1>9, <1>10

LEMMA TakeCountsControl ==
    ASSUME Sizes, ControlType, ControlOK, NEW r \in Ranks, TakeCounts(r)
    PROVE  ControlType' /\ ControlOK'
  <1>1. EP \in Nat \ {0} /\ Layers \in Nat \ {0} /\ Requests \in Nat /\ Ranks = 0 .. EP - 1
    BY SizeFacts DEF Ranks
  <1>2. stage[r] = "count" /\ counted[r] = EP /\ \A x \in Ranks \ {r} : countSignal[r][x] >= layer[r]
    BY DEF TakeCounts, Heard, Peers
  <1>3. \A q \in Ranks : stage'[q] = IF q = r THEN "payload" ELSE stage[q]
    BY DEF TakeCounts, Heard, Peers, ControlType
  <1>4. \A q \in Ranks : counted'[q] = IF q = r THEN 0 ELSE counted[q]
    BY DEF TakeCounts, Heard, Peers, ControlType
  <1>5. UNCHANGED <<request, waiting, layer, sent, told, countSignal, xSignal, reverseSignal>>
    BY DEF TakeCounts, progress, signals, Heard, Peers
  <1>6. ASSUME NEW q \in Ranks
        PROVE  PlaceOK(q)'
    <2>1. PlaceOK(q) /\ PlaceOK(r)
      BY DEF ControlOK
    <2>2. request[q] \in 0 .. Requests /\ layer[q] \in 1 .. Layers /\ counted[q] \in 0 .. EP
          /\ sent[q] \subseteq Ranks /\ told[q] \subseteq Ranks
      BY DEF ControlType
    <2> QED
      BY <1>1, <1>2, <1>3, <1>4, <1>5, <2>1, <2>2 DEF PlaceOK, Peers
  <1>7. ASSUME NEW p \in Ranks, NEW q \in Ranks, p # q
        PROVE  /\ CountsOut(p, q)' = CountsOut(p, q)
               /\ PayloadsOut(p, q)' = PayloadsOut(p, q)
               /\ ReturnsOut(p, q)' = ReturnsOut(p, q)
               /\ LayersDone(p)' = LayersDone(p)
    <2>1. PlaceOK(p) /\ layer[p] \in Nat /\ q \in Nat /\ counted[r] \in Nat
      <3>1. PlaceOK(p)
        BY DEF ControlOK
      <3>2. layer[p] \in Nat /\ counted[r] \in Nat
        BY ControlValues
      <3> QED
        BY <1>1, <3>1, <3>2
    <2>2. CountsOut(p, q)' = CountsOut(p, q)
      BY <1>1, <1>2, <1>3, <1>4, <1>5, <1>7, <2>1 DEF PlaceOK, CountsOut, CountSent, Reached,
         AfterCount, AfterPayload, AfterReverse
    <2>3. PayloadsOut(p, q)' = PayloadsOut(p, q)
      BY <1>1, <1>2, <1>3, <1>4, <1>5, <1>7, <2>1 DEF PlaceOK, PayloadsOut, PayloadSent, Reached,
         AfterCount, AfterPayload, AfterReverse
    <2>4. ReturnsOut(p, q)' = ReturnsOut(p, q)
      BY <1>1, <1>2, <1>3, <1>4, <1>5, <1>7, <2>1 DEF PlaceOK, ReturnsOut, ReverseSent, Reached,
         AfterCount, AfterPayload, AfterReverse
    <2>5. LayersDone(p)' = LayersDone(p)
      BY <1>1, <1>2, <1>3, <1>4, <1>5, <1>7, <2>1 DEF PlaceOK, LayersDone, Reached, AfterCount,
         AfterPayload, AfterReverse
    <2> QED
      BY <2>2, <2>3, <2>4, <2>5
  <1>8. ASSUME NEW q \in Ranks, NEW p \in Ranks, p # q
        PROVE  Close(q, p)' /\ CountersOK(q, p)'
    <2>1. Close(q, p) /\ Close(p, q) /\ PlaceOK(q) /\ PlaceOK(p) /\ CountersOK(q, p)
      BY <1>8 DEF ControlOK
    <2>2. /\ CountsOut(p, q)' = CountsOut(p, q)
          /\ PayloadsOut(p, q)' = PayloadsOut(p, q)
          /\ ReturnsOut(p, q)' = ReturnsOut(p, q)
      BY <1>7, <1>8
    <2>3. LayersDone(q)' = LayersDone(q)
      BY <1>7, <1>8
    <2>4. /\ layer[q] \in 1 .. Layers /\ layer[p] \in 1 .. Layers
          /\ CountsOut(p, q) \in 0 .. Layers /\ PayloadsOut(p, q) \in 0 .. Layers
          /\ ReturnsOut(p, q) \in 0 .. Layers /\ LayersDone(q) \in 0 .. Layers
          /\ request[q] \in 0 .. Requests /\ request[p] \in 0 .. Requests
          /\ stage[q] \in Stages /\ stage[p] \in Stages
      BY OutFacts DEF ControlType
    <2>8. /\ stage[q] \in AfterReverse => LayersDone(q) = layer[q]
          /\ stage[q] \notin AfterReverse => LayersDone(q) = layer[q] - 1
          /\ stage[p] \in {"pack", "count", "payload", "experts", "stopped"} => ReturnsOut(p, q) = layer[p] - 1
          /\ stage[p] = "reverse" /\ q \notin told[p] => ReturnsOut(p, q) = layer[p] - 1
      BY OutValues
    <2>5. Close(q, p)'
      <3>1. CASE q = r
        BY <1>1, <1>2, <1>3, <1>4, <1>5, <1>8, <2>1, <2>2, <2>3, <2>4, <2>8, <3>1, SMTT(30)
           DEF PlaceOK,
           CountersOK, Cleared, Close, AfterCount, AfterPayload, AfterReverse, Stages
      <3>2. CASE p = r
        BY <1>1, <1>2, <1>3, <1>4, <1>5, <1>8, <2>1, <2>2, <2>3, <2>4, <2>8, <3>2 DEF PlaceOK,
           CountersOK, Cleared, Close, AfterCount, AfterPayload, AfterReverse, Stages
      <3>3. CASE q # r /\ p # r
        BY <1>1, <1>2, <1>3, <1>4, <1>5, <1>8, <2>1, <2>2, <2>3, <2>4, <2>8, <3>3 DEF PlaceOK,
           CountersOK, Cleared, Close, AfterCount, AfterPayload, AfterReverse, Stages
      <3> QED
        BY <3>1, <3>2, <3>3
    <2>6. CountersOK(q, p)'
      BY <1>1, <1>2, <1>3, <1>4, <1>5, <1>8, <2>1, <2>2, <2>4, <2>8 DEF PlaceOK, CountersOK,
         Cleared, Close, AfterCount, AfterPayload, AfterReverse, Stages
    <2> QED
      BY <2>5, <2>6
  <1>9. ControlOK'
    <2>1. \A q \in Ranks : Close(q, q)'
      <3>1. \A q \in Ranks : request'[q] \in Int
        BY <1>1, <1>2, <1>3, <1>4, <1>5, ControlValues
      <3> QED
        BY <3>1 DEF Close
    <2> QED
      BY <1>6, <1>8, <2>1 DEF ControlOK
  <1>10. ControlType'
    <2>1. stage' \in [Ranks -> Stages]
      <3>1. "payload" \in Stages
        BY <1>1, <1>2, ControlValues DEF Stages
      <3> QED
        BY <3>1 DEF TakeCounts, Heard, Peers, ControlType
    <2>2. counted' \in [Ranks -> 0 .. EP]
      <3>1. 0 \in 0 .. EP
        BY <1>1, <1>2, ControlValues DEF Stages
      <3> QED
        BY <3>1 DEF TakeCounts, Heard, Peers, ControlType
    <2> QED
      BY <1>1, <2>1, <2>2, <1>5 DEF ControlType
  <1> QED
    BY <1>9, <1>10

LEMMA PutPayloadControl ==
    ASSUME Sizes, ControlType, ControlOK, NEW r \in Ranks, NEW d \in Ranks, PutPayload(r, d)
    PROVE  ControlType' /\ ControlOK'
  <1>1. EP \in Nat \ {0} /\ Layers \in Nat \ {0} /\ Requests \in Nat /\ Ranks = 0 .. EP - 1
    BY SizeFacts DEF Ranks
  <1>2. stage[r] = "payload"
    BY DEF PutPayload
  <1>3. \A q \in Ranks : sent'[q] = IF q = r THEN sent[r] \cup {d} ELSE sent[q]
    BY DEF PutPayload, ControlType
  <1>4. UNCHANGED <<request, waiting, layer, stage, counted, told, countSignal, xSignal, reverseSignal>>
    BY DEF PutPayload, progress, signals
  <1>5. ASSUME NEW q \in Ranks
        PROVE  PlaceOK(q)'
    <2>1. PlaceOK(q) /\ PlaceOK(r)
      BY DEF ControlOK
    <2>2. request[q] \in 0 .. Requests /\ layer[q] \in 1 .. Layers /\ counted[q] \in 0 .. EP
          /\ sent[q] \subseteq Ranks /\ told[q] \subseteq Ranks
      BY DEF ControlType
    <2> QED
      BY <1>1, <1>2, <1>3, <1>4, <2>1, <2>2 DEF PlaceOK, Peers
  <1>6. ASSUME NEW p \in Ranks, NEW q \in Ranks, p # q
        PROVE  /\ CountsOut(p, q)' = CountsOut(p, q)
               /\ PayloadsOut(p, q)' = PayloadsOut(p, q)
               /\ ReturnsOut(p, q)' = ReturnsOut(p, q)
               /\ LayersDone(p)' = LayersDone(p)
    <2>1. PlaceOK(p) /\ layer[p] \in Nat /\ q \in Nat /\ counted[r] \in Nat
      <3>1. PlaceOK(p)
        BY DEF ControlOK
      <3>2. layer[p] \in Nat /\ counted[r] \in Nat
        BY ControlValues
      <3> QED
        BY <1>1, <3>1, <3>2
    <2>2. CountsOut(p, q)' = CountsOut(p, q)
      BY <1>1, <1>2, <1>3, <1>4, <1>6, <2>1 DEF PlaceOK, CountsOut, CountSent, Reached, AfterCount,
         AfterPayload, AfterReverse
    <2>3. PayloadsOut(p, q)' = PayloadsOut(p, q)
      BY <1>1, <1>2, <1>3, <1>4, <1>6, <2>1 DEF PlaceOK, PayloadsOut, PayloadSent, Reached,
         AfterCount, AfterPayload, AfterReverse
    <2>4. ReturnsOut(p, q)' = ReturnsOut(p, q)
      BY <1>1, <1>2, <1>3, <1>4, <1>6, <2>1 DEF PlaceOK, ReturnsOut, ReverseSent, Reached,
         AfterCount, AfterPayload, AfterReverse
    <2>5. LayersDone(p)' = LayersDone(p)
      BY <1>1, <1>2, <1>3, <1>4, <1>6, <2>1 DEF PlaceOK, LayersDone, Reached, AfterCount,
         AfterPayload, AfterReverse
    <2> QED
      BY <2>2, <2>3, <2>4, <2>5
  <1>7. ASSUME NEW q \in Ranks, NEW p \in Ranks, p # q
        PROVE  Close(q, p)' /\ CountersOK(q, p)'
    <2>1. Close(q, p) /\ Close(p, q) /\ PlaceOK(q) /\ PlaceOK(p) /\ CountersOK(q, p)
      BY <1>7 DEF ControlOK
    <2>2. /\ CountsOut(p, q)' = CountsOut(p, q)
          /\ PayloadsOut(p, q)' = PayloadsOut(p, q)
          /\ ReturnsOut(p, q)' = ReturnsOut(p, q)
      BY <1>6, <1>7
    <2>3. LayersDone(q)' = LayersDone(q)
      BY <1>6, <1>7
    <2>4. /\ layer[q] \in 1 .. Layers /\ layer[p] \in 1 .. Layers
          /\ CountsOut(p, q) \in 0 .. Layers /\ PayloadsOut(p, q) \in 0 .. Layers
          /\ ReturnsOut(p, q) \in 0 .. Layers /\ LayersDone(q) \in 0 .. Layers
          /\ request[q] \in 0 .. Requests /\ request[p] \in 0 .. Requests
          /\ stage[q] \in Stages /\ stage[p] \in Stages
      BY OutFacts DEF ControlType
    <2>8. /\ stage[q] \in AfterReverse => LayersDone(q) = layer[q]
          /\ stage[q] \notin AfterReverse => LayersDone(q) = layer[q] - 1
          /\ stage[p] \in {"pack", "count", "payload", "experts", "stopped"} => ReturnsOut(p, q) = layer[p] - 1
          /\ stage[p] = "reverse" /\ q \notin told[p] => ReturnsOut(p, q) = layer[p] - 1
      BY OutValues
    <2>5. Close(q, p)'
      BY <1>1, <1>2, <1>3, <1>4, <1>7, <2>1, <2>2, <2>3, <2>4, <2>8 DEF PlaceOK, CountersOK,
         Cleared, Close, AfterCount, AfterPayload, AfterReverse, Stages
    <2>6. CountersOK(q, p)'
      BY <1>1, <1>2, <1>3, <1>4, <1>7, <2>1, <2>2, <2>4, <2>8 DEF PlaceOK, CountersOK, Cleared,
         Close, AfterCount, AfterPayload, AfterReverse, Stages
    <2> QED
      BY <2>5, <2>6
  <1>8. ControlOK'
    <2>1. \A q \in Ranks : Close(q, q)'
      <3>1. \A q \in Ranks : request'[q] \in Int
        BY <1>1, <1>2, <1>3, <1>4, ControlValues
      <3> QED
        BY <3>1 DEF Close
    <2> QED
      BY <1>5, <1>7, <2>1 DEF ControlOK
  <1>9. ControlType'
    <2>1. sent' \in [Ranks -> SUBSET Ranks]
      <3>1. sent[r] \cup {d} \in SUBSET Ranks
        BY <1>1, <1>2, ControlValues DEF Stages
      <3> QED
        BY <3>1 DEF PutPayload, ControlType
    <2> QED
      BY <1>1, <2>1, <1>4 DEF ControlType
  <1> QED
    BY <1>8, <1>9

LEMMA NotifyPayloadControl ==
    ASSUME Sizes, ControlType, ControlOK, NEW r \in Ranks, NEW d \in Ranks, NotifyPayload(r, d)
    PROVE  ControlType' /\ ControlOK'
  <1>1. EP \in Nat \ {0} /\ Layers \in Nat \ {0} /\ Requests \in Nat /\ Ranks = 0 .. EP - 1
    BY SizeFacts DEF Ranks
  <1>2. stage[r] = "payload" /\ sent[r] = Ranks /\ d # r /\ d \notin told[r]
    BY DEF NotifyPayload, Peers
  <1>3. \A q \in Ranks : told'[q] = IF q = r THEN told[r] \cup {d} ELSE told[q]
    BY DEF NotifyPayload, Peers, ControlType
  <1>4. \A q, p \in Ranks : xSignal'[q][p] = IF q = d /\ p = r THEN xSignal[q][p] + 1 ELSE xSignal[q][p]
    BY DEF NotifyPayload, Peers, ControlType
  <1>5. UNCHANGED <<request, waiting, layer, stage, counted, sent, countSignal, reverseSignal>>
    BY DEF NotifyPayload, progress, signals, Peers
  <1>6. ASSUME NEW q \in Ranks
        PROVE  PlaceOK(q)'
    <2>1. PlaceOK(q) /\ PlaceOK(r)
      BY DEF ControlOK
    <2>2. request[q] \in 0 .. Requests /\ layer[q] \in 1 .. Layers /\ counted[q] \in 0 .. EP
          /\ sent[q] \subseteq Ranks /\ told[q] \subseteq Ranks
      BY DEF ControlType
    <2> QED
      BY <1>1, <1>2, <1>3, <1>4, <1>5, <2>1, <2>2 DEF PlaceOK, Peers
  <1>7. ASSUME NEW p \in Ranks, NEW q \in Ranks, p # q
        PROVE  /\ CountsOut(p, q)' = CountsOut(p, q)
               /\ PayloadsOut(p, q)' = IF p = r /\ q = d THEN PayloadsOut(p, q) + 1 ELSE PayloadsOut(p, q)
               /\ ReturnsOut(p, q)' = ReturnsOut(p, q)
               /\ LayersDone(p)' = LayersDone(p)
    <2>1. PlaceOK(p) /\ layer[p] \in Nat /\ q \in Nat /\ counted[r] \in Nat
      <3>1. PlaceOK(p)
        BY DEF ControlOK
      <3>2. layer[p] \in Nat /\ counted[r] \in Nat
        BY ControlValues
      <3> QED
        BY <1>1, <3>1, <3>2
    <2>2. CountsOut(p, q)' = CountsOut(p, q)
      BY <1>1, <1>2, <1>3, <1>4, <1>5, <1>7, <2>1 DEF PlaceOK, CountsOut, CountSent, Reached,
         AfterCount, AfterPayload, AfterReverse
    <2>3. PayloadsOut(p, q)' = IF p = r /\ q = d THEN PayloadsOut(p, q) + 1 ELSE PayloadsOut(p, q)
      BY <1>1, <1>2, <1>3, <1>4, <1>5, <1>7, <2>1 DEF PlaceOK, PayloadsOut, PayloadSent, Reached,
         AfterCount, AfterPayload, AfterReverse
    <2>4. ReturnsOut(p, q)' = ReturnsOut(p, q)
      BY <1>1, <1>2, <1>3, <1>4, <1>5, <1>7, <2>1 DEF PlaceOK, ReturnsOut, ReverseSent, Reached,
         AfterCount, AfterPayload, AfterReverse
    <2>5. LayersDone(p)' = LayersDone(p)
      BY <1>1, <1>2, <1>3, <1>4, <1>5, <1>7, <2>1 DEF PlaceOK, LayersDone, Reached, AfterCount,
         AfterPayload, AfterReverse
    <2> QED
      BY <2>2, <2>3, <2>4, <2>5
  <1>8. ASSUME NEW q \in Ranks, NEW p \in Ranks, p # q
        PROVE  Close(q, p)' /\ CountersOK(q, p)'
    <2>1. Close(q, p) /\ Close(p, q) /\ PlaceOK(q) /\ PlaceOK(p) /\ CountersOK(q, p)
      BY <1>8 DEF ControlOK
    <2>2. /\ CountsOut(p, q)' = CountsOut(p, q)
          /\ PayloadsOut(p, q)' = IF p = r /\ q = d THEN PayloadsOut(p, q) + 1 ELSE PayloadsOut(p, q)
          /\ ReturnsOut(p, q)' = ReturnsOut(p, q)
      BY <1>7, <1>8
    <2>3. LayersDone(q)' = LayersDone(q)
      BY <1>7, <1>8
    <2>4. /\ layer[q] \in 1 .. Layers /\ layer[p] \in 1 .. Layers
          /\ CountsOut(p, q) \in 0 .. Layers /\ PayloadsOut(p, q) \in 0 .. Layers
          /\ ReturnsOut(p, q) \in 0 .. Layers /\ LayersDone(q) \in 0 .. Layers
          /\ request[q] \in 0 .. Requests /\ request[p] \in 0 .. Requests
          /\ stage[q] \in Stages /\ stage[p] \in Stages
      BY OutFacts DEF ControlType
    <2>8. /\ stage[q] \in AfterReverse => LayersDone(q) = layer[q]
          /\ stage[q] \notin AfterReverse => LayersDone(q) = layer[q] - 1
          /\ stage[p] \in {"pack", "count", "payload", "experts", "stopped"} => ReturnsOut(p, q) = layer[p] - 1
          /\ stage[p] = "reverse" /\ q \notin told[p] => ReturnsOut(p, q) = layer[p] - 1
      BY OutValues
    <2>5. Close(q, p)'
      BY <1>1, <1>2, <1>3, <1>4, <1>5, <1>8, <2>1, <2>2, <2>3, <2>4, <2>8 DEF PlaceOK, CountersOK,
         Cleared, Close, AfterCount, AfterPayload, AfterReverse, Stages
    <2>6. CountersOK(q, p)'
      <3>1. p = r /\ q = d => ~ Cleared(q, p)
        <4> SUFFICES ASSUME p = r /\ q = d PROVE ~ Cleared(q, p)
          OBVIOUS
        <4>1. q \in Ranks /\ p \in Ranks /\ p # q
          BY <1>8
        <4> QED
          BY <1>2, <4>1, NotYetCleared
      <3>2. Cleared(q, p)' <=> Cleared(q, p)
        BY <1>1, <1>2, <1>3, <1>4, <1>5 DEF Cleared
      <3> QED
        BY <1>1, <1>2, <1>3, <1>4, <1>5, <1>8, <2>1, <2>2, <2>4, <3>1, <3>2, SMTT(30) DEF CountersOK
    <2> QED
      BY <2>5, <2>6
  <1>9. ControlOK'
    <2>1. \A q \in Ranks : Close(q, q)'
      <3>1. \A q \in Ranks : request'[q] \in Int
        BY <1>1, <1>2, <1>3, <1>4, <1>5, ControlValues
      <3> QED
        BY <3>1 DEF Close
    <2> QED
      BY <1>6, <1>8, <2>1 DEF ControlOK
  <1>10. ControlType'
    <2>1. told' \in [Ranks -> SUBSET Ranks]
      <3>1. told[r] \cup {d} \in SUBSET Ranks
        BY <1>1, <1>2, ControlValues DEF Stages
      <3> QED
        BY <3>1 DEF NotifyPayload, Peers, ControlType
    <2>2. xSignal' \in [Ranks -> [Ranks -> 0 .. Layers]]
      <3>0. d \in Ranks
        BY <1>1, <1>2, ControlValues
      <3>1. CASE d = r
        BY <3>1, <1>2 DEF NotifyPayload, Peers, ControlType
      <3>2. CASE d # r
        <4>1. ~ Cleared(d, r)
          BY <3>0, <3>2, <1>2, NotYetCleared
        <4>2. xSignal[d][r] = PayloadsOut(r, d)
          BY <3>0, <3>2, <4>1 DEF ControlOK, CountersOK
        <4>3. PayloadsOut(r, d) = layer[r] - 1
          BY <1>2, <3>0, OutValues, ControlValues
        <4>4. xSignal[d][r] + 1 \in 0 .. Layers
          BY <1>1, <4>2, <4>3, ControlValues
        <4> QED
          BY <3>0, <4>4 DEF NotifyPayload, Peers, ControlType
      <3> QED
        BY <3>1, <3>2
    <2> QED
      BY <1>1, <2>1, <2>2, <1>5 DEF ControlType
  <1> QED
    BY <1>9, <1>10

LEMMA ResortControl ==
    ASSUME Sizes, ControlType, ControlOK, NEW r \in Ranks, Resort(r)
    PROVE  ControlType' /\ ControlOK'
  <1>1. EP \in Nat \ {0} /\ Layers \in Nat \ {0} /\ Requests \in Nat /\ Ranks = 0 .. EP - 1
    BY SizeFacts DEF Ranks
  <1>2. stage[r] = "payload" /\ told[r] = Ranks \ {r} /\ \A x \in Ranks \ {r} : xSignal[r][x] >= layer[r]
    BY DEF Resort, Heard, Peers
  <1>3. \A q \in Ranks : stage'[q] = IF q = r THEN "experts" ELSE stage[q]
    BY DEF Resort, Heard, Peers, ControlType
  <1>4. \A q \in Ranks : sent'[q] = IF q = r THEN {} ELSE sent[q]
    BY DEF Resort, Heard, Peers, ControlType
  <1>5. \A q \in Ranks : told'[q] = IF q = r THEN {} ELSE told[q]
    BY DEF Resort, Heard, Peers, ControlType
  <1>6. UNCHANGED <<request, waiting, layer, counted, countSignal, xSignal, reverseSignal>>
    BY DEF Resort, progress, signals, Heard, Peers
  <1>7. ASSUME NEW q \in Ranks
        PROVE  PlaceOK(q)'
    <2>1. PlaceOK(q) /\ PlaceOK(r)
      BY DEF ControlOK
    <2>2. request[q] \in 0 .. Requests /\ layer[q] \in 1 .. Layers /\ counted[q] \in 0 .. EP
          /\ sent[q] \subseteq Ranks /\ told[q] \subseteq Ranks
      BY DEF ControlType
    <2> QED
      BY <1>1, <1>2, <1>3, <1>4, <1>5, <1>6, <2>1, <2>2 DEF PlaceOK, Peers
  <1>8. ASSUME NEW p \in Ranks, NEW q \in Ranks, p # q
        PROVE  /\ CountsOut(p, q)' = CountsOut(p, q)
               /\ PayloadsOut(p, q)' = PayloadsOut(p, q)
               /\ ReturnsOut(p, q)' = ReturnsOut(p, q)
               /\ LayersDone(p)' = LayersDone(p)
    <2>1. PlaceOK(p) /\ layer[p] \in Nat /\ q \in Nat /\ counted[r] \in Nat
      <3>1. PlaceOK(p)
        BY DEF ControlOK
      <3>2. layer[p] \in Nat /\ counted[r] \in Nat
        BY ControlValues
      <3> QED
        BY <1>1, <3>1, <3>2
    <2>2. CountsOut(p, q)' = CountsOut(p, q)
      BY <1>1, <1>2, <1>3, <1>4, <1>5, <1>6, <1>8, <2>1 DEF PlaceOK, CountsOut, CountSent, Reached,
         AfterCount, AfterPayload, AfterReverse
    <2>3. PayloadsOut(p, q)' = PayloadsOut(p, q)
      BY <1>1, <1>2, <1>3, <1>4, <1>5, <1>6, <1>8, <2>1 DEF PlaceOK, PayloadsOut, PayloadSent,
         Reached, AfterCount, AfterPayload, AfterReverse
    <2>4. ReturnsOut(p, q)' = ReturnsOut(p, q)
      BY <1>1, <1>2, <1>3, <1>4, <1>5, <1>6, <1>8, <2>1 DEF PlaceOK, ReturnsOut, ReverseSent,
         Reached, AfterCount, AfterPayload, AfterReverse
    <2>5. LayersDone(p)' = LayersDone(p)
      BY <1>1, <1>2, <1>3, <1>4, <1>5, <1>6, <1>8, <2>1 DEF PlaceOK, LayersDone, Reached,
         AfterCount, AfterPayload, AfterReverse
    <2> QED
      BY <2>2, <2>3, <2>4, <2>5
  <1>9. ASSUME NEW q \in Ranks, NEW p \in Ranks, p # q
        PROVE  Close(q, p)' /\ CountersOK(q, p)'
    <2>1. Close(q, p) /\ Close(p, q) /\ PlaceOK(q) /\ PlaceOK(p) /\ CountersOK(q, p)
      BY <1>9 DEF ControlOK
    <2>2. /\ CountsOut(p, q)' = CountsOut(p, q)
          /\ PayloadsOut(p, q)' = PayloadsOut(p, q)
          /\ ReturnsOut(p, q)' = ReturnsOut(p, q)
      BY <1>8, <1>9
    <2>3. LayersDone(q)' = LayersDone(q)
      BY <1>8, <1>9
    <2>4. /\ layer[q] \in 1 .. Layers /\ layer[p] \in 1 .. Layers
          /\ CountsOut(p, q) \in 0 .. Layers /\ PayloadsOut(p, q) \in 0 .. Layers
          /\ ReturnsOut(p, q) \in 0 .. Layers /\ LayersDone(q) \in 0 .. Layers
          /\ request[q] \in 0 .. Requests /\ request[p] \in 0 .. Requests
          /\ stage[q] \in Stages /\ stage[p] \in Stages
      BY OutFacts DEF ControlType
    <2>8. /\ stage[q] \in AfterReverse => LayersDone(q) = layer[q]
          /\ stage[q] \notin AfterReverse => LayersDone(q) = layer[q] - 1
          /\ stage[p] \in {"pack", "count", "payload", "experts", "stopped"} => ReturnsOut(p, q) = layer[p] - 1
          /\ stage[p] = "reverse" /\ q \notin told[p] => ReturnsOut(p, q) = layer[p] - 1
      BY OutValues
    <2>5. Close(q, p)'
      <3>1. CASE q = r
        BY <1>1, <1>2, <1>3, <1>4, <1>5, <1>6, <1>9, <2>1, <2>2, <2>3, <2>4, <2>8, <3>1 DEF PlaceOK,
           CountersOK, Cleared, Close, AfterCount, AfterPayload, AfterReverse, Stages
      <3>2. CASE p = r
        BY <1>1, <1>2, <1>3, <1>4, <1>5, <1>6, <1>9, <2>1, <2>2, <2>3, <2>4, <2>8, <3>2 DEF PlaceOK,
           CountersOK, Cleared, Close, AfterCount, AfterPayload, AfterReverse, Stages
      <3>3. CASE q # r /\ p # r
        BY <1>1, <1>2, <1>3, <1>4, <1>5, <1>6, <1>9, <2>1, <2>2, <2>3, <2>4, <2>8, <3>3 DEF PlaceOK,
           CountersOK, Cleared, Close, AfterCount, AfterPayload, AfterReverse, Stages
      <3> QED
        BY <3>1, <3>2, <3>3
    <2>6. CountersOK(q, p)'
      BY <1>1, <1>2, <1>3, <1>4, <1>5, <1>6, <1>9, <2>1, <2>2, <2>4, <2>8 DEF PlaceOK, CountersOK,
         Cleared, Close, AfterCount, AfterPayload, AfterReverse, Stages
    <2> QED
      BY <2>5, <2>6
  <1>10. ControlOK'
    <2>1. \A q \in Ranks : Close(q, q)'
      <3>1. \A q \in Ranks : request'[q] \in Int
        BY <1>1, <1>2, <1>3, <1>4, <1>5, <1>6, ControlValues
      <3> QED
        BY <3>1 DEF Close
    <2> QED
      BY <1>7, <1>9, <2>1 DEF ControlOK
  <1>11. ControlType'
    <2>1. stage' \in [Ranks -> Stages]
      <3>1. "experts" \in Stages
        BY <1>1, <1>2, ControlValues DEF Stages
      <3> QED
        BY <3>1 DEF Resort, Heard, Peers, ControlType
    <2>2. sent' \in [Ranks -> SUBSET Ranks]
      <3>1. {} \in SUBSET Ranks
        BY <1>1, <1>2, ControlValues DEF Stages
      <3> QED
        BY <3>1 DEF Resort, Heard, Peers, ControlType
    <2>3. told' \in [Ranks -> SUBSET Ranks]
      <3>1. {} \in SUBSET Ranks
        BY <1>1, <1>2, ControlValues DEF Stages
      <3> QED
        BY <3>1 DEF Resort, Heard, Peers, ControlType
    <2> QED
      BY <1>1, <2>1, <2>2, <2>3, <1>6 DEF ControlType
  <1> QED
    BY <1>10, <1>11

LEMMA RunExpertsControl ==
    ASSUME Sizes, ControlType, ControlOK, NEW r \in Ranks, RunExperts(r)
    PROVE  ControlType' /\ ControlOK'
  <1>1. EP \in Nat \ {0} /\ Layers \in Nat \ {0} /\ Requests \in Nat /\ Ranks = 0 .. EP - 1
    BY SizeFacts DEF Ranks
  <1>2. stage[r] = "experts"
    BY DEF RunExperts
  <1>3. \A q \in Ranks : stage'[q] = IF q = r THEN "reverse" ELSE stage[q]
    BY DEF RunExperts, ControlType
  <1>4. UNCHANGED <<request, waiting, layer, counted, sent, told, countSignal, xSignal, reverseSignal>>
    BY DEF RunExperts, progress, signals
  <1>5. ASSUME NEW q \in Ranks
        PROVE  PlaceOK(q)'
    <2>1. PlaceOK(q) /\ PlaceOK(r)
      BY DEF ControlOK
    <2>2. request[q] \in 0 .. Requests /\ layer[q] \in 1 .. Layers /\ counted[q] \in 0 .. EP
          /\ sent[q] \subseteq Ranks /\ told[q] \subseteq Ranks
      BY DEF ControlType
    <2> QED
      BY <1>1, <1>2, <1>3, <1>4, <2>1, <2>2 DEF PlaceOK, Peers
  <1>6. ASSUME NEW p \in Ranks, NEW q \in Ranks, p # q
        PROVE  /\ CountsOut(p, q)' = CountsOut(p, q)
               /\ PayloadsOut(p, q)' = PayloadsOut(p, q)
               /\ ReturnsOut(p, q)' = ReturnsOut(p, q)
               /\ LayersDone(p)' = LayersDone(p)
    <2>1. PlaceOK(p) /\ layer[p] \in Nat /\ q \in Nat /\ counted[r] \in Nat
      <3>1. PlaceOK(p)
        BY DEF ControlOK
      <3>2. layer[p] \in Nat /\ counted[r] \in Nat
        BY ControlValues
      <3> QED
        BY <1>1, <3>1, <3>2
    <2>2. CountsOut(p, q)' = CountsOut(p, q)
      BY <1>1, <1>2, <1>3, <1>4, <1>6, <2>1 DEF PlaceOK, CountsOut, CountSent, Reached, AfterCount,
         AfterPayload, AfterReverse
    <2>3. PayloadsOut(p, q)' = PayloadsOut(p, q)
      BY <1>1, <1>2, <1>3, <1>4, <1>6, <2>1 DEF PlaceOK, PayloadsOut, PayloadSent, Reached,
         AfterCount, AfterPayload, AfterReverse
    <2>4. ReturnsOut(p, q)' = ReturnsOut(p, q)
      BY <1>1, <1>2, <1>3, <1>4, <1>6, <2>1 DEF PlaceOK, ReturnsOut, ReverseSent, Reached,
         AfterCount, AfterPayload, AfterReverse
    <2>5. LayersDone(p)' = LayersDone(p)
      BY <1>1, <1>2, <1>3, <1>4, <1>6, <2>1 DEF PlaceOK, LayersDone, Reached, AfterCount,
         AfterPayload, AfterReverse
    <2> QED
      BY <2>2, <2>3, <2>4, <2>5
  <1>7. ASSUME NEW q \in Ranks, NEW p \in Ranks, p # q
        PROVE  Close(q, p)' /\ CountersOK(q, p)'
    <2>1. Close(q, p) /\ Close(p, q) /\ PlaceOK(q) /\ PlaceOK(p) /\ CountersOK(q, p)
      BY <1>7 DEF ControlOK
    <2>2. /\ CountsOut(p, q)' = CountsOut(p, q)
          /\ PayloadsOut(p, q)' = PayloadsOut(p, q)
          /\ ReturnsOut(p, q)' = ReturnsOut(p, q)
      BY <1>6, <1>7
    <2>3. LayersDone(q)' = LayersDone(q)
      BY <1>6, <1>7
    <2>4. /\ layer[q] \in 1 .. Layers /\ layer[p] \in 1 .. Layers
          /\ CountsOut(p, q) \in 0 .. Layers /\ PayloadsOut(p, q) \in 0 .. Layers
          /\ ReturnsOut(p, q) \in 0 .. Layers /\ LayersDone(q) \in 0 .. Layers
          /\ request[q] \in 0 .. Requests /\ request[p] \in 0 .. Requests
          /\ stage[q] \in Stages /\ stage[p] \in Stages
      BY OutFacts DEF ControlType
    <2>8. /\ stage[q] \in AfterReverse => LayersDone(q) = layer[q]
          /\ stage[q] \notin AfterReverse => LayersDone(q) = layer[q] - 1
          /\ stage[p] \in {"pack", "count", "payload", "experts", "stopped"} => ReturnsOut(p, q) = layer[p] - 1
          /\ stage[p] = "reverse" /\ q \notin told[p] => ReturnsOut(p, q) = layer[p] - 1
      BY OutValues
    <2>5. Close(q, p)'
      BY <1>1, <1>2, <1>3, <1>4, <1>7, <2>1, <2>2, <2>3, <2>4, <2>8 DEF PlaceOK, CountersOK,
         Cleared, Close, AfterCount, AfterPayload, AfterReverse, Stages
    <2>6. CountersOK(q, p)'
      BY <1>1, <1>2, <1>3, <1>4, <1>7, <2>1, <2>2, <2>4, <2>8 DEF PlaceOK, CountersOK, Cleared,
         Close, AfterCount, AfterPayload, AfterReverse, Stages
    <2> QED
      BY <2>5, <2>6
  <1>8. ControlOK'
    <2>1. \A q \in Ranks : Close(q, q)'
      <3>1. \A q \in Ranks : request'[q] \in Int
        BY <1>1, <1>2, <1>3, <1>4, ControlValues
      <3> QED
        BY <3>1 DEF Close
    <2> QED
      BY <1>5, <1>7, <2>1 DEF ControlOK
  <1>9. ControlType'
    <2>1. stage' \in [Ranks -> Stages]
      <3>1. "reverse" \in Stages
        BY <1>1, <1>2, ControlValues DEF Stages
      <3> QED
        BY <3>1 DEF RunExperts, ControlType
    <2> QED
      BY <1>1, <2>1, <1>4 DEF ControlType
  <1> QED
    BY <1>8, <1>9

LEMMA PutReverseControl ==
    ASSUME Sizes, ControlType, ControlOK, NEW r \in Ranks, NEW d \in Ranks, PutReverse(r, d)
    PROVE  ControlType' /\ ControlOK'
  <1>1. EP \in Nat \ {0} /\ Layers \in Nat \ {0} /\ Requests \in Nat /\ Ranks = 0 .. EP - 1
    BY SizeFacts DEF Ranks
  <1>2. stage[r] = "reverse"
    BY DEF PutReverse
  <1>3. \A q \in Ranks : sent'[q] = IF q = r THEN sent[r] \cup {d} ELSE sent[q]
    BY DEF PutReverse, ControlType
  <1>4. UNCHANGED <<request, waiting, layer, stage, counted, told, countSignal, xSignal, reverseSignal>>
    BY DEF PutReverse, progress, signals
  <1>5. ASSUME NEW q \in Ranks
        PROVE  PlaceOK(q)'
    <2>1. PlaceOK(q) /\ PlaceOK(r)
      BY DEF ControlOK
    <2>2. request[q] \in 0 .. Requests /\ layer[q] \in 1 .. Layers /\ counted[q] \in 0 .. EP
          /\ sent[q] \subseteq Ranks /\ told[q] \subseteq Ranks
      BY DEF ControlType
    <2> QED
      BY <1>1, <1>2, <1>3, <1>4, <2>1, <2>2 DEF PlaceOK, Peers
  <1>6. ASSUME NEW p \in Ranks, NEW q \in Ranks, p # q
        PROVE  /\ CountsOut(p, q)' = CountsOut(p, q)
               /\ PayloadsOut(p, q)' = PayloadsOut(p, q)
               /\ ReturnsOut(p, q)' = ReturnsOut(p, q)
               /\ LayersDone(p)' = LayersDone(p)
    <2>1. PlaceOK(p) /\ layer[p] \in Nat /\ q \in Nat /\ counted[r] \in Nat
      <3>1. PlaceOK(p)
        BY DEF ControlOK
      <3>2. layer[p] \in Nat /\ counted[r] \in Nat
        BY ControlValues
      <3> QED
        BY <1>1, <3>1, <3>2
    <2>2. CountsOut(p, q)' = CountsOut(p, q)
      BY <1>1, <1>2, <1>3, <1>4, <1>6, <2>1 DEF PlaceOK, CountsOut, CountSent, Reached, AfterCount,
         AfterPayload, AfterReverse
    <2>3. PayloadsOut(p, q)' = PayloadsOut(p, q)
      BY <1>1, <1>2, <1>3, <1>4, <1>6, <2>1 DEF PlaceOK, PayloadsOut, PayloadSent, Reached,
         AfterCount, AfterPayload, AfterReverse
    <2>4. ReturnsOut(p, q)' = ReturnsOut(p, q)
      BY <1>1, <1>2, <1>3, <1>4, <1>6, <2>1 DEF PlaceOK, ReturnsOut, ReverseSent, Reached,
         AfterCount, AfterPayload, AfterReverse
    <2>5. LayersDone(p)' = LayersDone(p)
      BY <1>1, <1>2, <1>3, <1>4, <1>6, <2>1 DEF PlaceOK, LayersDone, Reached, AfterCount,
         AfterPayload, AfterReverse
    <2> QED
      BY <2>2, <2>3, <2>4, <2>5
  <1>7. ASSUME NEW q \in Ranks, NEW p \in Ranks, p # q
        PROVE  Close(q, p)' /\ CountersOK(q, p)'
    <2>1. Close(q, p) /\ Close(p, q) /\ PlaceOK(q) /\ PlaceOK(p) /\ CountersOK(q, p)
      BY <1>7 DEF ControlOK
    <2>2. /\ CountsOut(p, q)' = CountsOut(p, q)
          /\ PayloadsOut(p, q)' = PayloadsOut(p, q)
          /\ ReturnsOut(p, q)' = ReturnsOut(p, q)
      BY <1>6, <1>7
    <2>3. LayersDone(q)' = LayersDone(q)
      BY <1>6, <1>7
    <2>4. /\ layer[q] \in 1 .. Layers /\ layer[p] \in 1 .. Layers
          /\ CountsOut(p, q) \in 0 .. Layers /\ PayloadsOut(p, q) \in 0 .. Layers
          /\ ReturnsOut(p, q) \in 0 .. Layers /\ LayersDone(q) \in 0 .. Layers
          /\ request[q] \in 0 .. Requests /\ request[p] \in 0 .. Requests
          /\ stage[q] \in Stages /\ stage[p] \in Stages
      BY OutFacts DEF ControlType
    <2>8. /\ stage[q] \in AfterReverse => LayersDone(q) = layer[q]
          /\ stage[q] \notin AfterReverse => LayersDone(q) = layer[q] - 1
          /\ stage[p] \in {"pack", "count", "payload", "experts", "stopped"} => ReturnsOut(p, q) = layer[p] - 1
          /\ stage[p] = "reverse" /\ q \notin told[p] => ReturnsOut(p, q) = layer[p] - 1
      BY OutValues
    <2>5. Close(q, p)'
      BY <1>1, <1>2, <1>3, <1>4, <1>7, <2>1, <2>2, <2>3, <2>4, <2>8 DEF PlaceOK, CountersOK,
         Cleared, Close, AfterCount, AfterPayload, AfterReverse, Stages
    <2>6. CountersOK(q, p)'
      BY <1>1, <1>2, <1>3, <1>4, <1>7, <2>1, <2>2, <2>4, <2>8 DEF PlaceOK, CountersOK, Cleared,
         Close, AfterCount, AfterPayload, AfterReverse, Stages
    <2> QED
      BY <2>5, <2>6
  <1>8. ControlOK'
    <2>1. \A q \in Ranks : Close(q, q)'
      <3>1. \A q \in Ranks : request'[q] \in Int
        BY <1>1, <1>2, <1>3, <1>4, ControlValues
      <3> QED
        BY <3>1 DEF Close
    <2> QED
      BY <1>5, <1>7, <2>1 DEF ControlOK
  <1>9. ControlType'
    <2>1. sent' \in [Ranks -> SUBSET Ranks]
      <3>1. sent[r] \cup {d} \in SUBSET Ranks
        BY <1>1, <1>2, ControlValues DEF Stages
      <3> QED
        BY <3>1 DEF PutReverse, ControlType
    <2> QED
      BY <1>1, <2>1, <1>4 DEF ControlType
  <1> QED
    BY <1>8, <1>9

LEMMA NotifyReverseControl ==
    ASSUME Sizes, ControlType, ControlOK, NEW r \in Ranks, NEW d \in Ranks, NotifyReverse(r, d)
    PROVE  ControlType' /\ ControlOK'
  <1>1. EP \in Nat \ {0} /\ Layers \in Nat \ {0} /\ Requests \in Nat /\ Ranks = 0 .. EP - 1
    BY SizeFacts DEF Ranks
  <1>2. stage[r] = "reverse" /\ sent[r] = Ranks /\ d # r /\ d \notin told[r]
    BY DEF NotifyReverse, Peers
  <1>3. \A q \in Ranks : told'[q] = IF q = r THEN told[r] \cup {d} ELSE told[q]
    BY DEF NotifyReverse, Peers, ControlType
  <1>4. \A q, p \in Ranks : reverseSignal'[q][p] = IF q = d /\ p = r THEN reverseSignal[q][p] + 1 ELSE reverseSignal[q][p]
    BY DEF NotifyReverse, Peers, ControlType
  <1>5. UNCHANGED <<request, waiting, layer, stage, counted, sent, countSignal, xSignal>>
    BY DEF NotifyReverse, progress, signals, Peers
  <1>6. ASSUME NEW q \in Ranks
        PROVE  PlaceOK(q)'
    <2>1. PlaceOK(q) /\ PlaceOK(r)
      BY DEF ControlOK
    <2>2. request[q] \in 0 .. Requests /\ layer[q] \in 1 .. Layers /\ counted[q] \in 0 .. EP
          /\ sent[q] \subseteq Ranks /\ told[q] \subseteq Ranks
      BY DEF ControlType
    <2> QED
      BY <1>1, <1>2, <1>3, <1>4, <1>5, <2>1, <2>2 DEF PlaceOK, Peers
  <1>7. ASSUME NEW p \in Ranks, NEW q \in Ranks, p # q
        PROVE  /\ CountsOut(p, q)' = CountsOut(p, q)
               /\ PayloadsOut(p, q)' = PayloadsOut(p, q)
               /\ ReturnsOut(p, q)' = IF p = r /\ q = d THEN ReturnsOut(p, q) + 1 ELSE ReturnsOut(p, q)
               /\ LayersDone(p)' = LayersDone(p)
    <2>1. PlaceOK(p) /\ layer[p] \in Nat /\ q \in Nat /\ counted[r] \in Nat
      <3>1. PlaceOK(p)
        BY DEF ControlOK
      <3>2. layer[p] \in Nat /\ counted[r] \in Nat
        BY ControlValues
      <3> QED
        BY <1>1, <3>1, <3>2
    <2>2. CountsOut(p, q)' = CountsOut(p, q)
      BY <1>1, <1>2, <1>3, <1>4, <1>5, <1>7, <2>1 DEF PlaceOK, CountsOut, CountSent, Reached,
         AfterCount, AfterPayload, AfterReverse
    <2>3. PayloadsOut(p, q)' = PayloadsOut(p, q)
      BY <1>1, <1>2, <1>3, <1>4, <1>5, <1>7, <2>1 DEF PlaceOK, PayloadsOut, PayloadSent, Reached,
         AfterCount, AfterPayload, AfterReverse
    <2>4. ReturnsOut(p, q)' = IF p = r /\ q = d THEN ReturnsOut(p, q) + 1 ELSE ReturnsOut(p, q)
      BY <1>1, <1>2, <1>3, <1>4, <1>5, <1>7, <2>1 DEF PlaceOK, ReturnsOut, ReverseSent, Reached,
         AfterCount, AfterPayload, AfterReverse
    <2>5. LayersDone(p)' = LayersDone(p)
      BY <1>1, <1>2, <1>3, <1>4, <1>5, <1>7, <2>1 DEF PlaceOK, LayersDone, Reached, AfterCount,
         AfterPayload, AfterReverse
    <2> QED
      BY <2>2, <2>3, <2>4, <2>5
  <1>8. ASSUME NEW q \in Ranks, NEW p \in Ranks, p # q
        PROVE  Close(q, p)' /\ CountersOK(q, p)'
    <2>1. Close(q, p) /\ Close(p, q) /\ PlaceOK(q) /\ PlaceOK(p) /\ CountersOK(q, p)
      BY <1>8 DEF ControlOK
    <2>2. /\ CountsOut(p, q)' = CountsOut(p, q)
          /\ PayloadsOut(p, q)' = PayloadsOut(p, q)
          /\ ReturnsOut(p, q)' = IF p = r /\ q = d THEN ReturnsOut(p, q) + 1 ELSE ReturnsOut(p, q)
      BY <1>7, <1>8
    <2>3. LayersDone(q)' = LayersDone(q)
      BY <1>7, <1>8
    <2>4. /\ layer[q] \in 1 .. Layers /\ layer[p] \in 1 .. Layers
          /\ CountsOut(p, q) \in 0 .. Layers /\ PayloadsOut(p, q) \in 0 .. Layers
          /\ ReturnsOut(p, q) \in 0 .. Layers /\ LayersDone(q) \in 0 .. Layers
          /\ request[q] \in 0 .. Requests /\ request[p] \in 0 .. Requests
          /\ stage[q] \in Stages /\ stage[p] \in Stages
      BY OutFacts DEF ControlType
    <2>8. /\ stage[q] \in AfterReverse => LayersDone(q) = layer[q]
          /\ stage[q] \notin AfterReverse => LayersDone(q) = layer[q] - 1
          /\ stage[p] \in {"pack", "count", "payload", "experts", "stopped"} => ReturnsOut(p, q) = layer[p] - 1
          /\ stage[p] = "reverse" /\ q \notin told[p] => ReturnsOut(p, q) = layer[p] - 1
      BY OutValues
    <2>5. Close(q, p)'
      BY <1>1, <1>2, <1>3, <1>4, <1>5, <1>8, <2>1, <2>2, <2>3, <2>4, <2>8 DEF PlaceOK, CountersOK,
         Cleared, Close, AfterCount, AfterPayload, AfterReverse, Stages
    <2>6. CountersOK(q, p)'
      <3>1. p = r /\ q = d => ~ Cleared(q, p)
        <4> SUFFICES ASSUME p = r /\ q = d PROVE ~ Cleared(q, p)
          OBVIOUS
        <4>1. q \in Ranks /\ p \in Ranks /\ p # q
          BY <1>8
        <4> QED
          BY <1>2, <4>1, NotYetCleared
      <3>2. Cleared(q, p)' <=> Cleared(q, p)
        BY <1>1, <1>2, <1>3, <1>4, <1>5 DEF Cleared
      <3> QED
        BY <1>1, <1>2, <1>3, <1>4, <1>5, <1>8, <2>1, <2>2, <2>4, <3>1, <3>2 DEF CountersOK
    <2> QED
      BY <2>5, <2>6
  <1>9. ControlOK'
    <2>1. \A q \in Ranks : Close(q, q)'
      <3>1. \A q \in Ranks : request'[q] \in Int
        BY <1>1, <1>2, <1>3, <1>4, <1>5, ControlValues
      <3> QED
        BY <3>1 DEF Close
    <2> QED
      BY <1>6, <1>8, <2>1 DEF ControlOK
  <1>10. ControlType'
    <2>1. told' \in [Ranks -> SUBSET Ranks]
      <3>1. told[r] \cup {d} \in SUBSET Ranks
        BY <1>1, <1>2, ControlValues DEF Stages
      <3> QED
        BY <3>1 DEF NotifyReverse, Peers, ControlType
    <2>2. reverseSignal' \in [Ranks -> [Ranks -> 0 .. Layers]]
      <3>0. d \in Ranks
        BY <1>1, <1>2, ControlValues
      <3>1. CASE d = r
        BY <3>1, <1>2 DEF NotifyReverse, Peers, ControlType
      <3>2. CASE d # r
        <4>1. ~ Cleared(d, r)
          BY <3>0, <3>2, <1>2, NotYetCleared
        <4>2. reverseSignal[d][r] = ReturnsOut(r, d)
          BY <3>0, <3>2, <4>1 DEF ControlOK, CountersOK
        <4>3. ReturnsOut(r, d) = layer[r] - 1
          BY <1>2, <3>0, OutValues, ControlValues
        <4>4. reverseSignal[d][r] + 1 \in 0 .. Layers
          BY <1>1, <4>2, <4>3, ControlValues
        <4> QED
          BY <3>0, <4>4 DEF NotifyReverse, Peers, ControlType
      <3> QED
        BY <3>1, <3>2
    <2> QED
      BY <1>1, <2>1, <2>2, <1>5 DEF ControlType
  <1> QED
    BY <1>9, <1>10

LEMMA FinalizeControl ==
    ASSUME Sizes, ControlType, ControlOK, NEW r \in Ranks, Finalize(r)
    PROVE  ControlType' /\ ControlOK'
  <1>1. EP \in Nat \ {0} /\ Layers \in Nat \ {0} /\ Requests \in Nat /\ Ranks = 0 .. EP - 1
    BY SizeFacts DEF Ranks
  <1>2. stage[r] = "reverse" /\ told[r] = Ranks \ {r} /\ \A x \in Ranks \ {r} : reverseSignal[r][x] >= layer[r]
    BY DEF Finalize, Heard, Peers
  <1>3. \A q \in Ranks : stage'[q] = IF q = r THEN "complete" ELSE stage[q]
    BY DEF Finalize, Heard, Peers, ControlType
  <1>4. \A q \in Ranks : sent'[q] = IF q = r THEN {} ELSE sent[q]
    BY DEF Finalize, Heard, Peers, ControlType
  <1>5. \A q \in Ranks : told'[q] = IF q = r THEN {} ELSE told[q]
    BY DEF Finalize, Heard, Peers, ControlType
  <1>6. UNCHANGED <<request, waiting, layer, counted, countSignal, xSignal, reverseSignal>>
    BY DEF Finalize, progress, signals, Heard, Peers
  <1>7. ASSUME NEW q \in Ranks
        PROVE  PlaceOK(q)'
    <2>1. PlaceOK(q) /\ PlaceOK(r)
      BY DEF ControlOK
    <2>2. request[q] \in 0 .. Requests /\ layer[q] \in 1 .. Layers /\ counted[q] \in 0 .. EP
          /\ sent[q] \subseteq Ranks /\ told[q] \subseteq Ranks
      BY DEF ControlType
    <2> QED
      BY <1>1, <1>2, <1>3, <1>4, <1>5, <1>6, <2>1, <2>2 DEF PlaceOK, Peers
  <1>8. ASSUME NEW p \in Ranks, NEW q \in Ranks, p # q
        PROVE  /\ CountsOut(p, q)' = CountsOut(p, q)
               /\ PayloadsOut(p, q)' = PayloadsOut(p, q)
               /\ ReturnsOut(p, q)' = ReturnsOut(p, q)
               /\ LayersDone(p)' = IF p = r THEN LayersDone(p) + 1 ELSE LayersDone(p)
    <2>1. PlaceOK(p) /\ layer[p] \in Nat /\ q \in Nat /\ counted[r] \in Nat
      <3>1. PlaceOK(p)
        BY DEF ControlOK
      <3>2. layer[p] \in Nat /\ counted[r] \in Nat
        BY ControlValues
      <3> QED
        BY <1>1, <3>1, <3>2
    <2>2. CountsOut(p, q)' = CountsOut(p, q)
      BY <1>1, <1>2, <1>3, <1>4, <1>5, <1>6, <1>8, <2>1 DEF PlaceOK, CountsOut, CountSent, Reached,
         AfterCount, AfterPayload, AfterReverse
    <2>3. PayloadsOut(p, q)' = PayloadsOut(p, q)
      BY <1>1, <1>2, <1>3, <1>4, <1>5, <1>6, <1>8, <2>1 DEF PlaceOK, PayloadsOut, PayloadSent,
         Reached, AfterCount, AfterPayload, AfterReverse
    <2>4. ReturnsOut(p, q)' = ReturnsOut(p, q)
      BY <1>1, <1>2, <1>3, <1>4, <1>5, <1>6, <1>8, <2>1 DEF PlaceOK, ReturnsOut, ReverseSent,
         Reached, AfterCount, AfterPayload, AfterReverse
    <2>5. LayersDone(p)' = IF p = r THEN LayersDone(p) + 1 ELSE LayersDone(p)
      BY <1>1, <1>2, <1>3, <1>4, <1>5, <1>6, <1>8, <2>1 DEF PlaceOK, LayersDone, Reached,
         AfterCount, AfterPayload, AfterReverse
    <2> QED
      BY <2>2, <2>3, <2>4, <2>5
  <1>9. ASSUME NEW q \in Ranks, NEW p \in Ranks, p # q
        PROVE  Close(q, p)' /\ CountersOK(q, p)'
    <2>1. Close(q, p) /\ Close(p, q) /\ PlaceOK(q) /\ PlaceOK(p) /\ CountersOK(q, p)
      BY <1>9 DEF ControlOK
    <2>2. /\ CountsOut(p, q)' = CountsOut(p, q)
          /\ PayloadsOut(p, q)' = PayloadsOut(p, q)
          /\ ReturnsOut(p, q)' = ReturnsOut(p, q)
      BY <1>8, <1>9
    <2>3. LayersDone(q)' = IF q = r THEN LayersDone(q) + 1 ELSE LayersDone(q)
      BY <1>8, <1>9
    <2>4. /\ layer[q] \in 1 .. Layers /\ layer[p] \in 1 .. Layers
          /\ CountsOut(p, q) \in 0 .. Layers /\ PayloadsOut(p, q) \in 0 .. Layers
          /\ ReturnsOut(p, q) \in 0 .. Layers /\ LayersDone(q) \in 0 .. Layers
          /\ request[q] \in 0 .. Requests /\ request[p] \in 0 .. Requests
          /\ stage[q] \in Stages /\ stage[p] \in Stages
      BY OutFacts DEF ControlType
    <2>8. /\ stage[q] \in AfterReverse => LayersDone(q) = layer[q]
          /\ stage[q] \notin AfterReverse => LayersDone(q) = layer[q] - 1
          /\ stage[p] \in {"pack", "count", "payload", "experts", "stopped"} => ReturnsOut(p, q) = layer[p] - 1
          /\ stage[p] = "reverse" /\ q \notin told[p] => ReturnsOut(p, q) = layer[p] - 1
      BY OutValues
    <2>5. Close(q, p)'
      <3>1. CASE q = r
        BY <1>1, <1>2, <1>3, <1>4, <1>5, <1>6, <1>9, <2>1, <2>2, <2>3, <2>4, <2>8, <3>1, SMTT(30)
           DEF PlaceOK,
           CountersOK, Cleared, Close, AfterCount, AfterPayload, AfterReverse, Stages
      <3>2. CASE p = r
        BY <1>1, <1>2, <1>3, <1>4, <1>5, <1>6, <1>9, <2>1, <2>2, <2>3, <2>4, <2>8, <3>2 DEF PlaceOK,
           CountersOK, Cleared, Close, AfterCount, AfterPayload, AfterReverse, Stages
      <3>3. CASE q # r /\ p # r
        BY <1>1, <1>2, <1>3, <1>4, <1>5, <1>6, <1>9, <2>1, <2>2, <2>3, <2>4, <2>8, <3>3 DEF PlaceOK,
           CountersOK, Cleared, Close, AfterCount, AfterPayload, AfterReverse, Stages
      <3> QED
        BY <3>1, <3>2, <3>3
    <2>6. CountersOK(q, p)'
      BY <1>1, <1>2, <1>3, <1>4, <1>5, <1>6, <1>9, <2>1, <2>2, <2>4, <2>8 DEF PlaceOK, CountersOK,
         Cleared, Close, AfterCount, AfterPayload, AfterReverse, Stages
    <2> QED
      BY <2>5, <2>6
  <1>10. ControlOK'
    <2>1. \A q \in Ranks : Close(q, q)'
      <3>1. \A q \in Ranks : request'[q] \in Int
        BY <1>1, <1>2, <1>3, <1>4, <1>5, <1>6, ControlValues
      <3> QED
        BY <3>1 DEF Close
    <2> QED
      BY <1>7, <1>9, <2>1 DEF ControlOK
  <1>11. ControlType'
    <2>1. stage' \in [Ranks -> Stages]
      <3>1. "complete" \in Stages
        BY <1>1, <1>2, ControlValues DEF Stages
      <3> QED
        BY <3>1 DEF Finalize, Heard, Peers, ControlType
    <2>2. sent' \in [Ranks -> SUBSET Ranks]
      <3>1. {} \in SUBSET Ranks
        BY <1>1, <1>2, ControlValues DEF Stages
      <3> QED
        BY <3>1 DEF Finalize, Heard, Peers, ControlType
    <2>3. told' \in [Ranks -> SUBSET Ranks]
      <3>1. {} \in SUBSET Ranks
        BY <1>1, <1>2, ControlValues DEF Stages
      <3> QED
        BY <3>1 DEF Finalize, Heard, Peers, ControlType
    <2> QED
      BY <1>1, <2>1, <2>2, <2>3, <1>6 DEF ControlType
  <1> QED
    BY <1>10, <1>11

LEMMA NextLayerControl ==
    ASSUME Sizes, ControlType, ControlOK, NEW r \in Ranks, NextLayer(r)
    PROVE  ControlType' /\ ControlOK'
  <1>1. EP \in Nat \ {0} /\ Layers \in Nat \ {0} /\ Requests \in Nat /\ Ranks = 0 .. EP - 1
    BY SizeFacts DEF Ranks
  <1>2. stage[r] = "complete" /\ layer[r] < Layers
    BY DEF NextLayer
  <1>3. \A q \in Ranks : stage'[q] = IF q = r THEN "pack" ELSE stage[q]
    BY DEF NextLayer, ControlType
  <1>4. \A q \in Ranks : layer'[q] = IF q = r THEN layer[r] + 1 ELSE layer[q]
    BY DEF NextLayer, ControlType
  <1>5. UNCHANGED <<request, waiting, counted, sent, told, countSignal, xSignal, reverseSignal>>
    BY DEF NextLayer, progress, signals
  <1>6. ASSUME NEW q \in Ranks
        PROVE  PlaceOK(q)'
    <2>1. PlaceOK(q) /\ PlaceOK(r)
      BY DEF ControlOK
    <2>2. request[q] \in 0 .. Requests /\ layer[q] \in 1 .. Layers /\ counted[q] \in 0 .. EP
          /\ sent[q] \subseteq Ranks /\ told[q] \subseteq Ranks
      BY DEF ControlType
    <2> QED
      BY <1>1, <1>2, <1>3, <1>4, <1>5, <2>1, <2>2 DEF PlaceOK, Peers
  <1>7. ASSUME NEW p \in Ranks, NEW q \in Ranks, p # q
        PROVE  /\ CountsOut(p, q)' = CountsOut(p, q)
               /\ PayloadsOut(p, q)' = PayloadsOut(p, q)
               /\ ReturnsOut(p, q)' = ReturnsOut(p, q)
               /\ LayersDone(p)' = LayersDone(p)
    <2>1. PlaceOK(p) /\ layer[p] \in Nat /\ q \in Nat /\ counted[r] \in Nat
      <3>1. PlaceOK(p)
        BY DEF ControlOK
      <3>2. layer[p] \in Nat /\ counted[r] \in Nat
        BY ControlValues
      <3> QED
        BY <1>1, <3>1, <3>2
    <2>2. CountsOut(p, q)' = CountsOut(p, q)
      BY <1>1, <1>2, <1>3, <1>4, <1>5, <1>7, <2>1, SMTT(30) DEF PlaceOK, CountsOut, CountSent,
         Reached, AfterCount, AfterPayload, AfterReverse
    <2>3. PayloadsOut(p, q)' = PayloadsOut(p, q)
      BY <1>1, <1>2, <1>3, <1>4, <1>5, <1>7, <2>1 DEF PlaceOK, PayloadsOut, PayloadSent, Reached,
         AfterCount, AfterPayload, AfterReverse
    <2>4. ReturnsOut(p, q)' = ReturnsOut(p, q)
      BY <1>1, <1>2, <1>3, <1>4, <1>5, <1>7, <2>1 DEF PlaceOK, ReturnsOut, ReverseSent, Reached,
         AfterCount, AfterPayload, AfterReverse
    <2>5. LayersDone(p)' = LayersDone(p)
      BY <1>1, <1>2, <1>3, <1>4, <1>5, <1>7, <2>1 DEF PlaceOK, LayersDone, Reached, AfterCount,
         AfterPayload, AfterReverse
    <2> QED
      BY <2>2, <2>3, <2>4, <2>5
  <1>8. ASSUME NEW q \in Ranks, NEW p \in Ranks, p # q
        PROVE  Close(q, p)' /\ CountersOK(q, p)'
    <2>1. Close(q, p) /\ Close(p, q) /\ PlaceOK(q) /\ PlaceOK(p) /\ CountersOK(q, p)
      BY <1>8 DEF ControlOK
    <2>2. /\ CountsOut(p, q)' = CountsOut(p, q)
          /\ PayloadsOut(p, q)' = PayloadsOut(p, q)
          /\ ReturnsOut(p, q)' = ReturnsOut(p, q)
      BY <1>7, <1>8
    <2>3. LayersDone(q)' = LayersDone(q)
      BY <1>7, <1>8
    <2>4. /\ layer[q] \in 1 .. Layers /\ layer[p] \in 1 .. Layers
          /\ CountsOut(p, q) \in 0 .. Layers /\ PayloadsOut(p, q) \in 0 .. Layers
          /\ ReturnsOut(p, q) \in 0 .. Layers /\ LayersDone(q) \in 0 .. Layers
          /\ request[q] \in 0 .. Requests /\ request[p] \in 0 .. Requests
          /\ stage[q] \in Stages /\ stage[p] \in Stages
      BY OutFacts DEF ControlType
    <2>8. /\ stage[q] \in AfterReverse => LayersDone(q) = layer[q]
          /\ stage[q] \notin AfterReverse => LayersDone(q) = layer[q] - 1
          /\ stage[p] \in {"pack", "count", "payload", "experts", "stopped"} => ReturnsOut(p, q) = layer[p] - 1
          /\ stage[p] = "reverse" /\ q \notin told[p] => ReturnsOut(p, q) = layer[p] - 1
      BY OutValues
    <2>5. Close(q, p)'
      BY <1>1, <1>2, <1>3, <1>4, <1>5, <1>8, <2>1, <2>2, <2>3, <2>4, <2>8 DEF PlaceOK, CountersOK,
         Cleared, Close, AfterCount, AfterPayload, AfterReverse, Stages
    <2>6. CountersOK(q, p)'
      BY <1>1, <1>2, <1>3, <1>4, <1>5, <1>8, <2>1, <2>2, <2>4, <2>8 DEF PlaceOK, CountersOK,
         Cleared, Close, AfterCount, AfterPayload, AfterReverse, Stages
    <2> QED
      BY <2>5, <2>6
  <1>9. ControlOK'
    <2>1. \A q \in Ranks : Close(q, q)'
      <3>1. \A q \in Ranks : request'[q] \in Int
        BY <1>1, <1>2, <1>3, <1>4, <1>5, ControlValues
      <3> QED
        BY <3>1 DEF Close
    <2> QED
      BY <1>6, <1>8, <2>1 DEF ControlOK
  <1>10. ControlType'
    <2>1. stage' \in [Ranks -> Stages]
      <3>1. "pack" \in Stages
        BY <1>1, <1>2, ControlValues DEF Stages
      <3> QED
        BY <3>1 DEF NextLayer, ControlType
    <2>2. layer' \in [Ranks -> 1 .. Layers]
      <3>1. layer[r] + 1 \in 1 .. Layers
        BY <1>1, <1>2, ControlValues DEF Stages
      <3> QED
        BY <3>1 DEF NextLayer, ControlType
    <2> QED
      BY <1>1, <2>1, <2>2, <1>5 DEF ControlType
  <1> QED
    BY <1>9, <1>10

LEMMA ClearSignalsControl ==
    ASSUME Sizes, ControlType, ControlOK, NEW r \in Ranks, ClearSignals(r)
    PROVE  ControlType' /\ ControlOK'
  <1>1. EP \in Nat \ {0} /\ Layers \in Nat \ {0} /\ Requests \in Nat /\ Ranks = 0 .. EP - 1
    BY SizeFacts DEF Ranks
  <1>2. stage[r] = "complete" /\ layer[r] = Layers
    BY DEF ClearSignals, ClearDue, Zeroed
  <1>3. \A q \in Ranks : stage'[q] = IF q = r THEN "arrive" ELSE stage[q]
    BY DEF ClearSignals, ClearDue, Zeroed, ControlType
  <1>4. \A q, p \in Ranks : countSignal'[q][p] = IF q = r THEN 0 ELSE countSignal[q][p]
    BY <1>1, <1>2 DEF ClearSignals, ClearDue, Zeroed, ControlType
  <1>5. \A q, p \in Ranks : xSignal'[q][p] = IF q = r THEN 0 ELSE xSignal[q][p]
    BY DEF ClearSignals, ClearDue, Zeroed, ControlType
  <1>6. \A q, p \in Ranks : reverseSignal'[q][p] = IF q = r THEN 0 ELSE reverseSignal[q][p]
    BY DEF ClearSignals, ClearDue, Zeroed, ControlType
  <1>7. UNCHANGED <<request, waiting, layer, counted, sent, told>>
    BY DEF ClearSignals, progress, signals, ClearDue, Zeroed
  <1>8. ASSUME NEW q \in Ranks
        PROVE  PlaceOK(q)'
    <2>1. PlaceOK(q) /\ PlaceOK(r)
      BY DEF ControlOK
    <2>2. request[q] \in 0 .. Requests /\ layer[q] \in 1 .. Layers /\ counted[q] \in 0 .. EP
          /\ sent[q] \subseteq Ranks /\ told[q] \subseteq Ranks
      BY DEF ControlType
    <2> QED
      BY <1>1, <1>2, <1>3, <1>4, <1>5, <1>6, <1>7, <2>1, <2>2 DEF PlaceOK, Peers
  <1>9. ASSUME NEW p \in Ranks, NEW q \in Ranks, p # q
        PROVE  /\ CountsOut(p, q)' = CountsOut(p, q)
               /\ PayloadsOut(p, q)' = PayloadsOut(p, q)
               /\ ReturnsOut(p, q)' = ReturnsOut(p, q)
               /\ LayersDone(p)' = LayersDone(p)
    <2>1. PlaceOK(p) /\ layer[p] \in Nat /\ q \in Nat /\ counted[r] \in Nat
      <3>1. PlaceOK(p)
        BY DEF ControlOK
      <3>2. layer[p] \in Nat /\ counted[r] \in Nat
        BY ControlValues
      <3> QED
        BY <1>1, <3>1, <3>2
    <2>2. CountsOut(p, q)' = CountsOut(p, q)
      BY <1>1, <1>2, <1>3, <1>4, <1>5, <1>6, <1>7, <1>9, <2>1 DEF PlaceOK, CountsOut, CountSent,
         Reached, AfterCount, AfterPayload, AfterReverse
    <2>3. PayloadsOut(p, q)' = PayloadsOut(p, q)
      BY <1>1, <1>2, <1>3, <1>4, <1>5, <1>6, <1>7, <1>9, <2>1 DEF PlaceOK, PayloadsOut, PayloadSent,
         Reached, AfterCount, AfterPayload, AfterReverse
    <2>4. ReturnsOut(p, q)' = ReturnsOut(p, q)
      BY <1>1, <1>2, <1>3, <1>4, <1>5, <1>6, <1>7, <1>9, <2>1 DEF PlaceOK, ReturnsOut, ReverseSent,
         Reached, AfterCount, AfterPayload, AfterReverse
    <2>5. LayersDone(p)' = LayersDone(p)
      BY <1>1, <1>2, <1>3, <1>4, <1>5, <1>6, <1>7, <1>9, <2>1 DEF PlaceOK, LayersDone, Reached,
         AfterCount, AfterPayload, AfterReverse
    <2> QED
      BY <2>2, <2>3, <2>4, <2>5
  <1>10. ASSUME NEW q \in Ranks, NEW p \in Ranks, p # q
        PROVE  Close(q, p)' /\ CountersOK(q, p)'
    <2>1. Close(q, p) /\ Close(p, q) /\ PlaceOK(q) /\ PlaceOK(p) /\ CountersOK(q, p)
      BY <1>10 DEF ControlOK
    <2>2. /\ CountsOut(p, q)' = CountsOut(p, q)
          /\ PayloadsOut(p, q)' = PayloadsOut(p, q)
          /\ ReturnsOut(p, q)' = ReturnsOut(p, q)
      BY <1>9, <1>10
    <2>3. LayersDone(q)' = LayersDone(q)
      BY <1>9, <1>10
    <2>4. /\ layer[q] \in 1 .. Layers /\ layer[p] \in 1 .. Layers
          /\ CountsOut(p, q) \in 0 .. Layers /\ PayloadsOut(p, q) \in 0 .. Layers
          /\ ReturnsOut(p, q) \in 0 .. Layers /\ LayersDone(q) \in 0 .. Layers
          /\ request[q] \in 0 .. Requests /\ request[p] \in 0 .. Requests
          /\ stage[q] \in Stages /\ stage[p] \in Stages
      BY OutFacts DEF ControlType
    <2>8. /\ stage[q] \in AfterReverse => LayersDone(q) = layer[q]
          /\ stage[q] \notin AfterReverse => LayersDone(q) = layer[q] - 1
          /\ stage[p] \in {"pack", "count", "payload", "experts", "stopped"} => ReturnsOut(p, q) = layer[p] - 1
          /\ stage[p] = "reverse" /\ q \notin told[p] => ReturnsOut(p, q) = layer[p] - 1
      BY OutValues
    <2>5. Close(q, p)'
      BY <1>1, <1>2, <1>3, <1>4, <1>5, <1>6, <1>7, <1>10, <2>1, <2>2, <2>3, <2>4, <2>8 DEF PlaceOK,
         CountersOK, Cleared, Close, AfterCount, AfterPayload, AfterReverse, Stages
    <2>6. CountersOK(q, p)'
      BY <1>1, <1>2, <1>3, <1>4, <1>5, <1>6, <1>7, <1>10, <2>1, <2>2, <2>4, <2>8, SMTT(30)
         DEF PlaceOK,
         CountersOK, Cleared, Close, AfterCount, AfterPayload, AfterReverse, Stages
    <2> QED
      BY <2>5, <2>6
  <1>11. ControlOK'
    <2>1. \A q \in Ranks : Close(q, q)'
      <3>1. \A q \in Ranks : request'[q] \in Int
        BY <1>1, <1>2, <1>3, <1>4, <1>5, <1>6, <1>7, ControlValues
      <3> QED
        BY <3>1 DEF Close
    <2> QED
      BY <1>8, <1>10, <2>1 DEF ControlOK
  <1>12. ControlType'
    <2>1. stage' \in [Ranks -> Stages]
      <3>1. "arrive" \in Stages
        BY <1>1, <1>2, ControlValues DEF Stages
      <3> QED
        BY <3>1 DEF ClearSignals, ClearDue, Zeroed, ControlType
    <2>2. countSignal' \in [Ranks -> [Ranks -> 0 .. Layers]]
      <3>1. [p \in Ranks |-> 0] \in [Ranks -> 0 .. Layers]
        BY <1>1
      <3> QED
        BY <3>1 DEF ClearSignals, ClearDue, Zeroed, ControlType
    <2>3. xSignal' \in [Ranks -> [Ranks -> 0 .. Layers]]
      <3>1. [p \in Ranks |-> 0] \in [Ranks -> 0 .. Layers]
        BY <1>1
      <3> QED
        BY <3>1 DEF ClearSignals, ClearDue, Zeroed, ControlType
    <2>4. reverseSignal' \in [Ranks -> [Ranks -> 0 .. Layers]]
      <3>1. [p \in Ranks |-> 0] \in [Ranks -> 0 .. Layers]
        BY <1>1
      <3> QED
        BY <3>1 DEF ClearSignals, ClearDue, Zeroed, ControlType
    <2> QED
      BY <1>1, <2>1, <2>2, <2>3, <2>4, <1>7 DEF ControlType
  <1> QED
    BY <1>11, <1>12

LEMMA ArriveControl ==
    ASSUME Sizes, ControlType, ControlOK, NEW r \in Ranks, Arrive(r)
    PROVE  ControlType' /\ ControlOK'
  <1>1. EP \in Nat \ {0} /\ Layers \in Nat \ {0} /\ Requests \in Nat /\ Ranks = 0 .. EP - 1
    BY SizeFacts DEF Ranks
  <1>2. stage[r] = "arrive" /\ request[r] < Requests
    BY DEF Arrive, Barrier!Reach
  <1>3. \A q \in Ranks : waiting'[q] = IF q = r THEN TRUE ELSE waiting[q]
    BY DEF Arrive, Barrier!Reach, ControlType
  <1>4. UNCHANGED <<request, layer, stage, counted, sent, told, countSignal, xSignal, reverseSignal>>
    BY DEF Arrive, progress, signals, Barrier!Reach
  <1>5. ASSUME NEW q \in Ranks
        PROVE  PlaceOK(q)'
    <2>1. PlaceOK(q) /\ PlaceOK(r)
      BY DEF ControlOK
    <2>2. request[q] \in 0 .. Requests /\ layer[q] \in 1 .. Layers /\ counted[q] \in 0 .. EP
          /\ sent[q] \subseteq Ranks /\ told[q] \subseteq Ranks
      BY DEF ControlType
    <2> QED
      BY <1>1, <1>2, <1>3, <1>4, <2>1, <2>2 DEF PlaceOK, Peers
  <1>6. ASSUME NEW p \in Ranks, NEW q \in Ranks, p # q
        PROVE  /\ CountsOut(p, q)' = CountsOut(p, q)
               /\ PayloadsOut(p, q)' = PayloadsOut(p, q)
               /\ ReturnsOut(p, q)' = ReturnsOut(p, q)
               /\ LayersDone(p)' = LayersDone(p)
    <2>1. PlaceOK(p) /\ layer[p] \in Nat /\ q \in Nat /\ counted[r] \in Nat
      <3>1. PlaceOK(p)
        BY DEF ControlOK
      <3>2. layer[p] \in Nat /\ counted[r] \in Nat
        BY ControlValues
      <3> QED
        BY <1>1, <3>1, <3>2
    <2>2. CountsOut(p, q)' = CountsOut(p, q)
      BY <1>1, <1>2, <1>3, <1>4, <1>6, <2>1 DEF PlaceOK, CountsOut, CountSent, Reached, AfterCount,
         AfterPayload, AfterReverse
    <2>3. PayloadsOut(p, q)' = PayloadsOut(p, q)
      BY <1>1, <1>2, <1>3, <1>4, <1>6, <2>1 DEF PlaceOK, PayloadsOut, PayloadSent, Reached,
         AfterCount, AfterPayload, AfterReverse
    <2>4. ReturnsOut(p, q)' = ReturnsOut(p, q)
      BY <1>1, <1>2, <1>3, <1>4, <1>6, <2>1 DEF PlaceOK, ReturnsOut, ReverseSent, Reached,
         AfterCount, AfterPayload, AfterReverse
    <2>5. LayersDone(p)' = LayersDone(p)
      BY <1>1, <1>2, <1>3, <1>4, <1>6, <2>1 DEF PlaceOK, LayersDone, Reached, AfterCount,
         AfterPayload, AfterReverse
    <2> QED
      BY <2>2, <2>3, <2>4, <2>5
  <1>7. ASSUME NEW q \in Ranks, NEW p \in Ranks, p # q
        PROVE  Close(q, p)' /\ CountersOK(q, p)'
    <2>1. Close(q, p) /\ Close(p, q) /\ PlaceOK(q) /\ PlaceOK(p) /\ CountersOK(q, p)
      BY <1>7 DEF ControlOK
    <2>2. /\ CountsOut(p, q)' = CountsOut(p, q)
          /\ PayloadsOut(p, q)' = PayloadsOut(p, q)
          /\ ReturnsOut(p, q)' = ReturnsOut(p, q)
      BY <1>6, <1>7
    <2>3. LayersDone(q)' = LayersDone(q)
      BY <1>6, <1>7
    <2>4. /\ layer[q] \in 1 .. Layers /\ layer[p] \in 1 .. Layers
          /\ CountsOut(p, q) \in 0 .. Layers /\ PayloadsOut(p, q) \in 0 .. Layers
          /\ ReturnsOut(p, q) \in 0 .. Layers /\ LayersDone(q) \in 0 .. Layers
          /\ request[q] \in 0 .. Requests /\ request[p] \in 0 .. Requests
          /\ stage[q] \in Stages /\ stage[p] \in Stages
      BY OutFacts DEF ControlType
    <2>8. /\ stage[q] \in AfterReverse => LayersDone(q) = layer[q]
          /\ stage[q] \notin AfterReverse => LayersDone(q) = layer[q] - 1
          /\ stage[p] \in {"pack", "count", "payload", "experts", "stopped"} => ReturnsOut(p, q) = layer[p] - 1
          /\ stage[p] = "reverse" /\ q \notin told[p] => ReturnsOut(p, q) = layer[p] - 1
      BY OutValues
    <2>5. Close(q, p)'
      BY <1>1, <1>2, <1>3, <1>4, <1>7, <2>1, <2>2, <2>3, <2>4, <2>8 DEF PlaceOK, CountersOK,
         Cleared, Close, AfterCount, AfterPayload, AfterReverse, Stages
    <2>6. CountersOK(q, p)'
      BY <1>1, <1>2, <1>3, <1>4, <1>7, <2>1, <2>2, <2>4, <2>8 DEF PlaceOK, CountersOK, Cleared,
         Close, AfterCount, AfterPayload, AfterReverse, Stages
    <2> QED
      BY <2>5, <2>6
  <1>8. ControlOK'
    <2>1. \A q \in Ranks : Close(q, q)'
      <3>1. \A q \in Ranks : request'[q] \in Int
        BY <1>1, <1>2, <1>3, <1>4, ControlValues
      <3> QED
        BY <3>1 DEF Close
    <2> QED
      BY <1>5, <1>7, <2>1 DEF ControlOK
  <1>9. ControlType'
    <2>1. waiting' \in [Ranks -> BOOLEAN]
      <3>1. TRUE \in BOOLEAN
        BY <1>1, <1>2, ControlValues DEF Stages
      <3> QED
        BY <3>1 DEF Arrive, Barrier!Reach, ControlType
    <2> QED
      BY <1>1, <2>1, <1>4 DEF ControlType
  <1> QED
    BY <1>8, <1>9

LEMMA LeaveControl ==
    ASSUME Sizes, ControlType, ControlOK, NEW r \in Ranks, Leave(r)
    PROVE  ControlType' /\ ControlOK'
  <1>1. EP \in Nat \ {0} /\ Layers \in Nat \ {0} /\ Requests \in Nat /\ Ranks = 0 .. EP - 1
    BY SizeFacts DEF Ranks
  <1>2. waiting[r] /\ \A x \in Ranks : request[x] > request[r] \/ (request[x] = request[r] /\ waiting[x])
    BY DEF Leave, Barrier!Leave, Barrier!Through
  <1>3. \A q \in Ranks : request'[q] = IF q = r THEN request[r] + 1 ELSE request[q]
    BY <1>1, <1>2 DEF Leave, Barrier!Leave, Barrier!Through, ControlType
  <1>4. \A q \in Ranks : waiting'[q] = IF q = r THEN FALSE ELSE waiting[q]
    BY <1>1, <1>2 DEF Leave, Barrier!Leave, Barrier!Through, ControlType
  <1>5. \A q \in Ranks : layer'[q] = IF q = r THEN 1 ELSE layer[q]
    BY <1>1, <1>2 DEF Leave, Barrier!Leave, Barrier!Through, ControlType
  <1>6. \A q \in Ranks : stage'[q] = IF q = r THEN (IF request[r] + 1 = Requests THEN "stopped" ELSE "pack") ELSE stage[q]
    BY <1>1, <1>2 DEF Leave, Barrier!Leave, Barrier!Through, ControlType
  <1>7. UNCHANGED <<counted, sent, told, countSignal, xSignal, reverseSignal>>
    BY DEF Leave, progress, signals, Barrier!Leave, Barrier!Through
  <1>8. ASSUME NEW q \in Ranks
        PROVE  PlaceOK(q)'
    <2>1. PlaceOK(q) /\ PlaceOK(r)
      BY DEF ControlOK
    <2>2. request[q] \in 0 .. Requests /\ layer[q] \in 1 .. Layers /\ counted[q] \in 0 .. EP
          /\ sent[q] \subseteq Ranks /\ told[q] \subseteq Ranks
      BY DEF ControlType
    <2> QED
      BY <1>1, <1>2, <1>3, <1>4, <1>5, <1>6, <1>7, <2>1, <2>2 DEF PlaceOK, Peers
  <1>9. ASSUME NEW p \in Ranks, NEW q \in Ranks, p # q
        PROVE  /\ CountsOut(p, q)' = IF p = r THEN 0 ELSE CountsOut(p, q)
               /\ PayloadsOut(p, q)' = IF p = r THEN 0 ELSE PayloadsOut(p, q)
               /\ ReturnsOut(p, q)' = IF p = r THEN 0 ELSE ReturnsOut(p, q)
               /\ LayersDone(p)' = IF p = r THEN 0 ELSE LayersDone(p)
    <2>1. PlaceOK(p) /\ layer[p] \in Nat /\ q \in Nat /\ counted[r] \in Nat
      <3>1. PlaceOK(p)
        BY DEF ControlOK
      <3>2. layer[p] \in Nat /\ counted[r] \in Nat
        BY ControlValues
      <3> QED
        BY <1>1, <3>1, <3>2
    <2>2. CountsOut(p, q)' = IF p = r THEN 0 ELSE CountsOut(p, q)
      BY <1>1, <1>2, <1>3, <1>4, <1>5, <1>6, <1>7, <1>9, <2>1 DEF PlaceOK, CountsOut, CountSent,
         Reached, AfterCount, AfterPayload, AfterReverse
    <2>3. PayloadsOut(p, q)' = IF p = r THEN 0 ELSE PayloadsOut(p, q)
      BY <1>1, <1>2, <1>3, <1>4, <1>5, <1>6, <1>7, <1>9, <2>1 DEF PlaceOK, PayloadsOut, PayloadSent,
         Reached, AfterCount, AfterPayload, AfterReverse
    <2>4. ReturnsOut(p, q)' = IF p = r THEN 0 ELSE ReturnsOut(p, q)
      BY <1>1, <1>2, <1>3, <1>4, <1>5, <1>6, <1>7, <1>9, <2>1 DEF PlaceOK, ReturnsOut, ReverseSent,
         Reached, AfterCount, AfterPayload, AfterReverse
    <2>5. LayersDone(p)' = IF p = r THEN 0 ELSE LayersDone(p)
      BY <1>1, <1>2, <1>3, <1>4, <1>5, <1>6, <1>7, <1>9, <2>1 DEF PlaceOK, LayersDone, Reached,
         AfterCount, AfterPayload, AfterReverse
    <2> QED
      BY <2>2, <2>3, <2>4, <2>5
  <1>10. ASSUME NEW q \in Ranks, NEW p \in Ranks, p # q
        PROVE  Close(q, p)' /\ CountersOK(q, p)'
    <2>1. Close(q, p) /\ Close(p, q) /\ PlaceOK(q) /\ PlaceOK(p) /\ CountersOK(q, p)
      BY <1>10 DEF ControlOK
    <2>2. /\ CountsOut(p, q)' = IF p = r THEN 0 ELSE CountsOut(p, q)
          /\ PayloadsOut(p, q)' = IF p = r THEN 0 ELSE PayloadsOut(p, q)
          /\ ReturnsOut(p, q)' = IF p = r THEN 0 ELSE ReturnsOut(p, q)
      BY <1>9, <1>10
    <2>3. LayersDone(q)' = IF q = r THEN 0 ELSE LayersDone(q)
      BY <1>9, <1>10
    <2>4. /\ layer[q] \in 1 .. Layers /\ layer[p] \in 1 .. Layers
          /\ CountsOut(p, q) \in 0 .. Layers /\ PayloadsOut(p, q) \in 0 .. Layers
          /\ ReturnsOut(p, q) \in 0 .. Layers /\ LayersDone(q) \in 0 .. Layers
          /\ request[q] \in 0 .. Requests /\ request[p] \in 0 .. Requests
          /\ stage[q] \in Stages /\ stage[p] \in Stages
      BY OutFacts DEF ControlType
    <2>8. /\ stage[q] \in AfterReverse => LayersDone(q) = layer[q]
          /\ stage[q] \notin AfterReverse => LayersDone(q) = layer[q] - 1
          /\ stage[p] \in {"pack", "count", "payload", "experts", "stopped"} => ReturnsOut(p, q) = layer[p] - 1
          /\ stage[p] = "reverse" /\ q \notin told[p] => ReturnsOut(p, q) = layer[p] - 1
      BY OutValues
    <2>9. request'[q] = (IF q = r THEN request[q] + 1 ELSE request[q])
          /\ request'[p] = (IF p = r THEN request[p] + 1 ELSE request[p])
          /\ layer'[q] = (IF q = r THEN 1 ELSE layer[q])
          /\ stage'[q] = (IF q = r THEN (IF request[r] + 1 = Requests THEN "stopped" ELSE "pack") ELSE stage[q])
          /\ waiting'[p] = (IF p = r THEN FALSE ELSE waiting[p])
      BY <1>1, <1>2, <1>3, <1>4, <1>5, <1>6, <1>7
    <2>10. /\ request[q] >= request[r] /\ (request[q] = request[r] => waiting[q])
           /\ request[p] >= request[r] /\ (request[p] = request[r] => waiting[p])
      BY <1>2, <2>4, ControlValues
    <2>11. q = r => request[p] = request[r] \/ request[p] = request[r] + 1
      BY <2>1, <2>4, <2>10 DEF Close
    <2>12. p = r => request[q] = request[r] \/ request[q] = request[r] + 1
      BY <2>1, <2>4, <2>10 DEF Close
    <2>13. stage[r] = "arrive"
      BY <1>2 DEF ControlOK, PlaceOK
    <2>5. Close(q, p)'
      <3>1. CASE q = r
        <4>1. request'[q] = request[r] + 1 /\ request'[p] = request[p] /\ layer'[q] = 1
              /\ stage'[q] \in {"pack", "stopped"} /\ waiting'[p] = waiting[p] /\ LayersDone(q)' = 0
          BY <2>3, <2>9, <3>1, <1>10
        <4>2. stage'[q] \notin AfterCount /\ stage'[q] \notin AfterPayload
          BY <4>1 DEF AfterCount, AfterPayload, AfterReverse
        <4>3. ReturnsOut(p, q)' >= LayersDone(q)'
          BY <2>2, <2>4, <3>1, <4>1, <1>10
        <4>4. request'[q] <= request'[p] + 1 /\ (request'[p] < request'[q] => waiting'[p])
          BY <2>4, <2>10, <2>11, <3>1, <4>1
        <4> QED
          BY <4>1, <4>2, <4>3, <4>4 DEF Close
      <3>2. CASE p = r
        <4>1. request'[p] = request[r] + 1 /\ request'[q] = request[q] /\ layer'[q] = layer[q]
              /\ stage'[q] = stage[q] /\ LayersDone(q)' = LayersDone(q) /\ ReturnsOut(p, q)' = 0
          BY <2>2, <2>3, <2>9, <3>2, <1>10
        <4>2. request'[q] <= request'[p] + 1 /\ ~ (request'[p] < request'[q])
          BY <2>4, <2>12, <3>2, <4>1
        <4>3. request'[q] = request'[p] => layer[q] = 1 /\ stage[q] \in {"pack", "count", "stopped"}
          BY <2>1, <2>4, <2>12, <3>2, <4>1 DEF Close
        <4>4. stage[q] \in {"pack", "count", "stopped"} =>
                stage[q] \notin AfterCount /\ stage[q] \notin AfterPayload /\ stage[q] \notin AfterReverse
          BY DEF AfterCount, AfterPayload, AfterReverse
        <4>5. request'[q] = request'[p] => ReturnsOut(p, q)' >= LayersDone(q)'
          BY <2>4, <2>8, <4>1, <4>3, <4>4
        <4> QED
          BY <4>1, <4>2, <4>3, <4>4, <4>5 DEF Close
      <3>3. CASE q # r /\ p # r
        <4>1. request'[q] = request[q] /\ request'[p] = request[p] /\ layer'[q] = layer[q]
              /\ stage'[q] = stage[q] /\ waiting'[p] = waiting[p] /\ LayersDone(q)' = LayersDone(q)
              /\ CountsOut(p, q)' = CountsOut(p, q) /\ PayloadsOut(p, q)' = PayloadsOut(p, q)
              /\ ReturnsOut(p, q)' = ReturnsOut(p, q)
          BY <2>2, <2>3, <2>9, <3>3
        <4> QED
          BY <2>1, <4>1 DEF Close
      <3> QED
        BY <3>1, <3>2, <3>3
    <2>6. CountersOK(q, p)'
      <3>0. countSignal'[q][p] = countSignal[q][p] /\ xSignal'[q][p] = xSignal[q][p]
            /\ reverseSignal'[q][p] = reverseSignal[q][p]
        BY <1>1, <1>2, <1>3, <1>4, <1>5, <1>6, <1>7
      <3>1. CASE q = r
        <4>1. request'[q] = request[r] + 1 /\ request'[p] = request[p] /\ stage'[q] # "arrive"
              /\ CountsOut(p, q)' = CountsOut(p, q) /\ PayloadsOut(p, q)' = PayloadsOut(p, q)
              /\ ReturnsOut(p, q)' = ReturnsOut(p, q)
          BY <2>2, <2>9, <3>1, <1>10
        <4>2. Cleared(q, p) <=> Cleared(q, p)'
          BY <2>4, <2>11, <2>13, <3>1, <4>1 DEF Cleared
        <4> QED
          BY <2>1, <3>0, <4>1, <4>2 DEF CountersOK
      <3>2. CASE p = r
        <4>1. Cleared(q, p)
          BY <2>1, <2>4, <2>10, <2>12, <3>2 DEF Cleared, PlaceOK
        <4>2. CountsOut(p, q)' = 0 /\ PayloadsOut(p, q)' = 0 /\ ReturnsOut(p, q)' = 0
          BY <2>2, <3>2
        <4> QED
          BY <2>1, <3>0, <4>1, <4>2 DEF CountersOK
      <3>3. CASE q # r /\ p # r
        <4>1. request'[q] = request[q] /\ request'[p] = request[p] /\ stage'[q] = stage[q]
              /\ CountsOut(p, q)' = CountsOut(p, q) /\ PayloadsOut(p, q)' = PayloadsOut(p, q)
              /\ ReturnsOut(p, q)' = ReturnsOut(p, q)
          BY <2>2, <2>9, <3>3
        <4>2. Cleared(q, p)' <=> Cleared(q, p)
          BY <4>1 DEF Cleared
        <4> QED
          BY <2>1, <3>0, <4>1, <4>2 DEF CountersOK
      <3> QED
        BY <3>1, <3>2, <3>3
    <2> QED
      BY <2>5, <2>6
  <1>11. ControlOK'
    <2>1. \A q \in Ranks : Close(q, q)'
      <3>1. \A q \in Ranks : request'[q] \in Int
        BY <1>1, <1>2, <1>3, <1>4, <1>5, <1>6, <1>7, ControlValues
      <3> QED
        BY <3>1 DEF Close
    <2> QED
      BY <1>8, <1>10, <2>1 DEF ControlOK
  <1>12. ControlType'
    <2>1. request' \in [Ranks -> 0 .. Requests]
      <3>1. request[r] # Requests
        BY <1>2 DEF ControlOK, PlaceOK
      <3>2. request[r] + 1 \in 0 .. Requests
        BY <1>1, <3>1, ControlValues
      <3> QED
        BY <3>2 DEF Leave, Barrier!Leave, Barrier!Through, ControlType
    <2>2. waiting' \in [Ranks -> BOOLEAN]
      <3>1. FALSE \in BOOLEAN
        BY <1>1, <1>2, ControlValues DEF Stages
      <3> QED
        BY <3>1 DEF Leave, Barrier!Leave, Barrier!Through, ControlType
    <2>3. layer' \in [Ranks -> 1 .. Layers]
      <3>1. 1 \in 1 .. Layers
        BY <1>1, <1>2, ControlValues DEF Stages
      <3> QED
        BY <3>1 DEF Leave, Barrier!Leave, Barrier!Through, ControlType
    <2>4. stage' \in [Ranks -> Stages]
      <3>1. (IF request[r] + 1 = Requests THEN "stopped" ELSE "pack") \in Stages
        BY <1>1, <1>2, ControlValues DEF Stages
      <3> QED
        BY <3>1 DEF Leave, Barrier!Leave, Barrier!Through, ControlType
    <2> QED
      BY <1>1, <2>1, <2>2, <2>3, <2>4, <1>7 DEF ControlType
  <1> QED
    BY <1>11, <1>12

-----------------------------------------------------------------------------
(* The data. *)
\* The part of TypeOK beyond the control.
DataType ==
    /\ plan \in Plans
    /\ DOMAIN packed = Ranks /\ DOMAIN out = Ranks
    /\ \A r \in Ranks : packed[r] \in [DOMAIN packed[r] -> (0 .. PeerCap - 1) \X WindowRows]
    /\ counts \in [Ranks -> [Ranks -> [Experts -> 0 .. PeerCap]]]
    /\ countTarget \in [Ranks -> [Ranks -> [Experts -> 0 .. PeerCap]]]
    /\ grouped \in [Ranks -> [GroupedRows -> Rows]]
    /\ \A r \in Ranks : DOMAIN out[r] = Tokens /\ \A i \in Tokens : out[r][i] \in Seq(Rows)
    /\ xTarget \in [Ranks -> [WindowRows -> RouteItems]]
    /\ reverseTarget \in [Ranks -> [WindowRows -> Rows]]

LEMMA TypeParts ==
    TypeOK <=> ControlType /\ DataType
  BY DEF TypeOK, ControlType, DataType, Stages

DataOK ==
    /\ PackedOK /\ CountsSentOK /\ CountsTakenOK /\ LanesOK
    /\ SlabsOK /\ PaddingOK /\ ReturnsOK /\ OutputExact

\* What slot i of rank r's output is to be after the layer of batch b.
Owed(b, r, i) ==
    IF ~ Live(b.lengths[r], i) THEN <<>>
    ELSE [k \in 1 .. TopK |->
            Row([call |-> b.call, source |-> r, slot |-> i, k |-> k - 1], b.gate[r][i][k])]

LEMMA OutputIs ==
    /\ OutputExact <=>
         \A p \in Ranks : stage[p] = "complete" =>
             \A i \in Tokens : out[p][i] = Owed(Current(p), p, i)
    /\ OutputExact' <=>
         \A p \in Ranks : stage'[p] = "complete" =>
             \A i \in Tokens : out'[p][i] = Owed(Current(p)', p, i)
  <1>1. OutputExact <=>
         \A p \in Ranks : stage[p] = "complete" =>
             \A i \in Tokens : out[p][i] = Owed(Current(p), p, i)
    BY DEF OutputExact, Owed, Lengths, Live, Current, Batch
  <1>2. OutputExact' <=>
         \A p \in Ranks : stage'[p] = "complete" =>
             \A i \in Tokens : out'[p][i] = Owed(Current(p)', p, i)
    BY DEF OutputExact, Owed, Lengths, Live, Current, Batch
  <1> QED
    BY <1>1, <1>2

LEMMA OutputStays ==
    ASSUME OutputExact,
           \A p \in Ranks : stage'[p] = "complete" =>
               stage[p] = "complete" /\ Current(p)' = Current(p) /\ out'[p] = out[p]
    PROVE  OutputExact'
  BY OutputIs

\* A rank that has not stopped is in a layer that its request brings.
LEMMA BatchFits ==
    ASSUME Sizes, PlansFit, plan \in Plans, ControlType, ControlOK, NEW p \in Ranks,
           stage[p] # "stopped", NEW l \in 1 .. Layers
    PROVE  Fits(Batch(request[p], l))
  <1>1. request[p] \in 0 .. Requests - 1
    <2>1. request[p] # Requests
      BY DEF ControlOK, PlaceOK
    <2> QED
      BY <2>1, ControlValues, SizeFacts
  <1> QED
    BY <1>1, Brought

LEMMA CurrentFits ==
    ASSUME Sizes, PlansFit, plan \in Plans, ControlType, ControlOK, NEW p \in Ranks,
           stage[p] # "stopped"
    PROVE  Fits(Current(p))
  <1>1. layer[p] \in 1 .. Layers
    BY DEF ControlType
  <1> QED
    BY <1>1, BatchFits DEF Current

\* A peer that has announced its counts, or its rows, to a rank that waits for
\* them is in the rank's layer.
LEMMA SameLayer ==
    ASSUME Sizes, ControlType, ControlOK, NEW r \in Ranks, NEW p \in Ranks, p # r,
           stage[r] \in {"count", "payload", "experts", "reverse"}, NEW m \in Nat, m >= layer[r],
           NEW o, o \in 0 .. Layers, o <= layer[p],
           m = IF Cleared(r, p) THEN 0 ELSE o
    PROVE  request[p] = request[r] /\ o = m /\ layer[p] >= layer[r]
  <1>1. Close(p, r) /\ PlaceOK(r)
    BY DEF ControlOK
  <1>2. /\ request[p] \in Nat /\ request[r] \in Nat /\ layer[r] \in Nat /\ 1 <= layer[r]
        /\ layer[p] \in Nat /\ Layers \in Nat
    BY ControlValues, SizeFacts
  <1>3. ~ Cleared(r, p) /\ o = m
    BY <1>2
  <1>4. ~ (request[p] < request[r])
    BY <1>3 DEF Cleared
  <1>5. ~ (request[r] < request[p])
    BY <1>1 DEF Close, PlaceOK
  <1> QED
    BY <1>2, <1>3, <1>4, <1>5

LEMMA PeerBound ==
    ASSUME Sizes, ControlType, ControlOK, NEW r \in Ranks, NEW p \in Ranks, p # r,
           request[p] = request[r]
    PROVE  /\ layer[p] <= layer[r] + 1
           /\ stage[r] \notin AfterReverse => layer[p] - 1 <= layer[r] - 1 \/ ReturnsOut(r, p) = layer[r]
           /\ stage[r] \in {"count", "payload"} => layer[p] <= layer[r]
           /\ stage[p] \in AfterCount => layer[p] <= layer[r]
  <1>1. Close(p, r)
    BY DEF ControlOK
  <1>2. /\ layer[r] \in Nat /\ layer[p] \in Nat
        /\ ReturnsOut(r, p) = layer[r] \/ ReturnsOut(r, p) = layer[r] - 1
        /\ CountsOut(r, p) = layer[r] \/ CountsOut(r, p) = layer[r] - 1
        /\ LayersDone(p) = layer[p] \/ LayersDone(p) = layer[p] - 1
    BY OutFacts
  <1>3. stage[r] \in {"count", "payload"} => ReturnsOut(r, p) = layer[r] - 1
    BY OutValues
  <1>4. ReturnsOut(r, p) >= LayersDone(p) /\ (stage[p] \in AfterCount => CountsOut(r, p) >= layer[p])
    BY <1>1 DEF Close
  <1> QED
    BY <1>2, <1>3, <1>4

LEMMA CountsHeard ==
    ASSUME Sizes, ControlType, ControlOK, NEW r \in Ranks, NEW p \in Ranks, p # r,
           stage[r] = "count", countSignal[r][p] >= layer[r]
    PROVE  Current(p) = Current(r) /\ CountSent(p, r)
  <1>1. countSignal[r][p] = IF Cleared(r, p) THEN 0 ELSE CountsOut(p, r)
    BY DEF ControlOK, CountersOK
  <1>2. /\ layer[r] \in Nat /\ layer[p] \in Nat /\ CountsOut(p, r) \in 0 .. Layers
        /\ CountsOut(p, r) = layer[p] \/ CountsOut(p, r) = layer[p] - 1
    BY OutFacts
  <1>3. countSignal[r][p] \in Nat
    BY SizeFacts DEF ControlType
  <1>4. request[p] = request[r] /\ CountsOut(p, r) = countSignal[r][p] /\ layer[p] >= layer[r]
    BY <1>1, <1>2, <1>3, SameLayer
  <1>5. layer[p] <= layer[r]
    BY <1>4, PeerBound
  <1>6. CountsOut(p, r) = layer[p] /\ layer[p] = layer[r]
    BY <1>2, <1>4, <1>5
  <1>7. CountSent(p, r)
    BY <1>2, <1>6 DEF CountsOut, Reached
  <1> QED
    BY <1>4, <1>6, <1>7 DEF Current

LEMMA RowsHeard ==
    ASSUME Sizes, ControlType, ControlOK, NEW r \in Ranks, NEW p \in Ranks, p # r,
           stage[r] = "payload", xSignal[r][p] >= layer[r]
    PROVE  Current(p) = Current(r) /\ PayloadPut(p, r)
  <1>1. xSignal[r][p] = IF Cleared(r, p) THEN 0 ELSE PayloadsOut(p, r)
    BY DEF ControlOK, CountersOK
  <1>2. /\ layer[r] \in Nat /\ layer[p] \in Nat /\ PayloadsOut(p, r) \in 0 .. Layers
        /\ PayloadsOut(p, r) = layer[p] \/ PayloadsOut(p, r) = layer[p] - 1
    BY OutFacts
  <1>3. xSignal[r][p] \in Nat
    BY SizeFacts DEF ControlType
  <1>4. request[p] = request[r] /\ PayloadsOut(p, r) = xSignal[r][p] /\ layer[p] >= layer[r]
    BY <1>1, <1>2, <1>3, SameLayer
  <1>5. layer[p] <= layer[r]
    BY <1>4, PeerBound
  <1>6. PayloadsOut(p, r) = layer[p] /\ layer[p] = layer[r]
    BY <1>2, <1>4, <1>5
  <1>7. PayloadSent(p, r)
    BY <1>2, <1>6 DEF PayloadsOut, Reached
  <1>8. PlaceOK(p)
    BY DEF ControlOK
  <1>9. PayloadPut(p, r)
    BY <1>7, <1>8 DEF PayloadSent, PayloadPut, PlaceOK
  <1> QED
    BY <1>4, <1>6, <1>9 DEF Current

LEMMA ReturnsHeard ==
    ASSUME Sizes, ControlType, ControlOK, NEW r \in Ranks, NEW p \in Ranks, p # r,
           stage[r] = "reverse", reverseSignal[r][p] >= layer[r]
    PROVE  request[p] = request[r] /\ LayersBack(p, r) = layer[r]
  <1>1. reverseSignal[r][p] = IF Cleared(r, p) THEN 0 ELSE ReturnsOut(p, r)
    BY DEF ControlOK, CountersOK
  <1>2. /\ layer[r] \in Nat /\ layer[p] \in Nat /\ ReturnsOut(p, r) \in 0 .. Layers
        /\ ReturnsOut(p, r) = layer[p] \/ ReturnsOut(p, r) = layer[p] - 1
    BY OutFacts
  <1>3. reverseSignal[r][p] \in Nat
    BY SizeFacts DEF ControlType
  <1>4. request[p] = request[r] /\ ReturnsOut(p, r) = reverseSignal[r][p] /\ layer[p] >= layer[r]
    BY <1>1, <1>2, <1>3, SameLayer
  <1>5. layer[p] <= layer[r] + 1 /\ (stage[p] \in AfterCount => layer[p] <= layer[r])
    BY <1>4, PeerBound
  <1>6. PlaceOK(p)
    BY DEF ControlOK
  <1>7. CASE layer[p] = layer[r]
    <2>1. ReverseSent(p, r)
      BY <1>2, <1>4, <1>7 DEF ReturnsOut, Reached
    <2>2. ReversePut(p, r)
      BY <1>6, <2>1 DEF ReverseSent, ReversePut, PlaceOK
    <2> QED
      BY <1>4, <1>7, <2>2 DEF LayersBack, Reached
  <1>8. CASE layer[p] = layer[r] + 1
    <2>1. stage[p] \notin AfterCount
      BY <1>2, <1>5, <1>8
    <2>2. ~ ReversePut(p, r)
      BY <2>1 DEF ReversePut, AfterCount, AfterPayload, AfterReverse
    <2> QED
      BY <1>2, <1>4, <1>8, <2>2 DEF LayersBack, Reached
  <1> QED
    BY <1>2, <1>4, <1>5, <1>7, <1>8

\* What Pack and SendCounts write.
LEMMA PackedIs ==
    ASSUME Sizes, NEW r \in Ranks, Fits(Current(r))
    PROVE  [x \in Routes(r) |-> Position(r, x)] = PackedOf(Current(r), r)
  <1>1. Brings(MyLens(r), MyGate(r))
    BY DEF Fits, MyLens, MyGate
  <1>2. Routes(r) = RoutesIn(MyLens(r))
    BY RoutesAre
  <1>3. \A x \in Routes(r) : Position(r, x) = <<RowIn(MyLens(r), MyGate(r), x), BackIn(MyLens(r), MyGate(r), x)>>
    BY <1>1, PositionIs
  <1> QED
    BY <1>2, <1>3 DEF PackedOf, MyLens, MyGate

LEMMA CountRowIs ==
    ASSUME Sizes, NEW r \in Ranks, NEW d \in Ranks
    PROVE  CountRow(r, d) = CountsOf(Current(r), r, d)
  <1>1. \A g : Total(r, g) = Size(MyLens(r), MyGate(r), g)
    BY TotalsAre
  <1>2. \A e : Total(r, d * Local + e) = SizeOf(Current(r), r, d * Local + e)
    BY <1>1 DEF SizeOf, MyLens, MyGate
  <1> QED
    BY <1>2 DEF CountRow, CountsOf

-----------------------------------------------------------------------------
(* Every step keeps the data. *)
LEMMA PackData ==
    ASSUME Sizes, PlansFit, ControlType, ControlOK, DataType, DataOK, NEW r \in Ranks, Pack(r)
    PROVE  DataType' /\ DataOK'
  <1>1. stage[r] = "pack"
    BY SizeFacts, ControlValues DEF Pack
  <1>2. \A q \in Ranks : stage'[q] = IF q = r THEN "count" ELSE stage[q]
    BY <1>1 DEF Pack, ControlType, DataType
  <1>3. \A q \in Ranks : packed'[q] = IF q = r THEN [x \in Routes(r) |-> Position(r, x)] ELSE packed[q]
    BY <1>1 DEF Pack, ControlType, DataType
  <1>4. UNCHANGED <<plan, request, layer, counted, sent, counts, grouped, out, countTarget, xTarget, reverseTarget>>
    BY DEF Pack, progress, windows, signals
  <1>5. PlaceOK(r) /\ request[r] \in Nat /\ layer[r] \in Nat /\ 1 <= layer[r] /\ r \in Nat /\ r < EP /\ \A q \in Ranks : q \in Nat /\ q < EP
    BY ControlValues DEF ControlOK
  <1>6. \A q \in Ranks : Current(q)' = Current(q)
    BY <1>2, <1>3, <1>4 DEF Current, Batch
  <1>7. \A p, q \in Ranks : CountSent(p, q)' <=> CountSent(p, q)
    BY <1>1, <1>2, <1>3, <1>4, <1>5, SizeFacts DEF CountSent, AfterCount, AfterPayload,
       AfterReverse, PlaceOK
  <1>8. \A p, q \in Ranks : PayloadPut(p, q)' <=> PayloadPut(p, q)
    BY <1>1, <1>2, <1>3, <1>4, <1>5 DEF PayloadPut, AfterCount, AfterPayload, AfterReverse, PlaceOK
  <1>9. \A p, q \in Ranks : LayersBack(p, q)' = LayersBack(p, q)
    BY <1>1, <1>2, <1>3, <1>4, <1>5 DEF LayersBack, Reached, ReversePut, AfterCount, AfterPayload,
       AfterReverse, PlaceOK
  <1>10. packed'[r] = PackedOf(Current(r), r) /\ Fits(Current(r))
    <2>1. Fits(Current(r))
      BY <1>1, CurrentFits, SizeFacts DEF DataType
    <2> QED
      BY <2>1, <1>3, PackedIs
  <1>11. DataType'
    <2>1. DOMAIN packed' = Ranks /\ \A q \in Ranks : packed'[q] \in [DOMAIN packed'[q] -> (0 .. PeerCap - 1) \X WindowRows]
      <3>1. DOMAIN packed' = Ranks
        BY DEF Pack, DataType
      <3>2. ASSUME NEW q \in Ranks
            PROVE  packed'[q] \in [DOMAIN packed'[q] -> (0 .. PeerCap - 1) \X WindowRows]
        <4>1. CASE q = r
          <5>1. PackedOf(Current(r), r) \in [RoutesIn(Current(r).lengths[r]) -> (0 .. PeerCap - 1) \X WindowRows]
            BY <1>10, PackedType
          <5> QED
            BY <4>1, <5>1, <1>10
        <4>2. CASE q # r
          BY <4>2, <1>3 DEF DataType
        <4> QED
          BY <4>1, <4>2
      <3> QED
        BY <3>1, <3>2
    <2> QED
      BY <2>1, <1>4 DEF DataType
  <1>12. PackedOK'
    <2>1. PackedOK
      BY DEF DataOK
    <2> SUFFICES ASSUME NEW q \in Ranks, stage'[q] \notin {"pack", "stopped"}
                 PROVE  packed'[q] = PackedOf(Current(q)', q)
      BY DEF PackedOK
    <2>2. CASE q = r
      BY <2>2, <1>10, <1>6
    <2>3. CASE q # r
      <3>1. packed[q] = PackedOf(Current(q), q)
        BY <2>1, <2>3, <1>2, <1>3, <1>4 DEF PackedOK
      <3> QED
        BY <2>3, <3>1, <1>2, <1>3, <1>4, <1>6
    <2> QED
      BY <2>2, <2>3
  <1>13. CountsSentOK'
    <2>1. CountsSentOK
      BY DEF DataOK
    <2> QED
      BY <1>1, <2>1, <1>2, <1>3, <1>4, <1>6, <1>7 DEF CountsSentOK
  <1>14. CountsTakenOK'
    <2>1. CountsTakenOK
      BY DEF DataOK
    <2> QED
      BY <1>1, <2>1, <1>2, <1>3, <1>4, <1>6 DEF CountsTakenOK, AfterCount, AfterPayload,
         AfterReverse
  <1>15. LanesOK'
    <2>1. LanesOK
      BY DEF DataOK
    <2> QED
      BY <1>1, <2>1, <1>2, <1>3, <1>4, <1>6, <1>8 DEF LanesOK
  <1>16. SlabsOK'
    <2>1. SlabsOK
      BY DEF DataOK
    <2> QED
      BY <1>1, <2>1, <1>2, <1>3, <1>4, <1>6 DEF SlabsOK
  <1>17. PaddingOK'
    <2>1. PaddingOK
      BY DEF DataOK
    <2> QED
      BY <1>1, <2>1, <1>2, <1>3, <1>4 DEF PaddingOK
  <1>18. ReturnsOK'
    <2>1. ReturnsOK
      BY DEF DataOK
    <2> QED
      BY <1>1, <2>1, <1>2, <1>3, <1>4, <1>9 DEF ReturnsOK, Batch
  <1>19. OutputExact'
    <2>1. OutputExact
      BY DEF DataOK
    <2>2. \A p \in Ranks : stage'[p] = "complete" =>
             stage[p] = "complete" /\ Current(p)' = Current(p) /\ out'[p] = out[p]
      BY <1>1, <1>2, <1>3, <1>4 DEF Current, Batch
    <2> QED
      BY <2>1, <2>2, OutputStays
  <1> QED
    BY <1>11, <1>12, <1>13, <1>14, <1>15, <1>16, <1>17, <1>18, <1>19 DEF DataOK

LEMMA SendCountsData ==
    ASSUME Sizes, PlansFit, ControlType, ControlOK, DataType, DataOK, NEW r \in Ranks, SendCounts(r)
    PROVE  DataType' /\ DataOK'
  <1>1. stage[r] = "count" /\ counted[r] \in Ranks
    BY SizeFacts, ControlValues DEF SendCounts, Ranks
  <1>2. \A q \in Ranks : counted'[q] = IF q = r THEN counted[r] + 1 ELSE counted[q]
    BY <1>1 DEF SendCounts, ControlType, DataType
  <1>3. \A d, s \in Ranks : countTarget'[d][s] = IF d = counted[r] /\ s = r THEN CountRow(r, d) ELSE countTarget[d][s]
    BY <1>1 DEF SendCounts, ControlType, DataType
  <1>4. UNCHANGED <<plan, request, layer, stage, packed, sent, counts, grouped, out, xTarget, reverseTarget>>
    BY DEF SendCounts, progress, windows, signals
  <1>5. PlaceOK(r) /\ request[r] \in Nat /\ layer[r] \in Nat /\ 1 <= layer[r] /\ r \in Nat /\ r < EP /\ \A q \in Ranks : q \in Nat /\ q < EP
    BY ControlValues DEF ControlOK
  <1>6. \A q \in Ranks : Current(q)' = Current(q)
    BY <1>2, <1>3, <1>4 DEF Current, Batch
  <1>7. \A p, q \in Ranks : CountSent(p, q)' <=> CountSent(p, q) \/ (p = r /\ q = counted[r])
    <2> SUFFICES ASSUME NEW p \in Ranks, NEW q \in Ranks
                 PROVE  CountSent(p, q)' <=> CountSent(p, q) \/ (p = r /\ q = counted[r])
      OBVIOUS
    <2>1. counted[r] \in Nat /\ q \in Nat /\ (counted[r] + 1 > q <=> counted[r] > q \/ q = counted[r])
      BY <1>5, ControlValues
    <2>2. counted'[p] = (IF p = r THEN counted[r] + 1 ELSE counted[p]) /\ stage'[p] = stage[p]
      BY <1>2, <1>3, <1>4
    <2> QED
      BY <1>1, <2>1, <2>2 DEF CountSent, AfterCount, AfterPayload, AfterReverse
  <1>8. \A p, q \in Ranks : PayloadPut(p, q)' <=> PayloadPut(p, q)
    BY <1>1, <1>2, <1>3, <1>4, <1>5 DEF PayloadPut, AfterCount, AfterPayload, AfterReverse, PlaceOK
  <1>9. \A p, q \in Ranks : LayersBack(p, q)' = LayersBack(p, q)
    BY <1>1, <1>2, <1>3, <1>4, <1>5 DEF LayersBack, Reached, ReversePut, AfterCount, AfterPayload,
       AfterReverse, PlaceOK
  <1>10. CountRow(r, counted[r]) = CountsOf(Current(r), r, counted[r]) /\ Fits(Current(r))
    <2>1. Fits(Current(r))
      BY <1>1, CurrentFits, SizeFacts DEF DataType
    <2> QED
      BY <2>1, <1>1, CountRowIs
  <1>11. DataType'
    <2>1. countTarget' \in [Ranks -> [Ranks -> [Experts -> 0 .. PeerCap]]]
      <3>1. CountsOf(Current(r), r, counted[r]) \in [Experts -> 0 .. PeerCap]
        BY <1>1, <1>10, LaneFacts
      <3> QED
        BY <1>1, <3>1, <1>10 DEF SendCounts, DataType
    <2> QED
      BY <2>1, <1>4 DEF DataType
  <1>12. PackedOK'
    <2>1. PackedOK
      BY DEF DataOK
    <2> QED
      BY <1>1, <2>1, <1>2, <1>3, <1>4, <1>6 DEF PackedOK
  <1>13. CountsSentOK'
    <2>1. CountsSentOK
      BY DEF DataOK
    <2> SUFFICES ASSUME NEW d \in Ranks, NEW p \in Ranks, CountSent(p, d)'
                 PROVE  countTarget'[d][p] = CountsOf(Current(p)', p, d)
      BY DEF CountsSentOK
    <2>2. CASE p = r /\ d = counted[r]
      BY <2>2, <1>10, <1>6, <1>2, <1>3, <1>4
    <2>3. CASE ~ (p = r /\ d = counted[r])
      <3>1. countTarget[d][p] = CountsOf(Current(p), p, d)
        BY <2>1, <2>3, <1>7 DEF CountsSentOK
      <3> QED
        BY <2>3, <3>1, <1>2, <1>3, <1>4, <1>6
    <2> QED
      BY <2>2, <2>3
  <1>14. CountsTakenOK'
    <2>1. CountsTakenOK
      BY DEF DataOK
    <2> QED
      BY <1>1, <2>1, <1>2, <1>3, <1>4, <1>6 DEF CountsTakenOK, AfterCount, AfterPayload,
         AfterReverse
  <1>15. LanesOK'
    <2>1. LanesOK
      BY DEF DataOK
    <2> QED
      BY <1>1, <2>1, <1>2, <1>3, <1>4, <1>6, <1>8 DEF LanesOK
  <1>16. SlabsOK'
    <2>1. SlabsOK
      BY DEF DataOK
    <2> QED
      BY <1>1, <2>1, <1>2, <1>3, <1>4, <1>6 DEF SlabsOK
  <1>17. PaddingOK'
    <2>1. PaddingOK
      BY DEF DataOK
    <2> QED
      BY <1>1, <2>1, <1>2, <1>3, <1>4 DEF PaddingOK
  <1>18. ReturnsOK'
    <2>1. ReturnsOK
      BY DEF DataOK
    <2> QED
      BY <1>1, <2>1, <1>2, <1>3, <1>4, <1>9 DEF ReturnsOK, Batch
  <1>19. OutputExact'
    <2>1. OutputExact
      BY DEF DataOK
    <2>2. \A p \in Ranks : stage'[p] = "complete" =>
             stage[p] = "complete" /\ Current(p)' = Current(p) /\ out'[p] = out[p]
      BY <1>1, <1>2, <1>3, <1>4 DEF Current, Batch
    <2> QED
      BY <2>1, <2>2, OutputStays
  <1> QED
    BY <1>11, <1>12, <1>13, <1>14, <1>15, <1>16, <1>17, <1>18, <1>19 DEF DataOK

LEMMA TakeCountsData ==
    ASSUME Sizes, PlansFit, ControlType, ControlOK, DataType, DataOK, NEW r \in Ranks, TakeCounts(r)
    PROVE  DataType' /\ DataOK'
  <1>1. stage[r] = "count" /\ counted[r] = EP /\ \A x \in Ranks \ {r} : countSignal[r][x] >= layer[r]
    BY SizeFacts, ControlValues DEF TakeCounts, Heard, Peers
  <1>2. \A q \in Ranks : stage'[q] = IF q = r THEN "payload" ELSE stage[q]
    BY <1>1 DEF TakeCounts, Heard, Peers, ControlType, DataType
  <1>3. \A q \in Ranks : counted'[q] = IF q = r THEN 0 ELSE counted[q]
    BY <1>1 DEF TakeCounts, Heard, Peers, ControlType, DataType
  <1>4. \A q \in Ranks : counts'[q] = IF q = r THEN countTarget[r] ELSE counts[q]
    BY <1>1 DEF TakeCounts, Heard, Peers, ControlType, DataType
  <1>5. UNCHANGED <<plan, request, layer, packed, sent, grouped, out, countTarget, xTarget, reverseTarget>>
    BY DEF TakeCounts, Heard, Peers, progress, windows, signals
  <1>6. PlaceOK(r) /\ request[r] \in Nat /\ layer[r] \in Nat /\ 1 <= layer[r] /\ r \in Nat /\ r < EP /\ \A q \in Ranks : q \in Nat /\ q < EP
    BY ControlValues DEF ControlOK
  <1>7. \A q \in Ranks : Current(q)' = Current(q)
    BY <1>2, <1>3, <1>4, <1>5 DEF Current, Batch
  <1>8. \A p, q \in Ranks : CountSent(p, q)' <=> CountSent(p, q)
    BY <1>1, <1>2, <1>3, <1>4, <1>5, <1>6, SizeFacts DEF CountSent, AfterCount, AfterPayload,
       AfterReverse, PlaceOK
  <1>9. \A p, q \in Ranks : PayloadPut(p, q)' <=> PayloadPut(p, q)
    BY <1>1, <1>2, <1>3, <1>4, <1>5, <1>6 DEF PayloadPut, AfterCount, AfterPayload, AfterReverse,
       PlaceOK
  <1>10. \A p, q \in Ranks : LayersBack(p, q)' = LayersBack(p, q)
    BY <1>1, <1>2, <1>3, <1>4, <1>5, <1>6 DEF LayersBack, Reached, ReversePut, AfterCount,
       AfterPayload, AfterReverse, PlaceOK
  <1>11. countTarget[r] = [p \in Ranks |-> CountsOf(Current(r), p, r)]
    <2>1. CountsSentOK
      BY DEF DataOK
    <2>2. ASSUME NEW p \in Ranks
          PROVE  countTarget[r][p] = CountsOf(Current(r), p, r)
      <3>1. CASE p = r
        <4>1. CountSent(r, r)
          BY <1>1, <1>6 DEF CountSent
        <4> QED
          BY <2>1, <3>1, <4>1 DEF CountsSentOK
      <3>2. CASE p # r
        <4>1. Current(p) = Current(r) /\ CountSent(p, r)
          BY <1>1, <3>2, CountsHeard
        <4>2. countTarget[r][p] = CountsOf(Current(p), p, r)
          BY <2>1, <4>1 DEF CountsSentOK
        <4> QED
          BY <4>1, <4>2
      <3> QED
        BY <3>1, <3>2
    <2>3. countTarget[r] = [p \in Ranks |-> countTarget[r][p]]
      BY DEF DataType
    <2> QED
      BY <2>2, <2>3
  <1>12. DataType'
    <2>1. counts' \in [Ranks -> [Ranks -> [Experts -> 0 .. PeerCap]]]
      BY DEF TakeCounts, DataType
    <2> QED
      BY <2>1, <1>5 DEF DataType
  <1>13. PackedOK'
    <2>1. PackedOK
      BY DEF DataOK
    <2> QED
      BY <1>1, <2>1, <1>2, <1>3, <1>4, <1>5, <1>7 DEF PackedOK
  <1>14. CountsSentOK'
    <2>1. CountsSentOK
      BY DEF DataOK
    <2> QED
      BY <1>1, <2>1, <1>2, <1>3, <1>4, <1>5, <1>7, <1>8 DEF CountsSentOK
  <1>15. CountsTakenOK'
    <2>1. CountsTakenOK
      BY DEF DataOK
    <2> SUFFICES ASSUME NEW q \in Ranks, stage'[q] \in AfterCount
                 PROVE  counts'[q] = [p \in Ranks |-> CountsOf(Current(q)', p, q)]
      BY DEF CountsTakenOK, AfterCount, AfterPayload, AfterReverse
    <2>2. CASE q = r
      BY <2>2, <1>11, <1>7, <1>2, <1>3, <1>4, <1>5
    <2>3. CASE q # r
      <3>1. counts[q] = [p \in Ranks |-> CountsOf(Current(q), p, q)]
        BY <2>1, <2>3, <1>2, <1>3, <1>4, <1>5 DEF CountsTakenOK
      <3> QED
        BY <2>3, <3>1, <1>2, <1>3, <1>4, <1>5, <1>7
    <2> QED
      BY <2>2, <2>3
  <1>16. LanesOK'
    <2>1. LanesOK
      BY DEF DataOK
    <2> QED
      BY <1>1, <2>1, <1>2, <1>3, <1>4, <1>5, <1>7, <1>9 DEF LanesOK
  <1>17. SlabsOK'
    <2>1. SlabsOK
      BY DEF DataOK
    <2> QED
      BY <1>1, <2>1, <1>2, <1>3, <1>4, <1>5, <1>7 DEF SlabsOK
  <1>18. PaddingOK'
    <2>1. PaddingOK
      BY DEF DataOK
    <2> QED
      BY <1>1, <2>1, <1>2, <1>3, <1>4, <1>5 DEF PaddingOK
  <1>19. ReturnsOK'
    <2>1. ReturnsOK
      BY DEF DataOK
    <2> QED
      BY <1>1, <2>1, <1>2, <1>3, <1>4, <1>5, <1>10 DEF ReturnsOK, Batch
  <1>20. OutputExact'
    <2>1. OutputExact
      BY DEF DataOK
    <2>2. \A p \in Ranks : stage'[p] = "complete" =>
             stage[p] = "complete" /\ Current(p)' = Current(p) /\ out'[p] = out[p]
      BY <1>1, <1>2, <1>3, <1>4, <1>5 DEF Current, Batch
    <2> QED
      BY <2>1, <2>2, OutputStays
  <1> QED
    BY <1>12, <1>13, <1>14, <1>15, <1>16, <1>17, <1>18, <1>19, <1>20 DEF DataOK

LEMMA PutPayloadData ==
    ASSUME Sizes, PlansFit, ControlType, ControlOK, DataType, DataOK, NEW r \in Ranks, NEW d \in Ranks, PutPayload(r, d)
    PROVE  DataType' /\ DataOK'
  <1>1. stage[r] = "payload"
    BY SizeFacts, ControlValues DEF PutPayload
  <1>2. \A q \in Ranks : sent'[q] = IF q = r THEN sent[r] \cup {d} ELSE sent[q]
    BY <1>1 DEF PutPayload, ControlType, DataType
  <1>3. \A q \in Ranks : xTarget'[q] = IF q = d THEN Pushed(r, d, xTarget[d]) ELSE xTarget[q]
    BY <1>1 DEF PutPayload, ControlType, DataType
  <1>4. UNCHANGED <<plan, request, layer, stage, packed, counted, counts, grouped, out, countTarget, reverseTarget>>
    BY DEF PutPayload, progress, windows, signals
  <1>5. PlaceOK(r) /\ request[r] \in Nat /\ layer[r] \in Nat /\ 1 <= layer[r] /\ r \in Nat /\ r < EP /\ \A q \in Ranks : q \in Nat /\ q < EP
    BY ControlValues DEF ControlOK
  <1>6. \A q \in Ranks : Current(q)' = Current(q)
    BY <1>2, <1>3, <1>4 DEF Current, Batch
  <1>7. \A p, q \in Ranks : CountSent(p, q)' <=> CountSent(p, q)
    BY <1>1, <1>2, <1>3, <1>4, <1>5, SizeFacts DEF CountSent, AfterCount, AfterPayload,
       AfterReverse, PlaceOK
  <1>8. \A p, q \in Ranks : PayloadPut(p, q)' <=> PayloadPut(p, q) \/ (p = r /\ q = d)
    BY <1>1, <1>2, <1>3, <1>4, <1>5 DEF PayloadPut, AfterCount, AfterPayload, AfterReverse, PlaceOK
  <1>9. \A p, q \in Ranks : LayersBack(p, q)' = LayersBack(p, q)
    BY <1>1, <1>2, <1>3, <1>4, <1>5 DEF LayersBack, Reached, ReversePut, AfterCount, AfterPayload,
       AfterReverse, PlaceOK
  <1>10. /\ Pushed(r, d, xTarget[d]) \in [WindowRows -> RouteItems]
        /\ LaneHolds(Pushed(r, d, xTarget[d]), Current(r), r, d)
        /\ \A i \in WindowRows :
             i - r * PeerCap \notin 0 .. PeerCap - 1 => Pushed(r, d, xTarget[d])[i] = xTarget[d][i]
    <2>1. Fits(Current(r))
      BY <1>1, CurrentFits, SizeFacts DEF DataType
    <2>2. packed[r] = PackedOf(Current(r), r)
      BY <1>1 DEF DataOK, PackedOK
    <2>3. xTarget[d] \in [WindowRows -> RouteItems]
      BY DEF DataType
    <2> QED
      BY <2>1, <2>2, <2>3, PushedIs
  <1>11. DataType'
    <2>1. xTarget' \in [Ranks -> [WindowRows -> RouteItems]]
      BY <1>10 DEF PutPayload, DataType
    <2> QED
      BY <2>1, <1>4 DEF DataType
  <1>12. PackedOK'
    <2>1. PackedOK
      BY DEF DataOK
    <2> QED
      BY <1>1, <2>1, <1>2, <1>3, <1>4, <1>6 DEF PackedOK
  <1>13. CountsSentOK'
    <2>1. CountsSentOK
      BY DEF DataOK
    <2> QED
      BY <1>1, <2>1, <1>2, <1>3, <1>4, <1>6, <1>7 DEF CountsSentOK
  <1>14. CountsTakenOK'
    <2>1. CountsTakenOK
      BY DEF DataOK
    <2> QED
      BY <1>1, <2>1, <1>2, <1>3, <1>4, <1>6 DEF CountsTakenOK, AfterCount, AfterPayload,
         AfterReverse
  <1>15. LanesOK'
    <2>1. LanesOK
      BY DEF DataOK
    <2> SUFFICES ASSUME NEW x \in Ranks, NEW p \in Ranks, PayloadPut(p, x)'
                 PROVE  LaneHolds(xTarget'[x], Current(p)', p, x)
      BY DEF LanesOK
    <2>2. CASE p = r /\ x = d
      <3>1. xTarget'[x] = Pushed(r, d, xTarget[d]) /\ Current(p)' = Current(r)
        BY <2>2, <1>2, <1>3, <1>4, <1>6
      <3> QED
        BY <2>2, <3>1, <1>10
    <2>3. CASE ~ (p = r /\ x = d)
      <3>1. PayloadPut(p, x) /\ Current(p)' = Current(p)
        BY <2>3, <1>8, <1>6
      <3>2. LaneHolds(xTarget[x], Current(p), p, x)
        BY <2>1, <3>1 DEF LanesOK
      <3>3. CASE x # d
        BY <3>1, <3>2, <3>3, <1>2, <1>3, <1>4
      <3>4. CASE x = d
        <4>1. p # r /\ xTarget'[x] = Pushed(r, d, xTarget[d])
          BY <2>3, <3>4, <1>2, <1>3, <1>4
        <4>2. Fits(Current(p))
          <5>1. stage[p] # "stopped"
            BY <3>1 DEF PayloadPut, AfterPayload, AfterReverse
          <5> QED
            BY <5>1, CurrentFits, SizeFacts DEF DataType
        <4>3. ASSUME NEW i \in WindowRows, i - p * PeerCap \in 0 .. PeerCap - 1
              PROVE  Pushed(r, d, xTarget[d])[i] = xTarget[d][i]
          <5>1. i - r * PeerCap \notin 0 .. PeerCap - 1
            BY <4>1, <4>3, LaneInWindow
          <5> QED
            BY <5>1, <1>10
        <4> QED
          BY <3>1, <3>2, <3>4, <4>1, <4>2, <4>3, LaneKept
      <3> QED
        BY <3>3, <3>4
    <2> QED
      BY <2>2, <2>3
  <1>16. SlabsOK'
    <2>1. SlabsOK
      BY DEF DataOK
    <2> QED
      BY <1>1, <2>1, <1>2, <1>3, <1>4, <1>6 DEF SlabsOK
  <1>17. PaddingOK'
    <2>1. PaddingOK
      BY DEF DataOK
    <2> QED
      BY <1>1, <2>1, <1>2, <1>3, <1>4 DEF PaddingOK
  <1>18. ReturnsOK'
    <2>1. ReturnsOK
      BY DEF DataOK
    <2> QED
      BY <1>1, <2>1, <1>2, <1>3, <1>4, <1>9 DEF ReturnsOK, Batch
  <1>19. OutputExact'
    <2>1. OutputExact
      BY DEF DataOK
    <2>2. \A p \in Ranks : stage'[p] = "complete" =>
             stage[p] = "complete" /\ Current(p)' = Current(p) /\ out'[p] = out[p]
      BY <1>1, <1>2, <1>3, <1>4 DEF Current, Batch
    <2> QED
      BY <2>1, <2>2, OutputStays
  <1> QED
    BY <1>11, <1>12, <1>13, <1>14, <1>15, <1>16, <1>17, <1>18, <1>19 DEF DataOK

LEMMA NotifyPayloadData ==
    ASSUME Sizes, PlansFit, ControlType, ControlOK, DataType, DataOK, NEW r \in Ranks, NEW d \in Ranks, NotifyPayload(r, d)
    PROVE  DataType' /\ DataOK'
  <1>1. stage[r] = "payload"
    BY SizeFacts, ControlValues DEF NotifyPayload
  <1>2. \A q \in Ranks : told'[q] = IF q = r THEN told[r] \cup {d} ELSE told[q]
    BY <1>1 DEF NotifyPayload, ControlType, DataType
  <1>3. UNCHANGED <<plan, request, layer, stage, packed, counted, sent, counts, grouped, out, countTarget, xTarget, reverseTarget>>
    BY DEF NotifyPayload, progress, windows, signals
  <1>4. PlaceOK(r) /\ request[r] \in Nat /\ layer[r] \in Nat /\ 1 <= layer[r] /\ r \in Nat /\ r < EP /\ \A q \in Ranks : q \in Nat /\ q < EP
    BY ControlValues DEF ControlOK
  <1>5. \A q \in Ranks : Current(q)' = Current(q)
    BY <1>2, <1>3 DEF Current, Batch
  <1>6. \A p, q \in Ranks : CountSent(p, q)' <=> CountSent(p, q)
    BY <1>1, <1>2, <1>3, <1>4, SizeFacts DEF CountSent, AfterCount, AfterPayload, AfterReverse,
       PlaceOK
  <1>7. \A p, q \in Ranks : PayloadPut(p, q)' <=> PayloadPut(p, q)
    BY <1>1, <1>2, <1>3, <1>4 DEF PayloadPut, AfterCount, AfterPayload, AfterReverse, PlaceOK
  <1>8. \A p, q \in Ranks : LayersBack(p, q)' = LayersBack(p, q)
    BY <1>1, <1>2, <1>3, <1>4 DEF LayersBack, Reached, ReversePut, AfterCount, AfterPayload,
       AfterReverse, PlaceOK
  <1>9. DataType'
    BY <1>3 DEF DataType
  <1>10. PackedOK'
    <2>1. PackedOK
      BY DEF DataOK
    <2> QED
      BY <1>1, <2>1, <1>2, <1>3, <1>5 DEF PackedOK
  <1>11. CountsSentOK'
    <2>1. CountsSentOK
      BY DEF DataOK
    <2> QED
      BY <1>1, <2>1, <1>2, <1>3, <1>5, <1>6 DEF CountsSentOK
  <1>12. CountsTakenOK'
    <2>1. CountsTakenOK
      BY DEF DataOK
    <2> QED
      BY <1>1, <2>1, <1>2, <1>3, <1>5 DEF CountsTakenOK, AfterCount, AfterPayload, AfterReverse
  <1>13. LanesOK'
    <2>1. LanesOK
      BY DEF DataOK
    <2> QED
      BY <1>1, <2>1, <1>2, <1>3, <1>5, <1>7 DEF LanesOK
  <1>14. SlabsOK'
    <2>1. SlabsOK
      BY DEF DataOK
    <2> QED
      BY <1>1, <2>1, <1>2, <1>3, <1>5 DEF SlabsOK
  <1>15. PaddingOK'
    <2>1. PaddingOK
      BY DEF DataOK
    <2> QED
      BY <1>1, <2>1, <1>2, <1>3 DEF PaddingOK
  <1>16. ReturnsOK'
    <2>1. ReturnsOK
      BY DEF DataOK
    <2> QED
      BY <1>1, <2>1, <1>2, <1>3, <1>8 DEF ReturnsOK, Batch
  <1>17. OutputExact'
    <2>1. OutputExact
      BY DEF DataOK
    <2>2. \A p \in Ranks : stage'[p] = "complete" =>
             stage[p] = "complete" /\ Current(p)' = Current(p) /\ out'[p] = out[p]
      BY <1>1, <1>2, <1>3 DEF Current, Batch
    <2> QED
      BY <2>1, <2>2, OutputStays
  <1> QED
    BY <1>9, <1>10, <1>11, <1>12, <1>13, <1>14, <1>15, <1>16, <1>17 DEF DataOK

LEMMA ResortData ==
    ASSUME Sizes, PlansFit, ControlType, ControlOK, DataType, DataOK, NEW r \in Ranks, Resort(r)
    PROVE  DataType' /\ DataOK'
  <1>1. stage[r] = "payload" /\ sent[r] = Ranks /\ \A x \in Ranks \ {r} : xSignal[r][x] >= layer[r]
    BY SizeFacts, ControlValues DEF Resort, Heard, Peers
  <1>2. \A q \in Ranks : stage'[q] = IF q = r THEN "experts" ELSE stage[q]
    BY <1>1 DEF Resort, Heard, Peers, ControlType, DataType
  <1>3. \A q \in Ranks : sent'[q] = IF q = r THEN {} ELSE sent[q]
    BY <1>1 DEF Resort, Heard, Peers, ControlType, DataType
  <1>4. \A q \in Ranks : grouped'[q] = IF q = r THEN Resorted(r) ELSE grouped[q]
    BY <1>1 DEF Resort, Heard, Peers, ControlType, DataType
  <1>5. UNCHANGED <<plan, request, layer, packed, counted, counts, out, countTarget, xTarget, reverseTarget>>
    BY DEF Resort, Heard, Peers, progress, windows, signals
  <1>6. PlaceOK(r) /\ request[r] \in Nat /\ layer[r] \in Nat /\ 1 <= layer[r] /\ r \in Nat /\ r < EP /\ \A q \in Ranks : q \in Nat /\ q < EP
    BY ControlValues DEF ControlOK
  <1>7. \A q \in Ranks : Current(q)' = Current(q)
    BY <1>2, <1>3, <1>4, <1>5 DEF Current, Batch
  <1>8. \A p, q \in Ranks : CountSent(p, q)' <=> CountSent(p, q)
    BY <1>1, <1>2, <1>3, <1>4, <1>5, <1>6, SizeFacts DEF CountSent, AfterCount, AfterPayload,
       AfterReverse, PlaceOK
  <1>9. \A p, q \in Ranks : PayloadPut(p, q)' <=> PayloadPut(p, q)
    BY <1>1, <1>2, <1>3, <1>4, <1>5, <1>6 DEF PayloadPut, AfterCount, AfterPayload, AfterReverse,
       PlaceOK
  <1>10. \A p, q \in Ranks : LayersBack(p, q)' = LayersBack(p, q)
    BY <1>1, <1>2, <1>3, <1>4, <1>5, <1>6 DEF LayersBack, Reached, ReversePut, AfterCount,
       AfterPayload, AfterReverse, PlaceOK
  <1>11. /\ Resorted(r) \in [GroupedRows -> Rows]
        /\ SlabsHold(Resorted(r), counts[r], Current(r), r, FALSE)
        /\ PadsHold(Resorted(r), counts[r])
    <2>1. Fits(Current(r))
      BY <1>1, CurrentFits, SizeFacts DEF DataType
    <2>2. counts[r] = [p \in Ranks |-> CountsOf(Current(r), p, r)]
      BY <1>1 DEF DataOK, CountsTakenOK, AfterCount
    <2>3. LanesOK
      BY DEF DataOK
    <2>4. ASSUME NEW p \in Ranks
          PROVE  LaneHolds(xTarget[r], Current(r), p, r)
      <3>1. CASE p = r
        <4>1. PayloadPut(r, r)
          BY <1>1 DEF PayloadPut
        <4> QED
          BY <2>3, <3>1, <4>1 DEF LanesOK
      <3>2. CASE p # r
        <4>1. Current(p) = Current(r) /\ PayloadPut(p, r)
          BY <1>1, <3>2, RowsHeard
        <4>2. LaneHolds(xTarget[r], Current(p), p, r)
          BY <2>3, <4>1 DEF LanesOK
        <4> QED
          BY <4>1, <4>2
      <3> QED
        BY <3>1, <3>2
    <2>5. xTarget[r] \in [WindowRows -> RouteItems] /\ grouped[r] \in [GroupedRows -> Rows]
      BY DEF DataType
    <2> QED
      BY <2>1, <2>2, <2>4, <2>5, ResortedIs
  <1>12. DataType'
    <2>1. grouped' \in [Ranks -> [GroupedRows -> Rows]]
      BY <1>11 DEF Resort, DataType
    <2> QED
      BY <2>1, <1>5 DEF DataType
  <1>13. PackedOK'
    <2>1. PackedOK
      BY DEF DataOK
    <2> QED
      BY <1>1, <2>1, <1>2, <1>3, <1>4, <1>5, <1>7 DEF PackedOK
  <1>14. CountsSentOK'
    <2>1. CountsSentOK
      BY DEF DataOK
    <2> QED
      BY <1>1, <2>1, <1>2, <1>3, <1>4, <1>5, <1>7, <1>8 DEF CountsSentOK
  <1>15. CountsTakenOK'
    <2>1. CountsTakenOK
      BY DEF DataOK
    <2> QED
      BY <1>1, <2>1, <1>2, <1>3, <1>4, <1>5, <1>7 DEF CountsTakenOK, AfterCount, AfterPayload,
         AfterReverse
  <1>16. LanesOK'
    <2>1. LanesOK
      BY DEF DataOK
    <2> QED
      BY <1>1, <2>1, <1>2, <1>3, <1>4, <1>5, <1>7, <1>9 DEF LanesOK
  <1>17. SlabsOK'
    <2>1. SlabsOK
      BY DEF DataOK
    <2> SUFFICES ASSUME NEW q \in Ranks, stage'[q] \in {"experts", "reverse"}
                 PROVE  SlabsHold(grouped'[q], counts'[q], Current(q)', q, stage'[q] = "reverse")
      BY DEF SlabsOK
    <2>2. CASE q = r
      <3>1. grouped'[q] = Resorted(r) /\ counts'[q] = counts[r] /\ Current(q)' = Current(r)
            /\ (stage'[q] = "reverse") = FALSE
        BY <2>2, <1>2, <1>3, <1>4, <1>5, <1>7
      <3> QED
        BY <2>2, <3>1, <1>11
    <2>3. CASE q # r
      <3>1. stage'[q] = stage[q] /\ grouped'[q] = grouped[q] /\ counts'[q] = counts[q]
            /\ Current(q)' = Current(q)
        BY <2>3, <1>2, <1>3, <1>4, <1>5, <1>7
      <3>2. SlabsHold(grouped[q], counts[q], Current(q), q, stage[q] = "reverse")
        BY <2>1, <3>1 DEF SlabsOK
      <3> QED
        BY <3>1, <3>2
    <2> QED
      BY <2>2, <2>3
  <1>18. PaddingOK'
    <2>1. PaddingOK
      BY DEF DataOK
    <2> SUFFICES ASSUME NEW q \in Ranks, stage'[q] = "experts"
                 PROVE  PadsHold(grouped'[q], counts'[q])
      BY DEF PaddingOK
    <2>2. CASE q = r
      <3>1. grouped'[q] = Resorted(r) /\ counts'[q] = counts[r]
        BY <2>2, <1>2, <1>3, <1>4, <1>5
      <3> QED
        BY <3>1, <1>11
    <2>3. CASE q # r
      <3>1. stage'[q] = stage[q] /\ grouped'[q] = grouped[q] /\ counts'[q] = counts[q]
        BY <2>3, <1>2, <1>3, <1>4, <1>5
      <3>2. PadsHold(grouped[q], counts[q])
        BY <2>1, <3>1 DEF PaddingOK
      <3> QED
        BY <3>1, <3>2
    <2> QED
      BY <2>2, <2>3
  <1>19. ReturnsOK'
    <2>1. ReturnsOK
      BY DEF DataOK
    <2> QED
      BY <1>1, <2>1, <1>2, <1>3, <1>4, <1>5, <1>10 DEF ReturnsOK, Batch
  <1>20. OutputExact'
    <2>1. OutputExact
      BY DEF DataOK
    <2>2. \A p \in Ranks : stage'[p] = "complete" =>
             stage[p] = "complete" /\ Current(p)' = Current(p) /\ out'[p] = out[p]
      BY <1>1, <1>2, <1>3, <1>4, <1>5 DEF Current, Batch
    <2> QED
      BY <2>1, <2>2, OutputStays
  <1> QED
    BY <1>12, <1>13, <1>14, <1>15, <1>16, <1>17, <1>18, <1>19, <1>20 DEF DataOK

LEMMA RunExpertsData ==
    ASSUME Sizes, PlansFit, ControlType, ControlOK, DataType, DataOK, NEW r \in Ranks, RunExperts(r)
    PROVE  DataType' /\ DataOK'
  <1>1. stage[r] = "experts"
    BY SizeFacts, ControlValues DEF RunExperts
  <1>2. \A q \in Ranks : stage'[q] = IF q = r THEN "reverse" ELSE stage[q]
    BY <1>1 DEF RunExperts, ControlType, DataType
  <1>3. \A q \in Ranks : grouped'[q] = IF q = r THEN Computed(r) ELSE grouped[q]
    BY <1>1 DEF RunExperts, ControlType, DataType
  <1>4. UNCHANGED <<plan, request, layer, packed, counted, sent, counts, out, countTarget, xTarget, reverseTarget>>
    BY DEF RunExperts, progress, windows, signals
  <1>5. PlaceOK(r) /\ request[r] \in Nat /\ layer[r] \in Nat /\ 1 <= layer[r] /\ r \in Nat /\ r < EP /\ \A q \in Ranks : q \in Nat /\ q < EP
    BY ControlValues DEF ControlOK
  <1>6. \A q \in Ranks : Current(q)' = Current(q)
    BY <1>2, <1>3, <1>4 DEF Current, Batch
  <1>7. \A p, q \in Ranks : CountSent(p, q)' <=> CountSent(p, q)
    BY <1>1, <1>2, <1>3, <1>4, <1>5, SizeFacts DEF CountSent, AfterCount, AfterPayload,
       AfterReverse, PlaceOK
  <1>8. \A p, q \in Ranks : PayloadPut(p, q)' <=> PayloadPut(p, q)
    BY <1>1, <1>2, <1>3, <1>4, <1>5 DEF PayloadPut, AfterCount, AfterPayload, AfterReverse, PlaceOK
  <1>9. \A p, q \in Ranks : LayersBack(p, q)' = LayersBack(p, q)
    BY <1>1, <1>2, <1>3, <1>4, <1>5 DEF LayersBack, Reached, ReversePut, AfterCount, AfterPayload,
       AfterReverse, PlaceOK
  <1>10. /\ Computed(r) \in [GroupedRows -> Rows]
        /\ SlabsHold(Computed(r), counts[r], Current(r), r, TRUE)
    <2>1. Fits(Current(r))
      BY <1>1, CurrentFits, SizeFacts DEF DataType
    <2>2. counts[r] = [p \in Ranks |-> CountsOf(Current(r), p, r)]
      BY <1>1 DEF DataOK, CountsTakenOK, AfterCount, AfterPayload
    <2>3. SlabsHold(grouped[r], counts[r], Current(r), r, FALSE)
      <3>1. (stage[r] = "reverse") = FALSE
        BY <1>1
      <3>2. SlabsHold(grouped[r], counts[r], Current(r), r, stage[r] = "reverse")
        BY <1>1 DEF DataOK, SlabsOK
      <3> QED
        BY <3>1, <3>2
    <2>4. grouped[r] \in [GroupedRows -> Rows]
      BY DEF DataType
    <2> QED
      BY <2>1, <2>2, <2>3, <2>4, ComputedIs
  <1>11. DataType'
    <2>1. grouped' \in [Ranks -> [GroupedRows -> Rows]]
      BY <1>10 DEF RunExperts, DataType
    <2> QED
      BY <2>1, <1>4 DEF DataType
  <1>12. PackedOK'
    <2>1. PackedOK
      BY DEF DataOK
    <2> QED
      BY <1>1, <2>1, <1>2, <1>3, <1>4, <1>6 DEF PackedOK
  <1>13. CountsSentOK'
    <2>1. CountsSentOK
      BY DEF DataOK
    <2> QED
      BY <1>1, <2>1, <1>2, <1>3, <1>4, <1>6, <1>7 DEF CountsSentOK
  <1>14. CountsTakenOK'
    <2>1. CountsTakenOK
      BY DEF DataOK
    <2> QED
      BY <1>1, <2>1, <1>2, <1>3, <1>4, <1>6 DEF CountsTakenOK, AfterCount, AfterPayload,
         AfterReverse
  <1>15. LanesOK'
    <2>1. LanesOK
      BY DEF DataOK
    <2> QED
      BY <1>1, <2>1, <1>2, <1>3, <1>4, <1>6, <1>8 DEF LanesOK
  <1>16. SlabsOK'
    <2>1. SlabsOK
      BY DEF DataOK
    <2> SUFFICES ASSUME NEW q \in Ranks, stage'[q] \in {"experts", "reverse"}
                 PROVE  SlabsHold(grouped'[q], counts'[q], Current(q)', q, stage'[q] = "reverse")
      BY DEF SlabsOK
    <2>2. CASE q = r
      <3>1. grouped'[q] = Computed(r) /\ counts'[q] = counts[r] /\ Current(q)' = Current(r)
            /\ (stage'[q] = "reverse") = TRUE
        BY <2>2, <1>2, <1>3, <1>4, <1>6
      <3> QED
        BY <2>2, <3>1, <1>10
    <2>3. CASE q # r
      <3>1. stage'[q] = stage[q] /\ grouped'[q] = grouped[q] /\ counts'[q] = counts[q]
            /\ Current(q)' = Current(q)
        BY <2>3, <1>2, <1>3, <1>4, <1>6
      <3>2. SlabsHold(grouped[q], counts[q], Current(q), q, stage[q] = "reverse")
        BY <2>1, <3>1 DEF SlabsOK
      <3> QED
        BY <3>1, <3>2
    <2> QED
      BY <2>2, <2>3
  <1>17. PaddingOK'
    <2>1. PaddingOK
      BY DEF DataOK
    <2> QED
      BY <1>1, <2>1, <1>2, <1>3, <1>4 DEF PaddingOK
  <1>18. ReturnsOK'
    <2>1. ReturnsOK
      BY DEF DataOK
    <2> QED
      BY <1>1, <2>1, <1>2, <1>3, <1>4, <1>9 DEF ReturnsOK, Batch
  <1>19. OutputExact'
    <2>1. OutputExact
      BY DEF DataOK
    <2>2. \A p \in Ranks : stage'[p] = "complete" =>
             stage[p] = "complete" /\ Current(p)' = Current(p) /\ out'[p] = out[p]
      BY <1>1, <1>2, <1>3, <1>4 DEF Current, Batch
    <2> QED
      BY <2>1, <2>2, OutputStays
  <1> QED
    BY <1>11, <1>12, <1>13, <1>14, <1>15, <1>16, <1>17, <1>18, <1>19 DEF DataOK

LEMMA PutReverseData ==
    ASSUME Sizes, PlansFit, ControlType, ControlOK, DataType, DataOK, NEW r \in Ranks, NEW d \in Ranks, PutReverse(r, d)
    PROVE  DataType' /\ DataOK'
  <1>1. stage[r] = "reverse" /\ d \notin sent[r]
    BY SizeFacts, ControlValues DEF PutReverse
  <1>2. \A q \in Ranks : sent'[q] = IF q = r THEN sent[r] \cup {d} ELSE sent[q]
    BY <1>1 DEF PutReverse, ControlType, DataType
  <1>3. \A q \in Ranks : reverseTarget'[q] = IF q = d THEN Returned(r, d, reverseTarget[d]) ELSE reverseTarget[q]
    BY <1>1 DEF PutReverse, ControlType, DataType
  <1>4. UNCHANGED <<plan, request, layer, stage, packed, counted, counts, grouped, out, countTarget, xTarget>>
    BY DEF PutReverse, progress, windows, signals
  <1>5. PlaceOK(r) /\ request[r] \in Nat /\ layer[r] \in Nat /\ 1 <= layer[r] /\ r \in Nat /\ r < EP /\ \A q \in Ranks : q \in Nat /\ q < EP
    BY ControlValues DEF ControlOK
  <1>6. \A q \in Ranks : Current(q)' = Current(q)
    BY <1>2, <1>3, <1>4 DEF Current, Batch
  <1>7. \A p, q \in Ranks : CountSent(p, q)' <=> CountSent(p, q)
    BY <1>1, <1>2, <1>3, <1>4, <1>5, SizeFacts DEF CountSent, AfterCount, AfterPayload,
       AfterReverse, PlaceOK
  <1>8. \A p, q \in Ranks : PayloadPut(p, q)' <=> PayloadPut(p, q)
    BY <1>1, <1>2, <1>3, <1>4, <1>5 DEF PayloadPut, AfterCount, AfterPayload, AfterReverse, PlaceOK
  <1>9. \A p, q \in Ranks : LayersBack(p, q)' = IF p = r /\ q = d THEN layer[r] ELSE LayersBack(p, q)
    <2> SUFFICES ASSUME NEW p \in Ranks, NEW q \in Ranks
                 PROVE  LayersBack(p, q)' = IF p = r /\ q = d THEN layer[r] ELSE LayersBack(p, q)
      OBVIOUS
    <2>1. /\ stage'[p] = stage[p] /\ layer'[p] = layer[p]
          /\ sent'[p] = IF p = r THEN sent[r] \cup {d} ELSE sent[p]
      BY <1>2, <1>4
    <2>2. CASE p = r /\ q = d
      <3>1. ReversePut(p, q)'
        BY <1>1, <2>1, <2>2 DEF ReversePut
      <3> QED
        BY <2>1, <2>2, <3>1 DEF LayersBack, Reached
    <2>3. CASE ~ (p = r /\ q = d)
      <3>1. q \in sent'[p] <=> q \in sent[p]
        BY <2>1, <2>3
      <3>2. ReversePut(p, q)' <=> ReversePut(p, q)
        BY <2>1, <3>1 DEF ReversePut
      <3> QED
        BY <2>1, <2>3, <3>2 DEF LayersBack, Reached
    <2> QED
      BY <2>2, <2>3
  <1>10. /\ Returned(r, d, reverseTarget[d]) \in [WindowRows -> Rows]
        /\ BackHolds(Returned(r, d, reverseTarget[d]), Current(r), d, r)
        /\ \A i \in WindowRows :
             i - r * PeerCap \notin 0 .. PeerCap - 1 =>
               Returned(r, d, reverseTarget[d])[i] = reverseTarget[d][i]
    <2>1. Fits(Current(r))
      BY <1>1, CurrentFits, SizeFacts DEF DataType
    <2>2. counts[r] = [p \in Ranks |-> CountsOf(Current(r), p, r)]
      BY <1>1 DEF DataOK, CountsTakenOK, AfterCount, AfterPayload
    <2>3. SlabsHold(grouped[r], counts[r], Current(r), r, TRUE)
      <3>1. (stage[r] = "reverse") = TRUE
        BY <1>1
      <3>2. SlabsHold(grouped[r], counts[r], Current(r), r, stage[r] = "reverse")
        BY <1>1 DEF DataOK, SlabsOK
      <3> QED
        BY <3>1, <3>2
    <2>4. grouped[r] \in [GroupedRows -> Rows] /\ reverseTarget[d] \in [WindowRows -> Rows]
      BY DEF DataType
    <2> QED
      BY <2>1, <2>2, <2>3, <2>4, ReturnedIs
  <1>11. DataType'
    <2>1. reverseTarget' \in [Ranks -> [WindowRows -> Rows]]
      BY <1>10 DEF PutReverse, DataType
    <2> QED
      BY <2>1, <1>4 DEF DataType
  <1>12. PackedOK'
    <2>1. PackedOK
      BY DEF DataOK
    <2> QED
      BY <1>1, <2>1, <1>2, <1>3, <1>4, <1>6 DEF PackedOK
  <1>13. CountsSentOK'
    <2>1. CountsSentOK
      BY DEF DataOK
    <2> QED
      BY <1>1, <2>1, <1>2, <1>3, <1>4, <1>6, <1>7 DEF CountsSentOK
  <1>14. CountsTakenOK'
    <2>1. CountsTakenOK
      BY DEF DataOK
    <2> QED
      BY <1>1, <2>1, <1>2, <1>3, <1>4, <1>6 DEF CountsTakenOK, AfterCount, AfterPayload,
         AfterReverse
  <1>15. LanesOK'
    <2>1. LanesOK
      BY DEF DataOK
    <2> QED
      BY <1>1, <2>1, <1>2, <1>3, <1>4, <1>6, <1>8 DEF LanesOK
  <1>16. SlabsOK'
    <2>1. SlabsOK
      BY DEF DataOK
    <2> QED
      BY <1>1, <2>1, <1>2, <1>3, <1>4, <1>6 DEF SlabsOK
  <1>17. PaddingOK'
    <2>1. PaddingOK
      BY DEF DataOK
    <2> QED
      BY <1>1, <2>1, <1>2, <1>3, <1>4 DEF PaddingOK
  <1>18. ReturnsOK'
    <2>1. ReturnsOK
      BY DEF DataOK
    <2> SUFFICES ASSUME NEW x \in Ranks, NEW p \in Ranks, LayersBack(p, x)' >= 1
                 PROVE  BackHolds(reverseTarget'[x], Batch(request[p], LayersBack(p, x))', x, p)
      BY DEF ReturnsOK
    <2>2. CASE p = r /\ x = d
      <3>1. reverseTarget'[x] = Returned(r, d, reverseTarget[d]) /\ LayersBack(p, x)' = layer[r]
            /\ request'[p] = request[r] /\ plan' = plan
        BY <2>2, <1>2, <1>3, <1>4, <1>9
      <3>2. Batch(request[p], LayersBack(p, x))' = Current(r)
        BY <3>1 DEF Batch, Current
      <3> QED
        BY <2>2, <3>1, <3>2, <1>10
    <2>3. CASE ~ (p = r /\ x = d)
      <3>1. LayersBack(p, x)' = LayersBack(p, x) /\ request'[p] = request[p] /\ plan' = plan
        BY <2>3, <1>9, <1>2, <1>3, <1>4
      <3>2. BackHolds(reverseTarget[x], Batch(request[p], LayersBack(p, x)), x, p)
        BY <2>1, <3>1 DEF ReturnsOK
      <3>3. Batch(request[p], LayersBack(p, x))' = Batch(request[p], LayersBack(p, x))
        BY <3>1 DEF Batch
      <3>4. CASE x # d
        <4>1. reverseTarget'[x] = reverseTarget[x]
          BY <3>4, <1>2, <1>3, <1>4
        <4> QED
          BY <3>2, <3>3, <4>1
      <3>5. CASE x = d
        <4>1. p # r /\ reverseTarget'[x] = Returned(r, d, reverseTarget[d])
          BY <2>3, <3>5, <1>2, <1>3, <1>4
        <4>2. Fits(Batch(request[p], LayersBack(p, x)))
          <5>1. layer[p] \in Nat /\ 1 <= layer[p] /\ layer[p] <= Layers /\ Layers \in Nat /\ PlaceOK(p)
            BY ControlValues, SizeFacts DEF ControlOK
          <5>2. LayersBack(p, x) >= 1 /\ (LayersBack(p, x) = layer[p] \/ LayersBack(p, x) = layer[p] - 1)
            BY <3>1 DEF LayersBack, Reached
          <5>3. stage[p] = "stopped" => LayersBack(p, x) = layer[p] - 1 /\ layer[p] = 1
            BY <5>1 DEF LayersBack, Reached, ReversePut, AfterReverse, PlaceOK
          <5>4. LayersBack(p, x) \in 1 .. Layers /\ stage[p] # "stopped"
            BY <5>1, <5>2, <5>3
          <5> QED
            BY <5>4, BatchFits DEF DataType
        <4>3. ASSUME NEW i \in WindowRows, i - p * PeerCap \in 0 .. PeerCap - 1
              PROVE  Returned(r, d, reverseTarget[d])[i] = reverseTarget[d][i]
          <5>1. i - r * PeerCap \notin 0 .. PeerCap - 1
            BY <4>1, <4>3, LaneInWindow
          <5> QED
            BY <5>1, <1>10
        <4>4. BackHolds(Returned(r, d, reverseTarget[d]), Batch(request[p], LayersBack(p, x)), x, p)
          BY <3>2, <3>5, <4>2, <4>3, BackKept
        <4> QED
          BY <3>3, <4>1, <4>4
      <3> QED
        BY <3>4, <3>5
    <2> QED
      BY <2>2, <2>3
  <1>19. OutputExact'
    <2>1. OutputExact
      BY DEF DataOK
    <2>2. \A p \in Ranks : stage'[p] = "complete" =>
             stage[p] = "complete" /\ Current(p)' = Current(p) /\ out'[p] = out[p]
      BY <1>1, <1>2, <1>3, <1>4 DEF Current, Batch
    <2> QED
      BY <2>1, <2>2, OutputStays
  <1> QED
    BY <1>11, <1>12, <1>13, <1>14, <1>15, <1>16, <1>17, <1>18, <1>19 DEF DataOK

LEMMA NotifyReverseData ==
    ASSUME Sizes, PlansFit, ControlType, ControlOK, DataType, DataOK, NEW r \in Ranks, NEW d \in Ranks, NotifyReverse(r, d)
    PROVE  DataType' /\ DataOK'
  <1>1. stage[r] = "reverse"
    BY SizeFacts, ControlValues DEF NotifyReverse
  <1>2. \A q \in Ranks : told'[q] = IF q = r THEN told[r] \cup {d} ELSE told[q]
    BY <1>1 DEF NotifyReverse, ControlType, DataType
  <1>3. UNCHANGED <<plan, request, layer, stage, packed, counted, sent, counts, grouped, out, countTarget, xTarget, reverseTarget>>
    BY DEF NotifyReverse, progress, windows, signals
  <1>4. PlaceOK(r) /\ request[r] \in Nat /\ layer[r] \in Nat /\ 1 <= layer[r] /\ r \in Nat /\ r < EP /\ \A q \in Ranks : q \in Nat /\ q < EP
    BY ControlValues DEF ControlOK
  <1>5. \A q \in Ranks : Current(q)' = Current(q)
    BY <1>2, <1>3 DEF Current, Batch
  <1>6. \A p, q \in Ranks : CountSent(p, q)' <=> CountSent(p, q)
    BY <1>1, <1>2, <1>3, <1>4, SizeFacts DEF CountSent, AfterCount, AfterPayload, AfterReverse,
       PlaceOK
  <1>7. \A p, q \in Ranks : PayloadPut(p, q)' <=> PayloadPut(p, q)
    BY <1>1, <1>2, <1>3, <1>4 DEF PayloadPut, AfterCount, AfterPayload, AfterReverse, PlaceOK
  <1>8. \A p, q \in Ranks : LayersBack(p, q)' = LayersBack(p, q)
    BY <1>1, <1>2, <1>3, <1>4 DEF LayersBack, Reached, ReversePut, AfterCount, AfterPayload,
       AfterReverse, PlaceOK
  <1>9. DataType'
    BY <1>3 DEF DataType
  <1>10. PackedOK'
    <2>1. PackedOK
      BY DEF DataOK
    <2> QED
      BY <1>1, <2>1, <1>2, <1>3, <1>5 DEF PackedOK
  <1>11. CountsSentOK'
    <2>1. CountsSentOK
      BY DEF DataOK
    <2> QED
      BY <1>1, <2>1, <1>2, <1>3, <1>5, <1>6 DEF CountsSentOK
  <1>12. CountsTakenOK'
    <2>1. CountsTakenOK
      BY DEF DataOK
    <2> QED
      BY <1>1, <2>1, <1>2, <1>3, <1>5 DEF CountsTakenOK, AfterCount, AfterPayload, AfterReverse
  <1>13. LanesOK'
    <2>1. LanesOK
      BY DEF DataOK
    <2> QED
      BY <1>1, <2>1, <1>2, <1>3, <1>5, <1>7 DEF LanesOK
  <1>14. SlabsOK'
    <2>1. SlabsOK
      BY DEF DataOK
    <2> QED
      BY <1>1, <2>1, <1>2, <1>3, <1>5 DEF SlabsOK
  <1>15. PaddingOK'
    <2>1. PaddingOK
      BY DEF DataOK
    <2> QED
      BY <1>1, <2>1, <1>2, <1>3 DEF PaddingOK
  <1>16. ReturnsOK'
    <2>1. ReturnsOK
      BY DEF DataOK
    <2> QED
      BY <1>1, <2>1, <1>2, <1>3, <1>8 DEF ReturnsOK, Batch
  <1>17. OutputExact'
    <2>1. OutputExact
      BY DEF DataOK
    <2>2. \A p \in Ranks : stage'[p] = "complete" =>
             stage[p] = "complete" /\ Current(p)' = Current(p) /\ out'[p] = out[p]
      BY <1>1, <1>2, <1>3 DEF Current, Batch
    <2> QED
      BY <2>1, <2>2, OutputStays
  <1> QED
    BY <1>9, <1>10, <1>11, <1>12, <1>13, <1>14, <1>15, <1>16, <1>17 DEF DataOK

LEMMA FinalizeData ==
    ASSUME Sizes, PlansFit, ControlType, ControlOK, DataType, DataOK, NEW r \in Ranks, Finalize(r)
    PROVE  DataType' /\ DataOK'
  <1>1. stage[r] = "reverse" /\ sent[r] = Ranks /\ \A x \in Ranks \ {r} : reverseSignal[r][x] >= layer[r]
    BY SizeFacts, ControlValues DEF Finalize, Heard, Peers, Summed
  <1>2. \A q \in Ranks : stage'[q] = IF q = r THEN "complete" ELSE stage[q]
    BY <1>1 DEF Finalize, Heard, Peers, Summed, ControlType, DataType
  <1>3. \A q \in Ranks : sent'[q] = IF q = r THEN {} ELSE sent[q]
    BY <1>1 DEF Finalize, Heard, Peers, Summed, ControlType, DataType
  <1>4. \A q \in Ranks : out'[q] = IF q = r THEN Summed(r) ELSE out[q]
    BY <1>1 DEF Finalize, Heard, Peers, Summed, ControlType, DataType
  <1>5. UNCHANGED <<plan, request, layer, packed, counted, counts, grouped, countTarget, xTarget, reverseTarget>>
    BY DEF Finalize, Heard, Peers, Summed, progress, windows, signals
  <1>6. PlaceOK(r) /\ request[r] \in Nat /\ layer[r] \in Nat /\ 1 <= layer[r] /\ r \in Nat /\ r < EP /\ \A q \in Ranks : q \in Nat /\ q < EP
    BY ControlValues DEF ControlOK
  <1>7. \A q \in Ranks : Current(q)' = Current(q)
    BY <1>2, <1>3, <1>4, <1>5 DEF Current, Batch
  <1>8. \A p, q \in Ranks : CountSent(p, q)' <=> CountSent(p, q)
    BY <1>1, <1>2, <1>3, <1>4, <1>5, <1>6, SizeFacts DEF CountSent, AfterCount, AfterPayload,
       AfterReverse, PlaceOK
  <1>9. \A p, q \in Ranks : PayloadPut(p, q)' <=> PayloadPut(p, q)
    BY <1>1, <1>2, <1>3, <1>4, <1>5, <1>6 DEF PayloadPut, AfterCount, AfterPayload, AfterReverse,
       PlaceOK
  <1>10. \A p, q \in Ranks : LayersBack(p, q)' = LayersBack(p, q)
    BY <1>1, <1>2, <1>3, <1>4, <1>5, <1>6 DEF LayersBack, Reached, ReversePut, AfterCount,
       AfterPayload, AfterReverse, PlaceOK
  <1>11. /\ DOMAIN Summed(r) = Tokens
        /\ \A i \in Tokens :
             /\ Summed(r)[i] =
                  IF ~ Live(Current(r).lengths[r], i) THEN <<>>
                  ELSE [k \in 1 .. TopK |->
                          Row([call |-> Current(r).call, source |-> r, slot |-> i, k |-> k - 1],
                              Current(r).gate[r][i][k])]
             /\ Summed(r)[i] \in Seq(Rows)
    <2>1. Fits(Current(r))
      BY <1>1, CurrentFits, SizeFacts DEF DataType
    <2>2. packed[r] = PackedOf(Current(r), r)
      BY <1>1 DEF DataOK, PackedOK
    <2>3. ReturnsOK
      BY DEF DataOK
    <2>4. ASSUME NEW p \in Ranks
          PROVE  BackHolds(reverseTarget[r], Current(r), r, p)
      <3>1. request[p] = request[r] /\ LayersBack(p, r) = layer[r]
        <4>1. CASE p = r
          BY <1>1, <4>1 DEF LayersBack, Reached, ReversePut
        <4>2. CASE p # r
          BY <1>1, <4>2, ReturnsHeard
        <4> QED
          BY <4>1, <4>2
      <3>2. LayersBack(p, r) >= 1
        BY <3>1, <1>6
      <3>3. BackHolds(reverseTarget[r], Batch(request[p], LayersBack(p, r)), r, p)
        BY <2>3, <3>2 DEF ReturnsOK
      <3> QED
        BY <3>1, <3>3 DEF Current
    <2> QED
      BY <2>1, <2>2, <2>4, SummedIs
  <1>12. DataType'
    <2>1. DOMAIN out' = Ranks /\ \A q \in Ranks : DOMAIN out'[q] = Tokens /\ \A i \in Tokens : out'[q][i] \in Seq(Rows)
      <3>1. DOMAIN out' = Ranks
        BY DEF Finalize, DataType
      <3>2. ASSUME NEW q \in Ranks
            PROVE  DOMAIN out'[q] = Tokens /\ \A i \in Tokens : out'[q][i] \in Seq(Rows)
        <4>1. CASE q = r
          BY <4>1, <1>4, <1>11
        <4>2. CASE q # r
          BY <4>2, <1>4 DEF DataType
        <4> QED
          BY <4>1, <4>2
      <3> QED
        BY <3>1, <3>2
    <2> QED
      BY <2>1, <1>5 DEF DataType
  <1>13. PackedOK'
    <2>1. PackedOK
      BY DEF DataOK
    <2> QED
      BY <1>1, <2>1, <1>2, <1>3, <1>4, <1>5, <1>7 DEF PackedOK
  <1>14. CountsSentOK'
    <2>1. CountsSentOK
      BY DEF DataOK
    <2> QED
      BY <1>1, <2>1, <1>2, <1>3, <1>4, <1>5, <1>7, <1>8 DEF CountsSentOK
  <1>15. CountsTakenOK'
    <2>1. CountsTakenOK
      BY DEF DataOK
    <2> QED
      BY <1>1, <2>1, <1>2, <1>3, <1>4, <1>5, <1>7 DEF CountsTakenOK, AfterCount, AfterPayload,
         AfterReverse
  <1>16. LanesOK'
    <2>1. LanesOK
      BY DEF DataOK
    <2> QED
      BY <1>1, <2>1, <1>2, <1>3, <1>4, <1>5, <1>7, <1>9 DEF LanesOK
  <1>17. SlabsOK'
    <2>1. SlabsOK
      BY DEF DataOK
    <2> QED
      BY <1>1, <2>1, <1>2, <1>3, <1>4, <1>5, <1>7 DEF SlabsOK
  <1>18. PaddingOK'
    <2>1. PaddingOK
      BY DEF DataOK
    <2> QED
      BY <1>1, <2>1, <1>2, <1>3, <1>4, <1>5 DEF PaddingOK
  <1>19. ReturnsOK'
    <2>1. ReturnsOK
      BY DEF DataOK
    <2> QED
      BY <1>1, <2>1, <1>2, <1>3, <1>4, <1>5, <1>10 DEF ReturnsOK, Batch
  <1>20. OutputExact'
    <2>1. OutputExact
      BY DEF DataOK
    <2>2. ASSUME NEW q \in Ranks, stage'[q] = "complete", NEW i \in Tokens
          PROVE  out'[q][i] = Owed(Current(q), q, i)
      <3>1. CASE q = r
        BY <3>1, <1>4, <1>11 DEF Owed
      <3>2. CASE q # r
        <4>1. stage[q] = "complete" /\ out'[q] = out[q]
          BY <2>2, <3>2, <1>2, <1>3, <1>4, <1>5
        <4> QED
          BY <2>1, <4>1, OutputIs
      <3> QED
        BY <3>1, <3>2
    <2>3. \A q \in Ranks : Current(q)' = Current(q)
      BY <1>2, <1>3, <1>4, <1>5 DEF Current, Batch
    <2> QED
      BY <2>2, <2>3, OutputIs
  <1> QED
    BY <1>12, <1>13, <1>14, <1>15, <1>16, <1>17, <1>18, <1>19, <1>20 DEF DataOK

LEMMA NextLayerData ==
    ASSUME Sizes, PlansFit, ControlType, ControlOK, DataType, DataOK, NEW r \in Ranks, NextLayer(r)
    PROVE  DataType' /\ DataOK'
  <1>1. stage[r] = "complete" /\ layer[r] < Layers
    BY SizeFacts, ControlValues DEF NextLayer
  <1>2. \A q \in Ranks : stage'[q] = IF q = r THEN "pack" ELSE stage[q]
    BY <1>1 DEF NextLayer, ControlType, DataType
  <1>3. \A q \in Ranks : layer'[q] = IF q = r THEN layer[r] + 1 ELSE layer[q]
    BY <1>1 DEF NextLayer, ControlType, DataType
  <1>4. UNCHANGED <<plan, request, packed, counted, sent, counts, grouped, out, countTarget, xTarget, reverseTarget>>
    BY DEF NextLayer, progress, windows, signals
  <1>5. PlaceOK(r) /\ request[r] \in Nat /\ layer[r] \in Nat /\ 1 <= layer[r] /\ r \in Nat /\ r < EP /\ \A q \in Ranks : q \in Nat /\ q < EP
    BY ControlValues DEF ControlOK
  <1>6. \A q \in Ranks : q # r => Current(q)' = Current(q)
    BY <1>2, <1>3, <1>4 DEF Current, Batch
  <1>7. \A p, q \in Ranks : CountSent(p, q)' <=> p # r /\ CountSent(p, q)
    BY <1>1, <1>2, <1>3, <1>4, <1>5, SizeFacts DEF CountSent, AfterCount, AfterPayload,
       AfterReverse, PlaceOK
  <1>8. \A p, q \in Ranks : PayloadPut(p, q)' <=> p # r /\ PayloadPut(p, q)
    BY <1>1, <1>2, <1>3, <1>4, <1>5 DEF PayloadPut, AfterCount, AfterPayload, AfterReverse, PlaceOK
  <1>9. \A p, q \in Ranks : LayersBack(p, q)' = LayersBack(p, q)
    <2> SUFFICES ASSUME NEW p \in Ranks, NEW q \in Ranks
                 PROVE  LayersBack(p, q)' = LayersBack(p, q)
      OBVIOUS
    <2>1. CASE p = r
      <3>1. layer'[r] = layer[r] + 1 /\ stage'[r] \in {"pack", "stopped"}
        BY <1>2, <1>3, <1>4
      <3>2. LayersBack(r, q)' = layer'[r] - 1
        BY <3>1 DEF LayersBack, Reached, ReversePut, AfterReverse
      <3>3. stage[r] = "complete" => LayersBack(r, q) = layer[r]
        BY DEF LayersBack, Reached, ReversePut, AfterReverse
      <3> QED
        BY <1>1, <2>1, <3>1, <3>2, <3>3, <1>5
    <2>2. CASE p # r
      <3>1. layer'[p] = layer[p] /\ stage'[p] = stage[p] /\ sent'[p] = sent[p]
        BY <2>2, <1>2, <1>3, <1>4
      <3> QED
        BY <2>2, <3>1 DEF LayersBack, Reached, ReversePut
    <2> QED
      BY <2>1, <2>2
  <1>10. DataType'
    BY <1>4 DEF DataType
  <1>11. PackedOK'
    <2>1. PackedOK
      BY DEF DataOK
    <2> QED
      BY <1>1, <2>1, <1>2, <1>3, <1>4, <1>6 DEF PackedOK
  <1>12. CountsSentOK'
    <2>1. CountsSentOK
      BY DEF DataOK
    <2> QED
      BY <1>1, <2>1, <1>2, <1>3, <1>4, <1>6, <1>7 DEF CountsSentOK
  <1>13. CountsTakenOK'
    <2>1. CountsTakenOK
      BY DEF DataOK
    <2> QED
      BY <1>1, <2>1, <1>2, <1>3, <1>4, <1>6 DEF CountsTakenOK, AfterCount, AfterPayload,
         AfterReverse
  <1>14. LanesOK'
    <2>1. LanesOK
      BY DEF DataOK
    <2> QED
      BY <1>1, <2>1, <1>2, <1>3, <1>4, <1>6, <1>8 DEF LanesOK
  <1>15. SlabsOK'
    <2>1. SlabsOK
      BY DEF DataOK
    <2> QED
      BY <1>1, <2>1, <1>2, <1>3, <1>4, <1>6 DEF SlabsOK
  <1>16. PaddingOK'
    <2>1. PaddingOK
      BY DEF DataOK
    <2> QED
      BY <1>1, <2>1, <1>2, <1>3, <1>4 DEF PaddingOK
  <1>17. ReturnsOK'
    <2>1. ReturnsOK
      BY DEF DataOK
    <2> QED
      BY <1>1, <2>1, <1>2, <1>3, <1>4, <1>9 DEF ReturnsOK, Batch
  <1>18. OutputExact'
    <2>1. OutputExact
      BY DEF DataOK
    <2>2. ASSUME NEW q \in Ranks, stage'[q] = "complete"
          PROVE  stage[q] = "complete" /\ Current(q)' = Current(q) /\ out'[q] = out[q]
      <3>1. q # r
        BY <2>2, <1>2, <1>3, <1>4
      <3>2. /\ stage[q] = "complete" /\ out'[q] = out[q] /\ request'[q] = request[q]
            /\ layer'[q] = layer[q] /\ plan' = plan
        BY <2>2, <3>1, <1>2, <1>3, <1>4
      <3> QED
        BY <3>2 DEF Current, Batch
    <2> QED
      BY <2>1, <2>2, OutputStays
  <1> QED
    BY <1>10, <1>11, <1>12, <1>13, <1>14, <1>15, <1>16, <1>17, <1>18 DEF DataOK

LEMMA ClearSignalsData ==
    ASSUME Sizes, PlansFit, ControlType, ControlOK, DataType, DataOK, NEW r \in Ranks, ClearSignals(r)
    PROVE  DataType' /\ DataOK'
  <1>1. stage[r] = "complete"
    BY SizeFacts, ControlValues DEF ClearSignals, ClearDue, Zeroed
  <1>2. \A q \in Ranks : stage'[q] = IF q = r THEN "arrive" ELSE stage[q]
    BY <1>1 DEF ClearSignals, ClearDue, Zeroed, ControlType, DataType
  <1>3. UNCHANGED <<plan, request, layer, packed, counted, sent, counts, grouped, out, countTarget, xTarget, reverseTarget>>
    BY DEF ClearSignals, ClearDue, Zeroed, progress, windows, signals
  <1>4. PlaceOK(r) /\ request[r] \in Nat /\ layer[r] \in Nat /\ 1 <= layer[r] /\ r \in Nat /\ r < EP /\ \A q \in Ranks : q \in Nat /\ q < EP
    BY ControlValues DEF ControlOK
  <1>5. \A q \in Ranks : Current(q)' = Current(q)
    BY <1>2, <1>3 DEF Current, Batch
  <1>6. \A p, q \in Ranks : CountSent(p, q)' <=> CountSent(p, q)
    BY <1>1, <1>2, <1>3, <1>4, SizeFacts DEF CountSent, AfterCount, AfterPayload, AfterReverse,
       PlaceOK
  <1>7. \A p, q \in Ranks : PayloadPut(p, q)' <=> PayloadPut(p, q)
    BY <1>1, <1>2, <1>3, <1>4 DEF PayloadPut, AfterCount, AfterPayload, AfterReverse, PlaceOK
  <1>8. \A p, q \in Ranks : LayersBack(p, q)' = LayersBack(p, q)
    BY <1>1, <1>2, <1>3, <1>4 DEF LayersBack, Reached, ReversePut, AfterCount, AfterPayload,
       AfterReverse, PlaceOK
  <1>9. DataType'
    BY <1>3 DEF DataType
  <1>10. PackedOK'
    <2>1. PackedOK
      BY DEF DataOK
    <2> QED
      BY <1>1, <2>1, <1>2, <1>3, <1>5 DEF PackedOK
  <1>11. CountsSentOK'
    <2>1. CountsSentOK
      BY DEF DataOK
    <2> QED
      BY <1>1, <2>1, <1>2, <1>3, <1>5, <1>6 DEF CountsSentOK
  <1>12. CountsTakenOK'
    <2>1. CountsTakenOK
      BY DEF DataOK
    <2> QED
      BY <1>1, <2>1, <1>2, <1>3, <1>5 DEF CountsTakenOK, AfterCount, AfterPayload, AfterReverse
  <1>13. LanesOK'
    <2>1. LanesOK
      BY DEF DataOK
    <2> QED
      BY <1>1, <2>1, <1>2, <1>3, <1>5, <1>7 DEF LanesOK
  <1>14. SlabsOK'
    <2>1. SlabsOK
      BY DEF DataOK
    <2> QED
      BY <1>1, <2>1, <1>2, <1>3, <1>5 DEF SlabsOK
  <1>15. PaddingOK'
    <2>1. PaddingOK
      BY DEF DataOK
    <2> QED
      BY <1>1, <2>1, <1>2, <1>3 DEF PaddingOK
  <1>16. ReturnsOK'
    <2>1. ReturnsOK
      BY DEF DataOK
    <2> QED
      BY <1>1, <2>1, <1>2, <1>3, <1>8 DEF ReturnsOK, Batch
  <1>17. OutputExact'
    <2>1. OutputExact
      BY DEF DataOK
    <2>2. \A p \in Ranks : stage'[p] = "complete" =>
             stage[p] = "complete" /\ Current(p)' = Current(p) /\ out'[p] = out[p]
      BY <1>1, <1>2, <1>3 DEF Current, Batch
    <2> QED
      BY <2>1, <2>2, OutputStays
  <1> QED
    BY <1>9, <1>10, <1>11, <1>12, <1>13, <1>14, <1>15, <1>16, <1>17 DEF DataOK

LEMMA ArriveData ==
    ASSUME Sizes, PlansFit, ControlType, ControlOK, DataType, DataOK, NEW r \in Ranks, Arrive(r)
    PROVE  DataType' /\ DataOK'
  <1>1. stage[r] = "arrive"
    BY SizeFacts, ControlValues DEF Arrive, Barrier!Reach
  <1>2. \A q \in Ranks : waiting'[q] = IF q = r THEN TRUE ELSE waiting[q]
    BY <1>1 DEF Arrive, Barrier!Reach, ControlType, DataType
  <1>3. UNCHANGED <<plan, request, layer, stage, packed, counted, sent, counts, grouped, out, countTarget, xTarget, reverseTarget>>
    BY DEF Arrive, Barrier!Reach, progress, windows, signals
  <1>4. PlaceOK(r) /\ request[r] \in Nat /\ layer[r] \in Nat /\ 1 <= layer[r] /\ r \in Nat /\ r < EP /\ \A q \in Ranks : q \in Nat /\ q < EP
    BY ControlValues DEF ControlOK
  <1>5. \A q \in Ranks : Current(q)' = Current(q)
    BY <1>2, <1>3 DEF Current, Batch
  <1>6. \A p, q \in Ranks : CountSent(p, q)' <=> CountSent(p, q)
    BY <1>1, <1>2, <1>3, <1>4, SizeFacts DEF CountSent, AfterCount, AfterPayload, AfterReverse,
       PlaceOK
  <1>7. \A p, q \in Ranks : PayloadPut(p, q)' <=> PayloadPut(p, q)
    BY <1>1, <1>2, <1>3, <1>4 DEF PayloadPut, AfterCount, AfterPayload, AfterReverse, PlaceOK
  <1>8. \A p, q \in Ranks : LayersBack(p, q)' = LayersBack(p, q)
    BY <1>1, <1>2, <1>3, <1>4 DEF LayersBack, Reached, ReversePut, AfterCount, AfterPayload,
       AfterReverse, PlaceOK
  <1>9. DataType'
    BY <1>3 DEF DataType
  <1>10. PackedOK'
    <2>1. PackedOK
      BY DEF DataOK
    <2> QED
      BY <1>1, <2>1, <1>2, <1>3, <1>5 DEF PackedOK
  <1>11. CountsSentOK'
    <2>1. CountsSentOK
      BY DEF DataOK
    <2> QED
      BY <1>1, <2>1, <1>2, <1>3, <1>5, <1>6 DEF CountsSentOK
  <1>12. CountsTakenOK'
    <2>1. CountsTakenOK
      BY DEF DataOK
    <2> QED
      BY <1>1, <2>1, <1>2, <1>3, <1>5 DEF CountsTakenOK, AfterCount, AfterPayload, AfterReverse
  <1>13. LanesOK'
    <2>1. LanesOK
      BY DEF DataOK
    <2> QED
      BY <1>1, <2>1, <1>2, <1>3, <1>5, <1>7 DEF LanesOK
  <1>14. SlabsOK'
    <2>1. SlabsOK
      BY DEF DataOK
    <2> QED
      BY <1>1, <2>1, <1>2, <1>3, <1>5 DEF SlabsOK
  <1>15. PaddingOK'
    <2>1. PaddingOK
      BY DEF DataOK
    <2> QED
      BY <1>1, <2>1, <1>2, <1>3 DEF PaddingOK
  <1>16. ReturnsOK'
    <2>1. ReturnsOK
      BY DEF DataOK
    <2> QED
      BY <1>1, <2>1, <1>2, <1>3, <1>8 DEF ReturnsOK, Batch
  <1>17. OutputExact'
    <2>1. OutputExact
      BY DEF DataOK
    <2>2. \A p \in Ranks : stage'[p] = "complete" =>
             stage[p] = "complete" /\ Current(p)' = Current(p) /\ out'[p] = out[p]
      BY <1>1, <1>2, <1>3 DEF Current, Batch
    <2> QED
      BY <2>1, <2>2, OutputStays
  <1> QED
    BY <1>9, <1>10, <1>11, <1>12, <1>13, <1>14, <1>15, <1>16, <1>17 DEF DataOK

LEMMA LeaveData ==
    ASSUME Sizes, PlansFit, ControlType, ControlOK, DataType, DataOK, NEW r \in Ranks, Leave(r)
    PROVE  DataType' /\ DataOK'
  <1>1. waiting[r]
    BY SizeFacts, ControlValues DEF Leave, Barrier!Leave
  <1>2. \A q \in Ranks : request'[q] = IF q = r THEN request[r] + 1 ELSE request[q]
    BY <1>1 DEF Leave, Barrier!Leave, ControlType, DataType
  <1>3. \A q \in Ranks : layer'[q] = IF q = r THEN 1 ELSE layer[q]
    BY <1>1 DEF Leave, Barrier!Leave, ControlType, DataType
  <1>4. \A q \in Ranks : stage'[q] = IF q = r THEN (IF request[r] + 1 = Requests THEN "stopped" ELSE "pack") ELSE stage[q]
    BY <1>1 DEF Leave, Barrier!Leave, ControlType, DataType
  <1>5. UNCHANGED <<plan, packed, counted, sent, counts, grouped, out, countTarget, xTarget, reverseTarget>>
    BY DEF Leave, Barrier!Leave, progress, windows, signals
  <1>6. PlaceOK(r) /\ request[r] \in Nat /\ layer[r] \in Nat /\ 1 <= layer[r] /\ r \in Nat /\ r < EP /\ \A q \in Ranks : q \in Nat /\ q < EP
    BY ControlValues DEF ControlOK
  <1>7. stage[r] = "arrive"
    BY <1>1, <1>6 DEF PlaceOK
  <1>8. \A q \in Ranks : q # r => Current(q)' = Current(q)
    BY <1>2, <1>3, <1>4, <1>5, <1>7 DEF Current, Batch
  <1>9. \A p, q \in Ranks : CountSent(p, q)' <=> p # r /\ CountSent(p, q)
    BY <1>1, <1>2, <1>3, <1>4, <1>5, <1>7, <1>6, SizeFacts DEF CountSent, AfterCount, AfterPayload,
       AfterReverse, PlaceOK
  <1>10. \A p, q \in Ranks : PayloadPut(p, q)' <=> p # r /\ PayloadPut(p, q)
    BY <1>1, <1>2, <1>3, <1>4, <1>5, <1>7, <1>6 DEF PayloadPut, AfterCount, AfterPayload,
       AfterReverse, PlaceOK
  <1>11. \A p, q \in Ranks : LayersBack(p, q)' = IF p = r THEN 0 ELSE LayersBack(p, q)
    <2> SUFFICES ASSUME NEW p \in Ranks, NEW q \in Ranks
                 PROVE  LayersBack(p, q)' = IF p = r THEN 0 ELSE LayersBack(p, q)
      OBVIOUS
    <2>1. CASE p = r
      <3>1. layer'[r] = 1 /\ stage'[r] \in {"pack", "stopped"}
        BY <1>2, <1>3, <1>4, <1>5, <1>7
      <3>2. LayersBack(r, q)' = layer'[r] - 1
        BY <3>1 DEF LayersBack, Reached, ReversePut, AfterReverse
      <3>3. stage[r] = "complete" => LayersBack(r, q) = layer[r]
        BY DEF LayersBack, Reached, ReversePut, AfterReverse
      <3> QED
        BY <1>1, <2>1, <3>1, <3>2, <3>3, <1>6
    <2>2. CASE p # r
      <3>1. layer'[p] = layer[p] /\ stage'[p] = stage[p] /\ sent'[p] = sent[p]
        BY <2>2, <1>2, <1>3, <1>4, <1>5, <1>7
      <3> QED
        BY <2>2, <3>1 DEF LayersBack, Reached, ReversePut
    <2> QED
      BY <2>1, <2>2
  <1>12. DataType'
    BY <1>5 DEF DataType
  <1>13. PackedOK'
    <2>1. PackedOK
      BY DEF DataOK
    <2> QED
      BY <1>1, <2>1, <1>2, <1>3, <1>4, <1>5, <1>7, <1>8 DEF PackedOK
  <1>14. CountsSentOK'
    <2>1. CountsSentOK
      BY DEF DataOK
    <2> QED
      BY <1>1, <2>1, <1>2, <1>3, <1>4, <1>5, <1>7, <1>8, <1>9 DEF CountsSentOK
  <1>15. CountsTakenOK'
    <2>1. CountsTakenOK
      BY DEF DataOK
    <2> QED
      BY <1>1, <2>1, <1>2, <1>3, <1>4, <1>5, <1>7, <1>8 DEF CountsTakenOK, AfterCount, AfterPayload,
         AfterReverse
  <1>16. LanesOK'
    <2>1. LanesOK
      BY DEF DataOK
    <2> QED
      BY <1>1, <2>1, <1>2, <1>3, <1>4, <1>5, <1>7, <1>8, <1>10 DEF LanesOK
  <1>17. SlabsOK'
    <2>1. SlabsOK
      BY DEF DataOK
    <2> QED
      BY <1>1, <2>1, <1>2, <1>3, <1>4, <1>5, <1>7, <1>8 DEF SlabsOK
  <1>18. PaddingOK'
    <2>1. PaddingOK
      BY DEF DataOK
    <2> QED
      BY <1>1, <2>1, <1>2, <1>3, <1>4, <1>5, <1>7 DEF PaddingOK
  <1>19. ReturnsOK'
    <2>1. ReturnsOK
      BY DEF DataOK
    <2> QED
      BY <1>1, <2>1, <1>2, <1>3, <1>4, <1>5, <1>7, <1>11 DEF ReturnsOK, Batch
  <1>20. OutputExact'
    <2>1. OutputExact
      BY DEF DataOK
    <2>2. ASSUME NEW q \in Ranks, stage'[q] = "complete"
          PROVE  stage[q] = "complete" /\ Current(q)' = Current(q) /\ out'[q] = out[q]
      <3>1. q # r
        BY <2>2, <1>2, <1>3, <1>4, <1>5, <1>7
      <3>2. /\ stage[q] = "complete" /\ out'[q] = out[q] /\ request'[q] = request[q]
            /\ layer'[q] = layer[q] /\ plan' = plan
        BY <2>2, <3>1, <1>2, <1>3, <1>4, <1>5, <1>7
      <3> QED
        BY <3>2 DEF Current, Batch
    <2> QED
      BY <2>1, <2>2, OutputStays
  <1> QED
    BY <1>12, <1>13, <1>14, <1>15, <1>16, <1>17, <1>18, <1>19, <1>20 DEF DataOK

-----------------------------------------------------------------------------
(* The invariant. *)
LEMMA InitValues ==
    ASSUME Sizes, Init, NEW p \in Ranks
    PROVE  /\ request[p] = 0 /\ waiting[p] = FALSE /\ layer[p] = 1
           /\ stage[p] = (IF Requests = 0 THEN "stopped" ELSE "pack")
           /\ counted[p] = 0 /\ sent[p] = {} /\ told[p] = {} /\ p \in Nat
           /\ \A q \in Ranks : LayersBack(p, q) = 0 /\ ~ CountSent(p, q) /\ ~ PayloadPut(p, q)
           /\ \A q \in Ranks : CountsOut(p, q) = 0 /\ PayloadsOut(p, q) = 0 /\ ReturnsOut(p, q) = 0
           /\ LayersDone(p) = 0
  <1>1. /\ request[p] = 0 /\ waiting[p] = FALSE /\ layer[p] = 1
        /\ stage[p] = (IF Requests = 0 THEN "stopped" ELSE "pack")
        /\ counted[p] = 0 /\ sent[p] = {} /\ told[p] = {}
    BY DEF Init, Barrier!Init
  <1>2. p \in Nat
    BY SizeFacts DEF Ranks
  <1> QED
    BY <1>1, <1>2 DEF LayersBack, CountsOut, PayloadsOut, ReturnsOut, LayersDone, Reached,
       ReversePut,
       CountSent, PayloadPut, PayloadSent, ReverseSent, AfterCount, AfterPayload, AfterReverse

LEMMA InitControl ==
    ASSUME Sizes, Init
    PROVE  ControlType /\ ControlOK
  <1>1. ControlType
    <2>1. EP \in Nat \ {0} /\ Layers \in Nat \ {0} /\ Requests \in Nat
      BY SizeFacts
    <2>2. Zeros \in [Ranks -> [Ranks -> 0 .. Layers]]
      BY <2>1 DEF Zeros
    <2>3. layer \in [Ranks -> 1 .. Layers]
      BY <2>1 DEF Init
    <2>4. counted \in [Ranks -> 0 .. EP]
      BY <2>1 DEF Init
    <2>5. request \in [Ranks -> 0 .. Requests] /\ waiting \in [Ranks -> BOOLEAN]
      BY <2>1 DEF Init, Barrier!Init
    <2>6. stage \in [Ranks -> Stages] /\ sent \in [Ranks -> SUBSET Ranks] /\ told \in [Ranks -> SUBSET Ranks]
      BY DEF Init, Stages
    <2> QED
      BY <2>2, <2>3, <2>4, <2>5, <2>6 DEF ControlType, Init
  <1>2. \A q \in Ranks : PlaceOK(q)
    BY InitValues, SizeFacts DEF PlaceOK, Peers
  <1>3. \A q, p \in Ranks : Close(q, p)
    <2> SUFFICES ASSUME NEW q \in Ranks, NEW p \in Ranks
                 PROVE  Close(q, p)
      OBVIOUS
    <2>1. request[q] = 0 /\ request[p] = 0 /\ ReturnsOut(p, q) = 0 /\ LayersDone(q) = 0
      BY InitValues
    <2>2. stage[q] \in {"pack", "stopped"}
      BY InitValues
    <2>3. stage[q] \notin AfterCount /\ stage[q] \notin AfterPayload
      BY <2>2 DEF AfterCount, AfterPayload, AfterReverse
    <2> QED
      BY <2>1, <2>3 DEF Close
  <1>4. \A q \in Ranks, p \in Ranks : p # q => CountersOK(q, p)
    <2> SUFFICES ASSUME NEW q \in Ranks, NEW p \in Ranks
                 PROVE  CountersOK(q, p)
      OBVIOUS
    <2>1. countSignal[q][p] = 0 /\ xSignal[q][p] = 0 /\ reverseSignal[q][p] = 0
      BY DEF Init, Zeros
    <2> QED
      BY <2>1, InitValues DEF CountersOK
  <1> QED
    BY <1>1, <1>2, <1>3, <1>4 DEF ControlOK

LEMMA InitData ==
    ASSUME Sizes, Init
    PROVE  DataType /\ DataOK
  <1>1. DataType
    <2>1. PeerCap \in Nat
      BY SizeFacts
    <2>2. NoCounts \in [Ranks -> [Experts -> 0 .. PeerCap]]
      BY <2>1 DEF NoCounts
    <2>3. counts \in [Ranks -> [Ranks -> [Experts -> 0 .. PeerCap]]]
          /\ countTarget \in [Ranks -> [Ranks -> [Experts -> 0 .. PeerCap]]]
      BY <2>2 DEF Init
    <2>4. grouped \in [Ranks -> [GroupedRows -> Rows]] /\ reverseTarget \in [Ranks -> [WindowRows -> Rows]]
          /\ xTarget \in [Ranks -> [WindowRows -> RouteItems]]
      BY BlankType DEF Init
    <2>5. DOMAIN packed = Ranks
          /\ \A r \in Ranks : packed[r] \in [DOMAIN packed[r] -> (0 .. PeerCap - 1) \X WindowRows]
      BY DEF Init
    <2>6. DOMAIN out = Ranks
          /\ \A r \in Ranks : DOMAIN out[r] = Tokens /\ \A i \in Tokens : out[r][i] \in Seq(Rows)
      BY DEF Init
    <2> QED
      BY <2>3, <2>4, <2>5, <2>6 DEF DataType, Init
  <1>2. \A p \in Ranks : stage[p] \in {"pack", "stopped"}
    BY InitValues
  <1>3. CountsSentOK /\ LanesOK /\ ReturnsOK
    <2>1. \A p, q \in Ranks : LayersBack(p, q) = 0 /\ ~ CountSent(p, q) /\ ~ PayloadPut(p, q)
      BY InitValues
    <2>2. \A p, q \in Ranks : ~ (LayersBack(p, q) >= 1)
      BY <2>1
    <2> QED
      BY <2>1, <2>2 DEF CountsSentOK, LanesOK, ReturnsOK
  <1> QED
    BY <1>1, <1>2, <1>3 DEF DataOK, PackedOK, CountsTakenOK, SlabsOK, PaddingOK, OutputExact,
       AfterCount, AfterPayload, AfterReverse

LEMMA IInvParts ==
    IInv <=> ControlType /\ ControlOK /\ DataType /\ DataOK
  BY TypeParts DEF IInv, DataOK

LEMMA StutterKeeps ==
    ASSUME ControlType, ControlOK, DataType, DataOK, UNCHANGED vars
    PROVE  ControlType' /\ ControlOK' /\ DataType' /\ DataOK'
  <1>1. ControlType' /\ DataType'
    BY DEF vars, ControlType, DataType
  <1>2. ControlOK'
    BY DEF vars, ControlOK, PlaceOK, Close, CountersOK, Cleared, CountsOut, PayloadsOut, ReturnsOut,
       LayersDone, Reached, CountSent, PayloadSent, ReverseSent
  <1>3. (PackedOK /\ CountsSentOK /\ CountsTakenOK)'
    BY DEF vars, DataOK, PackedOK, CountsSentOK, CountsTakenOK, Current, Batch, CountSent
  <1>4. (LanesOK /\ SlabsOK /\ PaddingOK)'
    BY DEF vars, DataOK, LanesOK, SlabsOK, PaddingOK, Current, Batch, PayloadPut
  <1>5. ReturnsOK'
    BY DEF vars, DataOK, ReturnsOK, Batch, LayersBack, ReversePut, Reached
  <1>6. OutputExact'
    <2>1. \A p \in Ranks : stage' = stage /\ Current(p)' = Current(p) /\ out' = out
      BY DEF vars, Current, Batch
    <2> QED
      BY <2>1, OutputStays DEF DataOK
  <1> QED
    BY <1>1, <1>2, <1>3, <1>4, <1>5, <1>6 DEF DataOK

LEMMA StepKeeps ==
    ASSUME Sizes, PlansFit, IInv, [Next]_vars
    PROVE  IInv'
  <1>1. ControlType /\ ControlOK /\ DataType /\ DataOK
    BY IInvParts
  <1>2. SUFFICES ControlType' /\ ControlOK' /\ DataType' /\ DataOK'
    BY TypeParts DEF IInv, DataOK, TypeOK, ControlType, DataType, Stages
  <1>3. ASSUME NEW r \in Ranks, Pack(r) \/ SendCounts(r) \/ TakeCounts(r)
        PROVE  ControlType' /\ ControlOK' /\ DataType' /\ DataOK'
    BY <1>1, <1>3, PackControl, PackData, SendCountsControl, SendCountsData, TakeCountsControl,
       TakeCountsData
  <1>4. ASSUME NEW r \in Ranks, NEW d \in Ranks,
               PutPayload(r, d) \/ NotifyPayload(r, d) \/ PutReverse(r, d) \/ NotifyReverse(r, d)
        PROVE  ControlType' /\ ControlOK' /\ DataType' /\ DataOK'
    BY <1>1, <1>4, PutPayloadControl, PutPayloadData, NotifyPayloadControl, NotifyPayloadData,
       PutReverseControl, PutReverseData, NotifyReverseControl, NotifyReverseData
  <1>5. ASSUME NEW r \in Ranks, Resort(r) \/ RunExperts(r) \/ Finalize(r)
        PROVE  ControlType' /\ ControlOK' /\ DataType' /\ DataOK'
    BY <1>1, <1>5, ResortControl, ResortData, RunExpertsControl, RunExpertsData, FinalizeControl,
       FinalizeData
  <1>6. ASSUME NEW r \in Ranks, NextLayer(r) \/ ClearSignals(r) \/ Arrive(r) \/ Leave(r)
        PROVE  ControlType' /\ ControlOK' /\ DataType' /\ DataOK'
    BY <1>1, <1>6, NextLayerControl, NextLayerData, ClearSignalsControl, ClearSignalsData,
       ArriveControl, ArriveData, LeaveControl, LeaveData
  <1>7. CASE UNCHANGED vars
    BY <1>1, <1>7, StutterKeeps
  <1> QED
    BY <1>3, <1>4, <1>5, <1>6, <1>7 DEF Next, RankStep, Stopped

-----------------------------------------------------------------------------
(* Clearing. *)
\* What ClearsExactly says of one counter bank of a rank.
Falls(old, new, r) ==
    \A p \in Ranks : p # r => (new[r][p] < old[r][p] =>
        old[r][p] = Layers /\ new[r][p] = 0 /\ \A q \in Ranks : request[q] = request[r])

LEMMA ClearsWhenDone ==
    ASSUME Sizes, ControlType, ControlOK, NEW r \in Ranks, stage[r] = "complete", layer[r] = Layers
    PROVE  /\ \A q \in Ranks : request[q] = request[r]
           /\ \A p \in Ranks : p # r =>
                countSignal[r][p] = Layers /\ xSignal[r][p] = Layers /\ reverseSignal[r][p] = Layers
  <1>1. ASSUME NEW q \in Ranks
        PROVE  request[q] = request[r]
    <2>1. Close(r, q) /\ Close(q, r) /\ PlaceOK(r)
      BY DEF ControlOK
    <2>2. request[q] \in Nat /\ request[r] \in Nat
      BY ControlValues
    <2>3. ~ (request[q] < request[r]) /\ ~ (request[r] < request[q])
      BY <2>1 DEF Close, PlaceOK
    <2> QED
      BY <2>2, <2>3
  <1>2. ASSUME NEW p \in Ranks, p # r
        PROVE  countSignal[r][p] = Layers /\ xSignal[r][p] = Layers /\ reverseSignal[r][p] = Layers
    <2>1. Close(r, p) /\ CountersOK(r, p) /\ PlaceOK(p)
      BY <1>2 DEF ControlOK
    <2>2. request[p] = request[r]
      BY <1>1
    <2>3. LayersDone(r) = Layers
      BY OutValues DEF AfterReverse
    <2>4. ReturnsOut(p, r) >= Layers
      BY <1>2, <2>1, <2>2, <2>3 DEF Close
    <2>5. /\ layer[p] \in Nat /\ layer[p] <= Layers /\ Layers \in Nat
          /\ ReturnsOut(p, r) = layer[p] \/ ReturnsOut(p, r) = layer[p] - 1
      BY OutFacts, SizeFacts
    <2>6. ReturnsOut(p, r) = layer[p] /\ layer[p] = Layers
      BY <2>4, <2>5
    <2>7. ReverseSent(p, r)
      BY <2>5, <2>6 DEF ReturnsOut, Reached
    <2>8. PayloadSent(p, r) /\ CountSent(p, r)
      BY <2>7 DEF ReverseSent, PayloadSent, CountSent, AfterCount, AfterPayload
    <2>9. PayloadsOut(p, r) = Layers /\ CountsOut(p, r) = Layers
      BY <2>6, <2>8 DEF PayloadsOut, CountsOut, Reached
    <2>10. ~ Cleared(r, p)
      <3>1. request[p] \in Nat /\ request[r] \in Nat
        BY ControlValues
      <3> QED
        BY <2>2, <3>1 DEF Cleared
    <2> QED
      BY <2>1, <2>6, <2>9, <2>10 DEF CountersOK
  <1> QED
    BY <1>1, <1>2

LEMMA CountsFall ==
    ASSUME Sizes, ControlType, ControlOK, [Next]_vars, NEW r \in Ranks
    PROVE  /\ Falls(countSignal, countSignal', r)
           /\ Falls(xSignal, xSignal', r)
           /\ Falls(reverseSignal, reverseSignal', r)
  <1>1. ASSUME NEW s, NEW n, s \in [Ranks -> [Ranks -> 0 .. Layers]],
               \A q, p \in Ranks : n[q][p] = s[q][p] \/ n[q][p] = s[q][p] + 1
        PROVE  Falls(s, n, r)
    <2>1. Layers \in Nat
      BY SizeFacts
    <2>2. \A p \in Ranks : s[r][p] \in Nat
      BY <1>1, <2>1
    <2>3. \A p \in Ranks : ~ (n[r][p] < s[r][p])
      BY <1>1, <2>2
    <2> QED
      BY <2>3 DEF Falls
  <1>2. /\ countSignal \in [Ranks -> [Ranks -> 0 .. Layers]]
        /\ xSignal \in [Ranks -> [Ranks -> 0 .. Layers]]
        /\ reverseSignal \in [Ranks -> [Ranks -> 0 .. Layers]]
    BY DEF ControlType
  <1>3. ASSUME NEW x \in Ranks, ClearSignals(x)
        PROVE  /\ Falls(countSignal, countSignal', r)
               /\ Falls(xSignal, xSignal', r)
               /\ Falls(reverseSignal, reverseSignal', r)
    <2>1. stage[x] = "complete" /\ layer[x] = Layers
      BY <1>3 DEF ClearSignals, ClearDue
    <2>2. CASE x = r
      <3>1. \A p \in Ranks : countSignal'[r][p] = 0 /\ xSignal'[r][p] = 0 /\ reverseSignal'[r][p] = 0
        BY <1>2, <1>3, <2>2 DEF ClearSignals, Zeroed
      <3> QED
        BY <2>1, <2>2, <3>1, ClearsWhenDone DEF Falls
    <2>3. CASE x # r
      <3>1. countSignal'[r] = countSignal[r] /\ xSignal'[r] = xSignal[r] /\ reverseSignal'[r] = reverseSignal[r]
        BY <1>2, <1>3, <2>3 DEF ClearSignals, Zeroed
      <3>2. \A p \in Ranks : countSignal[r][p] \in Int /\ xSignal[r][p] \in Int /\ reverseSignal[r][p] \in Int
        BY <1>2, SizeFacts
      <3> QED
        BY <3>1, <3>2 DEF Falls
    <2> QED
      BY <2>2, <2>3
  <1>4. CASE UNCHANGED signals
    BY <1>1, <1>2, <1>4 DEF signals
  <1>5. ASSUME NEW x \in Ranks, SendCounts(x)
        PROVE  /\ \A q, p \in Ranks : countSignal'[q][p] = countSignal[q][p]
                                        \/ countSignal'[q][p] = countSignal[q][p] + 1
               /\ UNCHANGED <<xSignal, reverseSignal>>
    BY <1>2, <1>5 DEF SendCounts
  <1>6. ASSUME NEW x \in Ranks, NEW d \in Ranks, NotifyPayload(x, d)
        PROVE  /\ \A q, p \in Ranks : xSignal'[q][p] = xSignal[q][p]
                                        \/ xSignal'[q][p] = xSignal[q][p] + 1
               /\ UNCHANGED <<countSignal, reverseSignal>>
    BY <1>2, <1>6 DEF NotifyPayload
  <1>7. ASSUME NEW x \in Ranks, NEW d \in Ranks, NotifyReverse(x, d)
        PROVE  /\ \A q, p \in Ranks : reverseSignal'[q][p] = reverseSignal[q][p]
                                        \/ reverseSignal'[q][p] = reverseSignal[q][p] + 1
               /\ UNCHANGED <<countSignal, xSignal>>
    BY <1>2, <1>7 DEF NotifyReverse
  <1>8. ASSUME NEW x \in Ranks, SendCounts(x)
        PROVE  /\ Falls(countSignal, countSignal', r)
               /\ Falls(xSignal, xSignal', r)
               /\ Falls(reverseSignal, reverseSignal', r)
    BY <1>1, <1>2, <1>5, <1>8
  <1>9. ASSUME NEW x \in Ranks, NEW d \in Ranks, NotifyPayload(x, d) \/ NotifyReverse(x, d)
        PROVE  /\ Falls(countSignal, countSignal', r)
               /\ Falls(xSignal, xSignal', r)
               /\ Falls(reverseSignal, reverseSignal', r)
    BY <1>1, <1>2, <1>6, <1>7, <1>9
  <1>10. \/ UNCHANGED signals
         \/ \E x \in Ranks : ClearSignals(x) \/ SendCounts(x)
              \/ \E d \in Ranks : NotifyPayload(x, d) \/ NotifyReverse(x, d)
    BY DEF Next, RankStep, Stopped, vars, signals, Pack, TakeCounts, PutPayload, PutReverse, Resort,
       RunExperts, Finalize, NextLayer, Arrive, Leave
  <1> QED
    BY <1>3, <1>4, <1>8, <1>9, <1>10

-----------------------------------------------------------------------------
\* What the counters, the counts, the windows and the slabs mean in terms of how
\* far the ranks have come is an invariant.
THEOREM InvariantCorrect == Spec => []IInv
  <1> USE SizesAssumption, PlansAssumption
  <1>1. Init => IInv
    BY InitControl, InitData, IInvParts
  <1>2. IInv /\ [Next]_vars => IInv'
    BY StepKeeps
  <1> QED
    BY <1>1, <1>2, PTL DEF Spec

\* A rank clears its counters when every peer has announced every layer to it, and
\* no counter falls at any other time.
THEOREM ClearsCorrect == Spec => ClearsExactly
  <1> USE SizesAssumption, PlansAssumption
  <1>1. Init => IInv
    BY InitControl, InitData, IInvParts
  <1>2. IInv /\ [Next]_vars => IInv'
    BY StepKeeps
  <1>3. IInv /\ [Next]_vars => [\A r \in Ranks, p \in Ranks : p # r =>
        \A s \in {<<countSignal, countSignal'>>, <<xSignal, xSignal'>>,
                  <<reverseSignal, reverseSignal'>>} :
            s[2][r][p] < s[1][r][p] => s[1][r][p] = Layers /\ s[2][r][p] = 0
                /\ \A q \in Ranks : request[q] = request[r]]_vars
    <2> SUFFICES ASSUME IInv, [Next]_vars, NEW r \in Ranks
                 PROVE  /\ Falls(countSignal, countSignal', r)
                        /\ Falls(xSignal, xSignal', r)
                        /\ Falls(reverseSignal, reverseSignal', r)
      BY DEF Falls
    <2>1. ControlType /\ ControlOK
      BY IInvParts
    <2> QED
      BY <2>1, CountsFall
  <1> QED
    BY <1>1, <1>2, <1>3, PTL DEF Spec, ClearsExactly

-----------------------------------------------------------------------------
(* What a rank's expert is due. *)
\* Slots of live tokens and their choices of an expert, as Due has them.
Chosen(n, c, g) ==
    {z \in {i \in Tokens : Live(n, i)} \X (1 .. TopK) : c[z[1]][z[2]] = g}

\* The item of a slot and a choice.
ItemAt(b, s, z) == [call |-> b.call, source |-> s, slot |-> z[1], k |-> z[2] - 1]

LEMMA DueIs ==
    ASSUME NEW r, NEW s, NEW e
    PROVE  Due(r, s, e) = {ItemAt(Current(r), s, z) :
                             z \in Chosen(Current(r).lengths[s], Current(r).gate[s], r * Local + e)}
  BY DEF Due, Current, Batch, Chosen, ItemAt, Live

\* The rows of an expert, in the order of its slab, and what it is due.
LEMMA ItemDue ==
    ASSUME Sizes, NEW b, Fits(b), NEW s \in Ranks, NEW g, NEW j \in 0 .. SizeOf(b, s, g) - 1
    PROVE  \E z \in Chosen(b.lengths[s], b.gate[s], g) :
             /\ ItemOf(b, s, g, j) = ItemAt(b, s, z)
             /\ ItemOf(b, s, g, j).slot = z[1] /\ z[1] \in Int
  <1> DEFINE n == b.lengths[s]
             c == b.gate[s]
             x == Nth(n, c, g, j)
  <1>1. Brings(n, c)
    BY DEF Fits
  <1>2. x \in Class(n, c, g)
    BY <1>1, NthFacts DEF SizeOf
  <1>3. x \in RoutesIn(n) /\ ExpertIn(n, c, x) = g
    BY <1>2 DEF Class
  <1>4. /\ x \div TopK \in 0 .. n[1] + n[2] - 1 /\ x % TopK \in 0 .. TopK - 1
        /\ SlotIn(n, x \div TopK) \in Tokens
    BY <1>1, <1>3, RouteFacts
  <1>5. Live(n, SlotIn(n, x \div TopK))
    BY <1>1, <1>4, LiveSlots
  <1>6. c[SlotIn(n, x \div TopK)][(x % TopK) + 1] = g
    BY <1>3 DEF ExpertIn
  <1>7. ItemOf(b, s, g, j) = [call |-> b.call, source |-> s, slot |-> SlotIn(n, x \div TopK), k |-> x % TopK]
    BY DEF ItemOf
  <1> DEFINE a == SlotIn(n, x \div TopK)
             k == x % TopK
  <1>8. k \in Nat /\ k + 1 \in 1 .. TopK /\ (k + 1) - 1 = k
    BY <1>4, SizeFacts
  <1>9. a \in Tokens /\ Live(n, a) /\ a \in Int
    BY <1>4, <1>5, SizeFacts DEF Tokens
  <1>10. <<a, k + 1>> \in Chosen(n, c, g)
    BY <1>6, <1>8, <1>9 DEF Chosen
  <1>11. ItemOf(b, s, g, j) = ItemAt(b, s, <<a, k + 1>>) /\ ItemOf(b, s, g, j).slot = a
    BY <1>7, <1>8 DEF ItemAt
  <1> QED
    BY <1>9, <1>10, <1>11

LEMMA DueItem ==
    ASSUME Sizes, NEW b, Fits(b), NEW s \in Ranks, NEW g,
           NEW z \in Chosen(b.lengths[s], b.gate[s], g)
    PROVE  \E j \in 0 .. SizeOf(b, s, g) - 1 : ItemOf(b, s, g, j) = ItemAt(b, s, z)
  <1> DEFINE n == b.lengths[s]
             c == b.gate[s]
  <1>1. Brings(n, c)
    BY DEF Fits
  <1>2. z[1] \in Tokens /\ Live(n, z[1]) /\ z[2] \in 1 .. TopK /\ c[z[1]][z[2]] = g
    BY DEF Chosen
  <1>3. PICK t \in 0 .. n[1] + n[2] - 1 : SlotIn(n, t) = z[1]
    BY <1>1, <1>2, LiveSlots
  <1>4. z[2] - 1 \in 0 .. TopK - 1 /\ (z[2] - 1) + 1 = z[2]
    BY <1>2, SizeFacts
  <1> DEFINE x == t * TopK + (z[2] - 1)
  <1>5. x \in RoutesIn(n) /\ x \div TopK = t /\ x % TopK = z[2] - 1
    BY <1>1, <1>4, RouteOf
  <1>6. ExpertIn(n, c, x) = g
    BY <1>2, <1>3, <1>4, <1>5 DEF ExpertIn
  <1>7. x \in Class(n, c, g)
    BY <1>5, <1>6 DEF Class
  <1>8. Rank(n, c, x) \in 0 .. Size(n, c, g) - 1 /\ Nth(n, c, g, Rank(n, c, x)) = x
    BY <1>1, <1>7, RankFacts, NthOfRank
  <1>9. ItemOf(b, s, g, Rank(n, c, x)) = ItemAt(b, s, z)
    BY <1>3, <1>5, <1>8 DEF ItemOf, ItemAt
  <1> QED
    BY <1>8, <1>9 DEF SizeOf

\* Within a source the slots increase: a token chooses an expert once.
LEMMA ItemOrder ==
    ASSUME Sizes, NEW b, Fits(b), NEW s \in Ranks, NEW g,
           NEW i \in 0 .. SizeOf(b, s, g) - 1, NEW j \in 0 .. SizeOf(b, s, g) - 1, i < j
    PROVE  ItemOf(b, s, g, i).slot < ItemOf(b, s, g, j).slot
  <1> DEFINE n == b.lengths[s]
             c == b.gate[s]
             x == Nth(n, c, g, i)
             y == Nth(n, c, g, j)
  <1>1. Brings(n, c)
    BY DEF Fits
  <1>2. x \in RoutesIn(n) /\ ExpertIn(n, c, x) = g /\ y \in RoutesIn(n) /\ ExpertIn(n, c, y) = g
    BY <1>1, NthFacts DEF SizeOf, Class
  <1>3. x < y
    BY <1>1, NthIncreases DEF SizeOf
  <1> DEFINE tx == x \div TopK
             kx == x % TopK
             ty == y \div TopK
             ky == y % TopK
  <1>4. /\ x \in Nat /\ tx \in 0 .. n[1] + n[2] - 1 /\ kx \in 0 .. TopK - 1 /\ x = tx * TopK + kx
        /\ SlotIn(n, tx) \in Tokens
    BY <1>1, <1>2, RouteFacts
  <1>5. y \in Nat /\ ty \in 0 .. n[1] + n[2] - 1 /\ ky \in 0 .. TopK - 1 /\ y = ty * TopK + ky
    BY <1>1, <1>2, RouteFacts
  <1>6. c[SlotIn(n, tx)][kx + 1] = g /\ c[SlotIn(n, ty)][ky + 1] = g
    BY <1>2 DEF ExpertIn
  <1>7. tx <= ty
    <2>1. tx \in Nat /\ ty \in Nat /\ TopK \in Nat
      BY <1>1, <1>4, <1>5, SizeFacts, LengthFacts
    <2>2. ty < tx => ty * TopK + TopK <= tx * TopK
      BY <2>1, Products
    <2>3. tx * TopK \in Nat /\ ty * TopK \in Nat
      BY <2>1, Products
    <2> DEFINE u == tx * TopK
               v == ty * TopK
    <2>4. u \in Nat /\ v \in Nat /\ (ty < tx => v + TopK <= u) /\ x = u + kx /\ y = v + ky
      BY <1>4, <1>5, <2>2, <2>3
    <2>5. kx \in 0 .. TopK - 1 /\ ky \in 0 .. TopK - 1
      BY <1>4, <1>5
    <2> HIDE DEF u, v, tx, ty, kx, ky, x, y
    <2> QED
      BY <1>3, <2>1, <2>4, <2>5
  <1>8. tx # ty
    <2> SUFFICES ASSUME tx = ty PROVE FALSE
      OBVIOUS
    <2>1. kx # ky
      <3> DEFINE w == tx * TopK
      <3>1. x = w + kx /\ y = w + ky
        BY <1>4, <1>5
      <3> HIDE DEF w, kx, ky, tx, ty, x, y
      <3> QED
        BY <1>3, <1>4, <3>1
    <2>2. kx + 1 \in 1 .. TopK /\ ky + 1 \in 1 .. TopK /\ kx + 1 # ky + 1
      <3> HIDE DEF kx, ky, tx, ty, x, y
      <3> QED
        BY <1>4, <1>5, <2>1, SizeFacts
    <2>3. \A p, q \in 1 .. TopK : p # q => c[SlotIn(n, tx)][p] # c[SlotIn(n, tx)][q]
      BY <1>1, <1>4 DEF Brings
    <2> QED
      BY <1>6, <2>2, <2>3
  <1>9. tx < ty
    <2>1. tx \in Nat /\ ty \in Nat
      BY <1>1, <1>4, <1>5, LengthFacts
    <2> HIDE DEF tx, ty
    <2> QED
      BY <1>7, <1>8, <2>1
  <1>10. SlotIn(n, tx) < SlotIn(n, ty)
    BY <1>1, <1>4, <1>5, <1>9, SlotFacts
  <1>11. ItemOf(b, s, g, i).slot = SlotIn(n, tx) /\ ItemOf(b, s, g, j).slot = SlotIn(n, ty)
    BY DEF ItemOf
  <1> QED
    BY <1>10, <1>11

Dues(b, s, g) == {ItemAt(b, s, z) : z \in Chosen(b.lengths[s], b.gate[s], g)}

\* There are as many as the counts say.
LEMMA DueCount ==
    ASSUME Sizes, NEW b, Fits(b), NEW s \in Ranks, NEW g
    PROVE  Cardinality(Dues(b, s, g)) = SizeOf(b, s, g)
  <1> DEFINE N == SizeOf(b, s, g)
             J == 0 .. N - 1
             D == Dues(b, s, g)
             f == [j \in J |-> ItemOf(b, s, g, j)]
  <1>1. N \in Nat
    <2>1. Brings(b.lengths[s], b.gate[s])
      BY DEF Fits
    <2> QED
      BY <2>1, ClassFacts DEF SizeOf
  <1>2. \A j \in J : ItemOf(b, s, g, j) \in D
    <2> SUFFICES ASSUME NEW j \in J PROVE ItemOf(b, s, g, j) \in D
      OBVIOUS
    <2>1. PICK z \in Chosen(b.lengths[s], b.gate[s], g) : ItemOf(b, s, g, j) = ItemAt(b, s, z)
      BY ItemDue
    <2> QED
      BY <2>1 DEF Dues
  <1>3. \A w \in D : \E j \in J : w = ItemOf(b, s, g, j)
    <2> SUFFICES ASSUME NEW w \in D PROVE \E j \in J : w = ItemOf(b, s, g, j)
      OBVIOUS
    <2>1. PICK z \in Chosen(b.lengths[s], b.gate[s], g) : w = ItemAt(b, s, z)
      BY DEF Dues
    <2> QED
      BY <2>1, DueItem
  <1>4. \A i, j \in J : ItemOf(b, s, g, i) = ItemOf(b, s, g, j) => i = j
    <2> SUFFICES ASSUME NEW i \in J, NEW j \in J, ItemOf(b, s, g, i) = ItemOf(b, s, g, j), i # j
                 PROVE  FALSE
      OBVIOUS
    <2>1. ItemOf(b, s, g, i).slot = ItemOf(b, s, g, j).slot
      OBVIOUS
    <2>2. PICK z \in Chosen(b.lengths[s], b.gate[s], g) :
            ItemOf(b, s, g, i).slot = z[1] /\ z[1] \in Int
      BY ItemDue
    <2>3. i < j \/ j < i
      BY <1>1
    <2>4. ItemOf(b, s, g, i).slot < ItemOf(b, s, g, j).slot
            \/ ItemOf(b, s, g, j).slot < ItemOf(b, s, g, i).slot
      BY <2>3, ItemOrder
    <2> QED
      BY <2>1, <2>2, <2>4
  <1>5. f \in Bijection(J, D)
    <2>1. f \in [J -> D] /\ \A j \in J : f[j] = ItemOf(b, s, g, j)
      BY <1>2
    <2> HIDE DEF f, J, D
    <2> QED
      BY <1>3, <1>4, <2>1 DEF Bijection, Injection, Surjection, IsInjective
  <1>6. IsFiniteSet(J) /\ Cardinality(J) = N
    BY <1>1, FS_Interval
  <1>7. ExistsBijection(J, D)
    BY <1>5 DEF ExistsBijection
  <1>8. Cardinality(D) = Cardinality(J)
    BY <1>6, <1>7, FS_Bijection
  <1> QED
    BY <1>6, <1>8

\* Row j of the slab of e at r is one of those of s.
SlabAt(u, m, b, r, e, s, j) ==
    \E i \in 0 .. SizeOf(b, s, r * Local + e) - 1 :
        /\ j = PrefixIn(m, s, e) + i /\ PrefixIn(m, s, e) \in Nat
        /\ u[BaseIn(m, e) + j].route = ItemOf(b, s, r * Local + e, i)

\* A row of a slab is a source's.
LEMMA SlabItem ==
    ASSUME Sizes, NEW r \in Ranks, NEW b, Fits(b), NEW u, NEW m,
           m = [s \in Ranks |-> CountsOf(b, s, r)], SlabsHold(u, m, b, r, FALSE),
           NEW e \in Experts, NEW j \in 0 .. RowsIn(m, e) - 1
    PROVE  \E s \in Ranks : SlabAt(u, m, b, r, e, s, j)
  <1>1. CountsFit(m)
    BY CountsAllFit
  <1>2. RowsIn(m, e) \in Nat /\ BaseIn(m, e) \in Nat
    BY <1>1, SlabsApart
  <1>3. PICK s \in Ranks : j - PrefixIn(m, s, e) \in 0 .. m[s][e] - 1
    BY <1>1, SlabRows
  <1>4. PrefixIn(m, s, e) \in Nat
    BY <1>1, SlabRows
  <1>5. m[s][e] = SizeOf(b, s, r * Local + e)
    BY DEF CountsOf
  <1> DEFINE i == j - PrefixIn(m, s, e)
  <1>6. i \in 0 .. SizeOf(b, s, r * Local + e) - 1
    BY <1>3, <1>5
  <1>7. u[BaseIn(m, e) + PrefixIn(m, s, e) + i] = Row(ItemOf(b, s, r * Local + e, i), -1)
    BY <1>6 DEF SlabsHold
  <1>8. j = PrefixIn(m, s, e) + i /\ BaseIn(m, e) + PrefixIn(m, s, e) + i = BaseIn(m, e) + j
    BY <1>2, <1>4
  <1>9. u[BaseIn(m, e) + j].route = ItemOf(b, s, r * Local + e, i)
    BY <1>7, <1>8 DEF Row
  <1> QED
    BY <1>4, <1>6, <1>8, <1>9 DEF SlabAt

\* Rows that are those of the sources, in their order, and padded.
Exact(u, base, n, b, g) ==
    /\ {u[base + j].route : j \in 0 .. n - 1} = UNION {Dues(b, s, g) : s \in Ranks}
    /\ \A i, j \in 0 .. n - 1 : i < j =>
         \/ u[base + i].route.source < u[base + j].route.source
         \/ u[base + i].route.source = u[base + j].route.source
              /\ u[base + i].route.slot < u[base + j].route.slot
    /\ \A j \in n .. CeilTo(n, RecvTile) - 1 : u[base + j].route = NoRow

\* What a slab holds before the experts run, in terms of what its expert is due.
LEMMA SlabExact ==
    ASSUME Sizes, NEW r \in Ranks, NEW b, Fits(b), NEW u, NEW m,
           m = [s \in Ranks |-> CountsOf(b, s, r)],
           SlabsHold(u, m, b, r, FALSE), PadsHold(u, m), NEW e \in Experts,
           NEW n, n = RowsIn(m, e), NEW base, base = BaseIn(m, e)
    PROVE  Exact(u, base, n, b, r * Local + e)
  <1> DEFINE g == r * Local + e
  <1>1. CountsFit(m) /\ n \in Nat /\ base \in Nat
    <2>1. CountsFit(m)
      BY CountsAllFit
    <2> QED
      BY <2>1, SlabsApart
  <1>2. \A s \in Ranks : m[s][e] = SizeOf(b, s, g)
    BY DEF CountsOf
  <1>3. ASSUME NEW j \in 0 .. n - 1
        PROVE  u[base + j].route \in UNION {Dues(b, s, g) : s \in Ranks}
    <2>1. PICK s \in Ranks : SlabAt(u, m, b, r, e, s, j)
      BY SlabItem
    <2>2. PICK i \in 0 .. SizeOf(b, s, g) - 1 : u[base + j].route = ItemOf(b, s, g, i)
      BY <2>1 DEF SlabAt
    <2>3. PICK z \in Chosen(b.lengths[s], b.gate[s], g) : ItemOf(b, s, g, i) = ItemAt(b, s, z)
      BY ItemDue
    <2>4. u[base + j].route \in Dues(b, s, g)
      BY <2>2, <2>3 DEF Dues
    <2> QED
      BY <2>4
  <1>4. ASSUME NEW s \in Ranks, NEW w \in Dues(b, s, g)
        PROVE  \E j \in 0 .. n - 1 : w = u[base + j].route
    <2>1. PICK z \in Chosen(b.lengths[s], b.gate[s], g) : w = ItemAt(b, s, z)
      BY DEF Dues
    <2>2. PICK i \in 0 .. SizeOf(b, s, g) - 1 : ItemOf(b, s, g, i) = ItemAt(b, s, z)
      BY DueItem
    <2>3. PrefixIn(m, s, e) \in Nat /\ PrefixIn(m, s, e) + m[s][e] <= n
      BY <1>1, SlabRows
    <2>4. SizeOf(b, s, g) = m[s][e] /\ m[s][e] \in Nat
      <3>1. m[s][e] \in 0 .. PeerCap
        BY <1>1 DEF CountsFit
      <3> QED
        BY <1>2, <3>1, SizeFacts
    <2> DEFINE j == PrefixIn(m, s, e) + i
    <2>5. j \in 0 .. n - 1 /\ base + PrefixIn(m, s, e) + i = base + j
      BY <1>1, <2>3, <2>4
    <2>6. u[base + PrefixIn(m, s, e) + i] = Row(ItemOf(b, s, g, i), -1)
      BY DEF SlabsHold
    <2>7. u[base + j].route = w
      BY <2>1, <2>2, <2>5, <2>6 DEF Row
    <2> QED
      BY <2>5, <2>7
  <1>5. ASSUME NEW i \in 0 .. n - 1, NEW j \in 0 .. n - 1, i < j
        PROVE  \/ u[base + i].route.source < u[base + j].route.source
               \/ u[base + i].route.source = u[base + j].route.source
                    /\ u[base + i].route.slot < u[base + j].route.slot
    <2>1. PICK s \in Ranks : SlabAt(u, m, b, r, e, s, i)
      BY SlabItem
    <2>2. PICK x \in 0 .. SizeOf(b, s, g) - 1 :
             /\ i = PrefixIn(m, s, e) + x /\ PrefixIn(m, s, e) \in Nat
             /\ u[base + i].route = ItemOf(b, s, g, x)
      BY <2>1 DEF SlabAt
    <2>3. PICK t \in Ranks : SlabAt(u, m, b, r, e, t, j)
      BY SlabItem
    <2>4. PICK y \in 0 .. SizeOf(b, t, g) - 1 :
             /\ j = PrefixIn(m, t, e) + y /\ PrefixIn(m, t, e) \in Nat
             /\ u[base + j].route = ItemOf(b, t, g, y)
      BY <2>3 DEF SlabAt
    <2>5. u[base + i].route.source = s /\ u[base + j].route.source = t
      BY <2>2, <2>4 DEF ItemOf
    <2>6. s \in Nat /\ t \in Nat
      BY SizeFacts DEF Ranks
    <2>7. ~ (t < s)
      <3>1. t < s => PrefixIn(m, t, e) + m[t][e] <= PrefixIn(m, s, e)
        BY <1>1, SlabRows
      <3>2. m[t][e] = SizeOf(b, t, g) /\ m[t][e] \in Nat
        <4>1. m[t][e] \in 0 .. PeerCap
          BY <1>1 DEF CountsFit
        <4> QED
          BY <1>2, <4>1, SizeFacts
      <3> DEFINE p == PrefixIn(m, t, e)
                 q == PrefixIn(m, s, e)
                 c == m[t][e]
      <3>3. p \in Nat /\ q \in Nat /\ c \in Nat /\ i = q + x /\ j = p + y /\ y \in 0 .. c - 1 /\ x \in Nat
            /\ (t < s => p + c <= q)
        BY <2>2, <2>4, <3>1, <3>2
      <3> HIDE DEF p, q, c
      <3> QED
        BY <1>5, <3>3
    <2>8. CASE s < t
      BY <2>5, <2>8
    <2>9. CASE s = t
      <3>1. x < y
        <4> DEFINE q == PrefixIn(m, s, e)
        <4>1. q \in Nat /\ i = q + x /\ j = q + y /\ x \in Int /\ y \in Int
          BY <2>2, <2>4, <2>9
        <4> HIDE DEF q
        <4> QED
          BY <1>5, <4>1
      <3>2. ItemOf(b, s, g, x).slot < ItemOf(b, s, g, y).slot
        BY <2>9, <3>1, ItemOrder
      <3> QED
        BY <2>2, <2>4, <2>5, <2>9, <3>2
    <2> QED
      BY <2>6, <2>7, <2>8, <2>9
  <1>6. ASSUME NEW j \in n .. CeilTo(n, RecvTile) - 1
        PROVE  u[base + j].route = NoRow
    <2>1. u[base + j] = Blank
      BY DEF PadsHold
    <2> QED
      BY <2>1 DEF Blank, Row
  <1>7. {u[base + j].route : j \in 0 .. n - 1} = UNION {Dues(b, s, g) : s \in Ranks}
    BY <1>3, <1>4
  <1> QED
    BY <1>5, <1>6, <1>7 DEF Exact

LEMMA GroupedFollows ==
    ASSUME Sizes, PlansFit, ControlType, ControlOK, DataType, DataOK
    PROVE  GroupedExact
  <1> SUFFICES ASSUME NEW r \in Ranks, stage[r] = "experts", NEW e \in Experts
               PROVE  LET n == Sum([s \in Ranks |-> Cardinality(Due(r, s, e))], EP)
                          base == ExpertBase(r, e)
                          at(j) == grouped[r][base + j].route
                      IN  /\ {at(j) : j \in 0 .. n - 1} = UNION {Due(r, s, e) : s \in Ranks}
                          /\ \A i, j \in 0 .. n - 1 : i < j =>
                               \/ at(i).source < at(j).source
                               \/ at(i).source = at(j).source /\ at(i).slot < at(j).slot
                          /\ \A j \in n .. CeilTo(n, RecvTile) - 1 : at(j) = NoRow
    BY DEF GroupedExact
  <1> DEFINE b == Current(r)
             m == counts[r]
             u == grouped[r]
             n == Sum([s \in Ranks |-> Cardinality(Due(r, s, e))], EP)
  <1>1. Fits(b)
    BY CurrentFits DEF DataType
  <1>2. m = [s \in Ranks |-> CountsOf(b, s, r)]
    BY DEF DataOK, CountsTakenOK, AfterCount, AfterPayload
  <1>3. SlabsHold(u, m, b, r, FALSE)
    <2>1. (stage[r] = "reverse") = FALSE
      OBVIOUS
    <2>2. SlabsHold(u, m, b, r, stage[r] = "reverse")
      BY DEF DataOK, SlabsOK
    <2> QED
      BY <2>1, <2>2
  <1>4. PadsHold(u, m)
    BY DEF DataOK, PaddingOK
  <1>5. \A s \in Ranks : Due(r, s, e) = Dues(b, s, r * Local + e)
    BY DueIs DEF Dues
  <1>6. ExpertBase(r, e) = BaseIn(m, e)
    BY SlabIs
  <1>7. \A s \in Ranks : Cardinality(Due(r, s, e)) = m[s][e]
    <2>1. \A s \in Ranks : Cardinality(Dues(b, s, r * Local + e)) = SizeOf(b, s, r * Local + e)
      BY <1>1, DueCount
    <2>2. \A s \in Ranks : m[s][e] = SizeOf(b, s, r * Local + e)
      BY <1>2 DEF CountsOf
    <2> QED
      BY <1>5, <2>1, <2>2
  <1>8. n = RowsIn(m, e)
    BY <1>7 DEF RowsIn
  <1>9. UNION {Due(r, s, e) : s \in Ranks} = UNION {Dues(b, s, r * Local + e) : s \in Ranks}
    BY <1>5
  <1>10. Exact(u, BaseIn(m, e), RowsIn(m, e), b, r * Local + e)
    <2> HIDE DEF b, m, u
    <2> QED
      BY <1>1, <1>2, <1>3, <1>4, SlabExact
  <1>11. Exact(u, ExpertBase(r, e), n, b, r * Local + e)
    BY <1>6, <1>8, <1>10
  <1> QED
    BY <1>9, <1>11 DEF Exact

\* The exchange stays well typed; no counter exceeds the layers of a forward.
THEOREM TypeCorrect == Spec => []TypeOK
  <1>1. IInv => TypeOK
    BY DEF IInv
  <1> QED
    BY <1>1, InvariantCorrect, PTL

\* Every expert runs on exactly the rows routed to it, in the order of their
\* sources and tokens, and every token sums the results of its own routes.
THEOREM RoutesCorrect == Spec => []RoutesExact
  <1> USE SizesAssumption, PlansAssumption
  <1>1. IInv => RoutesExact
    <2> SUFFICES ASSUME IInv PROVE RoutesExact
      OBVIOUS
    <2>1. ControlType /\ ControlOK /\ DataType /\ DataOK
      BY IInvParts
    <2>2. GroupedExact
      BY <2>1, GroupedFollows
    <2> QED
      BY <2>2 DEF IInv, RoutesExact
  <1> QED
    BY <1>1, InvariantCorrect, PTL
=============================================================================
