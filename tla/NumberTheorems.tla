--------------------------- MODULE NumberTheorems ---------------------------
(* Facts about numbers that the proofs need and the library does not have:  *)
(* least and greatest elements, remainders, powers of two.                  *)
EXTENDS Integers, FiniteSetsExt, FiniteSetTheorems, NaturalsInduction, WellFoundedInduction,
        TLAPS

(* A set of numbers that is not empty has a least one, which takes the      *)
(* place of induction.                                                      *)
LEMMA LeastExists ==
    ASSUME NEW S \in SUBSET Nat, S # {}
    PROVE  \E m \in S : \A n \in S : m <= n
  <1> DEFINE less == {p \in Nat \X Nat : p[1] < p[2]}
  <1>1. IsWellFoundedOn(less, Nat)
    BY NatLessThanWellFounded DEF OpToRel
  <1>2. PICK m \in S : \A n \in S : ~ (<<n, m>> \in less)
    <2> HIDE DEF less
    <2>1. QED
      BY <1>1, WFMin
  <1>3. \A n \in S : ~ (n < m)
    BY <1>2
  <1>4. QED
    BY <1>3

LEMMA MinFacts ==
    ASSUME NEW S \in SUBSET Nat, S # {}
    PROVE  Min(S) \in S /\ \A n \in S : Min(S) <= n
  <1>1. PICK m \in S : \A n \in S : m <= n
    BY LeastExists
  <1>2. QED
    BY <1>1 DEF Min

LEMMA MaxFacts ==
    ASSUME NEW n \in Nat, NEW S \in SUBSET (0 .. n), S # {}
    PROVE  Max(S) \in S /\ \A i \in S : i <= Max(S)
  <1> DEFINE below == {k \in Nat : \E i \in S : k = n - i}
  <1>1. PICK i \in S : TRUE
    OBVIOUS
  <1>2. n - i \in below
    OBVIOUS
  <1>3. below \in SUBSET Nat
    OBVIOUS
  <1>4. PICK k \in below : \A j \in below : k <= j
    BY <1>2, <1>3, LeastExists
  <1>5. PICK m \in S : k = n - m
    BY <1>4
  <1>6. ASSUME NEW j \in S PROVE m >= j
    <2>1. n - j \in below
      OBVIOUS
    <2>2. n - m <= n - j
      BY <1>4, <1>5, <2>1
    <2>3. QED
      BY <2>2
  <1>7. QED
    BY <1>6 DEF Max

(* Finitely many numbers have a bound.                                      *)
LEMMA BoundExists ==
    ASSUME NEW n \in Nat, NEW f, \A i \in 1 .. n : f[i] \in Nat
    PROVE  \E b \in Nat : \A i \in 1 .. n : f[i] <= b
  <1> DEFINE Bounded(m) == \E b \in Nat : \A i \in 1 .. m : f[i] <= b
             Unbounded == {m \in 0 .. n : ~Bounded(m)}
  <1>1. SUFFICES ASSUME ~Bounded(n) PROVE FALSE
    OBVIOUS
  <1>2. Unbounded \in SUBSET Nat /\ n \in Unbounded
    BY <1>1
  <1>3. PICK m \in Unbounded : \A k \in Unbounded : m <= k
    BY <1>2, LeastExists
  <1>4. Bounded(0)
    OBVIOUS
  <1>5. m # 0 /\ m \in 0 .. n
    BY <1>3, <1>4
  <1>6. m - 1 \in 0 .. n /\ Bounded(m - 1)
    <2>1. m - 1 \in 0 .. n /\ ~(m <= m - 1)
      BY <1>5
    <2> HIDE DEF Bounded
    <2>2. QED
      BY <1>3, <2>1
  <1>7. PICK b \in Nat : \A i \in 1 .. m - 1 : f[i] <= b
    BY <1>6
  <1>8. f[m] \in Nat /\ \A i \in 1 .. m : i = m \/ i \in 1 .. m - 1
    BY <1>5
  <1>9. PICK c \in Nat : b <= c /\ f[m] <= c
    <2>1. b + f[m] \in Nat /\ b <= b + f[m] /\ f[m] <= b + f[m]
      BY <1>8
    <2>2. QED
      BY <2>1
  <1>10. Bounded(m)
    <2>1. ASSUME NEW i \in 1 .. m PROVE f[i] <= c
      <3>1. CASE i = m
        BY <1>9, <3>1
      <3>2. CASE i \in 1 .. m - 1
        <4>1. f[i] <= b /\ f[i] \in Nat
          BY <1>5, <1>7, <3>2
        <4>2. QED
          BY <1>9, <4>1
      <3>3. QED
        BY <1>8, <3>1, <3>2
    <2>2. QED
      BY <2>1
  <1>11. QED
    BY <1>3, <1>10

(* An element that is none below is the greatest.                           *)
LEMMA MaxIs ==
    ASSUME NEW n \in Nat, NEW S \in SUBSET (0 .. n), NEW x \in S, \A y \in S : y <= x
    PROVE  Max(S) = x
  <1>1. Max(S) \in S /\ x <= Max(S)
    BY MaxFacts
  <1>2. Max(S) <= x
    BY <1>1
  <1>3. \A i, j \in 0 .. n : i <= j /\ j <= i => i = j
    OBVIOUS
  <1>4. Max(S) \in 0 .. n /\ x \in 0 .. n
    BY <1>1
  <1>5. QED
    BY <1>1, <1>2, <1>3, <1>4

(* A function on an interval that is given by what it is at a smaller       *)
(* number, if there is one, and what is added to that.                      *)
SumsAlong(f, s, n, a, p) ==
    \A k \in s .. n : f[k] = IF p[k] < s THEN a[k] ELSE f[p[k]] + a[k]

LEMMA RecursiveSum ==
    ASSUME NEW s \in Nat, NEW n \in Nat, NEW a \in [s .. n -> Int], NEW p \in [s .. n -> Int],
           \A k \in s .. n : p[k] < k
    PROVE  \E f \in [s .. n -> Int] : SumsAlong(f, s, n, a, p)
  <1> DEFINE Good(f, m) ==
                 \A k \in s .. n : k <= m => f[k] = IF p[k] < s THEN a[k] ELSE f[p[k]] + a[k]
             Solvable(m) == \E f \in [s .. n -> Int] : Good(f, m)
             Bad == {m \in Nat : ~Solvable(m)}
  <1> HIDE DEF Solvable
  <1>1. Bad = {}
    <2>1. SUFFICES ASSUME Bad # {} PROVE FALSE
      OBVIOUS
    <2>2. PICK m \in Bad : \A j \in Bad : m <= j
      BY <2>1, LeastExists
    <2>3. m \in Nat /\ ~Solvable(m)
      BY <2>2
    <2>4. PICK f \in [s .. n -> Int] :
             \A k \in s .. n : k < m => f[k] = IF p[k] < s THEN a[k] ELSE f[p[k]] + a[k]
      <3>1. CASE m = 0
        <4>1. [k \in s .. n |-> 0] \in [s .. n -> Int]
          OBVIOUS
        <4>2. \A k \in s .. n : k \in Nat /\ ~(k < 0)
          OBVIOUS
        <4>3. QED
          BY <3>1, <4>1, <4>2
      <3>2. CASE m # 0
        <4>1. m - 1 \in Nat /\ Solvable(m - 1)
          BY <2>2, <2>3, <3>2
        <4>2. PICK f \in [s .. n -> Int] : Good(f, m - 1)
          BY <4>1 DEF Solvable
        <4>3. \A k \in s .. n : k < m => k <= m - 1
          BY <2>3
        <4>4. QED
          BY <4>2, <4>3
      <3>3. QED
        BY <3>1, <3>2
    <2> DEFINE g == [k \in s .. n |-> IF k = m THEN (IF p[m] < s THEN a[m] ELSE f[p[m]] + a[m])
                                     ELSE f[k]]
    <2>5. \A k \in s .. n : ~(p[k] < s) => p[k] \in s .. n /\ p[k] < k
      OBVIOUS
    <2>6. g \in [s .. n -> Int]
      <3>1. ASSUME NEW k \in s .. n PROVE g[k] \in Int
        BY <2>4, <2>5
      <3>2. QED
        BY <3>1
    <2>7. ASSUME NEW k \in s .. n, k <= m
          PROVE  g[k] = IF p[k] < s THEN a[k] ELSE g[p[k]] + a[k]
      <3>1. ~(p[k] < s) => p[k] \in s .. n /\ p[k] # m /\ g[p[k]] = f[p[k]]
        BY <2>3, <2>5, <2>7
      <3>2. CASE k = m
        BY <3>1, <3>2
      <3>3. CASE k # m
        <4>1. k < m /\ g[k] = f[k]
          BY <2>3, <2>7, <3>3
        <4>2. f[k] = IF p[k] < s THEN a[k] ELSE f[p[k]] + a[k]
          BY <2>4, <4>1
        <4>3. QED
          BY <3>1, <4>1, <4>2
      <3>4. QED
        BY <3>2, <3>3
    <2>8. Good(g, m)
      <3> HIDE DEF g
      <3>1. QED
        BY <2>6, <2>7
    <2>9. QED
      BY <2>3, <2>6, <2>8 DEF Solvable
  <1>2. Solvable(n)
    BY <1>1
  <1>3. PICK f \in [s .. n -> Int] : Good(f, n)
    BY <1>2 DEF Solvable
  <1>4. \A k \in s .. n : k <= n
    OBVIOUS
  <1>5. QED
    BY <1>3, <1>4 DEF SumsAlong

LEMMA RecursiveSumType ==
    ASSUME NEW s \in Nat, NEW n \in Nat, NEW a \in [s .. n -> Int], NEW p \in [s .. n -> Int],
           \A k \in s .. n : p[k] < k,
           NEW f, SumsAlong(f, s, n, a, p)
    PROVE  \A k \in s .. n : f[k] \in Int
  <1> DEFINE Bad == {k \in s .. n : f[k] \notin Int}
  <1>1. SUFFICES ASSUME Bad # {} PROVE FALSE
    OBVIOUS
  <1>2. Bad \in SUBSET Nat
    OBVIOUS
  <1>3. PICK k \in Bad : \A j \in Bad : k <= j
    BY <1>1, <1>2, LeastExists
  <1>4. k \in s .. n /\ f[k] \notin Int /\ a[k] \in Int /\ p[k] \in Int /\ p[k] < k
    BY <1>3
  <1>5. ~(p[k] < s) => p[k] \in s .. n /\ p[k] \notin Bad
    BY <1>3, <1>4
  <1>6. ~(p[k] < s) => f[p[k]] \in Int
    BY <1>5
  <1>7. f[k] = IF p[k] < s THEN a[k] ELSE f[p[k]] + a[k]
    BY <1>4 DEF SumsAlong
  <1>8. QED
    BY <1>4, <1>6, <1>7

(* The sums of a function up to each number.                                *)
LEMMA PrefixSum ==
    ASSUME NEW n \in Nat, NEW g \in [1 .. n -> Int]
    PROVE  /\ \E f : f = [k \in 0 .. n |-> IF k = 0 THEN 0 ELSE f[k - 1] + g[k]]
           /\ \A f : f = [k \in 0 .. n |-> IF k = 0 THEN 0 ELSE f[k - 1] + g[k]]
                    => f \in [0 .. n -> Int]
  <1> DEFINE a == [k \in 0 .. n |-> IF k = 0 THEN 0 ELSE g[k]]
             p == [k \in 0 .. n |-> k - 1]
  <1>1. a \in [0 .. n -> Int] /\ p \in [0 .. n -> Int] /\ \A k \in 0 .. n : p[k] < k
    OBVIOUS
  <1>2. \A k \in 0 .. n : /\ (p[k] < 0) <=> (k = 0)
                          /\ k # 0 => (p[k] = k - 1 /\ a[k] = g[k])
                          /\ k = 0 => a[k] = 0
    OBVIOUS
  <1>3. 0 \in Nat
    OBVIOUS
  <1> HIDE DEF a, p
  <1>4. PICK f \in [0 .. n -> Int] : SumsAlong(f, 0, n, a, p)
    BY <1>1, <1>3, RecursiveSum
  <1>5. \A k \in 0 .. n : f[k] = IF k = 0 THEN 0 ELSE f[k - 1] + g[k]
    BY <1>2, <1>4 DEF SumsAlong
  <1>6. f = [k \in 0 .. n |-> IF k = 0 THEN 0 ELSE f[k - 1] + g[k]]
    BY <1>5
  <1>7. ASSUME NEW h, h = [k \in 0 .. n |-> IF k = 0 THEN 0 ELSE h[k - 1] + g[k]]
        PROVE  h \in [0 .. n -> Int]
    <2>1. \A k \in 0 .. n : h[k] = IF k = 0 THEN 0 ELSE h[k - 1] + g[k]
      BY <1>7
    <2>2. SumsAlong(h, 0, n, a, p)
      BY <1>2, <2>1 DEF SumsAlong
    <2>3. \A k \in 0 .. n : h[k] \in Int
      BY <1>1, <1>3, <2>2, RecursiveSumType
    <2>4. QED
      BY <1>7, <2>3
  <1>8. QED
    BY <1>6, <1>7

-------------------------------------------------------------------------------
(* Quotient and remainder are what they are by one equation.                *)
LEMMA DivisionIsUnique ==
    ASSUME NEW x \in Int, NEW q \in Int, NEW m \in Nat, m > 0, NEW r \in 0 .. m - 1,
           x = m * q + r
    PROVE  x \div m = q /\ x % m = r
  <1>1. x = m * (x \div m) + (x % m) /\ x % m \in 0 .. m - 1 /\ x \div m \in Int
    OBVIOUS
  <1>2. \A a, b \in Int : a > b => m * a >= m * b + m
    OBVIOUS
  <1>3. x \div m = q
    BY <1>1, <1>2
  <1>4. QED
    BY <1>1, <1>3

(* Remainders can be taken early.                                           *)
LEMMA RemainderOfSum ==
    ASSUME NEW x \in Int, NEW y \in Int, NEW m \in Nat, m > 0
    PROVE  /\ ((x % m) + y) % m = (x + y) % m
           /\ x \div m + ((x % m) + y) \div m = (x + y) \div m
  OBVIOUS

-------------------------------------------------------------------------------
(* The powers of two, from what the library says of the sets of subsets.    *)
LEMMA PowerType ==
    \A k \in Nat :
       /\ 2 ^ k \in Nat /\ 2 ^ k = Cardinality(SUBSET (1 .. k))
       /\ k < 1 => 2 ^ k = 1
  <1>1. ASSUME NEW k \in Nat PROVE 2 ^ k \in Nat /\ 2 ^ k = Cardinality(SUBSET (1 .. k))
    <2>1. IsFiniteSet(1 .. k) /\ Cardinality(1 .. k) = k
      BY FS_Interval
    <2>2. QED
      BY <2>1, FS_SUBSET, FS_CardinalityType
  <1>2. ASSUME NEW k \in Nat, k < 1 PROVE 2 ^ k = 1
    <2>1. SUBSET (1 .. k) = {{}}
      BY <1>2
    <2>2. Cardinality({{}}) = 1
      BY FS_Singleton
    <2>3. QED
      BY <1>1, <2>1, <2>2
  <1>3. QED
    BY <1>1, <1>2

LEMMA PowerStep == \A k \in Nat : 2 ^ (k + 1) = 2 * 2 ^ k
  <1> SUFFICES ASSUME NEW k \in Nat PROVE 2 ^ (k + 1) = 2 * 2 ^ k
    OBVIOUS
  <1> DEFINE without == SUBSET (1 .. k)
             with    == {A \in SUBSET (1 .. k + 1) : k + 1 \in A}
             f       == [A \in without |-> A \union {k + 1}]
  <1>1. IsFiniteSet(without) /\ Cardinality(without) = 2 ^ k
    <2>1. IsFiniteSet(1 .. k)
      BY FS_Interval
    <2>2. QED
      BY <2>1, FS_SUBSET, PowerType
  <1>2. ExistsBijection(without, with)
    <2>1. f \in [without -> with]
      OBVIOUS
    <2>2. ASSUME NEW A \in without, NEW B \in without, f[A] = f[B] PROVE A = B
      BY <2>2
    <2>3. ASSUME NEW C \in with PROVE \E A \in without : f[A] = C
      <3>1. C \ {k + 1} \in without /\ (C \ {k + 1}) \union {k + 1} = C
        OBVIOUS
      <3>2. QED
        BY <3>1
    <2>4. f \in Bijection(without, with)
      <3> HIDE DEF f, without, with
      <3>1. QED
        BY <2>1, <2>2, <2>3 DEF Bijection, Injection, Surjection, IsInjective
    <2>5. QED
      BY <2>4 DEF ExistsBijection
  <1>3. IsFiniteSet(with) /\ Cardinality(with) = 2 ^ k
    <2> HIDE DEF without, with
    <2>1. QED
      BY <1>1, <1>2, FS_Bijection
  <1>4. without \union with = SUBSET (1 .. k + 1) /\ without \intersect with = {}
    OBVIOUS
  <1>5. Cardinality(SUBSET (1 .. k + 1)) = 2 ^ k + 2 ^ k
    <2> HIDE DEF without, with
    <2>1. Cardinality({}) = 0
      BY FS_EmptySet
    <2>2. Cardinality(without \union with)
             = Cardinality(without) + Cardinality(with) - Cardinality(without \intersect with)
      BY <1>1, <1>3, FS_Union
    <2>3. Cardinality(without \union with) = 2 ^ k + 2 ^ k - 0
      BY <1>1, <1>3, <1>4, <2>1, <2>2
    <2>4. 2 ^ k \in Nat
      BY PowerType
    <2>5. Cardinality(SUBSET (1 .. k + 1)) = Cardinality(without \union with)
      BY <1>4, Zenon
    <2>6. QED
      BY <2>3, <2>4, <2>5
  <1>6. QED
    BY <1>5, PowerType

LEMMA PowerGrows == \A k \in Nat : k < 2 ^ k
  <1> DEFINE Bad == {k \in Nat : ~(k < 2 ^ k)}
  <1>1. SUFFICES ASSUME Bad # {} PROVE FALSE
    OBVIOUS
  <1>2. PICK k \in Bad : \A j \in Bad : k <= j
    BY <1>1, LeastExists
  <1>3. k # 0
    <2>1. k < 1 => 2 ^ k = 1
      BY <1>2, PowerType
    <2>2. QED
      BY <1>2, <2>1
  <1>4. k - 1 \in Nat /\ k - 1 < 2 ^ (k - 1)
    BY <1>2, <1>3
  <1>5. 2 ^ ((k - 1) + 1) = 2 * 2 ^ (k - 1) /\ (k - 1) + 1 = k /\ 2 ^ (k - 1) \in Nat
    BY <1>4, PowerStep, PowerType
  <1>6. QED
    BY <1>2, <1>4, <1>5

LEMMA PowerSum == \A j, k \in Nat : 2 ^ (j + k) = 2 ^ j * 2 ^ k
  <1> SUFFICES ASSUME NEW j \in Nat PROVE \A k \in Nat : 2 ^ (j + k) = 2 ^ j * 2 ^ k
    OBVIOUS
  <1> DEFINE Bad == {k \in Nat : 2 ^ (j + k) # 2 ^ j * 2 ^ k}
  <1>1. SUFFICES ASSUME Bad # {} PROVE FALSE
    OBVIOUS
  <1>2. PICK k \in Bad : \A i \in Bad : k <= i
    BY <1>1, LeastExists
  <1>3. k # 0
    <2>1. k < 1 => 2 ^ k = 1
      BY <1>2, PowerType
    <2>2. QED
      BY <1>2, <2>1
  <1>4. k - 1 \in Nat /\ 2 ^ (j + (k - 1)) = 2 ^ j * 2 ^ (k - 1)
    BY <1>2, <1>3
  <1>5. /\ 2 ^ ((k - 1) + 1) = 2 * 2 ^ (k - 1)
        /\ 2 ^ ((j + (k - 1)) + 1) = 2 * 2 ^ (j + (k - 1))
    BY <1>4, PowerStep
  <1>6. (k - 1) + 1 = k /\ (j + (k - 1)) + 1 = j + k
    BY <1>2
  <1>7. 2 ^ k = 2 * 2 ^ (k - 1) /\ 2 ^ (j + k) = 2 * (2 ^ j * 2 ^ (k - 1))
    BY <1>4, <1>5, <1>6
  <1>8. \A x, y \in Nat : 2 * (x * y) = x * (2 * y)
    OBVIOUS
  <1>9. QED
    BY <1>2, <1>4, <1>7, <1>8, PowerType
===============================================================================
