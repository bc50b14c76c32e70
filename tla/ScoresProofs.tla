---------------------------- MODULE ScoresProofs ----------------------------
(***************************************************************************)
(* The scores for any forecasts whatever: first numbers, sums and          *)
(* quotients, then the rates of pooled forecasts, then what the scoreboard *)
(* and the recalibration make of them.                                     *)
(***************************************************************************)
EXTENDS Calibration, WellFoundedInduction, FiniteSetTheorems, SequenceTheorems, TLAPS

-----------------------------------------------------------------------------
(* Numbers.                                                                *)

\* Of some numbers one is the least: the one with the fewest below it.
LEMMA LeastNumber == ASSUME NEW S, S \subseteq Nat, S # {} PROVE \E x \in S : \A y \in S : x <= y
<1> DEFINE below == {0 .. x : x \in S}
<1>1. below \subseteq FiniteSubsetsOf(Nat) /\ below # {}
  <2>1. \A x \in S : 0 .. x \in SUBSET Nat /\ IsFiniteSet(0 .. x)
    BY FS_Interval
  <2>2. \E x \in S : 0 .. x \in below
    OBVIOUS
  <2> QED BY <2>1, <2>2 DEF FiniteSubsetsOf
<1>2. PICK m \in below : \A a \in below : ~ (<<a, m>> \in StrictSubsetOrdering(Nat))
  <2> HIDE DEF below
  <2> QED BY <1>1, FS_StrictSubsetOrderingWellFounded, WFMin
<1>3. PICK x \in S : m = 0 .. x
  OBVIOUS
<1>4. ASSUME NEW y \in S PROVE x <= y
  <2> SUFFICES ASSUME y < x PROVE FALSE
    OBVIOUS
  <2>1. (0 .. y) \subseteq m /\ (0 .. y) # m /\ 0 .. y \in below
    BY <1>3
  <2>2. <<0 .. y, m>> \in StrictSubsetOrdering(Nat)
    BY <1>3, <2>1 DEF StrictSubsetOrdering
  <2> QED BY <1>2, <2>1, <2>2
<1> QED BY <1>4

\* Min is the least of some numbers, Max the greatest of some below a bound.
LEMMA MinIs == ASSUME NEW S, S \subseteq Nat, S # {} PROVE Min(S) \in S /\ \A y \in S : Min(S) <= y
  BY LeastNumber DEF Min

LEMMA MaxIs ==
    ASSUME NEW n \in Nat, NEW S, S \subseteq 0 .. n, S # {}
    PROVE  Max(S) \in S /\ \A y \in S : y <= Max(S)
<1> DEFINE back == {n - x : x \in S}
<1>1. back \subseteq Nat /\ back # {}
  OBVIOUS
<1>2. PICK b \in back : \A y \in back : b <= y
  <2> HIDE DEF back
  <2> QED BY <1>1, LeastNumber
<1>3. PICK x \in S : b = n - x
  OBVIOUS
<1>4. ASSUME NEW y \in S PROVE y <= x
  <2>1. n - y \in back
    OBVIOUS
  <2>2. b <= n - y
    <3> HIDE DEF back
    <3> QED BY <1>2, <2>1
  <2> QED BY <1>3, <2>2
<1>5. \E z \in S : \A y \in S : z >= y
  BY <1>4
<1> QED BY <1>5 DEF Max

\* What holds of 0, and of n + 1 whenever of n, holds up to any N.
LEMMA Counting ==
    ASSUME NEW N \in Nat, NEW S, 0 \in S, \A n \in 0 .. N - 1 : n \in S => n + 1 \in S
    PROVE  \A n \in 0 .. N : n \in S
<1> DEFINE bad == {n \in 0 .. N : n \notin S}
<1> SUFFICES ASSUME bad # {} PROVE FALSE
  OBVIOUS
<1>1. PICK n \in bad : \A m \in bad : n <= m
  <2>1. bad \subseteq Nat
    OBVIOUS
  <2> HIDE DEF bad
  <2> QED BY <2>1, LeastNumber
<1>2. n # 0 /\ n \in 0 .. N
  BY <1>1
<1>3. n - 1 \in 0 .. N - 1 /\ n - 1 \in 0 .. N
  BY <1>2
<1>4. n - 1 \notin bad
  <2> HIDE DEF bad
  <2> QED BY <1>1, <1>2
<1> QED BY <1>1, <1>3, <1>4

\* A value for 0 and a rule from each number to the next make a function.
Rules(N, X) == [1 .. N -> [X -> X]]
Unrolls(N, X, v, D, f) ==
    f \in [0 .. N -> X] /\ f[0] = v /\ \A n \in 1 .. N : f[n] = D[n][f[n - 1]]

LEMMA Recursion ==
    ASSUME NEW N \in Nat, NEW X, NEW v \in X, NEW D \in Rules(N, X)
    PROVE  \E f : Unrolls(N, X, v, D, f)
<1>0. D \in [1 .. N -> [X -> X]]
  BY DEF Rules
<1> DEFINE Follows(n, f) == f[0] = v /\ \A m \in 1 .. n : f[m] = D[m][f[m - 1]]
           good == {n \in 0 .. N : \E f \in [0 .. n -> X] : Follows(n, f)}
<1>1. 0 \in good
  <2> DEFINE g == [m \in 0 .. 0 |-> v]
  <2>1. g \in [0 .. 0 -> X] /\ Follows(0, g) /\ 0 \in 0 .. N
    OBVIOUS
  <2> HIDE DEF g, Follows
  <2> QED BY <2>1
<1>2. ASSUME NEW n \in 0 .. N - 1, n \in good PROVE n + 1 \in good
  <2>1. PICK f \in [0 .. n -> X] : Follows(n, f)
    BY <1>2
  <2> DEFINE g == [m \in 0 .. n + 1 |-> IF m = n + 1 THEN D[n + 1][f[n]] ELSE f[m]]
  <2>2. g \in [0 .. n + 1 -> X]
    BY <1>0, <2>1
  <2>3. ASSUME NEW m \in 1 .. n + 1 PROVE g[m] = D[m][g[m - 1]]
    <3>1. CASE m = n + 1
      BY <3>1
    <3>2. CASE m # n + 1
      BY <2>1, <3>2
    <3> QED BY <3>1, <3>2
  <2>4. g[0] = v
    BY <2>1
  <2> HIDE DEF g
  <2> QED BY <2>2, <2>3, <2>4
<1>3. \A n \in 0 .. N : n \in good
  <2> HIDE DEF good
  <2> QED BY <1>1, <1>2, Counting
<1>4. N \in good
  <2> HIDE DEF good
  <2> QED BY <1>3
<1> QED BY <1>4 DEF Unrolls

\* Two functions that follow one rule are the same.
Obeys(N, X, v, D, g) == g[0] = v /\ \A n \in 1 .. N : g[n - 1] \in X => g[n] = D[n][g[n - 1]]

LEMMA RecursionOnce ==
    ASSUME NEW N \in Nat, NEW X, NEW v, NEW D,
           NEW f, Unrolls(N, X, v, D, f), NEW g, Obeys(N, X, v, D, g)
    PROVE  \A n \in 0 .. N : g[n] = f[n]
<1>0. /\ f \in [0 .. N -> X] /\ f[0] = v /\ g[0] = v
      /\ \A n \in 1 .. N : f[n] = D[n][f[n - 1]]
      /\ \A n \in 1 .. N : g[n - 1] \in X => g[n] = D[n][g[n - 1]]
  BY DEF Unrolls, Obeys
<1> DEFINE good == {n \in 0 .. N : g[n] = f[n]}
<1>1. 0 \in good
  BY <1>0
<1>2. ASSUME NEW n \in 0 .. N - 1, n \in good PROVE n + 1 \in good
  <2>1. n + 1 \in 1 .. N /\ n + 1 - 1 = n
    OBVIOUS
  <2>2. g[n] = f[n] /\ g[n] \in X
    BY <1>0, <1>2
  <2> QED BY <1>0, <2>1, <2>2
<1> HIDE DEF good
<1>3. \A n \in 0 .. N : n \in good
  BY <1>1, <1>2, Counting
<1> QED BY <1>3 DEF good
-----------------------------------------------------------------------------
(* Sums.                                                                   *)

\* A sum is reached from 0 by adding one entry after the other.
LEMMA TotalIs ==
    ASSUME NEW N \in Nat, NEW a \in [1 .. N -> Int]
    PROVE  \E f \in [0 .. N -> Int] :
              /\ f[0] = 0 /\ \A n \in 1 .. N : f[n] = f[n - 1] + a[n]
              /\ Total(a) = f[N]
<1> DEFINE D == [n \in 1 .. N |-> [x \in Int |-> x + a[n]]]
           Adds(g) == g = [n \in 0 .. N |-> IF n = 0 THEN 0 ELSE g[n - 1] + a[n]]
           sum == CHOOSE g : Adds(g)
<1>1. D \in Rules(N, Int) /\ \A x \in Int, n \in 1 .. N : D[n][x] = x + a[n]
  BY DEF Rules
<1>2. PICK f : Unrolls(N, Int, 0, D, f)
  <2>1. 0 \in Int
    OBVIOUS
  <2> HIDE DEF D
  <2> QED BY <1>1, <2>1, Recursion
<1>3. f \in [0 .. N -> Int] /\ f[0] = 0 /\ \A n \in 1 .. N : f[n] = f[n - 1] + a[n]
  <2> HIDE DEF D
  <2>1. f \in [0 .. N -> Int] /\ f[0] = 0 /\ \A n \in 1 .. N : f[n] = D[n][f[n - 1]]
    BY <1>2 DEF Unrolls
  <2>2. \A n \in 1 .. N : f[n - 1] \in Int
    BY <2>1
  <2> QED BY <1>1, <2>1, <2>2
<1>4. Adds(f)
  <2>1. \A n \in 0 .. N : f[n] = IF n = 0 THEN 0 ELSE f[n - 1] + a[n]
    BY <1>3
  <2> QED BY <1>3, <2>1
<1>5. Adds(sum)
  <2> HIDE DEF Adds
  <2> QED BY <1>4
<1>6. Len(a) = N
  OBVIOUS
<1>7. Total(a) = sum[N]
  BY <1>6 DEF Total
<1>8. sum[0] = 0 /\ \A n \in 1 .. N : sum[n] = sum[n - 1] + a[n]
  <2> HIDE DEF sum
  <2> QED BY <1>5
<1>9. \A n \in 0 .. N : sum[n] = f[n]
  <2> HIDE DEF sum, D, Adds
  <2>1. Obeys(N, Int, 0, D, sum)
    BY <1>1, <1>8 DEF Obeys
  <2> QED BY <1>2, <2>1, RecursionOnce
<1>10. Total(a) = f[N]
  <2> HIDE DEF sum
  <2> QED BY <1>7, <1>9
<1> QED BY <1>3, <1>10

LEMMA TotalType == ASSUME NEW N \in Nat, NEW a \in [1 .. N -> Int] PROVE Total(a) \in Int
<1>1. PICK f \in [0 .. N -> Int] : Total(a) = f[N]
  BY TotalIs
<1> QED BY <1>1

\* Sums are linear.
Mixes(N, c, x, a, y, b) ==
    /\ a \in [1 .. N -> Int] /\ b \in [1 .. N -> Int] /\ c \in [1 .. N -> Int]
    /\ x \in Int /\ y \in Int /\ \A i \in 1 .. N : c[i] = x * a[i] + y * b[i]

LEMMA TotalLinear ==
    ASSUME NEW N \in Nat, NEW a, NEW b, NEW c, NEW x, NEW y, Mixes(N, c, x, a, y, b)
    PROVE  Total(c) = x * Total(a) + y * Total(b)
<1>0. /\ a \in [1 .. N -> Int] /\ b \in [1 .. N -> Int] /\ c \in [1 .. N -> Int]
      /\ x \in Int /\ y \in Int
  BY DEF Mixes
<1>1. PICK f \in [0 .. N -> Int] : /\ f[0] = 0 /\ \A n \in 1 .. N : f[n] = f[n - 1] + a[n]
                                   /\ Total(a) = f[N]
  BY <1>0, TotalIs
<1>2. PICK g \in [0 .. N -> Int] : /\ g[0] = 0 /\ \A n \in 1 .. N : g[n] = g[n - 1] + b[n]
                                   /\ Total(b) = g[N]
  BY <1>0, TotalIs
<1>3. PICK h \in [0 .. N -> Int] : /\ h[0] = 0 /\ \A n \in 1 .. N : h[n] = h[n - 1] + c[n]
                                   /\ Total(c) = h[N]
  BY <1>0, TotalIs
<1> DEFINE good == {n \in 0 .. N : h[n] = x * f[n] + y * g[n]}
<1>4. 0 \in good
  <2>1. x * 0 + y * 0 = 0
    BY <1>0
  <2> QED BY <1>1, <1>2, <1>3, <2>1
<1>5. ASSUME NEW n \in 0 .. N - 1, n \in good PROVE n + 1 \in good
  <2>1. n + 1 \in 1 .. N /\ n + 1 - 1 = n /\ n + 1 \in 0 .. N /\ n \in 0 .. N
    OBVIOUS
  <2>2. f[n + 1] = f[n] + a[n + 1] /\ g[n + 1] = g[n] + b[n + 1]
    <3>1. f[n + 1] = f[n] + a[n + 1]
      BY <1>1, <2>1, SMTT(30)
    <3>2. g[n + 1] = g[n] + b[n + 1]
      BY <1>2, <2>1, SMTT(30)
    <3> QED BY <3>1, <3>2
  <2>7. h[n + 1] = h[n] + c[n + 1]
    BY <1>3, <2>1, SMTT(20)
  <2>8. c[n + 1] = x * a[n + 1] + y * b[n + 1]
    BY <2>1 DEF Mixes
  <2>4. f[n] \in Int /\ g[n] \in Int /\ a[n + 1] \in Int /\ b[n + 1] \in Int
    BY <1>0, <1>1, <1>2, <2>1
  <2>5. h[n] = x * f[n] + y * g[n]
    BY <1>5
  <2>6. h[n + 1] = x * f[n + 1] + y * g[n + 1]
    <3> DEFINE p == f[n]  q == g[n]  u == a[n + 1]  v == b[n + 1]
    <3>1. p \in Int /\ q \in Int /\ u \in Int /\ v \in Int
      BY <2>4
    <3>2. h[n + 1] = x * p + y * q + (x * u + y * v) /\ f[n + 1] = p + u /\ g[n + 1] = q + v
      BY <2>2, <2>5, <2>7, <2>8
    <3> HIDE DEF p, q, u, v
    <3>3. x * p + y * q + (x * u + y * v) = x * (p + u) + y * (q + v)
      BY <1>0, <3>1
    <3> QED BY <3>2, <3>3
  <2> QED BY <2>1, <2>6
<1>6. N \in good
  <2> HIDE DEF good
  <2>1. \A n \in 0 .. N : n \in good
    BY <1>4, <1>5, Counting
  <2> QED BY <2>1
<1> QED BY <1>1, <1>2, <1>3, <1>6

Column(N, a) == N \in Nat /\ a \in [1 .. N -> Int]
Mix(N, x, a, y, b) == [i \in 1 .. N |-> x * a[i] + y * b[i]]

LEMMA MixTotal ==
    ASSUME NEW N, NEW a, NEW b, Column(N, a), Column(N, b), NEW x \in Int, NEW y \in Int
    PROVE  /\ Column(N, Mix(N, x, a, y, b))
           /\ \A i \in 1 .. N : Mix(N, x, a, y, b)[i] = x * a[i] + y * b[i]
           /\ Total(Mix(N, x, a, y, b)) = x * Total(a) + y * Total(b)
<1>0. N \in Nat /\ a \in [1 .. N -> Int] /\ b \in [1 .. N -> Int]
  BY DEF Column
<1>1. ASSUME NEW i \in 1 .. N PROVE x * a[i] + y * b[i] \in Int
  <2> DEFINE p == a[i]  q == b[i]
  <2>1. p \in Int /\ q \in Int
    BY <1>0
  <2> HIDE DEF p, q
  <2>2. x * p \in Int /\ y * q \in Int
    BY <2>1
  <2>3. x * p + y * q \in Int
    BY <2>2
  <2> QED BY <2>3 DEF p, q
<1>2. Mix(N, x, a, y, b) \in [1 .. N -> Int]
  BY <1>1, Zenon DEF Mix
<1>3. \A i \in 1 .. N : Mix(N, x, a, y, b)[i] = x * a[i] + y * b[i]
  BY Zenon DEF Mix
<1>4. Mixes(N, Mix(N, x, a, y, b), x, a, y, b)
  BY <1>0, <1>2, <1>3, Zenon DEF Mixes
<1>5. Total(Mix(N, x, a, y, b)) = x * Total(a) + y * Total(b)
  BY <1>0, <1>4, TotalLinear
<1> QED BY <1>0, <1>2, <1>3, <1>5 DEF Column

\* A sum is no larger than that of larger entries.
LEMMA TotalOrder ==
    ASSUME NEW N \in Nat, NEW a \in [1 .. N -> Int], NEW b \in [1 .. N -> Int],
           \A i \in 1 .. N : a[i] <= b[i]
    PROVE  Total(a) <= Total(b)
<1>1. PICK f \in [0 .. N -> Int] : /\ f[0] = 0 /\ \A n \in 1 .. N : f[n] = f[n - 1] + a[n]
                                   /\ Total(a) = f[N]
  BY TotalIs
<1>2. PICK g \in [0 .. N -> Int] : /\ g[0] = 0 /\ \A n \in 1 .. N : g[n] = g[n - 1] + b[n]
                                   /\ Total(b) = g[N]
  BY TotalIs
<1> DEFINE good == {n \in 0 .. N : f[n] <= g[n]}
<1>3. 0 \in good
  BY <1>1, <1>2
<1>4. ASSUME NEW n \in 0 .. N - 1, n \in good PROVE n + 1 \in good
  <2>1. n + 1 \in 1 .. N /\ n + 1 - 1 = n /\ n + 1 \in 0 .. N /\ n \in 0 .. N
    OBVIOUS
  <2>2. f[n + 1] = f[n] + a[n + 1] /\ g[n + 1] = g[n] + b[n + 1] /\ a[n + 1] <= b[n + 1]
    BY <1>1, <1>2, <2>1
  <2>3. f[n] \in Int /\ g[n] \in Int /\ a[n + 1] \in Int /\ b[n + 1] \in Int /\ f[n] <= g[n]
    BY <1>1, <1>2, <1>4, <2>1
  <2> QED BY <2>1, <2>2, <2>3, SMTT(30)
<1>5. N \in good
  <2> HIDE DEF good
  <2>1. \A n \in 0 .. N : n \in good
    BY <1>3, <1>4, Counting
  <2> QED BY <2>1
<1> QED BY <1>1, <1>2, <1>5

\* The sum of N times the same.
LEMMA TotalSame ==
    ASSUME NEW N \in Nat, NEW k \in Int, NEW a \in [1 .. N -> Int], \A i \in 1 .. N : a[i] = k
    PROVE  Total(a) = k * N
<1>1. PICK f \in [0 .. N -> Int] : /\ f[0] = 0 /\ \A n \in 1 .. N : f[n] = f[n - 1] + a[n]
                                   /\ Total(a) = f[N]
  BY TotalIs
<1> DEFINE good == {n \in 0 .. N : f[n] = k * n}
<1>2. 0 \in good
  BY <1>1
<1>3. ASSUME NEW n \in 0 .. N - 1, n \in good PROVE n + 1 \in good
  <2>1. n + 1 \in 1 .. N /\ n + 1 - 1 = n /\ n + 1 \in 0 .. N /\ n \in 0 .. N
    OBVIOUS
  <2>2. f[n + 1] = k * n + k
    BY <1>1, <1>3, <2>1
  <2>3. k * n + k = k * (n + 1)
    BY <2>1
  <2> QED BY <2>1, <2>2, <2>3
<1>4. N \in good
  <2> HIDE DEF good
  <2>1. \A n \in 0 .. N : n \in good
    BY <1>2, <1>3, Counting
  <2> QED BY <2>1
<1> QED BY <1>1, <1>4

\* A sum of naturals is at least each of them.
LEMMA TotalSome ==
    ASSUME NEW N \in Nat, NEW a \in [1 .. N -> Nat], NEW j \in 1 .. N
    PROVE  a[j] <= Total(a)
<1> DEFINE b == [i \in 1 .. N |-> IF i = j THEN a[j] ELSE 0]
<1>0. a \in [1 .. N -> Int] /\ b \in [1 .. N -> Int] /\ \A i \in 1 .. N : b[i] <= a[i]
  OBVIOUS
<1>1. PICK f \in [0 .. N -> Int] : /\ f[0] = 0 /\ \A n \in 1 .. N : f[n] = f[n - 1] + b[n]
                                   /\ Total(b) = f[N]
  <2> HIDE DEF b
  <2> QED BY <1>0, TotalIs
<1> DEFINE good == {n \in 0 .. N : f[n] = IF n < j THEN 0 ELSE a[j]}
<1>2. 0 \in good
  BY <1>1
<1>3. ASSUME NEW n \in 0 .. N - 1, n \in good PROVE n + 1 \in good
  <2>1. n + 1 \in 1 .. N /\ n + 1 - 1 = n /\ n + 1 \in 0 .. N /\ n \in 0 .. N
    OBVIOUS
  <2>2. f[n + 1] = f[n] + b[n + 1]
    <3> HIDE DEF b
    <3> QED BY <1>1, <2>1
  <2>5. f[n] = IF n < j THEN 0 ELSE a[j]
    BY <1>3
  <2>3. b[n + 1] = IF n + 1 = j THEN a[j] ELSE 0
    BY <2>1
  <2>4. a[j] \in Int
    OBVIOUS
  <2> HIDE DEF b
  <2> QED BY <2>1, <2>2, <2>3, <2>4, <2>5
<1>4. N \in good
  <2> HIDE DEF good
  <2>1. \A n \in 0 .. N : n \in good
    BY <1>2, <1>3, Counting
  <2> QED BY <2>1
<1>5. Total(b) = a[j]
  <2> HIDE DEF b
  <2> QED BY <1>1, <1>4
<1>6. Total(b) <= Total(a)
  <2> HIDE DEF b
  <2> QED BY <1>0, TotalOrder
<1> QED BY <1>5, <1>6
-----------------------------------------------------------------------------
(* Quotients.                                                              *)

Quotients == Int \X (Nat \ {0})

\* q is the quotient of a and d, in whatever terms it is written.
Worth(q, a, d) == q \in Quotients /\ a \in Int /\ d \in Nat \ {0} /\ q[1] * d = a * q[2]

LEMMA Cancel == ASSUME NEW x \in Int, NEW y \in Int, NEW k \in Int, k > 0 PROVE x * k = y * k <=> x = y
  OBVIOUS

LEMMA CancelOrder == ASSUME NEW x \in Int, NEW y \in Int, NEW k \in Int, k > 0 PROVE x * k <= y * k <=> x <= y
  OBVIOUS

LEMMA DivisionIs ==
    ASSUME NEW n \in Int, NEW g \in Int, g > 0, n % g = 0
    PROVE  n \div g \in Int /\ n = (n \div g) * g
  OBVIOUS

LEMMA WorthItself == ASSUME NEW q \in Quotients PROVE Worth(q, q[1], q[2])
  BY DEF Quotients, Worth

LEMMA WorthPair == ASSUME NEW n \in Int, NEW d \in Nat \ {0} PROVE Worth(<<n, d>>, n, d)
  BY DEF Quotients, Worth

LEMMA WorthScaled ==
    ASSUME NEW q, NEW a \in Int, NEW d \in Nat \ {0}, NEW k \in Nat \ {0}
    PROVE  Worth(q, a, d) <=> Worth(q, a * k, d * k)
<1>1. a * k \in Int /\ d * k \in Nat \ {0}
  OBVIOUS
<1>2. ASSUME q \in Quotients PROVE q[1] * d = a * q[2] <=> q[1] * (d * k) = (a * k) * q[2]
  <2>1. q[1] \in Int /\ q[2] \in Int
    BY <1>2 DEF Quotients
  <2>2. q[1] * (d * k) = (q[1] * d) * k /\ (a * k) * q[2] = (a * q[2]) * k
    BY <2>1
  <2>3. q[1] * d \in Int /\ a * q[2] \in Int
    BY <2>1
  <2> QED BY <2>2, <2>3, Cancel
<1> QED BY <1>1, <1>2 DEF Worth

\* Reduction changes the terms and not the quotient.
LEMMA QuotWorth == ASSUME NEW n \in Int, NEW d \in Nat \ {0} PROVE Worth(Quot(n, d), n, d)
<1> DEFINE S == {x \in 1 .. d : d % x = 0 /\ n % x = 0}  g == Max(S)
<1>1. S \subseteq 0 .. d /\ S # {}
  <2>1. 1 \in S
    OBVIOUS
  <2> QED BY <2>1
<1>2. g \in S
  <2> HIDE DEF S
  <2> QED BY <1>1, MaxIs
<1>3. g \in Int /\ g > 0 /\ d % g = 0 /\ n % g = 0
  <2> HIDE DEF g
  <2> QED BY <1>2
<1> DEFINE a == n \div g  b == d \div g
<1>4. Quot(n, d) = <<a, b>>
  BY DEF Quot
<1> HIDE DEF g, S
<1>5. a \in Int /\ b \in Int /\ n = a * g /\ d = b * g
  BY <1>3, DivisionIs
<1> HIDE DEF a, b
<1>6. b > 0
  <2>1. ASSUME b <= 0 PROVE FALSE
    <3>1. b * g <= 0
      BY <1>3, <1>5, <2>1
    <3> QED BY <1>5, <3>1
  <2> QED BY <1>5, <2>1
<1>7. a * (b * g) = (a * g) * b
  BY <1>3, <1>5
<1> QED BY <1>4, <1>5, <1>6, <1>7 DEF Worth, Quotients

LEMMA WorthPlus ==
    ASSUME NEW p, NEW q, NEW a, NEW b, NEW d, Worth(p, a, d), Worth(q, b, d)
    PROVE  Worth(Plus(p, q), a + b, d)
<1> DEFINE n == p[1] * q[2] + q[1] * p[2]  m == p[2] * q[2]
<1>1. /\ p[1] \in Int /\ p[2] \in Nat \ {0} /\ q[1] \in Int /\ q[2] \in Nat \ {0}
      /\ a \in Int /\ b \in Int /\ d \in Nat \ {0}
      /\ p[1] * d = a * p[2] /\ q[1] * d = b * q[2]
  BY DEF Worth, Quotients
<1>2. n \in Int /\ m \in Nat \ {0}
  BY <1>1
<1>3. n * d = (a + b) * m
  <2>1. n * d = (p[1] * d) * q[2] + (q[1] * d) * p[2]
    BY <1>1
  <2>2. n * d = (a * p[2]) * q[2] + (b * q[2]) * p[2]
    BY <1>1, <2>1
  <2> QED BY <1>1, <2>2
<1>4. Worth(Plus(p, q), n, m)
  BY <1>2, QuotWorth DEF Plus
<1> HIDE DEF n, m
<1>5. Worth(Plus(p, q), n * d, m * d)
  BY <1>1, <1>2, <1>4, WorthScaled
<1>6. a + b \in Int /\ m * d = d * m
  BY <1>1, <1>2
<1> QED BY <1>1, <1>2, <1>3, <1>5, <1>6, WorthScaled

LEMMA WorthMinus ==
    ASSUME NEW p, NEW q, NEW a, NEW b, NEW d, Worth(p, a, d), Worth(q, b, d)
    PROVE  Worth(Minus(p, q), a - b, d)
<1>1. q[1] \in Int /\ q[2] \in Nat \ {0} /\ b \in Int /\ q[1] * d = b * q[2] /\ d \in Nat \ {0} /\ a \in Int
  BY DEF Worth, Quotients
<1>2. (-q[1]) * d = (-b) * q[2]
  BY <1>1
<1>3. Worth(<<-q[1], q[2]>>, -b, d)
  BY <1>1, <1>2 DEF Worth, Quotients
<1>4. a + (-b) = a - b
  BY <1>1
<1> QED BY <1>3, <1>4, WorthPlus DEF Minus

LEMMA WorthTimes ==
    ASSUME NEW p, NEW q, NEW a, NEW b, NEW d, NEW e, Worth(p, a, d), Worth(q, b, e)
    PROVE  Worth(Times(p, q), a * b, d * e)
<1> DEFINE n == p[1] * q[1]  m == p[2] * q[2]
<1>1. /\ p[1] \in Int /\ p[2] \in Nat \ {0} /\ q[1] \in Int /\ q[2] \in Nat \ {0}
      /\ a \in Int /\ b \in Int /\ d \in Nat \ {0} /\ e \in Nat \ {0}
      /\ p[1] * d = a * p[2] /\ q[1] * e = b * q[2]
  BY DEF Worth, Quotients
<1>2. n \in Int /\ m \in Nat \ {0} /\ d * e \in Nat \ {0} /\ a * b \in Int
  BY <1>1
<1>3. n * (d * e) = (a * b) * m
  <2>1. n * (d * e) = (p[1] * d) * (q[1] * e)
    BY <1>1
  <2>2. n * (d * e) = (a * p[2]) * (b * q[2])
    BY <1>1, <2>1
  <2> QED BY <1>1, <2>2
<1>4. Worth(Times(p, q), n, m)
  BY <1>2, QuotWorth DEF Times
<1> DEFINE k == d * e
<1> HIDE DEF n, m, k
<1>5. Worth(Times(p, q), n * k, m * k)
  BY <1>2, <1>4, WorthScaled DEF k
<1>6. m * k = k * m /\ n * k = (a * b) * m /\ k \in Nat \ {0}
  BY <1>1, <1>2, <1>3 DEF k
<1>7. Worth(Times(p, q), (a * b) * m, k * m)
  BY <1>5, <1>6
<1>8. Worth(Times(p, q), a * b, k)
  <2> DEFINE c == a * b
  <2>1. c \in Int /\ Worth(Times(p, q), c * m, k * m)
    BY <1>2, <1>7
  <2> HIDE DEF c
  <2>2. Worth(Times(p, q), c, k)
    BY <1>2, <1>6, <2>1, WorthScaled
  <2> QED BY <2>2 DEF c
<1> QED BY <1>8 DEF k

\* Over one denominator quotients compare as their numerators do.
LEMMA WorthOrder ==
    ASSUME NEW p, NEW q, NEW a, NEW b, NEW d, Worth(p, a, d), Worth(q, b, d)
    PROVE  (AtMost(p, q) <=> a <= b) /\ (Same(p, q) <=> a = b)
<1> DEFINE x == p[1] * q[2]  y == q[1] * p[2]  m == p[2] * q[2]
<1>1. /\ p[1] \in Int /\ p[2] \in Nat \ {0} /\ q[1] \in Int /\ q[2] \in Nat \ {0}
      /\ a \in Int /\ b \in Int /\ d \in Nat \ {0}
      /\ p[1] * d = a * p[2] /\ q[1] * d = b * q[2]
  BY DEF Worth, Quotients
<1>2. x \in Int /\ y \in Int /\ m \in Int /\ m > 0 /\ d \in Int /\ d > 0
  BY <1>1
<1>3. x * d = a * m
  <2>1. x * d = (p[1] * d) * q[2]
    BY <1>1
  <2>2. x * d = (a * p[2]) * q[2]
    BY <1>1, <2>1
  <2> QED BY <1>1, <2>2
<1>4. y * d = b * m
  <2>1. y * d = (q[1] * d) * p[2]
    BY <1>1
  <2>2. y * d = (b * q[2]) * p[2]
    BY <1>1, <2>1
  <2> QED BY <1>1, <2>2
<1>5. (AtMost(p, q) <=> x <= y) /\ (Same(p, q) <=> x = y)
  BY DEF AtMost, Same
<1> HIDE DEF x, y, m
<1>6. (x * d <= y * d <=> x <= y) /\ (a * m <= b * m <=> a <= b)
  BY <1>1, <1>2, CancelOrder
<1>7. (x * d = y * d <=> x = y) /\ (a * m = b * m <=> a = b)
  BY <1>1, <1>2, Cancel
<1> QED BY <1>3, <1>4, <1>5, <1>6, <1>7

\* Some numbers have a common multiple.
LEMMA CommonMultiple ==
    ASSUME NEW n \in Nat, NEW k \in [0 .. n -> Nat \ {0}]
    PROVE  \E m \in Nat \ {0} : \E c \in [0 .. n -> Nat \ {0}] : \A x \in 0 .. n : m = c[x] * k[x]
<1> DEFINE Multiple(j, m, c) == c \in [0 .. j -> Nat \ {0}] /\ \A x \in 0 .. j : m = c[x] * k[x]
           good == {j \in 0 .. n : \E m \in Nat \ {0} : \E c : Multiple(j, m, c)}
<1>1. 0 \in good
  <2> DEFINE c == [x \in 0 .. 0 |-> 1]
  <2>1. Multiple(0, k[0], c) /\ k[0] \in Nat \ {0} /\ 0 \in 0 .. n
    OBVIOUS
  <2> HIDE DEF c, Multiple
  <2> QED BY <2>1
<1>2. ASSUME NEW j \in 0 .. n - 1, j \in good PROVE j + 1 \in good
  <2>0. PICK m \in Nat \ {0} : \E c : Multiple(j, m, c)
    BY <1>2
  <2>1. PICK c : Multiple(j, m, c)
    BY <2>0
  <2> DEFINE l == k[j + 1]
             d == [x \in 0 .. j + 1 |-> IF x = j + 1 THEN m ELSE c[x] * l]
  <2>2. l \in Nat \ {0} /\ j + 1 \in 0 .. n
    OBVIOUS
  <2> HIDE DEF l
  <2>3. m * l \in Nat \ {0} /\ \A y \in Nat \ {0} : y * l \in Nat \ {0}
    BY <2>1, <2>2
  <2>4. d \in [0 .. j + 1 -> Nat \ {0}]
    <3>1. ASSUME NEW x \in 0 .. j + 1 PROVE d[x] \in Nat \ {0}
      <4>1. x # j + 1 => x \in 0 .. j
        OBVIOUS
      <4> QED BY <2>1, <2>3, <4>1
    <3> QED BY <3>1
  <2>5. ASSUME NEW x \in 0 .. j + 1 PROVE m * l = d[x] * k[x]
    <3>1. CASE x = j + 1
      BY <3>1 DEF l
    <3>2. CASE x # j + 1
      <4>1. x \in 0 .. j /\ d[x] = c[x] * l
        BY <3>2
      <4>2. m = c[x] * k[x] /\ c[x] \in Int
        BY <2>1, <4>1
      <4>3. k[x] \in Int /\ l \in Int
        BY <2>2
      <4> DEFINE u == c[x]  v == k[x]
      <4>4. u \in Int /\ v \in Int /\ m = u * v /\ d[x] = u * l
        BY <4>1, <4>2, <4>3
      <4> HIDE DEF u, v, d
      <4>5. m * l = (u * l) * v
        BY <4>3, <4>4
      <4> QED BY <4>4, <4>5 DEF v
    <3> QED BY <3>1, <3>2
  <2>6. Multiple(j + 1, m * l, d)
    <3> HIDE DEF d
    <3> QED BY <2>4, <2>5
  <2> HIDE DEF Multiple, d
  <2> QED BY <2>2, <2>3, <2>6
<1>3. n \in good
  <2> HIDE DEF good
  <2>1. \A j \in 0 .. n : j \in good
    BY <1>1, <1>2, Counting
  <2> QED BY <2>1
<1> QED BY <1>3

\* A sum of quotients is the sum of their numerators over a common denominator.
SumRule(part, n) ==
    [x \in 1 .. n |-> [q \in Quotients |-> IF x - 1 \in DOMAIN part THEN Plus(q, part[x - 1]) ELSE q]]

LEMMA SumBelowWorth ==
    ASSUME NEW n \in Nat, NEW d \in Nat \ {0}, NEW part, NEW w \in [0 .. n - 1 -> Int],
           \A x \in 0 .. n - 1 : IF x \in DOMAIN part THEN Worth(part[x], w[x], d) ELSE w[x] = 0
    PROVE  \E f \in [0 .. n -> Int] : /\ f[0] = 0 /\ \A x \in 1 .. n : f[x] = f[x - 1] + w[x - 1]
                                      /\ Worth(SumBelow(part, n), f[n], d)
<1> DEFINE Next1(x, q) == IF x - 1 \in DOMAIN part THEN Plus(q, part[x - 1]) ELSE q
           Adds(g) == g = [x \in 0 .. n |-> IF x = 0 THEN <<0, 1>> ELSE Next1(x, g[x - 1])]
           sum == CHOOSE g : Adds(g)
           D == SumRule(part, n)
           a == [x \in 1 .. n |-> w[x - 1]]
<1>1. a \in [1 .. n -> Int]
  OBVIOUS
<1>2. PICK f \in [0 .. n -> Int] : f[0] = 0 /\ \A x \in 1 .. n : f[x] = f[x - 1] + a[x]
  <2> HIDE DEF a
  <2> QED BY <1>1, TotalIs
<1>3. \A x \in 1 .. n : f[x] = f[x - 1] + w[x - 1]
  BY <1>2
<1> HIDE DEF a
<1>4. <<0, 1>> \in Quotients /\ \A q \in Quotients : \A r : Worth(r, r[1], r[2]) => Plus(q, r) \in Quotients
  <2>1. ASSUME NEW q \in Quotients, NEW r, Worth(r, r[1], r[2]) PROVE Plus(q, r) \in Quotients
    <3>1. /\ q[1] \in Int /\ q[2] \in Nat \ {0} /\ r[1] \in Int /\ r[2] \in Nat \ {0}
      BY <2>1 DEF Worth, Quotients
    <3> DEFINE q1 == q[1]  q2 == q[2]  r1 == r[1]  r2 == r[2]
    <3>4. q1 * r2 \in Int /\ r1 * q2 \in Int /\ q2 * r2 \in Nat \ {0}
      <4>1. q1 \in Int /\ q2 \in Nat \ {0} /\ r1 \in Int /\ r2 \in Nat \ {0}
        BY <3>1
      <4> HIDE DEF q1, q2, r1, r2
      <4> QED BY <4>1
    <3>2. q[1] * r[2] \in Int /\ r[1] * q[2] \in Int /\ q[2] * r[2] \in Nat \ {0}
      BY <3>4
    <3>3. q[1] * r[2] + r[1] * q[2] \in Int
      BY <3>2
    <3> QED BY <3>2, <3>3, QuotWorth DEF Plus, Worth
  <2> QED BY <2>1 DEF Quotients
<1>5. \A q \in Quotients, x \in 1 .. n : Next1(x, q) \in Quotients
  <2> SUFFICES ASSUME NEW q \in Quotients, NEW x \in 1 .. n, x - 1 \in DOMAIN part
               PROVE  Plus(q, part[x - 1]) \in Quotients
    OBVIOUS
  <2>1. x - 1 \in 0 .. n - 1
    OBVIOUS
  <2>2. part[x - 1] \in Quotients
    BY <2>1 DEF Worth
  <2>3. Worth(part[x - 1], part[x - 1][1], part[x - 1][2])
    BY <2>2, WorthItself
  <2> QED BY <1>4, <2>3
<1>6. D \in Rules(n, Quotients) /\ \A q \in Quotients, x \in 1 .. n : D[x][q] = Next1(x, q)
  BY <1>5 DEF Rules, SumRule
<1>7. PICK g : Unrolls(n, Quotients, <<0, 1>>, D, g)
  <2> HIDE DEF D
  <2> QED BY <1>4, <1>6, Recursion
<1>8. g \in [0 .. n -> Quotients] /\ g[0] = <<0, 1>> /\ \A x \in 1 .. n : g[x] = Next1(x, g[x - 1])
  <2> HIDE DEF D, Next1
  <2>1. g \in [0 .. n -> Quotients] /\ g[0] = <<0, 1>> /\ \A x \in 1 .. n : g[x] = D[x][g[x - 1]]
    BY <1>7 DEF Unrolls
  <2>2. \A x \in 1 .. n : g[x - 1] \in Quotients
    BY <2>1
  <2> QED BY <1>6, <2>1, <2>2
<1>9. Adds(g)
  <2>1. \A x \in 0 .. n : g[x] = IF x = 0 THEN <<0, 1>> ELSE Next1(x, g[x - 1])
    <3> HIDE DEF Next1
    <3>1. \A x \in 0 .. n : x # 0 => x \in 1 .. n
      OBVIOUS
    <3> QED BY <1>8, <3>1
  <2> HIDE DEF Next1
  <2> QED BY <1>8, <2>1
<1>10. Adds(sum)
  <2> HIDE DEF Adds
  <2> QED BY <1>9
<1>11. SumBelow(part, n) = sum[n]
  BY DEF SumBelow
<1>12. sum[0] = <<0, 1>> /\ \A x \in 1 .. n : sum[x] = Next1(x, sum[x - 1])
  <2> HIDE DEF sum, Next1
  <2>1. \A x \in 0 .. n : sum[x] = IF x = 0 THEN <<0, 1>> ELSE Next1(x, sum[x - 1])
    BY <1>10, Zenon
  <2>2. \A x \in 1 .. n : x # 0 /\ x \in 0 .. n
    OBVIOUS
  <2> QED BY <2>1, <2>2
<1>13. sum[n] = g[n]
  <2> HIDE DEF sum, D, Adds, Next1
  <2>1. Obeys(n, Quotients, <<0, 1>>, D, sum)
    BY <1>6, <1>12 DEF Obeys
  <2>2. \A x \in 0 .. n : sum[x] = g[x]
    <3> DEFINE X == Quotients  v == <<0, 1>>
    <3>1. Unrolls(n, X, v, D, g) /\ Obeys(n, X, v, D, sum)
      BY <1>7, <2>1
    <3> HIDE DEF X, v
    <3> QED BY <3>1, RecursionOnce
  <2> QED BY <2>2
<1> DEFINE good == {x \in 0 .. n : Worth(g[x], f[x], d)}
<1> HIDE DEF sum, D, Adds
<1>14. 0 \in good
  BY <1>2, <1>8 DEF Worth, Quotients
<1>15. ASSUME NEW x \in 0 .. n - 1, x \in good PROVE x + 1 \in good
  <2>1. x + 1 \in 1 .. n /\ x + 1 - 1 = x /\ x + 1 \in 0 .. n
    OBVIOUS
  <2>2. Worth(g[x], f[x], d)
    BY <1>15
  <2>3. f[x + 1] = f[x] + w[x]
    BY <1>3, <2>1
  <2>4. g[x + 1] = Next1(x + 1, g[x])
    <3> HIDE DEF Next1
    <3> QED BY <1>8, <2>1
  <2>5. CASE x \in DOMAIN part
    <3>1. g[x + 1] = Plus(g[x], part[x])
      BY <2>1, <2>4, <2>5
    <3>2. Worth(part[x], w[x], d)
      BY <2>5
    <3>3. Worth(Plus(g[x], part[x]), f[x] + w[x], d)
      BY <2>2, <3>2, WorthPlus
    <3> QED BY <2>1, <2>3, <3>1, <3>3
  <2>6. CASE x \notin DOMAIN part
    <3>1. g[x + 1] = g[x] /\ w[x] = 0 /\ f[x] \in Int
      BY <1>2, <2>1, <2>4, <2>6
    <3> QED BY <2>1, <2>2, <2>3, <3>1
  <2> QED BY <2>5, <2>6
<1>16. n \in good
  <2> HIDE DEF good
  <2>1. \A x \in 0 .. n : x \in good
    BY <1>14, <1>15, Counting
  <2> QED BY <2>1
<1> QED BY <1>2, <1>3, <1>11, <1>13, <1>16
-----------------------------------------------------------------------------
(* Rows, and what became of the forecasts in a range.                      *)

AllRows == EngineRows \cup MarketRows

RowList(s) ==
    /\ Len(s) \in Nat /\ DOMAIN s = 1 .. Len(s)
    /\ \A i \in 1 .. Len(s) : s[i].p \in 0 .. Unit /\ s[i].o \in 0 .. Unit

LEMMA UnitIs == Unit \in Nat /\ Unit > 0 /\ Unit \div 2 \in 0 .. Unit
  BY CalibrationAssumption

LEMMA RowIs == ASSUME NEW r \in AllRows PROVE r.p \in 0 .. Unit /\ r.o \in 0 .. Unit
<1>1. Said \subseteq 0 .. Unit /\ MarketSaid \subseteq 0 .. Unit /\ {0, Unit \div 2, Unit} \subseteq 0 .. Unit
  BY CalibrationAssumption, UnitIs
<1>2. CASE r \in EngineRows
  <2>1. r.p \in Said /\ r.o \in {0, Unit \div 2, Unit}
    BY <1>2 DEF EngineRows
  <2> QED BY <1>1, <2>1
<1>3. CASE r \in MarketRows
  <2>1. r.p \in MarketSaid /\ r.o \in {0, Unit}
    BY <1>3 DEF MarketRows
  <2> QED BY <1>1, <2>1
<1> QED BY <1>2, <1>3 DEF AllRows

LEMMA RowListIs == ASSUME NEW s \in Seq(AllRows) PROVE RowList(s)
<1>1. Len(s) \in Nat /\ DOMAIN s = 1 .. Len(s) /\ \A i \in 1 .. Len(s) : s[i] \in AllRows
  OBVIOUS
<1> QED BY <1>1, RowIs DEF RowList

LEMMA ForecastsAre ==
    ASSUME NEW s, RowList(s)
    PROVE  Forecasts(s) \subseteq 0 .. Unit /\ (s # <<>> => Forecasts(s) # {})
  BY DEF RowList, Forecasts

LEMMA TotalNat == ASSUME NEW N \in Nat, NEW a \in [1 .. N -> Nat] PROVE Total(a) \in Nat
<1> DEFINE b == [i \in 1 .. N |-> 0]
<1>1. a \in [1 .. N -> Int] /\ b \in [1 .. N -> Int] /\ \A i \in 1 .. N : b[i] = 0 /\ b[i] <= a[i]
  OBVIOUS
<1> HIDE DEF b
<1>2. Total(b) = 0 * N
  <2>1. 0 \in Int
    OBVIOUS
  <2> QED BY <1>1, <2>1, TotalSame
<1>3. Total(b) <= Total(a)
  BY <1>1, TotalOrder
<1>4. Total(a) \in Int
  BY <1>1, TotalType
<1> QED BY <1>2, <1>3, <1>4

\* The columns behind HitsIn and CountIn.
HitColumn(s, a, b) == [i \in DOMAIN s |-> IF a <= s[i].p /\ s[i].p <= b THEN s[i].o ELSE 0]
CountColumn(s, a, b) == [i \in DOMAIN s |-> IF a <= s[i].p /\ s[i].p <= b THEN 1 ELSE 0]

LEMMA ColumnsAre ==
    ASSUME NEW s, RowList(s), NEW a \in Int, NEW b \in Int
    PROVE  /\ HitColumn(s, a, b) \in [1 .. Len(s) -> Nat]
           /\ CountColumn(s, a, b) \in [1 .. Len(s) -> Nat]
           /\ HitColumn(s, a, b) \in [1 .. Len(s) -> Int]
           /\ CountColumn(s, a, b) \in [1 .. Len(s) -> Int]
           /\ HitsIn(s, a, b) = Total(HitColumn(s, a, b))
           /\ CountIn(s, a, b) = Total(CountColumn(s, a, b))
           /\ \A i \in 1 .. Len(s) :
                 /\ HitColumn(s, a, b)[i] = IF a <= s[i].p /\ s[i].p <= b THEN s[i].o ELSE 0
                 /\ CountColumn(s, a, b)[i] = IF a <= s[i].p /\ s[i].p <= b THEN 1 ELSE 0
<1>1. HitsIn(s, a, b) = Total(HitColumn(s, a, b)) /\ CountIn(s, a, b) = Total(CountColumn(s, a, b))
  BY DEF HitsIn, CountIn, HitColumn, CountColumn
<1>2. Unit \in Nat
  BY UnitIs
<1>3. \A i \in 1 .. Len(s) : s[i].o \in Nat
  BY <1>2 DEF RowList
<1>4. HitColumn(s, a, b) \in [1 .. Len(s) -> Nat] /\ CountColumn(s, a, b) \in [1 .. Len(s) -> Nat]
  BY <1>3 DEF HitColumn, CountColumn, RowList
<1>5. \A f : f \in [1 .. Len(s) -> Nat] => f \in [1 .. Len(s) -> Int]
  OBVIOUS
<1>6. \A i \in 1 .. Len(s) :
         /\ HitColumn(s, a, b)[i] = IF a <= s[i].p /\ s[i].p <= b THEN s[i].o ELSE 0
         /\ CountColumn(s, a, b)[i] = IF a <= s[i].p /\ s[i].p <= b THEN 1 ELSE 0
  BY DEF HitColumn, CountColumn, RowList
<1> QED BY <1>1, <1>4, <1>5, <1>6

LEMMA RatesAre ==
    ASSUME NEW s, RowList(s), NEW a \in Int, NEW b \in Int
    PROVE  /\ HitsIn(s, a, b) \in Nat /\ CountIn(s, a, b) \in Nat
           /\ HitsIn(s, a, b) <= Unit * CountIn(s, a, b)
<1> DEFINE N == Len(s)  h == HitColumn(s, a, b)  k == CountColumn(s, a, b)
           c == [i \in 1 .. N |-> Unit * k[i]]
<1>1. /\ N \in Nat /\ Unit \in Nat
      /\ h \in [1 .. N -> Nat] /\ k \in [1 .. N -> Nat]
      /\ h \in [1 .. N -> Int] /\ k \in [1 .. N -> Int]
      /\ HitsIn(s, a, b) = Total(h) /\ CountIn(s, a, b) = Total(k)
  BY ColumnsAre, UnitIs DEF RowList
<1>2. \A i \in 1 .. N : h[i] <= Unit * k[i]
  <2> SUFFICES ASSUME NEW i \in 1 .. N PROVE h[i] <= Unit * k[i]
    OBVIOUS
  <2>1. s[i].o \in 0 .. Unit /\ Unit \in Nat
    BY UnitIs DEF RowList
  <2>2. \/ k[i] = 1 /\ h[i] = s[i].o
        \/ k[i] = 0 /\ h[i] = 0
    BY ColumnsAre
  <2> HIDE DEF h, k
  <2> QED BY <2>1, <2>2
<1> HIDE DEF h, k, N
<1>3. c \in [1 .. N -> Int] /\ Mixes(N, c, Unit, k, 0, k) /\ \A i \in 1 .. N : h[i] <= c[i]
  <2>1. \A i \in 1 .. N : k[i] \in Int /\ Unit * k[i] \in Int /\ Unit * k[i] = Unit * k[i] + 0 * k[i]
    BY <1>1
  <2>2. Unit \in Int /\ 0 \in Int
    BY <1>1
  <2> QED BY <1>1, <1>2, <2>1, <2>2 DEF Mixes
<1> HIDE DEF c
<1>4. Total(c) = Unit * Total(k) + 0 * Total(k)
  <2>1. Unit \in Int /\ 0 \in Int
    BY <1>1
  <2> QED BY <1>1, <1>3, <2>1, TotalLinear
<1>7. Total(h) <= Total(c)
  BY <1>1, <1>3, TotalOrder
<1>5. Total(h) \in Nat /\ Total(k) \in Nat
  BY <1>1, TotalNat
<1>6. Unit * Total(k) + 0 * Total(k) = Unit * Total(k)
  BY <1>1, <1>5
<1> QED BY <1>1, <1>4, <1>5, <1>6, <1>7

\* The rows of two adjoining ranges are those of the whole.
LEMMA RatesSplit ==
    ASSUME NEW s, RowList(s), NEW a \in Int, NEW b \in Int, NEW c \in Int, a <= b + 1, b <= c
    PROVE  /\ HitsIn(s, a, c) = HitsIn(s, a, b) + HitsIn(s, b + 1, c)
           /\ CountIn(s, a, c) = CountIn(s, a, b) + CountIn(s, b + 1, c)
<1> DEFINE N == Len(s)
<1>1. N \in Nat /\ b + 1 \in Int /\ 1 \in Int /\ \A i \in 1 .. N : s[i].p \in Int /\ s[i].o \in Int
  BY UnitIs DEF RowList
<1>2. Total(HitColumn(s, a, c)) = 1 * Total(HitColumn(s, a, b)) + 1 * Total(HitColumn(s, b + 1, c))
  <2> DEFINE f == HitColumn(s, a, c)  g == HitColumn(s, a, b)  h == HitColumn(s, b + 1, c)
  <2>1. f \in [1 .. N -> Int] /\ g \in [1 .. N -> Int] /\ h \in [1 .. N -> Int]
    BY <1>1, ColumnsAre
  <2>2. ASSUME NEW i \in 1 .. N PROVE f[i] = 1 * g[i] + 1 * h[i]
    <3>1. /\ f[i] = IF a <= s[i].p /\ s[i].p <= c THEN s[i].o ELSE 0
          /\ g[i] = IF a <= s[i].p /\ s[i].p <= b THEN s[i].o ELSE 0
          /\ h[i] = IF b + 1 <= s[i].p /\ s[i].p <= c THEN s[i].o ELSE 0
      BY <1>1, ColumnsAre
    <3> HIDE DEF f, g, h
    <3> QED BY <1>1, <3>1
  <2>3. Mixes(N, f, 1, g, 1, h)
    BY <1>1, <2>1, <2>2 DEF Mixes
  <2> HIDE DEF f, g, h, N
  <2>4. Total(f) = 1 * Total(g) + 1 * Total(h)
    BY <1>1, <2>1, <2>3, TotalLinear
  <2> QED BY <2>4 DEF f, g, h
<1>3. Total(CountColumn(s, a, c)) = 1 * Total(CountColumn(s, a, b)) + 1 * Total(CountColumn(s, b + 1, c))
  <2> DEFINE f == CountColumn(s, a, c)  g == CountColumn(s, a, b)  h == CountColumn(s, b + 1, c)
  <2>1. f \in [1 .. N -> Int] /\ g \in [1 .. N -> Int] /\ h \in [1 .. N -> Int]
    BY <1>1, ColumnsAre
  <2>2. ASSUME NEW i \in 1 .. N PROVE f[i] = 1 * g[i] + 1 * h[i]
    <3>1. /\ f[i] = IF a <= s[i].p /\ s[i].p <= c THEN 1 ELSE 0
          /\ g[i] = IF a <= s[i].p /\ s[i].p <= b THEN 1 ELSE 0
          /\ h[i] = IF b + 1 <= s[i].p /\ s[i].p <= c THEN 1 ELSE 0
      BY <1>1, ColumnsAre
    <3> HIDE DEF f, g, h
    <3> QED BY <1>1, <3>1
  <2>3. Mixes(N, f, 1, g, 1, h)
    BY <1>1, <2>1, <2>2 DEF Mixes
  <2> HIDE DEF f, g, h, N
  <2>4. Total(f) = 1 * Total(g) + 1 * Total(h)
    BY <1>1, <2>1, <2>3, TotalLinear
  <2> QED BY <2>4 DEF f, g, h
<1>4. /\ HitsIn(s, a, c) = Total(HitColumn(s, a, c)) /\ HitsIn(s, a, b) = Total(HitColumn(s, a, b))
      /\ HitsIn(s, b + 1, c) = Total(HitColumn(s, b + 1, c))
      /\ CountIn(s, a, c) = Total(CountColumn(s, a, c)) /\ CountIn(s, a, b) = Total(CountColumn(s, a, b))
      /\ CountIn(s, b + 1, c) = Total(CountColumn(s, b + 1, c))
  BY <1>1, ColumnsAre
<1>5. /\ HitsIn(s, a, b) \in Nat /\ HitsIn(s, b + 1, c) \in Nat
      /\ CountIn(s, a, b) \in Nat /\ CountIn(s, b + 1, c) \in Nat
  BY <1>1, RatesAre
<1> QED BY <1>2, <1>3, <1>4, <1>5

\* A range without forecasts has no rows, one with a forecast has some.
LEMMA RatesNone ==
    ASSUME NEW s, RowList(s), NEW a \in Int, NEW b \in Int,
           \A x \in Forecasts(s) : ~ (a <= x /\ x <= b)
    PROVE  HitsIn(s, a, b) = 0 /\ CountIn(s, a, b) = 0
<1> DEFINE N == Len(s)  h == HitColumn(s, a, b)  k == CountColumn(s, a, b)
<1>1. N \in Nat /\ h \in [1 .. N -> Int] /\ k \in [1 .. N -> Int]
  BY ColumnsAre DEF RowList
<1>2. ASSUME NEW i \in 1 .. N PROVE h[i] = 0 /\ k[i] = 0
  <2>1. s[i].p \in Forecasts(s)
    BY DEF Forecasts, RowList
  <2>2. ~ (a <= s[i].p /\ s[i].p <= b)
    BY <2>1
  <2> QED BY <2>2, ColumnsAre
<1>3. HitsIn(s, a, b) = Total(h) /\ CountIn(s, a, b) = Total(k)
  BY ColumnsAre
<1> HIDE DEF h, k, N
<1>4. 0 \in Int
  OBVIOUS
<1>5. Total(h) = 0 * N /\ Total(k) = 0 * N
  BY <1>1, <1>2, <1>4, TotalSame
<1> QED BY <1>1, <1>3, <1>5

LEMMA RatesSome ==
    ASSUME NEW s, RowList(s), NEW a \in Int, NEW b \in Int,
           NEW x \in Forecasts(s), a <= x, x <= b
    PROVE  CountIn(s, a, b) > 0
<1> DEFINE N == Len(s)  k == CountColumn(s, a, b)
<1>1. N \in Nat /\ k \in [1 .. N -> Nat] /\ CountIn(s, a, b) = Total(k)
  BY ColumnsAre DEF RowList
<1>2. PICK i \in 1 .. N : s[i].p = x
  BY DEF Forecasts, RowList
<1>3. k[i] = 1
  BY <1>2, ColumnsAre
<1> HIDE DEF k, N
<1>4. k[i] <= Total(k) /\ Total(k) \in Nat
  BY <1>1, TotalSome, TotalNat
<1> QED BY <1>1, <1>3, <1>4

\* A sum over rows is the sum over forecasts of what the rows of each add up to.
ByForecast(s, f, u, v) == \A i \in 1 .. Len(s) : f[i] = u[s[i].p] + v[s[i].p] * s[i].o
BelowColumn(s, f, x) == [i \in 1 .. Len(s) |-> IF s[i].p < x THEN f[i] ELSE 0]
AtColumn(s, f, x) == [i \in 1 .. Len(s) |-> IF s[i].p = x THEN f[i] ELSE 0]

LEMMA RowsByForecast ==
    ASSUME NEW s, RowList(s), NEW f \in [1 .. Len(s) -> Int], NEW u \in [0 .. Unit -> Int],
           NEW v \in [0 .. Unit -> Int], ByForecast(s, f, u, v)
    PROVE  \E g \in [0 .. Unit + 1 -> Int] :
              /\ g[0] = 0 /\ Total(f) = g[Unit + 1]
              /\ \A x \in 0 .. Unit :
                    g[x + 1] = g[x] + (u[x] * CountIn(s, x, x) + v[x] * HitsIn(s, x, x))
<1> DEFINE N == Len(s)  g == [x \in 0 .. Unit + 1 |-> Total(BelowColumn(s, f, x))]
<1>1. N \in Nat /\ Unit \in Nat /\ \A i \in 1 .. N : s[i].p \in 0 .. Unit /\ s[i].o \in Int
  BY UnitIs DEF RowList
<1>2. \A x \in Int : BelowColumn(s, f, x) \in [1 .. N -> Int] /\ AtColumn(s, f, x) \in [1 .. N -> Int]
  BY <1>1 DEF BelowColumn, AtColumn
<1>3. g \in [0 .. Unit + 1 -> Int]
  <2>1. ASSUME NEW x \in 0 .. Unit + 1 PROVE Total(BelowColumn(s, f, x)) \in Int
    <3>1. BelowColumn(s, f, x) \in [1 .. N -> Int]
      BY <1>2
    <3> HIDE DEF N
    <3> QED BY <1>1, <3>1, TotalType
  <2> QED BY <2>1
<1>4. g[0] = 0
  <2> DEFINE b == BelowColumn(s, f, 0)
  <2>1. b \in [1 .. N -> Int] /\ 0 \in Int
    BY <1>2
  <2>2. \A i \in 1 .. N : b[i] = 0
    BY <1>1 DEF BelowColumn
  <2>3. g[0] = Total(b)
    BY <1>1
  <2> HIDE DEF b, g, N
  <2>4. Total(b) = 0 * N
    BY <1>1, <2>1, <2>2, TotalSame
  <2> QED BY <1>1, <2>3, <2>4
<1>5. Total(f) = g[Unit + 1]
  <2>1. \A i \in 1 .. N : BelowColumn(s, f, Unit + 1)[i] = f[i]
    BY <1>1 DEF BelowColumn
  <2>2. BelowColumn(s, f, Unit + 1) = f
    BY <1>1, <1>2, <2>1
  <2> QED BY <1>1, <2>2
<1>6. ASSUME NEW x \in 0 .. Unit
      PROVE  g[x + 1] = g[x] + (u[x] * CountIn(s, x, x) + v[x] * HitsIn(s, x, x))
  <2> DEFINE b == BelowColumn(s, f, x)  c == BelowColumn(s, f, x + 1)  a == AtColumn(s, f, x)
             k == CountColumn(s, x, x)  h == HitColumn(s, x, x)  p == u[x]  q == v[x]
  <2>1. x \in Int /\ x + 1 \in Int /\ p \in Int /\ q \in Int /\ 1 \in Int
    BY <1>1
  <2>2. /\ a \in [1 .. N -> Int] /\ b \in [1 .. N -> Int] /\ c \in [1 .. N -> Int]
        /\ k \in [1 .. N -> Int] /\ h \in [1 .. N -> Int]
    BY <1>2, <2>1, ColumnsAre
  <2>3. Mixes(N, c, 1, b, 1, a)
    <3> SUFFICES ASSUME NEW i \in 1 .. N PROVE c[i] = 1 * b[i] + 1 * a[i]
      BY <2>1, <2>2 DEF Mixes
    <3>1. /\ c[i] = IF s[i].p < x + 1 THEN f[i] ELSE 0
          /\ b[i] = IF s[i].p < x THEN f[i] ELSE 0
          /\ a[i] = IF s[i].p = x THEN f[i] ELSE 0
      BY DEF BelowColumn, AtColumn
    <3>2. s[i].p \in Int /\ f[i] \in Int
      BY <1>1
    <3> HIDE DEF a, b, c
    <3> QED BY <2>1, <3>1, <3>2
  <2>4. Mixes(N, a, p, k, q, h)
    <3> SUFFICES ASSUME NEW i \in 1 .. N PROVE a[i] = p * k[i] + q * h[i]
      BY <2>1, <2>2 DEF Mixes
    <3>1. /\ a[i] = IF s[i].p = x THEN f[i] ELSE 0
          /\ k[i] = IF x <= s[i].p /\ s[i].p <= x THEN 1 ELSE 0
          /\ h[i] = IF x <= s[i].p /\ s[i].p <= x THEN s[i].o ELSE 0
      BY <2>1, ColumnsAre DEF AtColumn
    <3>2. s[i].p \in Int /\ s[i].o \in Int
      BY <1>1
    <3>3. f[i] = u[s[i].p] + v[s[i].p] * s[i].o
      BY DEF ByForecast
    <3>4. s[i].p = x => f[i] = p + q * s[i].o
      BY <3>3
    <3> DEFINE ai == a[i]  ki == k[i]  hi == h[i]  fi == f[i]  pi == s[i].p  oi == s[i].o
    <3>5. /\ ai = IF pi = x THEN fi ELSE 0
          /\ ki = IF x <= pi /\ pi <= x THEN 1 ELSE 0
          /\ hi = IF x <= pi /\ pi <= x THEN oi ELSE 0
      BY <3>1
    <3>7. pi = x => fi = p + q * oi
      BY <3>4
    <3>8. pi \in Int /\ oi \in Int
      BY <3>2
    <3> HIDE DEF p, q, ai, ki, hi, fi, pi, oi
    <3>6. ai = p * ki + q * hi
      <4>1. CASE pi = x
        <5>1. ai = p + q * oi /\ ki = 1 /\ hi = oi
          BY <2>1, <3>5, <3>7, <3>8, <4>1
        <5> QED BY <2>1, <5>1
      <4>2. CASE pi # x
        <5>1. ai = 0 /\ ki = 0 /\ hi = 0
          BY <2>1, <3>5, <3>8, <4>2
        <5> QED BY <2>1, <5>1
      <4> QED BY <4>1, <4>2
    <3> QED BY <3>6 DEF ai, ki, hi
  <2>5. g[x + 1] = Total(c) /\ g[x] = Total(b) /\ CountIn(s, x, x) = Total(k) /\ HitsIn(s, x, x) = Total(h)
    BY <1>1, <2>1, ColumnsAre
  <2> HIDE DEF a, b, c, k, h, p, q, g, N
  <2>0. N \in Nat
    BY <1>1
  <2>6. Total(c) = 1 * Total(b) + 1 * Total(a)
    BY <2>0, <2>3, TotalLinear
  <2>7. Total(a) = p * Total(k) + q * Total(h)
    BY <2>0, <2>4, TotalLinear
  <2>8. Total(a) \in Int /\ Total(b) \in Int
    BY <1>1, <2>2, TotalType
  <2>9. Total(c) = Total(b) + (p * Total(k) + q * Total(h))
    BY <2>6, <2>7, <2>8
  <2> QED BY <2>5, <2>9 DEF p, q
<1> HIDE DEF g
<1> QED BY <1>3, <1>4, <1>5, <1>6
-----------------------------------------------------------------------------
(* Skill: the scoreboard's number and the backtest's verdict.              *)

ErrorColumn(s) == [i \in DOMAIN s |-> (s[i].p - s[i].o) * (s[i].p - s[i].o)]
OutcomeColumn(s) == [i \in DOMAIN s |-> s[i].o]
SquareColumn(s) == [i \in DOMAIN s |-> s[i].o * s[i].o]
OneColumn(s) == [i \in DOMAIN s |-> 1]
Squares(s) == Total(SquareColumn(s))

LEMMA SumsAre ==
    ASSUME NEW s, RowList(s)
    PROVE  /\ ErrorColumn(s) \in [1 .. Len(s) -> Int] /\ OutcomeColumn(s) \in [1 .. Len(s) -> Int]
           /\ SquareColumn(s) \in [1 .. Len(s) -> Int] /\ OneColumn(s) \in [1 .. Len(s) -> Int]
           /\ SquaredError(s) = Total(ErrorColumn(s)) /\ Hits(s) = Total(OutcomeColumn(s))
           /\ Total(OneColumn(s)) = Len(s)
           /\ SquaredError(s) \in Nat /\ Hits(s) \in Nat /\ Squares(s) \in Int
           /\ ReferenceError(s) = Len(s) * Squares(s) - Hits(s) * Hits(s)
<1> DEFINE N == Len(s)
<1>1. N \in Nat /\ DOMAIN s = 1 .. N /\ \A i \in 1 .. N : s[i].p \in Int /\ s[i].o \in Nat
  BY UnitIs DEF RowList
<1>2. \A p, o \in Int : (p - o) * (p - o) \in Nat /\ o * o \in Int
  <2>1. \A d \in Int : d * d \in Nat
    OBVIOUS
  <2> QED BY <2>1
<1>3. ErrorColumn(s) \in [1 .. N -> Nat] /\ OutcomeColumn(s) \in [1 .. N -> Nat]
  <2>1. ErrorColumn(s) \in [1 .. N -> Nat]
    <3>1. \A i \in 1 .. N : s[i].p \in Int /\ s[i].o \in Int
      BY <1>1
    <3>2. \A i \in DOMAIN s : (s[i].p - s[i].o) * (s[i].p - s[i].o) \in Nat
      BY <1>1, <1>2, <3>1, Zenon
    <3> QED BY <1>1, <3>2, Zenon DEF ErrorColumn
  <2>2. OutcomeColumn(s) \in [1 .. N -> Nat]
    BY <1>1, SMTT(20) DEF OutcomeColumn
  <2> QED BY <2>1, <2>2
<1>4. SquareColumn(s) \in [1 .. N -> Int] /\ OneColumn(s) \in [1 .. N -> Int]
  BY <1>1, <1>2 DEF SquareColumn, OneColumn
<1>5. \A f : f \in [1 .. N -> Nat] => f \in [1 .. N -> Int]
  OBVIOUS
<1>6. SquaredError(s) = Total(ErrorColumn(s)) /\ Hits(s) = Total(OutcomeColumn(s))
  BY DEF SquaredError, Hits, ErrorColumn, OutcomeColumn
<1>7. ReferenceError(s) = N * Squares(s) - Hits(s) * Hits(s)
  BY DEF ReferenceError, Squares, SquareColumn, Count
<1>8. \A i \in 1 .. N : OneColumn(s)[i] = 1
  BY <1>1 DEF OneColumn
<1> HIDE DEF N
<1>9. Total(OneColumn(s)) = 1 * N
  <2>1. 1 \in Int
    OBVIOUS
  <2> QED BY <1>1, <1>4, <1>8, <2>1, TotalSame
<1>10. Total(ErrorColumn(s)) \in Nat
  BY <1>1, <1>3, TotalNat
<1>11. Total(OutcomeColumn(s)) \in Nat
  BY <1>1, <1>3, TotalNat
<1>12. Squares(s) \in Int
  BY <1>1, <1>4, TotalType DEF Squares
<1>13. ErrorColumn(s) \in [1 .. N -> Int] /\ OutcomeColumn(s) \in [1 .. N -> Int]
  BY <1>3, <1>5
<1>14. Total(OneColumn(s)) = N
  BY <1>1, <1>9
<1> QED BY <1>4, <1>6, <1>7, <1>10, <1>11, <1>12, <1>13, <1>14 DEF N

\* The base rate's squared error is a sum of squares.
LEMMA ReferenceIsNatural == ASSUME NEW s, RowList(s), s # <<>> PROVE ReferenceError(s) \in Nat /\ Len(s) > 0
<1> DEFINE N == Len(s)  H == Hits(s)  Q == Squares(s)
           o == OutcomeColumn(s)  q == SquareColumn(s)  one == OneColumn(s)
           x == -2 * (N * H)  y == H * H  w == N * N
           c == Mix(N, x, o, y, one)  d == Mix(N, w, q, 1, c)
<1>1. /\ N \in Nat /\ o \in [1 .. N -> Int] /\ q \in [1 .. N -> Int] /\ one \in [1 .. N -> Int]
      /\ H \in Nat /\ Q \in Int /\ H = Total(o) /\ Q = Total(q) /\ Total(one) = N
      /\ ReferenceError(s) = N * Q - H * H
  BY SumsAre DEF RowList, Squares
<1>2. N > 0
  BY DEF RowList
<1>3. \A i \in 1 .. N : q[i] = o[i] * o[i] /\ one[i] = 1
  BY DEF RowList, SquareColumn, OutcomeColumn, OneColumn
<1> HIDE DEF N, H, Q, o, q, one
<1>0. N \in Int /\ H \in Int /\ Q \in Int
  BY <1>1
<1>4. x \in Int /\ y \in Int /\ w \in Int /\ 1 \in Int
  BY <1>0
<1>5. x * H + y * N = -(N * (H * H))
  BY <1>0
<1>6. \A z \in Int : w * (z * z) + 1 * (x * z + y * 1) = (N * z - H) * (N * z - H)
  BY <1>0
<1>7. w * Q + 1 * (-(N * (H * H))) = N * (N * Q - H * H)
  BY <1>0
<1> HIDE DEF x, y, w
<1>15. Column(N, o) /\ Column(N, q) /\ Column(N, one)
  BY <1>1 DEF Column
<1>8. /\ Column(N, c) /\ Total(c) = x * H + y * N
      /\ \A i \in 1 .. N : c[i] = x * o[i] + y * one[i]
  <2>1. /\ Column(N, c) /\ Total(c) = x * Total(o) + y * Total(one)
        /\ \A i \in 1 .. N : c[i] = x * o[i] + y * one[i]
    BY <1>15, <1>4, MixTotal
  <2> QED BY <1>1, <2>1
<1> HIDE DEF c
<1>16. Column(N, c)
  BY <1>8
<1>9. /\ Column(N, d) /\ Total(d) = w * Total(q) + 1 * Total(c)
      /\ \A i \in 1 .. N : d[i] = w * q[i] + 1 * c[i]
  BY <1>15, <1>4, <1>16, MixTotal
<1> HIDE DEF d
<1>10. d \in [1 .. N -> Nat]
  <2>1. ASSUME NEW i \in 1 .. N PROVE d[i] \in Nat
    <3> DEFINE z == o[i]
    <3>1. z \in Int
      BY <1>1
    <3>2. d[i] = w * (z * z) + 1 * (x * z + y * 1)
      BY <1>3, <1>8, <1>9
    <3> HIDE DEF z
    <3>3. d[i] = (N * z - H) * (N * z - H)
      BY <1>6, <3>1, <3>2
    <3>4. N * z - H \in Int
      BY <1>0, <3>1
    <3>5. \A e \in Int : e * e \in Nat
      OBVIOUS
    <3> QED BY <3>3, <3>4, <3>5
  <2>2. d \in [1 .. N -> Int]
    BY <1>9 DEF Column
  <2> QED BY <2>1, <2>2
<1>11. Total(d) \in Nat
  BY <1>1, <1>10, TotalNat
<1>12. Total(d) = N * (N * Q - H * H)
  BY <1>1, <1>5, <1>7, <1>8, <1>9
<1> DEFINE r == N * Q - H * H
<1>13. r \in Int /\ N * r \in Nat
  BY <1>1, <1>11, <1>12
<1> HIDE DEF r
<1>14. r >= 0
  <2> SUFFICES ASSUME r < 0 PROVE FALSE
    BY <1>13
  <2>1. N * r < 0
    BY <1>1, <1>2, <1>13
  <2> QED BY <1>13, <2>1
<1> QED BY <1>1, <1>2, <1>13, <1>14 DEF r, N

\* scripts/backtest_cpe.py, report(): the model beats the base rate exactly if
\* brier_skill_score() has a skill and it is positive.
LEMMA SkillIsTheVerdict ==
    ASSUME NEW s, RowList(s), s # <<>>
    PROVE  /\ BeatsBaseRate(s) <=> BrierSkill(s) # NoSkill /\ BrierSkill(s)[1] > 0
           /\ BrierSkill(s) # NoSkill => /\ ReferenceError(s) > 0
                /\ Worth(BrierSkill(s), ReferenceError(s) - Len(s) * SquaredError(s), ReferenceError(s))
<1> DEFINE r == ReferenceError(s)  m == Len(s) * SquaredError(s)  b == BrierSkill(s)
<1>1. r \in Nat /\ m \in Nat
  <2>1. SquaredError(s) \in Nat /\ Len(s) \in Nat
    BY SumsAre DEF RowList
  <2> QED BY <2>1, ReferenceIsNatural
<1>2. BeatsBaseRate(s) <=> m < r
  BY DEF BeatsBaseRate, Count
<1>3. CASE r = 0
  <2>1. b = NoSkill
    BY <1>3 DEF BrierSkill
  <2> QED BY <1>1, <1>2, <1>3, <2>1
<1>4. CASE r # 0
  <2>1. b = Quot(r - m, r)
    BY <1>4 DEF BrierSkill, Count
  <2> HIDE DEF r, m, b
  <2>2. Worth(b, r - m, r) /\ r > 0
    BY <1>1, <1>4, <2>1, QuotWorth
  <2>3. b \in Quotients /\ b[1] \in Int /\ b[2] \in Int /\ b[2] > 0 /\ b[1] * r = (r - m) * b[2]
    BY <2>2 DEF Worth, Quotients
  <2>4. b # NoSkill
    BY <2>3, CalibrationAssumption DEF Quotients
  <2> DEFINE n == b[1]  t == b[2]
  <2>5. n > 0 <=> r - m > 0
    <3>1. n \in Int /\ t \in Int /\ t > 0 /\ n * r = (r - m) * t
      BY <2>3
    <3> HIDE DEF n, t
    <3> QED BY <1>1, <2>2, <3>1
  <2>6. m < r <=> r - m > 0
    BY <1>1
  <2> QED BY <1>2, <2>2, <2>4, <2>5, <2>6 DEF r, m, b
<1> QED BY <1>3, <1>4

\* The algebra of one forecast's part in reliability and resolution, and of one row's.
LEMMA PartAlgebra ==
    ASSUME NEW N \in Int, NEW x \in Int, NEW k \in Int, NEW h \in Int, NEW H \in Int, NEW c \in Int
    PROVE  (k * x - h) * (k * x - h) * (c * (N * N)) - (N * h - k * H) * (N * h - k * H) * c
             = (c * k) * (((N * N) * (x * x) - H * H) * k + (2 * (N * H) - 2 * ((N * N) * x)) * h)
<1> DEFINE e == k * x  f == N * h  g == k * H  m == N * e  n == N * N
<1>1. e \in Int /\ f \in Int /\ g \in Int /\ m \in Int /\ n \in Int
  OBVIOUS
<1>2. (e - h) * (e - h) * n = m * m - 2 * (m * f) + f * f
  <2>1. (e - h) * (e - h) * (N * N) = (N * e - N * h) * (N * e - N * h)
    <3> HIDE DEF e
    <3> QED BY <1>1
  <2> DEFINE a == N * e  b == N * h
  <2>2. a \in Int /\ b \in Int
    BY <1>1
  <2> HIDE DEF a, b
  <2>3. (a - b) * (a - b) = a * a - 2 * (a * b) + b * b
    BY <2>2
  <2> QED BY <2>1, <2>3 DEF a, b
<1>3. (f - g) * (f - g) = f * f - 2 * (f * g) + g * g
  <2> HIDE DEF f, g
  <2> QED BY <1>1
<1>4. (m * m - 2 * (m * f) + f * f) - (f * f - 2 * (f * g) + g * g)
        = m * m - 2 * (m * f) + 2 * (f * g) - g * g
  <2> DEFINE p == m * m  q == m * f  r == f * f  t == f * g  u == g * g
  <2>1. p \in Int /\ q \in Int /\ r \in Int /\ t \in Int /\ u \in Int
    BY <1>1
  <2> HIDE DEF p, q, r, t, u
  <2>2. (p - 2 * q + r) - (r - 2 * t + u) = p - 2 * q + 2 * t - u
    BY <2>1
  <2> QED BY <2>2 DEF p, q, r, t, u
<1>5. m * m - 2 * (m * f) + 2 * (f * g) - g * g
        = k * ((n * (x * x) - H * H) * k + (2 * (N * H) - 2 * (n * x)) * h)
  <2>1. /\ m * m = k * ((n * (x * x)) * k) /\ m * f = k * ((n * x) * h)
        /\ f * g = k * ((N * H) * h) /\ g * g = k * ((H * H) * k)
    OBVIOUS
  <2> DEFINE p == (n * (x * x)) * k  q == (n * x) * h  r == (N * H) * h  t == (H * H) * k
  <2>2. p \in Int /\ q \in Int /\ r \in Int /\ t \in Int
    BY <1>1
  <2>3. (n * (x * x) - H * H) * k + (2 * (N * H) - 2 * (n * x)) * h = p - t + (2 * r - 2 * q)
    <3> DEFINE a == n * (x * x)  b == H * H  d == N * H  w == n * x
    <3>1. a \in Int /\ b \in Int /\ d \in Int /\ w \in Int
      BY <1>1
    <3> HIDE DEF a, b, d, w
    <3>2. (a - b) * k + (2 * d - 2 * w) * h = a * k - b * k + (2 * (d * h) - 2 * (w * h))
      BY <3>1
    <3> QED BY <3>2 DEF a, b, d, w
  <2> HIDE DEF p, q, r, t
  <2>4. k * p - 2 * (k * q) + 2 * (k * r) - k * t = k * (p - t + (2 * r - 2 * q))
    BY <2>2
  <2> QED BY <2>1, <2>3, <2>4 DEF p, q, r, t
<1> DEFINE big == k * ((n * (x * x) - H * H) * k + (2 * (N * H) - 2 * (n * x)) * h)
           one == (e - h) * (e - h)  two == (f - g) * (f - g)
<1>6. one * n - two = big
  BY <1>2, <1>3, <1>4, <1>5
<1>7. one \in Int /\ two \in Int
  <2> HIDE DEF e, f, g
  <2> QED BY <1>1
<1> DEFINE rest == (n * (x * x) - H * H) * k + (2 * (N * H) - 2 * (n * x)) * h
<1>8. rest \in Int
  <2> HIDE DEF n
  <2> QED BY <1>1
<1>9. big = k * rest
  OBVIOUS
<1> HIDE DEF one, two, n, rest, big
<1>10. one * (c * n) - two * c = c * (one * n - two)
  BY <1>1, <1>7
<1>11. c * (k * rest) = (c * k) * rest
  BY <1>8
<1>12. one * (c * n) - two * c = (c * k) * rest
  BY <1>6, <1>9, <1>10, <1>11
<1> QED BY <1>12 DEF one, two, n, rest

LEMMA RowAlgebra ==
    ASSUME NEW n \in Int, NEW m \in Int, NEW y \in Int, NEW p \in Int, NEW o \in Int
    PROVE  (n * (p * p) - y) + (2 * m - 2 * (n * p)) * o
             = n * ((p - o) * (p - o)) + 1 * ((-n) * (o * o) + 1 * ((2 * m) * o + (-y) * 1))
<1>1. (p - o) * (p - o) = p * p - 2 * (p * o) + o * o
  OBVIOUS
<1> DEFINE a == p * p  b == p * o  c == o * o  d == n * a  e == n * b  f == n * c  g == m * o
<1>2. a \in Int /\ b \in Int /\ c \in Int /\ d \in Int /\ e \in Int /\ f \in Int /\ g \in Int
  OBVIOUS
<1>3. (2 * m - 2 * (n * p)) * o = 2 * g - 2 * e
  OBVIOUS
<1>4. n * (a - 2 * b + c) = d - 2 * e + f /\ (-n) * c = -f
  <2> HIDE DEF a, b, c
  <2> QED BY <1>2
<1>5. (2 * m) * o = 2 * g
  OBVIOUS
<1>6. (d - y) + (2 * g - 2 * e) = (d - 2 * e + f) + 1 * (-f + 1 * (2 * g + (-y) * 1))
  <2> HIDE DEF d, e, f, g
  <2> QED BY <1>2
<1> QED BY <1>1, <1>3, <1>4, <1>5, <1>6

Gap(s, x) == CountIn(s, x, x) * x - HitsIn(s, x, x)
Spread(s, x) == Len(s) * HitsIn(s, x, x) - CountIn(s, x, x) * Hits(s)

\* The rows' side of Murphy's identity, as one column and its sum.
MurphyColumn(s) ==
    LET N == Len(s)  H == Hits(s)
    IN  Mix(N, N * N, ErrorColumn(s), 1,
            Mix(N, -(N * N), SquareColumn(s), 1,
                Mix(N, 2 * (N * H), OutcomeColumn(s), -(H * H), OneColumn(s))))
MurphySum(s) ==
    (Len(s) * Len(s)) * SquaredError(s) - (Len(s) * Len(s)) * Squares(s) + Len(s) * (Hits(s) * Hits(s))

LEMMA MurphyColumnIs ==
    ASSUME NEW s, RowList(s)
    PROVE  /\ MurphyColumn(s) \in [1 .. Len(s) -> Int]
           /\ Total(MurphyColumn(s)) = MurphySum(s) /\ MurphySum(s) \in Int
           /\ \A i \in 1 .. Len(s) :
                 MurphyColumn(s)[i] =
                   ((Len(s) * Len(s)) * (s[i].p * s[i].p) - Hits(s) * Hits(s))
                   + (2 * (Len(s) * Hits(s)) - 2 * ((Len(s) * Len(s)) * s[i].p)) * s[i].o
<1> DEFINE N == Len(s)  H == Hits(s)  E == SquaredError(s)  Q == Squares(s)
           n == N * N  m == N * H  y == H * H
           err == ErrorColumn(s)  sq == SquareColumn(s)  o == OutcomeColumn(s)  one == OneColumn(s)
           a == Mix(N, 2 * m, o, -y, one)  b == Mix(N, -n, sq, 1, a)  f == Mix(N, n, err, 1, b)
<1>1. Column(N, err) /\ Column(N, sq) /\ Column(N, o) /\ Column(N, one)
  BY SumsAre DEF Column, RowList
<1>2. /\ Total(err) = E /\ Total(sq) = Q /\ Total(o) = H /\ Total(one) = N
      /\ N \in Int /\ E \in Int /\ H \in Int /\ Q \in Int
  BY SumsAre DEF Squares, RowList
<1>3. \A i \in 1 .. N : /\ err[i] = (s[i].p - s[i].o) * (s[i].p - s[i].o) /\ sq[i] = s[i].o * s[i].o
                        /\ o[i] = s[i].o /\ one[i] = 1 /\ s[i].p \in Int /\ s[i].o \in Int
  BY DEF RowList, ErrorColumn, SquareColumn, OutcomeColumn, OneColumn
<1>4. MurphyColumn(s) = f /\ MurphySum(s) = n * E - n * Q + N * (H * H)
  BY DEF MurphyColumn, MurphySum
<1> HIDE DEF N, H, E, Q, err, sq, o, one
<1>5. n \in Int /\ m \in Int /\ y \in Int /\ 1 \in Int
  <2>1. N \in Int /\ H \in Int
    BY <1>2
  <2> QED BY <2>1
<1>6. N * (H * H) = (2 * m) * H + (-y) * N
  <2>1. N \in Int /\ H \in Int
    BY <1>2
  <2> QED BY <2>1
<1> HIDE DEF n, m, y
<1>7. 2 * m \in Int /\ -y \in Int /\ -n \in Int
  BY <1>5
<1>8. /\ Column(N, a) /\ Total(a) = (2 * m) * Total(o) + (-y) * Total(one)
      /\ \A i \in 1 .. N : a[i] = (2 * m) * o[i] + (-y) * one[i]
  <2> DEFINE u == 2 * m  v == -y
  <2>1. u \in Int /\ v \in Int
    BY <1>7
  <2> HIDE DEF u, v
  <2>2. /\ Column(N, Mix(N, u, o, v, one)) /\ Total(Mix(N, u, o, v, one)) = u * Total(o) + v * Total(one)
        /\ \A i \in 1 .. N : Mix(N, u, o, v, one)[i] = u * o[i] + v * one[i]
    BY <1>1, <2>1, MixTotal
  <2> QED BY <2>2 DEF u, v
<1> HIDE DEF a
<1>9. Column(N, a)
  BY <1>8
<1>10. /\ Column(N, b) /\ Total(b) = (-n) * Total(sq) + 1 * Total(a)
       /\ \A i \in 1 .. N : b[i] = (-n) * sq[i] + 1 * a[i]
  <2> DEFINE u == -n
  <2>1. u \in Int
    BY <1>7
  <2> HIDE DEF u
  <2>2. /\ Column(N, Mix(N, u, sq, 1, a)) /\ Total(Mix(N, u, sq, 1, a)) = u * Total(sq) + 1 * Total(a)
        /\ \A i \in 1 .. N : Mix(N, u, sq, 1, a)[i] = u * sq[i] + 1 * a[i]
    BY <1>1, <1>5, <1>9, <2>1, MixTotal
  <2> QED BY <2>2 DEF u
<1> HIDE DEF b
<1>11. Column(N, b)
  BY <1>10
<1>12. /\ Column(N, f) /\ Total(f) = n * Total(err) + 1 * Total(b)
       /\ \A i \in 1 .. N : f[i] = n * err[i] + 1 * b[i]
  BY <1>1, <1>5, <1>11, MixTotal
<1> HIDE DEF f
<1>13. ASSUME NEW i \in 1 .. N
       PROVE  f[i] = (n * (s[i].p * s[i].p) - y) + (2 * m - 2 * (n * s[i].p)) * s[i].o
  <2> DEFINE p == s[i].p  r == s[i].o
  <2>1. f[i] = n * ((p - r) * (p - r)) + 1 * ((-n) * (r * r) + 1 * ((2 * m) * r + (-y) * 1))
    BY <1>3, <1>8, <1>10, <1>12, Zenon
  <2>2. p \in Int /\ r \in Int
    BY <1>3
  <2> HIDE DEF p, r
  <2>3. (n * (p * p) - y) + (2 * m - 2 * (n * p)) * r
          = n * ((p - r) * (p - r)) + 1 * ((-n) * (r * r) + 1 * ((2 * m) * r + (-y) * 1))
    BY <1>5, <2>2, RowAlgebra
  <2> QED BY <2>1, <2>3 DEF p, r
<1>14. Total(f) = n * E - n * Q + N * (H * H)
  <2> DEFINE x == (2 * m) * H  z == (-y) * N  c == n * E  d == n * Q
  <2>1. Total(f) = n * E + 1 * ((-n) * Q + 1 * (x + z))
    BY <1>2, <1>8, <1>10, <1>12
  <2>2. (-n) * Q = -d
    BY <1>2, <1>5
  <2>3. x \in Int /\ z \in Int /\ c \in Int /\ d \in Int
    BY <1>2, <1>5
  <2>4. Total(f) = c + 1 * (-d + 1 * (x + z)) /\ N * (H * H) = x + z
    BY <1>6, <2>1, <2>2
  <2> HIDE DEF x, z, c, d
  <2>5. Total(f) = c - d + N * (H * H)
    BY <2>3, <2>4
  <2> QED BY <2>5 DEF c, d
<1>15. f \in [1 .. N -> Int] /\ N \in Nat
  BY <1>12 DEF Column
<1>16. Total(f) \in Int
  BY <1>15, TotalType
<1> QED BY <1>4, <1>13, <1>14, <1>15, <1>16 DEF n, m, y, N, H, E, Q

\* One forecast's part in the two sums, over a denominator all parts share.
ReliabilityParts(s) ==
    [p \in Forecasts(s) |->
        LET k == CountIn(s, p, p)  gap == k * p - HitsIn(s, p, p)
        IN  Quot(gap * gap, k * Count(s))]
ResolutionParts(s) ==
    [p \in Forecasts(s) |->
        LET k == CountIn(s, p, p)
            spread == Count(s) * HitsIn(s, p, p) - k * Hits(s)
        IN  Quot(spread * spread, k * Count(s) * Count(s) * Count(s))]
Cube(n) == n * (n * n)

LEMMA CubeAlgebra ==
    ASSUME NEW k \in Int, NEW n \in Int, NEW c \in Int
    PROVE  (k * n) * (c * (n * n)) = (c * k) * Cube(n) /\ (((k * n) * n) * n) * c = (c * k) * Cube(n)
  BY DEF Cube

LEMMA PartsAre ==
    ASSUME NEW s, RowList(s), s # <<>>, NEW x \in Forecasts(s),
           NEW c \in Nat \ {0}, NEW L \in Nat \ {0}, L = c * CountIn(s, x, x)
    PROVE  /\ Worth(ReliabilityParts(s)[x], Gap(s, x) * Gap(s, x) * (c * (Len(s) * Len(s))), L * Cube(Len(s)))
           /\ Worth(ResolutionParts(s)[x], Spread(s, x) * Spread(s, x) * c, L * Cube(Len(s)))
<1> DEFINE N == Len(s)  k == CountIn(s, x, x)  h == HitsIn(s, x, x)  H == Hits(s)
           g == (k * x - h) * (k * x - h)  p == (N * h - k * H) * (N * h - k * H)
           r == ReliabilityParts(s)[x]  t == ResolutionParts(s)[x]
<1>0. x \in 0 .. Unit
  BY ForecastsAre
<1>1. N \in Nat \ {0} /\ x \in Int
  <2>1. N \in Nat /\ N > 0
    BY ReferenceIsNatural DEF RowList
  <2> QED BY <1>0, <2>1
<1>2. k \in Nat \ {0} /\ h \in Nat
  <2>1. x <= x
    BY <1>1
  <2>2. k > 0
    BY <1>1, <2>1, RatesSome
  <2> QED BY <1>1, <2>2, RatesAre
<1>3. H \in Nat
  BY SumsAre
<1>4. r = Quot(g, k * N) /\ t = Quot(p, ((k * N) * N) * N)
  BY DEF ReliabilityParts, ResolutionParts, Count
<1>5. Gap(s, x) * Gap(s, x) = g /\ Spread(s, x) * Spread(s, x) = p /\ L = c * k
  BY DEF Gap, Spread
<1> HIDE DEF N, k, h, H, r, t
<1>6. g \in Int /\ p \in Int
  <2> DEFINE e == k * x - h  f == N * h - k * H
  <2>1. e \in Int /\ f \in Int
    BY <1>1, <1>2, <1>3
  <2>2. \A z \in Int : z * z \in Int
    OBVIOUS
  <2> HIDE DEF e, f
  <2>3. e * e \in Int /\ f * f \in Int
    BY <2>1, <2>2
  <2> QED BY <2>3 DEF e, f
<1> HIDE DEF g, p
<1>7. k * N \in Nat \ {0} /\ N * N \in Nat \ {0}
  BY <1>1, <1>2
<1>8. (k * N) * N \in Nat \ {0} /\ c * (N * N) \in Nat \ {0}
  BY <1>1, <1>7
<1>9. ((k * N) * N) * N \in Nat \ {0}
  BY <1>1, <1>8
<1>10. (k * N) * (c * (N * N)) = L * Cube(N) /\ (((k * N) * N) * N) * c = L * Cube(N)
  <2>1. k \in Int /\ N \in Int /\ c \in Int
    BY <1>1, <1>2
  <2>2. (k * N) * (c * (N * N)) = (c * k) * Cube(N) /\ (((k * N) * N) * N) * c = (c * k) * Cube(N)
    BY <2>1, CubeAlgebra
  <2>3. L = c * k
    BY <1>5
  <2> QED BY <2>2, <2>3, Zenon
<1>12. Worth(r, g, k * N) /\ Worth(t, p, ((k * N) * N) * N)
  BY <1>4, <1>6, <1>7, <1>9, QuotWorth
<1>13. Worth(r, g * (c * (N * N)), (k * N) * (c * (N * N)))
  <2> DEFINE a == k * N  b == c * (N * N)
  <2>1. a \in Nat \ {0} /\ b \in Nat \ {0} /\ Worth(r, g, a)
    BY <1>7, <1>8, <1>12
  <2> HIDE DEF a, b
  <2>2. Worth(r, g * b, a * b)
    BY <1>6, <2>1, WorthScaled
  <2> QED BY <2>2 DEF a, b
<1>14. Worth(t, p * c, (((k * N) * N) * N) * c)
  <2> DEFINE a == ((k * N) * N) * N
  <2>1. a \in Nat \ {0} /\ Worth(t, p, a)
    BY <1>9, <1>12
  <2> HIDE DEF a
  <2>2. Worth(t, p * c, a * c)
    BY <1>6, <2>1, WorthScaled
  <2> QED BY <2>2 DEF a
<1> QED BY <1>5, <1>10, <1>13, <1>14 DEF N, r, t

\* Reliability less resolution, over one denominator, is the rows' sum.
LEMMA MurphyParts ==
    ASSUME NEW s, RowList(s), s # <<>>
    PROVE  \E L \in Nat \ {0}, A \in Int, B \in Int :
              /\ Worth(Reliability(s), A, L * Cube(Len(s))) /\ Worth(Resolution(s), B, L * Cube(Len(s)))
              /\ A - B = L * MurphySum(s)
<1> DEFINE N == Len(s)  H == Hits(s)
           K == [x \in 0 .. Unit |-> IF x \in Forecasts(s) THEN CountIn(s, x, x) ELSE 1]
           u == [x \in 0 .. Unit |-> (N * N) * (x * x) - H * H]
           v == [x \in 0 .. Unit |-> 2 * (N * H) - 2 * ((N * N) * x)]
<1>1. N \in Nat \ {0} /\ H \in Nat /\ Unit \in Nat
  <2>1. N \in Nat /\ N > 0
    BY ReferenceIsNatural DEF RowList
  <2> QED BY <2>1, SumsAre, UnitIs
<1>2. K \in [0 .. Unit -> Nat \ {0}]
  <2>1. ASSUME NEW x \in 0 .. Unit, x \in Forecasts(s) PROVE CountIn(s, x, x) \in Nat \ {0}
    <3>1. x \in Int /\ x <= x
      BY <1>1
    <3>2. CountIn(s, x, x) > 0
      BY <2>1, <3>1, RatesSome
    <3> QED BY <3>1, <3>2, RatesAre
  <2> QED BY <2>1
<1>3. PICK L \in Nat \ {0}, c \in [0 .. Unit -> Nat \ {0}] : \A x \in 0 .. Unit : L = c[x] * K[x]
  <2> HIDE DEF K
  <2> QED BY <1>1, <1>2, CommonMultiple
<1> DEFINE w1 == [x \in 0 .. Unit |-> IF x \in Forecasts(s)
                                     THEN Gap(s, x) * Gap(s, x) * (c[x] * (N * N)) ELSE 0]
           w2 == [x \in 0 .. Unit |-> IF x \in Forecasts(s)
                                     THEN Spread(s, x) * Spread(s, x) * c[x] ELSE 0]
           d == L * Cube(N)
<1>4. d \in Nat \ {0}
  <2>1. N * N \in Nat \ {0}
    BY <1>1
  <2>2. N * (N * N) \in Nat \ {0}
    BY <1>1, <2>1
  <2> DEFINE z == N * (N * N)
  <2> HIDE DEF z
  <2>3. L * z \in Nat \ {0}
    BY <2>2 DEF z
  <2> QED BY <2>3 DEF z, Cube
<1>5. ASSUME NEW x \in Forecasts(s)
      PROVE  /\ x \in 0 .. Unit /\ Worth(ReliabilityParts(s)[x], w1[x], d) /\ w1[x] \in Int
             /\ Worth(ResolutionParts(s)[x], w2[x], d) /\ w2[x] \in Int
  <2>1. x \in 0 .. Unit
    BY ForecastsAre
  <2> DEFINE e == c[x]
  <2>2. e \in Nat \ {0} /\ L = e * CountIn(s, x, x)
    BY <1>3, <2>1
  <2>3. w1[x] = Gap(s, x) * Gap(s, x) * (e * (N * N)) /\ w2[x] = Spread(s, x) * Spread(s, x) * e
    BY <2>1
  <2> HIDE DEF e, w1, w2, N
  <2>4. /\ Worth(ReliabilityParts(s)[x], Gap(s, x) * Gap(s, x) * (e * (Len(s) * Len(s))), L * Cube(Len(s)))
        /\ Worth(ResolutionParts(s)[x], Spread(s, x) * Spread(s, x) * e, L * Cube(Len(s)))
    BY <2>2, PartsAre
  <2>5. Worth(ReliabilityParts(s)[x], w1[x], d) /\ Worth(ResolutionParts(s)[x], w2[x], d)
    BY <2>3, <2>4 DEF N
  <2> QED BY <2>1, <2>5 DEF Worth
<1>6. /\ w1 \in [0 .. Unit -> Int] /\ w2 \in [0 .. Unit -> Int]
      /\ \A x \in 0 .. Unit : x \notin Forecasts(s) => w1[x] = 0 /\ w2[x] = 0
  <2>1. \A x \in 0 .. Unit : x \notin Forecasts(s) => w1[x] = 0 /\ w2[x] = 0
    OBVIOUS
  <2>2. \A x \in 0 .. Unit : w1[x] \in Int /\ w2[x] \in Int
    <3> HIDE DEF w1, w2
    <3> QED BY <1>5, <2>1
  <2>3. DOMAIN w1 = 0 .. Unit /\ DOMAIN w2 = 0 .. Unit /\ w1 = [x \in 0 .. Unit |-> w1[x]] /\ w2 = [x \in 0 .. Unit |-> w2[x]]
    OBVIOUS
  <2> HIDE DEF w1, w2
  <2> QED BY <2>1, <2>2, <2>3
<1>13. \A x \in 0 .. Unit : x \in Forecasts(s) =>
          /\ w1[x] = Gap(s, x) * Gap(s, x) * (c[x] * (N * N))
          /\ w2[x] = Spread(s, x) * Spread(s, x) * c[x]
  OBVIOUS
<1>14. \A x \in 0 .. Unit : K[x] = IF x \in Forecasts(s) THEN CountIn(s, x, x) ELSE 1
  OBVIOUS
<1> HIDE DEF w1, w2, d, K
<1>7. DOMAIN ReliabilityParts(s) = Forecasts(s) /\ DOMAIN ResolutionParts(s) = Forecasts(s)
  BY DEF ReliabilityParts, ResolutionParts
<1> DEFINE n == Unit + 1
<1>8. n \in Nat /\ n - 1 = Unit
  BY <1>1
<1>9. /\ Reliability(s) = SumBelow(ReliabilityParts(s), n)
      /\ Resolution(s) = SumBelow(ResolutionParts(s), n)
  BY DEF Reliability, Resolution, ReliabilityParts, ResolutionParts
<1> HIDE DEF n
<1>10. PICK f1 \in [0 .. n -> Int] :
          /\ f1[0] = 0 /\ \A x \in 1 .. n : f1[x] = f1[x - 1] + w1[x - 1]
          /\ Worth(Reliability(s), f1[n], d)
  <2>1. w1 \in [0 .. n - 1 -> Int]
    BY <1>6, <1>8
  <2>2. \A x \in 0 .. n - 1 : IF x \in DOMAIN ReliabilityParts(s) THEN Worth(ReliabilityParts(s)[x], w1[x], d)
                               ELSE w1[x] = 0
    BY <1>5, <1>6, <1>7, <1>8
  <2>3. \E f \in [0 .. n -> Int] :
          /\ f[0] = 0 /\ \A x \in 1 .. n : f[x] = f[x - 1] + w1[x - 1]
          /\ Worth(SumBelow(ReliabilityParts(s), n), f[n], d)
    BY <1>4, <1>8, <2>1, <2>2, SumBelowWorth
  <2> QED BY <1>9, <2>3
<1>11. PICK f2 \in [0 .. n -> Int] :
          /\ f2[0] = 0 /\ \A x \in 1 .. n : f2[x] = f2[x - 1] + w2[x - 1]
          /\ Worth(Resolution(s), f2[n], d)
  <2>1. w2 \in [0 .. n - 1 -> Int]
    BY <1>6, <1>8
  <2>2. \A x \in 0 .. n - 1 : IF x \in DOMAIN ResolutionParts(s) THEN Worth(ResolutionParts(s)[x], w2[x], d)
                               ELSE w2[x] = 0
    BY <1>5, <1>6, <1>7, <1>8
  <2>3. \E f \in [0 .. n -> Int] :
          /\ f[0] = 0 /\ \A x \in 1 .. n : f[x] = f[x - 1] + w2[x - 1]
          /\ Worth(SumBelow(ResolutionParts(s), n), f[n], d)
    BY <1>4, <1>8, <2>1, <2>2, SumBelowWorth
  <2> QED BY <1>9, <2>3
<1>12. PICK g \in [0 .. Unit + 1 -> Int] :
          /\ g[0] = 0 /\ MurphySum(s) = g[Unit + 1]
          /\ \A x \in 0 .. Unit :
                g[x + 1] = g[x] + (u[x] * CountIn(s, x, x) + v[x] * HitsIn(s, x, x))
  <2>1. u \in [0 .. Unit -> Int] /\ v \in [0 .. Unit -> Int]
    <3>1. ASSUME NEW x \in 0 .. Unit PROVE (N * N) * (x * x) - H * H \in Int /\ 2 * (N * H) - 2 * ((N * N) * x) \in Int
      <4>1. N \in Int /\ H \in Int /\ x \in Int
        BY <1>1
      <4> HIDE DEF N, H
      <4> QED BY <4>1
    <3> HIDE DEF N, H
    <3> QED BY <3>1
  <2>2. ByForecast(s, MurphyColumn(s), u, v)
    <3>1. \A i \in 1 .. Len(s) : s[i].p \in 0 .. Unit
      BY DEF RowList
    <3>2. \A x \in 0 .. Unit : u[x] = (N * N) * (x * x) - H * H /\ v[x] = 2 * (N * H) - 2 * ((N * N) * x)
      OBVIOUS
    <3> HIDE DEF u, v
    <3>3. \A i \in 1 .. Len(s) :
             MurphyColumn(s)[i] = ((N * N) * (s[i].p * s[i].p) - H * H)
                                  + (2 * (N * H) - 2 * ((N * N) * s[i].p)) * s[i].o
      BY MurphyColumnIs, Zenon
    <3> HIDE DEF N, H
    <3> QED BY <3>1, <3>2, <3>3, Zenon DEF ByForecast
  <2> HIDE DEF u, v
  <2>3. MurphyColumn(s) \in [1 .. Len(s) -> Int] /\ Total(MurphyColumn(s)) = MurphySum(s)
    BY MurphyColumnIs
  <2> DEFINE col == MurphyColumn(s)
  <2>4. \E e \in [0 .. Unit + 1 -> Int] :
          /\ e[0] = 0 /\ Total(col) = e[Unit + 1]
          /\ \A x \in 0 .. Unit :
                e[x + 1] = e[x] + (u[x] * CountIn(s, x, x) + v[x] * HitsIn(s, x, x))
    <3>1. col \in [1 .. Len(s) -> Int] /\ ByForecast(s, col, u, v)
      BY <2>2, <2>3
    <3> HIDE DEF col, N, H
    <3> QED BY <2>1, <3>1, RowsByForecast, ZenonT(60)
  <2> QED BY <2>3, <2>4
<1>15. \A x \in 0 .. Unit : u[x] = (N * N) * (x * x) - H * H /\ v[x] = 2 * (N * H) - 2 * ((N * N) * x)
  OBVIOUS
<1> HIDE DEF u, v
<1> DEFINE good == {x \in 0 .. n : f1[x] - f2[x] = L * g[x]}
<1>16. 0 \in good
  <2>1. 0 \in 0 .. n /\ L * 0 = 0
    BY <1>3, <1>8
  <2> QED BY <1>10, <1>11, <1>12, <2>1
<1>17. ASSUME NEW x \in 0 .. n - 1, x \in good PROVE x + 1 \in good
  <2>1. /\ x \in 0 .. Unit /\ x \in Int /\ x + 1 \in 0 .. n /\ x + 1 \in 1 .. n /\ x + 1 - 1 = x /\ x \in 0 .. n
        /\ x \in 0 .. Unit + 1
    BY <1>8
  <2> DEFINE k == CountIn(s, x, x)  h == HitsIn(s, x, x)  e == c[x]
             y == u[x] * k + v[x] * h  p == w1[x]  q == w2[x]
             a == f1[x]  b == f2[x]  z == g[x]
  <2>2. f1[x + 1] = a + p /\ f2[x + 1] = b + q /\ g[x + 1] = z + y
    <3>1. f1[x + 1] = a + p
      BY <1>10, <2>1
    <3>2. f2[x + 1] = b + q
      BY <1>11, <2>1
    <3>3. g[x + 1] = z + y
      BY <1>12, <2>1
    <3> QED BY <3>1, <3>2, <3>3
  <2>3. a - b = L * z
    BY <1>17
  <2>4. k \in Int /\ h \in Int /\ e \in Int /\ p \in Int /\ q \in Int /\ a \in Int /\ b \in Int /\ z \in Int
    <3>1. k \in Int /\ h \in Int
      BY <2>1, RatesAre
    <3>2. e \in Int
      BY <1>3, <2>1
    <3>3. p \in Int /\ q \in Int
      BY <1>6, <2>1
    <3>4. a \in Int /\ b \in Int /\ z \in Int
      BY <1>8, <1>10, <1>11, <1>12, <2>1
    <3> QED BY <3>1, <3>2, <3>3, <3>4
  <2>5. y = ((N * N) * (x * x) - H * H) * k + (2 * (N * H) - 2 * ((N * N) * x)) * h
    <3>1. u[x] = (N * N) * (x * x) - H * H /\ v[x] = 2 * (N * H) - 2 * ((N * N) * x)
      BY <1>15, <2>1
    <3> QED BY <3>1
  <2>6. y \in Int
    <3>1. N \in Int /\ H \in Int
      BY <1>1
    <3> HIDE DEF N, H, k, h, y
    <3> QED BY <2>1, <2>4, <2>5, <3>1
  <2>7. p - q = L * y
    <3>1. CASE x \in Forecasts(s)
      <4>1. L = e * k
        BY <1>3, <1>14, <2>1, <3>1
      <4>2. p = (k * x - h) * (k * x - h) * (e * (N * N)) /\ q = (N * h - k * H) * (N * h - k * H) * e
        <5>1. p = Gap(s, x) * Gap(s, x) * (e * (N * N)) /\ q = Spread(s, x) * Spread(s, x) * e
          BY <1>13, <2>1, <3>1
        <5>2. Gap(s, x) = k * x - h /\ Spread(s, x) = N * h - k * H
          BY DEF Gap, Spread
        <5> QED BY <5>1, <5>2
      <4>3. N \in Int /\ H \in Int
        BY <1>1
      <4> HIDE DEF k, h, e, p, q, y, N, H
      <4>4. (k * x - h) * (k * x - h) * (e * (N * N)) - (N * h - k * H) * (N * h - k * H) * e
              = (e * k) * (((N * N) * (x * x) - H * H) * k + (2 * (N * H) - 2 * ((N * N) * x)) * h)
        BY <2>1, <2>4, <4>3, PartAlgebra
      <4> QED BY <2>5, <4>1, <4>2, <4>4
    <3>2. CASE x \notin Forecasts(s)
      <4>1. k = 0 /\ h = 0
        <5>1. \A t \in Forecasts(s) : ~ (x <= t /\ t <= x)
          BY <2>1, <3>2, ForecastsAre
        <5> QED BY <2>1, <5>1, RatesNone
      <4>2. p = 0 /\ q = 0
        BY <1>6, <2>1, <3>2
      <4>3. u[x] \in Int /\ v[x] \in Int
        <5>1. N \in Int /\ H \in Int
          BY <1>1
        <5> HIDE DEF N, H
        <5> QED BY <1>15, <2>1, <5>1
      <4>4. y = 0
        <5> DEFINE ux == u[x]  vx == v[x]
        <5>1. ux * 0 + vx * 0 = 0
          BY <4>3
        <5> QED BY <4>1, <5>1
      <4> HIDE DEF y, p, q
      <4> QED BY <1>3, <4>2, <4>4
    <3> QED BY <3>1, <3>2
  <2>8. (a + p) - (b + q) = L * (z + y)
    <3> HIDE DEF a, b, p, q, z, y
    <3>1. L * (z + y) = L * z + L * y
      BY <1>3, <2>4, <2>6
    <3>2. L * z \in Int /\ L * y \in Int
      BY <1>3, <2>4, <2>6
    <3> QED BY <2>3, <2>4, <2>6, <2>7, <3>1, <3>2
  <2>9. f1[x + 1] - f2[x + 1] = L * g[x + 1]
    BY <2>2, <2>8
  <2> QED BY <2>1, <2>9
<1>18. n \in good
  <2> HIDE DEF good
  <2>1. \A x \in 0 .. n : x \in good
    BY <1>8, <1>16, <1>17, Counting
  <2> QED BY <1>8, <2>1
<1>19. f1[n] - f2[n] = L * MurphySum(s)
  BY <1>12, <1>18 DEF n
<1>20. f1[n] \in Int /\ f2[n] \in Int
  BY <1>8, <1>10, <1>11
<1> QED BY <1>3, <1>10, <1>11, <1>19, <1>20 DEF d, N

LEMMA MurphyAlgebra ==
    ASSUME NEW N \in Int, NEW H \in Int, NEW E \in Int, NEW L \in Int, NEW R \in Int, NEW Q \in Int,
           R = N * Q - H * H
    PROVE  /\ L * ((N * N) * E - (N * N) * Q + N * (H * H)) + R * (L * N) = E * (L * (N * N))
           /\ -(L * ((N * N) * E - (N * N) * Q + N * (H * H))) = (R - N * E) * (L * N)
           /\ (N * N) * (L * N) = L * Cube(N) /\ N * (L * (N * N)) = L * Cube(N)
<1>1. N * R = (N * N) * Q - N * (H * H)
  BY DEF Cube
<1> DEFINE a == (N * N) * E  b == (N * N) * Q  c == N * (H * H)  r == N * R
<1>2. a \in Int /\ b \in Int /\ c \in Int /\ r \in Int
  OBVIOUS
<1>3. R * (L * N) = L * r /\ E * (L * (N * N)) = L * a /\ (R - N * E) * (L * N) = L * (r - a)
  <2>1. R * (L * N) = L * r
    OBVIOUS
  <2>2. E * (L * (N * N)) = L * a
    OBVIOUS
  <2>3. (R - N * E) * (L * N) = L * (r - a)
    <3> DEFINE e == N * E
    <3>1. e \in Int /\ a = N * e
      OBVIOUS
    <3> HIDE DEF e, a
    <3>2. (R - e) * (L * N) = L * (N * R - N * e)
      BY <3>1
    <3> QED BY <3>1, <3>2 DEF e
  <2> QED BY <2>1, <2>2, <2>3
<1>4. (N * N) * (L * N) = L * Cube(N) /\ N * (L * (N * N)) = L * Cube(N)
  BY DEF Cube
<1>5. L * (a - b + c) + L * r = L * a /\ -(L * (a - b + c)) = L * (r - a)
  <2>1. r = b - c
    BY <1>1
  <2> HIDE DEF a, b, c, r
  <2>2. L * (a - b + c) = L * a - L * b + L * c /\ L * r = L * b - L * c /\ L * (r - a) = L * b - L * c - L * a
    BY <1>2, <2>1
  <2>3. L * a \in Int /\ L * b \in Int /\ L * c \in Int
    BY <1>2
  <2> QED BY <2>2, <2>3
<1> HIDE DEF a, b, c, r
<1>6. L * (a - b + c) + R * (L * N) = E * (L * (N * N)) /\ -(L * (a - b + c)) = (R - N * E) * (L * N)
  BY <1>3, <1>5, Zenon
<1> QED BY <1>4, <1>6, Zenon DEF a, b, c

LEMMA DecisiveSquares ==
    ASSUME NEW s, RowList(s), \A i \in 1 .. Len(s) : s[i].o \in {0, Unit}
    PROVE  Squares(s) = Unit * Hits(s)
<1> DEFINE N == Len(s)  q == SquareColumn(s)  o == OutcomeColumn(s)
<1>1. N \in Nat /\ q \in [1 .. N -> Int] /\ o \in [1 .. N -> Int] /\ Unit \in Int /\ 0 \in Int
  BY SumsAre, UnitIs DEF RowList
<1>2. ASSUME NEW i \in 1 .. N PROVE q[i] = Unit * o[i] + 0 * o[i]
  <2>1. q[i] = s[i].o * s[i].o /\ o[i] = s[i].o /\ s[i].o \in {0, Unit}
    BY DEF SquareColumn, OutcomeColumn, RowList
  <2>2. \A x \in {0, Unit} : x * x = Unit * x + 0 * x
    BY <1>1
  <2> QED BY <2>1, <2>2
<1>3. Squares(s) = Total(q) /\ Hits(s) = Total(o)
  BY SumsAre DEF Squares
<1> HIDE DEF N, q, o
<1>4. Mixes(N, q, Unit, o, 0, o)
  BY <1>1, <1>2 DEF Mixes
<1>5. Total(q) = Unit * Total(o) + 0 * Total(o)
  BY <1>1, <1>4, TotalLinear
<1>6. Total(o) \in Int
  BY <1>1, TotalType
<1> QED BY <1>1, <1>3, <1>5, <1>6

\* murphy_decomposition() on yes-or-no outcomes: its three parts add up to brier(),
\* and resolution less reliability is brier_skill_score() times the uncertainty.
LEMMA MurphyIsTheBrier ==
    ASSUME NEW s, RowList(s), s # <<>>, \A i \in 1 .. Len(s) : s[i].o \in {0, Unit}
    PROVE  /\ Same(Murphy(s), MeanBrier(s))
           /\ BrierSkill(s) # NoSkill =>
                Same(Times(BrierSkill(s), Uncertainty(s)), Minus(Resolution(s), Reliability(s)))
<1> DEFINE N == Len(s)  H == Hits(s)  E == SquaredError(s)  Q == Squares(s)  R == ReferenceError(s)
           b == BrierSkill(s)  un == Uncertainty(s)  m == MeanBrier(s)
           rel == Reliability(s)  res == Resolution(s)
<1>1. /\ N \in Nat \ {0} /\ H \in Int /\ E \in Nat /\ Q \in Int /\ R \in Nat
      /\ R = N * Q - H * H
  <2>1. N \in Nat /\ N > 0 /\ R \in Nat
    BY ReferenceIsNatural DEF RowList
  <2>2. H \in Int /\ E \in Nat /\ Q \in Int /\ R = N * Q - H * H
    BY SumsAre
  <2> QED BY <2>1, <2>2
<1>2. H * (N * Unit - H) = R
  <2>1. Q = Unit * H /\ Unit \in Int
    BY DecisiveSquares, UnitIs
  <2> HIDE DEF N, H, Q, R
  <2>2. H * (N * Unit - H) = N * (Unit * H) - H * H
    BY <1>1, <2>1
  <2> QED BY <1>1, <2>1, <2>2
<1>3. un = Quot(H * (N * Unit - H), N * N) /\ m = Quot(E, N)
  BY DEF Uncertainty, MeanBrier, Count
<1>4. b # NoSkill => R > 0 /\ Worth(b, R - N * E, R)
  BY SkillIsTheVerdict
<1>5. PICK L \in Nat \ {0}, A \in Int, B \in Int :
         /\ Worth(rel, A, L * Cube(N)) /\ Worth(res, B, L * Cube(N))
         /\ A - B = L * ((N * N) * E - (N * N) * Q + N * (H * H))
  BY MurphyParts, Zenon DEF MurphySum
<1>6. Murphy(s) = Plus(Minus(rel, res), un)
  BY DEF Murphy
<1> HIDE DEF N, H, E, Q, R, b, un, m, rel, res
<1>7. N * N \in Nat \ {0} /\ L * N \in Nat \ {0}
  BY <1>1, <1>5
<1>8. L * (N * N) \in Nat \ {0}
  BY <1>5, <1>7
<1>9. /\ (A - B) + R * (L * N) = E * (L * (N * N)) /\ B - A = (R - N * E) * (L * N)
      /\ (N * N) * (L * N) = L * Cube(N) /\ N * (L * (N * N)) = L * Cube(N)
  <2> DEFINE t == L * ((N * N) * E - (N * N) * Q + N * (H * H))
  <2>1. t + R * (L * N) = E * (L * (N * N)) /\ -t = (R - N * E) * (L * N)
        /\ (N * N) * (L * N) = L * Cube(N) /\ N * (L * (N * N)) = L * Cube(N)
    <3>1. N \in Int /\ H \in Int /\ E \in Int /\ L \in Int /\ R \in Int /\ Q \in Int
      BY <1>1, <1>5
    <3> QED BY <1>1, <3>1, MurphyAlgebra
  <2>2. A - B = t
    BY <1>5
  <2> HIDE DEF t
  <2>3. B - A = -t
    BY <1>5, <2>2
  <2> QED BY <2>1, <2>2, <2>3, Zenon
<1> DEFINE nn == N * N  ln == L * N  lnn == L * (N * N)  d == L * Cube(N)  z == R - N * E
<1>10. nn \in Nat \ {0} /\ ln \in Nat \ {0} /\ lnn \in Nat \ {0} /\ nn * ln = d /\ N * lnn = d
  BY <1>7, <1>8, <1>9, Zenon
<1>11. z \in Int
  BY <1>1
<1>12. (A - B) + R * ln = E * lnn /\ B - A = z * ln
  BY <1>9
<1>13. Worth(rel, A, d) /\ Worth(res, B, d)
  BY <1>5
<1>14. Worth(un, R, nn)
  BY <1>1, <1>2, <1>3, <1>7, QuotWorth
<1>21. R \in Int /\ E \in Int /\ N \in Nat \ {0}
  BY <1>1
<1>15. Worth(m, E, N)
  BY <1>3, <1>21, QuotWorth
<1>16. b # NoSkill => R > 0 /\ Worth(b, z, R)
  BY <1>4
<1> HIDE DEF nn, ln, lnn, d, z
<1>17. Worth(un, R * ln, d)
  <2>1. Worth(un, R * ln, nn * ln)
    BY <1>10, <1>14, <1>21, WorthScaled
  <2> QED BY <1>10, <2>1
<1>18. Worth(m, E * lnn, d)
  <2>1. Worth(m, E * lnn, N * lnn)
    BY <1>10, <1>15, <1>21, WorthScaled
  <2> QED BY <1>10, <2>1
<1>19. Same(Murphy(s), m)
  <2>1. Worth(Minus(rel, res), A - B, d)
    BY <1>13, WorthMinus
  <2>2. Worth(Murphy(s), (A - B) + R * ln, d)
    BY <1>6, <1>17, <2>1, WorthPlus
  <2>3. Worth(Murphy(s), E * lnn, d)
    BY <1>12, <2>2
  <2> QED BY <1>18, <2>3, WorthOrder
<1>20. ASSUME b # NoSkill PROVE Same(Times(b, un), Minus(res, rel))
  <2>1. R \in Nat \ {0} /\ Worth(b, z, R)
    BY <1>1, <1>16, <1>20
  <2>2. Worth(Times(b, un), z * R, R * nn)
    BY <1>14, <2>1, WorthTimes
  <2>3. R * nn = nn * R
    BY <1>10, <2>1
  <2>4. Worth(Times(b, un), z * R, nn * R)
    BY <2>2, <2>3
  <2>5. Worth(Times(b, un), z, nn)
    BY <1>10, <1>11, <2>1, <2>4, WorthScaled
  <2>6. Worth(Times(b, un), z * ln, nn * ln)
    BY <1>10, <1>11, <2>5, WorthScaled
  <2>7. Worth(Times(b, un), B - A, d)
    BY <1>10, <1>12, <2>6
  <2>8. Worth(Minus(res, rel), B - A, d)
    BY <1>13, WorthMinus
  <2> QED BY <2>7, <2>8, WorthOrder
<1> QED BY <1>19, <1>20 DEF m, b, un, res, rel
-----------------------------------------------------------------------------
(* The rows a query keeps.                                                 *)

Keeps(s, set) ==
    [n \in 1 .. Len(s) |-> [t \in Seq(Range(s)) |-> IF s[n] \in set THEN Append(t, s[n]) ELSE t]]
Filters(s, set, f) ==
    /\ f \in [0 .. Len(s) -> Seq(Range(s))] /\ f[0] = <<>> /\ Meeting(s, set) = f[Len(s)]
    /\ \A n \in 1 .. Len(s) : f[n] = IF s[n] \in set THEN Append(f[n - 1], s[n]) ELSE f[n - 1]

LEMMA MeetingIs == ASSUME NEW S, NEW s \in Seq(S), NEW set PROVE \E f : Filters(s, set, f)
<1> DEFINE N == Len(s)  X == Seq(Range(s))  D == Keeps(s, set)
           Next1(n, t) == IF s[n] \in set THEN Append(t, s[n]) ELSE t
           Adds(g) == g = [n \in 0 .. N |-> IF n = 0 THEN <<>> ELSE Next1(n, g[n - 1])]
           kept == CHOOSE g : Adds(g)
<1>1. N \in Nat /\ <<>> \in X /\ \A n \in 1 .. N : s[n] \in Range(s)
  BY DEF Range
<1>2. \A n \in 1 .. N, t \in X : Next1(n, t) \in X
  BY <1>1
<1>3. D \in Rules(N, X) /\ \A n \in 1 .. N, t \in X : D[n][t] = Next1(n, t)
  BY <1>2 DEF Rules, Keeps
<1> HIDE DEF X, D
<1>4. PICK f : Unrolls(N, X, <<>>, D, f)
  BY <1>1, <1>3, Recursion
<1>5. f \in [0 .. N -> X] /\ f[0] = <<>> /\ \A n \in 1 .. N : f[n] = Next1(n, f[n - 1])
  <2>1. f \in [0 .. N -> X] /\ f[0] = <<>> /\ \A n \in 1 .. N : f[n] = D[n][f[n - 1]]
    BY <1>4 DEF Unrolls
  <2>2. \A n \in 1 .. N : f[n - 1] \in X
    <3>1. \A n \in 1 .. N : n - 1 \in 0 .. N
      BY <1>1
    <3> QED BY <2>1, <3>1
  <2> HIDE DEF Next1
  <2> QED BY <1>3, <2>1, <2>2
<1>6. Adds(f)
  <2> HIDE DEF Next1
  <2>1. \A n \in 0 .. N : n # 0 => n \in 1 .. N
    BY <1>1
  <2>2. \A n \in 0 .. N : f[n] = IF n = 0 THEN <<>> ELSE Next1(n, f[n - 1])
    BY <1>5, <2>1
  <2> QED BY <1>5, <2>2
<1>7. Adds(kept)
  <2> HIDE DEF Adds
  <2> QED BY <1>6
<1>8. Meeting(s, set) = kept[N]
  BY DEF Meeting
<1>9. kept[0] = <<>> /\ \A n \in 1 .. N : kept[n] = Next1(n, kept[n - 1])
  <2> HIDE DEF kept, Next1
  <2>1. \A n \in 0 .. N : kept[n] = IF n = 0 THEN <<>> ELSE Next1(n, kept[n - 1])
    BY <1>7, Zenon
  <2>2. 0 \in 0 .. N /\ \A n \in 1 .. N : n # 0 /\ n \in 0 .. N
    BY <1>1
  <2> QED BY <2>1, <2>2
<1>10. kept[N] = f[N]
  <2> HIDE DEF kept, Adds, Next1
  <2>1. Obeys(N, X, <<>>, D, kept)
    BY <1>3, <1>9 DEF Obeys
  <2>2. \A n \in 0 .. N : kept[n] = f[n]
    BY <1>1, <1>4, <2>1, RecursionOnce
  <2>3. N \in 0 .. N
    BY <1>1
  <2> QED BY <2>2, <2>3
<1>11. Filters(s, set, f)
  <2> HIDE DEF kept, Adds
  <2> QED BY <1>5, <1>8, <1>10 DEF Filters, X
<1> QED BY <1>11

\* The rows kept are rows of the list, and in the set.
LEMMA MeetingType ==
    ASSUME NEW S, NEW s \in Seq(S), NEW set
    PROVE  Meeting(s, set) \in Seq(S \cap set) /\ Meeting(s, set) \in Seq(S)
<1>1. PICK f : Filters(s, set, f)
  BY MeetingIs
<1> DEFINE N == Len(s)  good == {n \in 0 .. N : f[n] \in Seq(S \cap set)}
<1>2. N \in Nat /\ \A n \in 1 .. N : s[n] \in S
  OBVIOUS
<1>3. f[0] = <<>> /\ \A n \in 1 .. N : f[n] = IF s[n] \in set THEN Append(f[n - 1], s[n]) ELSE f[n - 1]
  BY <1>1 DEF Filters
<1>4. 0 \in good
  <2>1. <<>> \in Seq(S \cap set)
    OBVIOUS
  <2>2. f[0] \in Seq(S \cap set)
    BY <1>3, <2>1, Zenon
  <2> QED BY <1>2, <2>2
<1>5. ASSUME NEW n \in 0 .. N - 1, n \in good PROVE n + 1 \in good
  <2>1. n + 1 \in 1 .. N /\ n + 1 - 1 = n /\ n + 1 \in 0 .. N
    BY <1>2
  <2>2. f[n + 1] = IF s[n + 1] \in set THEN Append(f[n], s[n + 1]) ELSE f[n]
    BY <1>3, <2>1
  <2>3. f[n] \in Seq(S \cap set) /\ s[n + 1] \in S
    BY <1>2, <1>5, <2>1
  <2>4. s[n + 1] \in set => Append(f[n], s[n + 1]) \in Seq(S \cap set)
    BY <2>3
  <2> QED BY <2>1, <2>2, <2>3, <2>4
<1>6. N \in good
  <2> HIDE DEF good
  <2>1. \A n \in 0 .. N : n \in good
    BY <1>2, <1>4, <1>5, Counting
  <2> QED BY <1>2, <2>1
<1>7. Meeting(s, set) \in Seq(S \cap set)
  BY <1>1, <1>6 DEF Filters
<1>8. \A t \in Seq(S \cap set) : t \in Seq(S)
  OBVIOUS
<1> QED BY <1>7, <1>8

\* Sets that agree on the rows keep the same ones.
LEMMA MeetingSame ==
    ASSUME NEW S, NEW s \in Seq(S), NEW A, NEW B,
           \A i \in 1 .. Len(s) : s[i] \in A <=> s[i] \in B
    PROVE  Meeting(s, A) = Meeting(s, B)
<1>1. PICK f : Filters(s, A, f)
  BY MeetingIs
<1>2. PICK g : Filters(s, B, g)
  BY MeetingIs
<1> DEFINE N == Len(s)  good == {n \in 0 .. N : f[n] = g[n]}
<1>3. /\ f[0] = <<>> /\ \A n \in 1 .. N : f[n] = IF s[n] \in A THEN Append(f[n - 1], s[n]) ELSE f[n - 1]
      /\ g[0] = <<>> /\ \A n \in 1 .. N : g[n] = IF s[n] \in B THEN Append(g[n - 1], s[n]) ELSE g[n - 1]
      /\ N \in Nat
  BY <1>1, <1>2 DEF Filters
<1>4. 0 \in good
  BY <1>3
<1>5. ASSUME NEW n \in 0 .. N - 1, n \in good PROVE n + 1 \in good
  <2>1. n + 1 \in 1 .. N /\ n + 1 - 1 = n /\ n + 1 \in 0 .. N
    BY <1>3
  <2>2. /\ f[n + 1] = IF s[n + 1] \in A THEN Append(f[n], s[n + 1]) ELSE f[n]
        /\ g[n + 1] = IF s[n + 1] \in B THEN Append(g[n], s[n + 1]) ELSE g[n]
    BY <1>3, <2>1
  <2>3. f[n] = g[n] /\ (s[n + 1] \in A <=> s[n + 1] \in B)
    BY <1>5, <2>1
  <2> QED BY <2>1, <2>2, <2>3
<1>6. N \in good
  <2> HIDE DEF good
  <2>1. \A n \in 0 .. N : n \in good
    BY <1>3, <1>4, <1>5, Counting
  <2> QED BY <1>3, <2>1
<1> QED BY <1>1, <1>2, <1>6 DEF Filters

\* One more row is kept or not, whatever was kept before.
LEMMA MeetingAppend ==
    ASSUME NEW S, NEW s \in Seq(S), NEW x \in S, NEW set
    PROVE  Meeting(Append(s, x), set)
             = IF x \in set THEN Append(Meeting(s, set), x) ELSE Meeting(s, set)
<1> DEFINE N == Len(s)  t == Append(s, x)
<1>1. N \in Nat /\ t \in Seq(S) /\ Len(t) = N + 1 /\ t[N + 1] = x /\ \A n \in 1 .. N : t[n] = s[n]
  OBVIOUS
<1> HIDE DEF t
<1>2. PICK f : Filters(s, set, f)
  BY MeetingIs
<1>3. PICK g : Filters(t, set, g)
  BY <1>1, MeetingIs
<1> HIDE DEF N
<1> DEFINE good == {n \in 0 .. N : f[n] = g[n]}
<1>4. /\ f[0] = <<>> /\ \A n \in 1 .. N : f[n] = IF s[n] \in set THEN Append(f[n - 1], s[n]) ELSE f[n - 1]
      /\ g[0] = <<>> /\ \A n \in 1 .. N + 1 : g[n] = IF t[n] \in set THEN Append(g[n - 1], t[n]) ELSE g[n - 1]
      /\ Meeting(s, set) = f[N] /\ Meeting(t, set) = g[N + 1]
  BY <1>1, <1>2, <1>3 DEF Filters, N
<1>5. 0 \in good
  BY <1>1, <1>4
<1>6. ASSUME NEW n \in 0 .. N - 1, n \in good PROVE n + 1 \in good
  <2>1. n + 1 \in 1 .. N /\ n + 1 \in 1 .. N + 1 /\ n + 1 - 1 = n /\ n + 1 \in 0 .. N
    BY <1>1
  <2>2. /\ f[n + 1] = IF s[n + 1] \in set THEN Append(f[n], s[n + 1]) ELSE f[n]
        /\ g[n + 1] = IF t[n + 1] \in set THEN Append(g[n], t[n + 1]) ELSE g[n]
    BY <1>4, <2>1
  <2>3. f[n] = g[n] /\ t[n + 1] = s[n + 1]
    BY <1>1, <1>6, <2>1
  <2> QED BY <2>1, <2>2, <2>3
<1>7. N \in good
  <2> HIDE DEF good
  <2>1. \A n \in 0 .. N : n \in good
    BY <1>1, <1>5, <1>6, Counting
  <2> QED BY <1>1, <2>1
<1>8. g[N + 1] = IF x \in set THEN Append(g[N], x) ELSE g[N]
  <2>1. N + 1 \in 1 .. N + 1 /\ N + 1 - 1 = N
    BY <1>1
  <2> QED BY <1>1, <1>4, <2>1
<1>9. f[N] = g[N]
  BY <1>7
<1> QED BY <1>4, <1>8, <1>9 DEF t

\* A selection from a selection is one by both conditions.
LEMMA MeetingTwice ==
    ASSUME NEW S, NEW s \in Seq(S), NEW A, NEW B
    PROVE  Meeting(Meeting(s, A), B) = Meeting(s, A \cap B)
<1>1. PICK f : Filters(s, A, f)
  BY MeetingIs
<1>2. PICK g : Filters(s, A \cap B, g)
  BY MeetingIs
<1> DEFINE N == Len(s)  good == {n \in 0 .. N : Meeting(f[n], B) = g[n]}
<1>3. /\ f \in [0 .. N -> Seq(Range(s))]
      /\ f[0] = <<>> /\ \A n \in 1 .. N : f[n] = IF s[n] \in A THEN Append(f[n - 1], s[n]) ELSE f[n - 1]
      /\ g[0] = <<>>
      /\ \A n \in 1 .. N : g[n] = IF s[n] \in A \cap B THEN Append(g[n - 1], s[n]) ELSE g[n - 1]
      /\ N \in Nat /\ \A n \in 1 .. N : s[n] \in Range(s)
  <2>1. N \in Nat /\ \A n \in 1 .. N : s[n] \in Range(s)
    BY DEF Range
  <2> QED BY <1>1, <1>2, <2>1 DEF Filters
<1>4. 0 \in good
  <2>1. <<>> \in Seq(S) /\ Len(<<>>) = 0
    OBVIOUS
  <2>2. PICK h : Filters(<<>>, B, h)
    BY <2>1, MeetingIs
  <2>3. Meeting(<<>>, B) = <<>>
    BY <2>1, <2>2 DEF Filters
  <2> QED BY <1>3, <2>3
<1>5. ASSUME NEW n \in 0 .. N - 1, n \in good PROVE n + 1 \in good
  <2>1. n + 1 \in 1 .. N /\ n + 1 - 1 = n /\ n + 1 \in 0 .. N /\ n \in 0 .. N
    BY <1>3
  <2>2. /\ f[n + 1] = IF s[n + 1] \in A THEN Append(f[n], s[n + 1]) ELSE f[n]
        /\ g[n + 1] = IF s[n + 1] \in A \cap B THEN Append(g[n], s[n + 1]) ELSE g[n]
    BY <1>3, <2>1
  <2>3. Meeting(f[n], B) = g[n]
    BY <1>5
  <2>4. f[n] \in Seq(Range(s)) /\ s[n + 1] \in Range(s)
    BY <1>3, <2>1
  <2>5. Meeting(Append(f[n], s[n + 1]), B)
          = IF s[n + 1] \in B THEN Append(Meeting(f[n], B), s[n + 1]) ELSE Meeting(f[n], B)
    <3> DEFINE u == f[n]  x == s[n + 1]  R == Range(s)
    <3>1. u \in Seq(R) /\ x \in R
      BY <2>4
    <3> HIDE DEF u, x, R
    <3>2. Meeting(Append(u, x), B) = IF x \in B THEN Append(Meeting(u, B), x) ELSE Meeting(u, B)
      BY <3>1, MeetingAppend
    <3> QED BY <3>2 DEF u, x
  <2>6. Meeting(f[n + 1], B) = g[n + 1]
    <3>1. CASE s[n + 1] \in A
      <4>1. f[n + 1] = Append(f[n], s[n + 1])
        BY <2>2, <3>1
      <4>2. g[n + 1] = IF s[n + 1] \in B THEN Append(g[n], s[n + 1]) ELSE g[n]
        BY <2>2, <3>1
      <4> QED BY <2>3, <2>5, <4>1, <4>2
    <3>2. CASE s[n + 1] \notin A
      <4>1. f[n + 1] = f[n] /\ g[n + 1] = g[n]
        BY <2>2, <3>2
      <4> QED BY <2>3, <4>1
    <3> QED BY <3>1, <3>2
  <2> QED BY <2>1, <2>6
<1>6. N \in good
  <2> HIDE DEF good
  <2>1. \A n \in 0 .. N : n \in good
    BY <1>3, <1>4, <1>5, Counting
  <2> QED BY <1>3, <2>1
<1> QED BY <1>1, <1>2, <1>6 DEF Filters

\* From(s, src) of a selection by source that keeps src is From(s, src) of the list.
LEMMA FromSelection ==
    ASSUME NEW S, NEW s \in Seq(S), NEW src, NEW C,
           \A r \in Range(s) : r.source = src => r \in C
    PROVE  From(Meeting(s, C), src) = From(s, src)
<1> DEFINE t == Meeting(s, C)  A == {r \in Range(s) : r.source = src}
           B == {r \in Range(t) : r.source = src}
<1>1. s \in Seq(Range(s))
  BY DEF Range
<1>2. t \in Seq(Range(s))
  BY <1>1, MeetingType
<1>3. \A i \in 1 .. Len(t) : t[i] \in Range(s) /\ t[i] \in Range(t)
  BY <1>2 DEF Range
<1>4. From(t, src) = Meeting(t, B) /\ From(s, src) = Meeting(s, A)
  BY DEF From
<1> HIDE DEF t
<1>5. Meeting(t, B) = Meeting(t, A)
  <2>1. \A i \in 1 .. Len(t) : t[i] \in B <=> t[i] \in A
    BY <1>3
  <2> HIDE DEF A, B
  <2> QED BY <1>2, <2>1, MeetingSame
<1>6. Meeting(t, A) = Meeting(s, C \cap A)
  <2> HIDE DEF A
  <2> QED BY MeetingTwice DEF t
<1>7. Meeting(s, C \cap A) = Meeting(s, A)
  <2>1. \A i \in 1 .. Len(s) : s[i] \in C \cap A <=> s[i] \in A
    OBVIOUS
  <2> HIDE DEF A
  <2> QED BY <2>1, MeetingSame
<1> QED BY <1>4, <1>5, <1>6, <1>7 DEF t

\* summarize_engine_skill(): market questions leave the headline alone, the engine's
\* own forecasts the comparison with the crowd.
LEMMA HeadlineLemma == ASSUME graded \in Seq(AllRows) PROVE HeadlineIsInternal
<1> DEFINE s == graded  E == {r \in Range(s) : r.source = "engine"}
           M == {r \in Range(s) : r.source # "engine"}
<1>1. From(From(s, "engine"), "engine") = From(s, "engine")
  <2>1. From(s, "engine") = Meeting(s, E)
    BY DEF From
  <2>2. \A r \in Range(s) : r.source = "engine" => r \in E
    OBVIOUS
  <2> HIDE DEF E, s
  <2>3. From(Meeting(s, E), "engine") = From(s, "engine")
    BY <2>2, FromSelection DEF s
  <2> QED BY <2>1, <2>3
<1>2. From(Meeting(s, M), "manifold") = From(s, "manifold")
  <2>1. \A r \in Range(s) : r.source = "manifold" => r \in M
    OBVIOUS
  <2> HIDE DEF M, s
  <2> QED BY <2>1, FromSelection DEF s
<1>3. ASSUME NEW a, NEW b, From(a, "engine") = From(b, "engine")
      PROVE  SummarizeEngineSkill(a).headline = SummarizeEngineSkill(b).headline
  <2>1. HeadlineSkill(a) = HeadlineSkill(b)
    BY <1>3, Zenon DEF HeadlineSkill
  <2>2. \A t : SummarizeEngineSkill(t).headline = HeadlineSkill(t)
    BY DEF SummarizeEngineSkill
  <2> QED BY <2>1, <2>2
<1>4. ASSUME NEW a, NEW b, From(a, "manifold") = From(b, "manifold")
      PROVE  SummarizeEngineSkill(a).vsCrowd = SummarizeEngineSkill(b).vsCrowd
  <2>1. EngineVsCrowd(a) = EngineVsCrowd(b)
    BY <1>4, Zenon DEF EngineVsCrowd
  <2>2. \A t : SummarizeEngineSkill(t).vsCrowd = EngineVsCrowd(t)
    BY DEF SummarizeEngineSkill
  <2> QED BY <2>1, <2>2
<1> HIDE DEF E
<1>5. SummarizeEngineSkill(s).headline = SummarizeEngineSkill(From(s, "engine")).headline
  BY <1>1, <1>3
<1>6. SummarizeEngineSkill(s).vsCrowd = SummarizeEngineSkill(Meeting(s, M)).vsCrowd
  BY <1>2, <1>4
<1> QED BY <1>5, <1>6, Zenon DEF HeadlineIsInternal

\* summarize()'s parts and brier_skill_score() on the outcomes that are yes or no.
LEMMA MurphyLemma == ASSUME graded \in Seq(AllRows) PROVE MurphyAddsUp
<1> DEFINE D == {r \in Range(graded) : r.o \in {0, Unit}}
<1>1. Decisive = Meeting(graded, D)
  BY DEF Decisive, DecisiveOnly
<1>2. Decisive \in Seq(AllRows) /\ Decisive \in Seq(AllRows \cap D)
  <2> HIDE DEF D
  <2> QED BY <1>1, MeetingType
<1>3. RowList(Decisive)
  BY <1>2, RowListIs
<1>4. \A i \in 1 .. Len(Decisive) : Decisive[i].o \in {0, Unit}
  <2>1. \A i \in 1 .. Len(Decisive) : Decisive[i] \in D
    <3> HIDE DEF D
    <3> QED BY <1>2
  <2> QED BY <2>1
<1> HIDE DEF D
<1> QED BY <1>3, <1>4, MurphyIsTheBrier DEF MurphyAddsUp

LEMMA VerdictsLemma == ASSUME graded \in Seq(AllRows), graded # <<>> PROVE VerdictsAgree
  BY RowListIs, SkillIsTheVerdict DEF VerdictsAgree
-----------------------------------------------------------------------------
(* Bins.                                                                   *)

\* reliability_bins(): a forecast p is in bin int(p * n_bins), 1 in the last.
LEMMA OneBin ==
    ASSUME NEW p \in 0 .. Unit
    PROVE  \E c \in 0 .. Bins - 1 : \A b \in 0 .. Bins - 1 : InBin(p, b) <=> b = c
<1>1. Unit \in Nat /\ Unit > 0 /\ Bins \in Nat /\ Bins > 0 /\ p \in Int
  BY CalibrationAssumption
<1> DEFINE S == {b \in 0 .. Bins - 1 : b * Unit <= Bins * p}  c == Max(S)
<1>2. S \subseteq 0 .. Bins - 1 /\ S # {}
  <2>1. 0 \in S
    BY <1>1
  <2> QED BY <2>1
<1>3. c \in S /\ \A b \in S : b <= c
  <2> HIDE DEF S
  <2>1. Bins - 1 \in Nat
    BY <1>1
  <2> DEFINE n == Bins - 1
  <2>2. n \in Nat /\ S \subseteq 0 .. n
    BY <1>2, <2>1
  <2> HIDE DEF n
  <2> QED BY <1>2, <2>2, MaxIs
<1> HIDE DEF c
<1>4. c \in 0 .. Bins - 1 /\ c * Unit <= Bins * p /\ \A b \in 0 .. Bins - 1 : b * Unit <= Bins * p => b <= c
  BY <1>3
<1> HIDE DEF S
<1>5. InBin(p, c)
  <2>1. CASE c = Bins - 1
    <3>1. p < Unit => Bins * p < (c + 1) * Unit
      BY <1>1, <1>4, <2>1
    <3> QED BY <1>1, <1>4, <2>1, <3>1 DEF InBin
  <2>2. CASE c # Bins - 1
    <3>1. c + 1 \in 0 .. Bins - 1
      BY <1>1, <1>4, <2>2
    <3>2. ~ ((c + 1) * Unit <= Bins * p)
      BY <1>4, <3>1
    <3>3. (c + 1) * Unit \in Int /\ Bins * p \in Int
      BY <1>1, <3>1
    <3>4. Bins * p < (c + 1) * Unit
      BY <3>2, <3>3
    <3> QED BY <1>4, <3>4 DEF InBin
  <2> QED BY <2>1, <2>2
<1>6. ASSUME NEW b \in 0 .. Bins - 1, InBin(p, b) PROVE b = c
  <2>1. b <= c
    BY <1>4, <1>6 DEF InBin
  <2>2. CASE b = Bins - 1
    BY <1>1, <1>4, <2>1, <2>2
  <2>3. CASE Bins * p < (b + 1) * Unit
    <3>1. c * Unit < (b + 1) * Unit
      <4>1. c * Unit \in Int /\ Bins * p \in Int /\ (b + 1) * Unit \in Int
        BY <1>1, <1>4
      <4> QED BY <1>4, <2>3, <4>1
    <3>2. ~ (b + 1 <= c)
      <4>1. b + 1 <= c => (b + 1) * Unit <= c * Unit
        BY <1>1, <1>4, CancelOrder
      <4>2. c * Unit \in Int /\ (b + 1) * Unit \in Int
        BY <1>1, <1>4
      <4> QED BY <3>1, <4>1, <4>2
    <3> QED BY <1>4, <2>1, <3>2
  <2> QED BY <1>6, <2>2, <2>3 DEF InBin
<1> QED BY <1>4, <1>5, <1>6

LEMMA BinsLemma == ASSUME graded \in Seq(AllRows) PROVE BinsPartition
<1> SUFFICES ASSUME NEW p \in Forecasts(graded)
             PROVE  Cardinality({b \in 0 .. Bins - 1 : InBin(p, b)}) = 1
  BY DEF BinsPartition
<1>1. p \in 0 .. Unit
  BY RowListIs, ForecastsAre
<1>2. PICK c \in 0 .. Bins - 1 : \A b \in 0 .. Bins - 1 : InBin(p, b) <=> b = c
  BY <1>1, OneBin
<1>3. {b \in 0 .. Bins - 1 : InBin(p, b)} = {c}
  BY <1>2
<1> QED BY <1>3, FS_Singleton
-----------------------------------------------------------------------------
(* Pool adjacent violators.                                                *)

LEMMA MixAlgebra ==
    ASSUME NEW h \in Int, NEW k \in Int, NEW i \in Int, NEW l \in Int
    PROVE  /\ h * l <= i * k <=> h * (k + l) <= (h + i) * k
           /\ h * l <= i * k <=> (h + i) * l <= i * (k + l)
           /\ i * k <= h * l <=> i * (k + l) <= (h + i) * l
           /\ i * k <= h * l <=> (h + i) * k <= h * (k + l)
<1> DEFINE a == h * k  b == h * l  c == i * k  d == i * l
<1>1. a \in Int /\ b \in Int /\ c \in Int /\ d \in Int
  OBVIOUS
<1>2. h * (k + l) = a + b /\ (h + i) * k = a + c /\ (h + i) * l = b + d /\ i * (k + l) = c + d
  OBVIOUS
<1> HIDE DEF a, b, c, d
<1>3. /\ b <= c <=> a + b <= a + c
      /\ b <= c <=> b + d <= c + d
      /\ c <= b <=> c + d <= b + d
      /\ c <= b <=> a + c <= a + b
  BY <1>1
<1> QED BY <1>2, <1>3, Zenon DEF b, c

\* A rate as a quotient, and how it compares; a range without rows compares with all.
Fraction(q) == q[1] \in Int /\ q[2] \in Nat

LEMMA AtMostTrans ==
    ASSUME NEW p, NEW q, NEW r, Fraction(p), Fraction(q), Fraction(r), q[2] > 0,
           AtMost(p, q), AtMost(q, r)
    PROVE  AtMost(p, r)
<1> DEFINE a == p[1]  b == p[2]  c == q[1]  d == q[2]  e == r[1]  f == r[2]
<1>1. /\ a \in Int /\ b \in Nat /\ c \in Int /\ d \in Nat /\ e \in Int /\ f \in Nat /\ d > 0
      /\ a * d <= c * b /\ c * f <= e * d
  BY DEF Fraction, AtMost
<1>2. AtMost(p, r) <=> a * f <= e * b
  BY DEF AtMost
<1> HIDE DEF a, b, c, d, e, f
<1>3. (a * d) * f <= (c * b) * f
  <2> DEFINE x == a * d  y == c * b
  <2>1. x \in Int /\ y \in Int /\ x <= y
    BY <1>1
  <2> HIDE DEF x, y
  <2>2. x * f <= y * f
    BY <1>1, <2>1
  <2> QED BY <2>2 DEF x, y
<1>4. (c * f) * b <= (e * d) * b
  <2> DEFINE x == c * f  y == e * d
  <2>1. x \in Int /\ y \in Int /\ x <= y
    BY <1>1
  <2> HIDE DEF x, y
  <2>2. x * b <= y * b
    BY <1>1, <2>1
  <2> QED BY <2>2 DEF x, y
<1>5. (a * d) * f = (a * f) * d /\ (c * b) * f = (c * f) * b /\ (e * d) * b = (e * b) * d
  BY <1>1
<1> DEFINE u == a * f  v == e * b  w == (c * f) * b
<1>6. u \in Int /\ v \in Int /\ w \in Int
  BY <1>1
<1>7. u * d <= w /\ w <= v * d
  BY <1>3, <1>4, <1>5
<1> HIDE DEF u, v, w
<1>8. u * d <= v * d
  BY <1>1, <1>6, <1>7
<1>9. u <= v
  BY <1>1, <1>6, <1>8, CancelOrder
<1> QED BY <1>2, <1>9 DEF u, v

LEMMA RateIs ==
    ASSUME NEW s, RowList(s), NEW a \in Int, NEW b \in Int
    PROVE  /\ Fraction(Rate(s, a, b)) /\ Rate(s, a, b)[1] = HitsIn(s, a, b) /\ Rate(s, a, b)[2] = CountIn(s, a, b)
           /\ AtMost(Rate(s, a, b), Rate(s, a, b))
           /\ \A x \in Forecasts(s) : a <= x /\ x <= b => Rate(s, a, b)[2] > 0
<1>1. Rate(s, a, b)[1] = HitsIn(s, a, b) /\ Rate(s, a, b)[2] = CountIn(s, a, b)
  BY DEF Rate
<1>2. HitsIn(s, a, b) \in Nat /\ CountIn(s, a, b) \in Nat
  BY RatesAre
<1>3. \A x \in Forecasts(s) : a <= x /\ x <= b => CountIn(s, a, b) > 0
  BY RatesSome
<1> QED BY <1>1, <1>2, <1>3 DEF Fraction, AtMost

\* The rate of a range lies between those of its two halves.
LEMMA RateMix ==
    ASSUME NEW s, RowList(s), NEW a \in Int, NEW b \in Int, NEW c \in Int, a <= b + 1, b <= c
    PROVE  /\ AtMost(Rate(s, a, b), Rate(s, b + 1, c)) <=> AtMost(Rate(s, a, b), Rate(s, a, c))
           /\ AtMost(Rate(s, a, b), Rate(s, b + 1, c)) <=> AtMost(Rate(s, a, c), Rate(s, b + 1, c))
           /\ AtMost(Rate(s, b + 1, c), Rate(s, a, b)) <=> AtMost(Rate(s, b + 1, c), Rate(s, a, c))
           /\ AtMost(Rate(s, b + 1, c), Rate(s, a, b)) <=> AtMost(Rate(s, a, c), Rate(s, a, b))
<1> DEFINE h == HitsIn(s, a, b)  k == CountIn(s, a, b)  i == HitsIn(s, b + 1, c)  l == CountIn(s, b + 1, c)
           p == Rate(s, a, b)  q == Rate(s, b + 1, c)  r == Rate(s, a, c)
<1>1. h \in Int /\ k \in Int /\ i \in Int /\ l \in Int
  <2>1. b + 1 \in Int
    OBVIOUS
  <2>2. h \in Nat /\ k \in Nat
    BY RatesAre
  <2>3. i \in Nat /\ l \in Nat
    BY <2>1, RatesAre
  <2> QED BY <2>2, <2>3
<1>2. HitsIn(s, a, c) = h + i /\ CountIn(s, a, c) = k + l
  BY RatesSplit
<1>3. p = <<h, k>> /\ q = <<i, l>> /\ r = <<h + i, k + l>>
  BY <1>2, Zenon DEF Rate
<1> HIDE DEF h, k, i, l, p, q, r
<1>4. /\ AtMost(p, q) <=> h * l <= i * k
      /\ AtMost(q, p) <=> i * k <= h * l
      /\ AtMost(p, r) <=> h * (k + l) <= (h + i) * k
      /\ AtMost(r, p) <=> (h + i) * k <= h * (k + l)
      /\ AtMost(q, r) <=> i * (k + l) <= (h + i) * l
      /\ AtMost(r, q) <=> (h + i) * l <= i * (k + l)
  <2>1. p[1] = h /\ p[2] = k /\ q[1] = i /\ q[2] = l /\ r[1] = h + i /\ r[2] = k + l
    BY <1>3
  <2> QED BY <2>1, Zenon DEF AtMost
<1>5. /\ h * l <= i * k <=> h * (k + l) <= (h + i) * k
      /\ h * l <= i * k <=> (h + i) * l <= i * (k + l)
      /\ i * k <= h * l <=> i * (k + l) <= (h + i) * l
      /\ i * k <= h * l <=> (h + i) * k <= h * (k + l)
  BY <1>1, MixAlgebra
<1> QED BY <1>4, <1>5, Zenon DEF p, q, r

\* The block that starts at c ends before t, the next start or the end n.
Ends(starts, n, c, t) ==
    t \in starts \cup {n} /\ c < t /\ \A d \in starts : d <= c \/ t <= d

\* What pooling keeps of the forecasts below n: a block's rate is the least of those of
\* the ranges that start with it, and the largest of those of the ranges that end with it.
Pooled(s, n, starts) ==
    /\ starts \subseteq Forecasts(s) /\ \A c \in starts : c < n
    /\ \A x \in Forecasts(s) : x < n => \E c \in starts : c <= x
    /\ \A c \in starts, t \in 0 .. n : Ends(starts, n, c, t) =>
          /\ \A b \in c .. n - 1 : AtMost(Rate(s, c, t - 1), Rate(s, c, b))
          /\ \A a \in 0 .. t - 1 : AtMost(Rate(s, a, t - 1), Rate(s, c, t - 1))

\* A value nobody forecast changes no rate.
LEMMA RateSkips ==
    ASSUME NEW s, RowList(s), NEW x \in Nat, x \notin Forecasts(s), NEW a \in Int, a <= x
    PROVE  Rate(s, a, x) = Rate(s, a, x - 1)
<1>1. \A y \in Forecasts(s) : y \in Int
  BY ForecastsAre, UnitIs
<1>2. \A y \in Forecasts(s) : ~ (x <= y /\ y <= x)
  BY <1>1
<1>3. HitsIn(s, x, x) = 0 /\ CountIn(s, x, x) = 0
  BY <1>2, RatesNone
<1>4. x - 1 \in Int /\ a <= (x - 1) + 1 /\ x - 1 <= x /\ (x - 1) + 1 = x
  OBVIOUS
<1> DEFINE y == x - 1
<1>5. y \in Int /\ a <= y + 1 /\ y <= x /\ y + 1 = x
  BY <1>4
<1> HIDE DEF y
<1>6. HitsIn(s, a, x) = HitsIn(s, a, y) + HitsIn(s, y + 1, x) /\ CountIn(s, a, x) = CountIn(s, a, y) + CountIn(s, y + 1, x)
  BY <1>5, RatesSplit
<1>7. HitsIn(s, a, y) \in Nat /\ CountIn(s, a, y) \in Nat
  BY <1>5, RatesAre
<1>8. HitsIn(s, a, x) = HitsIn(s, a, y) /\ CountIn(s, a, x) = CountIn(s, a, y)
  BY <1>3, <1>5, <1>6, <1>7
<1> QED BY <1>8 DEF y, Rate

LEMMA PooledSkip ==
    ASSUME NEW s, RowList(s), NEW x \in Nat, x \notin Forecasts(s), NEW S, Pooled(s, x, S)
    PROVE  Pooled(s, x + 1, S)
<1>1. /\ S \subseteq Forecasts(s) /\ \A c \in S : c < x
      /\ \A y \in Forecasts(s) : y < x => \E c \in S : c <= y
      /\ \A c \in S, t \in 0 .. x : Ends(S, x, c, t) =>
            /\ \A b \in c .. x - 1 : AtMost(Rate(s, c, t - 1), Rate(s, c, b))
            /\ \A a \in 0 .. t - 1 : AtMost(Rate(s, a, t - 1), Rate(s, c, t - 1))
  BY DEF Pooled
<1>2. \A y \in Forecasts(s) : y \in Nat
  BY ForecastsAre, UnitIs
<1>3. \A c \in S : c \in Nat /\ c < x
  BY <1>1, <1>2
<1>4. \A c \in S : c < x + 1
  BY <1>3
<1>5. \A y \in Forecasts(s) : y < x + 1 => \E c \in S : c <= y
  BY <1>1, <1>2
<1>6. \A a \in Int : a <= x => Rate(s, a, x) = Rate(s, a, x - 1)
  BY RateSkips
<1>7. ASSUME NEW c \in S, NEW t \in 0 .. x + 1, Ends(S, x + 1, c, t)
      PROVE  /\ \A b \in c .. x + 1 - 1 : AtMost(Rate(s, c, t - 1), Rate(s, c, b))
             /\ \A a \in 0 .. t - 1 : AtMost(Rate(s, a, t - 1), Rate(s, c, t - 1))
  <2> DEFINE u == IF t = x + 1 THEN x ELSE t
  <2>1. u \in 0 .. x /\ Ends(S, x, c, u)
    BY <1>3, <1>7 DEF Ends
  <2>2. /\ \A b \in c .. x - 1 : AtMost(Rate(s, c, u - 1), Rate(s, c, b))
        /\ \A a \in 0 .. u - 1 : AtMost(Rate(s, a, u - 1), Rate(s, c, u - 1))
    BY <1>1, <2>1
  <2>3. \A a \in 0 .. t - 1 : Rate(s, a, t - 1) = Rate(s, a, u - 1)
    <3>1. CASE t = x + 1
      <4>1. t - 1 = x /\ u - 1 = x - 1
        BY <3>1
      <4> QED BY <1>6, <4>1
    <3>2. CASE t # x + 1
      BY <3>2
    <3> QED BY <3>1, <3>2
  <2>4. c \in 0 .. t - 1 /\ c \in Int /\ c <= x - 1 /\ c <= x /\ x + 1 - 1 = x
    BY <1>3, <2>1 DEF Ends
  <2> HIDE DEF u
  <2>5. Rate(s, c, t - 1) = Rate(s, c, u - 1)
    BY <2>3, <2>4
  <2>6. ASSUME NEW b \in c .. x PROVE AtMost(Rate(s, c, t - 1), Rate(s, c, b))
    <3>1. CASE b = x
      <4>1. Rate(s, c, x) = Rate(s, c, x - 1)
        BY <1>6, <2>4
      <4>2. x - 1 \in c .. x - 1
        BY <2>4
      <4> QED BY <2>2, <2>5, <3>1, <4>1, <4>2
    <3>2. CASE b # x
      <4>1. b \in c .. x - 1
        BY <3>2
      <4> QED BY <2>2, <2>5, <4>1
    <3> QED BY <3>1, <3>2
  <2>7. ASSUME NEW a \in 0 .. t - 1 PROVE AtMost(Rate(s, a, t - 1), Rate(s, c, t - 1))
    <3>1. CASE a \in 0 .. u - 1
      BY <2>2, <2>3, <2>5, <3>1
    <3>2. CASE a \notin 0 .. u - 1
      <4>1. a = x /\ t = x + 1 /\ t - 1 = x
        BY <1>7, <2>1, <3>2 DEF u
      <4>2. Rate(s, a, t - 1)[1] = 0 /\ Rate(s, a, t - 1)[2] = 0
        <5>1. \A y \in Forecasts(s) : ~ (x <= y /\ y <= x)
          BY <1>2
        <5>2. HitsIn(s, x, x) = 0 /\ CountIn(s, x, x) = 0
          BY <5>1, RatesNone
        <5>3. x \in Int
          OBVIOUS
        <5> QED BY <4>1, <5>2, <5>3, RateIs
      <4>3. Fraction(Rate(s, c, t - 1))
        <5>1. t - 1 \in Int
          OBVIOUS
        <5> QED BY <2>4, <5>1, RateIs
      <4> DEFINE i == Rate(s, c, t - 1)[1]  j == Rate(s, c, t - 1)[2]
      <4>4. i \in Int /\ j \in Int
        BY <4>3 DEF Fraction
      <4>5. 0 * j <= i * 0
        BY <4>4
      <4> QED BY <4>2, <4>5 DEF AtMost
    <3> QED BY <3>1, <3>2
  <2> QED BY <2>4, <2>6, <2>7
<1> QED BY <1>1, <1>4, <1>5, <1>7 DEF Pooled

\* A start above the settled one has the higher rate before it; the settled one has not.
LEMMA SettledIs ==
    ASSUME NEW s, RowList(s), NEW x \in Nat, x \in Forecasts(s), NEW S, S \subseteq Nat,
           \A c \in S : c < x
    PROVE  /\ Settled(s, S, x) \subseteq 0 .. x /\ Settled(s, S, x) # {}
           /\ \A c \in S \cup {x} :
                 c \in Settled(s, S, x) <=>
                    \A p \in S : Ends(S, x, p, c) => AtMost(Rate(s, p, c - 1), Rate(s, c, x))
<1> DEFINE T == S \cup {x}  G == Settled(s, S, x)
           Prior(c) == {a \in S : a < c}
           Clear(c) == Prior(c) # {} => ~Less(Rate(s, c, x), Rate(s, Max(Prior(c)), c - 1))
<1>1. T \subseteq 0 .. x /\ \A c \in T : c \in Nat /\ c <= x
  OBVIOUS
<1>2. G = {c \in T : Clear(c)}
  BY DEF Settled
<1>3. PICK m \in T : \A y \in T : m <= y
  <2>1. T \subseteq Nat /\ T # {}
    OBVIOUS
  <2> HIDE DEF T
  <2> QED BY <2>1, LeastNumber
<1>4. m \in G
  <2>1. Prior(m) = {}
    <3> SUFFICES ASSUME NEW a \in S, a < m PROVE FALSE
      OBVIOUS
    <3>1. a \in T /\ m \in T
      BY <1>3
    <3>2. a \in Nat /\ m \in Nat /\ m <= a
      BY <1>1, <1>3, <3>1
    <3> QED BY <3>2
  <2> HIDE DEF Prior
  <2> QED BY <1>2, <1>3, <2>1
<1>5. ASSUME NEW c \in T
      PROVE  Clear(c) <=> \A p \in S : Ends(S, x, p, c) => AtMost(Rate(s, p, c - 1), Rate(s, c, x))
  <2>1. c \in Nat
    BY <1>1
  <2>2. \A p \in S : Less(Rate(s, c, x), Rate(s, p, c - 1)) <=> ~AtMost(Rate(s, p, c - 1), Rate(s, c, x))
    <3> SUFFICES ASSUME NEW p \in S
                 PROVE  Less(Rate(s, c, x), Rate(s, p, c - 1)) <=> ~AtMost(Rate(s, p, c - 1), Rate(s, c, x))
      OBVIOUS
    <3>1. p \in Int /\ c - 1 \in Int /\ c \in Int /\ x \in Int
      BY <1>1, <2>1
    <3>2. HitsIn(s, c, x) \in Nat /\ CountIn(s, c, x) \in Nat
      BY <3>1, RatesAre
    <3>3. HitsIn(s, p, c - 1) \in Nat /\ CountIn(s, p, c - 1) \in Nat
      BY <3>1, RatesAre
    <3> DEFINE h == HitsIn(s, c, x)  k == CountIn(s, c, x)  i == HitsIn(s, p, c - 1)  l == CountIn(s, p, c - 1)
    <3>4. /\ Less(Rate(s, c, x), Rate(s, p, c - 1)) <=> h * l < i * k
          /\ AtMost(Rate(s, p, c - 1), Rate(s, c, x)) <=> i * k <= h * l
      BY DEF Less, AtMost, Rate
    <3>5. h * l \in Int /\ i * k \in Int
      <4>1. h \in Int /\ k \in Int /\ i \in Int /\ l \in Int
        BY <3>2, <3>3
      <4> HIDE DEF h, k, i, l
      <4> QED BY <4>1
    <3> DEFINE u == h * l  v == i * k
    <3> HIDE DEF u, v, h, k, i, l
    <3>6. u \in Int /\ v \in Int
      BY <3>5 DEF u, v
    <3>7. u < v <=> ~ (v <= u)
      BY <3>6
    <3> QED BY <3>4, <3>7, Zenon DEF u, v
  <2>3. CASE Prior(c) = {}
    <3>1. \A p \in S : ~ Ends(S, x, p, c)
      BY <2>3 DEF Ends
    <3> HIDE DEF Prior
    <3> QED BY <2>3, <3>1
  <2>4. CASE Prior(c) # {}
    <3> DEFINE p == Max(Prior(c))
    <3>1. p \in Prior(c) /\ \A y \in Prior(c) : y <= p
      <4>1. Prior(c) \subseteq 0 .. c
        <5> SUFFICES ASSUME NEW a \in S, a < c PROVE a \in 0 .. c
          OBVIOUS
        <5>1. a \in Nat
          OBVIOUS
        <5> QED BY <2>1, <5>1
      <4> HIDE DEF Prior
      <4> QED BY <2>1, <2>4, <4>1, MaxIs
    <3> HIDE DEF p
    <3>2. p \in S /\ p < c /\ \A y \in S : y < c => y <= p
      BY <3>1
    <3>3. Ends(S, x, p, c)
      BY <1>1, <2>1, <3>2 DEF Ends
    <3>4. \A q \in S : Ends(S, x, q, c) => q = p
      BY <1>1, <2>1, <3>2 DEF Ends
    <3>5. Clear(c) <=> ~Less(Rate(s, c, x), Rate(s, p, c - 1))
      BY <2>4 DEF p
    <3> HIDE DEF Clear
    <3> QED BY <2>2, <3>2, <3>3, <3>4, <3>5
  <2> QED BY <2>3, <2>4
<1> HIDE DEF Clear
<1> QED BY <1>1, <1>2, <1>4, <1>5

LEMMA PooledStep ==
    ASSUME NEW s, RowList(s), NEW x \in Nat, x \in Forecasts(s), NEW S, Pooled(s, x, S)
    PROVE  Pooled(s, x + 1, Pool(s, S, x))
<1> DEFINE F == Forecasts(s)  T == S \cup {x}  z == Max(Settled(s, S, x))  W == Pool(s, S, x)
           M(a, b) == Rate(s, a, b)
<1>1. /\ S \subseteq F /\ \A c \in S : c < x
      /\ \A y \in F : y < x => \E c \in S : c <= y
      /\ \A c \in S, t \in 0 .. x : Ends(S, x, c, t) =>
            /\ \A b \in c .. x - 1 : AtMost(M(c, t - 1), M(c, b))
            /\ \A a \in 0 .. t - 1 : AtMost(M(a, t - 1), M(c, t - 1))
  BY DEF Pooled
<1>2. \A y \in F : y \in Nat
  BY ForecastsAre, UnitIs
<1>3. T \subseteq F /\ \A c \in T : c \in 0 .. x /\ c \in Int
  BY <1>1, <1>2
<1>4. z \in T /\ z \in Settled(s, S, x) /\ \A c \in Settled(s, S, x) : c <= z
  <2>1. Settled(s, S, x) \subseteq 0 .. x /\ Settled(s, S, x) # {}
    BY <1>1, <1>2, SettledIs
  <2>2. Settled(s, S, x) \subseteq T
    BY DEF Settled
  <2> QED BY <2>1, <2>2, MaxIs
<1>5. W = {a \in T : a <= z}
  BY DEF Pool
<1>6. \A c \in T : c \in Settled(s, S, x) <=>
         \A p \in S : Ends(S, x, p, c) => AtMost(M(p, c - 1), M(c, x))
  BY <1>1, <1>2, SettledIs
<1> HIDE DEF z, W
<1> DEFINE Count1(a, b) == M(a, b)[2] > 0
<1>7. \A a, b \in Int : /\ Fraction(M(a, b)) /\ AtMost(M(a, b), M(a, b))
                        /\ \A y \in F : a <= y /\ y <= b => M(a, b)[2] > 0
  BY RateIs
<1>8. \A a, b, c, d, e, f \in Int :
         AtMost(M(a, b), M(c, d)) /\ AtMost(M(c, d), M(e, f)) /\ M(c, d)[2] > 0 => AtMost(M(a, b), M(e, f))
  <2> SUFFICES ASSUME NEW a \in Int, NEW b \in Int, NEW c \in Int, NEW d \in Int, NEW e \in Int, NEW f \in Int,
                      AtMost(M(a, b), M(c, d)), AtMost(M(c, d), M(e, f)), M(c, d)[2] > 0
               PROVE  AtMost(M(a, b), M(e, f))
    OBVIOUS
  <2>1. Fraction(M(a, b)) /\ Fraction(M(c, d)) /\ Fraction(M(e, f))
    BY <1>7
  <2> DEFINE u == M(a, b)  v == M(c, d)  w == M(e, f)
  <2>2. Fraction(u) /\ Fraction(v) /\ Fraction(w) /\ v[2] > 0 /\ AtMost(u, v) /\ AtMost(v, w)
    BY <2>1
  <2> HIDE DEF u, v, w
  <2>3. AtMost(u, w)
    BY <2>2, AtMostTrans
  <2> QED BY <2>3 DEF u, w
<1>9. \A a, b, c \in Int : a <= b + 1 /\ b <= c =>
         /\ AtMost(M(a, b), M(b + 1, c)) <=> AtMost(M(a, b), M(a, c))
         /\ AtMost(M(a, b), M(b + 1, c)) <=> AtMost(M(a, c), M(b + 1, c))
         /\ AtMost(M(b + 1, c), M(a, b)) <=> AtMost(M(b + 1, c), M(a, c))
         /\ AtMost(M(b + 1, c), M(a, b)) <=> AtMost(M(a, c), M(a, b))
  <2> SUFFICES ASSUME NEW a \in Int, NEW b \in Int, NEW c \in Int, a <= b + 1, b <= c
               PROVE  /\ AtMost(M(a, b), M(b + 1, c)) <=> AtMost(M(a, b), M(a, c))
                      /\ AtMost(M(a, b), M(b + 1, c)) <=> AtMost(M(a, c), M(b + 1, c))
                      /\ AtMost(M(b + 1, c), M(a, b)) <=> AtMost(M(b + 1, c), M(a, c))
                      /\ AtMost(M(b + 1, c), M(a, b)) <=> AtMost(M(a, c), M(a, b))
    OBVIOUS
  <2> QED BY RateMix
<1> HIDE DEF M
\* The start before t, and what is known of its block.
<1>10. ASSUME NEW t \in T, \E p \in S : p < t
       PROVE  \E p \in S : Ends(S, x, p, t) /\ \A q \in S : q < t => q <= p
  <2> DEFINE P == {q \in S : q < t}
  <2>1. P \subseteq 0 .. t /\ P # {} /\ t \in Nat
    <3>1. t \in Nat /\ P # {}
      BY <1>3, <1>10
    <3>2. \A q \in S : q \in Nat
      BY <1>1, <1>2
    <3>3. \A q \in S : q < t => q \in 0 .. t
      BY <3>1, <3>2
    <3> QED BY <3>1, <3>3
  <2> HIDE DEF P
  <2>2. Max(P) \in P /\ \A q \in P : q <= Max(P)
    BY <2>1, MaxIs
  <2>3. PICK p \in P : \A q \in P : q <= p
    BY <2>2
  <2>4. p \in S /\ p < t /\ \A q \in S : q < t => q <= p
    BY <2>3 DEF P
  <2>5. Ends(S, x, p, t)
    BY <1>1, <1>3, <2>4 DEF Ends
  <2> QED BY <2>4, <2>5
\* Going down, the rates up to x rise until the start that is settled.
<1>11. \A t \in T : z <= t => AtMost(M(t, x), M(z, x))
  <2> DEFINE bad == {t \in T : z <= t /\ ~AtMost(M(t, x), M(z, x))}
  <2> SUFFICES ASSUME bad # {} PROVE FALSE
    OBVIOUS
  <2>1. PICK t \in bad : \A y \in bad : t <= y
    <3>1. bad \subseteq Nat
      BY <1>3
    <3> HIDE DEF bad
    <3> QED BY <3>1, LeastNumber
  <2>2. t \in T /\ z <= t /\ ~AtMost(M(t, x), M(z, x)) /\ t \in Int /\ z \in Int /\ x \in Int /\ t <= x
    BY <1>3, <1>4, <2>1
  <2>3. t # z
    BY <1>7, <2>2
  <2>4. t \notin Settled(s, S, x)
    BY <1>4, <2>2, <2>3
  <2>5. PICK p \in S : Ends(S, x, p, t) /\ ~AtMost(M(p, t - 1), M(t, x))
    BY <1>6, <2>2, <2>4
  <2>6. z \in S /\ z < t
    BY <1>1, <1>3, <1>4, <2>2, <2>3
  <2>7. p \in Int /\ p < t /\ z <= p /\ p \in T
    BY <1>3, <2>2, <2>5, <2>6 DEF Ends
  <2>8. AtMost(M(p, x), M(z, x))
    <3>1. p \notin bad
      BY <2>1, <2>7
    <3> QED BY <2>7, <3>1
  <2>9. AtMost(M(t, x), M(p, t - 1))
    <3> DEFINE u == M(p, t - 1)  v == M(t, x)
    <3>1. Fraction(u) /\ Fraction(v)
      BY <1>7, <2>2, <2>7
    <3>2. ~AtMost(u, v)
      BY <2>5
    <3> HIDE DEF u, v
    <3> DEFINE a == u[1]  b == u[2]  c == v[1]  d == v[2]
    <3>3. a \in Int /\ b \in Int /\ c \in Int /\ d \in Int /\ ~ (a * d <= c * b)
      BY <3>1, <3>2 DEF Fraction, AtMost
    <3> HIDE DEF a, b, c, d
    <3>4. c * b <= a * d
      <4>1. c * b \in Int /\ a * d \in Int
        BY <3>3
      <4> QED BY <3>3, <4>1
    <3>5. AtMost(v, u)
      BY <3>4 DEF AtMost, a, b, c, d
    <3> QED BY <3>5 DEF u, v
  <2>10. AtMost(M(t, x), M(p, x))
    <3> DEFINE e == t - 1
    <3>1. e \in Int /\ e + 1 = t /\ p <= e + 1 /\ e <= x
      BY <2>2, <2>7
    <3>2. AtMost(M(e + 1, x), M(p, e))
      BY <2>9, <3>1
    <3> HIDE DEF e
    <3>3. AtMost(M(e + 1, x), M(p, x))
      BY <1>9, <2>2, <2>7, <3>1, <3>2
    <3> QED BY <3>1, <3>3
  <2>11. M(p, x)[2] > 0
    <3>1. p \in F /\ p <= p /\ p <= x
      BY <1>3, <2>7
    <3> QED BY <1>7, <2>2, <2>7, <3>1
  <2>12. AtMost(M(t, x), M(z, x))
    BY <1>8, <2>2, <2>7, <2>8, <2>10, <2>11
  <2> QED BY <2>2, <2>12
\* What lies before the settled start has no higher rate.
<1>12. ASSUME NEW a \in Int, 0 <= a, a < z, \E p \in S : p < z
       PROVE  AtMost(M(a, z - 1), M(z, x))
  <2>0. z \in Int /\ x \in Int /\ z - 1 \in Int /\ z <= x /\ z \in 0 .. x
    BY <1>3, <1>4
  <2>1. PICK p \in S : Ends(S, x, p, z) /\ \A q \in S : q < z => q <= p
    BY <1>4, <1>10, <1>12
  <2>2. AtMost(M(p, z - 1), M(z, x))
    BY <1>4, <1>6, <2>1
  <2>3. AtMost(M(a, z - 1), M(p, z - 1))
    <3>1. a \in 0 .. z - 1
      BY <1>12, <2>0
    <3> QED BY <1>1, <2>0, <2>1, <3>1
  <2>4. p \in Int /\ p <= z - 1 /\ p \in F
    BY <1>1, <1>3, <2>0, <2>1 DEF Ends
  <2>5. M(p, z - 1)[2] > 0
    <3>1. p <= p
      BY <2>4
    <3> QED BY <1>7, <2>0, <2>4, <3>1
  <2> QED BY <1>8, <2>0, <2>2, <2>3, <2>4, <2>5
\* No range that ends with x has a higher rate than the new block.
<1>13. ASSUME NEW a \in 0 .. x PROVE AtMost(M(a, x), M(z, x))
  <2>0. z \in Int /\ x \in Int /\ a \in Int /\ z <= x /\ 0 <= z /\ z \in F
    BY <1>3, <1>4
  <2>1. CASE a < z
    <3>1. CASE \E p \in S : p < z
      <4>1. AtMost(M(a, z - 1), M(z, x))
        BY <1>12, <2>0, <2>1, <3>1
      <4> DEFINE e == z - 1
      <4>2. e \in Int /\ e + 1 = z /\ a <= e + 1 /\ e <= x
        BY <2>0, <2>1
      <4>3. AtMost(M(a, e), M(e + 1, x))
        BY <4>1, <4>2
      <4> HIDE DEF e
      <4>4. AtMost(M(a, x), M(e + 1, x))
        BY <1>9, <2>0, <4>2, <4>3
      <4> QED BY <4>2, <4>4
    <3>2. CASE ~ \E p \in S : p < z
      <4>1. \A y \in F : ~ (a <= y /\ y <= z - 1)
        <5> SUFFICES ASSUME NEW y \in F, y < z PROVE FALSE
          BY <1>2, <2>0
        <5>1. y < x
          BY <1>2, <2>0
        <5>2. PICK c \in S : c <= y
          BY <1>1, <5>1
        <5> QED BY <1>2, <1>3, <2>0, <3>2, <5>2
      <4> DEFINE e == z - 1
      <4>2. e \in Int /\ e + 1 = z /\ a <= e + 1 /\ e <= x
        BY <2>0, <2>1
      <4> HIDE DEF e
      <4>3. HitsIn(s, a, e) = 0 /\ CountIn(s, a, e) = 0
        <5>1. \A y \in F : ~ (a <= y /\ y <= e)
          BY <4>1 DEF e
        <5> QED BY <2>0, <4>2, <5>1, RatesNone
      <4>4. HitsIn(s, a, x) = HitsIn(s, a, e) + HitsIn(s, e + 1, x) /\ CountIn(s, a, x) = CountIn(s, a, e) + CountIn(s, e + 1, x)
        BY <2>0, <4>2, RatesSplit
      <4>5. HitsIn(s, z, x) \in Nat /\ CountIn(s, z, x) \in Nat
        BY <2>0, RatesAre
      <4>6. M(a, x) = M(z, x)
        BY <4>2, <4>3, <4>4, <4>5 DEF M, Rate
      <4> QED BY <1>7, <2>0, <4>6
    <3> QED BY <3>1, <3>2
  <2>2. CASE z <= a /\ a \in T
    BY <1>11, <2>2
  <2>3. CASE z <= a /\ a \notin T
    <3>1. z \in S /\ z < a /\ a < x
      BY <1>4, <2>0, <2>3
    <3>2. PICK c \in S : c < a /\ \A q \in S : q < a => q <= c
      <4> DEFINE P == {q \in S : q < a}
      <4>1. P \subseteq 0 .. a /\ P # {} /\ a \in Nat
        <5>1. a \in Nat /\ P # {}
          BY <2>0, <3>1
        <5>2. \A q \in S : q \in Nat
          BY <1>1, <1>2
        <5>3. \A q \in S : q < a => q \in 0 .. a
          BY <5>1, <5>2
        <5> QED BY <5>1, <5>3
      <4> HIDE DEF P
      <4>2. Max(P) \in P /\ \A q \in P : q <= Max(P)
        BY <4>1, MaxIs
      <4>3. PICK p \in P : \A q \in P : q <= p
        BY <4>2
      <4> QED BY <4>3 DEF P
    <3>3. z <= c /\ c \in Int /\ c \in F /\ c \in T /\ c \in 0 .. x
      BY <1>3, <3>1, <3>2
    <3>4. PICK t \in T : a <= t /\ \A q \in T : a <= q => t <= q
      <4> DEFINE P == {q \in T : a <= q}
      <4>1. P \subseteq Nat /\ P # {}
        BY <1>3, <2>0
      <4> HIDE DEF P
      <4>2. PICK t \in P : \A q \in P : t <= q
        BY <4>1, LeastNumber
      <4> QED BY <4>2 DEF P
    <3>5. t \in Int /\ a < t /\ t <= x /\ t \in 0 .. x /\ Ends(S, x, c, t)
      <4>1. t \in Int /\ a < t /\ t <= x /\ t \in 0 .. x
        BY <1>3, <2>0, <2>3, <3>4
      <4>2. \A d \in S : d <= c \/ t <= d
        <5> SUFFICES ASSUME NEW d \in S PROVE d <= c \/ t <= d
          OBVIOUS
        <5>1. d \in Int /\ d \in T
          BY <1>3
        <5>2. d < a \/ a <= d
          BY <2>0, <5>1
        <5> QED BY <3>2, <3>4, <5>1, <5>2
      <4> QED BY <2>0, <3>2, <3>3, <4>1, <4>2 DEF Ends
    <3>6. AtMost(M(t, x), M(c, t - 1))
      <4>1. t \notin Settled(s, S, x)
        BY <1>4, <2>0, <3>1, <3>5
      <4>2. PICK p \in S : Ends(S, x, p, t) /\ ~AtMost(M(p, t - 1), M(t, x))
        BY <1>6, <3>4, <4>1
      <4>3. p = c
        BY <1>3, <3>3, <3>5, <4>2 DEF Ends
      <4> DEFINE u == M(c, t - 1)  v == M(t, x)
      <4>4. Fraction(u) /\ Fraction(v)
        <5>1. t - 1 \in Int
          BY <3>5
        <5> QED BY <1>7, <2>0, <3>3, <3>5, <5>1
      <4>5. ~AtMost(u, v)
        BY <4>2, <4>3
      <4> HIDE DEF u, v
      <4> DEFINE g == u[1]  h == u[2]  i == v[1]  j == v[2]
      <4>6. g \in Int /\ h \in Int /\ i \in Int /\ j \in Int /\ ~ (g * j <= i * h)
        BY <4>4, <4>5 DEF Fraction, AtMost
      <4> HIDE DEF g, h, i, j
      <4>7. i * h <= g * j
        <5>1. i * h \in Int /\ g * j \in Int
          BY <4>6
        <5> QED BY <4>6, <5>1
      <4>8. AtMost(v, u)
        BY <4>7 DEF AtMost, g, h, i, j
      <4> QED BY <4>8 DEF u, v
    <3>7. AtMost(M(c, x), M(c, t - 1))
      <4> DEFINE e == t - 1
      <4>1. e \in Int /\ e + 1 = t /\ c <= e + 1 /\ e <= x
        BY <2>0, <3>2, <3>3, <3>5
      <4>2. AtMost(M(e + 1, x), M(c, e))
        BY <3>6, <4>1
      <4> HIDE DEF e
      <4>3. AtMost(M(c, x), M(c, e))
        BY <1>9, <2>0, <3>3, <4>1, <4>2
      <4> QED BY <4>3 DEF e
    <3>8. AtMost(M(c, t - 1), M(c, a - 1))
      <4>1. a - 1 \in c .. x - 1
        BY <2>0, <3>1, <3>2, <3>3
      <4> QED BY <1>1, <3>5, <4>1
    <3>9. AtMost(M(c, x), M(c, a - 1))
      <4>1. c <= t - 1 /\ c <= c /\ t - 1 \in Int /\ a - 1 \in Int
        BY <2>0, <3>2, <3>3, <3>5
      <4>2. M(c, t - 1)[2] > 0
        BY <1>7, <3>3, <4>1
      <4> QED BY <1>8, <2>0, <3>3, <3>7, <3>8, <4>1, <4>2
    <3>10. AtMost(M(a, x), M(c, x))
      <4> DEFINE e == a - 1
      <4>1. e \in Int /\ e + 1 = a /\ c <= e + 1 /\ e <= x
        BY <2>0, <3>1, <3>2, <3>3
      <4>2. AtMost(M(c, x), M(c, e))
        BY <3>9
      <4> HIDE DEF e
      <4>3. AtMost(M(e + 1, x), M(c, x))
        BY <1>9, <2>0, <3>3, <4>1, <4>2
      <4> QED BY <4>1, <4>3
    <3>11. AtMost(M(c, x), M(z, x))
      BY <1>11, <3>3
    <3>12. M(c, x)[2] > 0
      <4>1. c <= c /\ c <= x
        BY <3>3
      <4> QED BY <1>7, <2>0, <3>3, <4>1
    <3> QED BY <1>8, <2>0, <3>3, <3>10, <3>11, <3>12
  <2> QED BY <2>0, <2>1, <2>2, <2>3
\* The new block's rate is the least of those of the ranges that start with it.
<1>14. ASSUME NEW b \in z .. x PROVE AtMost(M(z, x), M(z, b))
  <2>0. z \in Int /\ x \in Int /\ b \in Int /\ z <= b /\ b <= x /\ 0 <= z
    BY <1>3, <1>4
  <2>1. CASE b = x
    BY <1>7, <2>0, <2>1
  <2>2. CASE b < x
    <3>1. b + 1 \in 0 .. x /\ z <= b + 1
      BY <2>0, <2>2
    <3>2. AtMost(M(b + 1, x), M(z, x))
      BY <1>13, <3>1
    <3> QED BY <1>9, <2>0, <3>1, <3>2
  <2> QED BY <2>0, <2>1, <2>2
\* The blocks before it keep theirs.
<1>15. ASSUME NEW c \in S, c < z, NEW t \in 0 .. x, Ends(S, x, c, t)
       PROVE  AtMost(M(c, t - 1), M(c, x))
  <2>0. z \in Int /\ x \in Int /\ c \in Int /\ 0 <= c /\ t \in Int /\ z <= x /\ c < t /\ c \in F
    BY <1>1, <1>3, <1>4, <1>15 DEF Ends
  <2>1. AtMost(M(c, z - 1), M(z, x))
    BY <1>12, <1>15, <2>0
  <2> DEFINE e == z - 1
  <2>2. e \in Int /\ e + 1 = z /\ c <= e /\ c <= e + 1 /\ e <= x /\ e \in c .. x - 1
    BY <1>15, <2>0
  <2>3. AtMost(M(c, e), M(e + 1, x))
    BY <2>1, <2>2
  <2> HIDE DEF e
  <2>4. AtMost(M(c, e), M(c, x))
    BY <1>9, <2>0, <2>2, <2>3
  <2>5. AtMost(M(c, t - 1), M(c, e))
    BY <1>1, <1>15, <2>2
  <2>6. M(c, e)[2] > 0
    <3>1. c <= c
      BY <2>0
    <3> QED BY <1>7, <2>0, <2>2, <3>1
  <2>7. t - 1 \in Int
    BY <2>0
  <2> QED BY <1>8, <2>0, <2>2, <2>4, <2>5, <2>6, <2>7
<1>16. W \subseteq F /\ \A c \in W : c < x + 1
  BY <1>3, <1>5
<1>17. \A y \in F : y < x + 1 => \E c \in W : c <= y
  <2> SUFFICES ASSUME NEW y \in F, y < x + 1 PROVE \E c \in W : c <= y
    OBVIOUS
  <2>1. y \in Int /\ z \in Int /\ z \in W
    BY <1>2, <1>3, <1>4, <1>5
  <2>2. CASE z <= y
    BY <2>1, <2>2
  <2>3. CASE y < z
    <3>1. y < x
      BY <1>3, <1>4, <2>1, <2>3
    <3>2. PICK c \in S : c <= y
      BY <1>1, <3>1
    <3>3. c \in W
      BY <1>3, <1>5, <2>1, <2>3, <3>2
    <3> QED BY <3>2, <3>3
  <2> QED BY <2>1, <2>2, <2>3
<1>18. ASSUME NEW c \in W, NEW t \in 0 .. x + 1, Ends(W, x + 1, c, t)
       PROVE  /\ \A b \in c .. x + 1 - 1 : AtMost(M(c, t - 1), M(c, b))
              /\ \A a \in 0 .. t - 1 : AtMost(M(a, t - 1), M(c, t - 1))
  <2>0. z \in Int /\ c \in Int /\ c \in T /\ c <= z /\ c < t /\ t \in Int /\ z <= x /\ z \in W /\ x \in Int
    BY <1>3, <1>4, <1>5, <1>18 DEF Ends
  <2>1. CASE c = z
    <3>1. t = x + 1 /\ t - 1 = x /\ x + 1 - 1 = x
      <4>1. t \notin W
        BY <1>5, <2>0, <2>1
      <4> QED BY <1>18, <4>1 DEF Ends
    <3> QED BY <1>13, <1>14, <2>1, <3>1
  <2>2. CASE c < z
    <3>1. c \in S /\ t \in 0 .. x /\ t <= z
      <4>1. t <= z
        BY <1>18, <2>0, <2>2 DEF Ends
      <4> QED BY <1>18, <2>0, <2>2, <4>1
    <3>2. Ends(S, x, c, t)
      <4>1. t \in S \cup {x}
        BY <1>5, <1>18, <2>0, <3>1 DEF Ends
      <4>2. \A d \in S : d <= c \/ t <= d
        <5> SUFFICES ASSUME NEW d \in S PROVE d <= c \/ t <= d
          OBVIOUS
        <5>1. d \in Int
          BY <1>3
        <5>2. CASE d <= z
          <6>1. d \in W
            BY <1>5, <5>2
          <6> QED BY <1>18, <6>1 DEF Ends
        <5>3. CASE z < d
          BY <2>0, <3>1, <5>1, <5>3
        <5> QED BY <2>0, <5>1, <5>2, <5>3
      <4> QED BY <2>0, <4>1, <4>2 DEF Ends
    <3>3. /\ \A b \in c .. x - 1 : AtMost(M(c, t - 1), M(c, b))
          /\ \A a \in 0 .. t - 1 : AtMost(M(a, t - 1), M(c, t - 1))
      BY <1>1, <3>1, <3>2
    <3>4. AtMost(M(c, t - 1), M(c, x))
      BY <1>15, <2>2, <3>1, <3>2
    <3>5. \A b \in c .. x + 1 - 1 : b \in c .. x - 1 \/ b = x
      BY <2>0
    <3> QED BY <3>3, <3>4, <3>5
  <2> QED BY <2>0, <2>1, <2>2
<1> QED BY <1>16, <1>17, <1>18 DEF Pooled, W, M

PoolRule(s) ==
    [n \in 1 .. Unit + 1 |->
        [S \in SUBSET (0 .. Unit) |-> IF n - 1 \in Forecasts(s) THEN Pool(s, S, n - 1) ELSE S]]

LEMMA BlocksArePooled == ASSUME NEW s, RowList(s) PROVE Pooled(s, Unit + 1, Blocks(s))
<1> DEFINE N == Unit + 1  X == SUBSET (0 .. Unit)  D == PoolRule(s)  F == Forecasts(s)
           Next1(n, S) == IF n - 1 \in F THEN Pool(s, S, n - 1) ELSE S
           Adds(g) == g = [n \in 0 .. N |-> IF n = 0 THEN {} ELSE Next1(n, g[n - 1])]
           below == CHOOSE g : Adds(g)
<1>1. N \in Nat /\ {} \in X /\ Unit \in Nat /\ F \subseteq 0 .. Unit
  BY UnitIs, ForecastsAre
<1>2. \A n \in 1 .. N, S \in X : Next1(n, S) \in X
  <2>1. ASSUME NEW n \in 1 .. N, NEW S \in X, n - 1 \in F PROVE Pool(s, S, n - 1) \in X
    <3>1. Pool(s, S, n - 1) \subseteq S \cup {n - 1}
      BY DEF Pool
    <3>2. n - 1 \in 0 .. Unit
      BY <1>1, <2>1
    <3> QED BY <3>1, <3>2
  <2> QED BY <2>1
<1>3. D \in Rules(N, X) /\ \A n \in 1 .. N, S \in X : D[n][S] = Next1(n, S)
  BY <1>2 DEF Rules, PoolRule
<1> HIDE DEF X, D
<1>4. PICK f : Unrolls(N, X, {}, D, f)
  BY <1>1, <1>3, Recursion
<1>5. f \in [0 .. N -> X] /\ f[0] = {} /\ \A n \in 1 .. N : f[n] = Next1(n, f[n - 1])
  <2> HIDE DEF Next1
  <2>1. f \in [0 .. N -> X] /\ f[0] = {} /\ \A n \in 1 .. N : f[n] = D[n][f[n - 1]]
    BY <1>4 DEF Unrolls
  <2>2. \A n \in 1 .. N : f[n - 1] \in X
    <3>1. \A n \in 1 .. N : n - 1 \in 0 .. N
      BY <1>1
    <3> QED BY <2>1, <3>1
  <2> QED BY <1>3, <2>1, <2>2
<1>6. Adds(f)
  <2> HIDE DEF Next1
  <2>1. \A n \in 0 .. N : n # 0 => n \in 1 .. N
    BY <1>1
  <2>2. \A n \in 0 .. N : f[n] = IF n = 0 THEN {} ELSE Next1(n, f[n - 1])
    BY <1>5, <2>1
  <2> QED BY <1>5, <2>2
<1>7. Adds(below)
  <2> HIDE DEF Adds
  <2> QED BY <1>6
<1>8. Blocks(s) = below[N]
  BY DEF Blocks
<1>9. below[0] = {} /\ \A n \in 1 .. N : below[n] = Next1(n, below[n - 1])
  <2> HIDE DEF below, Next1
  <2>1. \A n \in 0 .. N : below[n] = IF n = 0 THEN {} ELSE Next1(n, below[n - 1])
    BY <1>7, Zenon
  <2>2. 0 \in 0 .. N /\ \A n \in 1 .. N : n # 0 /\ n \in 0 .. N
    BY <1>1
  <2> QED BY <2>1, <2>2
<1> HIDE DEF below, Adds
<1> DEFINE good == {n \in 0 .. N : Pooled(s, n, below[n])}
<1>10. 0 \in good
  <2>1. \A y \in F : ~ (y < 0)
    BY <1>1
  <2>2. Pooled(s, 0, {})
    BY <2>1 DEF Pooled
  <2> QED BY <1>1, <1>9, <2>2
<1>11. ASSUME NEW n \in 0 .. N - 1, n \in good PROVE n + 1 \in good
  <2>1. n + 1 \in 1 .. N /\ n + 1 - 1 = n /\ n + 1 \in 0 .. N /\ n \in Nat
    BY <1>1
  <2>2. below[n + 1] = IF n \in F THEN Pool(s, below[n], n) ELSE below[n]
    BY <1>9, <2>1
  <2>3. Pooled(s, n, below[n])
    BY <1>11
  <2>4. Pooled(s, n + 1, below[n + 1])
    <3>1. CASE n \in F
      <4>1. Pooled(s, n + 1, Pool(s, below[n], n))
        BY <2>1, <2>3, <3>1, PooledStep
      <4> QED BY <2>2, <3>1, <4>1
    <3>2. CASE n \notin F
      <4>1. Pooled(s, n + 1, below[n])
        BY <2>1, <2>3, <3>2, PooledSkip
      <4> QED BY <2>2, <3>2, <4>1
    <3> QED BY <3>1, <3>2
  <2> QED BY <2>1, <2>4
<1>12. N \in good
  <2> HIDE DEF good
  <2>1. \A n \in 0 .. N : n \in good
    BY <1>1, <1>10, <1>11, Counting
  <2> QED BY <1>1, <2>1
<1> QED BY <1>8, <1>12

\* The block a forecast is in.
InBlock(s, S, x, c, e) ==
    /\ c = StartOf(S, x) /\ e = EndOf(S, x)
    /\ c \in S /\ c \in 0 .. x /\ e \in x .. Unit /\ CountIn(s, c, e) > 0
    /\ \A d \in S : d <= c \/ e < d
    /\ \A d \in S : d <= x => d <= c
    /\ e + 1 \in S \cup {Unit + 1}
    /\ \A b \in c .. Unit : AtMost(Rate(s, c, e), Rate(s, c, b))
    /\ \A a \in 0 .. e : AtMost(Rate(s, a, e), Rate(s, c, e))

LEMMA BlockOf ==
    ASSUME NEW s, RowList(s), NEW S, Pooled(s, Unit + 1, S),
           NEW x \in 0 .. Unit, \E c \in S : c <= x
    PROVE  InBlock(s, S, x, StartOf(S, x), EndOf(S, x))
<1> DEFINE c == StartOf(S, x)  e == EndOf(S, x)
           P == {d \in S : d <= x}  Q == {b \in x .. Unit : \A d \in S : d <= x \/ b < d}
<1>1. Unit \in Nat /\ x \in Nat /\ \A d \in S : d \in 0 .. Unit /\ d \in Forecasts(s)
  BY UnitIs, ForecastsAre DEF Pooled
<1>2. c \in P /\ \A d \in P : d <= c
  <2>1. P \subseteq 0 .. x /\ P # {}
    BY <1>1
  <2>2. c = Max(P)
    BY DEF StartOf
  <2> HIDE DEF P, c
  <2> QED BY <1>1, <2>1, <2>2, MaxIs
<1>3. e \in Q /\ \A b \in Q : b <= e
  <2>1. Q \subseteq 0 .. Unit /\ Q # {}
    <3>1. x \in Q
      BY <1>1
    <3> QED BY <1>1, <3>1
  <2>2. e = Max(Q)
    BY DEF EndOf
  <2> HIDE DEF Q, e
  <2> QED BY <1>1, <2>1, <2>2, MaxIs
<1> HIDE DEF c, e
<1>4. c \in S /\ c \in 0 .. x /\ e \in x .. Unit /\ e \in Int /\ c \in Int
  BY <1>1, <1>2, <1>3
<1>5. \A d \in S : d <= c \/ e < d
  BY <1>1, <1>2, <1>3
<1>6. e + 1 \in S \cup {Unit + 1}
  <2> SUFFICES ASSUME e + 1 \notin S, e # Unit PROVE FALSE
    BY <1>4
  <2>1. e + 1 \notin Q
    <3>1. ~ (e + 1 <= e)
      BY <1>4
    <3> HIDE DEF Q
    <3> QED BY <1>3, <3>1
  <2>2. e + 1 \in x .. Unit
    BY <1>1, <1>4
  <2>3. PICK d \in S : ~ (d <= x \/ e + 1 < d)
    BY <2>1, <2>2
  <2>4. d <= x \/ e < d
    BY <1>3
  <2>5. d \in Int
    BY <1>1
  <2>6. d = e + 1
    BY <1>1, <1>4, <2>3, <2>4, <2>5
  <2> QED BY <2>6
<1>7. CountIn(s, c, e) > 0
  <2>1. c \in Forecasts(s) /\ c <= c /\ c <= e
    BY <1>1, <1>4
  <2> QED BY <1>4, <2>1, RatesSome
<1>8. Ends(S, Unit + 1, c, e + 1) /\ e + 1 \in 0 .. Unit + 1 /\ e + 1 - 1 = e /\ Unit + 1 - 1 = Unit
  <2>1. \A d \in S : d <= c \/ e + 1 <= d
    BY <1>1, <1>4, <1>5
  <2> QED BY <1>1, <1>4, <1>6, <2>1 DEF Ends
<1>9. /\ \A b \in c .. Unit : AtMost(Rate(s, c, e), Rate(s, c, b))
      /\ \A a \in 0 .. e : AtMost(Rate(s, a, e), Rate(s, c, e))
  <2> DEFINE n == Unit + 1  t == e + 1
  <2>1. Pooled(s, n, S) /\ t \in 0 .. n /\ c \in S /\ Ends(S, n, c, t) /\ t - 1 = e /\ n - 1 = Unit
    <3>1. t - 1 = e /\ n - 1 = Unit /\ t \in 0 .. n
      BY <1>1, <1>4
    <3>2. Pooled(s, n, S) /\ Ends(S, n, c, t)
      BY <1>8, Zenon
    <3> QED BY <1>4, <3>1, <3>2, Zenon
  <2> HIDE DEF n, t
  <2>2. \A d \in S, u \in 0 .. n : Ends(S, n, d, u) =>
           /\ \A b \in d .. n - 1 : AtMost(Rate(s, d, u - 1), Rate(s, d, b))
           /\ \A a \in 0 .. u - 1 : AtMost(Rate(s, a, u - 1), Rate(s, d, u - 1))
    BY <2>1 DEF Pooled
  <2>3. /\ \A b \in c .. n - 1 : AtMost(Rate(s, c, t - 1), Rate(s, c, b))
        /\ \A a \in 0 .. t - 1 : AtMost(Rate(s, a, t - 1), Rate(s, c, t - 1))
    BY <2>1, <2>2
  <2> QED BY <2>1, <2>3
<1>10. \A d \in S : d <= x => d <= c
  BY <1>2
<1> QED BY <1>4, <1>5, <1>6, <1>7, <1>9, <1>10 DEF InBlock, c, e

LEMMA ForecastBlock ==
    ASSUME NEW s, RowList(s), NEW x \in Forecasts(s)
    PROVE  LET S == Blocks(s)  c == StartOf(S, x)  e == EndOf(S, x)
           IN  InBlock(s, S, x, c, e) /\ c \in Int /\ e \in Int /\ x \in 0 .. Unit
<1> DEFINE S == Blocks(s)
<1>1. Pooled(s, Unit + 1, S) /\ x \in 0 .. Unit /\ x < Unit + 1
  BY BlocksArePooled, ForecastsAre, UnitIs
<1> HIDE DEF S
<1>2. \E c \in S : c <= x
  BY <1>1 DEF Pooled
<1>3. InBlock(s, S, x, StartOf(S, x), EndOf(S, x))
  BY <1>1, <1>2, BlockOf
<1>4. StartOf(S, x) \in 0 .. x /\ EndOf(S, x) \in x .. Unit
  BY <1>3 DEF InBlock
<1> QED BY <1>1, <1>3, <1>4 DEF S

\* fit_isotonic(): each fitted value is the largest, over the ranges that start no later,
\* of the smallest, over the ranges that end no earlier, of what became of the forecasts.
LEMMA RegressionLemma == ASSUME graded \in Seq(AllRows) PROVE IsotonicIsTheRegression
<1> DEFINE s == graded  model == FitIsotonic(s)  S == Blocks(s)
<1>1. RowList(s)
  BY RowListIs
<1> SUFFICES ASSUME NEW x \in DOMAIN model
             PROVE  /\ \A a \in 0 .. x : \E b \in x .. Unit : AtMost(Rate(s, a, b), model[x])
                    /\ \E a \in 0 .. x :
                          /\ \A b \in x .. Unit : AtMost(model[x], Rate(s, a, b))
                          /\ \E b \in x .. Unit : Same(Rate(s, a, b), model[x])
  BY DEF IsotonicIsTheRegression
<1> DEFINE c == StartOf(S, x)  e == EndOf(S, x)
<1>2. x \in Forecasts(s) /\ model[x] = Rate(s, c, e)
  BY DEF FitIsotonic
<1>3. InBlock(s, S, x, c, e) /\ c \in Int /\ e \in Int /\ x \in 0 .. Unit
  BY <1>1, <1>2, ForecastBlock
<1> HIDE DEF c, e, S, model
<1>4. \A a \in 0 .. x : a \in 0 .. e
  BY <1>3 DEF InBlock
<1>5. \A b \in x .. Unit : b \in c .. Unit
  BY <1>3 DEF InBlock
<1>6. c \in 0 .. x /\ e \in x .. Unit
  BY <1>3 DEF InBlock
<1>7. Same(Rate(s, c, e), Rate(s, c, e))
  BY DEF Same
<1>8. \A a \in 0 .. x : AtMost(Rate(s, a, e), model[x])
  BY <1>2, <1>3, <1>4 DEF InBlock
<1>9. \A b \in x .. Unit : AtMost(model[x], Rate(s, c, b))
  BY <1>2, <1>3, <1>5 DEF InBlock
<1> QED BY <1>2, <1>6, <1>7, <1>8, <1>9
-----------------------------------------------------------------------------
(* Recalibration.                                                          *)

Covered(s, x) == \E c \in Blocks(s) : c <= x
Fit(s, x) == Rate(s, StartOf(Blocks(s), x), EndOf(Blocks(s), x))

\* The fitted values over one denominator.
Fitted(s, D, Y) ==
    /\ D \in Nat \ {0} /\ Y \in [0 .. Unit -> Int]
    /\ \A x \in 0 .. Unit : Covered(s, x) => Worth(Fit(s, x), Y[x], D)

LEMMA CoveredBlock ==
    ASSUME NEW s, RowList(s), NEW x \in 0 .. Unit, Covered(s, x)
    PROVE  LET S == Blocks(s)  c == StartOf(S, x)  e == EndOf(S, x)
           IN  /\ InBlock(s, S, x, c, e) /\ c \in Int /\ e \in Int
               /\ Fit(s, x) = <<HitsIn(s, c, e), CountIn(s, c, e)>>
               /\ HitsIn(s, c, e) \in Nat /\ CountIn(s, c, e) \in Nat \ {0} /\ Fit(s, x) \in Quotients
<1> DEFINE S == Blocks(s)  c == StartOf(S, x)  e == EndOf(S, x)
<1>1. Pooled(s, Unit + 1, S) /\ \E d \in S : d <= x
  BY BlocksArePooled DEF Covered
<1> HIDE DEF S
<1>2. InBlock(s, S, x, c, e)
  BY <1>1, BlockOf
<1>3. c \in 0 .. x /\ e \in x .. Unit /\ CountIn(s, c, e) > 0
  BY <1>2 DEF InBlock
<1>4. c \in Int /\ e \in Int
  BY <1>3
<1>5. Fit(s, x) = <<HitsIn(s, c, e), CountIn(s, c, e)>>
  BY DEF Fit, Rate, S
<1> HIDE DEF c, e
<1>6. HitsIn(s, c, e) \in Nat /\ CountIn(s, c, e) \in Nat \ {0}
  BY <1>3, <1>4, RatesAre
<1>7. Fit(s, x) \in Quotients
  BY <1>5, <1>6 DEF Quotients
<1> QED BY <1>2, <1>4, <1>5, <1>6, <1>7 DEF S, c, e

LEMMA FittedIs == ASSUME NEW s, RowList(s) PROVE \E D, Y : Fitted(s, D, Y)
<1> DEFINE K == [x \in 0 .. Unit |-> IF Covered(s, x) THEN Fit(s, x)[2] ELSE 1]
<1>1. Unit \in Nat
  BY UnitIs
<1>2. \A x \in 0 .. Unit : Covered(s, x) => Fit(s, x)[1] \in Nat /\ Fit(s, x)[2] \in Nat \ {0} /\ Fit(s, x) \in Quotients
  <2> SUFFICES ASSUME NEW x \in 0 .. Unit, Covered(s, x)
               PROVE  Fit(s, x)[1] \in Nat /\ Fit(s, x)[2] \in Nat \ {0} /\ Fit(s, x) \in Quotients
    OBVIOUS
  <2> QED BY CoveredBlock
<1>3. K \in [0 .. Unit -> Nat \ {0}]
  BY <1>2
<1>4. PICK D \in Nat \ {0}, m \in [0 .. Unit -> Nat \ {0}] : \A x \in 0 .. Unit : D = m[x] * K[x]
  <2> HIDE DEF K
  <2> QED BY <1>1, <1>3, CommonMultiple
<1> DEFINE Y == [x \in 0 .. Unit |-> IF Covered(s, x) THEN m[x] * Fit(s, x)[1] ELSE 0]
<1>5. ASSUME NEW x \in 0 .. Unit, Covered(s, x) PROVE Worth(Fit(s, x), Y[x], D) /\ Y[x] \in Int
  <2> DEFINE h == Fit(s, x)[1]  k == Fit(s, x)[2]  n == m[x]
  <2>1. h \in Int /\ k \in Int /\ n \in Int /\ D = n * k /\ Y[x] = n * h /\ Fit(s, x) \in Quotients
    BY <1>2, <1>4, <1>5
  <2>2. h * D = Y[x] * k /\ Y[x] \in Int
    <3> DEFINE y == Y[x]
    <3>1. y = n * h
      BY <2>1
    <3> HIDE DEF h, k, n, y
    <3>2. h * (n * k) = (n * h) * k /\ n * h \in Int
      BY <2>1
    <3> QED BY <2>1, <3>1, <3>2 DEF y
  <2> QED BY <1>4, <2>1, <2>2 DEF Worth
<1>6. Y \in [0 .. Unit -> Int]
  <2>1. \A x \in 0 .. Unit : ~Covered(s, x) => Y[x] = 0
    OBVIOUS
  <2>2. Y = [x \in 0 .. Unit |-> Y[x]]
    OBVIOUS
  <2> HIDE DEF Y
  <2> QED BY <1>5, <2>1, <2>2
<1> HIDE DEF Y
<1>7. Fitted(s, D, Y)
  BY <1>4, <1>5, <1>6 DEF Fitted
<1> QED BY <1>7

LEMMA ForecastCovered ==
    ASSUME NEW s, RowList(s), NEW x \in Forecasts(s) PROVE x \in 0 .. Unit /\ Covered(s, x)
<1>1. Pooled(s, Unit + 1, Blocks(s)) /\ x \in 0 .. Unit /\ x < Unit + 1
  BY BlocksArePooled, ForecastsAre, UnitIs
<1> QED BY <1>1 DEF Pooled, Covered

\* The fitted values rise with the forecasts, and stay among the outcomes.
LEMMA FittedOrder ==
    ASSUME NEW s, RowList(s), NEW D, NEW Y, Fitted(s, D, Y)
    PROVE  /\ \A x, y \in Forecasts(s) : x <= y => Y[x] <= Y[y]
           /\ \A x \in Forecasts(s) : 0 <= Y[x] /\ Y[x] <= Unit * D
<1>1. ASSUME NEW x \in Forecasts(s), NEW y \in Forecasts(s), x <= y PROVE Y[x] <= Y[y]
  <2> DEFINE S == Blocks(s)  c == StartOf(S, x)  e == EndOf(S, x)  d == StartOf(S, y)  f == EndOf(S, y)
  <2>1. x \in 0 .. Unit /\ y \in 0 .. Unit /\ Covered(s, x) /\ Covered(s, y)
    BY ForecastCovered
  <2>2. /\ InBlock(s, S, x, c, e) /\ c \in Int /\ e \in Int
        /\ InBlock(s, S, y, d, f) /\ d \in Int /\ f \in Int
    BY <2>1, CoveredBlock
  <2>3. Fit(s, x) = Rate(s, c, e) /\ Fit(s, y) = Rate(s, d, f)
    BY DEF Fit
  <2>4. Worth(Fit(s, x), Y[x], D) /\ Worth(Fit(s, y), Y[y], D)
    BY <2>1 DEF Fitted
  <2> HIDE DEF S, c, e, d, f
  <2>5. c \in 0 .. x /\ f \in y .. Unit
    BY <2>2 DEF InBlock
  <2>6. f \in c .. Unit /\ c \in 0 .. f /\ c <= x /\ x <= f
    BY <1>1, <2>1, <2>5
  <2>7. AtMost(Rate(s, c, e), Rate(s, c, f)) /\ AtMost(Rate(s, c, f), Rate(s, d, f))
    BY <2>2, <2>6 DEF InBlock
  <2>8. Fraction(Rate(s, c, e)) /\ Fraction(Rate(s, d, f))
    BY <2>2, RateIs
  <2>9. Fraction(Rate(s, c, f)) /\ Rate(s, c, f)[2] > 0
    BY <2>2, <2>6, RateIs
  <2>10. AtMost(Rate(s, c, e), Rate(s, d, f))
    BY <2>7, <2>8, <2>9, AtMostTrans
  <2> QED BY <2>3, <2>4, <2>10, WorthOrder
<1>2. ASSUME NEW x \in Forecasts(s) PROVE 0 <= Y[x] /\ Y[x] <= Unit * D
  <2> DEFINE S == Blocks(s)  c == StartOf(S, x)  e == EndOf(S, x)
             h == HitsIn(s, c, e)  k == CountIn(s, c, e)  y == Y[x]
  <2>1. x \in 0 .. Unit /\ Covered(s, x) /\ Unit \in Nat
    BY ForecastCovered, UnitIs
  <2>2. Fit(s, x) = <<h, k>> /\ h \in Nat /\ k \in Nat \ {0} /\ c \in Int /\ e \in Int
    BY <2>1, CoveredBlock
  <2>3. h <= Unit * k
    BY <2>2, RatesAre
  <2>4. y \in Int /\ D \in Nat \ {0} /\ h * D = y * k
    BY <2>1, <2>2 DEF Fitted, Worth
  <2> HIDE DEF c, e, h, k, y
  <2>5. 0 <= y
    <3>1. h * D \in Nat
      BY <2>2, <2>4
    <3>2. 0 * k <= y * k
      BY <2>2, <2>4, <3>1
    <3>3. 0 \in Int /\ k \in Int /\ k > 0
      BY <2>2
    <3> QED BY <2>4, <3>2, <3>3, CancelOrder
  <2>6. y <= Unit * D
    <3> DEFINE u == Unit * k  v == Unit * D
    <3>1. u \in Int /\ v \in Int /\ u * D = v * k /\ h <= u
      BY <2>1, <2>2, <2>3, <2>4
    <3> HIDE DEF u, v
    <3>2. h * D <= u * D
      BY <2>2, <2>4, <3>1
    <3>3. y * k <= v * k
      BY <2>4, <3>1, <3>2
    <3>4. y <= v
      BY <2>2, <2>4, <3>1, <3>3, CancelOrder
    <3> QED BY <3>4 DEF v
  <2> QED BY <2>5, <2>6 DEF y
<1> QED BY <1>1, <1>2

\* A fitted model: points that rise, over one denominator.
Knots(model, D, Y) ==
    /\ D \in Nat \ {0} /\ DOMAIN model \subseteq 0 .. Unit /\ DOMAIN model # {}
    /\ \A x \in DOMAIN model : Worth(model[x], Y[x], D)
    /\ \A x, y \in DOMAIN model : x <= y => Y[x] <= Y[y]

KnotBelow(model, p) == Max({x \in DOMAIN model : x < p})
KnotAbove(model, p) == Min({x \in DOMAIN model : x >= p})
Outside(model, p) == p <= Min(DOMAIN model) \/ p >= Max(DOMAIN model)

LEMMA EndsAre ==
    ASSUME NEW model, NEW D, NEW Y, Knots(model, D, Y)
    PROVE  LET xs == DOMAIN model
           IN  /\ Min(xs) \in xs /\ Max(xs) \in xs /\ \A x \in xs : x \in Nat /\ Min(xs) <= x /\ x <= Max(xs)
               /\ \A x \in xs : Y[x] \in Int /\ model[x] \in Quotients
<1> DEFINE xs == DOMAIN model
<1>1. xs \subseteq 0 .. Unit /\ xs # {} /\ Unit \in Nat /\ xs \subseteq Nat
  BY UnitIs DEF Knots
<1>2. \A x \in xs : Y[x] \in Int /\ model[x] \in Quotients
  BY DEF Knots, Worth
<1> HIDE DEF xs
<1>3. Min(xs) \in xs /\ \A x \in xs : Min(xs) <= x
  BY <1>1, MinIs
<1>4. Max(xs) \in xs /\ \A x \in xs : x <= Max(xs)
  BY <1>1, MaxIs
<1> QED BY <1>1, <1>2, <1>3, <1>4 DEF xs

\* apply_isotonic() between two points: on the line between them.
LEMMA ApplyInside ==
    ASSUME NEW model, NEW D, NEW Y, Knots(model, D, Y), NEW p \in 0 .. Unit, ~Outside(model, p)
    PROVE  LET a == KnotBelow(model, p)  b == KnotAbove(model, p)
           IN  /\ a \in DOMAIN model /\ b \in DOMAIN model /\ a < p /\ p <= b
               /\ \A x \in DOMAIN model : x <= a \/ b <= x
               /\ Worth(ApplyIsotonic(model, p), Y[a] * (b - a) + (Y[b] - Y[a]) * (p - a), D * (b - a))
<1> DEFINE xs == DOMAIN model  a == KnotBelow(model, p)  b == KnotAbove(model, p)
           A == {x \in xs : x < p}  B == {x \in xs : x >= p}
<1>1. /\ Min(xs) \in xs /\ Max(xs) \in xs /\ Min(xs) < p /\ p < Max(xs) /\ p \in Nat
      /\ \A x \in xs : x \in Nat
  BY EndsAre DEF Outside
<1>2. a \in A /\ \A x \in A : x <= a
  <2>1. A \subseteq 0 .. p /\ A # {}
    BY <1>1
  <2> HIDE DEF A
  <2> QED BY <1>1, <2>1, MaxIs DEF KnotBelow, A
<1>3. b \in B /\ \A x \in B : b <= x
  <2>1. B \subseteq Nat /\ B # {}
    BY <1>1
  <2> HIDE DEF B
  <2> QED BY <2>1, MinIs DEF KnotAbove, B
<1>4. a \in xs /\ b \in xs /\ a < p /\ p <= b /\ a \in Nat /\ b \in Nat
  BY <1>1, <1>2, <1>3
<1>5. \A x \in xs : x <= a \/ b <= x
  BY <1>1, <1>2, <1>3
<1>6. ApplyIsotonic(model, p)
        = Plus(model[a], Times(Minus(model[b], model[a]), <<p - a, b - a>>))
  <2>1. xs # {} /\ ~ (p <= Min(xs)) /\ ~ (p >= Max(xs))
    BY <1>1 DEF Outside
  <2> QED BY <2>1, Zenon DEF ApplyIsotonic, KnotBelow, KnotAbove
<1> HIDE DEF a, b
<1> DEFINE u == Y[a]  v == Y[b]  w == b - a  q == p - a
<1>7. u \in Int /\ v \in Int /\ D \in Nat \ {0} /\ w \in Nat \ {0} /\ q \in Int
  <2>1. u \in Int /\ v \in Int
    BY <1>4, EndsAre
  <2>2. D \in Nat \ {0}
    BY DEF Knots
  <2>3. w \in Nat \ {0} /\ q \in Int
    BY <1>1, <1>4
  <2> QED BY <2>1, <2>2, <2>3
<1>8. Worth(model[a], u, D) /\ Worth(model[b], v, D)
  BY <1>4 DEF Knots
<1>9. ApplyIsotonic(model, p) = Plus(model[a], Times(Minus(model[b], model[a]), <<q, w>>))
  BY <1>6
<1> HIDE DEF u, v, w, q
<1>10. Worth(Minus(model[b], model[a]), v - u, D)
  BY <1>8, WorthMinus
<1>11. Worth(<<q, w>>, q, w)
  BY <1>7, WorthPair
<1>12. Worth(Times(Minus(model[b], model[a]), <<q, w>>), (v - u) * q, D * w)
  BY <1>10, <1>11, WorthTimes
<1>13. Worth(model[a], u * w, D * w)
  BY <1>7, <1>8, WorthScaled
<1>14. Worth(ApplyIsotonic(model, p), u * w + (v - u) * q, D * w)
  BY <1>9, <1>12, <1>13, WorthPlus
<1> QED BY <1>4, <1>5, <1>14 DEF a, b, u, v, w, q

\* Beyond the points it is the value at the end.
LEMMA ApplyOutside ==
    ASSUME NEW model, NEW D, NEW Y, Knots(model, D, Y), NEW p \in 0 .. Unit, Outside(model, p)
    PROVE  LET lo == Min(DOMAIN model)  hi == Max(DOMAIN model)
           IN  \/ p <= lo /\ ApplyIsotonic(model, p) = model[lo]
               \/ hi <= p /\ ApplyIsotonic(model, p) = model[hi]
<1>1. DOMAIN model # {}
  BY DEF Knots
<1>2. CASE p <= Min(DOMAIN model)
  BY <1>1, <1>2, Zenon DEF ApplyIsotonic
<1>3. CASE ~ (p <= Min(DOMAIN model))
  <2>1. p >= Max(DOMAIN model)
    BY <1>3 DEF Outside
  <2>2. ApplyIsotonic(model, p) = model[Max(DOMAIN model)]
    BY <1>1, <1>3, <2>1, Zenon DEF ApplyIsotonic
  <2>3. Max(DOMAIN model) \in Nat /\ p \in Nat
    BY EndsAre
  <2> QED BY <2>1, <2>2, <2>3
<1> QED BY <1>2, <1>3

LEMMA ApplyQuotient ==
    ASSUME NEW model, NEW D, NEW Y, Knots(model, D, Y), NEW p \in 0 .. Unit
    PROVE  ApplyIsotonic(model, p) \in Quotients
<1>1. CASE Outside(model, p)
  BY <1>1, ApplyOutside, EndsAre
<1>2. CASE ~Outside(model, p)
  BY <1>2, ApplyInside DEF Worth
<1> QED BY <1>1, <1>2

\* At the points it is exact.
LEMMA ApplyExact ==
    ASSUME NEW model, NEW D, NEW Y, Knots(model, D, Y), NEW x \in DOMAIN model
    PROVE  Worth(ApplyIsotonic(model, x), Y[x], D)
<1>0. x \in 0 .. Unit /\ x \in Nat /\ Worth(model[x], Y[x], D)
  BY EndsAre DEF Knots
<1>1. CASE Outside(model, x)
  <2>1. /\ Min(DOMAIN model) \in Nat /\ Max(DOMAIN model) \in Nat
        /\ Min(DOMAIN model) <= x /\ x <= Max(DOMAIN model)
    BY EndsAre
  <2>2. \/ x <= Min(DOMAIN model) /\ ApplyIsotonic(model, x) = model[Min(DOMAIN model)]
        \/ Max(DOMAIN model) <= x /\ ApplyIsotonic(model, x) = model[Max(DOMAIN model)]
    BY <1>0, <1>1, ApplyOutside
  <2>3. ApplyIsotonic(model, x) = model[x]
    <3>1. x <= Min(DOMAIN model) => x = Min(DOMAIN model)
      BY <1>0, <2>1
    <3>2. Max(DOMAIN model) <= x => x = Max(DOMAIN model)
      BY <1>0, <2>1
    <3> QED BY <2>2, <3>1, <3>2
  <2> QED BY <1>0, <2>3
<1>2. CASE ~Outside(model, x)
  <2> DEFINE a == KnotBelow(model, x)  b == KnotAbove(model, x)
  <2>1. /\ a \in DOMAIN model /\ b \in DOMAIN model /\ a < x /\ x <= b
        /\ \A y \in DOMAIN model : y <= a \/ b <= y
        /\ Worth(ApplyIsotonic(model, x), Y[a] * (b - a) + (Y[b] - Y[a]) * (x - a), D * (b - a))
    BY <1>0, <1>2, ApplyInside
  <2> HIDE DEF a, b
  <2>2. a \in Nat /\ b \in Nat /\ Y[a] \in Int /\ Y[b] \in Int /\ D \in Nat \ {0}
    BY <2>1, EndsAre DEF Knots
  <2>3. x = b
    <3>1. x <= a \/ b <= x
      BY <2>1
    <3>2. a < x /\ x <= b
      BY <2>1
    <3> QED BY <1>0, <2>2, <3>1, <3>2
  <2> DEFINE u == Y[a]  v == Y[x]  w == x - a
  <2>4. u \in Int /\ v \in Int /\ w \in Nat \ {0}
    BY <1>0, <2>1, <2>2, <2>3
  <2>5. Worth(ApplyIsotonic(model, x), u * w + (v - u) * w, D * w)
    BY <2>1, <2>3
  <2> HIDE DEF u, v, w
  <2>6. u * w + (v - u) * w = v * w
    BY <2>4
  <2>7. Worth(ApplyIsotonic(model, x), v, D)
    BY <2>2, <2>4, <2>5, <2>6, WorthScaled
  <2> QED BY <2>7 DEF v
<1> QED BY <1>1, <1>2

LEMMA LineAlgebra ==
    ASSUME NEW u \in Int, NEW v \in Int, NEW w \in Int, NEW q \in Int, u <= v, 0 <= q, q <= w
    PROVE  /\ u * w <= u * w + (v - u) * q /\ u * w + (v - u) * q <= v * w
           /\ \A r \in Int : r <= q => u * w + (v - u) * r <= u * w + (v - u) * q
<1> DEFINE t == v - u
<1>1. t \in Nat /\ v * w = u * w + t * w
  OBVIOUS
<1> DEFINE z == u * w
<1>2. z \in Int
  OBVIOUS
<1>3. 0 <= t * q /\ t * q <= t * w /\ \A r \in Int : r <= q => t * r <= t * q
  <2> HIDE DEF t
  <2>1. t = 0 \/ t > 0
    BY <1>1
  <2>2. ASSUME NEW x \in Int, NEW y \in Int, x <= y PROVE t * x <= t * y
    <3>1. CASE t = 0
      BY <3>1
    <3>2. CASE t > 0
      <4>1. x * t <= y * t
        BY <1>1, <2>2, <3>2, CancelOrder
      <4> QED BY <1>1, <4>1
    <3> QED BY <2>1, <3>1, <3>2
  <2>3. t * 0 = 0
    BY <1>1
  <2>4. t * 0 <= t * q
    BY <2>2
  <2> QED BY <2>2, <2>3, <2>4
<1>4. t * q \in Int /\ t * w \in Int /\ \A r \in Int : t * r \in Int
  BY <1>1
<1> HIDE DEF t, z
<1>5. z <= z + t * q /\ z + t * q <= z + t * w
  <2> DEFINE i == t * q  j == t * w
  <2>1. i \in Int /\ j \in Int /\ 0 <= i /\ i <= j
    BY <1>3, <1>4
  <2> HIDE DEF i, j
  <2>2. z <= z + i /\ z + i <= z + j
    BY <1>2, <2>1
  <2> QED BY <2>2 DEF i, j
<1>6. ASSUME NEW r \in Int, r <= q PROVE z + t * r <= z + t * q
  <2> DEFINE i == t * r  j == t * q
  <2>1. i \in Int /\ j \in Int /\ i <= j
    BY <1>3, <1>4, <1>6
  <2> HIDE DEF i, j
  <2>2. z + i <= z + j
    BY <1>2, <2>1
  <2> QED BY <2>2 DEF i, j
<1> QED BY <1>1, <1>5, <1>6 DEF t, z

\* A point and a forecast on one side of it: so are their values.
LEMMA ApplyBetween ==
    ASSUME NEW model, NEW D, NEW Y, Knots(model, D, Y), NEW p \in 0 .. Unit, NEW x \in DOMAIN model
    PROVE  /\ x <= p => AtMost(model[x], ApplyIsotonic(model, p))
           /\ p <= x => AtMost(ApplyIsotonic(model, p), model[x])
<1> DEFINE xs == DOMAIN model  r == ApplyIsotonic(model, p)
<1>1. /\ \A y \in xs : y \in Nat /\ Y[y] \in Int /\ Worth(model[y], Y[y], D)
      /\ \A y, z \in xs : y <= z => Y[y] <= Y[z]
      /\ D \in Nat \ {0} /\ p \in Nat
  <2>1. \A y \in xs : y \in Nat /\ Y[y] \in Int
    BY EndsAre
  <2>2. /\ \A y \in xs : Worth(model[y], Y[y], D)
        /\ \A y, z \in xs : y <= z => Y[y] <= Y[z]
        /\ D \in Nat \ {0}
    BY DEF Knots
  <2>3. p \in Nat
    BY UnitIs
  <2> HIDE DEF xs
  <2> QED BY <2>1, <2>2, <2>3
<1>2. ASSUME NEW y \in xs, NEW z \in xs, y <= z PROVE AtMost(model[y], model[z])
  BY <1>1, <1>2, WorthOrder
<1>3. CASE Outside(model, p)
  <2> DEFINE lo == Min(xs)  hi == Max(xs)
  <2>1. lo \in xs /\ hi \in xs /\ lo <= x /\ x <= hi
    BY EndsAre
  <2>2. \/ p <= lo /\ r = model[lo]
        \/ hi <= p /\ r = model[hi]
    BY <1>3, ApplyOutside
  <2> HIDE DEF lo, hi, r, xs
  <2>3. lo \in Nat /\ hi \in Nat /\ x \in Nat /\ x \in xs
    BY <1>1, <2>1 DEF xs
  <2>4. CASE p <= lo /\ r = model[lo]
    <3>1. AtMost(r, model[x])
      BY <1>2, <2>1, <2>3, <2>4
    <3>2. x <= p => x = lo
      BY <1>1, <2>1, <2>3, <2>4
    <3>3. AtMost(model[lo], model[lo])
      BY <1>2, <2>1, <2>3
    <3> QED BY <2>4, <3>1, <3>2, <3>3 DEF r
  <2>5. CASE hi <= p /\ r = model[hi]
    <3>1. AtMost(model[x], r)
      BY <1>2, <2>1, <2>3, <2>5
    <3>2. p <= x => x = hi
      BY <1>1, <2>1, <2>3, <2>5
    <3>3. AtMost(model[hi], model[hi])
      BY <1>2, <2>1, <2>3
    <3> QED BY <2>5, <3>1, <3>2, <3>3 DEF r
  <2> QED BY <2>2, <2>4, <2>5
<1>4. CASE ~Outside(model, p)
  <2> DEFINE a == KnotBelow(model, p)  b == KnotAbove(model, p)
  <2>1. /\ a \in xs /\ b \in xs /\ a < p /\ p <= b /\ \A y \in xs : y <= a \/ b <= y
        /\ Worth(r, Y[a] * (b - a) + (Y[b] - Y[a]) * (p - a), D * (b - a))
    BY <1>4, ApplyInside
  <2> HIDE DEF a, b, r
  <2> DEFINE u == Y[a]  v == Y[b]  w == b - a  q == p - a  t == Y[x]
  <2>2. a \in Nat /\ b \in Nat /\ x \in Nat /\ x \in xs
    BY <1>1, <2>1
  <2>3. u \in Int /\ v \in Int /\ t \in Int /\ u <= v
    <3>1. a <= b
      BY <1>1, <2>1, <2>2
    <3> QED BY <1>1, <2>1, <2>2, <3>1
  <2>4. w \in Nat \ {0} /\ q \in Int /\ 0 <= q /\ q <= w /\ w \in Int
    <3>1. a < p /\ p <= b
      BY <2>1
    <3> QED BY <1>1, <2>2, <3>1
  <2>5. Worth(model[x], t, D) /\ Worth(r, u * w + (v - u) * q, D * w)
    BY <1>1, <2>1
  <2>6. x <= a \/ b <= x
    BY <2>1
  <2>7. x <= a => t <= u
    BY <1>1, <2>1, <2>2
  <2>8. b <= x => v <= t
    BY <1>1, <2>1, <2>2
  <2>9. b <= x /\ x <= p => q = w /\ t = v
    <3>1. p <= b
      BY <2>1
    <3>2. b <= x /\ x <= p => x = b /\ p = b
      BY <1>1, <2>2, <3>1
    <3> QED BY <3>2
  <2>10. ~ (p <= x /\ x <= a)
    <3>1. a < p
      BY <2>1
    <3> QED BY <1>1, <2>2, <3>1
  <2> DEFINE m == u * w + (v - u) * q
  <2>11. Worth(model[x], t * w, D * w) /\ Worth(r, m, D * w)
    BY <1>1, <2>3, <2>4, <2>5, WorthScaled
  <2> HIDE DEF u, v, w, q, t
  <2>12. u * w <= m /\ m <= v * w
    BY <2>3, <2>4, LineAlgebra
  <2>13. t <= u => t * w <= u * w
    BY <2>3, <2>4, CancelOrder
  <2>14. v <= t => v * w <= t * w
    BY <2>3, <2>4, CancelOrder
  <2>15. t * w \in Int /\ u * w \in Int /\ v * w \in Int /\ m \in Int
    <3>1. t * w \in Int /\ u * w \in Int /\ v * w \in Int
      BY <2>3, <2>4
    <3> QED BY <2>11, <3>1 DEF Worth
  <2>16. x <= p => t * w <= m
    <3>1. CASE x <= a
      <4>1. t * w <= u * w /\ u * w <= m
        BY <2>7, <2>12, <2>13, <3>1
      <4> HIDE DEF m
      <4> QED BY <2>15, <4>1
    <3>2. CASE b <= x
      <4> SUFFICES ASSUME x <= p PROVE t * w <= m
        OBVIOUS
      <4>1. q = w /\ t = v
        BY <2>9, <3>2
      <4>2. u * w + (v - u) * w = v * w
        BY <2>3, <2>4
      <4>3. m = t * w
        BY <4>1, <4>2
      <4> HIDE DEF m
      <4> QED BY <2>15, <4>3
    <3> QED BY <2>6, <3>1, <3>2
  <2>17. p <= x => m <= t * w
    <3> SUFFICES ASSUME p <= x PROVE m <= t * w
      OBVIOUS
    <3>1. v * w <= t * w
      BY <2>6, <2>8, <2>10, <2>14
    <3>2. m <= v * w
      BY <2>12
    <3> HIDE DEF m
    <3> QED BY <2>15, <3>1, <3>2
  <2> HIDE DEF m
  <2>18. (AtMost(model[x], r) <=> t * w <= m) /\ (AtMost(r, model[x]) <=> m <= t * w)
    BY <2>11, WorthOrder
  <2> QED BY <2>16, <2>17, <2>18 DEF r
<1> QED BY <1>3, <1>4

\* Forecasts with no point between them are on one line.
LEMMA ApplyOrder ==
    ASSUME NEW model, NEW D, NEW Y, Knots(model, D, Y),
           NEW p \in 0 .. Unit, NEW q \in 0 .. Unit, p <= q
    PROVE  AtMost(ApplyIsotonic(model, p), ApplyIsotonic(model, q))
<1> DEFINE xs == DOMAIN model
<1>1. ApplyIsotonic(model, p) \in Quotients /\ ApplyIsotonic(model, q) \in Quotients
  BY ApplyQuotient
<1>2. p \in Nat /\ q \in Nat /\ \A x \in xs : x \in Nat
  BY EndsAre
<1>3. CASE \E x \in xs : p <= x /\ x <= q
  <2>1. PICK x \in xs : p <= x /\ x <= q
    BY <1>3
  <2>2. AtMost(ApplyIsotonic(model, p), model[x])
    BY <2>1, ApplyBetween
  <2>3. AtMost(model[x], ApplyIsotonic(model, q))
    BY <2>1, ApplyBetween
  <2>4. model[x] \in Quotients
    BY EndsAre
  <2>5. \A r \in Quotients : Fraction(r) /\ r[2] > 0
    BY DEF Quotients, Fraction
  <2> QED BY <1>1, <2>2, <2>3, <2>4, <2>5, AtMostTrans
<1>4. CASE ~ \E x \in xs : p <= x /\ x <= q
  <2>1. {x \in xs : x < p} = {x \in xs : x < q} /\ {x \in xs : x >= p} = {x \in xs : x >= q}
    BY <1>2, <1>4
  <2>2. KnotBelow(model, p) = KnotBelow(model, q) /\ KnotAbove(model, p) = KnotAbove(model, q)
    BY <2>1, Zenon DEF KnotBelow, KnotAbove
  <2>3. Min(xs) \in xs /\ Max(xs) \in xs /\ Min(xs) \in Nat /\ Max(xs) \in Nat
    BY EndsAre
  <2>4. (p <= Min(xs) <=> q <= Min(xs)) /\ (p >= Max(xs) <=> q >= Max(xs)) /\ p # Min(xs) /\ q # Max(xs)
    BY <1>2, <1>4, <2>3
  <2>5. CASE Outside(model, p)
    <3>1. Outside(model, q)
      BY <2>4, <2>5 DEF Outside
    <3>2. ApplyIsotonic(model, p) = ApplyIsotonic(model, q)
      <4>1. xs # {}
        BY <2>3
      <4> QED BY <2>4, <2>5, <4>1, Zenon DEF ApplyIsotonic, Outside
    <3>3. Worth(ApplyIsotonic(model, q), ApplyIsotonic(model, q)[1], ApplyIsotonic(model, q)[2])
      BY <1>1, WorthItself
    <3>4. ApplyIsotonic(model, q)[1] <= ApplyIsotonic(model, q)[1]
      BY <1>1 DEF Quotients
    <3> QED BY <3>2, <3>3, <3>4, WorthOrder
  <2>6. CASE ~Outside(model, p)
    <3>1. ~Outside(model, q)
      BY <2>4, <2>6 DEF Outside
    <3> DEFINE a == KnotBelow(model, p)  b == KnotAbove(model, p)
               r == ApplyIsotonic(model, p)  t == ApplyIsotonic(model, q)
    <3>2. /\ a \in xs /\ b \in xs /\ a < p /\ p <= b
          /\ Worth(r, Y[a] * (b - a) + (Y[b] - Y[a]) * (p - a), D * (b - a))
      BY <2>6, ApplyInside
    <3>3. q <= b /\ Worth(t, Y[a] * (b - a) + (Y[b] - Y[a]) * (q - a), D * (b - a))
      BY <2>2, <3>1, ApplyInside
    <3> HIDE DEF a, b, r, t
    <3> DEFINE u == Y[a]  v == Y[b]  w == b - a  i == p - a  j == q - a
    <3>4. a \in Nat /\ b \in Nat /\ a < b
      <4>1. a < p /\ p <= b
        BY <3>2
      <4> QED BY <1>2, <3>2, <4>1
    <3>5. u \in Int /\ v \in Int /\ u <= v
      <4>1. u \in Int /\ v \in Int
        BY <3>2, EndsAre
      <4>2. a <= b
        BY <3>4
      <4> QED BY <3>2, <4>1, <4>2 DEF Knots
    <3>6. w \in Int /\ i \in Int /\ j \in Int /\ i <= j /\ 0 <= j /\ j <= w
      <4>1. a < p /\ q <= b
        BY <3>2, <3>3
      <4> QED BY <1>2, <3>4, <4>1
    <3>7. Worth(r, u * w + (v - u) * i, D * w) /\ Worth(t, u * w + (v - u) * j, D * w)
      BY <3>2, <3>3
    <3> HIDE DEF u, v, w, i, j
    <3>8. u * w + (v - u) * i <= u * w + (v - u) * j
      BY <3>5, <3>6, LineAlgebra
    <3>9. AtMost(r, t)
      BY <3>7, <3>8, WorthOrder
    <3> QED BY <3>9 DEF r, t
  <2> QED BY <2>5, <2>6
<1> QED BY <1>3, <1>4

\* fit_isotonic()'s points are such a model.
LEMMA FitIsKnots ==
    ASSUME NEW s, RowList(s), s # <<>>, Count(s) >= MinPoints, NEW D, NEW Y, Fitted(s, D, Y)
    PROVE  Knots(FitIsotonic(s), D, Y) /\ DOMAIN FitIsotonic(s) = Forecasts(s)
<1> DEFINE model == FitIsotonic(s)
<1>1. Count(s) \in Nat /\ MinPoints \in Nat
  BY CalibrationAssumption DEF RowList, Count
<1>2. ~ (Count(s) < MinPoints)
  BY <1>1
<1>3. DOMAIN model = Forecasts(s) /\ \A x \in Forecasts(s) : model[x] = Fit(s, x)
  BY <1>2 DEF FitIsotonic, Fit
<1>4. \A x \in Forecasts(s) : Worth(Fit(s, x), Y[x], D)
  BY ForecastCovered DEF Fitted
<1>5. \A x, y \in Forecasts(s) : x <= y => Y[x] <= Y[y]
  BY FittedOrder
<1>6. Forecasts(s) \subseteq 0 .. Unit /\ Forecasts(s) # {} /\ D \in Nat \ {0}
  BY ForecastsAre DEF Fitted
<1> HIDE DEF model
<1>7. Knots(model, D, Y)
  BY <1>3, <1>4, <1>5, <1>6 DEF Knots
<1> QED BY <1>3, <1>7 DEF model

\* apply_isotonic() of the fit: in order, among the outcomes, exact at the points.
LEMMA ApplySound ==
    ASSUME NEW s, RowList(s), s # <<>>, Count(s) >= MinPoints
    PROVE  LET model == FitIsotonic(s)
           IN  /\ \A p, q \in 0 .. Unit : p <= q =>
                    AtMost(ApplyIsotonic(model, p), ApplyIsotonic(model, q))
               /\ \A p \in 0 .. Unit : AtMost(<<0, 1>>, ApplyIsotonic(model, p))
                                       /\ AtMost(ApplyIsotonic(model, p), <<Unit, 1>>)
               /\ \A x \in DOMAIN model : Same(ApplyIsotonic(model, x), model[x])
<1> DEFINE model == FitIsotonic(s)  xs == DOMAIN model
<1>1. PICK D, Y : Fitted(s, D, Y)
  BY FittedIs
<1>2. Knots(model, D, Y) /\ xs = Forecasts(s)
  BY <1>1, FitIsKnots
<1> HIDE DEF model
<1>3. \A p, q \in 0 .. Unit : p <= q => AtMost(ApplyIsotonic(model, p), ApplyIsotonic(model, q))
  BY <1>2, ApplyOrder
<1>4. ASSUME NEW x \in xs PROVE Same(ApplyIsotonic(model, x), model[x])
  <2>1. Worth(ApplyIsotonic(model, x), Y[x], D) /\ Worth(model[x], Y[x], D)
    BY <1>2, ApplyExact DEF Knots
  <2> QED BY <2>1, WorthOrder
<1>5. \A r \in Quotients : Fraction(r) /\ r[2] > 0
  BY DEF Quotients, Fraction
<1>6. Unit \in Nat /\ D \in Nat \ {0}
  BY <1>1, UnitIs DEF Fitted
<1>7. Fraction(<<0, 1>>) /\ Fraction(<<Unit, 1>>)
  BY <1>6 DEF Fraction
<1>8. ASSUME NEW x \in xs PROVE AtMost(<<0, 1>>, model[x]) /\ AtMost(model[x], <<Unit, 1>>)
  <2>1. Worth(model[x], Y[x], D) /\ 0 <= Y[x] /\ Y[x] <= Unit * D
    BY <1>1, <1>2, FittedOrder DEF Knots
  <2>2. Worth(<<0, 1>>, 0 * D, 1 * D)
    <3>1. 0 \in Int /\ 1 \in Nat \ {0}
      OBVIOUS
    <3> QED BY <1>6, <3>1, WorthPair, WorthScaled
  <2>3. Worth(<<Unit, 1>>, Unit * D, 1 * D)
    <3>1. Unit \in Int /\ 1 \in Nat \ {0}
      BY <1>6
    <3> QED BY <1>6, <3>1, WorthPair, WorthScaled
  <2>4. 1 * D = D /\ 0 * D = 0
    BY <1>6
  <2>5. Worth(<<0, 1>>, 0, D) /\ Worth(<<Unit, 1>>, Unit * D, D)
    BY <2>2, <2>3, <2>4
  <2> QED BY <2>1, <2>5, WorthOrder
<1>9. ASSUME NEW p \in 0 .. Unit
      PROVE  AtMost(<<0, 1>>, ApplyIsotonic(model, p)) /\ AtMost(ApplyIsotonic(model, p), <<Unit, 1>>)
  <2> DEFINE lo == Min(xs)  hi == Max(xs)  r == ApplyIsotonic(model, p)
  <2>1. lo \in xs /\ hi \in xs /\ model[lo] \in Quotients /\ model[hi] \in Quotients /\ lo <= hi /\ lo \in Nat /\ hi \in Nat
    BY <1>2, EndsAre
  <2>2. r \in Quotients /\ p \in Nat
    BY <1>2, ApplyQuotient
  <2>3. AtMost(<<0, 1>>, r)
    <3>1. CASE lo <= p
      <4>1. AtMost(model[lo], r) /\ AtMost(<<0, 1>>, model[lo])
        BY <1>2, <1>8, <2>1, <3>1, ApplyBetween
      <4> HIDE DEF r, lo
      <4> QED BY <1>5, <1>7, <2>1, <2>2, <4>1, AtMostTrans
    <3>2. CASE ~ (lo <= p)
      <4>1. p <= lo
        BY <2>1, <2>2, <3>2
      <4>2. xs # {}
        BY <2>1
      <4>3. r = model[lo]
        BY <4>1, <4>2, Zenon DEF ApplyIsotonic
      <4> QED BY <1>8, <2>1, <4>3
    <3> QED BY <3>1, <3>2
  <2>4. AtMost(r, <<Unit, 1>>)
    <3>1. CASE p <= hi
      <4>1. AtMost(r, model[hi]) /\ AtMost(model[hi], <<Unit, 1>>)
        BY <1>2, <1>8, <2>1, <3>1, ApplyBetween
      <4> HIDE DEF r, hi
      <4> QED BY <1>5, <1>7, <2>1, <2>2, <4>1, AtMostTrans
    <3>2. CASE ~ (p <= hi)
      <4>1. p >= hi /\ ~ (p <= lo)
        BY <2>1, <2>2, <3>2
      <4>2. xs # {}
        BY <2>1
      <4>3. r = model[hi]
        BY <4>1, <4>2, Zenon DEF ApplyIsotonic
      <4> QED BY <1>8, <2>1, <4>3
    <3> QED BY <3>1, <3>2
  <2> QED BY <2>3, <2>4
<1> QED BY <1>3, <1>4, <1>9 DEF model

\* How a block goes on from one value to the next.
LEMMA NextBlock ==
    ASSUME NEW s, RowList(s), NEW x \in 0 .. Unit, x + 1 \in 0 .. Unit, Covered(s, x)
    PROVE  LET S == Blocks(s)
           IN  /\ Covered(s, x + 1)
               /\ x + 1 \in S => EndOf(S, x) = x
               /\ x + 1 \notin S => StartOf(S, x + 1) = StartOf(S, x) /\ EndOf(S, x + 1) = EndOf(S, x)
<1> DEFINE S == Blocks(s)  c == StartOf(S, x)  e == EndOf(S, x)
           y == x + 1  d == StartOf(S, y)  f == EndOf(S, y)
<1>1. Unit \in Nat /\ x \in Nat /\ \A a \in S : a \in Nat
  <2>1. S \subseteq Forecasts(s)
    BY BlocksArePooled DEF Pooled
  <2> QED BY <2>1, ForecastsAre, UnitIs
<1>2. Covered(s, y)
  <2>1. PICK a \in S : a <= x
    BY DEF Covered
  <2>2. a <= y
    BY <1>1, <2>1
  <2> QED BY <2>2 DEF Covered
<1>3. InBlock(s, S, x, c, e)
  BY CoveredBlock
<1>4. InBlock(s, S, y, d, f)
  BY <1>2, CoveredBlock
<1> HIDE DEF c, e, d, f, S
<1>5. /\ c \in S /\ c \in 0 .. x /\ e \in x .. Unit /\ e + 1 \in S \cup {Unit + 1}
      /\ \A a \in S : a <= c \/ e < a
      /\ \A a \in S : a <= x => a <= c
  BY <1>3 DEF InBlock
<1>6. /\ d \in S /\ d \in 0 .. y /\ f \in y .. Unit /\ f + 1 \in S \cup {Unit + 1}
      /\ \A a \in S : a <= d \/ f < a
      /\ \A a \in S : a <= y => a <= d
  BY <1>4 DEF InBlock
<1>7. ASSUME y \in S PROVE e = x
  <2>1. y <= c \/ e < y
    BY <1>5, <1>7
  <2> QED BY <1>1, <1>5, <2>1
<1>8. ASSUME y \notin S PROVE d = c /\ f = e
  <2>1. d = c
    <3>1. d # y
      BY <1>6, <1>8
    <3>2. d <= x
      BY <1>1, <1>6, <3>1
    <3>3. d <= c
      BY <1>5, <1>6, <3>2
    <3>4. c <= y
      BY <1>1, <1>5
    <3>5. c <= d
      BY <1>5, <1>6, <3>4
    <3> QED BY <1>1, <1>5, <1>6, <3>3, <3>5
  <2>2. e # x
    <3> SUFFICES ASSUME e = x PROVE FALSE
      OBVIOUS
    <3>1. y = Unit + 1
      BY <1>5, <1>8
    <3> QED BY <1>1, <3>1
  <2>3. ~ (e < f)
    <3> SUFFICES ASSUME e < f PROVE FALSE
      OBVIOUS
    <3>1. e + 1 \in S
      BY <1>1, <1>5, <1>6
    <3>2. e + 1 <= d \/ f < e + 1
      BY <1>6, <3>1
    <3> QED BY <1>1, <1>5, <1>6, <2>1, <3>2
  <2>4. ~ (f < e)
    <3> SUFFICES ASSUME f < e PROVE FALSE
      OBVIOUS
    <3>1. f + 1 \in S
      BY <1>1, <1>5, <1>6
    <3>2. f + 1 <= c \/ e < f + 1
      BY <1>5, <3>1
    <3> QED BY <1>1, <1>5, <1>6, <3>2
  <2>5. e \in Int /\ f \in Int
    BY <1>5, <1>6
  <2> QED BY <2>1, <2>3, <2>4, <2>5
<1> QED BY <1>2, <1>7, <1>8 DEF S, c, e, d, f

\* What a block still lacks up to x: nothing at its end.
Slack(s, D, Y, x) ==
    Y[x] * CountIn(s, StartOf(Blocks(s), x), x) - D * HitsIn(s, StartOf(Blocks(s), x), x)

LEMMA SlackIs ==
    ASSUME NEW s, RowList(s), NEW D, NEW Y, Fitted(s, D, Y), NEW x \in 0 .. Unit, Covered(s, x)
    PROVE  /\ Slack(s, D, Y, x) \in Int /\ Slack(s, D, Y, x) <= 0
           /\ EndOf(Blocks(s), x) = x => Slack(s, D, Y, x) = 0
<1> DEFINE S == Blocks(s)  c == StartOf(S, x)  e == EndOf(S, x)  y == Y[x]
           h == HitsIn(s, c, e)  k == CountIn(s, c, e)  i == HitsIn(s, c, x)  l == CountIn(s, c, x)
<1>1. InBlock(s, S, x, c, e) /\ c \in Int /\ Fit(s, x) = <<h, k>> /\ h \in Nat /\ k \in Nat \ {0}
  BY CoveredBlock
<1>2. y \in Int /\ D \in Nat \ {0} /\ Worth(Fit(s, x), y, D)
  BY DEF Fitted
<1>3. h * D = y * k
  BY <1>1, <1>2 DEF Worth
<1>4. x \in Int /\ x \in c .. Unit
  BY <1>1 DEF InBlock
<1>5. i \in Nat /\ l \in Nat
  BY <1>1, <1>4, RatesAre
<1>6. h * l <= i * k
  <2>1. AtMost(Rate(s, c, e), Rate(s, c, x))
    BY <1>1, <1>4 DEF InBlock
  <2> QED BY <2>1 DEF AtMost, Rate
<1>7. Slack(s, D, Y, x) = y * l - D * i
  BY DEF Slack
<1>8. e = x => h = i /\ k = l
  OBVIOUS
<1> HIDE DEF S, c, e, h, k, i, l, y
<1> DEFINE a == y * l  b == D * i
<1>9. a \in Int /\ b \in Int
  BY <1>2, <1>5
<1>10. a <= b
  <2>1. a * k = (h * l) * D
    <3>1. a * k = (y * k) * l
      BY <1>1, <1>2, <1>5
    <3>2. a * k = (h * D) * l
      BY <1>3, <3>1
    <3>3. (h * D) * l = (h * l) * D
      BY <1>1, <1>2, <1>5
    <3> QED BY <3>2, <3>3
  <2>2. b * k = (i * k) * D
    BY <1>1, <1>2, <1>5
  <2>3. (h * l) * D <= (i * k) * D
    <3> DEFINE p == h * l  q == i * k
    <3>1. p \in Int /\ q \in Int /\ p <= q
      BY <1>1, <1>5, <1>6
    <3> HIDE DEF p, q
    <3>2. p * D <= q * D
      BY <1>2, <3>1, CancelOrder
    <3> QED BY <3>2 DEF p, q
  <2> HIDE DEF a, b
  <2>4. a * k <= b * k
    BY <2>1, <2>2, <2>3
  <2> QED BY <1>1, <1>9, <2>4, CancelOrder
<1>11. e = x => a = b
  <2> SUFFICES ASSUME e = x PROVE a = b
    OBVIOUS
  <2>1. h = i /\ k = l
    BY <1>8
  <2>2. i * D = y * l
    BY <1>3, <2>1
  <2> QED BY <1>2, <1>5, <2>2
<1>12. Slack(s, D, Y, x) = a - b
  BY <1>7
<1> HIDE DEF a, b
<1> QED BY <1>9, <1>10, <1>11, <1>12 DEF e, S

LEMMA SlackAlgebra ==
    ASSUME NEW D \in Int, NEW x \in Int, NEW y \in Int, NEW k \in Nat, NEW h \in Int
    PROVE  LET z == D * x - y
           IN  ((D * x) * (D * x) - y * y) * k + (-(2 * D) * z) * h >= 2 * (z * (y * k - D * h))
<1> DEFINE e == D * x  z == e - y  q == z * z
<1>1. e \in Int /\ z \in Int
  OBVIOUS
<1>2. e * e - y * y = q + 2 * (z * y)
  <2> HIDE DEF e
  <2> QED BY <1>1
<1>3. q \in Nat
  <2> HIDE DEF z
  <2>1. \A t \in Int : t * t \in Nat
    OBVIOUS
  <2> QED BY <1>1, <2>1
<1> HIDE DEF q, z
<1> DEFINE m == z * y  n == z * (y * k)  o == z * (D * h)
<1>4. m \in Int /\ n \in Int /\ o \in Int /\ m * k = n /\ (-(2 * D) * z) * h = -(2 * o)
  BY <1>1
<1>5. z * (y * k - D * h) = n - o
  <2> DEFINE a == y * k  b == D * h
  <2>1. a \in Int /\ b \in Int
    OBVIOUS
  <2> HIDE DEF a, b
  <2>2. z * (a - b) = z * a - z * b
    BY <1>1, <2>1
  <2> QED BY <2>2 DEF a, b
<1> HIDE DEF m, n, o
<1>6. (q + 2 * m) * k = q * k + 2 * n
  BY <1>3, <1>4
<1>7. q * k \in Nat
  BY <1>3
<1> DEFINE w == q * k
<1> HIDE DEF w
<1>8. w + 2 * n + -(2 * o) >= 2 * (n - o)
  BY <1>4, <1>7 DEF w
<1>9. (e * e - y * y) * k = w + 2 * n
  BY <1>2, <1>6 DEF m, w
<1> QED BY <1>4, <1>5, <1>8, <1>9 DEF z

\* The slack's part in the step from one value of a block to the next.
LEMMA AbelAlgebra ==
    ASSUME NEW D \in Nat, NEW z \in Int, NEW a \in Int, NEW b \in Int, a <= 0
    PROVE  2 * ((z - D) * a) + 2 * (z * (b - a)) >= 2 * (z * b)
<1> DEFINE p == z * a  q == z * b  r == D * a
<1>1. p \in Int /\ q \in Int /\ r \in Int
  OBVIOUS
<1>2. (z - D) * a = p - r /\ z * (b - a) = q - p
  OBVIOUS
<1>3. r <= 0
  <2>1. CASE D = 0
    BY <2>1
  <2>2. CASE D > 0
    <3>1. a * D <= 0 * D
      BY <2>2, CancelOrder
    <3> QED BY <3>1
  <2> QED BY <2>1, <2>2
<1> HIDE DEF p, q, r
<1>4. 2 * (p - r) + 2 * (q - p) >= 2 * q
  BY <1>1, <1>3
<1> QED BY <1>2, <1>4 DEF q

\* Twice the cross term of the two errors, and the square left over, row by row.
LiftU(D, Y) == [x \in 0 .. Unit |-> (D * x) * (D * x) - Y[x] * Y[x]]
LiftV(D, Y) == [x \in 0 .. Unit |-> -(2 * D) * (D * x - Y[x])]
Lift(s, D, Y) == [i \in 1 .. Len(s) |-> LiftU(D, Y)[s[i].p] + LiftV(D, Y)[s[i].p] * s[i].o]

LEMMA LiftIs ==
    ASSUME NEW s, RowList(s), NEW D, NEW Y, Fitted(s, D, Y)
    PROVE  /\ LiftU(D, Y) \in [0 .. Unit -> Int] /\ LiftV(D, Y) \in [0 .. Unit -> Int]
           /\ Lift(s, D, Y) \in [1 .. Len(s) -> Int] /\ ByForecast(s, Lift(s, D, Y), LiftU(D, Y), LiftV(D, Y))
           /\ \A x \in 0 .. Unit : /\ LiftU(D, Y)[x] = (D * x) * (D * x) - Y[x] * Y[x]
                                   /\ LiftV(D, Y)[x] = -(2 * D) * (D * x - Y[x])
<1> DEFINE u == LiftU(D, Y)  v == LiftV(D, Y)  f == Lift(s, D, Y)
<1>1. D \in Int /\ \A x \in 0 .. Unit : Y[x] \in Int /\ x \in Int
  BY UnitIs DEF Fitted
<1>2. ASSUME NEW x \in 0 .. Unit PROVE (D * x) * (D * x) - Y[x] * Y[x] \in Int /\ -(2 * D) * (D * x - Y[x]) \in Int
  <2> DEFINE y == Y[x]  e == D * x
  <2>1. y \in Int /\ e \in Int
    BY <1>1
  <2> HIDE DEF y, e
  <2>2. e * e - y * y \in Int /\ -(2 * D) * (e - y) \in Int
    BY <1>1, <2>1
  <2> QED BY <2>2 DEF y, e
<1>3. /\ u \in [0 .. Unit -> Int] /\ v \in [0 .. Unit -> Int]
      /\ \A x \in 0 .. Unit : /\ u[x] = (D * x) * (D * x) - Y[x] * Y[x]
                              /\ v[x] = -(2 * D) * (D * x - Y[x])
  <2>1. u \in [0 .. Unit -> Int] /\ v \in [0 .. Unit -> Int]
    BY <1>2, Zenon DEF LiftU, LiftV
  <2>2. \A x \in 0 .. Unit : /\ u[x] = (D * x) * (D * x) - Y[x] * Y[x]
                             /\ v[x] = -(2 * D) * (D * x - Y[x])
    BY Zenon DEF LiftU, LiftV
  <2> QED BY <2>1, <2>2
<1>4. \A i \in 1 .. Len(s) : s[i].p \in 0 .. Unit /\ s[i].o \in Int
  BY UnitIs DEF RowList
<1>5. \A i \in 1 .. Len(s) : f[i] = u[s[i].p] + v[s[i].p] * s[i].o
  BY Zenon DEF Lift
<1> HIDE DEF u, v
<1>6. f \in [1 .. Len(s) -> Int]
  <2>1. ASSUME NEW i \in 1 .. Len(s) PROVE u[s[i].p] + v[s[i].p] * s[i].o \in Int
    <3> DEFINE a == u[s[i].p]  b == v[s[i].p]  o == s[i].o
    <3>1. a \in Int /\ b \in Int /\ o \in Int
      BY <1>3, <1>4
    <3> HIDE DEF a, b, o
    <3>2. a + b * o \in Int
      BY <3>1
    <3> QED BY <3>2 DEF a, b, o
  <2> QED BY <2>1, Zenon DEF Lift, u, v
<1>7. ByForecast(s, f, u, v)
  BY <1>5, Zenon DEF ByForecast
<1> QED BY <1>3, <1>6, <1>7 DEF u, v

\* Summed over the rows it is not negative: within a block the slack only helps, and at
\* its end nothing is left of it.
LEMMA LiftIsNatural ==
    ASSUME NEW s, RowList(s), NEW D, NEW Y, Fitted(s, D, Y)
    PROVE  Total(Lift(s, D, Y)) >= 0
<1> DEFINE u == LiftU(D, Y)  v == LiftV(D, Y)  f == Lift(s, D, Y)
           Z(x) == D * x - Y[x]  S == Blocks(s)
<1>1. /\ u \in [0 .. Unit -> Int] /\ v \in [0 .. Unit -> Int] /\ f \in [1 .. Len(s) -> Int]
      /\ ByForecast(s, f, u, v)
      /\ \A x \in 0 .. Unit : u[x] = (D * x) * (D * x) - Y[x] * Y[x] /\ v[x] = -(2 * D) * (D * x - Y[x])
  BY LiftIs
<1> HIDE DEF u, v, f
<1>2. PICK g \in [0 .. Unit + 1 -> Int] :
         /\ g[0] = 0 /\ Total(f) = g[Unit + 1]
         /\ \A x \in 0 .. Unit :
               g[x + 1] = g[x] + (u[x] * CountIn(s, x, x) + v[x] * HitsIn(s, x, x))
  BY <1>1, RowsByForecast
<1>3. /\ Unit \in Nat /\ D \in Nat \ {0} /\ \A x \in 0 .. Unit : Y[x] \in Int /\ x \in Nat
      /\ \A a \in S : a \in 0 .. Unit
  <2>1. S \subseteq Forecasts(s)
    BY BlocksArePooled DEF Pooled
  <2> QED BY <2>1, ForecastsAre, UnitIs DEF Fitted
<1> DEFINE Bound(n) == IF n > 0 /\ Covered(s, n - 1)
                       THEN g[n] >= 2 * (Z(n - 1) * Slack(s, D, Y, n - 1)) ELSE g[n] >= 0
           good == {n \in 0 .. Unit + 1 : Bound(n)}
<1>4. 0 \in good
  BY <1>2, <1>3
<1>5. ASSUME NEW n \in 0 .. Unit, n \in good PROVE n + 1 \in good
  <2>0. n \in 0 .. Unit /\ n \in Nat /\ n + 1 \in 0 .. Unit + 1 /\ n + 1 - 1 = n /\ n + 1 > 0
    BY <1>3
  <2>1. Bound(n)
    BY <1>5
  <2> DEFINE k == CountIn(s, n, n)  h == HitsIn(s, n, n)  z == Z(n)  y == Y[n]
             r == u[n] * k + v[n] * h  t == z * (y * k - D * h)
  <2>2. k \in Nat /\ h \in Nat
    BY <2>0, RatesAre
  <2>3. y \in Int /\ z \in Int /\ g[n] \in Int /\ g[n + 1] \in Int
    <3>1. y \in Int /\ g[n] \in Int /\ g[n + 1] \in Int
      BY <1>2, <1>3, <2>0
    <3> QED BY <1>3, <2>0, <3>1
  <2>4. g[n + 1] = g[n] + r
    BY <1>2, <2>0
  <2>5. r >= 2 * t /\ r \in Int /\ t \in Int
    <3>1. r = ((D * n) * (D * n) - y * y) * k + (-(2 * D) * z) * h
      <4>1. u[n] = (D * n) * (D * n) - y * y /\ v[n] = -(2 * D) * z
        BY <1>1, <2>0
      <4> QED BY <4>1
    <3> HIDE DEF k, h, y, r
    <3>2. ((D * n) * (D * n) - y * y) * k + (-(2 * D) * (D * n - y)) * h
            >= 2 * ((D * n - y) * (y * k - D * h))
      <4>1. D \in Int /\ n \in Int /\ h \in Int
        BY <1>3, <2>0, <2>2
      <4> QED BY <2>2, <2>3, <4>1, SlackAlgebra
    <3>3. z = D * n - y
      BY DEF y
    <3>4. t \in Int
      <4> HIDE DEF z
      <4>1. D \in Int
        BY <1>3
      <4>2. y * k \in Int /\ D * h \in Int
        BY <2>2, <2>3, <4>1
      <4> QED BY <2>3, <4>2
    <3>5. r \in Int
      <4> DEFINE a == (D * n) * (D * n) - y * y  b == -(2 * D) * z
      <4>1. a \in Int /\ b \in Int
        <5> DEFINE e == D * n
        <5>1. e \in Int /\ D \in Int
          BY <1>3, <2>0
        <5> HIDE DEF e, z
        <5> QED BY <2>3, <5>1
      <4>2. r = a * k + b * h
        BY <3>1
      <4> HIDE DEF a, b, z
      <4> QED BY <2>2, <4>1, <4>2
    <3>6. r >= 2 * t
      BY <3>1, <3>2, <3>3, Zenon
    <3> QED BY <3>4, <3>5, <3>6
  <2> DEFINE gn == g[n]  gm == g[n + 1]
  <2>6. gn \in Int /\ gm \in Int /\ gm = gn + r /\ r >= 2 * t /\ r \in Int /\ t \in Int
    BY <2>3, <2>4, <2>5
  <2>7. CASE ~Covered(s, n)
    <3>1. n \notin Forecasts(s)
      BY <2>7, ForecastCovered
    <3>2. \A x \in Forecasts(s) : ~ (n <= x /\ x <= n)
      BY <1>3, <2>0, <3>1, ForecastsAre
    <3>3. k = 0 /\ h = 0
      BY <2>0, <3>2, RatesNone
    <3>4. u[n] \in Int /\ v[n] \in Int
      BY <1>1, <2>0
    <3>5. r = 0
      <4> DEFINE a == u[n]  b == v[n]
      <4>1. a * 0 + b * 0 = 0
        BY <3>4
      <4> QED BY <3>3, <4>1
    <3>6. ~ (n > 0 /\ Covered(s, n - 1))
      <4> SUFFICES ASSUME n > 0, Covered(s, n - 1) PROVE FALSE
        OBVIOUS
      <4>1. PICK c \in S : c <= n - 1
        BY DEF Covered
      <4>2. c <= n
        BY <1>3, <2>0, <4>1
      <4> QED BY <2>7, <4>2 DEF Covered
    <3>7. gn >= 0
      BY <2>1, <3>6
    <3> HIDE DEF r, gn, gm
    <3>8. gm >= 0
      BY <2>6, <3>5, <3>7
    <3>9. Bound(n + 1)
      BY <2>0, <2>7, <3>8 DEF gm
    <3> QED BY <2>0, <3>9
  <2>8. CASE Covered(s, n)
    <3> DEFINE b == Slack(s, D, Y, n)
    <3>1. b \in Int /\ b <= 0
      BY <2>0, <2>8, SlackIs
    <3>2. SUFFICES gm >= 2 * (z * b)
      <4>1. Bound(n + 1) <=> gm >= 2 * (z * b)
        <5> HIDE DEF z, b, gm
        <5>1. n + 1 > 0 /\ Covered(s, n + 1 - 1)
          BY <2>0, <2>8
        <5>2. Bound(n + 1) <=> g[n + 1] >= 2 * (Z(n + 1 - 1) * Slack(s, D, Y, n + 1 - 1))
          BY <5>1
        <5>3. Z(n + 1 - 1) = Z(n)
          BY <2>0
        <5> QED BY <2>0, <5>2, <5>3, Zenon DEF z, b, gm
      <4> HIDE DEF Bound, z, b, gm
      <4> QED BY <2>0, <4>1
    <3>3. CASE n \in S
      <4>1. gn >= 0
        <5>1. CASE ~ (n > 0 /\ Covered(s, n - 1))
          BY <2>1, <5>1
        <5>2. CASE n > 0 /\ Covered(s, n - 1)
          <6> DEFINE x == n - 1
          <6>1. x \in 0 .. Unit /\ x + 1 = n /\ Covered(s, x)
            BY <1>3, <2>0, <5>2
          <6>2. gn >= 2 * (Z(x) * Slack(s, D, Y, x))
            BY <2>1, <5>2
          <6> HIDE DEF x
          <6>3. EndOf(S, x) = x
            <7>1. x + 1 \in 0 .. Unit /\ x + 1 \in S
              BY <2>0, <3>3, <6>1
            <7> QED BY <6>1, <7>1, NextBlock
          <6>4. Slack(s, D, Y, x) = 0
            BY <6>1, <6>3, SlackIs
          <6>5. Z(x) \in Int
            <7>1. Y[x] \in Int /\ x \in Int /\ D \in Int
              BY <1>3, <6>1
            <7> QED BY <7>1
          <6> HIDE DEF Z, gn
          <6>6. Z(x) * 0 = 0
            BY <6>5
          <6>7. gn >= 2 * 0
            BY <6>2, <6>4, <6>6
          <6> QED BY <2>6, <6>7
        <5> QED BY <5>1, <5>2
      <4>2. StartOf(S, n) = n
        <5>1. InBlock(s, S, n, StartOf(S, n), EndOf(S, n)) /\ StartOf(S, n) \in Int
          BY <2>0, <2>8, CoveredBlock
        <5>2. StartOf(S, n) \in 0 .. n /\ n <= n
          BY <2>0, <5>1 DEF InBlock
        <5>3. n <= StartOf(S, n)
          BY <3>3, <5>1, <5>2 DEF InBlock
        <5> QED BY <2>0, <5>2, <5>3
      <4>3. b = y * k - D * h
        BY <4>2 DEF Slack
      <4>4. t = z * b
        BY <4>3
      <4> HIDE DEF r, gn, gm, t, z, b
      <4> QED BY <2>6, <4>1, <4>4
    <3>4. CASE n \notin S
      <4> DEFINE x == n - 1  c == StartOf(S, n)
      <4>1. PICK d \in S : d <= n
        BY <2>8 DEF Covered
      <4>2. n > 0 /\ Covered(s, x)
        <5>1. d \in Nat /\ d # n
          BY <1>3, <3>4, <4>1
        <5>2. d <= n - 1 /\ n > 0
          BY <2>0, <4>1, <5>1
        <5> QED BY <5>2 DEF Covered
      <4>3. x \in 0 .. Unit /\ x + 1 = n /\ x \in Int /\ x + 1 \in 0 .. Unit
        BY <1>3, <2>0, <4>2
      <4>4. gn >= 2 * (Z(x) * Slack(s, D, Y, x))
        BY <2>1, <4>2
      <4> HIDE DEF x, c
      <4>5. StartOf(S, n) = StartOf(S, x) /\ EndOf(S, n) = EndOf(S, x)
        <5>1. x + 1 \notin S
          BY <3>4, <4>3
        <5>2. StartOf(S, x + 1) = StartOf(S, x) /\ EndOf(S, x + 1) = EndOf(S, x)
          BY <4>2, <4>3, <5>1, NextBlock
        <5> QED BY <4>3, <5>2
      <4>6. Y[x] = y
        <5>1. Worth(Fit(s, x), Y[x], D) /\ Worth(Fit(s, n), Y[n], D)
          BY <2>0, <2>8, <4>2, <4>3 DEF Fitted
        <5>2. Fit(s, x) = Fit(s, n)
          BY <4>5, Zenon DEF Fit
        <5>3. Same(Fit(s, n), Fit(s, n))
          BY DEF Same
        <5> QED BY <5>1, <5>2, <5>3, WorthOrder
      <4> DEFINE a == Slack(s, D, Y, x)
      <4>7. a \in Int /\ a <= 0
        BY <4>2, <4>3, SlackIs
      <4>8. c \in Int /\ c <= x
        <5>1. InBlock(s, S, x, StartOf(S, x), EndOf(S, x)) /\ StartOf(S, x) \in Int
          BY <4>2, <4>3, CoveredBlock
        <5>2. StartOf(S, x) \in 0 .. x
          BY <5>1 DEF InBlock
        <5> QED BY <4>3, <4>5, <5>2 DEF c
      <4>9. b - a = y * k - D * h
        <5> DEFINE i == HitsIn(s, c, x)  l == CountIn(s, c, x)
        <5>1. HitsIn(s, c, n) = i + h /\ CountIn(s, c, n) = l + k
          <6>1. /\ HitsIn(s, c, n) = HitsIn(s, c, x) + HitsIn(s, x + 1, n)
                /\ CountIn(s, c, n) = CountIn(s, c, x) + CountIn(s, x + 1, n)
            <7>1. n \in Int /\ c <= x + 1 /\ x <= n
              BY <2>0, <4>3, <4>8
            <7> QED BY <4>3, <4>8, <7>1, RatesSplit
          <6> QED BY <4>3, <6>1
        <5>2. i \in Nat /\ l \in Nat
          BY <4>3, <4>8, RatesAre
        <5>3. b = y * (l + k) - D * (i + h)
          BY <5>1 DEF Slack, c
        <5>4. a = y * l - D * i
          BY <4>5, <4>6 DEF Slack, c
        <5>5. D \in Int
          BY <1>3
        <5> HIDE DEF i, l, k, h, y, a, b
        <5>6. y * (l + k) = y * l + y * k /\ D * (i + h) = D * i + D * h
          BY <2>2, <2>3, <5>2, <5>5
        <5>7. y * l \in Int /\ y * k \in Int /\ D * i \in Int /\ D * h \in Int
          BY <2>2, <2>3, <5>2, <5>5
        <5> QED BY <5>3, <5>4, <5>6, <5>7, SMTT(30)
      <4>10. Z(x) = z - D
        <5>1. D * n = D * x + D
          <6>1. D * (x + 1) = D * x + D
            BY <1>3, <4>3
          <6> QED BY <4>3, <6>1
        <5>2. D * x \in Int /\ D \in Int
          BY <1>3, <4>3
        <5> QED BY <2>3, <4>6, <5>1, <5>2
      <4>11. t = z * (b - a)
        BY <4>9
      <4>12. gn >= 2 * ((z - D) * a)
        BY <4>4, <4>10
      <4> HIDE DEF a, b, r, gn, gm, t, z
      <4>13. 2 * ((z - D) * a) + 2 * (z * (b - a)) >= 2 * (z * b)
        <5>1. D \in Nat
          BY <1>3
        <5> QED BY <2>3, <3>1, <4>7, <5>1, AbelAlgebra
      <4> DEFINE p == (z - D) * a  q == z * (b - a)  m == z * b
      <4>14. p \in Int /\ q \in Int /\ m \in Int
        <5>1. D \in Int
          BY <1>3
        <5> QED BY <2>3, <3>1, <4>7, <5>1
      <4>15. 2 * p + 2 * q >= 2 * m /\ gn >= 2 * p /\ t = q
        BY <4>11, <4>12, <4>13
      <4> HIDE DEF p, q, m
      <4>16. gm >= 2 * m
        BY <2>6, <4>14, <4>15
      <4> QED BY <4>16 DEF m
    <3> QED BY <3>3, <3>4
  <2> QED BY <2>7, <2>8
<1>6. Unit + 1 \in good
  <2> HIDE DEF good
  <2>1. Unit + 1 \in Nat /\ Unit + 1 \in 0 .. Unit + 1
    BY <1>3
  <2> DEFINE N == Unit + 1
  <2>4. N \in Nat /\ N - 1 = Unit /\ \A n \in 0 .. Unit : n \in good => n + 1 \in good
    <3>1. N \in Nat /\ N - 1 = Unit
      BY <1>3
    <3>2. \A n \in 0 .. Unit : n \in good => n + 1 \in good
      BY <1>5
    <3> QED BY <3>1, <3>2
  <2> HIDE DEF N
  <2>2. \A n \in 0 .. N - 1 : n \in good => n + 1 \in good
    BY <2>4
  <2>3. \A n \in 0 .. N : n \in good
    BY <1>4, <2>2, <2>4, Counting
  <2> QED BY <2>1, <2>3 DEF N
<1>7. g[Unit + 1] >= 0
  <2> DEFINE n == Unit + 1
  <2>1. Bound(n) /\ n - 1 = Unit /\ n > 0 /\ Unit \in 0 .. Unit /\ n \in 0 .. Unit + 1
    BY <1>3, <1>6
  <2>2. CASE ~Covered(s, Unit)
    BY <2>1, <2>2
  <2>3. CASE Covered(s, Unit)
    <3>1. InBlock(s, S, Unit, StartOf(S, Unit), EndOf(S, Unit)) /\ EndOf(S, Unit) \in Int
      BY <2>1, <2>3, CoveredBlock
    <3>2. EndOf(S, Unit) \in Unit .. Unit
      BY <3>1 DEF InBlock
    <3>3. Slack(s, D, Y, Unit) = 0
      BY <1>3, <2>1, <2>3, <3>2, SlackIs
    <3>4. g[n] >= 2 * (Z(Unit) * Slack(s, D, Y, Unit))
      BY <2>1, <2>3
    <3>5. Z(Unit) \in Int
      <4>1. Y[Unit] \in Int /\ D \in Int
        BY <1>3, <2>1
      <4> QED BY <1>3, <4>1
    <3> HIDE DEF Z
    <3>6. 2 * (Z(Unit) * 0) = 0
      BY <3>5
    <3> QED BY <3>3, <3>4, <3>6
  <2> QED BY <2>2, <2>3
<1> QED BY <1>2, <1>7 DEF f

\* The squared error of the fit, over the common denominator squared, row by row.
GapColumn(s, D, Y) ==
    [i \in 1 .. Len(s) |-> (Y[s[i].p] - D * s[i].o) * (Y[s[i].p] - D * s[i].o)]

LEMMA GapIs ==
    ASSUME NEW s, RowList(s), NEW D, NEW Y, Fitted(s, D, Y)
    PROVE  /\ GapColumn(s, D, Y) \in [1 .. Len(s) -> Int]
           /\ \A i \in 1 .. Len(s) :
                 /\ s[i].p \in 0 .. Unit /\ s[i].o \in Int /\ s[i].p \in Int /\ Y[s[i].p] \in Int /\ D \in Int
                 /\ GapColumn(s, D, Y)[i] = (Y[s[i].p] - D * s[i].o) * (Y[s[i].p] - D * s[i].o)
<1>1. \A i \in 1 .. Len(s) : s[i].p \in 0 .. Unit /\ s[i].o \in Int /\ s[i].p \in Int
  BY UnitIs DEF RowList
<1>2. D \in Int /\ \A x \in 0 .. Unit : Y[x] \in Int
  BY DEF Fitted
<1>3. \A i \in 1 .. Len(s) : Y[s[i].p] \in Int
  BY <1>1, <1>2
<1>4. ASSUME NEW i \in 1 .. Len(s)
      PROVE  (Y[s[i].p] - D * s[i].o) * (Y[s[i].p] - D * s[i].o) \in Int
  <2> DEFINE y == Y[s[i].p]  o == s[i].o
  <2>1. y \in Int /\ o \in Int /\ D \in Int
    BY <1>1, <1>2, <1>3
  <2> HIDE DEF y, o
  <2>2. (y - D * o) * (y - D * o) \in Int
    BY <2>1
  <2> QED BY <2>2 DEF y, o
<1>5. GapColumn(s, D, Y) \in [1 .. Len(s) -> Int]
  BY <1>4, Zenon DEF GapColumn
<1>6. \A i \in 1 .. Len(s) : GapColumn(s, D, Y)[i] = (Y[s[i].p] - D * s[i].o) * (Y[s[i].p] - D * s[i].o)
  BY Zenon DEF GapColumn
<1> QED BY <1>1, <1>2, <1>3, <1>5, <1>6

LEMMA LiftAlgebra ==
    ASSUME NEW D \in Int, NEW x \in Int, NEW y \in Int, NEW o \in Int
    PROVE  ((D * x) * (D * x) - y * y) + (-(2 * D) * (D * x - y)) * o
           = (D * D) * ((x - o) * (x - o)) + (-1) * ((y - D * o) * (y - D * o))
<1> DEFINE e == D * x  q == D * o
<1>1. e \in Int /\ q \in Int
  OBVIOUS
<1>2. (D * D) * ((x - o) * (x - o)) = (e - q) * (e - q)
  <2>1. e - q = D * (x - o)
    OBVIOUS
  <2> DEFINE d == x - o
  <2>2. d \in Int
    OBVIOUS
  <2> HIDE DEF d
  <2>3. (D * D) * (d * d) = (D * d) * (D * d)
    BY <2>2
  <2> QED BY <2>1, <2>3 DEF d
<1>3. (-(2 * D) * (e - y)) * o = -2 * (q * (e - y))
  <2> HIDE DEF e
  <2>1. (-(2 * D) * (e - y)) * o = -2 * ((D * o) * (e - y))
    BY <1>1
  <2> QED BY <2>1
<1> HIDE DEF e, q
<1>4. (e * e - y * y) + (-2 * (q * (e - y))) = (e - q) * (e - q) + (-1) * ((y - q) * (y - q))
  BY <1>1
<1> QED BY <1>2, <1>3, <1>4 DEF e, q

LEMMA LiftIsTheGain ==
    ASSUME NEW s, RowList(s), NEW D, NEW Y, Fitted(s, D, Y)
    PROVE  Total(Lift(s, D, Y)) = (D * D) * SquaredError(s) + (-1) * Total(GapColumn(s, D, Y))
<1> DEFINE N == Len(s)  u == LiftU(D, Y)  v == LiftV(D, Y)  f == Lift(s, D, Y)
           e == ErrorColumn(s)  c == GapColumn(s, D, Y)
<1>1. /\ f \in [1 .. N -> Int]
      /\ \A i \in 1 .. N : f[i] = u[s[i].p] + v[s[i].p] * s[i].o
      /\ \A x \in 0 .. Unit : u[x] = (D * x) * (D * x) - Y[x] * Y[x] /\ v[x] = -(2 * D) * (D * x - Y[x])
  BY LiftIs DEF ByForecast
<1>2. /\ c \in [1 .. N -> Int]
      /\ \A i \in 1 .. N :
            /\ s[i].p \in 0 .. Unit /\ s[i].o \in Int /\ s[i].p \in Int /\ Y[s[i].p] \in Int /\ D \in Int
            /\ c[i] = (Y[s[i].p] - D * s[i].o) * (Y[s[i].p] - D * s[i].o)
  BY GapIs
<1>3. e \in [1 .. N -> Int] /\ SquaredError(s) = Total(e)
  BY SumsAre
<1>4. \A i \in 1 .. N : e[i] = (s[i].p - s[i].o) * (s[i].p - s[i].o)
  BY DEF ErrorColumn, RowList
<1>5. N \in Nat /\ D \in Int
  BY DEF RowList, Fitted
<1> HIDE DEF N, u, v, f, e, c
<1>6. ASSUME NEW i \in 1 .. N PROVE f[i] = (D * D) * e[i] + (-1) * c[i]
  <2> DEFINE x == s[i].p  y == Y[x]  o == s[i].o
  <2>1. x \in 0 .. Unit /\ x \in Int /\ o \in Int /\ y \in Int /\ D \in Int
    BY <1>2
  <2>2. f[i] = ((D * x) * (D * x) - y * y) + (-(2 * D) * (D * x - y)) * o
    <3>1. f[i] = u[x] + v[x] * o
      BY <1>1
    <3>2. u[x] = (D * x) * (D * x) - y * y /\ v[x] = -(2 * D) * (D * x - y)
      BY <1>1, <2>1
    <3> QED BY <3>1, <3>2
  <2>3. e[i] = (x - o) * (x - o) /\ c[i] = (y - D * o) * (y - D * o)
    BY <1>2, <1>4
  <2> HIDE DEF x, y, o
  <2>4. ((D * x) * (D * x) - y * y) + (-(2 * D) * (D * x - y)) * o
        = (D * D) * ((x - o) * (x - o)) + (-1) * ((y - D * o) * (y - D * o))
    BY <2>1, LiftAlgebra
  <2> QED BY <2>2, <2>3, <2>4
<1> DEFINE p == D * D  m == -1
<1>7. p \in Int /\ m \in Int
  BY <1>5
<1>8. \A i \in 1 .. N : f[i] = p * e[i] + m * c[i]
  BY <1>6
<1> HIDE DEF p, m
<1>9. Mixes(N, f, p, e, m, c)
  BY <1>1, <1>2, <1>3, <1>7, <1>8 DEF Mixes
<1>10. Total(f) = p * Total(e) + m * Total(c)
  BY <1>5, <1>9, TotalLinear
<1> QED BY <1>3, <1>10 DEF p, m, f, e, c

\* summarize(): what the sample's Brier score comes to once it is recalibrated.
FitGap(s, i) == Minus(ApplyIsotonic(FitIsotonic(s), s[i].p), <<s[i].o, 1>>)
FitPart(s) == [i \in DOMAIN s |-> Times(FitGap(s, i), FitGap(s, i))]

LEMMA FitPartIs ==
    ASSUME NEW s, RowList(s)
    PROVE  RecalibratedBrier(s) = Times(SumBelow(FitPart(s), Len(s) + 1), <<1, Len(s)>>)
<1> DEFINE fitted == Recalibrated(s)
           gap == [i \in DOMAIN s |-> Minus(fitted[i], <<s[i].o, 1>>)]
           part == [i \in DOMAIN s |-> Times(gap[i], gap[i])]
<1>1. \A i \in DOMAIN s : fitted[i] = ApplyIsotonic(FitIsotonic(s), s[i].p)
  BY Zenon DEF Recalibrated
<1>2. RecalibratedBrier(s) = Times(SumBelow(part, Count(s) + 1), <<1, Count(s)>>)
  BY Zenon DEF RecalibratedBrier
<1> HIDE DEF fitted
<1>3. \A i \in DOMAIN s : gap[i] = FitGap(s, i)
  BY <1>1, Zenon DEF FitGap
<1> HIDE DEF gap
<1>4. part = FitPart(s)
  <2>1. \A i \in DOMAIN s : Times(gap[i], gap[i]) = Times(FitGap(s, i), FitGap(s, i))
    BY <1>3, Zenon
  <2> QED BY <2>1, Zenon DEF FitPart
<1> HIDE DEF part
<1> QED BY <1>2, <1>4 DEF Count

LEMMA FitGapWorth ==
    ASSUME NEW s, RowList(s), s # <<>>, Count(s) >= MinPoints, NEW D, NEW Y, Fitted(s, D, Y),
           NEW i \in 1 .. Len(s)
    PROVE  Worth(FitPart(s)[i], GapColumn(s, D, Y)[i], D * D)
<1> DEFINE model == FitIsotonic(s)  x == s[i].p  o == s[i].o  y == Y[x]  fit == ApplyIsotonic(model, x)
           hit == <<o, 1>>  gap == Minus(fit, hit)
<1>1. /\ x \in 0 .. Unit /\ o \in Int /\ y \in Int /\ D \in Int
      /\ GapColumn(s, D, Y)[i] = (y - D * o) * (y - D * o)
  BY GapIs
<1>2. D \in Nat \ {0} /\ i \in DOMAIN s
  BY DEF Fitted, RowList
<1>3. Knots(model, D, Y) /\ x \in DOMAIN model
  <2>1. Knots(model, D, Y) /\ DOMAIN model = Forecasts(s)
    BY FitIsKnots
  <2>2. x \in Forecasts(s)
    BY <1>2 DEF Forecasts
  <2> QED BY <2>1, <2>2
<1>4. FitPart(s)[i] = Times(gap, gap)
  BY <1>2, Zenon DEF FitPart, FitGap
<1> HIDE DEF model
<1>5. Worth(fit, y, D)
  <2> HIDE DEF x
  <2> QED BY <1>3, ApplyExact
<1> HIDE DEF x, o, y, fit
<1>6. Worth(hit, o * D, 1 * D)
  <2>1. Worth(hit, o, 1)
    BY <1>1, WorthPair
  <2> HIDE DEF hit
  <2> QED BY <1>1, <1>2, <2>1, WorthScaled, SMTT(30)
<1>7. Worth(hit, D * o, D)
  <2>1. o * D = D * o /\ 1 * D = D
    BY <1>1
  <2> QED BY <1>6, <2>1
<1> HIDE DEF hit
<1>8. Worth(gap, y - D * o, D)
  <2> DEFINE q == D * o
  <2> HIDE DEF q
  <2>1. Worth(hit, q, D)
    BY <1>7 DEF q
  <2>2. Worth(gap, y - q, D)
    BY <1>5, <2>1, WorthMinus
  <2> QED BY <2>2 DEF q
<1> HIDE DEF gap
<1>9. Worth(Times(gap, gap), (y - D * o) * (y - D * o), D * D)
  <2> DEFINE q == y - D * o
  <2> HIDE DEF q
  <2>1. Worth(gap, q, D)
    BY <1>8 DEF q
  <2>2. Worth(Times(gap, gap), q * q, D * D)
    BY <2>1, WorthTimes
  <2> QED BY <2>2 DEF q
<1> QED BY <1>1, <1>4, <1>9

LEMMA RecalibratedIs ==
    ASSUME NEW s, RowList(s), s # <<>>, Count(s) >= MinPoints, NEW D, NEW Y, Fitted(s, D, Y)
    PROVE  Worth(RecalibratedBrier(s), Total(GapColumn(s, D, Y)), (D * D) * Len(s))
<1> DEFINE N == Len(s)  c == GapColumn(s, D, Y)  part == FitPart(s)  n == N + 1  d == D * D
           w == [x \in 0 .. n - 1 |-> IF x = 0 THEN 0 ELSE c[x]]
<1>1. N \in Nat /\ c \in [1 .. N -> Int] /\ D \in Nat \ {0}
  BY GapIs DEF RowList, Fitted
<1>2. N > 0
  BY <1>1, EmptySeq DEF RowList
<1>3. DOMAIN part = 1 .. N /\ \A i \in 1 .. N : Worth(part[i], c[i], d)
  <2>1. \A i \in 1 .. N : Worth(part[i], c[i], d)
    <3> SUFFICES ASSUME NEW i \in 1 .. N PROVE Worth(part[i], c[i], d)
      OBVIOUS
    <3> QED BY FitGapWorth
  <2>2. DOMAIN part = 1 .. N
    BY DEF FitPart, RowList
  <2> QED BY <2>1, <2>2
<1>4. RecalibratedBrier(s) = Times(SumBelow(part, n), <<1, N>>)
  BY FitPartIs
<1>5. n \in Nat /\ n - 1 = N /\ d \in Nat \ {0}
  BY <1>1
<1> HIDE DEF N, c, part, n, d
<1>6. w \in [0 .. n - 1 -> Int]
  BY <1>1, <1>5
<1>7. \A x \in 0 .. n - 1 : IF x \in DOMAIN part THEN Worth(part[x], w[x], d) ELSE w[x] = 0
  <2> SUFFICES ASSUME NEW x \in 0 .. n - 1
               PROVE  IF x \in DOMAIN part THEN Worth(part[x], w[x], d) ELSE w[x] = 0
    OBVIOUS
  <2>1. CASE x = 0
    <3>1. x \notin DOMAIN part /\ w[x] = 0
      BY <1>3, <1>5, <2>1
    <3> QED BY <3>1
  <2>2. CASE x # 0
    <3>1. x \in 1 .. N /\ w[x] = c[x] /\ x \in DOMAIN part
      BY <1>1, <1>3, <1>5, <2>2
    <3> QED BY <1>3, <3>1
  <2> QED BY <2>1, <2>2
<1>8. \A x \in 1 .. N : w[x] = c[x]
  BY <1>1, <1>5
<1>12. w[0] = 0
  BY <1>1, <1>5
<1> HIDE DEF w
<1>9. PICK f \in [0 .. n -> Int] : /\ f[0] = 0 /\ \A x \in 1 .. n : f[x] = f[x - 1] + w[x - 1]
                                   /\ Worth(SumBelow(part, n), f[n], d)
  BY <1>5, <1>6, <1>7, SumBelowWorth
<1>10. PICK g \in [0 .. N -> Int] : /\ g[0] = 0 /\ \A x \in 1 .. N : g[x] = g[x - 1] + c[x]
                                    /\ Total(c) = g[N]
  BY <1>1, TotalIs
<1>11. f[n] = g[N]
  <2> DEFINE good == {x \in 0 .. N : f[x + 1] = g[x]}
  <2>1. 0 \in good
    <3>1. 1 \in 1 .. n /\ 1 - 1 = 0 /\ 0 + 1 = 1 /\ 0 \in 0 .. N
      BY <1>1, <1>5
    <3>2. f[1] = f[0] + w[0]
      BY <1>9, <3>1
    <3> QED BY <1>9, <1>10, <1>12, <3>1, <3>2
  <2>2. ASSUME NEW x \in 0 .. N - 1, x \in good PROVE x + 1 \in good
    <3>1. /\ x + 1 \in 1 .. N /\ x + 1 - 1 = x /\ x + 1 \in 0 .. N
          /\ x + 1 + 1 \in 1 .. n /\ x + 1 + 1 - 1 = x + 1
      BY <1>1, <1>5
    <3>2. f[x + 1 + 1] = f[x + 1] + w[x + 1] /\ g[x + 1] = g[x] + c[x + 1] /\ w[x + 1] = c[x + 1]
      BY <1>8, <1>9, <1>10, <3>1
    <3>3. f[x + 1] = g[x]
      BY <2>2
    <3> QED BY <3>1, <3>2, <3>3
  <2> HIDE DEF good
  <2>3. \A x \in 0 .. N : x \in good
    BY <1>1, <2>1, <2>2, Counting
  <2>4. N \in good /\ n = N + 1
    BY <1>1, <2>3 DEF n
  <2> QED BY <2>4 DEF good
<1>13. Worth(<<1, N>>, 1, N)
  BY <1>1, <1>2, WorthPair
<1>14. Worth(RecalibratedBrier(s), Total(c) * 1, d * N)
  <2> DEFINE a == SumBelow(part, n)  b == <<1, N>>
  <2>1. Worth(a, Total(c), d) /\ Worth(b, 1, N)
    BY <1>9, <1>10, <1>11, <1>13
  <2> HIDE DEF a, b
  <2>2. Worth(Times(a, b), Total(c) * 1, d * N)
    BY <2>1, WorthTimes
  <2> QED BY <1>4, <2>2 DEF a, b
<1>15. Total(c) \in Int
  BY <1>1, TotalType
<1>16. Total(c) * 1 = Total(c)
  BY <1>15
<1> QED BY <1>14, <1>16 DEF c, d, N

\* The recalibrated sample has no larger Brier score than the sample had.
LEMMA RecalibratedIsNoWorse ==
    ASSUME NEW s, RowList(s), s # <<>>, Count(s) >= MinPoints
    PROVE  AtMost(RecalibratedBrier(s), MeanBrier(s))
<1>1. PICK D, Y : Fitted(s, D, Y)
  BY FittedIs
<1> DEFINE N == Len(s)  d == D * D  E == SquaredError(s)  T == Total(GapColumn(s, D, Y))
<1>2. N \in Nat \ {0} /\ d \in Nat \ {0} /\ E \in Int /\ T \in Int
  <2>1. N \in Nat /\ N # 0 /\ D \in Nat \ {0}
    BY <1>1, EmptySeq DEF RowList, Fitted
  <2>2. E \in Int
    BY SumsAre
  <2>3. GapColumn(s, D, Y) \in [1 .. Len(s) -> Int]
    BY <1>1, GapIs
  <2>4. T \in Int
    BY <2>1, <2>3, TotalType
  <2> HIDE DEF T, E, N
  <2> QED BY <2>1, <2>2, <2>4
<1>3. Worth(RecalibratedBrier(s), T, d * N)
  BY <1>1, RecalibratedIs
<1>4. d * E + (-1) * T >= 0
  BY <1>1, LiftIsTheGain, LiftIsNatural
<1>5. MeanBrier(s) = Quot(E, N)
  BY DEF MeanBrier, Count
<1> HIDE DEF N, d, E, T
<1>6. Worth(MeanBrier(s), E * d, N * d)
  <2>1. Worth(MeanBrier(s), E, N)
    BY <1>2, <1>5, QuotWorth
  <2> QED BY <1>2, <2>1, WorthScaled
<1>7. N * d = d * N /\ T <= E * d
  <2>1. d * E = E * d /\ d * E \in Int /\ N * d = d * N
    BY <1>2
  <2> QED BY <1>2, <1>4, <2>1
<1> DEFINE e == E * d  m == d * N
<1>8. Worth(MeanBrier(s), e, m) /\ Worth(RecalibratedBrier(s), T, m) /\ T <= e
  BY <1>3, <1>6, <1>7
<1> HIDE DEF e, m
<1> QED BY <1>8, WorthOrder

LEMMA RecalibrationLemma == ASSUME graded \in Seq(AllRows) PROVE RecalibrationIsSound
<1>1. RowList(graded)
  BY RowListIs
<1>2. SUFFICES ASSUME Count(graded) >= MinPoints PROVE RecalibrationIsSound
  BY DEF RecalibrationIsSound
<1>3. graded # <<>>
  <2>1. Count(<<>>) = 0
    BY DEF Count
  <2> QED BY <1>2, <2>1, CalibrationAssumption
<1>4. AtMost(RecalibratedBrier(graded), MeanBrier(graded))
  BY <1>1, <1>2, <1>3, RecalibratedIsNoWorse
<1>5. LET model == FitIsotonic(graded)
      IN  /\ \A p, q \in 0 .. Unit : p <= q =>
               AtMost(ApplyIsotonic(model, p), ApplyIsotonic(model, q))
          /\ \A p \in 0 .. Unit : AtMost(<<0, 1>>, ApplyIsotonic(model, p))
                                  /\ AtMost(ApplyIsotonic(model, p), <<Unit, 1>>)
          /\ \A x \in DOMAIN model : Same(ApplyIsotonic(model, x), model[x])
  BY <1>1, <1>2, <1>3, ApplySound
<1> QED BY <1>4, <1>5, Zenon DEF RecalibrationIsSound
-----------------------------------------------------------------------------
(* The theorems.                                                           *)

\* Only graded ledger rows are ever scored.
RowsInv == graded \in Seq(AllRows)

\* Whatever is appended, the scores are taken of resolved ledger rows and nothing else.
THEOREM RowsAreGraded == CalibrationSpec => []RowsInv
<1>1. CalibrationInit => RowsInv
  BY DEF CalibrationInit, RowsInv
<1>2. RowsInv /\ [CalibrationNext]_graded => RowsInv'
  <2> SUFFICES ASSUME graded \in Seq(AllRows), [CalibrationNext]_graded PROVE graded' \in Seq(AllRows)
    BY DEF RowsInv
  <2>1. CASE UNCHANGED graded
    BY <2>1
  <2>2. CASE CalibrationNext
    <3>1. PICK row \in AllRows : graded' = Append(graded, row)
      BY <2>2 DEF CalibrationNext, GradedRow, AllRows
    <3> QED BY <3>1
  <2> QED BY <2>1, <2>2
<1> QED BY <1>1, <1>2, PTL DEF CalibrationSpec

\* calibration.py and the scores made of it: whatever rows are graded, in whatever order
\* and number, the Murphy parts add up to the Brier score and give the skill, the
\* backtest's verdict and the scoreboard's skill agree, market rows never reach the
\* headline, pooling yields the isotonic regression, recalibrating with it is monotone,
\* exact and never worsens its own sample, and every forecast falls in one bin.
THEOREM CalibrationCorrect == CalibrationSpec => []CalibrationIsSound
<1>1. RowsInv => CalibrationIsSound
  <2> SUFFICES ASSUME graded \in Seq(AllRows), graded # <<>>
               PROVE  /\ MurphyAddsUp /\ VerdictsAgree /\ HeadlineIsInternal
                      /\ IsotonicIsTheRegression /\ RecalibrationIsSound /\ BinsPartition
    BY DEF CalibrationIsSound, RowsInv
  <2>1. MurphyAddsUp
    BY MurphyLemma
  <2>2. VerdictsAgree
    BY VerdictsLemma
  <2>3. HeadlineIsInternal
    BY HeadlineLemma
  <2>4. IsotonicIsTheRegression
    BY RegressionLemma
  <2>5. RecalibrationIsSound
    BY RecalibrationLemma
  <2>6. BinsPartition
    BY BinsLemma
  <2> QED BY <2>1, <2>2, <2>3, <2>4, <2>5, <2>6
<1> QED BY <1>1, RowsAreGraded, PTL
=============================================================================
