--------------------------- MODULE ExposureProofs ---------------------------
(***************************************************************************)
(* Proofs about Exposure, for any events, links and limits: what the       *)
(* diffusion attributes adds up, another link takes nothing away, scores   *)
(* stay in scale, events without backing show nowhere and the consequence  *)
(* chain finds the strongest paths.                                        *)
(***************************************************************************)
EXTENDS Exposure, ScoresProofs
-----------------------------------------------------------------------------
(* Sums over finite sets.                                                  *)

\* What every subset of a finite set has, when the empty one has it and it goes on
\* from a set to one with another element.
LEMMA BuildUp ==
    ASSUME NEW T, IsFiniteSet(T), NEW good, {} \in good,
           \A s \in SUBSET T : \A x \in T \ s : s \in good => s \cup {x} \in good
    PROVE  \A s \in SUBSET T : s \in good
<1> DEFINE all == {n \in 0 .. Cardinality(T) : \A s \in SUBSET T : Cardinality(s) = n => s \in good}
<1>0. /\ Cardinality(T) \in Nat
      /\ \A s \in SUBSET T : IsFiniteSet(s) /\ Cardinality(s) \in 0 .. Cardinality(T)
  BY FS_CardinalityType, FS_Subset
<1>1. 0 \in all
  BY <1>0, FS_EmptySet
<1>2. ASSUME NEW n \in 0 .. Cardinality(T) - 1, n \in all PROVE n + 1 \in all
  <2>1. ASSUME NEW s \in SUBSET T, Cardinality(s) = n + 1 PROVE s \in good
    <3>1. s # {}
      BY <1>0, <2>1, FS_EmptySet
    <3>2. PICK x \in s : TRUE
      BY <3>1
    <3>3. s \ {x} \in SUBSET T /\ Cardinality(s \ {x}) = n
      BY <1>0, <2>1, <3>2, FS_RemoveElement
    <3>4. s \ {x} \in good
      BY <1>2, <3>3
    <3>5. (s \ {x}) \cup {x} = s /\ x \in T \ (s \ {x})
      BY <3>2
    <3> QED BY <3>3, <3>4, <3>5
  <2> QED BY <1>0, <2>1
<1>3. \A n \in 0 .. Cardinality(T) : n \in all
  <2> HIDE DEF all
  <2> QED BY <1>0, <1>1, <1>2, Counting
<1> QED BY <1>0, <1>3

Pick1(s) == CHOOSE x \in s : TRUE
Adds(f, T, it) == it = [s \in SUBSET T |-> IF s = {} THEN 0 ELSE f[Pick1(s)] + it[s \ {Pick1(s)}]]

LEMMA SumIsAdds == ASSUME NEW f, NEW T PROVE SumFunctionOnSet(f, T) = (CHOOSE it : Adds(f, T, it))[T]
  BY DEF SumFunctionOnSet, FoldFunctionOnSet, MapThenFoldSet, Adds, Pick1

\* Such a function exists: the values of a set are right once there have been as many
\* rounds as it has elements.
LEMMA AddsExists ==
    ASSUME NEW T, IsFiniteSet(T), NEW f, \A x \in T : f[x] \in Int
    PROVE  \E it : it \in [SUBSET T -> Int] /\ Adds(f, T, it)
<1> DEFINE X == [SUBSET T -> Int]
           Step(h) == [s \in SUBSET T |-> IF s = {} THEN 0 ELSE f[Pick1(s)] + h[s \ {Pick1(s)}]]
           N == Cardinality(T) + 1
           D == [n \in 1 .. N |-> [h \in X |-> Step(h)]]
           zero == [s \in SUBSET T |-> 0]
<1>0. /\ Cardinality(T) \in Nat /\ N \in Nat
      /\ \A s \in SUBSET T : IsFiniteSet(s) /\ Cardinality(s) \in 0 .. Cardinality(T)
  BY FS_CardinalityType, FS_Subset
<1>1. \A s \in SUBSET T : s # {} =>
        /\ Pick1(s) \in s /\ s \ {Pick1(s)} \in SUBSET T
        /\ Cardinality(s \ {Pick1(s)}) = Cardinality(s) - 1
  BY <1>0, FS_RemoveElement DEF Pick1
<1>2. \A h \in X : Step(h) \in X
  <2>1. ASSUME NEW h \in X, NEW s \in SUBSET T PROVE Step(h)[s] \in Int
    <3>1. CASE s = {}
      BY <3>1
    <3>2. CASE s # {}
      <4>1. f[Pick1(s)] \in Int /\ h[s \ {Pick1(s)}] \in Int
        BY <1>1, <3>2
      <4> QED BY <3>2, <4>1
    <3> QED BY <3>1, <3>2
  <2> QED BY <2>1
<1>3. zero \in X /\ D \in Rules(N, X)
  <2> HIDE DEF Step, X, N
  <2>1. zero \in X
    BY DEF X
  <2>2. D \in [1 .. N -> [X -> X]]
    BY <1>2
  <2> QED BY <2>1, <2>2 DEF Rules
<1>4. PICK g : Unrolls(N, X, zero, D, g)
  <2> HIDE DEF X, zero, D, N
  <2> QED BY <1>0, <1>3, Recursion
<1>5. /\ g \in [0 .. N -> X] /\ \A n \in 1 .. N : g[n] = Step(g[n - 1])
  <2>1. g \in [0 .. N -> X] /\ \A n \in 1 .. N : g[n] = D[n][g[n - 1]]
    BY <1>4 DEF Unrolls
  <2>2. \A n \in 1 .. N : n - 1 \in 0 .. N
    BY <1>0
  <2> HIDE DEF X, Step, N
  <2> QED BY <2>1, <2>2
<1> DEFINE good == {n \in 0 .. N - 1 : \A s \in SUBSET T : Cardinality(s) <= n => g[n][s] = g[n + 1][s]}
<1>55. \A n \in 1 .. N : \A s \in SUBSET T : g[n][s] = IF s = {} THEN 0 ELSE f[Pick1(s)] + g[n - 1][s \ {Pick1(s)}]
  BY <1>5
<1>6. 0 \in good
  <2>1. ASSUME NEW s \in SUBSET T, Cardinality(s) <= 0 PROVE g[0][s] = g[1][s]
    <3>1. s = {}
      BY <1>0, <2>1, FS_EmptySet
    <3>2. g[0][s] = 0
      BY <1>4 DEF Unrolls
    <3>3. 1 \in 1 .. N
      BY <1>0
    <3> QED BY <1>55, <3>1, <3>2, <3>3
  <2> QED BY <1>0, <2>1
<1>7. ASSUME NEW n \in 0 .. N - 2, n \in good PROVE n + 1 \in good
  <2>1. ASSUME NEW s \in SUBSET T, Cardinality(s) <= n + 1 PROVE g[n + 1][s] = g[n + 2][s]
    <3>1. n + 1 \in 1 .. N /\ n + 2 \in 1 .. N /\ n + 1 - 1 = n /\ n + 2 - 1 = n + 1
      BY <1>0
    <3>2. CASE s = {}
      BY <1>55, <3>1, <3>2
    <3>3. CASE s # {}
      <4>1. Cardinality(s \ {Pick1(s)}) <= n /\ s \ {Pick1(s)} \in SUBSET T
        BY <1>0, <1>1, <2>1, <3>3
      <4>2. g[n][s \ {Pick1(s)}] = g[n + 1][s \ {Pick1(s)}]
        BY <1>7, <4>1
      <4>3. g[n + 1][s] = f[Pick1(s)] + g[n][s \ {Pick1(s)}]
        BY <1>55, <3>1, <3>3
      <4>4. g[n + 2][s] = f[Pick1(s)] + g[n + 1][s \ {Pick1(s)}]
        BY <1>55, <3>1, <3>3
      <4> QED BY <4>2, <4>3, <4>4
    <3> QED BY <3>2, <3>3
  <2> QED BY <1>0, <2>1
<1>8. N - 1 \in good
  <2> DEFINE M == N - 1
  <2>1. M \in Nat /\ \A n \in 0 .. M - 1 : n \in 0 .. N - 2
    BY <1>0
  <2>2. \A n \in 0 .. M - 1 : n \in good => n + 1 \in good
    <3> HIDE DEF good, M, N
    <3> QED BY <1>7, <2>1
  <2>3. \A n \in 0 .. M : n \in good
    <3> HIDE DEF good, M, N
    <3> QED BY <1>6, <2>1, <2>2, Counting
  <2> HIDE DEF good
  <2> QED BY <2>1, <2>3
<1>9. \A s \in SUBSET T : g[N - 1][s] = g[N][s]
  <2>1. \A s \in SUBSET T : Cardinality(s) <= N - 1 /\ N - 1 + 1 = N
    BY <1>0
  <2> HIDE DEF N
  <2> QED BY <1>8, <2>1
<1>10. g[N - 1] \in X /\ g[N] \in X /\ g[N] = Step(g[N - 1])
  <2>1. N \in 1 .. N /\ N - 1 \in 0 .. N /\ N \in 0 .. N
    BY <1>0
  <2> HIDE DEF N, X, Step
  <2> QED BY <1>5, <2>1
<1>11. g[N - 1] = g[N]
  <2> HIDE DEF N
  <2> QED BY <1>9, <1>10
<1>12. g[N] \in [SUBSET T -> Int] /\ g[N] = Step(g[N])
  <2> HIDE DEF N, Step
  <2> QED BY <1>10, <1>11
<1> QED BY <1>12 DEF Adds

LEMMA SumExists ==
    ASSUME NEW T, IsFiniteSet(T), NEW f, \A x \in T : f[x] \in Int
    PROVE  \E it : Adds(f, T, it) /\ SumFunctionOnSet(f, T) = it[T]
<1> DEFINE it == CHOOSE h : Adds(f, T, h)
<1>1. Adds(f, T, it)
  BY AddsExists
<1> QED BY <1>1, SumIsAdds

\* Functions that add up the same things agree where both are defined.
LEMMA AddsOnce ==
    ASSUME NEW T, IsFiniteSet(T), NEW f, NEW a, Adds(f, T, a), NEW U \in SUBSET T, NEW b, Adds(f, U, b)
    PROVE  \A s \in SUBSET U : a[s] = b[s]
<1> DEFINE all == {n \in 0 .. Cardinality(U) : \A s \in SUBSET U : Cardinality(s) = n => a[s] = b[s]}
<1>0. /\ IsFiniteSet(U) /\ Cardinality(U) \in Nat
      /\ \A s \in SUBSET U : IsFiniteSet(s) /\ Cardinality(s) \in 0 .. Cardinality(U)
  BY FS_CardinalityType, FS_Subset
<1>1. \A s \in SUBSET U : /\ a[s] = IF s = {} THEN 0 ELSE f[Pick1(s)] + a[s \ {Pick1(s)}]
                          /\ b[s] = IF s = {} THEN 0 ELSE f[Pick1(s)] + b[s \ {Pick1(s)}]
  <2>1. ASSUME NEW s \in SUBSET U PROVE a[s] = IF s = {} THEN 0 ELSE f[Pick1(s)] + a[s \ {Pick1(s)}]
    <3>1. s \in SUBSET T
      OBVIOUS
    <3> QED BY <3>1, Zenon DEF Adds
  <2>2. ASSUME NEW s \in SUBSET U PROVE b[s] = IF s = {} THEN 0 ELSE f[Pick1(s)] + b[s \ {Pick1(s)}]
    BY Zenon DEF Adds
  <2> QED BY <2>1, <2>2
<1>2. \A s \in SUBSET U : s # {} => Cardinality(s \ {Pick1(s)}) = Cardinality(s) - 1
  BY <1>0, FS_RemoveElement DEF Pick1
<1>3. 0 \in all
  BY <1>0, <1>1, FS_EmptySet
<1>4. ASSUME NEW n \in 0 .. Cardinality(U) - 1, n \in all PROVE n + 1 \in all
  <2>1. ASSUME NEW s \in SUBSET U, Cardinality(s) = n + 1 PROVE a[s] = b[s]
    <3>1. s # {}
      BY <1>0, <2>1, FS_EmptySet
    <3>2. s \ {Pick1(s)} \in SUBSET U /\ Cardinality(s \ {Pick1(s)}) = n
      BY <1>0, <1>2, <2>1, <3>1
    <3>3. a[s \ {Pick1(s)}] = b[s \ {Pick1(s)}]
      BY <1>4, <3>2
    <3> QED BY <1>1, <3>1, <3>3
  <2> QED BY <1>0, <2>1
<1>5. \A n \in 0 .. Cardinality(U) : n \in all
  <2> HIDE DEF all
  <2> QED BY <1>0, <1>3, <1>4, Counting
<1> QED BY <1>0, <1>5

\* A sum is a number, and that of nothing is 0.
LEMMA SumType ==
    ASSUME NEW T, IsFiniteSet(T), NEW f, \A x \in T : f[x] \in Int
    PROVE  SumFunctionOnSet(f, T) \in Int
<1>1. PICK a : a \in [SUBSET T -> Int] /\ Adds(f, T, a)
  BY AddsExists
<1>2. PICK b : Adds(f, T, b) /\ SumFunctionOnSet(f, T) = b[T]
  BY SumExists
<1>3. a[T] = b[T]
  BY <1>1, <1>2, AddsOnce
<1> QED BY <1>1, <1>2, <1>3

LEMMA SumEmpty == ASSUME NEW f PROVE SumFunctionOnSet(f, {}) = 0
<1>1. PICK a : Adds(f, {}, a) /\ SumFunctionOnSet(f, {}) = a[{}]
  BY SumExists, FS_EmptySet
<1>2. a[{}] = 0
  BY <1>1 DEF Adds
<1> QED BY <1>1, <1>2

\* It takes its elements in the order CHOOSE gives...
LEMMA SumChosen ==
    ASSUME NEW T, IsFiniteSet(T), T # {}, NEW f, \A x \in T : f[x] \in Int
    PROVE  SumFunctionOnSet(f, T) = f[Pick1(T)] + SumFunctionOnSet(f, T \ {Pick1(T)})
<1> DEFINE U == T \ {Pick1(T)}
<1>1. PICK a : Adds(f, T, a) /\ SumFunctionOnSet(f, T) = a[T]
  BY SumExists
<1>2. U \in SUBSET T /\ IsFiniteSet(U)
  BY FS_Subset
<1>3. PICK b : Adds(f, U, b) /\ SumFunctionOnSet(f, U) = b[U]
  BY <1>2, SumExists
<1>4. a[U] = b[U]
  <2> HIDE DEF U
  <2> QED BY <1>1, <1>2, <1>3, AddsOnce
<1>5. a[T] = f[Pick1(T)] + a[U]
  <2>1. T \in SUBSET T
    OBVIOUS
  <2> QED BY <1>1, <2>1, Zenon DEF Adds
<1> QED BY <1>1, <1>3, <1>4, <1>5

\* ...but any other gives the same.
LEMMA SumStep ==
    ASSUME NEW T, IsFiniteSet(T), NEW f, \A x \in T : f[x] \in Int, NEW x \in T
    PROVE  SumFunctionOnSet(f, T) = f[x] + SumFunctionOnSet(f, T \ {x})
<1> DEFINE S(s) == SumFunctionOnSet(f, s)
           all == {n \in 0 .. Cardinality(T) : \A s \in SUBSET T : Cardinality(s) = n =>
                      \A y \in s : S(s) = f[y] + S(s \ {y})}
<1>0. /\ Cardinality(T) \in Nat
      /\ \A s \in SUBSET T : IsFiniteSet(s) /\ Cardinality(s) \in 0 .. Cardinality(T)
  BY FS_CardinalityType, FS_Subset
<1>1. \A s \in SUBSET T : \A y \in s : /\ s \ {y} \in SUBSET T
                                       /\ Cardinality(s \ {y}) = Cardinality(s) - 1
  BY <1>0, FS_RemoveElement
<1>2. \A s \in SUBSET T : S(s) \in Int
  BY <1>0, SumType
<1>3. \A s \in SUBSET T : s # {} => Pick1(s) \in s /\ S(s) = f[Pick1(s)] + S(s \ {Pick1(s)})
  <2>1. ASSUME NEW s \in SUBSET T, s # {} PROVE S(s) = f[Pick1(s)] + S(s \ {Pick1(s)})
    <3>1. IsFiniteSet(s) /\ \A y \in s : f[y] \in Int
      BY <1>0
    <3> QED BY <2>1, <3>1, SumChosen
  <2> QED BY <2>1 DEF Pick1
<1>4. 0 \in all
  BY <1>0, FS_EmptySet
<1>5. ASSUME NEW n \in 0 .. Cardinality(T) - 1, n \in all PROVE n + 1 \in all
  <2>1. ASSUME NEW s \in SUBSET T, Cardinality(s) = n + 1, NEW y \in s PROVE S(s) = f[y] + S(s \ {y})
    <3> DEFINE c == Pick1(s)
    <3>1. c \in s /\ S(s) = f[c] + S(s \ {c})
      BY <1>3
    <3>2. CASE y = c
      BY <3>1, <3>2
    <3>3. CASE y # c
      <4>1. /\ s \ {c} \in SUBSET T /\ Cardinality(s \ {c}) = n
            /\ s \ {y} \in SUBSET T /\ Cardinality(s \ {y}) = n
        <5> HIDE DEF c
        <5> QED BY <1>0, <1>1, <2>1, <3>1
      <4>2. S(s \ {c}) = f[y] + S((s \ {c}) \ {y})
        <5>1. y \in s \ {c}
          BY <3>3
        <5> HIDE DEF c, S
        <5> QED BY <1>5, <4>1, <5>1
      <4>3. S(s \ {y}) = f[c] + S((s \ {y}) \ {c})
        <5>1. c \in s \ {y}
          BY <3>1, <3>3
        <5> HIDE DEF c, S
        <5> QED BY <1>5, <4>1, <5>1
      <4>4. (s \ {c}) \ {y} = (s \ {y}) \ {c}
        OBVIOUS
      <4>5. S((s \ {c}) \ {y}) \in Int /\ f[c] \in Int /\ f[y] \in Int
        <5>1. (s \ {c}) \ {y} \in SUBSET T /\ c \in T /\ y \in T
          BY <3>1
        <5> HIDE DEF c, S
        <5> QED BY <1>2, <5>1
      <4> DEFINE z == S((s \ {c}) \ {y})  u == S(s \ {c})  v == S(s \ {y})  w == S(s)  a == f[c]  b == f[y]
      <4>6. w = a + u /\ u = b + z /\ v = a + z /\ z \in Int /\ a \in Int /\ b \in Int
        BY <3>1, <4>2, <4>3, <4>4, <4>5
      <4>7. w = b + v
        <5> HIDE DEF z, u, v, w, a, b
        <5> QED BY <4>6
      <4> QED BY <4>7
    <3> QED BY <3>2, <3>3
  <2> HIDE DEF S
  <2> QED BY <1>0, <2>1
<1>6. \A n \in 0 .. Cardinality(T) : n \in all
  <2> HIDE DEF all
  <2> QED BY <1>0, <1>4, <1>5, Counting
<1> HIDE DEF S
<1>7. S(T) = f[x] + S(T \ {x})
  BY <1>0, <1>6
<1> QED BY <1>7 DEF S

LEMMA SumInsert ==
    ASSUME NEW T, IsFiniteSet(T), NEW f, NEW x, x \notin T, \A y \in T \cup {x} : f[y] \in Int
    PROVE  /\ SumFunctionOnSet(f, T \cup {x}) = f[x] + SumFunctionOnSet(f, T)
           /\ SumFunctionOnSet(f, T) \in Int /\ f[x] \in Int
<1> DEFINE U == T \cup {x}
<1>1. IsFiniteSet(U)
  BY FS_AddElement
<1>2. x \in U /\ U \ {x} = T /\ \A y \in U : f[y] \in Int
  OBVIOUS
<1>3. SumFunctionOnSet(f, U) = f[x] + SumFunctionOnSet(f, U \ {x})
  <2> HIDE DEF U
  <2> QED BY <1>1, <1>2, SumStep
<1> QED BY <1>2, <1>3, SumType

\* Sums are linear.
LEMMA MixStep ==
    ASSUME NEW a \in Int, NEW b \in Int, NEW f \in Int, NEW g \in Int, NEW F \in Int, NEW G \in Int
    PROVE  (a * f + b * g) + (a * F + b * G) = a * (f + F) + b * (g + G)
<1>1. a * (f + F) = a * f + a * F
  OBVIOUS
<1>2. b * (g + G) = b * g + b * G
  OBVIOUS
<1>3. a * f \in Int /\ a * F \in Int /\ b * g \in Int /\ b * G \in Int
  OBVIOUS
<1> QED BY <1>1, <1>2, <1>3

AreMixed(T, f, g, h, a, b) ==
    /\ IsFiniteSet(T) /\ a \in Int /\ b \in Int
    /\ \A x \in T : f[x] \in Int /\ g[x] \in Int /\ h[x] = a * f[x] + b * g[x]

LEMMA SumMix ==
    ASSUME NEW T, NEW f, NEW g, NEW h, NEW a, NEW b, AreMixed(T, f, g, h, a, b)
    PROVE  SumFunctionOnSet(h, T) = a * SumFunctionOnSet(f, T) + b * SumFunctionOnSet(g, T)
<1> USE DEF AreMixed
<1> DEFINE F(s) == SumFunctionOnSet(f, s)  G(s) == SumFunctionOnSet(g, s)  H(s) == SumFunctionOnSet(h, s)
           good == {s \in SUBSET T : H(s) = a * F(s) + b * G(s)}
<1>0. \A x \in T : h[x] \in Int
  <2>1. \A u \in Int, v \in Int : a * u + b * v \in Int
    OBVIOUS
  <2> QED BY <2>1
<1>1. {} \in good
  <2>1. H({}) = 0 /\ F({}) = 0 /\ G({}) = 0
    BY SumEmpty
  <2> HIDE DEF F, G, H
  <2> QED BY <2>1
<1>2. ASSUME NEW s \in SUBSET T, NEW x \in T \ s, s \in good PROVE s \cup {x} \in good
  <2>1. /\ IsFiniteSet(s) /\ x \notin s
        /\ \A y \in s \cup {x} : f[y] \in Int /\ g[y] \in Int /\ h[y] \in Int
    BY <1>0, FS_Subset
  <2>2. F(s \cup {x}) = f[x] + F(s) /\ F(s) \in Int /\ f[x] \in Int
    BY <2>1, SumInsert
  <2>3. G(s \cup {x}) = g[x] + G(s) /\ G(s) \in Int /\ g[x] \in Int
    BY <2>1, SumInsert
  <2>4. H(s \cup {x}) = h[x] + H(s)
    BY <2>1, SumInsert
  <2>5. H(s) = a * F(s) + b * G(s) /\ h[x] = a * f[x] + b * g[x]
    BY <1>2
  <2>6. (a * f[x] + b * g[x]) + (a * F(s) + b * G(s)) = a * (f[x] + F(s)) + b * (g[x] + G(s))
    <3> HIDE DEF F, G
    <3> QED BY <2>2, <2>3, MixStep
  <2>7. H(s \cup {x}) = a * F(s \cup {x}) + b * G(s \cup {x})
    <3> HIDE DEF F, G, H
    <3> QED BY <2>2, <2>3, <2>4, <2>5, <2>6
  <2> QED BY <2>7
<1>3. \A s \in SUBSET T : s \in good
  <2> HIDE DEF good
  <2> QED BY <1>1, <1>2, BuildUp
<1> QED BY <1>3

LEMMA SumScale ==
    ASSUME NEW T, IsFiniteSet(T), NEW f, NEW h, NEW a \in Int,
           \A x \in T : f[x] \in Int /\ h[x] = a * f[x]
    PROVE  SumFunctionOnSet(h, T) = a * SumFunctionOnSet(f, T)
<1>1. \A x \in T : f[x] \in Int /\ h[x] = a * f[x] + 0 * f[x]
  <2>1. \A u \in Int : a * u = a * u + 0 * u
    <3>1. ASSUME NEW u \in Int PROVE a * u = a * u + 0 * u
      <4>1. a * u \in Int /\ 0 * u = 0
        OBVIOUS
      <4> QED BY <4>1
    <3> QED BY <3>1
  <2> QED BY <2>1
<1>2. SumFunctionOnSet(h, T) = a * SumFunctionOnSet(f, T) + 0 * SumFunctionOnSet(f, T)
  <2>1. AreMixed(T, f, f, h, a, 0)
    BY <1>1 DEF AreMixed
  <2> QED BY <2>1, SumMix
<1>3. SumFunctionOnSet(f, T) \in Int
  BY SumType
<1>4. \A u \in Int : a * u + 0 * u = a * u
  <2>1. ASSUME NEW u \in Int PROVE a * u + 0 * u = a * u
    <3>1. a * u \in Int /\ 0 * u = 0
      OBVIOUS
    <3> QED BY <3>1
  <2> QED BY <2>1
<1> QED BY <1>2, <1>3, <1>4

ArePlus(T, f, g, h) ==
    /\ IsFiniteSet(T)
    /\ \A x \in T : f[x] \in Int /\ g[x] \in Int /\ h[x] = f[x] + g[x]

LEMMA SumPlus ==
    ASSUME NEW T, NEW f, NEW g, NEW h, ArePlus(T, f, g, h)
    PROVE  SumFunctionOnSet(h, T) = SumFunctionOnSet(f, T) + SumFunctionOnSet(g, T)
<1>0. IsFiniteSet(T) /\ \A x \in T : f[x] \in Int /\ g[x] \in Int /\ h[x] = f[x] + g[x]
  BY DEF ArePlus
<1>1. \A x \in T : f[x] \in Int /\ g[x] \in Int /\ h[x] = 1 * f[x] + 1 * g[x]
  BY <1>0
<1>2. SumFunctionOnSet(h, T) = 1 * SumFunctionOnSet(f, T) + 1 * SumFunctionOnSet(g, T)
  <2>1. AreMixed(T, f, g, h, 1, 1)
    BY <1>0, <1>1 DEF AreMixed
  <2> QED BY <2>1, SumMix
<1>3. SumFunctionOnSet(f, T) \in Int /\ SumFunctionOnSet(g, T) \in Int
  BY <1>0, SumType
<1> QED BY <1>2, <1>3

\* And monotone, in the values and in the set.
LEMMA SumAtMost ==
    ASSUME NEW T, IsFiniteSet(T), NEW f, NEW g,
           \A x \in T : f[x] \in Int /\ g[x] \in Int /\ f[x] <= g[x]
    PROVE  SumFunctionOnSet(f, T) <= SumFunctionOnSet(g, T)
<1> DEFINE F(s) == SumFunctionOnSet(f, s)  G(s) == SumFunctionOnSet(g, s)
           good == {s \in SUBSET T : F(s) <= G(s)}
<1>1. {} \in good
  <2>1. F({}) = 0 /\ G({}) = 0
    BY SumEmpty
  <2> HIDE DEF F, G
  <2> QED BY <2>1
<1>2. ASSUME NEW s \in SUBSET T, NEW x \in T \ s, s \in good PROVE s \cup {x} \in good
  <2>1. /\ IsFiniteSet(s) /\ x \notin s
        /\ \A y \in s \cup {x} : f[y] \in Int /\ g[y] \in Int
    BY FS_Subset
  <2>2. F(s \cup {x}) = f[x] + F(s) /\ F(s) \in Int /\ f[x] \in Int
    BY <2>1, SumInsert
  <2>3. G(s \cup {x}) = g[x] + G(s) /\ G(s) \in Int /\ g[x] \in Int
    BY <2>1, SumInsert
  <2>4. F(s) <= G(s) /\ f[x] <= g[x]
    BY <1>2
  <2>5. F(s \cup {x}) <= G(s \cup {x})
    <3> HIDE DEF F, G
    <3> QED BY <2>2, <2>3, <2>4
  <2> QED BY <2>5
<1>3. \A s \in SUBSET T : s \in good
  <2> HIDE DEF good
  <2> QED BY <1>1, <1>2, BuildUp
<1> QED BY <1>3

LEMMA SumSame ==
    ASSUME NEW T, IsFiniteSet(T), NEW f, NEW g, \A x \in T : f[x] \in Int /\ f[x] = g[x]
    PROVE  SumFunctionOnSet(f, T) = SumFunctionOnSet(g, T)
<1>1. \A x \in T : f[x] \in Int /\ g[x] \in Int /\ f[x] <= g[x] /\ g[x] <= f[x]
  OBVIOUS
<1>2. SumFunctionOnSet(f, T) <= SumFunctionOnSet(g, T) /\ SumFunctionOnSet(g, T) <= SumFunctionOnSet(f, T)
  BY <1>1, SumAtMost
<1>3. SumFunctionOnSet(f, T) \in Int /\ SumFunctionOnSet(g, T) \in Int
  BY <1>1, SumType
<1> QED BY <1>2, <1>3

LEMMA SumConstant ==
    ASSUME NEW T, IsFiniteSet(T), NEW f, NEW c \in Int, \A x \in T : f[x] = c
    PROVE  SumFunctionOnSet(f, T) = c * Cardinality(T)
<1> DEFINE F(s) == SumFunctionOnSet(f, s)
           good == {s \in SUBSET T : F(s) = c * Cardinality(s)}
<1>1. {} \in good
  <2>1. F({}) = 0 /\ Cardinality({}) = 0 /\ c * 0 = 0
    BY SumEmpty, FS_EmptySet
  <2> HIDE DEF F
  <2> QED BY <2>1
<1>2. ASSUME NEW s \in SUBSET T, NEW x \in T \ s, s \in good PROVE s \cup {x} \in good
  <2>1. IsFiniteSet(s) /\ x \notin s /\ \A y \in s \cup {x} : f[y] \in Int
    BY FS_Subset
  <2>2. F(s \cup {x}) = c + F(s) /\ F(s) \in Int
    BY <2>1, SumInsert
  <2>3. Cardinality(s \cup {x}) = Cardinality(s) + 1 /\ Cardinality(s) \in Nat
    BY <2>1, FS_AddElement, FS_CardinalityType
  <2>4. F(s) = c * Cardinality(s)
    BY <1>2
  <2>5. \A n \in Nat : c * (n + 1) = c + c * n
    OBVIOUS
  <2>6. F(s \cup {x}) = c * Cardinality(s \cup {x})
    <3> HIDE DEF F
    <3> QED BY <2>2, <2>3, <2>4, <2>5
  <2> QED BY <2>6
<1>3. \A s \in SUBSET T : s \in good
  <2> HIDE DEF good
  <2> QED BY <1>1, <1>2, BuildUp
<1> QED BY <1>3

LEMMA SumNat ==
    ASSUME NEW T, IsFiniteSet(T), NEW f, \A x \in T : f[x] \in Nat
    PROVE  SumFunctionOnSet(f, T) \in Nat
<1> DEFINE zero == [x \in T |-> 0]
<1>1. \A x \in T : zero[x] \in Int /\ f[x] \in Int /\ zero[x] <= f[x]
  OBVIOUS
<1>2. SumFunctionOnSet(zero, T) <= SumFunctionOnSet(f, T)
  <2> HIDE DEF zero
  <2> QED BY <1>1, SumAtMost
<1>3. SumFunctionOnSet(zero, T) = 0 * Cardinality(T)
  <2>1. \A x \in T : zero[x] = 0
    OBVIOUS
  <2> HIDE DEF zero
  <2> QED BY <2>1, SumConstant
<1>4. SumFunctionOnSet(f, T) \in Int /\ Cardinality(T) \in Nat
  BY SumType, FS_CardinalityType
<1> HIDE DEF zero
<1> QED BY <1>2, <1>3, <1>4

LEMMA SumSubset ==
    ASSUME NEW T, IsFiniteSet(T), NEW f, \A x \in T : f[x] \in Nat, NEW U \in SUBSET T
    PROVE  SumFunctionOnSet(f, U) <= SumFunctionOnSet(f, T)
<1> DEFINE F(s) == SumFunctionOnSet(f, s)
           good == {s \in SUBSET T : \A u \in SUBSET s : F(u) <= F(s)}
<1>1. {} \in good
  <2>1. F({}) = 0 /\ \A u \in SUBSET {} : u = {}
    BY SumEmpty
  <2> HIDE DEF F
  <2> QED BY <2>1
<1>2. ASSUME NEW s \in SUBSET T, NEW x \in T \ s, s \in good PROVE s \cup {x} \in good
  <2>1. IsFiniteSet(s) /\ x \notin s /\ \A y \in s \cup {x} : f[y] \in Int
    BY FS_Subset
  <2>2. F(s \cup {x}) = f[x] + F(s) /\ F(s) \in Int /\ f[x] \in Nat
    BY <2>1, SumInsert
  <2>3. ASSUME NEW u \in SUBSET (s \cup {x}) PROVE F(u) <= F(s \cup {x})
    <3>0. IsFiniteSet(u) /\ \A y \in u : f[y] \in Int
      BY <2>1, FS_Subset, FS_AddElement
    <3>1. CASE x \in u
      <4>1. u \ {x} \in SUBSET s
        OBVIOUS
      <4>2. F(u \ {x}) <= F(s)
        <5> HIDE DEF F
        <5> QED BY <1>2, <4>1
      <4>3. F(u) = f[x] + F(u \ {x}) /\ F(u \ {x}) \in Int
        <5>1. IsFiniteSet(u \ {x}) /\ \A y \in u \ {x} : f[y] \in Int
          BY <3>0, FS_RemoveElement
        <5> QED BY <3>0, <3>1, <5>1, SumStep, SumType
      <4> HIDE DEF F
      <4> QED BY <2>2, <4>2, <4>3
    <3>2. CASE x \notin u
      <4>1. u \in SUBSET s
        BY <3>2
      <4>2. F(u) <= F(s) /\ F(u) \in Int
        BY <1>2, <3>0, <4>1, SumType
      <4> HIDE DEF F
      <4> QED BY <2>2, <4>2
    <3> QED BY <3>1, <3>2
  <2> QED BY <2>3
<1>3. \A s \in SUBSET T : s \in good
  <2> HIDE DEF good
  <2> QED BY <1>1, <1>2, BuildUp
<1> QED BY <1>3

\* A sum with one summand that is not 0.
LEMMA SumOne ==
    ASSUME NEW T, IsFiniteSet(T), NEW f, NEW i \in T, f[i] \in Int, \A x \in T \ {i} : f[x] = 0
    PROVE  SumFunctionOnSet(f, T) = f[i]
<1>1. \A x \in T : f[x] \in Int
  OBVIOUS
<1>2. SumFunctionOnSet(f, T) = f[i] + SumFunctionOnSet(f, T \ {i})
  BY <1>1, SumStep
<1>3. IsFiniteSet(T \ {i})
  BY FS_RemoveElement
<1>4. SumFunctionOnSet(f, T \ {i}) = 0 * Cardinality(T \ {i}) /\ Cardinality(T \ {i}) \in Nat
  BY <1>3, SumConstant, FS_CardinalityType
<1> QED BY <1>2, <1>4

\* A table adds up to the same by rows and by columns.
IsTable(T, U, m, part, row, col) ==
    /\ IsFiniteSet(T) /\ IsFiniteSet(U)
    /\ \A x \in T, y \in U : m[x][y] \in Int /\ part[y][x] = m[x][y]
    /\ \A x \in T : row[x] = SumFunctionOnSet(m[x], U)
    /\ \A y \in U : col[y] = SumFunctionOnSet(part[y], T)

LEMMA SumExchange ==
    ASSUME NEW T, NEW U, NEW m, NEW part, NEW row, NEW col, IsTable(T, U, m, part, row, col)
    PROVE  SumFunctionOnSet(row, T) = SumFunctionOnSet(col, U)
<1> USE DEF IsTable
<1> DEFINE upto(s) == [y \in U |-> SumFunctionOnSet(part[y], s)]
           good == {s \in SUBSET T : SumFunctionOnSet(row, s) = SumFunctionOnSet(upto(s), U)}
<1>0. \A x \in T : row[x] \in Int
  <2>1. ASSUME NEW x \in T PROVE SumFunctionOnSet(m[x], U) \in Int
    BY SumType
  <2> QED BY <2>1
<1>1. {} \in good
  <2>1. \A y \in U : upto({})[y] = 0
    BY SumEmpty
  <2>2. SumFunctionOnSet(upto({}), U) = 0 * Cardinality(U) /\ Cardinality(U) \in Nat
    <3> HIDE DEF upto
    <3> QED BY <2>1, SumConstant, FS_CardinalityType
  <2>3. SumFunctionOnSet(upto({}), U) = 0
    BY <2>2
  <2>4. SumFunctionOnSet(row, {}) = 0
    BY SumEmpty
  <2> QED BY <2>3, <2>4
<1>2. ASSUME NEW s \in SUBSET T, NEW x \in T \ s, s \in good PROVE s \cup {x} \in good
  <2>1. IsFiniteSet(s) /\ x \notin s /\ \A y \in s \cup {x} : row[y] \in Int
    BY <1>0, FS_Subset
  <2>2. SumFunctionOnSet(row, s \cup {x}) = row[x] + SumFunctionOnSet(row, s)
        /\ row[x] \in Int /\ SumFunctionOnSet(row, s) \in Int
    BY <2>1, SumInsert
  <2>3. ASSUME NEW y \in U
        PROVE  /\ m[x][y] \in Int /\ upto(s)[y] \in Int
               /\ upto(s \cup {x})[y] = m[x][y] + upto(s)[y]
    <3>1. \A z \in s \cup {x} : part[y][z] \in Int
      OBVIOUS
    <3>2. /\ SumFunctionOnSet(part[y], s \cup {x}) = part[y][x] + SumFunctionOnSet(part[y], s)
          /\ SumFunctionOnSet(part[y], s) \in Int
      BY <2>1, <3>1, SumInsert
    <3> QED BY <3>2
  <2>4. SumFunctionOnSet(upto(s \cup {x}), U) = SumFunctionOnSet(m[x], U) + SumFunctionOnSet(upto(s), U)
    <3> DEFINE a == m[x]  b == upto(s)  c == upto(s \cup {x})
    <3>1. \A y \in U : a[y] \in Int /\ b[y] \in Int /\ c[y] = a[y] + b[y]
      <4> HIDE DEF upto
      <4> QED BY <2>3
    <3> HIDE DEF a, b, c
    <3>2. ArePlus(U, a, b, c)
      BY <3>1 DEF ArePlus
    <3>3. SumFunctionOnSet(c, U) = SumFunctionOnSet(a, U) + SumFunctionOnSet(b, U)
      BY <3>2, SumPlus
    <3> QED BY <3>3 DEF a, b, c
  <2>5. SumFunctionOnSet(row, s) = SumFunctionOnSet(upto(s), U) /\ row[x] = SumFunctionOnSet(m[x], U)
    BY <1>2
  <2>6. SumFunctionOnSet(row, s \cup {x}) = SumFunctionOnSet(upto(s \cup {x}), U)
    <3> HIDE DEF upto
    <3> QED BY <2>2, <2>4, <2>5
  <2> QED BY <2>6
<1>3. \A s \in SUBSET T : s \in good
  <2> HIDE DEF good
  <2> QED BY <1>1, <1>2, BuildUp
<1>4. SumFunctionOnSet(row, T) = SumFunctionOnSet(upto(T), U)
  BY <1>3
<1>5. \A y \in U : upto(T)[y] \in Int /\ upto(T)[y] = col[y]
  <2>1. ASSUME NEW y \in U PROVE SumFunctionOnSet(part[y], T) \in Int
    <3>1. \A x \in T : part[y][x] \in Int
      OBVIOUS
    <3> QED BY <3>1, SumType
  <2> QED BY <2>1
<1>6. SumFunctionOnSet(upto(T), U) = SumFunctionOnSet(col, U)
  <2> HIDE DEF upto
  <2> QED BY <1>5, SumSame
<1> QED BY <1>4, <1>6
-----------------------------------------------------------------------------
(* Rounds.                                                                 *)

\* What one rule makes of a value, round after round, and the only way to do so.
Follows(N, X, v, F, g) == g[0] = v /\ \A n \in 1 .. N : g[n - 1] \in X => g[n] = F[g[n - 1]]
Iterates(N, X, v, F, f) ==
    /\ f \in [0 .. N -> X] /\ f[0] = v
    /\ \A n \in 1 .. N : f[n] = F[f[n - 1]]
    /\ \A g : Follows(N, X, v, F, g) => g[N] = f[N]

LEMMA Iteration ==
    ASSUME NEW N \in Nat, NEW X, NEW v \in X, NEW F \in [X -> X]
    PROVE  \E f : Iterates(N, X, v, F, f)
<1> DEFINE D == [n \in 1 .. N |-> F]
<1>1. D \in Rules(N, X) /\ \A n \in 1 .. N : D[n] = F
  BY DEF Rules
<1> HIDE DEF D
<1>2. PICK f : Unrolls(N, X, v, D, f)
  BY <1>1, Recursion
<1>3. f \in [0 .. N -> X] /\ f[0] = v /\ \A n \in 1 .. N : f[n] = F[f[n - 1]]
  BY <1>1, <1>2 DEF Unrolls
<1>4. ASSUME NEW g, Follows(N, X, v, F, g) PROVE g[N] = f[N]
  <2>1. Obeys(N, X, v, D, g)
    BY <1>1, <1>4 DEF Follows, Obeys
  <2>2. \A n \in 0 .. N : g[n] = f[n]
    BY <1>2, <2>1, RecursionOnce
  <2> QED BY <2>2
<1> QED BY <1>3, <1>4 DEF Iterates

LEMMA ImageIsFinite ==
    ASSUME NEW S, IsFiniteSet(S), NEW f
    PROVE  IsFiniteSet({f[x] : x \in S})
<1> DEFINE image(s) == {f[x] : x \in s}
           good == {s \in SUBSET S : IsFiniteSet(image(s))}
<1>1. {} \in good
  <2>1. image({}) = {}
    OBVIOUS
  <2> QED BY <2>1, FS_EmptySet
<1>2. ASSUME NEW s \in SUBSET S, NEW x \in S \ s, s \in good PROVE s \cup {x} \in good
  <2>1. image(s \cup {x}) = image(s) \cup {f[x]}
    OBVIOUS
  <2>2. IsFiniteSet(image(s) \cup {f[x]})
    <3> HIDE DEF image
    <3> QED BY <1>2, FS_AddElement
  <2> QED BY <2>1, <2>2
<1>3. S \in good
  <2> HIDE DEF good
  <2> QED BY <1>1, <1>2, BuildUp
<1> QED BY <1>3
-----------------------------------------------------------------------------
(* The loaded graph.                                                       *)

\* The rows of the table join pairs that are not joined twice.
ExposureInv ==
    /\ links \subseteq Menu /\ unbacked \subseteq Nodes
    /\ \A r \in links, q \in links : {r.a, r.b} = {q.a, q.b} => r = q

IsGraph(G) ==
    /\ IsFiniteSet(G.events) /\ G.events \subseteq Nodes /\ IsFiniteSet(G.flows)
    /\ \A fl \in G.flows : /\ fl.from \in G.events /\ fl.to \in G.events
                           /\ fl.step \in 1 .. Len(Gain) /\ Gain[fl.step] \in 1 .. Whole

LEMMA ExposureInvInit == ASSUME ExposureInit PROVE ExposureInv
  BY DEF ExposureInit, ExposureInv

LEMMA ExposureInvNext == ASSUME ExposureInv, [ExposureNext]_exposureVars PROVE ExposureInv'
<1>1. ASSUME NEW r \in Menu, LinkMade(r) PROVE ExposureInv'
  BY <1>1 DEF LinkMade, ExposureInv
<1>2. ASSUME NEW e \in Nodes, LosesBacking(e) PROVE ExposureInv'
  BY <1>2 DEF LosesBacking, ExposureInv
<1>3. CASE UNCHANGED exposureVars
  BY <1>3 DEF exposureVars, ExposureInv
<1> QED BY <1>1, <1>2, <1>3 DEF ExposureNext

LEMMA StepsAre == /\ Len(Gain) \in Nat /\ DOMAIN Gain = 1 .. Len(Gain)
                  /\ \A s \in 1 .. Len(Gain) : Gain[s] \in 1 .. Whole
  BY ExposureAssumption

LEMMA RowsOfMenu ==
    ASSUME NEW r \in Menu
    PROVE  /\ r.a \in Nodes /\ r.b \in Nodes /\ r.step \in 1 .. Len(Gain)
           /\ r.direction \in {"a_to_b", "b_to_a", "none"}
<1>1. r \in [a : Nodes, b : Nodes, direction : {"a_to_b", "b_to_a", "none"},
             step : DOMAIN Gain, grounded : BOOLEAN]
  BY ExposureAssumption
<1> QED BY <1>1, StepsAre

\* A flow is a row seen from its cause.
LEMMA OrientedIs ==
    ASSUME NEW r, NEW fl \in Oriented(r)
    PROVE  /\ fl.step = r.step /\ fl.grounded = r.grounded
           /\ \/ fl.from = r.a /\ fl.to = r.b /\ r.direction # "b_to_a"
              \/ fl.from = r.b /\ fl.to = r.a /\ r.direction # "a_to_b"
           /\ fl = [from |-> fl.from, to |-> fl.to, step |-> r.step, grounded |-> r.grounded]
<1> DEFINE there == [from |-> r.a, to |-> r.b, step |-> r.step, grounded |-> r.grounded]
           back == [from |-> r.b, to |-> r.a, step |-> r.step, grounded |-> r.grounded]
<1>2. \/ fl = there /\ r.direction # "b_to_a"
      \/ fl = back /\ r.direction # "a_to_b"
  <2>1. Oriented(r) = IF r.direction = "a_to_b" THEN {there}
                      ELSE IF r.direction = "b_to_a" THEN {back} ELSE {there, back}
    BY DEF Oriented
  <2> HIDE DEF there, back
  <2> QED BY <2>1
<1>3. CASE fl = there /\ r.direction # "b_to_a"
  BY <1>3
<1>4. CASE fl = back /\ r.direction # "a_to_b"
  BY <1>4
<1> QED BY <1>2, <1>3, <1>4

LEMMA LoadIs ==
    ASSUME NEW rows, rows \subseteq Menu, NEW S, S \subseteq Nodes
    PROVE  /\ IsGraph(LoadFrom(rows, S)) /\ LoadFrom(rows, S).events = S
           /\ \A fl \in LoadFrom(rows, S).flows : \E r \in rows : fl \in Oriented(r)
<1> DEFINE near == {q \in rows : {q.a, q.b} \subseteq S}
           kept == Strongest(near, EdgeLimit)
           G == LoadFrom(rows, S)
<1>1. kept \subseteq rows /\ IsFiniteSet(kept)
  BY FS_Subset, ExposureAssumption DEF Strongest
<1>2. G.flows = UNION {Oriented(r) : r \in kept} /\ G.events = S
  BY DEF LoadFrom
<1>3. \A r \in kept : r \in Menu /\ {r.a, r.b} \subseteq S
  BY <1>1 DEF Strongest
<1>4. IsFiniteSet(S)
  BY FS_Subset, ExposureAssumption
<1>5. IsFiniteSet(G.flows)
  <2>1. \A r : IsFiniteSet(Oriented(r))
    <3>1. ASSUME NEW r PROVE IsFiniteSet(Oriented(r))
      <4> DEFINE there == [from |-> r.a, to |-> r.b, step |-> r.step, grounded |-> r.grounded]
                 back == [from |-> r.b, to |-> r.a, step |-> r.step, grounded |-> r.grounded]
      <4>1. Oriented(r) \in {{there}, {back}, {there} \cup {back}}
        BY DEF Oriented
      <4>2. IsFiniteSet({there}) /\ IsFiniteSet({back})
        BY FS_Singleton
      <4>3. IsFiniteSet({there} \cup {back})
        BY <4>2, FS_Union
      <4> HIDE DEF there, back
      <4> QED BY <4>1, <4>2, <4>3
    <3> QED BY <3>1
  <2>2. IsFiniteSet({Oriented(r) : r \in kept})
    <3> DEFINE f == [r \in kept |-> Oriented(r)]
    <3>1. {f[r] : r \in kept} = {Oriented(r) : r \in kept}
      OBVIOUS
    <3>2. IsFiniteSet({f[r] : r \in kept})
      <4> HIDE DEF kept, f
      <4> QED BY <1>1, ImageIsFinite
    <3> HIDE DEF kept, f
    <3> QED BY <3>1, <3>2
  <2>3. \A s \in {Oriented(r) : r \in kept} : IsFiniteSet(s)
    BY <2>1
  <2>4. IsFiniteSet(UNION {Oriented(r) : r \in kept})
    <3> HIDE DEF kept
    <3> QED BY <2>2, <2>3, FS_UNION
  <2> QED BY <1>2, <2>4
<1>6. ASSUME NEW fl \in G.flows
      PROVE  /\ fl.from \in S /\ fl.to \in S /\ fl.step \in 1 .. Len(Gain)
             /\ \E r \in rows : fl \in Oriented(r)
  <2>1. PICK r \in kept : fl \in Oriented(r)
    BY <1>2
  <2>2. r \in Menu /\ {r.a, r.b} \subseteq S /\ r \in rows
    BY <1>1, <1>3
  <2> QED BY <2>1, <2>2, OrientedIs, RowsOfMenu
<1>7. IsGraph(G)
  BY <1>2, <1>4, <1>5, <1>6, StepsAre DEF IsGraph
<1> QED BY <1>2, <1>6, <1>7

LEMMA BackedIs == ASSUME NEW n PROVE /\ MostImportant(Backed, n) \subseteq Nodes \ unbacked
                                     /\ Backed = Nodes \ unbacked
  BY DEF MostImportant, Backed

\* What is shocked, and by how much.
LEMMA ShocksAre ==
    ASSUME NEW G, IsGraph(G), NEW c, c \in {Backing(G.events), Uncorroborated(G.events)}
    PROVE  Shocks(G, c) \in [G.events -> Nat]
<1>1. \A e \in G.events : BaseScore[e] \in Nat
  BY ExposureAssumption DEF IsGraph
<1>2. ASSUME NEW e \in G.events PROVE c[e] \in Nat
  <2>1. Uncorroborated(G.events)[e] \in Nat
    BY DEF Uncorroborated
  <2>2. Backing(G.events)[e] \in Nat
    <3> DEFINE U == {x \in G.events \ {e} : {x, e} \in Converging /\ FeedOf[x] \notin {NoFeed, FeedOf[e]}}
    <3>1. IsFiniteSet(U)
      BY FS_Subset DEF IsGraph
    <3>2. IsFiniteSet({FeedOf[o] : o \in U})
      <4> HIDE DEF U
      <4> QED BY <3>1, ImageIsFinite
    <3>3. Corroborating(G.events, e) = {FeedOf[o] : o \in U}
      BY DEF Corroborating
    <3> QED BY <3>2, <3>3, FS_CardinalityType DEF Backing
  <2> QED BY <2>1, <2>2
<1>3. \A m \in Nat, k \in Nat : m * (5 + k) \in Nat
  OBVIOUS
<1> QED BY <1>1, <1>2, <1>3 DEF Shocks, BaseOf
-----------------------------------------------------------------------------
(* Diffusion.                                                              *)

\* What the links pass on of some effects.
Passed(G, e) ==
    [i \in G.events |-> SumFunction([fl \in Into(G, i) |-> Gain[fl.step] * e[fl.from]])]

LEMMA IntoIs ==
    ASSUME NEW G, IsGraph(G), NEW i
    PROVE  /\ IsFiniteSet(Into(G, i))
           /\ \A fl \in Into(G, i) : /\ fl \in G.flows /\ fl.to = i /\ fl.from \in G.events
                                     /\ Gain[fl.step] \in Nat
<1>1. Into(G, i) \subseteq G.flows /\ \A fl \in Into(G, i) : fl.to = i
  BY DEF Into
<1>2. IsFiniteSet(Into(G, i))
  BY <1>1, FS_Subset DEF IsGraph
<1>3. Whole \in Nat
  BY ExposureAssumption
<1> QED BY <1>1, <1>2, <1>3 DEF IsGraph

LEMMA GainTimes == ASSUME NEW g \in Nat, NEW n \in Nat PROVE g * n \in Nat
  OBVIOUS

LEMMA PassedIs ==
    ASSUME NEW G, IsGraph(G), NEW e \in [G.events -> Nat]
    PROVE  /\ Passed(G, e) \in [G.events -> Nat]
           /\ \A i \in G.events :
                Passed(G, e)[i] = SumFunctionOnSet([fl \in Into(G, i) |-> Gain[fl.step] * e[fl.from]], Into(G, i))
<1>1. ASSUME NEW i \in G.events
      PROVE  /\ Passed(G, e)[i] \in Nat
             /\ Passed(G, e)[i] = SumFunctionOnSet([fl \in Into(G, i) |-> Gain[fl.step] * e[fl.from]], Into(G, i))
  <2> DEFINE T == Into(G, i)  h == [fl \in T |-> Gain[fl.step] * e[fl.from]]
  <2>1. IsFiniteSet(T) /\ \A fl \in T : Gain[fl.step] \in Nat /\ e[fl.from] \in Nat
    BY IntoIs
  <2>2. \A fl \in T : h[fl] \in Nat
    <3> HIDE DEF T
    <3> QED BY <2>1, GainTimes
  <2>3. SumFunctionOnSet(h, T) \in Nat
    <3> HIDE DEF h, T
    <3> QED BY <2>1, <2>2, SumNat
  <2>4. Passed(G, e)[i] = SumFunction(h) /\ DOMAIN h = T
    BY DEF Passed
  <2>5. SumFunction(h) = SumFunctionOnSet(h, T)
    <3> HIDE DEF h, T
    <3> QED BY <2>4 DEF SumFunction
  <2> QED BY <2>3, <2>4, <2>5
<1>2. DOMAIN Passed(G, e) = G.events /\ Passed(G, e) = [i \in G.events |-> Passed(G, e)[i]]
  BY DEF Passed
<1>3. Passed(G, e) \in [G.events -> Nat]
  BY <1>1, <1>2
<1> QED BY <1>1, <1>3

\* The share of one link, in a mix.
LEMMA ShareMix ==
    ASSUME NEW g \in Nat, NEW a \in Nat, NEW e \in Nat, NEW f \in Nat
    PROVE  g * (a * e + f) = a * (g * e) + 1 * (g * f)
<1>1. g * (a * e + f) = g * (a * e) + g * f
  OBVIOUS
<1>2. g * (a * e) = a * (g * e)
  OBVIOUS
<1>3. g * f \in Nat /\ 1 * (g * f) = g * f
  OBVIOUS
<1> QED BY <1>1, <1>2, <1>3

AddsScaled(G, m, a, e, f) ==
    /\ a \in Nat /\ e \in [G.events -> Nat] /\ f \in [G.events -> Nat] /\ m \in [G.events -> Nat]
    /\ \A i \in G.events : m[i] = a * e[i] + f[i]

LEMMA PassedMix ==
    ASSUME NEW G, IsGraph(G), NEW m, NEW a, NEW e, NEW f, AddsScaled(G, m, a, e, f), NEW i \in G.events
    PROVE  Passed(G, m)[i] = a * Passed(G, e)[i] + Passed(G, f)[i]
<1>0. /\ a \in Nat /\ e \in [G.events -> Nat] /\ f \in [G.events -> Nat] /\ m \in [G.events -> Nat]
      /\ \A j \in G.events : m[j] = a * e[j] + f[j]
  BY DEF AddsScaled
<1> DEFINE T == Into(G, i)
           h(s) == [fl \in T |-> Gain[fl.step] * s[fl.from]]
           hm == h(m)  he == h(e)  hf == h(f)
<1>1. /\ Passed(G, m)[i] = SumFunctionOnSet(hm, T) /\ Passed(G, e)[i] = SumFunctionOnSet(he, T)
      /\ Passed(G, f)[i] = SumFunctionOnSet(hf, T)
  BY <1>0, PassedIs
<1>2. \A fl \in T : he[fl] \in Int /\ hf[fl] \in Int /\ hm[fl] = a * he[fl] + 1 * hf[fl]
  <2>1. ASSUME NEW fl \in T PROVE he[fl] \in Int /\ hf[fl] \in Int /\ hm[fl] = a * he[fl] + 1 * hf[fl]
    <3>1. /\ Gain[fl.step] \in Nat /\ fl.from \in G.events
      BY IntoIs
    <3>2. e[fl.from] \in Nat /\ f[fl.from] \in Nat /\ m[fl.from] = a * e[fl.from] + f[fl.from]
      BY <1>0, <3>1
    <3>3. Gain[fl.step] * m[fl.from] = a * (Gain[fl.step] * e[fl.from]) + 1 * (Gain[fl.step] * f[fl.from])
      BY <1>0, <3>1, <3>2, ShareMix
    <3>4. Gain[fl.step] * e[fl.from] \in Int /\ Gain[fl.step] * f[fl.from] \in Int
      BY <3>1, <3>2, GainTimes
    <3> QED BY <3>3, <3>4
  <2> QED BY <2>1
<1>3. IsFiniteSet(T)
  BY IntoIs
<1>4. SumFunctionOnSet(hm, T) = a * SumFunctionOnSet(he, T) + 1 * SumFunctionOnSet(hf, T)
  <2> HIDE DEF T, hm, he, hf
  <2>1. AreMixed(T, he, hf, hm, a, 1)
    BY <1>0, <1>2, <1>3 DEF AreMixed
  <2> QED BY <2>1, SumMix
<1>5. SumFunctionOnSet(hf, T) \in Int
  <2> HIDE DEF T, hm, he, hf
  <2> QED BY <1>2, <1>3, SumType
<1> HIDE DEF T, hm, he, hf
<1> QED BY <1>1, <1>4, <1>5

LEMMA PassedNothing ==
    ASSUME NEW G, IsGraph(G), NEW e \in [G.events -> Nat], NEW i \in G.events,
           \A fl \in Into(G, i) : e[fl.from] = 0
    PROVE  Passed(G, e)[i] = 0
<1> DEFINE T == Into(G, i)  h == [fl \in T |-> Gain[fl.step] * e[fl.from]]
<1>1. IsFiniteSet(T) /\ \A fl \in T : Gain[fl.step] \in Nat
  BY IntoIs
<1>2. \A fl \in T : h[fl] = 0
  <2>1. \A g \in Nat : g * 0 = 0
    OBVIOUS
  <2> HIDE DEF T
  <2>2. \A fl \in T : h[fl] = Gain[fl.step] * 0
    BY DEF T
  <2> HIDE DEF h
  <2> QED BY <1>1, <2>1, <2>2
<1>3. Passed(G, e)[i] = SumFunctionOnSet(h, T)
  BY PassedIs
<1>4. SumFunctionOnSet(h, T) = 0 * Cardinality(T) /\ Cardinality(T) \in Nat
  <2> HIDE DEF h, T
  <2> QED BY <1>1, <1>2, SumConstant, FS_CardinalityType
<1> HIDE DEF h, T
<1> QED BY <1>3, <1>4

\* More links and more effect pass on more.
LEMMA PassedMore ==
    ASSUME NEW G, IsGraph(G), NEW H, IsGraph(H), H.events = G.events, H.flows \subseteq G.flows,
           NEW e \in [G.events -> Nat], NEW f \in [G.events -> Nat], \A i \in G.events : e[i] <= f[i],
           NEW i \in G.events
    PROVE  Passed(H, e)[i] <= Passed(G, f)[i]
<1> DEFINE T == Into(G, i)  U == Into(H, i)
           he == [fl \in U |-> Gain[fl.step] * e[fl.from]]
           hf == [fl \in T |-> Gain[fl.step] * f[fl.from]]
<1>1. /\ IsFiniteSet(T) /\ IsFiniteSet(U) /\ U \subseteq T
      /\ \A fl \in T : Gain[fl.step] \in Nat /\ fl.from \in G.events
  BY IntoIs DEF Into
<1>2. Passed(H, e)[i] = SumFunctionOnSet(he, U) /\ Passed(G, f)[i] = SumFunctionOnSet(hf, T)
  BY PassedIs
<1>3. \A fl \in U : he[fl] \in Int /\ hf[fl] \in Int /\ he[fl] <= hf[fl]
  <2>1. \A g \in Nat, m \in Nat, n \in Nat : m <= n => g * m \in Int /\ g * n \in Int /\ g * m <= g * n
    OBVIOUS
  <2>2. ASSUME NEW fl \in U PROVE he[fl] \in Int /\ hf[fl] \in Int /\ he[fl] <= hf[fl]
    <3>1. fl \in T /\ Gain[fl.step] \in Nat /\ fl.from \in G.events
      BY <1>1
    <3>2. e[fl.from] \in Nat /\ f[fl.from] \in Nat /\ e[fl.from] <= f[fl.from]
      BY <3>1
    <3>3. he[fl] = Gain[fl.step] * e[fl.from] /\ hf[fl] = Gain[fl.step] * f[fl.from]
      BY <3>1
    <3> HIDE DEF he, hf, T, U
    <3> QED BY <2>1, <3>1, <3>2, <3>3
  <2> QED BY <2>2
<1>4. \A fl \in T : hf[fl] \in Nat
  <2>1. ASSUME NEW fl \in T PROVE hf[fl] \in Nat
    <3>1. Gain[fl.step] \in Nat /\ f[fl.from] \in Nat
      BY <1>1
    <3>2. hf[fl] = Gain[fl.step] * f[fl.from]
      OBVIOUS
    <3> HIDE DEF hf
    <3> QED BY <3>1, <3>2, GainTimes
  <2> QED BY <2>1
<1>5. SumFunctionOnSet(he, U) <= SumFunctionOnSet(hf, U) /\ SumFunctionOnSet(hf, U) <= SumFunctionOnSet(hf, T)
  <2> HIDE DEF he, hf, T, U
  <2> QED BY <1>1, <1>3, <1>4, SumAtMost, SumSubset
<1>6. /\ SumFunctionOnSet(he, U) \in Int /\ SumFunctionOnSet(hf, U) \in Int
      /\ SumFunctionOnSet(hf, T) \in Int
  <2>1. \A fl \in T : hf[fl] \in Int
    <3> HIDE DEF hf, T
    <3> QED BY <1>4
  <2> HIDE DEF he, hf, T, U
  <2> QED BY <1>1, <1>3, <2>1, SumType
<1> HIDE DEF he, hf, T, U
<1> QED BY <1>2, <1>5, <1>6

\* The diffusion that is never stopped: the effects after each round, the unit they are
\* counted in, and what each round adds.
Katz(G, base, n, E, W, D) ==
    /\ E \in [0 .. n -> [G.events -> Nat]] /\ W \in [0 .. n -> Nat \ {0}]
    /\ D \in [0 .. n -> [G.events -> Nat]]
    /\ E[0] = base /\ W[0] = 1 /\ D[0] = base
    /\ \A k \in 1 .. n :
         /\ W[k] = W[k - 1] * Whole /\ D[k] = Passed(G, D[k - 1])
         /\ E[k] = NextEffect(G, base, [eff |-> E[k - 1], unit |-> W[k - 1]])
         /\ \A i \in G.events : /\ E[k][i] = W[k] * base[i] + Passed(G, E[k - 1])[i]
                                /\ E[k][i] = Whole * E[k - 1][i] + D[k][i]

LEMMA NextEffectIs ==
    ASSUME NEW G, NEW base, NEW x
    PROVE  /\ NextEffect(G, base, x) = [i \in G.events |-> NextEffect(G, base, x)[i]]
           /\ \A i \in G.events :
                NextEffect(G, base, x)[i] = (x.unit * Whole) * base[i] + Passed(G, x.eff)[i]
  BY DEF NextEffect, Passed

LEMMA NextEffectSame ==
    ASSUME NEW G, NEW base, NEW x, NEW y, x.eff = y.eff, x.unit = y.unit
    PROVE  NextEffect(G, base, x) = NextEffect(G, base, y)
<1>1. \A i \in G.events : NextEffect(G, base, x)[i] = NextEffect(G, base, y)[i]
  BY NextEffectIs
<1>2. [i \in G.events |-> NextEffect(G, base, x)[i]] = [i \in G.events |-> NextEffect(G, base, y)[i]]
  BY <1>1
<1> QED BY <1>2, NextEffectIs

\* A round more of everything.
LEMMA KatzAlgebra ==
    ASSUME NEW w \in Nat, NEW b \in Nat, NEW p \in Nat, NEW d \in Nat, NEW m \in Nat
    PROVE  (w * m) * b + (m * p + d) = m * (w * b + p) + d
<1>1. m * (w * b + p) = m * (w * b) + m * p
  OBVIOUS
<1>2. (w * m) * b = m * (w * b)
  OBVIOUS
<1>3. m * (w * b) \in Nat /\ m * p \in Nat
  OBVIOUS
<1> QED BY <1>1, <1>2, <1>3

LEMMA KatzExists ==
    ASSUME NEW G, IsGraph(G), NEW base \in [G.events -> Nat], NEW n \in Nat
    PROVE  \E E, W, D : Katz(G, base, n, E, W, D)
<1> DEFINE A == [G.events -> Nat]
           X == A \X (Nat \ {0}) \X A
           Grown(q) == [i \in G.events |-> (q[2] * Whole) * base[i] + Passed(G, q[1])[i]]
           Go(q) == <<Grown(q), q[2] * Whole, Passed(G, q[3])>>
           F == [q \in X |-> Go(q)]
           v == <<base, 1, base>>
<1>0. Whole \in Nat \ {0} /\ \A a \in Nat \ {0} : a * Whole \in Nat \ {0}
  BY ExposureAssumption
<1>1. \A q \in X : Go(q) \in X
  <2>1. ASSUME NEW q \in X PROVE Go(q) \in X
    <3>1. q[1] \in A /\ q[2] \in Nat \ {0} /\ q[3] \in A
      OBVIOUS
    <3>2. Passed(G, q[1]) \in A /\ Passed(G, q[3]) \in A
      BY <3>1, PassedIs
    <3>3. q[2] * Whole \in Nat \ {0}
      BY <1>0, <3>1
    <3>4. Grown(q) \in A
      <4>1. \A m \in Nat, b \in Nat, p \in Nat : m * b + p \in Nat
        OBVIOUS
      <4>2. ASSUME NEW i \in G.events PROVE (q[2] * Whole) * base[i] + Passed(G, q[1])[i] \in Nat
        <5>1. base[i] \in Nat /\ Passed(G, q[1])[i] \in Nat /\ q[2] * Whole \in Nat
          BY <3>2, <3>3
        <5> QED BY <4>1, <5>1
      <4> QED BY <4>2
    <3> HIDE DEF Grown, A
    <3> QED BY <3>2, <3>3, <3>4
  <2> QED BY <2>1
<1>2. v \in X /\ F \in [X -> X] /\ \A q \in X : F[q] = Go(q)
  <2>1. v \in X
    OBVIOUS
  <2> HIDE DEF X, Go
  <2> QED BY <1>1, <2>1
<1>3. PICK f : Iterates(n, X, v, F, f)
  <2> HIDE DEF X, F, v
  <2> QED BY <1>2, Iteration
<1>4. f \in [0 .. n -> X] /\ f[0] = v /\ \A k \in 1 .. n : f[k - 1] \in X /\ f[k] = Go(f[k - 1])
  <2>1. f \in [0 .. n -> X] /\ f[0] = v /\ \A k \in 1 .. n : f[k] = F[f[k - 1]]
    BY <1>3 DEF Iterates
  <2>2. \A k \in 1 .. n : f[k - 1] \in X
    BY <2>1
  <2> HIDE DEF X, F, v, Go
  <2> QED BY <1>2, <2>1, <2>2
<1> DEFINE E == [k \in 0 .. n |-> f[k][1]]
           W == [k \in 0 .. n |-> f[k][2]]
           D == [k \in 0 .. n |-> f[k][3]]
<1>5. E \in [0 .. n -> A] /\ W \in [0 .. n -> Nat \ {0}] /\ D \in [0 .. n -> A]
  <2>1. \A k \in 0 .. n : f[k][1] \in A /\ f[k][2] \in Nat \ {0} /\ f[k][3] \in A
    <3>1. \A q \in X : q[1] \in A /\ q[2] \in Nat \ {0} /\ q[3] \in A
      OBVIOUS
    <3> HIDE DEF X
    <3> QED BY <1>4, <3>1
  <2> QED BY <2>1
<1>6. E[0] = base /\ W[0] = 1 /\ D[0] = base
  BY <1>4
<1>7. ASSUME NEW k \in 1 .. n
      PROVE  /\ W[k] = W[k - 1] * Whole /\ D[k] = Passed(G, D[k - 1])
             /\ E[k] = [i \in G.events |-> (W[k - 1] * Whole) * base[i] + Passed(G, E[k - 1])[i]]
  <2>1. k \in 0 .. n /\ k - 1 \in 0 .. n
    OBVIOUS
  <2>2. f[k] = Go(f[k - 1])
    BY <1>4
  <2> QED BY <2>1, <2>2
<1>8. ASSUME NEW k \in 1 .. n
      PROVE  /\ E[k] = NextEffect(G, base, [eff |-> E[k - 1], unit |-> W[k - 1]])
             /\ \A i \in G.events : E[k][i] = W[k] * base[i] + Passed(G, E[k - 1])[i]
  <2> DEFINE e == E[k - 1]  w == W[k - 1]  x == [eff |-> e, unit |-> w]
  <2>1. x.eff = e /\ x.unit = w
    OBVIOUS
  <2>2. /\ NextEffect(G, base, x) = [i \in G.events |-> NextEffect(G, base, x)[i]]
        /\ \A i \in G.events : NextEffect(G, base, x)[i] = (w * Whole) * base[i] + Passed(G, e)[i]
    <3> HIDE DEF x, e, w
    <3> QED BY <2>1, NextEffectIs
  <2>3. /\ E[k] = [i \in G.events |-> E[k][i]]
        /\ \A i \in G.events : E[k][i] = (w * Whole) * base[i] + Passed(G, e)[i]
    <3> HIDE DEF E, W, D
    <3> QED BY <1>7
  <2>4. \A i \in G.events : NextEffect(G, base, x)[i] = E[k][i]
    <3> HIDE DEF E, W, D, x
    <3> QED BY <2>2, <2>3
  <2>5. E[k] = NextEffect(G, base, x)
    <3> HIDE DEF E, W, D, x
    <3>1. [i \in G.events |-> NextEffect(G, base, x)[i]] = [i \in G.events |-> E[k][i]]
      BY <2>4
    <3> QED BY <2>2, <2>3, <3>1
  <2>6. W[k] = w * Whole
    <3> HIDE DEF E, W, D
    <3> QED BY <1>7
  <2> HIDE DEF E, W, D
  <2> QED BY <2>3, <2>5, <2>6
<1> DEFINE good == {k \in 0 .. n : k = 0 \/ \A i \in G.events : E[k][i] = Whole * E[k - 1][i] + D[k][i]}
<1>9. 0 \in good
  OBVIOUS
<1>10. ASSUME NEW k \in 0 .. n - 1, k \in good PROVE k + 1 \in good
  <2>1. k + 1 \in 1 .. n /\ k + 1 - 1 = k /\ k \in 0 .. n /\ k + 1 \in 0 .. n
    OBVIOUS
  <2>2. ASSUME NEW i \in G.events PROVE E[k + 1][i] = Whole * E[k][i] + D[k + 1][i]
    <3>1. /\ E[k] \in A /\ D[k] \in A /\ W[k] \in Nat \ {0}
          /\ E[k + 1][i] = (W[k] * Whole) * base[i] + Passed(G, E[k])[i]
          /\ D[k + 1] = Passed(G, D[k])
      <4> DEFINE l == k + 1
      <4>1. l \in 1 .. n /\ l - 1 = k /\ l = k + 1
        BY <2>1
      <4> HIDE DEF E, W, D, A, l
      <4>2. /\ E[l][i] = W[l] * base[i] + Passed(G, E[l - 1])[i] /\ W[l] = W[l - 1] * Whole
            /\ D[l] = Passed(G, D[l - 1])
        BY <1>7, <1>8, <4>1
      <4>3. E[k] \in A /\ D[k] \in A /\ W[k] \in Nat \ {0}
        BY <1>5, <2>1
      <4> QED BY <4>1, <4>2, <4>3
    <3>2. Passed(G, E[k])[i] \in Nat /\ Passed(G, D[k])[i] \in Nat /\ base[i] \in Nat /\ Whole \in Nat
      <4> HIDE DEF E, W, D
      <4> QED BY <1>0, <3>1, PassedIs
    <3>3. CASE k = 0
      <4>1. W[k] = 1 /\ E[k] = base /\ D[k] = base
        <5> HIDE DEF E, W, D
        <5> QED BY <1>6, <3>3
      <4> HIDE DEF E, W, D
      <4>2. (1 * Whole) * base[i] = Whole * base[i]
        BY <3>2
      <4> QED BY <3>1, <4>1, <4>2
    <3>4. CASE k # 0
      <4>1. /\ k \in 1 .. n /\ k - 1 \in 0 .. n
            /\ \A j \in G.events : E[k][j] = Whole * E[k - 1][j] + D[k][j]
        <5> HIDE DEF E, W, D
        <5> QED BY <1>10, <3>4
      <4>2. E[k - 1] \in A /\ W[k - 1] \in Nat \ {0}
        <5> HIDE DEF E, W, D, A
        <5> QED BY <1>5, <4>1
      <4>3. Passed(G, E[k])[i] = Whole * Passed(G, E[k - 1])[i] + Passed(G, D[k])[i]
        <5> DEFINE a == E[k - 1]  m == E[k]  d == D[k]
        <5>1. /\ Whole \in Nat /\ a \in [G.events -> Nat] /\ m \in [G.events -> Nat]
              /\ d \in [G.events -> Nat] /\ \A j \in G.events : m[j] = Whole * a[j] + d[j]
          BY <3>1, <3>2, <4>1, <4>2
        <5> HIDE DEF a, m, d
        <5>2. AddsScaled(G, m, Whole, a, d)
          BY <5>1 DEF AddsScaled
        <5>3. Passed(G, m)[i] = Whole * Passed(G, a)[i] + Passed(G, d)[i]
          BY <5>2, PassedMix
        <5> QED BY <5>3 DEF a, m, d
      <4>4. /\ E[k][i] = W[k] * base[i] + Passed(G, E[k - 1])[i]
        <5> HIDE DEF E, W, D, A
        <5> QED BY <1>8, <4>1
      <4>5. Passed(G, E[k - 1])[i] \in Nat
        <5> HIDE DEF E, W, D
        <5> QED BY <4>2, PassedIs
      <4> DEFINE w == W[k]  b == base[i]  p == Passed(G, E[k - 1])[i]  d == Passed(G, D[k])[i]
      <4>6. w \in Nat /\ b \in Nat /\ p \in Nat /\ d \in Nat
        <5> HIDE DEF E, W, D
        <5> QED BY <3>1, <3>2, <4>5
      <4>7. (w * Whole) * b + (Whole * p + d) = Whole * (w * b + p) + d
        <5> HIDE DEF w, b, p, d
        <5> QED BY <3>2, <4>6, KatzAlgebra
      <4> HIDE DEF E, W, D
      <4> QED BY <3>1, <4>3, <4>4, <4>7
    <3> QED BY <3>3, <3>4
  <2> HIDE DEF E, W, D
  <2> QED BY <2>1, <2>2
<1>11. \A k \in 0 .. n : k \in good
  <2> HIDE DEF good
  <2> QED BY <1>9, <1>10, Counting
<1>12. \A k \in 1 .. n : \A i \in G.events : E[k][i] = Whole * E[k - 1][i] + D[k][i]
  <2>1. \A k \in 1 .. n : k # 0 /\ k \in 0 .. n
    OBVIOUS
  <2> HIDE DEF E, W, D
  <2> QED BY <1>11, <2>1
<1>13. Katz(G, base, n, E, W, D)
  <2> HIDE DEF E, W, D
  <2> QED BY <1>5, <1>6, <1>7, <1>8, <1>12 DEF Katz
<1> QED BY <1>13

LEMMA KatzTypes ==
    ASSUME NEW G, NEW base, NEW n \in Nat, NEW E, NEW W, NEW D, Katz(G, base, n, E, W, D), NEW k \in 0 .. n
    PROVE  /\ E[k] \in [G.events -> Nat] /\ W[k] \in Nat \ {0} /\ D[k] \in [G.events -> Nat]
           /\ \A i \in G.events : E[k][i] \in Nat /\ D[k][i] \in Nat
<1>1. E[k] \in [G.events -> Nat] /\ W[k] \in Nat \ {0} /\ D[k] \in [G.events -> Nat]
  BY DEF Katz
<1> QED BY <1>1

OneRound(G, E, W, D, k) ==
    /\ W[k + 1] = W[k] * Whole /\ D[k + 1] = Passed(G, D[k])
    /\ \A i \in G.events : E[k + 1][i] = Whole * E[k][i] + D[k + 1][i]

LEMMA KatzRound ==
    ASSUME NEW G, NEW base, NEW n \in Nat, NEW E, NEW W, NEW D, Katz(G, base, n, E, W, D), NEW k \in 0 .. n - 1
    PROVE  OneRound(G, E, W, D, k)
<1> DEFINE l == k + 1
<1>1. l \in 1 .. n /\ l - 1 = k /\ k \in 0 .. n /\ l \in 0 .. n
  OBVIOUS
<1> HIDE DEF l
<1>2. /\ W[l] = W[l - 1] * Whole /\ D[l] = Passed(G, D[l - 1])
      /\ \A i \in G.events : E[l][i] = Whole * E[l - 1][i] + D[l][i]
  BY <1>1 DEF Katz
<1> QED BY <1>1, <1>2 DEF l, OneRound

LEMMA KatzNext ==
    ASSUME NEW G, NEW base, NEW n \in Nat, NEW E, NEW W, NEW D, Katz(G, base, n, E, W, D), NEW k \in 0 .. n - 1
    PROVE  E[k + 1] = NextEffect(G, base, [eff |-> E[k], unit |-> W[k]])
<1> DEFINE l == k + 1
<1>1. l \in 1 .. n /\ l - 1 = k
  OBVIOUS
<1> HIDE DEF l
<1>2. E[l] = NextEffect(G, base, [eff |-> E[l - 1], unit |-> W[l - 1]])
  BY <1>1 DEF Katz
<1> QED BY <1>1, <1>2 DEF l

\* An effect only grows, and stays as it is when rounds add nothing.
LEMMA GrowthAlgebra ==
    ASSUME NEW e \in Nat, NEW w \in Nat, NEW f \in Nat, NEW u \in Nat, NEW d \in Nat, NEW m \in Nat
    PROVE  /\ e * u <= f * w => e * (u * m) <= (m * f + d) * w
           /\ e * u = f * w /\ d = 0 => e * (u * m) = (m * f + d) * w
<1>1. e * (u * m) = m * (e * u) /\ (m * f + d) * w = m * (f * w) + d * w
  <2>1. e * (u * m) = m * (e * u)
    OBVIOUS
  <2>2. (m * f + d) * w = (m * f) * w + d * w /\ (m * f) * w = m * (f * w)
    OBVIOUS
  <2> QED BY <2>1, <2>2
<1>2. e * u \in Nat /\ f * w \in Nat /\ d * w \in Nat /\ m * (e * u) \in Nat /\ m * (f * w) \in Nat
  OBVIOUS
<1>3. \A x \in Nat, y \in Nat : x <= y => m * x <= m * y
  OBVIOUS
<1>4. d = 0 => d * w = 0
  OBVIOUS
<1>5. e * u <= f * w => m * (e * u) <= m * (f * w)
  BY <1>2, <1>3
<1> QED BY <1>1, <1>2, <1>4, <1>5

LEMMA KatzGrows ==
    ASSUME NEW G, NEW base, NEW n \in Nat, NEW E, NEW W, NEW D, Katz(G, base, n, E, W, D),
           NEW k \in 0 .. n, NEW i \in G.events
    PROVE  \A m \in k .. n : /\ E[k][i] * W[m] <= E[m][i] * W[k]
                             /\ (\A j \in k + 1 .. m : D[j][i] = 0) => E[k][i] * W[m] = E[m][i] * W[k]
<1> DEFINE N == n - k
           Claim(m) == /\ E[k][i] * W[m] <= E[m][i] * W[k]
                       /\ (\A j \in k + 1 .. m : D[j][i] = 0) => E[k][i] * W[m] = E[m][i] * W[k]
           good == {r \in 0 .. N : Claim(k + r)}
<1>0. N \in Nat
  OBVIOUS
<1>1. 0 \in good
  <2>1. E[k][i] \in Nat /\ W[k] \in Nat
    BY KatzTypes
  <2>2. k + 0 = k /\ E[k][i] * W[k] <= E[k][i] * W[k]
    BY <2>1
  <2> QED BY <1>0, <2>2
<1>2. ASSUME NEW r \in 0 .. N - 1, r \in good PROVE r + 1 \in good
  <2> DEFINE m == k + r
  <2>1. m \in 0 .. n - 1 /\ m \in 0 .. n /\ m + 1 \in 0 .. n /\ k + (r + 1) = m + 1
    OBVIOUS
  <2>2. Claim(m)
    BY <1>2
  <2>3. W[m + 1] = W[m] * Whole /\ E[m + 1][i] = Whole * E[m][i] + D[m + 1][i]
    <3> HIDE DEF m
    <3>1. OneRound(G, E, W, D, m)
      BY <2>1, KatzRound
    <3> QED BY <3>1 DEF OneRound
  <2>4. /\ E[k][i] \in Nat /\ W[k] \in Nat /\ E[m][i] \in Nat /\ W[m] \in Nat
        /\ D[m + 1][i] \in Nat /\ Whole \in Nat
    <3>1. Whole \in Nat
      BY ExposureAssumption
    <3> HIDE DEF m
    <3>2. m \in 0 .. n /\ m + 1 \in 0 .. n
      BY <2>1
    <3>3. E[k][i] \in Nat /\ W[k] \in Nat
      BY KatzTypes
    <3>4. E[m][i] \in Nat /\ W[m] \in Nat
      BY <3>2, KatzTypes
    <3>5. D[m + 1][i] \in Nat
      <4> DEFINE l == m + 1
      <4>1. l \in 0 .. n
        BY <3>2
      <4> HIDE DEF l
      <4>2. D[l][i] \in Nat
        BY <4>1, KatzTypes
      <4> QED BY <4>2 DEF l
    <3> QED BY <3>1, <3>3, <3>4, <3>5
  <2> DEFINE e == E[k][i]  w == W[k]  f == E[m][i]  u == W[m]  d == D[m + 1][i]
  <2>5. /\ e * u <= f * w => e * (u * Whole) <= (Whole * f + d) * w
        /\ e * u = f * w /\ d = 0 => e * (u * Whole) = (Whole * f + d) * w
    <3>1. e \in Nat /\ w \in Nat /\ f \in Nat /\ u \in Nat /\ d \in Nat
      BY <2>4
    <3> HIDE DEF e, w, f, u, d
    <3> QED BY <2>4, <3>1, GrowthAlgebra
  <2>6. (\A j \in k + 1 .. m + 1 : D[j][i] = 0) => d = 0 /\ \A j \in k + 1 .. m : D[j][i] = 0
    <3>1. m + 1 \in k + 1 .. m + 1 /\ \A j \in k + 1 .. m : j \in k + 1 .. m + 1
      OBVIOUS
    <3> HIDE DEF m
    <3> QED BY <3>1
  <2>7. Claim(m + 1)
    <3> HIDE DEF m
    <3> QED BY <2>2, <2>3, <2>5, <2>6
  <2> HIDE DEF Claim, m
  <2> QED BY <2>1, <2>7
<1>3. \A r \in 0 .. N : r \in good
  <2> HIDE DEF good, N
  <2> QED BY <1>0, <1>1, <1>2, Counting
<1>4. ASSUME NEW m \in k .. n PROVE Claim(m)
  <2>1. m - k \in 0 .. N /\ k + (m - k) = m
    OBVIOUS
  <2>2. m - k \in good
    BY <1>3, <2>1
  <2>3. Claim(k + (m - k))
    <3> HIDE DEF Claim
    <3> QED BY <2>2
  <2> HIDE DEF Claim
  <2> QED BY <2>1, <2>3
<1> QED BY <1>4

\* Once a round adds nothing anywhere, no later one does.
Quiet(G, D, k) == \A i \in G.events : D[k][i] = 0

LEMMA KatzQuiet ==
    ASSUME NEW G, IsGraph(G), NEW base, NEW n \in Nat, NEW E, NEW W, NEW D, Katz(G, base, n, E, W, D),
           NEW k \in 0 .. n, Quiet(G, D, k)
    PROVE  \A m \in k .. n : Quiet(G, D, m)
<1> DEFINE N == n - k
           good == {r \in 0 .. N : \A i \in G.events : D[k + r][i] = 0}
<1>0. N \in Nat
  OBVIOUS
<1>1. 0 \in good
  <2>1. k + 0 = k
    OBVIOUS
  <2> QED BY <1>0, <2>1 DEF Quiet
<1>2. ASSUME NEW r \in 0 .. N - 1, r \in good PROVE r + 1 \in good
  <2> DEFINE m == k + r
  <2>1. m \in 0 .. n - 1 /\ m \in 0 .. n /\ k + (r + 1) = m + 1
    OBVIOUS
  <2>2. \A i \in G.events : D[m][i] = 0
    BY <1>2
  <2>3. D[m + 1] = Passed(G, D[m]) /\ D[m] \in [G.events -> Nat]
    <3> HIDE DEF m
    <3>0. OneRound(G, E, W, D, m)
      BY <2>1, KatzRound
    <3>1. D[m + 1] = Passed(G, D[m])
      BY <3>0 DEF OneRound
    <3>2. D[m] \in [G.events -> Nat]
      BY <2>1, KatzTypes
    <3> QED BY <3>1, <3>2
  <2>4. \A i \in G.events : Passed(G, D[m])[i] = 0
    <3> HIDE DEF m
    <3>1. ASSUME NEW i \in G.events PROVE Passed(G, D[m])[i] = 0
      <4>1. \A fl \in Into(G, i) : D[m][fl.from] = 0
        BY <2>2, IntoIs
      <4> QED BY <2>3, <4>1, PassedNothing
    <3> QED BY <3>1
  <2> HIDE DEF m
  <2> QED BY <2>1, <2>3, <2>4
<1>3. \A r \in 0 .. N : r \in good
  <2> HIDE DEF good, N
  <2> QED BY <1>0, <1>1, <1>2, Counting
<1>4. ASSUME NEW m \in k .. n, NEW i \in G.events PROVE D[m][i] = 0
  <2>1. m - k \in 0 .. N /\ k + (m - k) = m
    OBVIOUS
  <2>2. D[k + (m - k)][i] = 0
    BY <1>3, <2>1
  <2> QED BY <2>1, <2>2
<1> QED BY <1>4 DEF Quiet

\* With fewer links, each round adds no more.
NeverMore(G, n, E, W, D, F, V, B) ==
    \A k \in 0 .. n : V[k] = W[k] /\ \A i \in G.events : B[k][i] <= D[k][i] /\ F[k][i] <= E[k][i]

LEMMA KatzFewer ==
    ASSUME NEW G, IsGraph(G), NEW H, IsGraph(H), H.events = G.events, H.flows \subseteq G.flows,
           NEW base, NEW n \in Nat, NEW E, NEW W, NEW D, Katz(G, base, n, E, W, D),
           NEW F, NEW V, NEW B, Katz(H, base, n, F, V, B)
    PROVE  NeverMore(G, n, E, W, D, F, V, B)
<1> DEFINE Claim(k) == V[k] = W[k] /\ \A i \in G.events : B[k][i] <= D[k][i] /\ F[k][i] <= E[k][i]
           good == {k \in 0 .. n : Claim(k)}
<1>1. 0 \in good
  <2>1. /\ V[0] = 1 /\ W[0] = 1 /\ B[0] = base /\ D[0] = base /\ F[0] = base /\ E[0] = base
    BY DEF Katz
  <2>2. \A i \in G.events : base[i] \in Nat
    <3>1. 0 \in 0 .. n
      OBVIOUS
    <3>2. E[0] \in [G.events -> Nat]
      BY <3>1, KatzTypes
    <3> QED BY <2>1, <3>2
  <2> QED BY <2>1, <2>2
<1>2. ASSUME NEW k \in 0 .. n - 1, k \in good PROVE k + 1 \in good
  <2>1. Claim(k) /\ k \in 0 .. n /\ k + 1 \in 0 .. n
    BY <1>2
  <2>2. /\ W[k + 1] = W[k] * Whole /\ D[k + 1] = Passed(G, D[k])
        /\ \A i \in G.events : E[k + 1][i] = Whole * E[k][i] + D[k + 1][i]
    <3>1. OneRound(G, E, W, D, k)
      BY KatzRound
    <3> QED BY <3>1 DEF OneRound
  <2>3. /\ V[k + 1] = V[k] * Whole /\ B[k + 1] = Passed(H, B[k])
        /\ \A i \in G.events : F[k + 1][i] = Whole * F[k][i] + B[k + 1][i]
    <3>1. OneRound(H, F, V, B, k)
      BY KatzRound
    <3> QED BY <3>1 DEF OneRound
  <2>4. /\ D[k] \in [G.events -> Nat] /\ D[k + 1] \in [G.events -> Nat]
        /\ \A i \in G.events : E[k][i] \in Nat /\ D[k + 1][i] \in Nat
    <3> DEFINE l == k + 1
    <3>1. k \in 0 .. n /\ l \in 0 .. n
      BY <2>1
    <3> HIDE DEF l
    <3>2. D[k] \in [G.events -> Nat] /\ \A i \in G.events : E[k][i] \in Nat
      BY <3>1, KatzTypes
    <3>3. D[l] \in [G.events -> Nat] /\ \A i \in G.events : D[l][i] \in Nat
      BY <3>1, KatzTypes
    <3> QED BY <3>2, <3>3 DEF l
  <2>5. /\ B[k] \in [G.events -> Nat] /\ B[k + 1] \in [G.events -> Nat]
        /\ \A i \in G.events : F[k][i] \in Nat /\ B[k + 1][i] \in Nat
    <3> DEFINE l == k + 1
    <3>1. k \in 0 .. n /\ l \in 0 .. n
      BY <2>1
    <3> HIDE DEF l
    <3>2. B[k] \in [G.events -> Nat] /\ \A i \in G.events : F[k][i] \in Nat
      BY <3>1, KatzTypes
    <3>3. B[l] \in [G.events -> Nat] /\ \A i \in G.events : B[l][i] \in Nat
      BY <3>1, KatzTypes
    <3> QED BY <3>2, <3>3 DEF l
  <2>6. ASSUME NEW i \in G.events PROVE B[k + 1][i] <= D[k + 1][i]
    <3> DEFINE e == B[k]  f == D[k]
    <3>1. /\ e \in [G.events -> Nat] /\ f \in [G.events -> Nat]
          /\ \A j \in G.events : e[j] <= f[j]
      BY <2>1, <2>4, <2>5
    <3> HIDE DEF e, f
    <3>2. Passed(H, e)[i] <= Passed(G, f)[i]
      BY <3>1, PassedMore
    <3> QED BY <2>2, <2>3, <3>2 DEF e, f
  <2>7. ASSUME NEW i \in G.events PROVE F[k + 1][i] <= E[k + 1][i]
    <3> DEFINE e == E[k][i]  f == F[k][i]  b == B[k + 1][i]  d == D[k + 1][i]
    <3>1. e \in Nat /\ f \in Nat /\ b \in Nat /\ d \in Nat /\ f <= e /\ b <= d /\ Whole \in Nat
      BY <2>1, <2>4, <2>5, <2>6, ExposureAssumption
    <3>2. Whole * f + b <= Whole * e + d
      <4> HIDE DEF e, f, b, d
      <4>1. Whole * f <= Whole * e /\ Whole * f \in Nat /\ Whole * e \in Nat
        BY <3>1
      <4> QED BY <3>1, <4>1
    <3> QED BY <2>2, <2>3, <3>2
  <2>8. Claim(k + 1)
    BY <2>1, <2>2, <2>3, <2>6, <2>7
  <2> HIDE DEF Claim
  <2> QED BY <2>1, <2>8
<1>3. \A k \in 0 .. n : k \in good
  <2> HIDE DEF good
  <2> QED BY <1>1, <1>2, Counting
<1> QED BY <1>3 DEF NeverMore

\* What an event is attributed after one round adds up to its effect.
Attributes(G, base, eff, attr, u, i, new) ==
    /\ base \in [G.events -> Nat] /\ eff \in [G.events -> Nat] /\ u \in Nat
    /\ attr \in [G.events -> [G.events -> Nat]]
    /\ \A j \in G.events : SumFunctionOnSet(attr[j], G.events) = eff[j]
    /\ new = [src \in G.events |->
                (IF src = i THEN u * base[i] ELSE 0)
                + SumFunction([fl \in Into(G, i) |-> Gain[fl.step] * attr[fl.from][src]])]

Attributed(G, base, eff, u, i, new) ==
    /\ \A src \in G.events : new[src] \in Nat
    /\ SumFunctionOnSet(new, G.events) = u * base[i] + Passed(G, eff)[i]

LEMMA AttributionStep ==
    ASSUME NEW G, IsGraph(G), NEW base, NEW eff, NEW attr, NEW u, NEW i \in G.events, NEW new,
           Attributes(G, base, eff, attr, u, i, new)
    PROVE  Attributed(G, base, eff, u, i, new)
<1> USE DEF Attributes, Attributed
<1> DEFINE S == G.events  T == Into(G, i)
           own == [src \in S |-> IF src = i THEN u * base[i] ELSE 0]
           part == [src \in S |-> [fl \in T |-> Gain[fl.step] * attr[fl.from][src]]]
           col == [src \in S |-> SumFunctionOnSet(part[src], T)]
           m == [fl \in T |-> [src \in S |-> Gain[fl.step] * attr[fl.from][src]]]
           row == [fl \in T |-> Gain[fl.step] * eff[fl.from]]
<1>0. /\ IsFiniteSet(S) /\ IsFiniteSet(T) /\ i \in S
      /\ \A fl \in T : Gain[fl.step] \in Nat /\ fl.from \in S
  BY IntoIs DEF IsGraph
<1>1. \A fl \in T, src \in S : /\ part[src][fl] \in Nat /\ part[src][fl] = m[fl][src]
                               /\ m[fl][src] = Gain[fl.step] * attr[fl.from][src]
  <2>1. ASSUME NEW fl \in T, NEW src \in S
        PROVE  /\ part[src][fl] \in Nat /\ part[src][fl] = m[fl][src]
               /\ m[fl][src] = Gain[fl.step] * attr[fl.from][src]
    <3>1. Gain[fl.step] \in Nat /\ attr[fl.from][src] \in Nat
      BY <1>0
    <3>2. Gain[fl.step] * attr[fl.from][src] \in Nat
      BY <3>1, GainTimes
    <3> QED BY <3>2
  <2> QED BY <2>1
<1>2. \A src \in S : new[src] = own[src] + col[src]
  <2>1. \A src \in S : DOMAIN part[src] = T
    OBVIOUS
  <2>2. \A src \in S : SumFunction(part[src]) = SumFunctionOnSet(part[src], T)
    <3> HIDE DEF part, T
    <3> QED BY <2>1 DEF SumFunction
  <2>3. \A src \in S : new[src] = own[src] + SumFunction(part[src])
    OBVIOUS
  <2>4. \A src \in S : col[src] = SumFunctionOnSet(part[src], T)
    OBVIOUS
  <2> HIDE DEF S, T, own, part, col, Attributes, Attributed
  <2>5. ASSUME NEW src \in S PROVE new[src] = own[src] + col[src]
    <3>1. col[src] = SumFunction(part[src])
      BY <2>2, <2>4
    <3>2. new[src] = own[src] + SumFunction(part[src])
      BY <2>3
    <3> QED BY <3>1, <3>2
  <2> QED BY <2>5
<1>3. \A src \in S : col[src] \in Nat
  <2>1. ASSUME NEW src \in S PROVE SumFunctionOnSet(part[src], T) \in Nat
    <3>1. \A fl \in T : part[src][fl] \in Nat
      BY <1>1
    <3> HIDE DEF part, T, S
    <3> QED BY <1>0, <3>1, SumNat
  <2> QED BY <2>1
<1>4. u * base[i] \in Nat /\ \A src \in S : own[src] \in Nat
  <2>1. u * base[i] \in Nat
    BY GainTimes
  <2> QED BY <2>1
<1>5. SumFunctionOnSet(new, S) = SumFunctionOnSet(own, S) + SumFunctionOnSet(col, S)
  <2> HIDE DEF S, own, col
  <2>1. ASSUME NEW src \in S PROVE own[src] \in Int /\ col[src] \in Int /\ new[src] = own[src] + col[src]
    <3>1. own[src] \in Nat /\ col[src] \in Nat /\ new[src] = own[src] + col[src]
      BY <1>2, <1>3, <1>4, Zenon
    <3> QED BY <3>1
  <2>2. ArePlus(S, own, col, new)
    BY <1>0, <2>1, Zenon DEF ArePlus
  <2> QED BY <2>2, SumPlus
<1>6. SumFunctionOnSet(own, S) = u * base[i]
  <2>1. own[i] = u * base[i] /\ \A src \in S \ {i} : own[src] = 0
    OBVIOUS
  <2>2. own[i] \in Int
    BY <1>4, <2>1
  <2> HIDE DEF S, own
  <2>3. SumFunctionOnSet(own, S) = own[i]
    BY <1>0, <2>1, <2>2, SumOne
  <2> QED BY <2>1, <2>3
<1>7. \A fl \in T : row[fl] = SumFunctionOnSet(m[fl], S)
  <2>1. ASSUME NEW fl \in T PROVE row[fl] = SumFunctionOnSet(m[fl], S)
    <3> DEFINE f == attr[fl.from]  h == m[fl]  a == Gain[fl.step]
    <3>1. /\ a \in Int /\ row[fl] = a * eff[fl.from] /\ SumFunctionOnSet(f, S) = eff[fl.from]
      BY <1>0
    <3>2. \A src \in S : f[src] \in Int /\ h[src] = a * f[src]
      BY <1>0
    <3> HIDE DEF f, h, a, S, row
    <3>3. SumFunctionOnSet(h, S) = a * SumFunctionOnSet(f, S)
      BY <1>0, <3>1, <3>2, SumScale
    <3>4. row[fl] = SumFunctionOnSet(h, S)
      BY <3>1, <3>3
    <3> QED BY <3>4 DEF h
  <2> QED BY <2>1
<1>8. SumFunctionOnSet(row, T) = SumFunctionOnSet(col, S)
  <2>1. \A src \in S : col[src] = SumFunctionOnSet(part[src], T)
    OBVIOUS
  <2>2. /\ \A fl \in T, src \in S : m[fl][src] \in Int
        /\ \A fl \in T, src \in S : part[src][fl] = m[fl][src]
    <3> HIDE DEF m, part, S, T
    <3> QED BY <1>1
  <2> HIDE DEF row, col, part, m, S, T
  <2>3. IsTable(T, S, m, part, row, col)
    BY <1>0, <1>7, <2>1, <2>2 DEF IsTable
  <2> QED BY <2>3, SumExchange
<1>9. Passed(G, eff)[i] = SumFunctionOnSet(row, T)
  BY PassedIs
<1>10. \A src \in S : new[src] \in Nat
  <2> HIDE DEF S, own, col
  <2>1. ASSUME NEW src \in S PROVE new[src] \in Nat
    <3>1. own[src] \in Nat /\ col[src] \in Nat /\ new[src] = own[src] + col[src]
      BY <1>2, <1>3, <1>4, Zenon
    <3> QED BY <3>1
  <2> QED BY <2>1
<1> HIDE DEF row, col, own, T
<1> QED BY <1>5, <1>6, <1>8, <1>9, <1>10

\* The states of a diffusion.
States(G) ==
    {x \in [eff : [G.events -> Nat], unit : Nat \ {0}, settled : BOOLEAN, attr : [G.events -> [G.events -> Nat]]] :
       \A i \in G.events : SumFunctionOnSet(x.attr[i], G.events) = x.eff[i]}

LEMMA StateIs ==
    ASSUME NEW G, NEW x \in States(G)
    PROVE  /\ x.eff \in [G.events -> Nat] /\ x.unit \in Nat \ {0} /\ x.settled \in BOOLEAN
           /\ x.attr \in [G.events -> [G.events -> Nat]]
           /\ \A i \in G.events : SumFunctionOnSet(x.attr[i], G.events) = x.eff[i]
  BY DEF States

LEMMA StartIs ==
    ASSUME NEW G, IsGraph(G), NEW base \in [G.events -> Nat]
    PROVE  /\ DiffuseStart(G, base) \in States(G) /\ DiffuseStart(G, base).eff = base
           /\ DiffuseStart(G, base).unit = 1 /\ ~ DiffuseStart(G, base).settled
<1> DEFINE s == DiffuseStart(G, base)
           attr == [i \in G.events |-> [src \in G.events |-> IF src = i THEN base[i] ELSE 0]]
<1>1. s = [eff |-> base, unit |-> 1, settled |-> FALSE, attr |-> attr]
  BY DEF DiffuseStart
<1>2. attr \in [G.events -> [G.events -> Nat]]
  OBVIOUS
<1>3. ASSUME NEW i \in G.events PROVE SumFunctionOnSet(attr[i], G.events) = base[i]
  <2> DEFINE f == attr[i]
  <2>1. /\ IsFiniteSet(G.events) /\ f[i] = base[i] /\ f[i] \in Int
        /\ \A x \in G.events \ {i} : f[x] = 0
    BY DEF IsGraph
  <2> HIDE DEF f
  <2>2. SumFunctionOnSet(f, G.events) = f[i]
    BY <2>1, SumOne
  <2> QED BY <2>1, <2>2 DEF f
<1> HIDE DEF attr, s
<1>4. s \in States(G)
  BY <1>1, <1>2, <1>3 DEF States
<1> QED BY <1>1, <1>4 DEF s

\* One round leads to a state, with the effects and the unit of the round.
LEMMA OnceIs ==
    ASSUME NEW G, IsGraph(G), NEW base \in [G.events -> Nat], NEW x \in States(G)
    PROVE  /\ DiffuseOnce(G, base, x) \in States(G)
           /\ DiffuseOnce(G, base, x).eff = NextEffect(G, base, x)
           /\ DiffuseOnce(G, base, x).unit = x.unit * Whole
           /\ DiffuseOnce(G, base, x).settled =
                \A i \in G.events : Tolerance * AbsInt(NextEffect(G, base, x)[i] - x.eff[i] * Whole) < x.unit * Whole
<1> DEFINE y == DiffuseOnce(G, base, x)
           u == x.unit * Whole
           eff == NextEffect(G, base, x)
           attr == [i \in G.events |-> [src \in G.events |->
                       (IF src = i THEN u * base[i] ELSE 0)
                       + SumFunction([fl \in Into(G, i) |-> Gain[fl.step] * x.attr[fl.from][src]])]]
           calm == \A i \in G.events : Tolerance * AbsInt(eff[i] - x.eff[i] * Whole) < u
<1>1. y = [eff |-> eff, unit |-> u, attr |-> attr, settled |-> calm]
  BY DEF DiffuseOnce, PassOn
<1>2. u \in Nat \ {0}
  <2>1. x.unit \in Nat \ {0} /\ Whole \in Nat \ {0}
    BY StateIs, ExposureAssumption
  <2> QED BY <2>1
<1>3. ASSUME NEW i \in G.events
      PROVE  /\ \A src \in G.events : attr[i][src] \in Nat
             /\ SumFunctionOnSet(attr[i], G.events) = u * base[i] + Passed(G, x.eff)[i]
  <2> DEFINE e == x.eff  a == x.attr  new == attr[i]
  <2>1. /\ e \in [G.events -> Nat] /\ a \in [G.events -> [G.events -> Nat]]
        /\ \A j \in G.events : SumFunctionOnSet(a[j], G.events) = e[j]
    BY StateIs
  <2>2. u \in Nat
    BY <1>2
  <2>3. new = [src \in G.events |->
                 (IF src = i THEN u * base[i] ELSE 0)
                 + SumFunction([fl \in Into(G, i) |-> Gain[fl.step] * a[fl.from][src]])]
    OBVIOUS
  <2> HIDE DEF e, a, new, u
  <2>4. Attributes(G, base, e, a, u, i, new)
    BY <2>1, <2>2, <2>3 DEF Attributes
  <2>5. Attributed(G, base, e, u, i, new)
    BY <2>4, AttributionStep
  <2> QED BY <2>5 DEF e, new, Attributed
<1>4. \A i \in G.events : eff[i] = u * base[i] + Passed(G, x.eff)[i]
  BY NextEffectIs
<1>5. eff \in [G.events -> Nat]
  <2>1. ASSUME NEW i \in G.events PROVE eff[i] \in Nat
    <3>1. x.eff \in [G.events -> Nat]
      BY StateIs
    <3>2. Passed(G, x.eff)[i] \in Nat
      BY <3>1, PassedIs
    <3>3. u * base[i] \in Nat
      <4>1. base[i] \in Nat
        OBVIOUS
      <4> HIDE DEF u
      <4> QED BY <1>2, <4>1, GainTimes
    <3> HIDE DEF u, eff
    <3> QED BY <1>4, <3>2, <3>3
  <2>2. eff = [i \in G.events |-> eff[i]]
    BY NextEffectIs
  <2> HIDE DEF eff
  <2> QED BY <2>1, <2>2
<1>6. attr \in [G.events -> [G.events -> Nat]]
  BY <1>3
<1>7. calm \in BOOLEAN
  OBVIOUS
<1>8. y \in States(G)
  <2> HIDE DEF eff, u, attr, calm, y
  <2> QED BY <1>1, <1>2, <1>3, <1>4, <1>5, <1>6, <1>7 DEF States
<1>9. y.eff = eff /\ y.unit = u /\ y.settled = calm
  <2> HIDE DEF eff, u, attr, calm, y
  <2> QED BY <1>1
<1> QED BY <1>8, <1>9

\* A round in which every effect moved less than EPSILON, and a diffusion that has
\* stopped in the first one of those.
Calm(G, E, W, k) == \A i \in G.events : Tolerance * AbsInt(E[k][i] - E[k - 1][i] * Whole) < W[k]
Stopped(G, E, W, p, x) ==
    /\ x \in States(G) /\ x.eff = E[p] /\ x.unit = W[p]
    /\ x.settled => p > 0 /\ Calm(G, E, W, p)
    /\ \A q \in 1 .. p : Calm(G, E, W, q) => q = p /\ x.settled

LEMMA DiffuseStep ==
    ASSUME NEW G, IsGraph(G), NEW base \in [G.events -> Nat], NEW n \in Nat, NEW E, NEW W, NEW D,
           Katz(G, base, n, E, W, D), NEW k \in 0 .. n - 1, NEW x, Stopped(G, E, W, k, x), ~ x.settled
    PROVE  Stopped(G, E, W, k + 1, DiffuseOnce(G, base, x))
<1> DEFINE y == DiffuseOnce(G, base, x)
           r == [eff |-> E[k], unit |-> W[k]]
<1>1. x \in States(G) /\ x.eff = E[k] /\ x.unit = W[k] /\ \A q \in 1 .. k : ~ Calm(G, E, W, q)
  BY DEF Stopped
<1>2. /\ y \in States(G) /\ y.eff = NextEffect(G, base, x) /\ y.unit = x.unit * Whole
      /\ y.settled = \A i \in G.events :
           Tolerance * AbsInt(NextEffect(G, base, x)[i] - x.eff[i] * Whole) < x.unit * Whole
  BY <1>1, OnceIs
<1>3. NextEffect(G, base, x) = NextEffect(G, base, r)
  <2>1. x.eff = r.eff /\ x.unit = r.unit
    BY <1>1
  <2> HIDE DEF r
  <2> QED BY <2>1, NextEffectSame
<1>4. E[k + 1] = NextEffect(G, base, r)
  BY KatzNext
<1>5. W[k + 1] = W[k] * Whole
  <2>1. OneRound(G, E, W, D, k)
    BY KatzRound
  <2> QED BY <2>1 DEF OneRound
<1> DEFINE l == k + 1
<1>6. l - 1 = k /\ l > 0 /\ \A q \in 1 .. l : q = l \/ q \in 1 .. k
  OBVIOUS
<1>7. y.eff = E[l] /\ y.unit = W[l]
  <2> HIDE DEF y, r
  <2> QED BY <1>1, <1>2, <1>3, <1>4, <1>5
<1>8. y.settled = \A i \in G.events : Tolerance * AbsInt(E[l][i] - E[k][i] * Whole) < W[l]
  <2> DEFINE e == NextEffect(G, base, x)
  <2>1. e = E[l] /\ x.eff = E[k] /\ x.unit * Whole = W[l]
    <3> HIDE DEF y, r
    <3> QED BY <1>1, <1>3, <1>4, <1>5
  <2>2. y.settled = \A i \in G.events : Tolerance * AbsInt(e[i] - x.eff[i] * Whole) < x.unit * Whole
    BY <1>2
  <2> HIDE DEF y, r, l, e
  <2> QED BY <2>1, <2>2
<1>9. y.settled = Calm(G, E, W, l)
  <2> HIDE DEF y, l
  <2> QED BY <1>6, <1>8 DEF Calm
<1> HIDE DEF y, l, r
<1>10. y.settled \in BOOLEAN
  BY <1>2, StateIs
<1>11. Stopped(G, E, W, l, y)
  BY <1>1, <1>2, <1>6, <1>7, <1>9, <1>10 DEF Stopped
<1> QED BY <1>11 DEF y, l

LEMMA DiffuseIs ==
    ASSUME NEW G, IsGraph(G), NEW base \in [G.events -> Nat], NEW n \in Nat, MaxIters <= n,
           NEW E, NEW W, NEW D, Katz(G, base, n, E, W, D)
    PROVE  \E p \in 0 .. MaxIters : /\ Stopped(G, E, W, p, DiffuseFrom(G, base))
                                    /\ DiffuseFrom(G, base).settled \/ p = MaxIters
<1> DEFINE N == MaxIters  X == States(G)  v == DiffuseStart(G, base)
           Go(x) == IF x.settled THEN x ELSE DiffuseOnce(G, base, x)
           F == [x \in X |-> Go(x)]
           Def(g) == g = [k \in 0 .. N |-> IF k = 0 THEN v ELSE Go(g[k - 1])]
           round == CHOOSE g : Def(g)
<1>0. N \in Nat
  BY ExposureAssumption
<1>1. v \in X /\ v.eff = base /\ v.unit = 1 /\ ~ v.settled
  BY StartIs
<1>2. F \in [X -> X] /\ \A x \in X : F[x] = Go(x)
  <2>1. ASSUME NEW x \in X PROVE Go(x) \in X
    BY OnceIs
  <2> HIDE DEF X, Go
  <2> QED BY <2>1
<1> HIDE DEF F, X, v, N
<1>3. PICK f : Iterates(N, X, v, F, f)
  BY <1>0, <1>1, <1>2, Iteration
<1>4. f \in [0 .. N -> X] /\ f[0] = v /\ \A k \in 1 .. N : f[k - 1] \in X /\ f[k] = Go(f[k - 1])
  <2>1. f \in [0 .. N -> X] /\ f[0] = v /\ \A k \in 1 .. N : f[k] = F[f[k - 1]]
    BY <1>3 DEF Iterates
  <2>2. \A k \in 1 .. N : f[k - 1] \in X
    BY <1>0, <2>1
  <2> HIDE DEF Go
  <2> QED BY <1>2, <2>1, <2>2
<1>5. Def(round)
  <2> HIDE DEF Go
  <2>1. \A k \in 0 .. N : f[k] = IF k = 0 THEN v ELSE Go(f[k - 1])
    BY <1>0, <1>4
  <2>2. Def(f)
    BY <1>4, <2>1
  <2> HIDE DEF Def
  <2> QED BY <2>2
<1>6. DiffuseFrom(G, base) = round[N]
  BY DEF DiffuseFrom, N, v
<1>7. DiffuseFrom(G, base) = f[N]
  <2> HIDE DEF round, Go
  <2>1. \A k \in 0 .. N : round[k] = IF k = 0 THEN v ELSE Go(round[k - 1])
    BY <1>5, Zenon
  <2>2. 0 \in 0 .. N /\ \A k \in 1 .. N : k # 0 /\ k \in 0 .. N
    BY <1>0
  <2>3. round[0] = v /\ \A k \in 1 .. N : round[k] = Go(round[k - 1])
    BY <2>1, <2>2
  <2>4. Follows(N, X, v, F, round)
    BY <1>2, <2>3 DEF Follows
  <2>5. \A g : Follows(N, X, v, F, g) => g[N] = f[N]
    BY <1>3 DEF Iterates
  <2> QED BY <1>6, <2>4, <2>5
<1> DEFINE Claim(k) == \E p \in 0 .. k : Stopped(G, E, W, p, f[k]) /\ (f[k].settled \/ p = k)
           good == {k \in 0 .. N : Claim(k)}
<1>8. 0 \in good
  <2>1. E[0] = base /\ W[0] = 1
    BY DEF Katz
  <2>2. Stopped(G, E, W, 0, f[0])
    BY <1>1, <1>4, <2>1 DEF Stopped, X
  <2>3. 0 \in 0 .. 0 /\ 0 \in 0 .. N
    BY <1>0
  <2> QED BY <2>2, <2>3
<1>9. ASSUME NEW k \in 0 .. N - 1, k \in good PROVE k + 1 \in good
  <2>1. k + 1 \in 1 .. N /\ k + 1 - 1 = k /\ k + 1 \in 0 .. N /\ k \in 0 .. n - 1 /\ k + 1 \in 0 .. k + 1
    BY <1>0 DEF N
  <2>2. f[k + 1] = Go(f[k])
    <3> HIDE DEF Go
    <3>1. f[k + 1] = Go(f[k + 1 - 1])
      BY <1>4, <2>1
    <3> QED BY <2>1, <3>1
  <2>3. PICK p \in 0 .. k : Stopped(G, E, W, p, f[k]) /\ (f[k].settled \/ p = k)
    BY <1>9
  <2>4. CASE f[k].settled
    <3>1. f[k + 1] = f[k] /\ p \in 0 .. k + 1
      BY <2>2, <2>4
    <3>2. Claim(k + 1)
      BY <2>3, <2>4, <3>1
    <3> QED BY <2>1, <3>2
  <2>5. CASE ~ f[k].settled
    <3>1. f[k + 1] = DiffuseOnce(G, base, f[k]) /\ p = k
      BY <2>2, <2>3, <2>5
    <3>2. Stopped(G, E, W, k + 1, f[k + 1])
      BY <2>1, <2>3, <2>5, <3>1, DiffuseStep
    <3>3. Claim(k + 1)
      BY <2>1, <3>2
    <3> QED BY <2>1, <3>3
  <2> QED BY <2>4, <2>5
<1>10. \A k \in 0 .. N : k \in good
  <2> HIDE DEF good
  <2> QED BY <1>0, <1>8, <1>9, Counting
<1>11. Claim(N)
  <2>1. N \in 0 .. N
    BY <1>0
  <2> HIDE DEF Claim
  <2> QED BY <1>10, <2>1
<1> QED BY <1>7, <1>11 DEF N

\* What a round adds is what it moves.
LEMMA CalmIs ==
    ASSUME NEW G, NEW base, NEW n \in Nat, NEW E, NEW W, NEW D, Katz(G, base, n, E, W, D), NEW k \in 1 .. n
    PROVE  Calm(G, E, W, k) <=> \A i \in G.events : Tolerance * D[k][i] < W[k]
<1>1. k - 1 \in 0 .. n - 1 /\ k - 1 + 1 = k /\ k \in 0 .. n /\ k - 1 \in 0 .. n
  OBVIOUS
<1>2. ASSUME NEW i \in G.events PROVE AbsInt(E[k][i] - E[k - 1][i] * Whole) = D[k][i]
  <2>1. E[k][i] = Whole * E[k - 1][i] + D[k][i]
    BY DEF Katz
  <2>2. D[k][i] \in Nat /\ E[k - 1][i] \in Nat /\ Whole \in Nat
    BY <1>1, KatzTypes, ExposureAssumption
  <2> DEFINE e == E[k - 1][i]  d == D[k][i]  z == E[k][i] - e * Whole
  <2>3. z = d
    <3>1. e * Whole = Whole * e /\ Whole * e \in Nat
      <4>1. e \in Nat
        BY <2>2
      <4> HIDE DEF e
      <4> QED BY <2>2, <4>1
    <3>2. E[k][i] = Whole * e + d /\ d \in Nat
      BY <2>1, <2>2
    <3> HIDE DEF e, d
    <3> QED BY <3>1, <3>2
  <2>4. d \in Nat
    BY <2>2
  <2> HIDE DEF d, z
  <2>5. AbsInt(z) = d
    BY <2>3, <2>4 DEF AbsInt
  <2> QED BY <2>5 DEF d, z
<1> QED BY <1>2 DEF Calm

LEMMA DiffuseTypes ==
    ASSUME NEW G, IsGraph(G), NEW base \in [G.events -> Nat]
    PROVE  /\ DiffuseFrom(G, base) \in States(G)
           /\ DiffuseFrom(G, base).eff \in [G.events -> Nat] /\ DiffuseFrom(G, base).unit \in Nat
<1> DEFINE x == DiffuseFrom(G, base)
<1>1. MaxIters \in Nat /\ MaxIters <= MaxIters
  BY ExposureAssumption
<1>2. PICK E, W, D : Katz(G, base, MaxIters, E, W, D)
  BY <1>1, KatzExists
<1>3. x \in States(G)
  BY <1>1, <1>2, DiffuseIs DEF Stopped
<1> QED BY <1>3, StateIs

LEMMA DiffuseExplained ==
    ASSUME NEW G, IsGraph(G), NEW base \in [G.events -> Nat]
    PROVE  \A i \in G.events : SumFunction(DiffuseFrom(G, base).attr[i]) = DiffuseFrom(G, base).eff[i]
<1> DEFINE x == DiffuseFrom(G, base)
<1>3. x \in States(G)
  BY DiffuseTypes
<1>4. ASSUME NEW i \in G.events PROVE SumFunction(x.attr[i]) = x.eff[i]
  <2>1. x.attr[i] \in [G.events -> Nat] /\ SumFunctionOnSet(x.attr[i], G.events) = x.eff[i]
    BY <1>3, StateIs
  <2>2. DOMAIN x.attr[i] = G.events
    BY <2>1
  <2> QED BY <2>1, <2>2 DEF SumFunction
<1> QED BY <1>4

\* The graph of the paying reader.
LEMMA SliceIs ==
    ASSUME ExposureInv, NEW n
    PROVE  /\ IsGraph(Slice(n)) /\ Slice(n).events = MostImportant(Backed, n)
           /\ Slice(n) = LoadFrom(links, MostImportant(Backed, n))
           /\ \A fl \in Slice(n).flows : \E r \in links : fl \in Oriented(r)
<1>1. links \subseteq Menu /\ MostImportant(Backed, n) \subseteq Nodes
  BY BackedIs DEF ExposureInv
<1> QED BY <1>1, LoadIs DEF Slice, LoadGraph

LEMMA AttributionLemma == ASSUME ExposureInv PROVE AttributionAddsUp
<1> DEFINE G == Slice(PaidLimit)  base == Shocks(G, Backing(G.events))
<1>1. IsGraph(G)
  BY SliceIs
<1>2. base \in [G.events -> Nat]
  <2> HIDE DEF G
  <2> QED BY <1>1, ShocksAre
<1>3. \A i \in G.events : SumFunction(DiffuseFrom(G, base).attr[i]) = DiffuseFrom(G, base).eff[i]
  <2> HIDE DEF G, base
  <2> QED BY <1>1, <1>2, DiffuseExplained
<1>4. Diffuse(G, Backing(G.events)) = DiffuseFrom(G, base)
  BY DEF Diffuse
<1> QED BY <1>3, <1>4, Zenon DEF AttributionAddsUp

\* A limit that is not reached keeps every link.
LEMMA StrongestIsAll ==
    ASSUME NEW S, S \subseteq Menu, Cardinality(S) <= EdgeLimit
    PROVE  Strongest(S, EdgeLimit) = S
<1>1. IsFiniteSet(S) /\ Cardinality(S) \in Nat /\ EdgeLimit \in Nat
  BY FS_Subset, FS_CardinalityType, ExposureAssumption
<1>2. ASSUME NEW r \in S
      PROVE  Cardinality({q \in S : \/ q.step < r.step
                                    \/ q.step = r.step /\ q.a + q.b * q.b < r.a + r.b * r.b}) < EdgeLimit
  <2> DEFINE T == {q \in S : \/ q.step < r.step
                             \/ q.step = r.step /\ q.a + q.b * q.b < r.a + r.b * r.b}
  <2>1. r.step \in Int /\ r.a + r.b * r.b \in Int
    <3>1. r.a \in Nat /\ r.b \in Nat /\ r.step \in Nat
      BY RowsOfMenu, StepsAre, ExposureAssumption
    <3>2. r.b * r.b \in Nat
      BY <3>1, GainTimes
    <3> QED BY <3>1, <3>2
  <2>2. r \notin T
    <3>1. \A z \in Int : ~ (z < z)
      OBVIOUS
    <3> QED BY <2>1, <3>1, Zenon
  <2>3. T \subseteq S \ {r}
    BY <2>2
  <2>4. Cardinality(S \ {r}) = Cardinality(S) - 1 /\ IsFiniteSet(S \ {r})
    BY <1>1, FS_RemoveElement
  <2>5. Cardinality(T) <= Cardinality(S \ {r}) /\ Cardinality(T) \in Nat
    <3> HIDE DEF T
    <3> QED BY <2>3, <2>4, FS_Subset, FS_CardinalityType
  <2> HIDE DEF T
  <2>6. Cardinality(T) < EdgeLimit
    BY <1>1, <2>4, <2>5
  <2> QED BY <2>6 DEF T
<1> QED BY <1>2 DEF Strongest

LEMMA LoadGrows ==
    ASSUME NEW R, R \subseteq Menu, Cardinality(R) <= EdgeLimit, NEW Q, Q \subseteq R, NEW S
    PROVE  LoadFrom(Q, S).flows \subseteq LoadFrom(R, S).flows
<1> DEFINE nearR == {q \in R : {q.a, q.b} \subseteq S}  nearQ == {q \in Q : {q.a, q.b} \subseteq S}
<1>1. IsFiniteSet(R) /\ Cardinality(R) \in Nat /\ EdgeLimit \in Nat
  BY FS_Subset, FS_CardinalityType, ExposureAssumption
<1>2. nearR \subseteq R /\ nearQ \subseteq R /\ nearQ \subseteq nearR
  OBVIOUS
<1>3. \A T \in SUBSET R : Cardinality(T) <= EdgeLimit /\ T \subseteq Menu
  <2>1. ASSUME NEW T \in SUBSET R PROVE Cardinality(T) <= EdgeLimit
    <3>1. Cardinality(T) <= Cardinality(R) /\ Cardinality(T) \in Nat
      BY <1>1, FS_Subset, FS_CardinalityType
    <3> QED BY <1>1, <3>1
  <2> QED BY <2>1
<1>4. Strongest(nearR, EdgeLimit) = nearR /\ Strongest(nearQ, EdgeLimit) = nearQ
  <2> HIDE DEF nearR, nearQ
  <2> QED BY <1>2, <1>3, StrongestIsAll
<1>5. /\ LoadFrom(Q, S).flows = UNION {Oriented(r) : r \in nearQ}
      /\ LoadFrom(R, S).flows = UNION {Oriented(r) : r \in nearR}
  BY <1>4 DEF LoadFrom
<1> HIDE DEF nearR, nearQ
<1> QED BY <1>2, <1>5

\* Where fewer links stop the diffusion, it is no later than where more do.
LEMMA FewerStopEarlier ==
    ASSUME NEW G, IsGraph(G), NEW H, IsGraph(H), H.events = G.events, H.flows \subseteq G.flows,
           NEW base \in [G.events -> Nat], NEW i \in G.events
    PROVE  DiffuseFrom(H, base).eff[i] * DiffuseFrom(G, base).unit
              <= DiffuseFrom(G, base).eff[i] * DiffuseFrom(H, base).unit
<1> DEFINE x == DiffuseFrom(G, base)  y == DiffuseFrom(H, base)  N == MaxIters
<1>0. N \in Nat /\ N <= N /\ Tolerance \in Nat /\ base \in [H.events -> Nat]
  BY ExposureAssumption
<1>1. PICK E, W, D : Katz(G, base, N, E, W, D)
  <2> HIDE DEF N
  <2> QED BY <1>0, KatzExists
<1>2. PICK F, V, B : Katz(H, base, N, F, V, B)
  <2> HIDE DEF N
  <2> QED BY <1>0, KatzExists
<1>3. PICK p \in 0 .. N : Stopped(G, E, W, p, x) /\ (x.settled \/ p = N)
  BY <1>0, <1>1, DiffuseIs
<1>4. PICK q \in 0 .. N : Stopped(H, F, V, q, y) /\ (y.settled \/ q = N)
  BY <1>0, <1>2, DiffuseIs
<1> HIDE DEF x, y, N
<1>5. \A k \in 0 .. N : V[k] = W[k] /\ \A j \in G.events : B[k][j] <= D[k][j] /\ F[k][j] <= E[k][j]
  <2>1. NeverMore(G, N, E, W, D, F, V, B)
    BY <1>0, <1>1, <1>2, KatzFewer
  <2> QED BY <2>1 DEF NeverMore
<1>6. \A k \in 1 .. N : Calm(G, E, W, k) => Calm(H, F, V, k)
  <2>1. ASSUME NEW k \in 1 .. N, Calm(G, E, W, k) PROVE Calm(H, F, V, k)
    <3>0. k \in 0 .. N
      BY <1>0
    <3>1. /\ \A j \in G.events : Tolerance * D[k][j] < W[k]
          /\ Calm(H, F, V, k) <=> \A j \in H.events : Tolerance * B[k][j] < V[k]
      BY <1>0, <1>1, <1>2, <2>1, CalmIs
    <3>2. ASSUME NEW j \in G.events PROVE Tolerance * B[k][j] < V[k]
      <4>1. B[k][j] \in Nat /\ D[k][j] \in Nat /\ W[k] \in Nat /\ B[k][j] <= D[k][j] /\ V[k] = W[k]
        <5>1. B[k][j] \in Nat /\ D[k][j] \in Nat /\ W[k] \in Nat
          BY <1>0, <1>1, <1>2, <3>0, KatzTypes
        <5> QED BY <1>5, <3>0, <5>1
      <4>2. Tolerance * D[k][j] < W[k]
        BY <3>1
      <4>3. \A t \in Nat, b \in Nat, d \in Nat, w \in Nat : b <= d /\ t * d < w => t * b < w
        <5>1. ASSUME NEW t \in Nat, NEW b \in Nat, NEW d \in Nat, NEW w \in Nat, b <= d, t * d < w
              PROVE  t * b < w
          <6>1. t * b <= t * d /\ t * b \in Nat /\ t * d \in Nat
            BY <5>1
          <6> QED BY <5>1, <6>1
        <5> QED BY <5>1
      <4> QED BY <1>0, <4>1, <4>2, <4>3
    <3> QED BY <3>1, <3>2
  <2> QED BY <2>1
<1>7. q <= p
  <2> SUFFICES ASSUME p < q PROVE FALSE
    BY <1>0
  <2>1. x.settled
    BY <1>0, <1>3
  <2>2. p > 0 /\ Calm(G, E, W, p)
    BY <1>3, <2>1 DEF Stopped
  <2>3. p \in 1 .. N /\ p \in 1 .. q
    BY <1>0, <2>2
  <2>4. Calm(H, F, V, p)
    BY <1>6, <2>2, <2>3
  <2>5. p = q
    BY <1>4, <2>3, <2>4 DEF Stopped
  <2> QED BY <2>5
<1>8. /\ x.eff = E[p] /\ x.unit = W[p] /\ y.eff = F[q] /\ y.unit = V[q]
  BY <1>3, <1>4 DEF Stopped
<1>9. /\ E[p][i] \in Nat /\ W[p] \in Nat /\ E[q][i] \in Nat /\ W[q] \in Nat /\ F[q][i] \in Nat
  BY <1>0, <1>1, <1>2, KatzTypes
<1>10. E[q][i] * W[p] <= E[p][i] * W[q]
  <2>1. p \in q .. N
    BY <1>0, <1>7
  <2> QED BY <1>0, <1>1, <2>1, KatzGrows
<1>11. F[q][i] <= E[q][i] /\ V[q] = W[q]
  BY <1>5
<1> DEFINE e == E[p][i]  f == F[q][i]  g == E[q][i]  u == W[p]  w == W[q]
<1>12. f * u <= e * w
  <2>1. e \in Nat /\ f \in Nat /\ g \in Nat /\ u \in Nat /\ w \in Nat /\ g * u <= e * w /\ f <= g
    BY <1>9, <1>10, <1>11
  <2> HIDE DEF e, f, g, u, w
  <2>2. f * u <= g * u /\ f * u \in Nat /\ g * u \in Nat /\ e * w \in Nat
    BY <2>1
  <2> QED BY <2>1, <2>2
<1>13. y.eff[i] * x.unit <= x.eff[i] * y.unit
  BY <1>8, <1>11, <1>12
<1> QED BY <1>13 DEF x, y

LEMMA LinksLemma == ASSUME ExposureInv PROVE LinksOnlyAddEffect
<1> DEFINE G == Slice(PaidLimit)  c == Uncorroborated(G.events)  x == Diffuse(G, c)
<1>1. IsGraph(G) /\ G = LoadFrom(links, G.events) /\ G.events \subseteq Nodes
  <2>1. IsGraph(G) /\ G = LoadFrom(links, G.events)
    BY SliceIs
  <2> HIDE DEF G
  <2> QED BY <2>1 DEF IsGraph
<1> HIDE DEF G
<1>2. ASSUME Cardinality(links) <= EdgeLimit, NEW r \in links,
             NEW y, y = Diffuse(LoadFrom(links \ {r}, G.events), c), NEW i \in G.events
      PROVE  x.eff[i] * y.unit >= y.eff[i] * x.unit
  <2> DEFINE H == LoadFrom(links \ {r}, G.events)  base == Shocks(G, c)
  <2>1. links \ {r} \subseteq links /\ links \subseteq Menu /\ links \ {r} \subseteq Menu
    BY DEF ExposureInv
  <2>2. IsGraph(H) /\ H.events = G.events
    BY <1>1, <2>1, LoadIs
  <2>3. H.flows \subseteq G.flows
    <3>1. H.flows \subseteq LoadFrom(links, G.events).flows
      BY <1>2, <2>1, LoadGrows
    <3> QED BY <1>1, <3>1
  <2>4. base \in [G.events -> Nat]
    <3>1. c \in {Backing(G.events), c}
      OBVIOUS
    <3> QED BY <1>1, <3>1, ShocksAre
  <2>5. x = DiffuseFrom(G, base) /\ y = DiffuseFrom(H, base)
    <3>1. Shocks(H, c) = base
      <4> HIDE DEF H
      <4> QED BY <2>2 DEF Shocks
    <3>2. Diffuse(H, c) = DiffuseFrom(H, Shocks(H, c)) /\ Diffuse(G, c) = DiffuseFrom(G, base)
      BY DEF Diffuse
    <3> HIDE DEF H, base
    <3> QED BY <1>2, <3>1, <3>2 DEF H
  <2> HIDE DEF H, base
  <2>6. DiffuseFrom(H, base).eff[i] * DiffuseFrom(G, base).unit
           <= DiffuseFrom(G, base).eff[i] * DiffuseFrom(H, base).unit
    BY <1>1, <2>2, <2>3, <2>4, FewerStopEarlier
  <2>7. y.eff[i] * x.unit <= x.eff[i] * y.unit
    <3> HIDE DEF x
    <3> QED BY <2>5, <2>6
  <2>8. y.eff[i] * x.unit \in Int /\ x.eff[i] * y.unit \in Int
    <3>1. x.eff \in [G.events -> Nat] /\ x.unit \in Nat
      BY <1>1, <2>4, <2>5, DiffuseTypes
    <3>2. y.eff \in [G.events -> Nat] /\ y.unit \in Nat
      BY <2>2, <2>4, <2>5, DiffuseTypes
    <3> HIDE DEF x
    <3>3. x.eff[i] \in Nat /\ y.eff[i] \in Nat
      BY <3>1, <3>2
    <3>4. \A a \in Nat, b \in Nat : a * b \in Int
      OBVIOUS
    <3> QED BY <3>1, <3>2, <3>3, <3>4
  <2> HIDE DEF x
  <2> QED BY <2>7, <2>8
<1> QED BY <1>2, Zenon DEF LinksOnlyAddEffect, G, c, x

\* The sum over all paths is the diffusion that is never stopped.
LEMMA PathSumsIs ==
    ASSUME NEW G, NEW base, NEW n \in Nat, NEW N \in 0 .. n, NEW E, NEW W, NEW D, Katz(G, base, n, E, W, D)
    PROVE  PathSums(G, base, N).eff = E[N] /\ PathSums(G, base, N).unit = W[N]
<1> DEFINE v == [eff |-> base, unit |-> 1]
           Go(x) == [eff |-> NextEffect(G, base, x), unit |-> x.unit * Whole]
           Def(g) == g = [k \in 0 .. N |-> IF k = 0 THEN v ELSE Go(g[k - 1])]
           sum == CHOOSE g : Def(g)
           f == [k \in 0 .. N |-> [eff |-> E[k], unit |-> W[k]]]
<1>0. N \in Nat /\ \A k \in 0 .. N : k \in 0 .. n
  OBVIOUS
<1>1. f[0] = v
  BY <1>0 DEF Katz
<1>2. ASSUME NEW k \in 1 .. N PROVE f[k] = Go(f[k - 1])
  <2> DEFINE j == k - 1
  <2>1. j \in 0 .. n - 1 /\ j + 1 = k /\ j \in 0 .. N /\ k \in 0 .. N
    BY <1>0
  <2>2. f[j] = [eff |-> E[j], unit |-> W[j]] /\ f[k] = [eff |-> E[k], unit |-> W[k]]
    <3> HIDE DEF j
    <3> QED BY <2>1
  <2>3. E[j + 1] = NextEffect(G, base, [eff |-> E[j], unit |-> W[j]])
    <3> HIDE DEF j, f
    <3> QED BY <2>1, KatzNext
  <2>4. W[j + 1] = W[j] * Whole
    <3> HIDE DEF j, f
    <3>1. OneRound(G, E, W, D, j)
      BY <2>1, KatzRound
    <3> QED BY <3>1 DEF OneRound
  <2> HIDE DEF f
  <2>5. f[j].unit = W[j]
    BY <2>2
  <2>6. f[k] = [eff |-> NextEffect(G, base, f[j]), unit |-> f[j].unit * Whole]
    <3> HIDE DEF j
    <3> QED BY <2>1, <2>2, <2>3, <2>4, <2>5
  <2> QED BY <2>6
<1>3. Def(f)
  <2> DEFINE h == [k \in 0 .. N |-> IF k = 0 THEN v ELSE Go(f[k - 1])]
  <2>1. \A k \in 0 .. N : f[k] = h[k]
    <3>1. ASSUME NEW k \in 0 .. N PROVE f[k] = IF k = 0 THEN v ELSE Go(f[k - 1])
      <4>1. k # 0 => k \in 1 .. N
        BY <1>0
      <4> HIDE DEF f, Go, v
      <4> QED BY <1>1, <1>2, <4>1
    <3> HIDE DEF f, Go, v
    <3> QED BY <3>1
  <2>2. f = [k \in 0 .. N |-> f[k]]
    OBVIOUS
  <2>3. h = [k \in 0 .. N |-> h[k]]
    <3> HIDE DEF f, Go, v
    <3> QED OBVIOUS
  <2>4. f = h
    <3> HIDE DEF f, h
    <3>1. [k \in 0 .. N |-> f[k]] = [k \in 0 .. N |-> h[k]]
      BY <2>1
    <3> QED BY <2>2, <2>3, <3>1
  <2> HIDE DEF f, Go, v
  <2> QED BY <2>4
<1>4. Def(sum)
  <2> HIDE DEF Def, f
  <2> QED BY <1>3
<1>5. PathSums(G, base, N) = sum[N]
  BY DEF PathSums
<1> DEFINE good == {k \in 0 .. N : sum[k] = f[k]}
<1>6. \A k \in 0 .. N : sum[k] = IF k = 0 THEN v ELSE Go(sum[k - 1])
  <2> HIDE DEF sum, Go, v, f
  <2> QED BY <1>4, Zenon
<1>7. 0 \in good
  <2>1. 0 \in 0 .. N
    BY <1>0
  <2> HIDE DEF sum, Go, v, f
  <2> QED BY <1>1, <1>6, <2>1
<1>8. ASSUME NEW k \in 0 .. N - 1, k \in good PROVE k + 1 \in good
  <2> DEFINE l == k + 1
  <2>1. l \in 1 .. N /\ l \in 0 .. N /\ l # 0 /\ l - 1 = k
    BY <1>0
  <2> HIDE DEF sum, Go, v, f, l
  <2>2. sum[l] = Go(sum[l - 1]) /\ f[l] = Go(f[l - 1])
    BY <1>2, <1>6, <2>1
  <2>3. sum[k] = f[k]
    BY <1>8
  <2>4. sum[l] = f[l]
    BY <2>1, <2>2, <2>3
  <2> QED BY <2>1, <2>4 DEF l
<1>9. sum[N] = f[N]
  <2>1. \A k \in 0 .. N : k \in good
    <3> HIDE DEF good
    <3> QED BY <1>0, <1>7, <1>8, Counting
  <2>2. N \in 0 .. N
    BY <1>0
  <2> HIDE DEF sum, f
  <2> QED BY <2>1, <2>2
<1>10. f[N] = [eff |-> E[N], unit |-> W[N]]
  BY <1>0
<1> HIDE DEF sum, f
<1> QED BY <1>5, <1>9, <1>10

\* The events before an event, when links lead upwards: what rounds still add to it
\* comes from ever fewer of them.
Before(G, i) == {e \in G.events : e < i}
Upwards(G) == \A fl \in G.flows : fl.from < fl.to

LEMMA UpwardsDies ==
    ASSUME NEW G, IsGraph(G), Upwards(G),
           NEW base, NEW n \in Nat, NEW E, NEW W, NEW D, Katz(G, base, n, E, W, D)
    PROVE  \A k \in 0 .. n : \A i \in G.events : Cardinality(Before(G, i)) < k => D[k][i] = 0
<1> DEFINE good == {k \in 0 .. n : \A i \in G.events : Cardinality(Before(G, i)) < k => D[k][i] = 0}
<1>0. /\ \A i \in G.events : i \in Nat
      /\ \A i \in G.events : IsFiniteSet(Before(G, i)) /\ Cardinality(Before(G, i)) \in Nat
  <2>1. \A i \in G.events : i \in Nat
    BY ExposureAssumption DEF IsGraph
  <2>2. ASSUME NEW i \in G.events PROVE IsFiniteSet(Before(G, i))
    BY FS_Subset DEF Before, IsGraph
  <2> QED BY <2>1, <2>2, FS_CardinalityType
<1>1. 0 \in good
  BY <1>0
<1>2. ASSUME NEW k \in 0 .. n - 1, k \in good PROVE k + 1 \in good
  <2>1. D[k + 1] = Passed(G, D[k])
    <3>1. OneRound(G, E, W, D, k)
      BY KatzRound
    <3> QED BY <3>1 DEF OneRound
  <2>2. D[k] \in [G.events -> Nat] /\ k \in 0 .. n /\ k + 1 \in 0 .. n
    <3>1. k \in 0 .. n /\ k + 1 \in 0 .. n
      OBVIOUS
    <3> QED BY <3>1, KatzTypes
  <2>3. ASSUME NEW i \in G.events, Cardinality(Before(G, i)) < k + 1 PROVE D[k + 1][i] = 0
    <3>1. ASSUME NEW fl \in Into(G, i) PROVE D[k][fl.from] = 0
      <4> DEFINE j == fl.from
      <4>1. j \in G.events /\ j < i /\ j \in Nat /\ i \in Nat
        BY <1>0, IntoIs DEF Upwards
      <4> HIDE DEF j
      <4>2. Before(G, j) \subseteq Before(G, i) \ {j} /\ j \in Before(G, i)
        BY <1>0, <4>1 DEF Before
      <4>3. /\ Cardinality(Before(G, i) \ {j}) = Cardinality(Before(G, i)) - 1
            /\ IsFiniteSet(Before(G, i) \ {j})
        BY <1>0, <4>2, FS_RemoveElement
      <4>4. Cardinality(Before(G, j)) <= Cardinality(Before(G, i) \ {j})
        BY <4>2, <4>3, FS_Subset
      <4>5. Cardinality(Before(G, j)) < k
        BY <1>0, <2>3, <4>1, <4>3, <4>4
      <4>6. D[k][j] = 0
        BY <1>2, <4>1, <4>5
      <4> QED BY <4>6 DEF j
    <3> QED BY <2>1, <2>2, <3>1, PassedNothing
  <2> QED BY <2>2, <2>3
<1>3. \A k \in 0 .. n : k \in good
  <2> HIDE DEF good
  <2> QED BY <1>1, <1>2, Counting
<1> QED BY <1>3

\* What rounds still add when links lead upwards.
LEMMA UpwardsQuiet ==
    ASSUME NEW G, IsGraph(G), Upwards(G),
           NEW base, NEW n \in Nat, NEW E, NEW W, NEW D, Katz(G, base, n, E, W, D),
           NEW m \in 0 .. n, Cardinality(G.events) <= m
    PROVE  Quiet(G, D, m)
<1> SUFFICES ASSUME NEW i \in G.events PROVE D[m][i] = 0
  BY DEF Quiet
<1>1. IsFiniteSet(G.events) /\ i \in Nat
  BY ExposureAssumption DEF IsGraph
<1>2. Before(G, i) \subseteq G.events \ {i}
  BY <1>1 DEF Before
<1>3. Cardinality(G.events \ {i}) = Cardinality(G.events) - 1 /\ IsFiniteSet(G.events \ {i})
  BY <1>1, FS_RemoveElement
<1>4. Cardinality(Before(G, i)) <= Cardinality(G.events) - 1 /\ IsFiniteSet(Before(G, i))
  BY <1>2, <1>3, FS_Subset
<1>5. Cardinality(Before(G, i)) \in Nat /\ Cardinality(G.events) \in Nat
  BY <1>1, <1>4, FS_CardinalityType
<1>6. Cardinality(Before(G, i)) < m
  BY <1>4, <1>5
<1>7. \A k \in 0 .. n : \A j \in G.events : Cardinality(Before(G, j)) < k => D[k][j] = 0
  BY UpwardsDies
<1> QED BY <1>6, <1>7

LEMMA UpwardDiffusion ==
    ASSUME NEW G, IsGraph(G), Upwards(G), NEW base \in [G.events -> Nat],
           NEW N, N = Cardinality(G.events), NEW x, x = DiffuseFrom(G, base),
           NEW paths, paths = PathSums(G, base, N)
    PROVE  /\ MaxIters > N => x.settled
           /\ \A i \in G.events : x.eff[i] * paths.unit <= paths.eff[i] * x.unit
           /\ (\A i \in G.events : NextEffect(G, base, x)[i] = x.eff[i] * Whole) =>
                \A i \in G.events : x.eff[i] * paths.unit = paths.eff[i] * x.unit
<1> DEFINE n == MaxIters + N + 1
<1>0. N \in Nat /\ MaxIters \in Nat /\ n \in Nat /\ MaxIters <= n /\ N \in 0 .. n /\ Whole \in Nat
      /\ Tolerance \in Nat /\ \A q \in 0 .. MaxIters : q \in 0 .. n /\ q + 1 \in 0 .. n
  <2>1. N \in Nat /\ MaxIters \in Nat /\ Whole \in Nat /\ Tolerance \in Nat
    BY ExposureAssumption, FS_CardinalityType DEF IsGraph
  <2> QED BY <2>1
<1> HIDE DEF n
<1>r. n \in Nat
  BY <1>0
<1>1. PICK E, W, D : Katz(G, base, n, E, W, D)
  BY <1>0, KatzExists
<1>2. PICK p \in 0 .. MaxIters : Stopped(G, E, W, p, x) /\ (x.settled \/ p = MaxIters)
  BY <1>0, <1>1, DiffuseIs
<1>3. x.eff = E[p] /\ x.unit = W[p] /\ paths.eff = E[N] /\ paths.unit = W[N]
  <2>1. paths.eff = E[N] /\ paths.unit = W[N]
    BY <1>0, <1>1, PathSumsIs
  <2> QED BY <1>2, <2>1 DEF Stopped
<1>4. ASSUME NEW m \in 0 .. n, N <= m PROVE \A i \in G.events : D[m][i] = 0
  <2>1. Quiet(G, D, m)
    BY <1>0, <1>1, <1>4, UpwardsQuiet
  <2> QED BY <2>1 DEF Quiet
<1>5. ASSUME NEW k \in 0 .. n, NEW i \in G.events PROVE E[k][i] \in Nat /\ W[k] \in Nat \ {0}
  BY <1>0, <1>1, KatzTypes
<1>6. ASSUME MaxIters > N PROVE x.settled
  <2> SUFFICES ASSUME ~ x.settled PROVE FALSE
    OBVIOUS
  <2>1. p = MaxIters /\ p \in 1 .. n /\ p \in 1 .. p /\ p \in 0 .. n /\ N <= p
    BY <1>0, <1>2, <1>6
  <2>2. \A i \in G.events : Tolerance * D[p][i] < W[p]
    <3>1. W[p] \in Nat \ {0}
      BY <1>0, <1>1, <2>1, KatzTypes
    <3>2. \A i \in G.events : D[p][i] = 0
      BY <1>4, <2>1
    <3> QED BY <1>0, <3>1, <3>2
  <2>3. Calm(G, E, W, p)
    BY <1>0, <1>1, <2>1, <2>2, CalmIs
  <2> QED BY <1>2, <2>1, <2>3 DEF Stopped
<1>7. CASE N < p
  <2>1. ASSUME NEW i \in G.events PROVE E[N][i] * W[p] = E[p][i] * W[N]
    <3>1. p \in N .. n /\ N \in 0 .. n /\ p \in 0 .. n
      BY <1>0, <1>7
    <3>2. \A j \in N + 1 .. p : D[j][i] = 0
      <4>1. \A j \in N + 1 .. p : j \in 0 .. n /\ N <= j
        BY <1>0, <3>1
      <4> QED BY <1>4, <4>1
    <3>3. \A m \in N .. n : (\A j \in N + 1 .. m : D[j][i] = 0) => E[N][i] * W[m] = E[m][i] * W[N]
      BY <1>r, <1>1, <3>1, KatzGrows
    <3> QED BY <3>1, <3>2, <3>3
  <2>2. \A i \in G.events : x.eff[i] * paths.unit = paths.eff[i] * x.unit
    BY <1>3, <2>1
  <2>3. \A i \in G.events : x.eff[i] * paths.unit <= paths.eff[i] * x.unit
    <3>1. ASSUME NEW i \in G.events PROVE x.eff[i] * paths.unit <= paths.eff[i] * x.unit
      <4>1. E[p][i] \in Nat /\ W[N] \in Nat
        BY <1>0, <1>5
      <4>2. E[p][i] * W[N] \in Nat
        BY <4>1
      <4>3. x.eff[i] * paths.unit = paths.eff[i] * x.unit
        BY <2>2
      <4> QED BY <1>3, <4>2, <4>3
    <3> QED BY <3>1
  <2> QED BY <1>6, <2>2, <2>3
<1>8. CASE p <= N
  <2>0. p \in 0 .. n /\ N \in p .. n /\ p + 1 \in 0 .. n /\ p \in 0 .. n - 1
    BY <1>0, <1>8
  <2>1. \A i \in G.events : x.eff[i] * paths.unit <= paths.eff[i] * x.unit
    <3>1. ASSUME NEW i \in G.events PROVE E[p][i] * W[N] <= E[N][i] * W[p]
      BY <1>r, <1>1, <2>0, KatzGrows
    <3> QED BY <1>3, <3>1
  <2>2. ASSUME \A i \in G.events : NextEffect(G, base, x)[i] = x.eff[i] * Whole
        PROVE  \A i \in G.events : x.eff[i] * paths.unit = paths.eff[i] * x.unit
    <3> DEFINE y == [eff |-> E[p], unit |-> W[p]]
    <3>1. NextEffect(G, base, x) = NextEffect(G, base, y)
      <4>1. x.eff = y.eff /\ x.unit = y.unit
        BY <1>3
      <4> HIDE DEF y
      <4> QED BY <4>1, NextEffectSame
    <3>2. E[p + 1] = NextEffect(G, base, y)
      BY <1>r, <1>1, <2>0, KatzNext
    <3> HIDE DEF y
    <3>3. OneRound(G, E, W, D, p)
      BY <1>r, <1>1, <2>0, KatzRound
    <3>4. ASSUME NEW i \in G.events PROVE D[p + 1][i] = 0
      <4>1. E[p + 1][i] = E[p][i] * Whole
        BY <1>3, <2>2, <3>1, <3>2
      <4>2. E[p + 1][i] = Whole * E[p][i] + D[p + 1][i]
        BY <3>3 DEF OneRound
      <4>3. E[p][i] \in Nat /\ D[p + 1][i] \in Nat
        BY <1>0, <1>1, <2>0, KatzTypes
      <4>4. \A e \in Nat, w \in Nat, d \in Nat : e * w = w * e + d => d = 0
        OBVIOUS
      <4> QED BY <1>0, <4>1, <4>2, <4>3, <4>4
    <3>5. \A m \in p + 1 .. n : \A i \in G.events : D[m][i] = 0
      <4> DEFINE l == p + 1
      <4>1. l \in 0 .. n /\ \A i \in G.events : D[l][i] = 0
        BY <2>0, <3>4
      <4> HIDE DEF l
      <4>2. Quiet(G, D, l)
        BY <4>1 DEF Quiet
      <4>3. \A m \in l .. n : Quiet(G, D, m)
        BY <1>r, <1>1, <4>1, <4>2, KatzQuiet
      <4> QED BY <4>3 DEF l, Quiet
    <3>6. ASSUME NEW i \in G.events PROVE E[p][i] * W[N] = E[N][i] * W[p]
      <4>1. \A j \in p + 1 .. N : j \in p + 1 .. n
        BY <1>0, <2>0
      <4>2. \A j \in p + 1 .. N : D[j][i] = 0
        BY <3>5, <4>1
      <4>3. \A m \in p .. n : (\A j \in p + 1 .. m : D[j][i] = 0) => E[p][i] * W[m] = E[m][i] * W[p]
        <5>1. p \in 0 .. n
          BY <2>0
        <5>2. \A m \in p .. n : /\ E[p][i] * W[m] <= E[m][i] * W[p]
                                /\ (\A j \in p + 1 .. m : D[j][i] = 0) => E[p][i] * W[m] = E[m][i] * W[p]
          BY <1>r, <1>1, <5>1, KatzGrows
        <5> QED BY <5>2
      <4> QED BY <2>0, <4>2, <4>3
    <3> QED BY <1>3, <3>6
  <2> QED BY <1>6, <2>1, <2>2
<1>9. N < p \/ p <= N
  BY <1>0
<1> QED BY <1>7, <1>8, <1>9

LEMMA DiffusionLemma == ASSUME ExposureInv PROVE DiffusionIsThePathSum
<1> DEFINE G == Slice(PaidLimit)  base == Shocks(G, Backing(G.events))
           x == DiffuseFrom(G, base)  paths == PathSums(G, base, Cardinality(G.events))
<1>1. /\ IsGraph(G)
      /\ \A fl \in G.flows : \E r \in links : fl \in Oriented(r)
  BY SliceIs
<1> HIDE DEF G
<1>2. base \in [G.events -> Nat]
  <2>1. Backing(G.events) \in {Backing(G.events), Uncorroborated(G.events)}
    OBVIOUS
  <2> QED BY <1>1, <2>1, ShocksAre
<1> HIDE DEF base
<1>3. ASSUME \A r \in links : r.direction = "a_to_b" /\ r.a < r.b
      PROVE  \A fl \in G.flows : fl.from < fl.to
  <2>1. ASSUME NEW fl \in G.flows PROVE fl.from < fl.to
    <3>1. PICK r \in links : fl \in Oriented(r)
      BY <1>1
    <3>2. r.direction = "a_to_b" /\ r.a < r.b
      BY <1>3
    <3>3. fl.from = r.a /\ fl.to = r.b
      BY <3>1, <3>2, OrientedIs
    <3> QED BY <3>2, <3>3
  <2> QED BY <2>1
<1>4. (\A r \in links : r.direction = "a_to_b" /\ r.a < r.b) =>
            /\ MaxIters > Cardinality(G.events) => x.settled
            /\ \A i \in G.events : x.eff[i] * paths.unit <= paths.eff[i] * x.unit
            /\ (\A i \in G.events : NextEffect(G, base, x)[i] = x.eff[i] * Whole) =>
                 \A i \in G.events : x.eff[i] * paths.unit = paths.eff[i] * x.unit
  <2> DEFINE N == Cardinality(G.events)
  <2> SUFFICES ASSUME \A r \in links : r.direction = "a_to_b" /\ r.a < r.b
               PROVE  /\ MaxIters > N => x.settled
                      /\ \A i \in G.events : x.eff[i] * paths.unit <= paths.eff[i] * x.unit
                      /\ (\A i \in G.events : NextEffect(G, base, x)[i] = x.eff[i] * Whole) =>
                           \A i \in G.events : x.eff[i] * paths.unit = paths.eff[i] * x.unit
    OBVIOUS
  <2>1. Upwards(G)
    BY <1>3 DEF Upwards
  <2>2. N = Cardinality(G.events) /\ x = DiffuseFrom(G, base) /\ paths = PathSums(G, base, N)
    OBVIOUS
  <2> HIDE DEF x, paths, N
  <2> QED BY <1>1, <1>2, <2>1, <2>2, UpwardDiffusion
<1> HIDE DEF x, paths
<1> QED BY <1>4 DEF DiffusionIsThePathSum, G, base, x, paths
-----------------------------------------------------------------------------
(* Scores.                                                                 *)

LEMMA DivAtLeast ==
    ASSUME NEW a \in Int, NEW b \in Int, b > 0, NEW q \in Int, q * b <= a
    PROVE  a \div b \in Int /\ q <= a \div b
<1>1. a \div b \in Int /\ a < (a \div b) * b + b
  OBVIOUS
<1>2. q < a \div b + 1
  <2> SUFFICES ASSUME a \div b + 1 <= q PROVE FALSE
    BY <1>1
  <2>1. (a \div b + 1) * b <= q * b
    BY <1>1, CancelOrder
  <2>2. (a \div b + 1) * b = (a \div b) * b + b
    BY <1>1
  <2> QED BY <1>1, <2>1, <2>2
<1> QED BY <1>1, <1>2

LEMMA DivAtMost ==
    ASSUME NEW a \in Int, NEW b \in Int, b > 0, NEW q \in Int, a <= q * b
    PROVE  a \div b \in Int /\ a \div b <= q
<1>1. a \div b \in Int /\ (a \div b) * b <= a /\ (a \div b) * b \in Int /\ q * b \in Int
  OBVIOUS
<1>2. (a \div b) * b <= q * b
  BY <1>1
<1> QED BY <1>1, <1>2, CancelOrder

LEMMA SaturateIs == ASSUME NEW net \in Int, NEW unit \in Nat \ {0} PROVE Saturate(net, unit) \in 0 .. 100
<1>1. CASE net <= 0
  BY <1>1 DEF Saturate
<1>2. CASE net > 0
  <2> DEFINE d == net + 20 * unit  a == 100 * net
  <2>1. a \in Int /\ d \in Int /\ d > 0 /\ 0 * d <= a /\ a <= 100 * d
    BY <1>2
  <2>2. Saturate(net, unit) = a \div d
    BY <1>2 DEF Saturate
  <2> HIDE DEF a, d
  <2>3. a \div d \in Int /\ 0 <= a \div d
    BY <2>1, DivAtLeast
  <2>4. a \div d <= 100
    BY <2>1, DivAtMost
  <2> QED BY <2>2, <2>3, <2>4
<1> QED BY <1>1, <1>2

LEMMA StressedIs == ASSUME NEW s \in 0 .. 100, NEW h \in 0 .. 2 PROVE Stressed(s, h) \in 0 .. 100
<1> DEFINE r == 100 - s  a == r * h
<1>1. r \in 0 .. 100 /\ r \in Int /\ 0 * 4 <= a /\ a \in Int /\ a <= r * 4
  <2>1. h = 0 \/ h = 1 \/ h = 2
    OBVIOUS
  <2> QED BY <2>1
<1>2. Stressed(s, h) = s + a \div 4
  BY DEF Stressed
<1> HIDE DEF a, r
<1>3. a \div 4 \in Int /\ 0 <= a \div 4
  BY <1>1, DivAtLeast
<1>4. a \div 4 <= r
  BY <1>1, DivAtMost
<1> QED BY <1>1, <1>2, <1>3, <1>4 DEF r

\* What an event contributes is a number.
LEMMA ContributionsAre ==
    ASSUME NEW G, IsGraph(G), NEW x \in States(G), NEW target
    PROVE  /\ DOMAIN Parts(G, x, target) = G.events
           /\ \A src \in G.events : Parts(G, x, target)[src] \in Int
<1> DEFINE T(e) == {j \in Emits[e] : j[1] = target}
           f(e, src) == [i \in T(e) |-> i[3] * i[2] * x.attr[e][src]]
           g(src) == [e \in G.events |-> SumFunction(f(e, src))]
<1>1. /\ IsFiniteSet(G.events) /\ G.events \subseteq Nodes
      /\ \A e \in G.events, src \in G.events : x.attr[e][src] \in Nat
  <2>1. x.attr \in [G.events -> [G.events -> Nat]]
    BY StateIs
  <2> QED BY <2>1 DEF IsGraph
<1>2. ASSUME NEW e \in G.events PROVE IsFiniteSet(T(e))
  <2>1. IsFiniteSet(Emits[e]) /\ T(e) \subseteq Emits[e]
    BY <1>1, ExposureAssumption
  <2> QED BY <2>1, FS_Subset
<1>3. ASSUME NEW e \in G.events, NEW src \in G.events PROVE SumFunction(f(e, src)) \in Int
  <2>1. DOMAIN f(e, src) = T(e)
    OBVIOUS
  <2>2. ASSUME NEW i \in T(e) PROVE f(e, src)[i] \in Int
    <3>1. i[2] \in Int /\ i[3] \in Int
      <4>1. e \in Nodes /\ i \in Emits[e]
        BY <1>1
      <4>2. \A j \in Emits[e] : j[2] \in Nat /\ j[3] \in {-1, 1}
        BY <4>1, ExposureAssumption
      <4>3. i[2] \in Nat /\ i[3] \in {-1, 1}
        BY <4>1, <4>2
      <4> QED BY <4>3
    <3>2. x.attr[e][src] \in Int
      BY <1>1
    <3>3. \A a \in Int, b \in Int, c \in Int : a * b * c \in Int
      OBVIOUS
    <3>4. f(e, src)[i] = i[3] * i[2] * x.attr[e][src]
      OBVIOUS
    <3> QED BY <3>1, <3>2, <3>3, <3>4
  <2>3. SumFunction(f(e, src)) = SumFunctionOnSet(f(e, src), T(e))
    BY <2>1 DEF SumFunction
  <2> HIDE DEF T, f
  <2> QED BY <1>2, <2>2, <2>3, SumType
<1>4. ASSUME NEW src \in G.events PROVE SumFunction(g(src)) \in Int
  <2>1. DOMAIN g(src) = G.events /\ \A e \in G.events : g(src)[e] \in Int
    <3> HIDE DEF f
    <3> QED BY <1>3
  <2>2. SumFunction(g(src)) = SumFunctionOnSet(g(src), G.events)
    BY <2>1 DEF SumFunction
  <2> HIDE DEF g
  <2> QED BY <1>1, <2>1, <2>2, SumType
<1>5. Parts(G, x, target) = [src \in G.events |-> SumFunction(g(src))]
  BY DEF Parts
<1> HIDE DEF g
<1> QED BY <1>4, <1>5

\* The numbers on one side of a table of contributions.
LEMMA SidesAre ==
    ASSUME NEW parts, IsFiniteSet(DOMAIN parts), \A s \in DOMAIN parts : parts[s] \in Int
    PROVE  Gained(parts) \in Int /\ Relieved(parts) \in Int
<1> DEFINE S == DOMAIN parts
           f == [s \in S |-> IF parts[s] > 0 THEN parts[s] ELSE 0]
           g == [s \in S |-> IF parts[s] < 0 THEN - parts[s] ELSE 0]
<1>1. DOMAIN f = S /\ DOMAIN g = S /\ \A s \in S : f[s] \in Int /\ g[s] \in Int
  OBVIOUS
<1>2. Gained(parts) = SumFunctionOnSet(f, S) /\ Relieved(parts) = SumFunctionOnSet(g, S)
  BY DEF Gained, Relieved, SumFunction
<1> HIDE DEF f, g
<1> QED BY <1>1, <1>2, SumType

LEMMA SectorIs ==
    ASSUME NEW G, IsGraph(G), NEW x \in States(G), NEW target \in DOMAIN Stress
    PROVE  SectorScore(G, x, target) \in 0 .. 100
<1> DEFINE parts == Parts(G, x, target)  net == Gained(parts) - Relieved(parts)
<1>1. net \in Int
  <2>1. IsFiniteSet(DOMAIN parts) /\ \A s \in DOMAIN parts : parts[s] \in Int
    <3>1. DOMAIN parts = G.events /\ \A src \in G.events : parts[src] \in Int
      BY ContributionsAre
    <3> QED BY <3>1 DEF IsGraph
  <2> HIDE DEF parts
  <2>2. Gained(parts) \in Int /\ Relieved(parts) \in Int
    BY <2>1, SidesAre
  <2> QED BY <2>2
<1>2. x.unit \in Nat \ {0} /\ Stress[target] \in 0 .. 2
  BY StateIs, ExposureAssumption
<1>3. SectorScore(G, x, target) = Stressed(Saturate(net, x.unit), Stress[target])
  BY DEF SectorScore
<1> HIDE DEF net
<1>4. Saturate(net, x.unit) \in 0 .. 100
  BY <1>1, <1>2, SaturateIs
<1> QED BY <1>2, <1>3, <1>4, StressedIs

\* A model of exposure: a score in scale for some targets.
InScale(model) ==
    /\ DOMAIN model.scores \subseteq DOMAIN Stress
    /\ \A t \in DOMAIN model.scores : model.scores[t] \in 0 .. 100

LEMMA ExposureIs ==
    ASSUME NEW G, IsGraph(G), NEW c, c \in {Backing(G.events), Uncorroborated(G.events)}
    PROVE  InScale(ComputeExposure(G, c)) /\ DOMAIN ComputeExposure(G, c).drive = G.events
<1> DEFINE x == Diffuse(G, c)  T == ShownTargets(G)
           score(t) == IF t \in Targets(G) THEN SectorScore(G, x, t) ELSE Stressed(0, Stress[t])
           model == ComputeExposure(G, c)
<1>1. x \in States(G)
  <2>1. Shocks(G, c) \in [G.events -> Nat]
    BY ShocksAre
  <2> QED BY <2>1, DiffuseTypes DEF Diffuse
<1>2. model.scores = [t \in T |-> score(t)] /\ DOMAIN model.drive = G.events
  BY DEF ComputeExposure
<1> HIDE DEF x, model
<1>3. Targets(G) \subseteq DOMAIN Stress /\ T \subseteq DOMAIN Stress
  <2>1. ASSUME NEW t \in Targets(G) PROVE t \in DOMAIN Stress
    <3>1. PICK e \in G.events : \E i \in Emits[e] : t = i[1]
      BY DEF Targets
    <3>2. e \in Nodes
      BY DEF IsGraph
    <3> QED BY <3>1, <3>2, ExposureAssumption
  <2> QED BY <2>1 DEF ShownTargets
<1>4. ASSUME NEW t \in T PROVE score(t) \in 0 .. 100
  <2>1. t \in DOMAIN Stress
    BY <1>3
  <2>2. CASE t \in Targets(G)
    BY <1>1, <2>1, <2>2, SectorIs
  <2>3. CASE t \notin Targets(G)
    <3>1. Stress[t] \in 0 .. 2 /\ 0 \in 0 .. 100
      BY <2>1, ExposureAssumption
    <3> QED BY <2>3, <3>1, StressedIs
  <2> QED BY <2>2, <2>3
<1> HIDE DEF score, T
<1>5. DOMAIN model.scores = T /\ \A t \in T : model.scores[t] = score(t)
  BY <1>2
<1>6. InScale(model)
  BY <1>3, <1>4, <1>5 DEF InScale
<1> QED BY <1>2, <1>6 DEF model

\* 0.65 of the largest and 0.35 of the mean is between the least and the largest.
LEMMA ProfileAlgebra ==
    ASSUME NEW m \in Nat, NEW M \in Nat, m <= M, NEW c \in Nat, c > 0, NEW sum \in Int, m * c <= sum, sum <= M * c
    PROVE  (13 * M * c + 7 * sum) \div (20 * c) \in m .. M
<1> DEFINE a == 13 * M * c + 7 * sum  b == 20 * c  p == m * c  q == M * c
<1>1. p \in Int /\ q \in Int /\ p <= q
  OBVIOUS
<1>2. 13 * M * c = 13 * q /\ m * b = 20 * p /\ M * b = 20 * q
  OBVIOUS
<1>3. a \in Int /\ b \in Int /\ b > 0 /\ m * b <= a /\ a <= M * b
  <2>1. a = 13 * q + 7 * sum /\ b \in Int /\ b > 0
    BY <1>2
  <2>2. p <= sum /\ sum <= q
    OBVIOUS
  <2> HIDE DEF a, b, p, q
  <2> QED BY <1>1, <1>2, <2>1, <2>2
<1> HIDE DEF a, b, p, q
<1>4. a \div b \in Int /\ m <= a \div b
  BY <1>3, DivAtLeast
<1>5. a \div b <= M
  BY <1>3, DivAtMost
<1> QED BY <1>4, <1>5 DEF a, b

Profiled(model, wanted) ==
    LET scores == {model.scores[t] : t \in wanted \cap DOMAIN model.scores}
    IN  ProfileExposure(model, wanted) \in IF scores = {} THEN {0} ELSE Min(scores) .. Max(scores)

LEMMA ProfileIs ==
    ASSUME NEW model, InScale(model), NEW wanted
    PROVE  Profiled(model, wanted)
<1> DEFINE T == wanted \cap DOMAIN model.scores  scores == {model.scores[t] : t \in T}
           f == [t \in T |-> model.scores[t]]  sum == SumFunction(f)  c == Cardinality(T)
<1>1. IsFiniteSet(T) /\ c \in Nat /\ \A t \in T : model.scores[t] \in 0 .. 100
  <2>1. T \subseteq DOMAIN Stress /\ \A t \in T : model.scores[t] \in 0 .. 100
    BY DEF InScale
  <2>2. IsFiniteSet(DOMAIN Stress)
    BY ExposureAssumption
  <2> HIDE DEF T
  <2> QED BY <2>1, <2>2, FS_Subset, FS_CardinalityType
<1>2. ProfileExposure(model, wanted) =
        IF T = {} THEN 0 ELSE (13 * Max(scores) * c + 7 * sum) \div (20 * c)
  BY DEF ProfileExposure
<1>3. scores = {} <=> T = {}
  BY <1>1
<1>4. CASE T = {}
  BY <1>2, <1>3, <1>4 DEF Profiled
<1>5. CASE T # {}
  <2> DEFINE m == Min(scores)  M == Max(scores)
  <2>1. scores \subseteq 0 .. 100 /\ scores \subseteq Nat /\ scores # {} /\ 100 \in Nat
    <3>1. \A t \in T : model.scores[t] \in 0 .. 100
      BY <1>1
    <3> HIDE DEF T
    <3>2. scores \subseteq 0 .. 100
      BY <3>1
    <3>3. 0 .. 100 \subseteq Nat
      OBVIOUS
    <3>4. scores # {}
      BY <1>5
    <3> QED BY <3>2, <3>3, <3>4
  <2>2. m \in scores /\ M \in scores /\ \A s \in scores : m <= s /\ s <= M
    <3> HIDE DEF scores
    <3> QED BY <2>1, MinIs, MaxIs
  <2>3. m \in Nat /\ M \in Nat /\ m <= M /\ \A t \in T : m <= model.scores[t] /\ model.scores[t] <= M
    <3>1. \A t \in T : model.scores[t] \in scores
      OBVIOUS
    <3> HIDE DEF scores, m, M, T
    <3> QED BY <2>1, <2>2, <3>1
  <2>4. c > 0
    <3> HIDE DEF T
    <3> QED BY <1>1, <1>5, FS_EmptySet
  <2> HIDE DEF m, M, scores, c
  <2>5. /\ DOMAIN f = T /\ sum = SumFunctionOnSet(f, T)
        /\ \A t \in T : f[t] = model.scores[t] /\ f[t] \in Int
    BY <1>1 DEF SumFunction
  <2> HIDE DEF f, T, sum
  <2>6. sum \in Int
    BY <1>1, <2>5, SumType
  <2>7. m * c <= sum
    <3> DEFINE g == [t \in T |-> m]
    <3>1. \A t \in T : g[t] = m /\ g[t] \in Int /\ f[t] \in Int /\ g[t] <= f[t] /\ m \in Int
      BY <2>3, <2>5
    <3> HIDE DEF g
    <3>2. SumFunctionOnSet(g, T) <= SumFunctionOnSet(f, T)
      BY <1>1, <3>1, SumAtMost
    <3>3. SumFunctionOnSet(g, T) = m * Cardinality(T)
      BY <1>1, <2>3, <3>1, SumConstant
    <3> QED BY <2>5, <3>2, <3>3 DEF c
  <2>8. sum <= M * c
    <3> DEFINE g == [t \in T |-> M]
    <3>1. \A t \in T : g[t] = M /\ g[t] \in Int /\ f[t] \in Int /\ f[t] <= g[t] /\ M \in Int
      BY <2>3, <2>5
    <3> HIDE DEF g
    <3>2. SumFunctionOnSet(f, T) <= SumFunctionOnSet(g, T)
      BY <1>1, <3>1, SumAtMost
    <3>3. SumFunctionOnSet(g, T) = M * Cardinality(T)
      BY <1>1, <2>3, <3>1, SumConstant
    <3> QED BY <2>5, <3>2, <3>3 DEF c
  <2>9. (13 * M * c + 7 * sum) \div (20 * c) \in m .. M
    BY <1>1, <2>3, <2>4, <2>6, <2>7, <2>8, ProfileAlgebra
  <2>10. ProfileExposure(model, wanted) \in m .. M /\ scores # {}
    BY <1>2, <1>3, <1>5, <2>9 DEF M
  <2> QED BY <2>10 DEF Profiled, m, M, scores, T
<1> QED BY <1>4, <1>5

LEMMA ModelsAre ==
    ASSUME ExposureInv, NEW n
    PROVE  /\ InScale(Exposed(n)) /\ DOMAIN Exposed(n).drive = MostImportant(Backed, n)
           /\ InScale(Snapshot)
<1> DEFINE G == Slice(n)  H == Slice(PaidLimit)
<1>1. IsGraph(G) /\ G.events = MostImportant(Backed, n) /\ IsGraph(H)
  BY SliceIs
<1>2. Exposed(n) = ComputeExposure(G, Backing(G.events)) /\ Snapshot = ComputeExposure(H, Uncorroborated(H.events))
  BY DEF Exposed, Snapshot
<1> HIDE DEF G, H
<1>3. InScale(Exposed(n)) /\ DOMAIN Exposed(n).drive = G.events
  <2> DEFINE c == Backing(G.events)
  <2>1. c \in {Backing(G.events), Uncorroborated(G.events)}
    OBVIOUS
  <2> HIDE DEF c
  <2>2. InScale(ComputeExposure(G, c)) /\ DOMAIN ComputeExposure(G, c).drive = G.events
    BY <1>1, <2>1, ExposureIs
  <2> QED BY <1>2, <2>2 DEF c
<1>4. InScale(Snapshot)
  <2> DEFINE c == Uncorroborated(H.events)
  <2>1. c \in {Backing(H.events), Uncorroborated(H.events)}
    OBVIOUS
  <2> HIDE DEF c
  <2>2. InScale(ComputeExposure(H, c))
    BY <1>1, <2>1, ExposureIs
  <2> QED BY <1>2, <2>2 DEF c
<1> QED BY <1>1, <1>3, <1>4

LEMMA ScaleLemma == ASSUME ExposureInv PROVE ScoresStayInScale
<1>1. ASSUME NEW model \in {GetExposure("free"), GetExposure("paid"), Snapshot} PROVE InScale(model)
  <2>1. InScale(GetExposure("free")) /\ InScale(GetExposure("paid")) /\ InScale(Snapshot)
    BY ModelsAre DEF GetExposure
  <2> QED BY <2>1
<1>2. ASSUME NEW model \in {GetExposure("free"), GetExposure("paid"), Snapshot}
      PROVE  /\ \A t \in DOMAIN model.scores : model.scores[t] \in 0 .. 100
             /\ \A wanted \in SUBSET DOMAIN Stress : Profiled(model, wanted)
  <2>1. InScale(model)
    BY <1>1
  <2> QED BY <2>1, ProfileIs DEF InScale
<1> QED BY <1>2 DEF ScoresStayInScale, Profiled
-----------------------------------------------------------------------------
(* The consequence chain.                                                  *)

Ids(G, root) == G.events \cup {root}
Legal(G, root, go) == {fl \in G.flows : fl.to # root /\ (go => fl.grounded)}

\* At most one link leads from an event to another.
Single(G) == \A fl \in G.flows, gl \in G.flows : fl.from = gl.from /\ fl.to = gl.to => fl = gl

\* What a chain is asked of.
Asked(G, root, d) == IsGraph(G) /\ Single(G) /\ root \in Nodes /\ d \in Nat \ {0}

LEMMA LoadIsSingle ==
    ASSUME ExposureInv, NEW S, S \subseteq Nodes
    PROVE  IsGraph(LoadGraph(S)) /\ Single(LoadGraph(S)) /\ LoadGraph(S).events = S
<1>1. links \subseteq Menu /\ \A r \in links, q \in links : {r.a, r.b} = {q.a, q.b} => r = q
  BY DEF ExposureInv
<1>2. /\ IsGraph(LoadGraph(S)) /\ LoadGraph(S).events = S
      /\ \A fl \in LoadGraph(S).flows : \E r \in links : fl \in Oriented(r)
  BY <1>1, LoadIs DEF LoadGraph
<1>3. ASSUME NEW fl \in LoadGraph(S).flows, NEW gl \in LoadGraph(S).flows,
             fl.from = gl.from, fl.to = gl.to
      PROVE  fl = gl
  <2>1. PICK r \in links : fl \in Oriented(r)
    BY <1>2
  <2>2. PICK q \in links : gl \in Oriented(q)
    BY <1>2
  <2>3. /\ fl = [from |-> fl.from, to |-> fl.to, step |-> r.step, grounded |-> r.grounded]
        /\ {fl.from, fl.to} = {r.a, r.b}
    <3>1. /\ \/ fl.from = r.a /\ fl.to = r.b
             \/ fl.from = r.b /\ fl.to = r.a
          /\ fl = [from |-> fl.from, to |-> fl.to, step |-> r.step, grounded |-> r.grounded]
      BY <2>1, OrientedIs
    <3>2. {fl.from, fl.to} = {r.a, r.b}
      BY <3>1, Zenon
    <3> QED BY <3>1, <3>2
  <2>4. /\ gl = [from |-> gl.from, to |-> gl.to, step |-> q.step, grounded |-> q.grounded]
        /\ {gl.from, gl.to} = {q.a, q.b}
    <3>1. /\ \/ gl.from = q.a /\ gl.to = q.b
             \/ gl.from = q.b /\ gl.to = q.a
          /\ gl = [from |-> gl.from, to |-> gl.to, step |-> q.step, grounded |-> q.grounded]
      BY <2>2, OrientedIs
    <3>2. {gl.from, gl.to} = {q.a, q.b}
      BY <3>1, Zenon
    <3> QED BY <3>1, <3>2
  <2>5. {r.a, r.b} = {q.a, q.b}
    BY <1>3, <2>3, <2>4
  <2>6. r = q
    BY <1>1, <2>5
  <2>7. fl = [from |-> fl.from, to |-> fl.to, step |-> r.step, grounded |-> r.grounded]
    BY <2>3
  <2>8. gl = [from |-> fl.from, to |-> fl.to, step |-> r.step, grounded |-> r.grounded]
    BY <1>3, <2>4, <2>6
  <2> QED BY <2>7, <2>8
<1> QED BY <1>2, <1>3 DEF Single

LEMMA LegalIs ==
    ASSUME NEW G, IsGraph(G), NEW root, NEW go, NEW fl \in Legal(G, root, go)
    PROVE  /\ fl \in G.flows /\ fl.from \in Ids(G, root) /\ fl.to \in Ids(G, root) /\ fl.to # root
           /\ fl.from \in G.events /\ fl.to \in G.events
           /\ fl.step \in 1 .. Len(Gain) /\ fl.step \in Nat /\ Len(Gain) \in Nat
BY StepsAre DEF Legal, Ids, IsGraph

LEMMA IdsAre ==
    ASSUME NEW G, NEW root, NEW d, Asked(G, root, d)
    PROVE  /\ IsFiniteSet(Ids(G, root)) /\ Ids(G, root) \subseteq Nat /\ root \in Ids(G, root)
           /\ G.events \subseteq Ids(G, root)
<1>1. IsFiniteSet(G.events) /\ G.events \subseteq Nodes /\ root \in Nodes /\ Nodes \subseteq Nat
  BY ExposureAssumption DEF Asked, IsGraph
<1>2. IsFiniteSet(G.events \cup {root})
  BY <1>1, FS_AddElement
<1> QED BY <1>1, <1>2 DEF Ids

\* The walks with one link more.
Longer(G, root, go, P) ==
    {<<x[2].to, x[1][2] + x[2].step>> :
       x \in {y \in P \X G.flows : y[2].from = y[1][1] /\ y[2].to # root /\ (go => y[2].grounded)}}

LEMMA LongerIs ==
    ASSUME NEW G, IsGraph(G), NEW root, NEW go, NEW P, P \subseteq Ids(G, root) \X Nat
    PROVE  /\ Longer(G, root, go, P) \subseteq Ids(G, root) \X Nat
           /\ \A fl \in Legal(G, root, go) : \A c \in Nat :
                <<fl.from, c>> \in P => <<fl.to, c + fl.step>> \in Longer(G, root, go, P)
           /\ \A z \in Longer(G, root, go, P) : \E fl \in Legal(G, root, go) : \E c \in Nat :
                <<fl.from, c>> \in P /\ z = <<fl.to, c + fl.step>>
<1> DEFINE Y == {y \in P \X G.flows : y[2].from = y[1][1] /\ y[2].to # root /\ (go => y[2].grounded)}
<1>1. Longer(G, root, go, P) = {<<x[2].to, x[1][2] + x[2].step>> : x \in Y}
  BY DEF Longer
<1>2. ASSUME NEW z \in Longer(G, root, go, P)
      PROVE  \E fl \in Legal(G, root, go) : \E c \in Nat : <<fl.from, c>> \in P /\ z = <<fl.to, c + fl.step>>
  <2>1. PICK x \in Y : z = <<x[2].to, x[1][2] + x[2].step>>
    BY <1>1
  <2>2. x[1] \in P /\ x[2] \in G.flows /\ x[2].from = x[1][1] /\ x[2].to # root /\ (go => x[2].grounded)
    OBVIOUS
  <2>3. x[1] \in Ids(G, root) \X Nat
    BY <2>2
  <2>4. x[1] = <<x[1][1], x[1][2]>> /\ x[1][2] \in Nat
    BY <2>3
  <2>5. x[2] \in Legal(G, root, go)
    BY <2>2 DEF Legal
  <2>6. <<x[2].from, x[1][2]>> \in P
    BY <2>2, <2>4
  <2> QED BY <2>1, <2>4, <2>5, <2>6
<1>3. ASSUME NEW fl \in Legal(G, root, go), NEW c \in Nat, <<fl.from, c>> \in P
      PROVE  <<fl.to, c + fl.step>> \in Longer(G, root, go, P)
  <2> DEFINE x == <<<<fl.from, c>>, fl>>
  <2>1. x \in Y
    BY <1>3 DEF Legal
  <2>2. <<x[2].to, x[1][2] + x[2].step>> = <<fl.to, c + fl.step>>
    OBVIOUS
  <2> HIDE DEF x, Y
  <2> QED BY <1>1, <2>1, <2>2
<1>4. ASSUME NEW z \in Longer(G, root, go, P) PROVE z \in Ids(G, root) \X Nat
  <2>1. PICK fl \in Legal(G, root, go) : \E c \in Nat : <<fl.from, c>> \in P /\ z = <<fl.to, c + fl.step>>
    BY <1>2
  <2>2. fl.to \in Ids(G, root) /\ fl.step \in Nat
    BY LegalIs
  <2> QED BY <2>1, <2>2
<1> QED BY <1>2, <1>3, <1>4

\* The walks of each length: where each ends and what it costs.
Routes(G, root, go, n, W) ==
    /\ W \in [0 .. n -> SUBSET (Ids(G, root) \X Nat)]
    /\ W[0] = {<<root, 0>>}
    /\ \A k \in 1 .. n : W[k] = Longer(G, root, go, W[k - 1])

LEMMA RoutesExist ==
    ASSUME NEW G, IsGraph(G), NEW root, NEW go, NEW n \in Nat
    PROVE  \E W : Routes(G, root, go, n, W)
<1> DEFINE X == SUBSET (Ids(G, root) \X Nat)  v == {<<root, 0>>}
           F == [P \in X |-> Longer(G, root, go, P)]
<1>1. v \in X
  BY DEF Ids
<1>2. F \in [X -> X] /\ \A P \in X : F[P] = Longer(G, root, go, P)
  <2>1. ASSUME NEW P \in X PROVE Longer(G, root, go, P) \in X
    <3>1. P \subseteq Ids(G, root) \X Nat
      OBVIOUS
    <3>2. Longer(G, root, go, P) \subseteq Ids(G, root) \X Nat
      BY <3>1, LongerIs
    <3> QED BY <3>2
  <2> HIDE DEF X
  <2> QED BY <2>1
<1> HIDE DEF F, v
<1>3. PICK W : Iterates(n, X, v, F, W)
  <2> HIDE DEF X
  <2> QED BY <1>1, <1>2, Iteration
<1>4. W \in [0 .. n -> X] /\ W[0] = v /\ \A k \in 1 .. n : W[k] = F[W[k - 1]]
  BY <1>3 DEF Iterates
<1>5. \A k \in 1 .. n : W[k] = Longer(G, root, go, W[k - 1])
  <2>1. \A k \in 1 .. n : W[k - 1] \in X
    <3> HIDE DEF X
    <3> QED BY <1>4
  <2> QED BY <1>2, <1>4, <2>1
<1> QED BY <1>4, <1>5 DEF Routes, v

LEMMA RoutesAre ==
    ASSUME NEW G, IsGraph(G), NEW root, NEW go, NEW n \in Nat, NEW W, Routes(G, root, go, n, W)
    PROVE  /\ \A k \in 0 .. n : W[k] \subseteq Ids(G, root) \X Nat
           /\ \A k \in 0 .. n - 1 : W[k + 1] = Longer(G, root, go, W[k])
<1>1. ASSUME NEW k \in 0 .. n - 1 PROVE W[k + 1] = Longer(G, root, go, W[k])
  <2> DEFINE l == k + 1
  <2>1. l \in 1 .. n /\ l - 1 = k
    OBVIOUS
  <2> HIDE DEF l
  <2>2. W[l] = Longer(G, root, go, W[l - 1])
    BY <2>1 DEF Routes
  <2> QED BY <2>1, <2>2 DEF l
<1>2. ASSUME NEW k \in 0 .. n PROVE W[k] \subseteq Ids(G, root) \X Nat
  BY DEF Routes
<1> QED BY <1>1, <1>2

\* A walk costs no more than its links can.
LEMMA RouteCost ==
    ASSUME NEW G, IsGraph(G), NEW root, NEW go, NEW n \in Nat, NEW W, Routes(G, root, go, n, W)
    PROVE  \A k \in 0 .. n : \A x \in W[k] : x[2] <= k * Len(Gain)
<1> DEFINE L == Len(Gain)  good == {k \in 0 .. n : \A x \in W[k] : x[2] <= k * L}
<1>0. L \in Nat
  BY StepsAre
<1>1. 0 \in good
  <2>1. W[0] = {<<root, 0>>}
    BY DEF Routes
  <2> QED BY <1>0, <2>1
<1>2. ASSUME NEW k \in 0 .. n - 1, k \in good PROVE k + 1 \in good
  <2>1. W[k + 1] = Longer(G, root, go, W[k]) /\ W[k] \subseteq Ids(G, root) \X Nat
    <3>1. k \in 0 .. n
      OBVIOUS
    <3>2. /\ \A j \in 0 .. n : W[j] \subseteq Ids(G, root) \X Nat
          /\ \A j \in 0 .. n - 1 : W[j + 1] = Longer(G, root, go, W[j])
      BY RoutesAre
    <3> QED BY <3>1, <3>2
  <2>2. ASSUME NEW x \in W[k + 1] PROVE x[2] <= (k + 1) * L
    <3>1. PICK fl \in Legal(G, root, go) : \E c \in Nat : <<fl.from, c>> \in W[k] /\ x = <<fl.to, c + fl.step>>
      BY <2>1, LongerIs
    <3>2. PICK c \in Nat : <<fl.from, c>> \in W[k] /\ x = <<fl.to, c + fl.step>>
      BY <3>1
    <3>3. fl.step \in 1 .. L
      BY LegalIs
    <3>4. c <= k * L
      <4>1. <<fl.from, c>>[2] <= k * L
        BY <1>2, <3>2
      <4> QED BY <4>1
    <3>5. x[2] = c + fl.step
      BY <3>2
    <3>6. (k + 1) * L = k * L + L /\ k * L \in Int
      BY <1>0
    <3> HIDE DEF L
    <3> QED BY <1>0, <3>3, <3>4, <3>5, <3>6
  <2> QED BY <2>2
<1>3. \A k \in 0 .. n : k \in good
  <2> HIDE DEF good
  <2> QED BY <1>1, <1>2, Counting
<1> QED BY <1>3

LEMMA WalksAre ==
    ASSUME NEW G, IsGraph(G), NEW root, NEW go, NEW n \in Nat, NEW W, Routes(G, root, go, n, W)
    PROVE  Walks(G, root, go, n) = UNION {{<<x[1], x[2], k>> : x \in W[k]} : k \in 1 .. n}
<1> DEFINE v == {<<root, 0>>}
           Go(P) == Longer(G, root, go, P)
           Def(g) == g = [k \in 0 .. n |-> IF k = 0 THEN v ELSE Go(g[k - 1])]
           w == CHOOSE g : Def(g)
<1>1. Def(W)
  <2> DEFINE h == [k \in 0 .. n |-> IF k = 0 THEN v ELSE Go(W[k - 1])]
  <2>1. W = [k \in 0 .. n |-> W[k]]
    BY DEF Routes
  <2>2. h = [k \in 0 .. n |-> h[k]]
    OBVIOUS
  <2>3. ASSUME NEW k \in 0 .. n PROVE W[k] = IF k = 0 THEN v ELSE Go(W[k - 1])
    <3>1. k # 0 => k \in 1 .. n
      OBVIOUS
    <3>2. W[0] = v /\ \A l \in 1 .. n : W[l] = Go(W[l - 1])
      BY DEF Routes
    <3> HIDE DEF v, Go
    <3> QED BY <3>1, <3>2
  <2>4. \A k \in 0 .. n : W[k] = h[k]
    <3> HIDE DEF v, Go
    <3> QED BY <2>3
  <2> HIDE DEF h
  <2>5. [k \in 0 .. n |-> W[k]] = [k \in 0 .. n |-> h[k]]
    BY <2>4
  <2>6. W = h
    BY <2>1, <2>2, <2>5
  <2> QED BY <2>6 DEF h
<1>2. Def(w)
  <2> HIDE DEF Def
  <2> QED BY <1>1
<1>3. \A k \in 0 .. n : w[k] = IF k = 0 THEN v ELSE Go(w[k - 1])
  <2> HIDE DEF w, v, Go
  <2> QED BY <1>2, Zenon
<1>4. \A k \in 0 .. n : W[k] = IF k = 0 THEN v ELSE Go(W[k - 1])
  <2> HIDE DEF w, v, Go
  <2> QED BY <1>1, Zenon
<1>5. Walks(G, root, go, n) = UNION {{<<x[1], x[2], k>> : x \in w[k]} : k \in 1 .. n}
  BY DEF Walks, Longer
<1> DEFINE good == {k \in 0 .. n : w[k] = W[k]}
<1>6. 0 \in good
  <2> HIDE DEF w, v, Go
  <2> QED BY <1>3, <1>4
<1>7. ASSUME NEW k \in 0 .. n - 1, k \in good PROVE k + 1 \in good
  <2> DEFINE l == k + 1
  <2>1. l \in 0 .. n /\ l # 0 /\ l - 1 = k
    OBVIOUS
  <2> HIDE DEF w, v, Go, l
  <2>2. w[l] = Go(w[k]) /\ W[l] = Go(W[k]) /\ w[k] = W[k]
    BY <1>3, <1>4, <1>7, <2>1
  <2>3. w[l] = W[l]
    BY <2>2
  <2> QED BY <2>1, <2>3 DEF l
<1>8. \A k \in 0 .. n : k \in good
  <2> HIDE DEF good
  <2> QED BY <1>6, <1>7, Counting
<1> HIDE DEF w
<1>9. \A k \in 1 .. n : w[k] = W[k]
  <2>1. \A k \in 1 .. n : k \in 0 .. n
    OBVIOUS
  <2> QED BY <1>8, <2>1
<1> QED BY <1>5, <1>9

LEMMA WalkMembers ==
    ASSUME NEW G, IsGraph(G), NEW root, NEW go, NEW n \in Nat, NEW W, Routes(G, root, go, n, W)
    PROVE  /\ \A x \in Walks(G, root, go, n) :
                x[2] \in Nat /\ x[3] \in 1 .. n /\ <<x[1], x[2]>> \in W[x[3]] /\ x = <<x[1], x[2], x[3]>>
           /\ \A k \in 1 .. n : \A v, c : <<v, c>> \in W[k] => <<v, c, k>> \in Walks(G, root, go, n)
<1> DEFINE from(k) == {<<x[1], x[2], k>> : x \in W[k]}
<1>1. Walks(G, root, go, n) = UNION {from(k) : k \in 1 .. n}
  BY WalksAre
<1>2. \A k \in 1 .. n : W[k] \subseteq Ids(G, root) \X Nat
  <2>1. \A k \in 1 .. n : k \in 0 .. n
    OBVIOUS
  <2> QED BY <2>1, RoutesAre
<1>3. ASSUME NEW x \in Walks(G, root, go, n)
      PROVE  x[2] \in Nat /\ x[3] \in 1 .. n /\ <<x[1], x[2]>> \in W[x[3]] /\ x = <<x[1], x[2], x[3]>>
  <2>1. PICK k \in 1 .. n : x \in from(k)
    BY <1>1
  <2>2. PICK y \in W[k] : x = <<y[1], y[2], k>>
    BY <2>1
  <2>3. y = <<y[1], y[2]>> /\ y[2] \in Nat
    BY <1>2
  <2> QED BY <2>2, <2>3
<1>4. ASSUME NEW k \in 1 .. n, NEW v, NEW c, <<v, c>> \in W[k] PROVE <<v, c, k>> \in Walks(G, root, go, n)
  <2> DEFINE x == <<v, c>>
  <2>1. <<x[1], x[2], k>> = <<v, c, k>> /\ x \in W[k]
    BY <1>4
  <2>2. <<v, c, k>> \in from(k)
    <3> HIDE DEF x
    <3> QED BY <2>1
  <2> QED BY <1>1, <2>2
<1> QED BY <1>3, <1>4

\* An image has no more elements than the set.
LEMMA ImageIsSmaller ==
    ASSUME NEW S, IsFiniteSet(S), NEW f
    PROVE  IsFiniteSet({f[x] : x \in S}) /\ Cardinality({f[x] : x \in S}) <= Cardinality(S)
<1> DEFINE image(s) == {f[x] : x \in s}
           good == {s \in SUBSET S : Cardinality(image(s)) <= Cardinality(s)}
<1>0. ASSUME NEW s \in SUBSET S
      PROVE  IsFiniteSet(s) /\ IsFiniteSet(image(s)) /\ Cardinality(s) \in Nat /\ Cardinality(image(s)) \in Nat
  <2>1. IsFiniteSet(s)
    BY FS_Subset
  <2>2. IsFiniteSet(image(s))
    BY <2>1, ImageIsFinite
  <2> HIDE DEF image
  <2> QED BY <2>1, <2>2, FS_CardinalityType
<1>1. {} \in good
  <2>1. image({}) = {}
    OBVIOUS
  <2>2. Cardinality({}) <= Cardinality({})
    BY FS_EmptySet
  <2> QED BY <2>1, <2>2
<1>2. ASSUME NEW s \in SUBSET S, NEW x \in S \ s, s \in good PROVE s \cup {x} \in good
  <2>1. image(s \cup {x}) = image(s) \cup {f[x]}
    OBVIOUS
  <2>2. Cardinality(image(s)) <= Cardinality(s)
    BY <1>2
  <2> HIDE DEF image
  <2>0. /\ IsFiniteSet(s) /\ IsFiniteSet(image(s))
        /\ Cardinality(s) \in Nat /\ Cardinality(image(s)) \in Nat
    BY <1>0
  <2>3. Cardinality(s \cup {x}) = Cardinality(s) + 1
    BY <2>0, FS_AddElement
  <2>4. Cardinality(image(s) \cup {f[x]}) <= Cardinality(image(s)) + 1
    <3> DEFINE A == image(s)  y == f[x]  a == Cardinality(A)  b == Cardinality(A \cup {y})
    <3>1. IsFiniteSet(A) /\ a \in Nat
      BY <2>0
    <3> HIDE DEF A, y
    <3> DEFINE few == b <= a + 1
    <3>2. ASSUME y \in A PROVE few
      <4>1. A \cup {y} = A
        BY <3>2
      <4>2. b = a
        BY <4>1, Zenon
      <4> HIDE DEF a, b
      <4>3. b <= a + 1
        BY <3>1, <4>2
      <4> QED BY <4>3
    <3>3. ASSUME y \notin A PROVE few
      <4>1. b = a + 1
        BY <3>1, <3>3, FS_AddElement
      <4> HIDE DEF a, b
      <4>2. b <= a + 1
        BY <3>1, <4>1
      <4> QED BY <4>2
    <3>4. few
      <4> HIDE DEF few
      <4> QED BY <3>2, <3>3
    <3> QED BY <3>4 DEF A, y
  <2>5. s \cup {x} \in SUBSET S
    OBVIOUS
  <2>6. Cardinality(image(s \cup {x})) <= Cardinality(s \cup {x})
    <3>1. Cardinality(image(s \cup {x})) <= Cardinality(image(s)) + 1
      <4>1. Cardinality(image(s \cup {x})) = Cardinality(image(s) \cup {f[x]})
        BY <2>1
      <4> HIDE <2>1
      <4> QED BY <2>4, <4>1
    <3>2. Cardinality(image(s \cup {x})) \in Nat
      BY <1>0, <2>5
    <3> QED BY <2>0, <2>2, <2>3, <3>1, <3>2
  <2> QED BY <2>5, <2>6
<1>3. S \in good
  <2> HIDE DEF good
  <2> QED BY <1>1, <1>2, BuildUp
<1> QED BY <1>0, <1>3

\* The states of a search: labels, and the heap of those still to pass on.
Hops(G, root) == G.flows \cup {[from |-> root, to |-> root, step |-> 0, grounded |-> FALSE]}
Searches(G, root) ==
    [best : [Ids(G, root) -> Nat], depth : [Ids(G, root) -> Nat], hop : [Ids(G, root) -> Hops(G, root)],
     heap : SUBSET (Nat \X Nat \X Ids(G, root))]

\* A label has its walk, and continues a label that no entry of the heap can undercut.
Labelled(G, root, d, go, W, s, v) ==
    /\ s.depth[v] \in 1 .. d /\ <<v, s.best[v]>> \in W[s.depth[v]]
    /\ s.hop[v] \in Legal(G, root, go) /\ s.hop[v].to = v
    /\ s.best[v] = s.best[s.hop[v].from] + s.hop[v].step
    /\ s.depth[v] = s.depth[s.hop[v].from] + 1
    /\ \A p \in s.heap : s.best[s.hop[v].from] <= p[1]
\* An entry is the label of its event or has been beaten by it.
Entered(d, s, p) ==
    /\ s.best[p[3]] <= p[1] /\ p[1] < Unreached(d)
    /\ p[1] = s.best[p[3]] => p[2] = s.depth[p[3]]
\* A label is in the heap, at the last hop, or has been passed on.
Relaxed(G, root, go, s, u) ==
    \A fl \in Legal(G, root, go) : fl.from = u => s.best[fl.to] <= s.best[u] + fl.step
Handled(G, root, d, go, s, u) ==
    <<s.best[u], s.depth[u], u>> \in s.heap \/ s.depth[u] >= d \/ Relaxed(G, root, go, s, u)
IsTrail(G, root, d, go, W, s) ==
    /\ s \in Searches(G, root) /\ IsFiniteSet(s.heap)
    /\ s.best[root] = 0 /\ s.depth[root] = 0
    /\ \A v \in Ids(G, root) \ {root} :
         s.best[v] <= Unreached(d) /\ (s.best[v] < Unreached(d) => Labelled(G, root, d, go, W, s, v))
    /\ \A p \in s.heap : Entered(d, s, p)
    /\ \A u \in Ids(G, root) : s.best[u] < Unreached(d) => Handled(G, root, d, go, s, u)

LEMMA SearchIs ==
    ASSUME NEW G, NEW root, NEW s \in Searches(G, root)
    PROVE  /\ s.best \in [Ids(G, root) -> Nat] /\ s.depth \in [Ids(G, root) -> Nat]
           /\ s.hop \in [Ids(G, root) -> Hops(G, root)]
           /\ DOMAIN s.best = Ids(G, root) /\ DOMAIN s.depth = Ids(G, root) /\ DOMAIN s.hop = Ids(G, root)
           /\ s.heap \subseteq Nat \X Nat \X Ids(G, root)
           /\ \A v \in Ids(G, root) : s.best[v] \in Nat /\ s.depth[v] \in Nat /\ s.hop[v] \in Hops(G, root)
           /\ \A p \in s.heap : /\ p[1] \in Nat /\ p[2] \in Nat /\ p[3] \in Ids(G, root)
                                /\ p = <<p[1], p[2], p[3]>>
           /\ s = [best |-> s.best, depth |-> s.depth, hop |-> s.hop, heap |-> s.heap]
BY DEF Searches

LEMMA UnreachedIs == ASSUME NEW d \in Nat PROVE Unreached(d) \in Nat /\ Unreached(d) = d * Len(Gain) + 1
<1>1. Len(Gain) \in Nat
  BY StepsAre
<1>2. d * Len(Gain) \in Nat
  BY <1>1
<1> QED BY <1>2 DEF Unreached

\* The heap has a first entry, and none is cheaper.
First(heap) == CHOOSE p \in heap : \A q \in heap \ {p} : Heavier(p, q)

LEMMA FirstIs ==
    ASSUME NEW heap, NEW I, I \subseteq Nat, heap \subseteq Nat \X Nat \X I, heap # {}
    PROVE  First(heap) \in heap /\ \A q \in heap : First(heap)[1] <= q[1]
<1>0. \A p \in heap : p[1] \in Nat /\ p[2] \in Nat /\ p[3] \in Nat /\ p = <<p[1], p[2], p[3]>>
  <2>1. ASSUME NEW p \in heap PROVE p[1] \in Nat /\ p[2] \in Nat /\ p[3] \in Nat /\ p = <<p[1], p[2], p[3]>>
    <3>1. p \in Nat \X Nat \X I
      OBVIOUS
    <3>2. p[1] \in Nat /\ p[2] \in Nat /\ p[3] \in I
      BY <3>1
    <3>3. p = <<p[1], p[2], p[3]>>
      BY <3>1
    <3>4. p[3] \in Nat
      BY <3>2
    <3> QED BY <3>2, <3>3, <3>4
  <2> QED BY <2>1
<1> DEFINE A == {p[1] : p \in heap}
<1>1. PICK a \in A : \A y \in A : a <= y
  <2>1. A \subseteq Nat /\ A # {}
    BY <1>0
  <2> HIDE DEF A
  <2> QED BY <2>1, LeastNumber
<1> DEFINE B == {p[2] : p \in {q \in heap : q[1] = a}}
<1>2. PICK b \in B : \A y \in B : b <= y
  <2>1. B \subseteq Nat /\ B # {}
    BY <1>0
  <2> HIDE DEF B
  <2> QED BY <2>1, LeastNumber
<1> DEFINE C == {p[3] : p \in {q \in heap : q[1] = a /\ q[2] = b}}
<1>3. PICK c \in C : \A y \in C : c <= y
  <2>1. C \subseteq Nat /\ C # {}
    BY <1>0
  <2> HIDE DEF C
  <2> QED BY <2>1, LeastNumber
<1>4. PICK p \in heap : p[1] = a /\ p[2] = b /\ p[3] = c
  OBVIOUS
<1>5. ASSUME NEW q \in heap, q # p PROVE Heavier(p, q)
  <2>1. p[1] <= q[1] /\ (p[1] = q[1] => p[2] <= q[2]) /\ (p[1] = q[1] /\ p[2] = q[2] => p[3] <= q[3])
    BY <1>1, <1>2, <1>3, <1>4
  <2>2. p[1] = q[1] /\ p[2] = q[2] => p[3] # q[3]
    BY <1>0, <1>5
  <2> QED BY <1>0, <2>1, <2>2 DEF Heavier
<1>6. \A q \in heap \ {p} : Heavier(p, q)
  BY <1>5
<1>7. First(heap) \in heap /\ \A q \in heap \ {First(heap)} : Heavier(First(heap), q)
  <2> HIDE DEF A, B, C
  <2> QED BY <1>6, Zenon DEF First
<1>8. ASSUME NEW q \in heap PROVE First(heap)[1] <= q[1]
  <2>1. CASE q = First(heap)
    BY <1>0, <2>1
  <2>2. CASE q # First(heap)
    BY <1>0, <1>7, <2>2 DEF Heavier
  <2> QED BY <2>1, <2>2
<1> QED BY <1>7, <1>8

\* What expanding an entry does: it passes its label on, plus a step, wherever that is
\* better, and every label it gives goes into the heap.
HitBy(G, root, go, s, top, t, v) ==
    \E fl \in Legal(G, root, go) :
       /\ fl.from = top[3] /\ fl.to = v /\ top[1] + fl.step < s.best[v]
       /\ t.best[v] = top[1] + fl.step /\ t.depth[v] = top[2] + 1 /\ t.hop[v] = fl
       /\ <<t.best[v], t.depth[v], v>> \in t.heap
MissedBy(G, root, go, s, top, t, v) ==
    /\ t.best[v] = s.best[v] /\ t.depth[v] = s.depth[v] /\ t.hop[v] = s.hop[v]
    /\ \A fl \in Legal(G, root, go) : fl.from = top[3] /\ fl.to = v => s.best[v] <= top[1] + fl.step
Expanded(G, root, go, s, top, t) ==
    /\ t \in Searches(G, root) /\ IsFiniteSet(t.heap)
    /\ \A v \in Ids(G, root) : HitBy(G, root, go, s, top, t, v) \/ MissedBy(G, root, go, s, top, t, v)
    /\ s.heap \ {top} \subseteq t.heap
    /\ \A p \in t.heap : \/ p \in s.heap /\ p # top
                         \/ \E v \in Ids(G, root) : /\ HitBy(G, root, go, s, top, t, v)
                                                    /\ p = <<t.best[v], t.depth[v], v>>

LEMMA ExpandIs ==
    ASSUME NEW G, NEW root, NEW d, Asked(G, root, d), NEW go, NEW s \in Searches(G, root),
           IsFiniteSet(s.heap), NEW top \in s.heap
    PROVE  Expanded(G, root, go, s, top, Expand(G, root, go, s, top))
<1> DEFINE u == top[3]  I == Ids(G, root)
           better == {fl \in G.flows : /\ fl.from = u /\ fl.to # root
                                       /\ go => fl.grounded
                                       /\ Better(top[1] + fl.step, s.best[fl.to])}
           flowTo(v) == CHOOSE fl \in better : fl.to = v
           hit == {fl.to : fl \in better}
           cost(v) == top[1] + flowTo(v).step
           new == {<<cost(v), top[2] + 1, v>> : v \in hit}
           t == Expand(G, root, go, s, top)
<1>0. IsGraph(G)
  BY DEF Asked
<1>1. /\ DOMAIN s.best = I /\ DOMAIN s.depth = I /\ DOMAIN s.hop = I
      /\ \A v \in I : s.best[v] \in Nat /\ s.depth[v] \in Nat /\ s.hop[v] \in Hops(G, root)
      /\ top[1] \in Nat /\ top[2] \in Nat /\ top[3] \in I /\ s.heap \subseteq Nat \X Nat \X I
  <2> HIDE DEF I
  <2> QED BY SearchIs DEF I
<1>2. t = [best |-> [v \in I |-> IF v \in hit THEN cost(v) ELSE s.best[v]],
           depth |-> [v \in I |-> IF v \in hit THEN top[2] + 1 ELSE s.depth[v]],
           hop |-> [v \in I |-> IF v \in hit THEN flowTo(v) ELSE s.hop[v]],
           heap |-> (s.heap \ {top}) \cup new]
  <2>1. t = [best |-> [v \in DOMAIN s.best |-> IF v \in hit THEN cost(v) ELSE s.best[v]],
           depth |-> [v \in DOMAIN s.depth |-> IF v \in hit THEN top[2] + 1 ELSE s.depth[v]],
           hop |-> [v \in DOMAIN s.hop |-> IF v \in hit THEN flowTo(v) ELSE s.hop[v]],
           heap |-> (s.heap \ {top}) \cup new]
    BY DEF Expand
  <2> HIDE DEF I, hit, cost, flowTo, new, t
  <2> QED BY <1>1, <2>1
<1>3. \A fl \in better : /\ fl \in Legal(G, root, go) /\ fl \in G.flows /\ fl.from = u
                         /\ top[1] + fl.step < s.best[fl.to]
  BY DEF Better, Legal
<1>4. \A fl \in Legal(G, root, go) : fl.from = u /\ fl \notin better => ~ (top[1] + fl.step < s.best[fl.to])
  BY DEF Better, Legal
<1> HIDE DEF better
<1>5. ASSUME NEW v \in hit
      PROVE  flowTo(v) \in better /\ flowTo(v).to = v /\ v \in I /\ cost(v) \in Nat /\ flowTo(v) \in Hops(G, root)
             /\ cost(v) = top[1] + flowTo(v).step
  <2>1. \E fl \in better : fl.to = v
    OBVIOUS
  <2>2. flowTo(v) \in better /\ flowTo(v).to = v
    BY <2>1
  <2> DEFINE gl == flowTo(v)
  <2>3. gl \in Legal(G, root, go) /\ gl \in G.flows /\ gl.to = v
    <3> HIDE DEF gl
    <3> QED BY <1>3, <2>2 DEF gl
  <2> HIDE DEF gl
  <2>4. gl.to \in I /\ gl.step \in Nat
    BY <1>0, <2>3, LegalIs DEF I
  <2>5. cost(v) = top[1] + gl.step
    BY DEF gl
  <2> QED BY <1>1, <2>2, <2>3, <2>4, <2>5 DEF gl, Hops
<1>6. ASSUME NEW v \in I
      PROVE  /\ t.best[v] = IF v \in hit THEN cost(v) ELSE s.best[v]
             /\ t.depth[v] = IF v \in hit THEN top[2] + 1 ELSE s.depth[v]
             /\ t.hop[v] = IF v \in hit THEN flowTo(v) ELSE s.hop[v]
  <2> HIDE DEF hit, cost, flowTo, new, I, t
  <2> QED BY <1>2
<1>7. t.heap = (s.heap \ {top}) \cup new
  <2> HIDE DEF hit, cost, flowTo, new, I, t
  <2> QED BY <1>2
<1>8. IsFiniteSet(hit)
  <2>1. better \subseteq G.flows /\ IsFiniteSet(G.flows)
    BY <1>0 DEF better, IsGraph
  <2>2. IsFiniteSet(better)
    BY <2>1, FS_Subset
  <2> DEFINE f == [fl \in better |-> fl.to]
  <2>3. hit = {f[fl] : fl \in better}
    OBVIOUS
  <2> HIDE DEF f, hit
  <2> QED BY <2>2, <2>3, ImageIsFinite
<1>9. IsFiniteSet(t.heap)
  <2> DEFINE f == [v \in hit |-> <<cost(v), top[2] + 1, v>>]
  <2>1. new = {f[v] : v \in hit}
    <3> HIDE DEF hit, cost
    <3> QED OBVIOUS
  <2>2. IsFiniteSet(new)
    <3> HIDE DEF f, hit, new
    <3> QED BY <1>8, <2>1, ImageIsFinite
  <2>3. IsFiniteSet(s.heap \ {top})
    BY FS_RemoveElement
  <2> HIDE DEF new, t
  <2> QED BY <1>7, <2>2, <2>3, FS_Union
<1> HIDE DEF t
<1>10. \A p \in new : \E v \in hit : p = <<cost(v), top[2] + 1, v>>
  <2> HIDE DEF hit, cost
  <2> QED OBVIOUS
<1>11. \A v \in hit : <<cost(v), top[2] + 1, v>> \in new
  <2> HIDE DEF hit, cost
  <2> QED OBVIOUS
<1>12. \A v : v \in hit <=> \E fl \in better : fl.to = v
  OBVIOUS
<1>13. t \in Searches(G, root)
  <2>1. new \subseteq Nat \X Nat \X I
    <3>1. ASSUME NEW p \in new PROVE p \in Nat \X Nat \X I
      <4>1. PICK v \in hit : p = <<cost(v), top[2] + 1, v>>
        BY <1>10
      <4>2. cost(v) \in Nat /\ v \in I /\ top[2] + 1 \in Nat
        BY <1>1, <1>5
      <4> HIDE DEF cost, hit, new
      <4> QED BY <4>1, <4>2
    <3> QED BY <3>1
  <2>2. \A v \in I : /\ (IF v \in hit THEN cost(v) ELSE s.best[v]) \in Nat
                     /\ (IF v \in hit THEN top[2] + 1 ELSE s.depth[v]) \in Nat
                     /\ (IF v \in hit THEN flowTo(v) ELSE s.hop[v]) \in Hops(G, root)
    <3>1. top[2] + 1 \in Nat
      BY <1>1
    <3> HIDE DEF cost, hit, flowTo
    <3> QED BY <1>1, <1>5, <3>1
  <2> HIDE DEF cost, hit, flowTo, new
  <2>3. t.best \in [I -> Nat] /\ t.depth \in [I -> Nat] /\ t.hop \in [I -> Hops(G, root)]
    BY <1>2, <2>2
  <2>4. t.heap \subseteq Nat \X Nat \X I
    BY <1>1, <1>7, <2>1
  <2>5. t = [best |-> t.best, depth |-> t.depth, hop |-> t.hop, heap |-> t.heap]
    BY <1>2
  <2> HIDE DEF I
  <2> QED BY <2>3, <2>4, <2>5 DEF Searches, I
<1>14. ASSUME NEW v \in I, v \in hit PROVE HitBy(G, root, go, s, top, t, v)
  <2> DEFINE fl == flowTo(v)
  <2>1. fl \in better /\ fl.to = v /\ t.best[v] = top[1] + fl.step /\ t.depth[v] = top[2] + 1 /\ t.hop[v] = fl
    BY <1>5, <1>6, <1>14
  <2>2. <<t.best[v], t.depth[v], v>> \in t.heap
    <3>1. t.best[v] = cost(v) /\ t.depth[v] = top[2] + 1
      BY <1>6, <1>14
    <3> HIDE DEF cost, hit, new
    <3> QED BY <1>7, <1>11, <1>14, <3>1
  <2> HIDE DEF fl
  <2>3. fl \in Legal(G, root, go) /\ fl.from = u /\ top[1] + fl.step < s.best[v]
    BY <1>3, <2>1
  <2> QED BY <2>1, <2>2, <2>3 DEF HitBy
<1>15. ASSUME NEW v \in I, v \notin hit PROVE MissedBy(G, root, go, s, top, t, v)
  <2>1. t.best[v] = s.best[v] /\ t.depth[v] = s.depth[v] /\ t.hop[v] = s.hop[v]
    <3> HIDE DEF cost, hit, flowTo
    <3> QED BY <1>6, <1>15
  <2>2. ASSUME NEW fl \in Legal(G, root, go), fl.from = u, fl.to = v PROVE s.best[v] <= top[1] + fl.step
    <3>1. fl \notin better
      BY <1>12, <1>15, <2>2
    <3>2. ~ (top[1] + fl.step < s.best[v])
      BY <1>4, <2>2, <3>1
    <3>3. fl.step \in Nat /\ s.best[v] \in Nat
      BY <1>0, <1>1, LegalIs
    <3> QED BY <1>1, <3>2, <3>3
  <2> QED BY <2>1, <2>2 DEF MissedBy
<1>16. ASSUME NEW p \in t.heap
       PROVE  \/ p \in s.heap /\ p # top
              \/ \E v \in I : HitBy(G, root, go, s, top, t, v) /\ p = <<t.best[v], t.depth[v], v>>
  <2>1. CASE p \in new
    <3>1. PICK v \in hit : p = <<cost(v), top[2] + 1, v>>
      BY <1>10, <2>1
    <3>2. v \in I
      BY <1>5
    <3>3. p = <<t.best[v], t.depth[v], v>>
      <4> HIDE DEF cost, hit, flowTo
      <4> QED BY <1>6, <3>1, <3>2
    <3> QED BY <1>14, <3>2, <3>3
  <2>2. CASE p \notin new
    <3> HIDE DEF new
    <3> QED BY <1>7, <2>2
  <2> QED BY <2>1, <2>2
<1>17. s.heap \ {top} \subseteq t.heap
  <2> HIDE DEF new
  <2> QED BY <1>7
<1> HIDE DEF hit, new, cost, flowTo
<1>18. \A v \in I : HitBy(G, root, go, s, top, t, v) \/ MissedBy(G, root, go, s, top, t, v)
  BY <1>14, <1>15
<1>19. Expanded(G, root, go, s, top, t)
  BY <1>9, <1>13, <1>16, <1>17, <1>18 DEF Expanded
<1> QED BY <1>19 DEF t

LEMMA DropKeeps ==
    ASSUME NEW G, NEW root, NEW d, Asked(G, root, d), NEW go, NEW W, NEW s, IsTrail(G, root, d, go, W, s),
           NEW top \in s.heap, top[1] > s.best[top[3]] \/ top[2] > s.depth[top[3]] \/ top[2] >= d,
           NEW t, t = [s EXCEPT !.heap = @ \ {top}]
    PROVE  IsTrail(G, root, d, go, W, t)
<1> DEFINE I == Ids(G, root)
<1>1. s \in Searches(G, root) /\ IsFiniteSet(s.heap)
  BY DEF IsTrail
<1>2. /\ s.heap \subseteq Nat \X Nat \X I
      /\ \A v \in I : s.best[v] \in Nat /\ s.depth[v] \in Nat
      /\ \A p \in s.heap : p[1] \in Nat /\ p[2] \in Nat /\ p[3] \in I /\ p = <<p[1], p[2], p[3]>>
  BY <1>1, SearchIs DEF I
<1>3. t.best = s.best /\ t.depth = s.depth /\ t.hop = s.hop /\ t.heap = s.heap \ {top} /\ t \in Searches(G, root)
  BY <1>1 DEF Searches
<1>4. IsFiniteSet(t.heap)
  BY <1>1, <1>3, FS_RemoveElement
<1>5. t.best[root] = 0 /\ t.depth[root] = 0
  BY <1>3 DEF IsTrail
<1>6. ASSUME NEW v \in I \ {root}
      PROVE  t.best[v] <= Unreached(d) /\ (t.best[v] < Unreached(d) => Labelled(G, root, d, go, W, t, v))
  <2>1. s.best[v] <= Unreached(d) /\ (s.best[v] < Unreached(d) => Labelled(G, root, d, go, W, s, v))
    BY DEF IsTrail, I
  <2>2. Labelled(G, root, d, go, W, s, v) => Labelled(G, root, d, go, W, t, v)
    BY <1>3 DEF Labelled
  <2> QED BY <1>3, <2>1, <2>2
<1>7. \A p \in t.heap : Entered(d, t, p)
  BY <1>3 DEF IsTrail, Entered
<1>8. ASSUME NEW u \in I, t.best[u] < Unreached(d) PROVE Handled(G, root, d, go, t, u)
  <2>1. Handled(G, root, d, go, s, u)
    BY <1>3, <1>8 DEF IsTrail, I
  <2>2. Relaxed(G, root, go, s, u) => Relaxed(G, root, go, t, u)
    BY <1>3 DEF Relaxed
  <2>3. CASE <<s.best[u], s.depth[u], u>> = top
    <3>1. top[1] = s.best[u] /\ top[2] = s.depth[u] /\ top[3] = u
      BY <2>3
    <3>2. s.depth[u] >= d
      BY <1>2, <3>1
    <3> QED BY <1>3, <3>2 DEF Handled
  <2>4. CASE <<s.best[u], s.depth[u], u>> # top
    BY <1>3, <2>1, <2>2, <2>4 DEF Handled
  <2> QED BY <2>3, <2>4
<1> QED BY <1>3, <1>4, <1>5, <1>6, <1>7, <1>8 DEF IsTrail, I

LEMMA ExpandKeeps ==
    ASSUME NEW G, NEW root, NEW d, Asked(G, root, d), NEW go, NEW W, Routes(G, root, go, d, W),
           NEW s, IsTrail(G, root, d, go, W, s),
           NEW top \in s.heap, \A q \in s.heap : top[1] <= q[1],
           ~ (top[1] > s.best[top[3]]), ~ (top[2] > s.depth[top[3]]), ~ (top[2] >= d),
           NEW t, Expanded(G, root, go, s, top, t)
    PROVE  IsTrail(G, root, d, go, W, t)
<1> DEFINE I == Ids(G, root)  U == Unreached(d)  c == top[1]  h == top[2]  u == top[3]
<1>0. IsGraph(G) /\ Single(G) /\ d \in Nat /\ U \in Nat /\ root \in I
  <2>1. IsGraph(G) /\ Single(G) /\ d \in Nat
    BY DEF Asked
  <2> QED BY <2>1, UnreachedIs DEF Ids
<1>1. s \in Searches(G, root) /\ t \in Searches(G, root) /\ IsFiniteSet(t.heap)
  BY DEF IsTrail, Expanded
<1>2. /\ \A v \in I : s.best[v] \in Nat /\ s.depth[v] \in Nat
      /\ \A p \in s.heap : p[1] \in Nat /\ p[2] \in Nat /\ p[3] \in I /\ p = <<p[1], p[2], p[3]>>
      /\ c \in Nat /\ h \in Nat /\ u \in I
  BY <1>1, SearchIs DEF I
<1>3. /\ \A v \in I : t.best[v] \in Nat /\ t.depth[v] \in Nat
      /\ \A p \in t.heap : p[1] \in Nat /\ p[2] \in Nat /\ p[3] \in I
  BY <1>1, SearchIs DEF I
<1>4. \A p \in s.heap : Entered(d, s, p)
  BY DEF IsTrail
<1>5. c = s.best[u] /\ h = s.depth[u] /\ c < U /\ h < d /\ top = <<c, h, u>>
  <2>1. Entered(d, s, top)
    BY <1>4
  <2> QED BY <1>0, <1>2, <2>1 DEF Entered
<1> HIDE DEF c, h, u
<1>6. \A v \in I : HitBy(G, root, go, s, top, t, v) \/ MissedBy(G, root, go, s, top, t, v)
  BY DEF Expanded, I
<1>7. ASSUME NEW v \in I, HitBy(G, root, go, s, top, t, v)
      PROVE  /\ t.best[v] < s.best[v] /\ c < t.best[v] /\ v # root /\ <<t.best[v], t.depth[v], v>> \in t.heap
             /\ \E fl \in Legal(G, root, go) : /\ fl.from = u /\ fl.to = v /\ t.best[v] = c + fl.step
                                               /\ t.depth[v] = h + 1 /\ t.hop[v] = fl
  <2>1. PICK fl \in Legal(G, root, go) :
               /\ fl.from = u /\ fl.to = v /\ c + fl.step < s.best[v]
               /\ t.best[v] = c + fl.step /\ t.depth[v] = h + 1 /\ t.hop[v] = fl
               /\ <<t.best[v], t.depth[v], v>> \in t.heap
    BY <1>7 DEF HitBy, c, h, u
  <2>2. fl.step \in 1 .. Len(Gain) /\ fl.step \in Nat /\ Len(Gain) \in Nat /\ fl.to # root
    BY <1>0, LegalIs
  <2> QED BY <1>2, <2>1, <2>2
<1>8. ASSUME NEW v \in I, MissedBy(G, root, go, s, top, t, v)
      PROVE  /\ t.best[v] = s.best[v] /\ t.depth[v] = s.depth[v] /\ t.hop[v] = s.hop[v]
             /\ \A fl \in Legal(G, root, go) : fl.from = u /\ fl.to = v => s.best[v] <= c + fl.step
  BY <1>8 DEF MissedBy, c, u
<1>9. \A v \in I : t.best[v] <= s.best[v]
  <2>1. ASSUME NEW v \in I PROVE t.best[v] <= s.best[v]
    <3>0. t.best[v] \in Nat /\ s.best[v] \in Nat
      BY <1>2, <1>3
    <3>1. CASE HitBy(G, root, go, s, top, t, v)
      <4>1. t.best[v] < s.best[v]
        BY <1>7, <3>1
      <4> QED BY <3>0, <4>1
    <3>2. CASE MissedBy(G, root, go, s, top, t, v)
      <4>1. t.best[v] = s.best[v]
        BY <1>8, <3>2
      <4> QED BY <3>0, <4>1
    <3> QED BY <1>6, <3>1, <3>2
  <2> QED BY <2>1
<1>10. ASSUME NEW v \in I, s.best[v] <= c PROVE t.best[v] = s.best[v] /\ t.depth[v] = s.depth[v]
  <2>0. t.best[v] \in Nat /\ s.best[v] \in Nat /\ c \in Nat
    BY <1>2, <1>3
  <2>1. ~ HitBy(G, root, go, s, top, t, v)
    <3>1. ASSUME HitBy(G, root, go, s, top, t, v) PROVE FALSE
      <4>1. t.best[v] < s.best[v] /\ c < t.best[v]
        BY <1>7, <3>1
      <4> QED BY <1>10, <2>0, <4>1
    <3> QED BY <3>1
  <2>2. MissedBy(G, root, go, s, top, t, v)
    BY <1>6, <2>1
  <2> QED BY <1>8, <2>2
<1>11. ASSUME NEW p \in t.heap
       PROVE  \/ p \in s.heap /\ p # top
              \/ \E v \in I : HitBy(G, root, go, s, top, t, v) /\ p = <<t.best[v], t.depth[v], v>>
  BY DEF Expanded, I
<1>12. \A p \in t.heap : c <= p[1]
  <2>1. ASSUME NEW p \in t.heap PROVE c <= p[1]
    <3>1. CASE p \in s.heap
      BY <3>1 DEF c
    <3>2. ASSUME NEW v \in I, HitBy(G, root, go, s, top, t, v), p = <<t.best[v], t.depth[v], v>> PROVE c <= p[1]
      <4>1. c < t.best[v] /\ p[1] = t.best[v]
        BY <1>7, <3>2
      <4> QED BY <1>2, <1>3, <4>1
    <3> QED BY <1>11, <3>1, <3>2
  <2> QED BY <2>1
<1>13. t.best[root] = 0 /\ t.depth[root] = 0
  <2>1. s.best[root] = 0 /\ s.depth[root] = 0
    BY DEF IsTrail
  <2> QED BY <1>0, <1>2, <1>10, <2>1
<1>14. t.best[u] = c /\ t.depth[u] = h
  BY <1>2, <1>5, <1>10
<1>15. <<u, c>> \in W[h]
  <2>1. CASE u = root
    <3>1. c = 0 /\ h = 0
      BY <1>5, <2>1 DEF IsTrail
    <3> QED BY <2>1, <3>1 DEF Routes
  <2>2. CASE u # root
    <3>1. Labelled(G, root, d, go, W, s, u)
      BY <1>2, <1>5, <2>2 DEF IsTrail, I
    <3> QED BY <1>5, <3>1 DEF Labelled
  <2> QED BY <2>1, <2>2
<1>16. ASSUME NEW v \in I \ {root}
       PROVE  t.best[v] <= U /\ (t.best[v] < U => Labelled(G, root, d, go, W, t, v))
  <2>1. s.best[v] <= U /\ (s.best[v] < U => Labelled(G, root, d, go, W, s, v))
    BY DEF IsTrail, I
  <2>2. t.best[v] <= U
    BY <1>0, <1>2, <1>3, <1>9, <2>1
  <2>3. CASE HitBy(G, root, go, s, top, t, v)
    <3>1. PICK fl \in Legal(G, root, go) : /\ fl.from = u /\ fl.to = v /\ t.best[v] = c + fl.step
                                           /\ t.depth[v] = h + 1 /\ t.hop[v] = fl
      BY <1>7, <2>3
    <3>2. W[h + 1] = Longer(G, root, go, W[h]) /\ W[h] \subseteq I \X Nat
      <4>1. h \in 0 .. d - 1 /\ h \in 0 .. d
        BY <1>0, <1>2, <1>5
      <4>2. /\ \A k \in 0 .. d : W[k] \subseteq Ids(G, root) \X Nat
            /\ \A k \in 0 .. d - 1 : W[k + 1] = Longer(G, root, go, W[k])
        BY <1>0, RoutesAre
      <4> QED BY <4>1, <4>2 DEF I
    <3>3. <<v, c + fl.step>> \in W[h + 1]
      BY <1>0, <1>2, <1>15, <3>1, <3>2, LongerIs DEF I
    <3>4. h + 1 \in 1 .. d
      BY <1>0, <1>2, <1>5
    <3>5. \A p \in t.heap : t.best[u] <= p[1]
      BY <1>12, <1>14
    <3>6. Labelled(G, root, d, go, W, t, v)
      BY <1>14, <3>1, <3>3, <3>4, <3>5 DEF Labelled
    <3> QED BY <2>2, <3>6
  <2>4. CASE MissedBy(G, root, go, s, top, t, v)
    <3>1. t.best[v] = s.best[v] /\ t.depth[v] = s.depth[v] /\ t.hop[v] = s.hop[v]
      BY <1>8, <2>4
    <3>2. ASSUME t.best[v] < U PROVE Labelled(G, root, d, go, W, t, v)
      <4>1. Labelled(G, root, d, go, W, s, v)
        BY <2>1, <3>1, <3>2
      <4> DEFINE w == s.hop[v].from
      <4>2. w \in I
        <5>1. s.hop[v] \in Legal(G, root, go)
          BY <4>1 DEF Labelled
        <5> QED BY <1>0, <5>1, LegalIs DEF I
      <4>3. s.best[w] <= c
        BY <4>1 DEF Labelled, c
      <4>4. t.best[w] = s.best[w] /\ t.depth[w] = s.depth[w]
        BY <1>10, <4>2, <4>3
      <4>5. \A p \in t.heap : t.best[w] <= p[1]
        BY <1>2, <1>3, <1>12, <4>2, <4>3, <4>4
      <4>6. t.hop[v].from = w
        BY <3>1
      <4> QED BY <3>1, <4>1, <4>4, <4>5, <4>6 DEF Labelled
    <3> QED BY <2>2, <3>2
  <2> QED BY <1>6, <2>3, <2>4
<1>17. ASSUME NEW p \in t.heap PROVE Entered(d, t, p)
  <2>1. CASE p \in s.heap /\ p # top
    <3> DEFINE v == p[3]
    <3>1. v \in I /\ p[1] \in Nat /\ s.best[v] <= p[1] /\ p[1] < U /\ (p[1] = s.best[v] => p[2] = s.depth[v])
      BY <1>2, <1>4, <2>1 DEF Entered
    <3>2. t.best[v] <= p[1]
      <4> HIDE DEF v
      <4> QED BY <1>2, <1>3, <1>9, <3>1
    <3>3. p[1] = t.best[v] => p[2] = t.depth[v]
      <4> HIDE DEF v
      <4>0. t.best[v] \in Nat /\ s.best[v] \in Nat
        BY <1>2, <1>3, <3>1
      <4>1. CASE HitBy(G, root, go, s, top, t, v)
        <5>1. t.best[v] < s.best[v]
          BY <1>7, <3>1, <4>1
        <5> QED BY <3>1, <4>0, <5>1
      <4>2. CASE MissedBy(G, root, go, s, top, t, v)
        <5>1. t.best[v] = s.best[v] /\ t.depth[v] = s.depth[v]
          BY <1>8, <3>1, <4>2
        <5> QED BY <3>1, <5>1
      <4> QED BY <1>6, <3>1, <4>1, <4>2
    <3> QED BY <3>1, <3>2, <3>3 DEF Entered
  <2>2. ASSUME NEW v \in I, HitBy(G, root, go, s, top, t, v), p = <<t.best[v], t.depth[v], v>>
        PROVE  Entered(d, t, p)
    <3>1. p[1] = t.best[v] /\ p[2] = t.depth[v] /\ p[3] = v
      BY <2>2
    <3>2. t.best[v] < s.best[v] /\ v # root
      BY <1>7, <2>2
    <3>3. s.best[v] <= U
      BY <3>2 DEF IsTrail, I
    <3>4. t.best[v] < U /\ t.best[v] <= t.best[v]
      BY <1>0, <1>2, <1>3, <3>2, <3>3
    <3> QED BY <3>1, <3>4 DEF Entered
  <2> QED BY <1>11, <2>1, <2>2
<1>18. ASSUME NEW w \in I, t.best[w] < U PROVE Handled(G, root, d, go, t, w)
  <2>1. CASE HitBy(G, root, go, s, top, t, w)
    BY <1>7, <2>1 DEF Handled
  <2>2. CASE MissedBy(G, root, go, s, top, t, w)
    <3>1. t.best[w] = s.best[w] /\ t.depth[w] = s.depth[w]
      BY <1>8, <2>2
    <3>2. Handled(G, root, d, go, s, w)
      BY <1>18, <3>1 DEF IsTrail, I
    <3>3. CASE s.depth[w] >= d
      BY <3>1, <3>3 DEF Handled
    <3>4. CASE Relaxed(G, root, go, s, w)
      <4>1. ASSUME NEW fl \in Legal(G, root, go), fl.from = w PROVE t.best[fl.to] <= t.best[w] + fl.step
        <5>1. s.best[fl.to] <= s.best[w] + fl.step /\ fl.to \in I /\ fl.step \in Nat
          BY <1>0, <3>4, <4>1, LegalIs DEF Relaxed, I
        <5> QED BY <1>2, <1>3, <1>9, <3>1, <5>1
      <4>2. Relaxed(G, root, go, t, w)
        BY <4>1 DEF Relaxed
      <4> QED BY <4>2 DEF Handled
    <3>5. CASE <<s.best[w], s.depth[w], w>> \in s.heap
      <4>1. CASE <<s.best[w], s.depth[w], w>> # top
        <5>1. <<s.best[w], s.depth[w], w>> \in t.heap
          BY <3>5, <4>1 DEF Expanded
        <5> QED BY <3>1, <5>1 DEF Handled
      <4>2. CASE <<s.best[w], s.depth[w], w>> = top
        <5>1. w = u
          BY <1>5, <4>2
        <5>2. ASSUME NEW fl \in Legal(G, root, go), fl.from = u PROVE t.best[fl.to] <= t.best[u] + fl.step
          <6> DEFINE v == fl.to
          <6>1. v \in I /\ fl.step \in Nat /\ fl \in G.flows
            BY <1>0, LegalIs DEF I
          <6>2. CASE HitBy(G, root, go, s, top, t, v)
            <7>1. PICK gl \in Legal(G, root, go) : gl.from = u /\ gl.to = v /\ t.best[v] = c + gl.step
              BY <1>7, <6>1, <6>2
            <7>2. gl \in G.flows
              BY <1>0, LegalIs
            <7>3. gl = fl
              BY <1>0, <5>2, <6>1, <7>1, <7>2 DEF Single
            <7> QED BY <1>2, <1>14, <6>1, <7>1, <7>3
          <6>3. CASE MissedBy(G, root, go, s, top, t, v)
            <7>1. t.best[v] = s.best[v] /\ s.best[v] <= c + fl.step
              BY <1>8, <5>2, <6>1, <6>3
            <7> QED BY <1>14, <7>1
          <6> QED BY <1>6, <6>1, <6>2, <6>3
        <5>3. Relaxed(G, root, go, t, w)
          BY <5>1, <5>2 DEF Relaxed
        <5> QED BY <5>3 DEF Handled
      <4> QED BY <4>1, <4>2
    <3> QED BY <3>2, <3>3, <3>4, <3>5 DEF Handled
  <2> QED BY <1>6, <2>1, <2>2
<1> QED BY <1>1, <1>13, <1>16, <1>17, <1>18 DEF IsTrail, I, U

\* What a search still has to do, at most.
Weight(G, root, s) == Cardinality(s.heap) + SumFunctionOnSet(s.best, Ids(G, root))

LEMMA WeightIs ==
    ASSUME NEW G, NEW root, NEW d, Asked(G, root, d), NEW s \in Searches(G, root), IsFiniteSet(s.heap)
    PROVE  /\ Weight(G, root, s) \in Nat /\ Cardinality(s.heap) \in Nat
           /\ SumFunctionOnSet(s.best, Ids(G, root)) \in Nat
           /\ Cardinality(s.heap) <= Weight(G, root, s)
<1>1. IsFiniteSet(Ids(G, root)) /\ \A v \in Ids(G, root) : s.best[v] \in Nat
  BY IdsAre, SearchIs
<1>2. SumFunctionOnSet(s.best, Ids(G, root)) \in Nat
  BY <1>1, SumNat
<1>3. Cardinality(s.heap) \in Nat
  BY FS_CardinalityType
<1> QED BY <1>2, <1>3 DEF Weight

LEMMA DropShrinks ==
    ASSUME NEW G, NEW root, NEW d, Asked(G, root, d), NEW s \in Searches(G, root), IsFiniteSet(s.heap),
           NEW top \in s.heap, NEW t, t = [s EXCEPT !.heap = @ \ {top}]
    PROVE  Weight(G, root, t) < Weight(G, root, s)
<1>1. t.best = s.best /\ t.heap = s.heap \ {top}
  BY DEF Searches
<1>2. Cardinality(s.heap \ {top}) = Cardinality(s.heap) - 1
  BY FS_RemoveElement
<1>3. Cardinality(s.heap) \in Nat /\ SumFunctionOnSet(s.best, Ids(G, root)) \in Nat
  BY WeightIs
<1> QED BY <1>1, <1>2, <1>3 DEF Weight

LEMMA ExpandShrinks ==
    ASSUME NEW G, NEW root, NEW d, Asked(G, root, d), NEW go, NEW s \in Searches(G, root), IsFiniteSet(s.heap),
           NEW top \in s.heap, NEW t, Expanded(G, root, go, s, top, t)
    PROVE  Weight(G, root, t) < Weight(G, root, s)
<1> DEFINE I == Ids(G, root)
           H == {v \in I : t.best[v] < s.best[v]}
           entry == [v \in H |-> <<t.best[v], t.depth[v], v>>]
           new == {entry[v] : v \in H}
           one == [v \in I |-> IF v \in H THEN 1 ELSE 0]
           up == [v \in I |-> t.best[v] + one[v]]
<1>0. t \in Searches(G, root) /\ IsFiniteSet(t.heap) /\ IsFiniteSet(I) /\ IsGraph(G)
  BY IdsAre DEF Expanded, Asked
<1>1. \A v \in I : s.best[v] \in Nat /\ t.best[v] \in Nat
  BY <1>0, SearchIs DEF I
<1>2. \A v \in I : HitBy(G, root, go, s, top, t, v) => v \in H
  <2>1. ASSUME NEW v \in I, HitBy(G, root, go, s, top, t, v) PROVE t.best[v] < s.best[v]
    BY <2>1 DEF HitBy
  <2> QED BY <2>1
<1>3. \A v \in I : t.best[v] <= s.best[v]
  <2>1. ASSUME NEW v \in I PROVE t.best[v] <= s.best[v]
    <3>1. HitBy(G, root, go, s, top, t, v) => t.best[v] < s.best[v]
      BY <1>2
    <3>2. MissedBy(G, root, go, s, top, t, v) => t.best[v] = s.best[v]
      BY DEF MissedBy
    <3>3. HitBy(G, root, go, s, top, t, v) \/ MissedBy(G, root, go, s, top, t, v)
      BY DEF Expanded, I
    <3> QED BY <1>1, <3>1, <3>2, <3>3
  <2> QED BY <2>1
<1>4. H \subseteq I /\ IsFiniteSet(H) /\ Cardinality(H) \in Nat
  <2>1. H \subseteq I
    OBVIOUS
  <2> HIDE DEF H, I
  <2> QED BY <1>0, <2>1, FS_Subset, FS_CardinalityType
<1>5. t.heap \subseteq (s.heap \ {top}) \cup new
  <2>1. ASSUME NEW p \in t.heap PROVE p \in (s.heap \ {top}) \cup new
    <3>1. \/ p \in s.heap /\ p # top
          \/ \E v \in I : HitBy(G, root, go, s, top, t, v) /\ p = <<t.best[v], t.depth[v], v>>
      BY DEF Expanded, I
    <3>2. ASSUME NEW v \in I, HitBy(G, root, go, s, top, t, v), p = <<t.best[v], t.depth[v], v>>
          PROVE  p \in new
      <4>1. v \in H
        BY <1>2, <3>2
      <4>2. p = entry[v]
        BY <3>2, <4>1
      <4> HIDE DEF entry, H
      <4> QED BY <4>1, <4>2
    <3> HIDE DEF new
    <3> QED BY <3>1, <3>2
  <2> QED BY <2>1
<1>6. IsFiniteSet(new) /\ Cardinality(new) <= Cardinality(H) /\ Cardinality(new) \in Nat
  <2> HIDE DEF entry, H
  <2>1. IsFiniteSet(new) /\ Cardinality(new) <= Cardinality(H)
    BY <1>4, ImageIsSmaller
  <2> HIDE DEF new
  <2> QED BY <2>1, FS_CardinalityType
<1> HIDE DEF new
<1>7. Cardinality(t.heap) <= Cardinality(s.heap) - 1 + Cardinality(new)
  <2> DEFINE rest == s.heap \ {top}
  <2>1. IsFiniteSet(rest) /\ Cardinality(rest) = Cardinality(s.heap) - 1
    BY FS_RemoveElement
  <2>2. t.heap \subseteq rest \cup new
    BY <1>5
  <2> HIDE DEF rest
  <2>3. /\ IsFiniteSet(rest \cup new)
        /\ Cardinality(rest \cup new) = Cardinality(rest) + Cardinality(new) - Cardinality(rest \cap new)
    BY <1>6, <2>1, FS_Union
  <2>4. IsFiniteSet(rest \cap new)
    <3>1. rest \cap new \subseteq new
      OBVIOUS
    <3> QED BY <1>6, <3>1, FS_Subset
  <2>5. Cardinality(rest \cap new) \in Nat /\ Cardinality(rest) \in Nat
    BY <2>1, <2>4, FS_CardinalityType
  <2>6. Cardinality(t.heap) <= Cardinality(rest \cup new)
    BY <2>2, <2>3, FS_Subset
  <2>7. Cardinality(t.heap) \in Nat /\ Cardinality(s.heap) \in Nat /\ Cardinality(rest \cup new) \in Nat
    BY <1>0, <2>3, FS_CardinalityType
  <2> QED BY <1>6, <2>1, <2>3, <2>5, <2>6, <2>7
<1>8. \A v \in I : one[v] \in Nat /\ up[v] \in Nat /\ up[v] = t.best[v] + one[v] /\ up[v] <= s.best[v]
  <2>1. ASSUME NEW v \in I
        PROVE  one[v] \in Nat /\ up[v] \in Nat /\ up[v] = t.best[v] + one[v] /\ up[v] <= s.best[v]
    <3>1. one[v] = IF v \in H THEN 1 ELSE 0
      BY DEF one
    <3>2. v \in H => t.best[v] < s.best[v]
      OBVIOUS
    <3>3. up[v] = t.best[v] + one[v]
      BY DEF up
    <3>4. s.best[v] \in Nat /\ t.best[v] \in Nat /\ t.best[v] <= s.best[v]
      BY <1>1, <1>3
    <3> HIDE DEF H, one, up
    <3> QED BY <3>1, <3>2, <3>3, <3>4
  <2> QED BY <2>1
<1>9. \A v \in H : one[v] = 1
  <2> HIDE DEF H
  <2> QED BY <1>4
<1> HIDE DEF one, up, H, I
<1>10. SumFunctionOnSet(up, I) <= SumFunctionOnSet(s.best, I)
  BY <1>0, <1>1, <1>8, SumAtMost
<1>11. SumFunctionOnSet(up, I) = SumFunctionOnSet(t.best, I) + SumFunctionOnSet(one, I)
  <2>1. ArePlus(I, t.best, one, up)
    BY <1>0, <1>1, <1>8 DEF ArePlus
  <2> QED BY <2>1, SumPlus
<1>12. Cardinality(H) <= SumFunctionOnSet(one, I)
  <2>1. SumFunctionOnSet(one, H) = 1 * Cardinality(H)
    BY <1>4, <1>9, SumConstant
  <2>2. SumFunctionOnSet(one, H) <= SumFunctionOnSet(one, I)
    BY <1>0, <1>4, <1>8, SumSubset
  <2> QED BY <1>4, <2>1, <2>2
<1>13. /\ Cardinality(s.heap) \in Nat /\ SumFunctionOnSet(s.best, I) \in Nat
       /\ Cardinality(t.heap) \in Nat /\ SumFunctionOnSet(t.best, I) \in Nat
  BY <1>0, WeightIs DEF I
<1>14. SumFunctionOnSet(one, I) \in Nat
  BY <1>0, <1>8, SumNat
<1>15. Cardinality(t.heap) + SumFunctionOnSet(t.best, I) < Cardinality(s.heap) + SumFunctionOnSet(s.best, I)
  BY <1>4, <1>6, <1>7, <1>10, <1>11, <1>12, <1>13, <1>14
<1> QED BY <1>15 DEF Weight, I

LEMMA PopIs ==
    ASSUME NEW G, NEW root, NEW d, Asked(G, root, d), NEW go, NEW W, Routes(G, root, go, d, W),
           NEW s, IsTrail(G, root, d, go, W, s), s.heap # {}
    PROVE  /\ IsTrail(G, root, d, go, W, Pop(G, root, d, go, s))
           /\ Weight(G, root, Pop(G, root, d, go, s)) < Weight(G, root, s)
<1> DEFINE top == First(s.heap)
           stale == top[1] > s.best[top[3]] \/ top[2] > s.depth[top[3]]
           t == Pop(G, root, d, go, s)
<1>1. s \in Searches(G, root) /\ IsFiniteSet(s.heap)
  BY DEF IsTrail
<1>2. top \in s.heap /\ \A q \in s.heap : top[1] <= q[1]
  <2>1. s.heap \subseteq Nat \X Nat \X Ids(G, root) /\ Ids(G, root) \subseteq Nat
    BY <1>1, SearchIs, IdsAre
  <2> QED BY <2>1, FirstIs
<1>3. t = IF stale \/ top[2] >= d THEN [s EXCEPT !.heap = @ \ {top}] ELSE Expand(G, root, go, s, top)
  BY DEF Pop, First
<1> HIDE DEF top, t
<1>4. CASE stale \/ top[2] >= d
  <2>1. t = [s EXCEPT !.heap = @ \ {top}]
    BY <1>3, <1>4
  <2>2. IsTrail(G, root, d, go, W, t)
    BY <1>2, <1>4, <2>1, DropKeeps
  <2>3. Weight(G, root, t) < Weight(G, root, s)
    BY <1>1, <1>2, <2>1, DropShrinks
  <2> QED BY <2>2, <2>3 DEF t
<1>5. CASE ~ (stale \/ top[2] >= d)
  <2>1. Expanded(G, root, go, s, top, t)
    <3>1. t = Expand(G, root, go, s, top)
      BY <1>3, <1>5
    <3> QED BY <1>1, <1>2, <3>1, ExpandIs
  <2>2. ~ (top[1] > s.best[top[3]]) /\ ~ (top[2] > s.depth[top[3]]) /\ ~ (top[2] >= d)
    BY <1>5
  <2>3. IsTrail(G, root, d, go, W, t)
    BY <1>2, <2>1, <2>2, ExpandKeeps
  <2>4. Weight(G, root, t) < Weight(G, root, s)
    BY <1>1, <1>2, <2>1, ExpandShrinks
  <2> QED BY <2>3, <2>4 DEF t
<1> QED BY <1>4, <1>5

\* The search begins with the root alone in the heap.
Beginning(G, root, d) ==
    [best |-> [v \in Ids(G, root) |-> IF v = root THEN 0 ELSE Unreached(d)],
     depth |-> [v \in Ids(G, root) |-> IF v = root THEN 0 ELSE d],
     hop |-> [v \in Ids(G, root) |-> [from |-> root, to |-> root, step |-> 0, grounded |-> FALSE]],
     heap |-> {<<0, 0, root>>}]

LEMMA BeginningIs ==
    ASSUME NEW G, NEW root, NEW d, Asked(G, root, d), NEW go, NEW W
    PROVE  /\ IsTrail(G, root, d, go, W, Beginning(G, root, d))
           /\ Weight(G, root, Beginning(G, root, d)) <= MaxPops(Ids(G, root), d)
           /\ MaxPops(Ids(G, root), d) \in Nat
<1> DEFINE I == Ids(G, root)  U == Unreached(d)  s == Beginning(G, root, d)
           none == [from |-> root, to |-> root, step |-> 0, grounded |-> FALSE]
<1>0. IsFiniteSet(I) /\ root \in I /\ d \in Nat /\ U \in Nat /\ U > 0 /\ Cardinality(I) \in Nat
  <2>1. IsFiniteSet(I) /\ root \in I /\ d \in Nat
    BY IdsAre DEF Asked
  <2>2. U \in Nat /\ U = d * Len(Gain) + 1 /\ Len(Gain) \in Nat
    BY <2>1, UnreachedIs, StepsAre
  <2>3. d * Len(Gain) \in Nat
    BY <2>1, <2>2
  <2> HIDE DEF I, U
  <2> QED BY <2>1, <2>2, <2>3, FS_CardinalityType
<1>1. /\ s.best = [v \in I |-> IF v = root THEN 0 ELSE U] /\ s.depth = [v \in I |-> IF v = root THEN 0 ELSE d]
      /\ s.hop = [v \in I |-> none] /\ s.heap = {<<0, 0, root>>}
      /\ s = [best |-> s.best, depth |-> s.depth, hop |-> s.hop, heap |-> s.heap]
  BY DEF Beginning
<1> HIDE DEF s, U, I
<1>2. s \in Searches(G, root) /\ IsFiniteSet(s.heap) /\ Cardinality(s.heap) = 1
  <2>1. s.best \in [I -> Nat] /\ s.depth \in [I -> Nat] /\ s.heap \subseteq Nat \X Nat \X I
    BY <1>0, <1>1
  <2>2. s.hop \in [I -> Hops(G, root)]
    BY <1>1 DEF Hops
  <2>3. IsFiniteSet(s.heap) /\ Cardinality(s.heap) = 1
    BY <1>1, FS_Singleton
  <2>4. s \in Searches(G, root)
    BY <1>1, <2>1, <2>2 DEF Searches, I
  <2> QED BY <2>3, <2>4
<1>3. s.best[root] = 0 /\ s.depth[root] = 0
  BY <1>0, <1>1
<1>4. \A v \in I \ {root} : s.best[v] = U
  BY <1>1
<1>5. \A p \in s.heap : Entered(d, s, p)
  <2>1. ASSUME NEW p \in s.heap PROVE Entered(d, s, p)
    <3>1. p[1] = 0 /\ p[2] = 0 /\ p[3] = root
      BY <1>1
    <3> QED BY <1>0, <1>3, <3>1 DEF Entered, U
  <2> QED BY <2>1
<1>6. ASSUME NEW v \in I \ {root}
      PROVE  s.best[v] <= Unreached(d) /\ (s.best[v] < Unreached(d) => Labelled(G, root, d, go, W, s, v))
  BY <1>0, <1>4 DEF U
<1>7. ASSUME NEW u \in I, s.best[u] < Unreached(d) PROVE Handled(G, root, d, go, s, u)
  <2>1. u = root
    BY <1>0, <1>4, <1>7 DEF U
  <2>2. <<s.best[u], s.depth[u], u>> \in s.heap
    BY <1>1, <1>3, <2>1
  <2> QED BY <2>2 DEF Handled
<1>8. IsTrail(G, root, d, go, W, s)
  BY <1>2, <1>3, <1>5, <1>6, <1>7 DEF IsTrail, I
<1>9. SumFunctionOnSet(s.best, I) <= U * Cardinality(I)
  <2> DEFINE g == [v \in I |-> U]
  <2>1. \A v \in I : g[v] = U /\ g[v] \in Int /\ s.best[v] \in Int /\ s.best[v] <= g[v] /\ U \in Int
    BY <1>0, <1>1
  <2> HIDE DEF g
  <2>2. SumFunctionOnSet(s.best, I) <= SumFunctionOnSet(g, I)
    BY <1>0, <2>1, SumAtMost
  <2>3. SumFunctionOnSet(g, I) = U * Cardinality(I)
    BY <1>0, <2>1, SumConstant
  <2> QED BY <2>2, <2>3
<1>10. MaxPops(I, d) = Cardinality(I) * U + 1
  BY DEF MaxPops, U
<1>11. SumFunctionOnSet(s.best, I) \in Nat
  BY <1>2, WeightIs DEF I
<1> DEFINE sum == SumFunctionOnSet(s.best, I)  c == Cardinality(I)
<1>12. c * U = U * c /\ c * U \in Nat
  BY <1>0
<1>13. Weight(G, root, s) <= MaxPops(I, d) /\ MaxPops(I, d) \in Nat
  <2>1. Weight(G, root, s) = 1 + sum
    BY <1>2 DEF Weight, I
  <2>2. sum <= U * c /\ sum \in Nat /\ MaxPops(I, d) = c * U + 1
    BY <1>9, <1>10, <1>11
  <2> HIDE DEF sum, c
  <2> QED BY <1>12, <2>1, <2>2
<1> QED BY <1>8, <1>13 DEF s, I

\* It ends with an empty heap.
LEMMA SearchEnds ==
    ASSUME NEW G, NEW root, NEW d, Asked(G, root, d), NEW go, NEW W, Routes(G, root, go, d, W)
    PROVE  IsTrail(G, root, d, go, W, Walk(G, root, d, go)) /\ Walk(G, root, d, go).heap = {}
<1> DEFINE X == {s \in Searches(G, root) : IsTrail(G, root, d, go, W, s)}
           N == MaxPops(Ids(G, root), d)  v == Beginning(G, root, d)
           Go(s) == IF s.heap = {} THEN s ELSE Pop(G, root, d, go, s)
           F == [s \in X |-> Go(s)]
           Def(g) == g = [k \in 0 .. N |-> IF k = 0 THEN v ELSE Go(g[k - 1])]
           after == CHOOSE g : Def(g)
<1>0. N \in Nat /\ Weight(G, root, v) <= N
  BY BeginningIs
<1>1. v \in X
  BY BeginningIs DEF IsTrail
<1>2. ASSUME NEW s \in X
      PROVE  Go(s) \in X /\ (s.heap # {} => Weight(G, root, Go(s)) < Weight(G, root, s))
             /\ Weight(G, root, s) \in Nat /\ (Weight(G, root, s) = 0 => s.heap = {})
  <2>1. IsTrail(G, root, d, go, W, s) /\ s \in Searches(G, root) /\ IsFiniteSet(s.heap)
    BY DEF IsTrail
  <2>2. Weight(G, root, s) \in Nat /\ Cardinality(s.heap) \in Nat /\ Cardinality(s.heap) <= Weight(G, root, s)
    BY <2>1, WeightIs
  <2>3. Weight(G, root, s) = 0 => s.heap = {}
    BY <2>1, <2>2, FS_EmptySet
  <2>4. CASE s.heap = {}
    BY <2>2, <2>3, <2>4
  <2>5. CASE s.heap # {}
    <3> DEFINE t == Pop(G, root, d, go, s)
    <3>1. IsTrail(G, root, d, go, W, t) /\ Weight(G, root, t) < Weight(G, root, s)
      BY <2>1, <2>5, PopIs
    <3>2. t \in X
      BY <3>1 DEF IsTrail
    <3>3. Go(s) = t
      BY <2>5
    <3> HIDE DEF t, Go
    <3> QED BY <2>2, <2>3, <3>1, <3>2, <3>3
  <2> QED BY <2>4, <2>5
<1>3. F \in [X -> X] /\ \A s \in X : F[s] = Go(s)
  <2>1. \A s \in X : Go(s) \in X
    <3> HIDE DEF X, Go
    <3> QED BY <1>2
  <2> HIDE DEF X, Go
  <2> QED BY <2>1
<1> HIDE DEF F, X, v, N
<1>4. PICK f : Iterates(N, X, v, F, f)
  BY <1>0, <1>1, <1>3, Iteration
<1>5. f \in [0 .. N -> X] /\ f[0] = v /\ \A k \in 1 .. N : f[k - 1] \in X /\ f[k] = Go(f[k - 1])
  <2>1. f \in [0 .. N -> X] /\ f[0] = v /\ \A k \in 1 .. N : f[k] = F[f[k - 1]]
    BY <1>4 DEF Iterates
  <2>2. \A k \in 1 .. N : f[k - 1] \in X
    BY <1>0, <2>1
  <2> HIDE DEF Go
  <2> QED BY <1>3, <2>1, <2>2
<1>6. Def(after)
  <2> HIDE DEF Go
  <2>1. \A k \in 0 .. N : f[k] = IF k = 0 THEN v ELSE Go(f[k - 1])
    BY <1>0, <1>5
  <2>2. Def(f)
    BY <1>5, <2>1
  <2> HIDE DEF Def
  <2> QED BY <2>2
<1>7. Walk(G, root, d, go) = after[N]
  BY DEF Walk, N, v, Beginning, Ids
<1>8. Walk(G, root, d, go) = f[N]
  <2> HIDE DEF after, Go
  <2>1. \A k \in 0 .. N : after[k] = IF k = 0 THEN v ELSE Go(after[k - 1])
    <3> HIDE DEF v
    <3> QED BY <1>6, Zenon DEF after
  <2>2. Follows(N, X, v, F, after)
    <3>1. after[0] = v
      <4>1. 0 \in 0 .. N
        BY <1>0
      <4> QED BY <2>1, <4>1
    <3>2. ASSUME NEW k \in 1 .. N, after[k - 1] \in X PROVE after[k] = F[after[k - 1]]
      <4>1. k \in 0 .. N /\ k # 0
        BY <1>0
      <4>2. after[k] = Go(after[k - 1])
        BY <2>1, <4>1
      <4> QED BY <1>3, <3>2, <4>2
    <3> QED BY <3>1, <3>2 DEF Follows
  <2>3. after[N] = f[N]
    BY <1>4, <2>2 DEF Iterates
  <2> QED BY <1>7, <2>3
<1> DEFINE good == {k \in 0 .. N : f[k].heap = {} \/ Weight(G, root, f[k]) + k <= N}
<1>9. 0 \in good
  <2>1. 0 \in 0 .. N /\ Weight(G, root, v) \in Nat
    BY <1>0, <1>1, <1>2
  <2> QED BY <1>0, <1>5, <2>1
<1>10. ASSUME NEW k \in 0 .. N - 1, k \in good PROVE k + 1 \in good
  <2> DEFINE l == k + 1
  <2>1. l \in 1 .. N /\ l \in 0 .. N /\ l - 1 = k /\ l = k + 1 /\ k \in 0 .. N
    BY <1>0
  <2> HIDE DEF l, Go
  <2>2. f[k] \in X /\ f[l] = Go(f[k])
    BY <1>5, <2>1
  <2>3. f[l] \in X
    BY <1>2, <2>2
  <2>4. Weight(G, root, f[k]) \in Nat /\ Weight(G, root, f[l]) \in Nat
    BY <1>2, <2>2, <2>3
  <2>5. CASE f[k].heap = {}
    <3>1. f[l] = f[k]
      BY <2>2, <2>5 DEF Go
    <3> QED BY <2>1, <2>5, <3>1 DEF l
  <2>6. CASE f[k].heap # {}
    <3>1. Weight(G, root, f[l]) < Weight(G, root, f[k])
      BY <1>2, <2>2, <2>6
    <3>2. Weight(G, root, f[k]) + k <= N
      BY <1>10, <2>6
    <3>3. Weight(G, root, f[l]) + l <= N
      BY <1>0, <2>1, <2>4, <3>1, <3>2
    <3> QED BY <2>1, <3>3 DEF l
  <2> QED BY <2>5, <2>6
<1>11. f[N] \in X /\ f[N].heap = {}
  <2>1. \A k \in 0 .. N : k \in good
    <3> HIDE DEF good
    <3> QED BY <1>0, <1>9, <1>10, Counting
  <2>2. N \in 0 .. N
    BY <1>0
  <2>3. f[N] \in X /\ (f[N].heap = {} \/ Weight(G, root, f[N]) + N <= N)
    BY <1>5, <2>1, <2>2
  <2>4. Weight(G, root, f[N]) \in Nat /\ (Weight(G, root, f[N]) = 0 => f[N].heap = {})
    BY <1>2, <2>3
  <2> QED BY <1>0, <2>3, <2>4
<1> QED BY <1>8, <1>11 DEF X

\* What a search has found when its heap is empty: on at most d links, and from there on
\* only what the walks of n links and fewer say.
Found(G, root, d, go, n, W, s) ==
    /\ s \in Searches(G, root) /\ s.best[root] = 0 /\ s.depth[root] = 0
    /\ \A v \in Ids(G, root) \ {root} :
         /\ s.best[v] <= Unreached(d)
         /\ s.best[v] < Unreached(d) =>
              /\ s.depth[v] \in 1 .. d /\ <<v, s.best[v]>> \in W[s.depth[v]]
              /\ s.hop[v] \in Legal(G, root, go) /\ s.hop[v].to = v
              /\ s.best[v] = s.best[s.hop[v].from] + s.hop[v].step
              /\ s.depth[v] = s.depth[s.hop[v].from] + 1
    /\ \A u \in Ids(G, root) :
         s.best[u] < Unreached(d) /\ s.depth[u] < d => Relaxed(G, root, go, s, u)

LEMMA WalkFinds ==
    ASSUME NEW G, NEW root, NEW d, Asked(G, root, d), NEW go, NEW n \in Nat, d <= n,
           NEW W, Routes(G, root, go, n, W)
    PROVE  Found(G, root, d, go, n, W, Walk(G, root, d, go))
<1> DEFINE V == [k \in 0 .. d |-> W[k]]  s == Walk(G, root, d, go)
<1>0. d \in Nat /\ IsGraph(G)
  BY DEF Asked
<1>1. \A k \in 0 .. d : V[k] = W[k]
  OBVIOUS
<1>2. Routes(G, root, go, d, V)
  <2>1. V \in [0 .. d -> SUBSET (Ids(G, root) \X Nat)]
    <3>1. \A k \in 0 .. d : k \in 0 .. n
      BY <1>0
    <3>2. \A k \in 0 .. d : W[k] \in SUBSET (Ids(G, root) \X Nat)
      BY <3>1 DEF Routes
    <3> QED BY <3>2
  <2>2. V[0] = {<<root, 0>>}
    BY <1>0, <1>1 DEF Routes
  <2>3. \A k \in 1 .. d : V[k] = Longer(G, root, go, V[k - 1])
    <3>1. ASSUME NEW k \in 1 .. d PROVE V[k] = Longer(G, root, go, V[k - 1])
      <4>1. k \in 1 .. n /\ k \in 0 .. d /\ k - 1 \in 0 .. d
        BY <1>0
      <4>2. W[k] = Longer(G, root, go, W[k - 1])
        BY <4>1 DEF Routes
      <4>3. V[k] = W[k] /\ V[k - 1] = W[k - 1]
        BY <1>1, <4>1
      <4> QED BY <4>2, <4>3
    <3> QED BY <3>1
  <2> QED BY <2>1, <2>2, <2>3 DEF Routes
<1> HIDE DEF V
<1>3. IsTrail(G, root, d, go, V, s) /\ s.heap = {}
  BY <1>2, SearchEnds
<1> HIDE DEF s
<1>4. ASSUME NEW v \in Ids(G, root) \ {root}, s.best[v] < Unreached(d)
      PROVE  /\ s.depth[v] \in 1 .. d /\ <<v, s.best[v]>> \in W[s.depth[v]]
             /\ s.hop[v] \in Legal(G, root, go) /\ s.hop[v].to = v
             /\ s.best[v] = s.best[s.hop[v].from] + s.hop[v].step
             /\ s.depth[v] = s.depth[s.hop[v].from] + 1
  <2>1. Labelled(G, root, d, go, V, s, v)
    BY <1>3, <1>4 DEF IsTrail
  <2>2. s.depth[v] \in 0 .. d /\ s.depth[v] \in 1 .. d
    BY <1>0, <2>1 DEF Labelled
  <2>3. V[s.depth[v]] = W[s.depth[v]]
    BY <1>1, <2>2
  <2> QED BY <2>1, <2>3 DEF Labelled
<1>5. ASSUME NEW u \in Ids(G, root), s.best[u] < Unreached(d), s.depth[u] < d PROVE Relaxed(G, root, go, s, u)
  <2>1. Handled(G, root, d, go, s, u)
    BY <1>3, <1>5 DEF IsTrail
  <2>2. s.depth[u] \in Nat
    BY <1>3, SearchIs DEF IsTrail
  <2> QED BY <1>0, <1>3, <1>5, <2>1, <2>2 DEF Handled
<1>6. \A v \in Ids(G, root) \ {root} : s.best[v] <= Unreached(d)
  BY <1>3 DEF IsTrail
<1>7. s \in Searches(G, root) /\ s.best[root] = 0 /\ s.depth[root] = 0
  BY <1>3 DEF IsTrail
<1> QED BY <1>4, <1>5, <1>6, <1>7 DEF Found, s

\* An event is straight ahead when no walk to it is cheaper than one of e links, and
\* none as cheap has more.
Straight(d, W, v, m, e) ==
    /\ \E k \in 0 .. e : <<v, m>> \in W[k]
    /\ \A k \in 0 .. d + e : \A c \in Nat : <<v, c>> \in W[k] => m <= c /\ (c = m => k <= e)

LEMMA NoMore == ASSUME NEW k \in Nat, NEW d \in Nat, k <= d, NEW L \in Nat PROVE k * L <= d * L /\ k * L \in Nat
OBVIOUS

LEMMA StraightIsFound ==
    ASSUME NEW G, NEW root, NEW d, Asked(G, root, d), NEW go, NEW n \in Nat, 2 * d <= n,
           NEW W, Routes(G, root, go, n, W), NEW s, Found(G, root, d, go, n, W, s)
    PROVE  \A e \in 0 .. d : \A v \in Ids(G, root), m \in Nat : Straight(d, W, v, m, e) => s.best[v] = m
<1> DEFINE I == Ids(G, root)  U == Unreached(d)  L == Len(Gain)
           good == {e \in 0 .. d : \A v \in I, m \in Nat : Straight(d, W, v, m, e) => s.best[v] = m}
<1>0. /\ d \in Nat /\ IsGraph(G) /\ L \in Nat /\ U = d * L + 1 /\ U \in Nat /\ root \in I /\ d * L \in Nat
      /\ \A k \in 0 .. 2 * d : k \in 0 .. n
  <2>1. d \in Nat /\ IsGraph(G) /\ L \in Nat /\ root \in I
    BY StepsAre DEF Asked, Ids
  <2>2. U \in Nat /\ U = d * L + 1
    BY <2>1, UnreachedIs
  <2>3. d * L \in Nat
    BY <2>1, NoMore
  <2> HIDE DEF I, U, L
  <2> QED BY <2>1, <2>2, <2>3
<1>1. W[0] = {<<root, 0>>} /\ s.best[root] = 0 /\ s.depth[root] = 0
  BY DEF Routes, Found
<1>2. \A v \in I : s.best[v] \in Nat /\ s.depth[v] \in Nat
  <2>1. s \in Searches(G, root)
    BY DEF Found
  <2> QED BY <2>1, SearchIs DEF I
<1>3. ASSUME NEW k \in 0 .. d, NEW v, NEW c, <<v, c>> \in W[k] PROVE c \in Nat /\ c < U
  <2>1. k \in 0 .. n /\ k \in Nat /\ k <= d
    BY <1>0
  <2>2. <<v, c>>[2] <= k * L
    BY <1>0, <1>3, <2>1, RouteCost DEF L
  <2>3. W[k] \subseteq I \X Nat
    BY <1>0, <2>1, RoutesAre DEF I
  <2>4. c \in Nat /\ c <= k * L
    BY <1>3, <2>2, <2>3
  <2>5. k * L <= d * L /\ k * L \in Nat
    BY <1>0, <2>1, NoMore
  <2> HIDE DEF U, L
  <2> QED BY <1>0, <2>4, <2>5
<1>4. ASSUME NEW v \in I \ {root}, s.best[v] < U
      PROVE  s.depth[v] \in 1 .. d /\ <<v, s.best[v]>> \in W[s.depth[v]]
  BY <1>4 DEF Found, I, U
<1>5. ASSUME NEW v \in I, NEW m \in Nat, <<v, m>> \in W[0] PROVE s.best[v] = m
  BY <1>1, <1>5
<1> HIDE DEF I, U, L
<1>6. 0 \in good
  <2>1. ASSUME NEW v \in I, NEW m \in Nat, Straight(d, W, v, m, 0) PROVE s.best[v] = m
    <3>1. PICK k \in 0 .. 0 : <<v, m>> \in W[k]
      BY <2>1 DEF Straight
    <3>2. k = 0
      OBVIOUS
    <3> QED BY <1>5, <3>1, <3>2
  <2> QED BY <1>0, <2>1
<1>links. /\ \A k \in 0 .. n : W[k] \subseteq Ids(G, root) \X Nat
          /\ \A k \in 0 .. n - 1 : W[k + 1] = Longer(G, root, go, W[k])
  BY <1>0, RoutesAre
<1>7. ASSUME NEW e \in 0 .. d - 1, e \in good PROVE e + 1 \in good
  <2> DEFINE f == e + 1
  <2>0. f \in 0 .. d /\ f = e + 1 /\ e \in Nat
    BY <1>0
  <2> HIDE DEF f
  <2>1. ASSUME NEW v \in I, NEW m \in Nat, Straight(d, W, v, m, f) PROVE s.best[v] = m
    <3>1. PICK k \in 0 .. f : <<v, m>> \in W[k]
      BY <2>1 DEF Straight
    <3>2. CASE k = 0
      BY <1>5, <3>1, <3>2
    <3>3. CASE k # 0
      <4> DEFINE j == k - 1
      <4>1. j \in 0 .. e /\ j + 1 = k /\ j \in 0 .. n - 1 /\ j \in 0 .. d /\ k \in 0 .. d
        BY <1>0, <2>0, <3>3
      <4> HIDE DEF j
      <4>2. W[k] = Longer(G, root, go, W[j]) /\ W[j] \subseteq I \X Nat
        <5>1. j \in 0 .. n
          BY <4>1
        <5>2. W[j + 1] = Longer(G, root, go, W[j]) /\ W[j] \subseteq I \X Nat
          BY <1>links, <4>1, <5>1 DEF I
        <5> QED BY <4>1, <5>2
      <4>3. PICK fl \in Legal(G, root, go) : \E c \in Nat : <<fl.from, c>> \in W[j] /\ <<v, m>> = <<fl.to, c + fl.step>>
        BY <1>0, <3>1, <4>2, LongerIs, SMTT(30) DEF I
      <4>4. PICK c \in Nat : <<fl.from, c>> \in W[j] /\ <<v, m>> = <<fl.to, c + fl.step>>
        BY <4>3
      <4> DEFINE x == fl.from
      <4>5. /\ x \in I /\ fl.to \in I /\ fl.to # root /\ fl.step \in Nat /\ v = fl.to /\ m = c + fl.step
            /\ <<x, c>> \in W[j]
        BY <1>0, <4>4, LegalIs DEF I
      <4>6. Straight(d, W, x, c, e)
        <5>1. \E i \in 0 .. e : <<x, c>> \in W[i]
          BY <4>1, <4>5
        <5>2. ASSUME NEW i \in 0 .. d + e, NEW b \in Nat, <<x, b>> \in W[i] PROVE c <= b /\ (b = c => i <= e)
          <6>1. i \in 0 .. n - 1 /\ i \in 0 .. n /\ i + 1 \in 0 .. d + f
            BY <1>0, <2>0
          <6>2. W[i + 1] = Longer(G, root, go, W[i]) /\ W[i] \subseteq I \X Nat
            BY <1>links, <6>1 DEF I
          <6>3. <<fl.to, b + fl.step>> \in W[i + 1]
            BY <1>0, <5>2, <6>2, LongerIs DEF I
          <6>4. m <= b + fl.step /\ (b + fl.step = m => i + 1 <= f)
            <7>1. <<v, b + fl.step>> \in W[i + 1] /\ b + fl.step \in Nat
              BY <4>5, <6>3
            <7> QED BY <2>1, <6>1, <7>1 DEF Straight
          <6> QED BY <2>0, <4>5, <6>4
        <5> QED BY <5>1, <5>2 DEF Straight
      <4>7. s.best[x] = c
        BY <1>7, <4>5, <4>6
      <4>8. c < U /\ m < U
        <5>1. c < U
          BY <1>3, <4>1, <4>5
        <5>2. m < U
          BY <1>3, <3>1, <4>1
        <5> QED BY <5>1, <5>2
      <4>9. s.depth[x] < d
        <5>1. CASE x = root
          BY <1>0, <1>1, <2>0, <5>1
        <5>2. CASE x # root
          <6>1. s.depth[x] \in 1 .. d /\ <<x, c>> \in W[s.depth[x]]
            BY <1>4, <4>5, <4>7, <4>8, <5>2
          <6>2. s.depth[x] \in 0 .. d + e
            BY <1>0, <2>0, <6>1
          <6>3. s.depth[x] <= e
            BY <4>6, <6>1, <6>2 DEF Straight
          <6> QED BY <1>0, <2>0, <6>1, <6>3
        <5> QED BY <5>1, <5>2
      <4>10. s.best[v] <= m
        <5>1. Relaxed(G, root, go, s, x)
          BY <4>5, <4>7, <4>8, <4>9 DEF Found, I, U
        <5> QED BY <4>5, <4>7, <5>1 DEF Relaxed
      <4>11. m <= s.best[v]
        <5>1. s.best[v] < U /\ s.best[v] \in Nat /\ v \in I \ {root}
          BY <1>0, <1>2, <4>5, <4>8, <4>10
        <5>2. s.depth[v] \in 1 .. d /\ <<v, s.best[v]>> \in W[s.depth[v]]
          BY <1>4, <5>1
        <5>3. s.depth[v] \in 0 .. d + f
          BY <1>0, <2>0, <5>2
        <5> QED BY <2>1, <5>1, <5>2, <5>3 DEF Straight
      <4> QED BY <1>2, <4>10, <4>11
    <3> QED BY <3>2, <3>3
  <2>2. f \in good
    BY <2>0, <2>1
  <2> QED BY <2>2 DEF f
<1>8. \A e \in 0 .. d : e \in good
  <2> HIDE DEF good
  <2> QED BY <1>0, <1>6, <1>7, Counting
<1> QED BY <1>8 DEF I

LEMMA InertLemma == ASSUME ExposureInv PROVE UnbackedIsInert
<1> DEFINE kept == {r \in links : {r.a, r.b} \cap unbacked = {}}
<1>0. ASSUME NEW n PROVE MostImportant(Backed, n) \cap unbacked = {} /\ Backed \cap unbacked = {} /\ Backed \subseteq Nodes
  BY BackedIs
<1>1. ASSUME NEW t \in {"free", "paid"}
      PROVE  /\ GetWorldGraph(t).nodes \cap unbacked = {} /\ GetWorldGraph(t).edges \subseteq kept
             /\ DOMAIN GetExposure(t).drive \cap unbacked = {}
  <2> DEFINE limit == IF t = "free" THEN FreeLimit ELSE PaidLimit  nodes == MostImportant(Backed, limit)
  <2>1. nodes \cap unbacked = {}
    <3> HIDE DEF limit
    <3> QED BY <1>0
  <2>2. /\ GetWorldGraph(t).nodes = nodes
        /\ GetWorldGraph(t).edges = IF t = "free" THEN {} ELSE {r \in links : {r.a, r.b} \subseteq nodes}
    <3>1. limit = IF t = "free" THEN FreeLimit ELSE PaidLimit
      OBVIOUS
    <3>2. GetWorldGraph(t) = [nodes |-> nodes,
                              edges |-> IF t = "free" THEN {} ELSE {r \in links : {r.a, r.b} \subseteq nodes}]
      BY DEF GetWorldGraph
    <3> HIDE DEF nodes
    <3> QED BY <3>2
  <2>3. DOMAIN GetExposure(t).drive = nodes
    <3>1. GetExposure(t) = Exposed(limit)
      BY DEF GetExposure
    <3> HIDE DEF limit
    <3>2. DOMAIN Exposed(limit).drive = MostImportant(Backed, limit)
      BY ModelsAre
    <3> QED BY <3>1, <3>2
  <2> HIDE DEF nodes
  <2>4. GetWorldGraph(t).edges \subseteq kept
    BY <2>1, <2>2
  <2> QED BY <2>1, <2>2, <2>3, <2>4
<1>2. ASSUME NEW root \in Nodes PROVE GetEventGraph(root).connected \cap unbacked = {}
  <2>1. GetEventGraph(root).connected \subseteq Backed
    BY DEF GetEventGraph
  <2> QED BY <1>0, <2>1
<1>3. ASSUME NEW root \in Nodes, NEW t, t = GetTrace(root, 3, FALSE), NEW v \in t.reached
      PROVE  {v, t.hop[v].from} \cap unbacked = {}
  <2> DEFINE S == Backed \cap ({root} \cup UNION {{r.a, r.b} : r \in {q \in links : root \in {q.a, q.b}}})
             G == Neighbourhood(root)  s == Walk(G, root, 3, FALSE)
  <2>1. G = LoadGraph(S) /\ S \subseteq Backed /\ S \subseteq Nodes
    BY <1>0 DEF Neighbourhood
  <2> HIDE DEF S
  <2>2. IsGraph(G) /\ Single(G) /\ G.events = S
    <3> HIDE DEF G
    <3> QED BY <2>1, LoadIsSingle
  <2>3. t.hop = s.hop /\ t.reached = {w \in G.events \ {root} : s.best[w] < Unreached(3)}
    BY <1>3 DEF GetTrace, TraceConsequences
  <2> HIDE DEF s, G
  <2>4. Asked(G, root, 3)
    BY <2>2 DEF Asked
  <2>5. PICK W : Routes(G, root, FALSE, 3, W)
    BY <2>2, RoutesExist
  <2>6. Found(G, root, 3, FALSE, 3, W, s)
    <3> DEFINE d == 3  go == FALSE
    <3>0. d \in Nat /\ d <= d
      OBVIOUS
    <3>1. Asked(G, root, d) /\ Routes(G, root, go, d, W)
      BY <2>4, <2>5, Zenon
    <3> HIDE DEF d, go
    <3>2. Found(G, root, d, go, d, W, Walk(G, root, d, go))
      BY <3>0, <3>1, WalkFinds
    <3> QED BY <3>2 DEF d, go, s
  <2>7. v \in G.events /\ v # root /\ s.best[v] < Unreached(3) /\ v \in Ids(G, root)
    BY <2>3 DEF Ids
  <2>8. s.hop[v] \in Legal(G, root, FALSE)
    BY <2>6, <2>7 DEF Found
  <2>9. s.hop[v].from \in G.events
    BY <2>2, <2>8, LegalIs
  <2> QED BY <1>0, <2>1, <2>2, <2>3, <2>7, <2>9
<1>4. ASSUME NEW root \in Nodes
      PROVE  LET t == GetTrace(root, 3, FALSE) IN \A v \in t.reached : {v, t.hop[v].from} \cap unbacked = {}
  BY <1>3
<1> HIDE DEF kept
<1> QED BY <1>1, <1>2, <1>4 DEF UnbackedIsInert, kept

\* The chain t of one root, at one depth, among the events of a set.
StrongIn(events, root, walks, t, d) ==
    LET to(v) == {x \in walks : x[1] = v}
        costs(v) == {x[2] : x \in to(v)}
    IN  \A v \in events \ {root} :
          /\ v \in t.reached =>
               /\ t.depth[v] \in 1 .. d /\ <<v, t.best[v], t.depth[v]>> \in walks
               /\ t.hop[v].to = v /\ t.depth[v] = t.depth[t.hop[v].from] + 1
               /\ t.best[v] = t.best[t.hop[v].from] + t.hop[v].step
          /\ to(v) # {} /\ (\A x \in to(v) : x[2] = Min(costs(v)) => x[3] <= d)
               => v \in t.reached /\ t.best[v] = Min(costs(v))

Strongly(G, root, go, d) ==
    StrongIn(G.events, root, Walks(G, root, go, Cardinality(G.events) + 2 * d),
             TraceConsequences(G, root, d, go), d)

LEMMA ChainIsStrongest ==
    ASSUME NEW G, NEW root, NEW d, Asked(G, root, d), NEW go
    PROVE  Strongly(G, root, go, d)
<1> DEFINE n == Cardinality(G.events) + 2 * d  walks == Walks(G, root, go, n)
           t == TraceConsequences(G, root, d, go)  s == Walk(G, root, d, go)
           to(v) == {x \in walks : x[1] = v}
           costs(v) == {x[2] : x \in to(v)}
<1>0. IsGraph(G) /\ d \in Nat /\ n \in Nat /\ d <= n /\ 2 * d <= n
  <2>1. IsGraph(G) /\ d \in Nat /\ Cardinality(G.events) \in Nat
    BY FS_CardinalityType DEF Asked, IsGraph
  <2> QED BY <2>1
<1> HIDE DEF n
<1>1. PICK W : Routes(G, root, go, n, W)
  BY <1>0, RoutesExist
<1>2. /\ t.best = s.best /\ t.depth = s.depth /\ t.hop = s.hop
      /\ t.reached = {v \in G.events \ {root} : s.best[v] < Unreached(d)}
  BY DEF TraceConsequences
<1>3. Found(G, root, d, go, n, W, s)
  BY <1>0, <1>1, WalkFinds
<1> HIDE DEF s, t
<1>4. /\ \A x \in walks : x[2] \in Nat /\ x[3] \in 1 .. n /\ <<x[1], x[2]>> \in W[x[3]] /\ x = <<x[1], x[2], x[3]>>
      /\ \A k \in 1 .. n : \A v, c : <<v, c>> \in W[k] => <<v, c, k>> \in walks
  BY <1>0, <1>1, WalkMembers
<1> HIDE DEF walks
<1>5. ASSUME NEW v \in G.events \ {root}, v \in t.reached
      PROVE  /\ t.depth[v] \in 1 .. d /\ <<v, t.best[v], t.depth[v]>> \in walks
             /\ t.hop[v].to = v /\ t.depth[v] = t.depth[t.hop[v].from] + 1
             /\ t.best[v] = t.best[t.hop[v].from] + t.hop[v].step
  <2>1. v \in Ids(G, root) \ {root} /\ s.best[v] < Unreached(d)
    BY <1>2, <1>5 DEF Ids
  <2>2. /\ s.depth[v] \in 1 .. d /\ <<v, s.best[v]>> \in W[s.depth[v]] /\ s.hop[v].to = v
        /\ s.best[v] = s.best[s.hop[v].from] + s.hop[v].step
        /\ s.depth[v] = s.depth[s.hop[v].from] + 1
    BY <1>3, <2>1 DEF Found
  <2>3. s.depth[v] \in 1 .. n
    BY <1>0, <2>2
  <2>4. <<v, s.best[v], s.depth[v]>> \in walks
    BY <1>4, <2>2, <2>3
  <2> QED BY <1>2, <2>2, <2>4
<1>6. ASSUME NEW v \in G.events \ {root}, to(v) # {}, \A x \in to(v) : x[2] = Min(costs(v)) => x[3] <= d
      PROVE  v \in t.reached /\ t.best[v] = Min(costs(v))
  <2> DEFINE m == Min(costs(v))
  <2>1. m \in costs(v) /\ m \in Nat /\ \A c \in costs(v) : m <= c
    <3>1. costs(v) \subseteq Nat /\ costs(v) # {}
      BY <1>4, <1>6
    <3> HIDE DEF costs
    <3>2. m \in costs(v) /\ \A c \in costs(v) : m <= c
      BY <3>1, MinIs
    <3> HIDE DEF m
    <3> QED BY <3>1, <3>2
  <2>2. \A x \in to(v) : x[2] = m => x[3] <= d
    BY <1>6
  <2> HIDE DEF m
  <2>3. PICK x \in to(v) : x[2] = m
    BY <2>1
  <2>4. x[3] \in 1 .. d /\ <<v, m>> \in W[x[3]]
    <3>1. x \in walks /\ x[1] = v /\ x[3] <= d
      BY <2>2, <2>3
    <3> QED BY <1>0, <1>4, <2>3, <3>1
  <2>5. v \in Ids(G, root) /\ v # root
    BY DEF Ids
  <2>6. Straight(d, W, v, m, d)
    <3>1. \E k \in 0 .. d : <<v, m>> \in W[k]
      BY <1>0, <2>4
    <3>2. ASSUME NEW k \in 0 .. d + d, NEW c \in Nat, <<v, c>> \in W[k] PROVE m <= c /\ (c = m => k <= d)
      <4>1. k # 0
        <5>1. W[0] = {<<root, 0>>}
          BY <1>1 DEF Routes
        <5> QED BY <2>5, <3>2, <5>1
      <4>2. k \in 1 .. n
        BY <1>0, <4>1
      <4> DEFINE y == <<v, c, k>>
      <4>3. y \in walks
        BY <1>4, <3>2, <4>2
      <4>4. y[1] = v /\ y[2] = c /\ y[3] = k
        OBVIOUS
      <4> HIDE DEF y
      <4>5. y \in to(v)
        BY <4>3, <4>4
      <4>6. c \in costs(v)
        BY <4>4, <4>5
      <4> HIDE DEF to, costs
      <4> QED BY <2>1, <2>2, <4>4, <4>5, <4>6
    <3> QED BY <3>1, <3>2 DEF Straight
  <2>7. s.best[v] = m
    <3>1. \A e \in 0 .. d : \A u \in Ids(G, root), c \in Nat : Straight(d, W, u, c, e) => s.best[u] = c
      BY <1>0, <1>1, <1>3, StraightIsFound
    <3>2. d \in 0 .. d
      BY <1>0
    <3> QED BY <2>1, <2>5, <2>6, <3>1, <3>2
  <2>8. m < Unreached(d)
    <3> DEFINE k == x[3]  L == Len(Gain)
    <3>0. k \in Nat /\ k <= d /\ k \in 0 .. n /\ <<v, m>> \in W[k] /\ L \in Nat
      BY <1>0, <2>4, StepsAre
    <3> HIDE DEF k
    <3>1. <<v, m>>[2] <= k * L
      BY <1>0, <1>1, <3>0, RouteCost
    <3>2. m <= k * L
      BY <3>1
    <3>3. k * L <= d * L /\ k * L \in Nat /\ d * L \in Nat
      <4> HIDE DEF L
      <4>1. k * L <= d * L /\ k * L \in Nat
        BY <1>0, <3>0, NoMore
      <4>2. d * L \in Nat
        BY <1>0, <3>0, NoMore
      <4> QED BY <4>1, <4>2
    <3>4. Unreached(d) = d * L + 1
      BY <1>0, UnreachedIs
    <3> HIDE DEF L
    <3> QED BY <2>1, <3>2, <3>3, <3>4
  <2>9. v \in t.reached /\ t.best[v] = m
    BY <1>2, <2>7, <2>8
  <2> QED BY <2>9 DEF m
<1> HIDE DEF to, costs
<1> QED BY <1>5, <1>6 DEF Strongly, StrongIn, n, walks, t, to, costs

ChainHolds(root, go, d) ==
    root \in Backed =>
      StrongIn(Backed, root, Walks(LoadGraph(Backed), root, go, Cardinality(LoadGraph(Backed).events) + 2 * d),
               TraceConsequences(LoadGraph(Backed), root, d, go), d)

LEMMA TraceLemma == ASSUME ExposureInv PROVE TraceIsStrongest
<1> DEFINE G == LoadGraph(Backed)
<1>1. IsGraph(G) /\ Single(G) /\ G.events = Backed
  <2>1. Backed \subseteq Nodes
    BY BackedIs
  <2> QED BY <2>1, LoadIsSingle
<1>2. ASSUME NEW root \in Nodes, NEW go \in BOOLEAN, NEW d \in 1 .. 3 PROVE Strongly(G, root, go, d)
  <2>1. Asked(G, root, d)
    BY <1>1 DEF Asked
  <2> QED BY <2>1, ChainIsStrongest
<1>3. ASSUME NEW root \in Nodes, NEW go \in BOOLEAN, NEW d \in 1 .. 3, root \in Backed
      PROVE  Strongly(LoadGraph(Backed), root, go, d)
  BY <1>2, <1>3
<1>4. LoadGraph(Backed).events = Backed
  BY <1>1
<1> HIDE DEF G
<1>5. ASSUME NEW root \in Nodes, NEW go \in BOOLEAN, NEW d \in 1 .. 3
      PROVE  ChainHolds(root, go, d)
  <2>1. ASSUME root \in Backed PROVE ChainHolds(root, go, d)
    <3>1. Strongly(LoadGraph(Backed), root, go, d)
      BY <1>3, <2>1
    <3> QED BY <1>4, <3>1 DEF Strongly, ChainHolds
  <2>2. ASSUME root \notin Backed PROVE ChainHolds(root, go, d)
    BY <2>2 DEF ChainHolds
  <2> QED BY <2>1, <2>2
<1> QED BY <1>5 DEF TraceIsStrongest, ChainHolds, StrongIn
-----------------------------------------------------------------------------
(* The theorems.                                                           *)

\* However events are linked and lose their backing (graph_worker.py, corroboration.py),
\* what is stored stays a graph: links of the menu, at most one between two events.
THEOREM GraphIsLinkedOnce == ExposureSpec => []ExposureInv
  <1>1. ExposureInit => ExposureInv
    BY ExposureInvInit
  <1>2. ExposureInv /\ [ExposureNext]_exposureVars => ExposureInv'
    BY ExposureInvNext
  <1> QED
    BY <1>1, <1>2, PTL DEF ExposureSpec

\* For any events, links, scores and limits, propagation.py and tracer.py compute what
\* they explain: the attribution adds up, the diffusion is the sum over the paths, an
\* event without backing shows nowhere, the chain is of strongest paths, another link
\* takes no effect away, and scores stay in their scale.
THEOREM ExposureCorrect == ExposureSpec => []ScoresAreExplained
  <1>1. ExposureInv => ScoresAreExplained
    <2> SUFFICES ASSUME ExposureInv PROVE ScoresAreExplained
      OBVIOUS
    <2>1. AttributionAddsUp       BY AttributionLemma
    <2>2. DiffusionIsThePathSum   BY DiffusionLemma
    <2>3. UnbackedIsInert         BY InertLemma
    <2>4. TraceIsStrongest        BY TraceLemma
    <2>5. LinksOnlyAddEffect      BY LinksLemma
    <2>6. ScoresStayInScale       BY ScaleLemma
    <2> QED
      BY <2>1, <2>2, <2>3, <2>4, <2>5, <2>6 DEF ScoresAreExplained
  <1> QED
    BY <1>1, GraphIsLinkedOnce, PTL
=============================================================================
