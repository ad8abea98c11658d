---------------------------- MODULE NatInduction ----------------------------
(***************************************************************************)
(* Induction and recursion over the natural numbers and over the subsets   *)
(* of a finite set in a first-order form: a predicate is the set of what   *)
(* it holds of, the step of a recursion is a function.  All rests on <     *)
(* being well founded on Nat.  Then the sums of a function of integers,    *)
(* the way the folds of the library compute them.                          *)
(***************************************************************************)
EXTENDS Integers, WellFoundedInduction, FiniteSetTheorems, TLAPS

Less == {pair \in Nat \X Nat : pair[1] < pair[2]}

\* The order of the natural numbers is well founded.
LEMMA LessWellFounded == IsWellFoundedOn(Less, Nat)
  BY NatLessThanWellFounded DEF OpToRel, Less

\* Every set of natural numbers with a member has a least one.
LEMMA LeastMember ==
    ASSUME NEW T \in SUBSET Nat, T # {}
    PROVE  \E n \in T : \A m \in T : n <= m
<1>1. PICK n \in T : \A m \in T : ~(<<m, n>> \in Less)
  BY WFMin, LessWellFounded
<1>2. ASSUME NEW m \in T PROVE n <= m
  <2>1. ~(<<m, n>> \in Less) /\ m \in Nat /\ n \in Nat
    BY <1>1
  <2>2. ~(m < n)
    BY <2>1 DEF Less
  <2> QED
    BY <2>1, <2>2
<1> QED
  BY <1>2

\* A set that holds 0 and the successor of each of its members is Nat.
LEMMA Induction ==
    ASSUME NEW T \in SUBSET Nat, 0 \in T, \A n \in T : n + 1 \in T
    PROVE  \A n \in Nat : n \in T
<1> DEFINE U == Nat \ T
<1>1. CASE U # {}
  <2>1. PICK n \in U : \A m \in U : n <= m
    BY <1>1, LeastMember
  <2>2. n # 0 /\ n - 1 \in Nat /\ ~(n <= n - 1)
    BY <2>1
  <2>3. n - 1 \in T /\ (n - 1) + 1 = n
    BY <2>1, <2>2
  <2> QED
    BY <2>1, <2>3
<1> QED
  BY <1>1

(***************************************************************************)
(* f is what the first n steps of the recursion g make of x.               *)
(***************************************************************************)
Recursion(S, x, g, f, n) ==
    /\ f \in [0 .. n -> S]
    /\ f[0] = x
    /\ \A i \in 0 .. n - 1 : f[i + 1] = g[<<i, f[i]>>]

\* A recursion can be taken any number of steps,
LEMMA RecursionRuns ==
    ASSUME NEW S, NEW x \in S, NEW g \in [Nat \X S -> S]
    PROVE  \A n \in Nat : \E f : Recursion(S, x, g, f, n)
<1> DEFINE T == {n \in Nat : \E f : Recursion(S, x, g, f, n)}
<1>1. 0 \in T
  <2> DEFINE f == [i \in 0 .. 0 |-> x]
  <2>1. Recursion(S, x, g, f, 0)
    BY DEF Recursion
  <2> QED
    BY <2>1
<1>2. ASSUME NEW n \in T PROVE n + 1 \in T
  <2>1. PICK f : Recursion(S, x, g, f, n)
    OBVIOUS
  <2> DEFINE e == [i \in 0 .. n + 1 |-> IF i <= n THEN f[i] ELSE g[<<n, f[n]>>]]
  <2>2. /\ f \in [0 .. n -> S] /\ f[0] = x
        /\ \A i \in 0 .. n - 1 : f[i + 1] = g[<<i, f[i]>>]
    BY <2>1 DEF Recursion
  <2>3. g[<<n, f[n]>>] \in S
    BY <2>2
  <2>4. e \in [0 .. n + 1 -> S] /\ e[0] = x
    BY <2>2, <2>3
  <2>5. ASSUME NEW i \in 0 .. (n + 1) - 1 PROVE e[i + 1] = g[<<i, e[i]>>]
    <3>1. CASE i = n
      BY <3>1
    <3>2. CASE i # n
      <4>1. i \in 0 .. n - 1 /\ i + 1 \in 0 .. n /\ i \in 0 .. n
        BY <3>2
      <4>2. e[i + 1] = f[i + 1] /\ e[i] = f[i]
        BY <4>1
      <4> QED
        BY <2>2, <4>1, <4>2
    <3> QED
      BY <3>1, <3>2
  <2>6. Recursion(S, x, g, e, n + 1)
    BY <2>4, <2>5 DEF Recursion
  <2> QED
    BY <2>6
<1> HIDE DEF T
<1>3. \A n \in Nat : n \in T
  BY <1>1, <1>2, Induction DEF T
<1> QED
  BY <1>3 DEF T

\* and two runs agree as far as both go.
LEMMA RecursionAgrees ==
    ASSUME NEW S, NEW x, NEW g, NEW e, NEW f, NEW n \in Nat, NEW m \in Nat, n <= m,
           Recursion(S, x, g, e, n), Recursion(S, x, g, f, m)
    PROVE  \A i \in 0 .. n : e[i] = f[i]
<1> DEFINE T == {i \in Nat : i <= n => e[i] = f[i]}
<1>1. 0 \in T
  BY DEF Recursion
<1>2. ASSUME NEW i \in T PROVE i + 1 \in T
  <2>1. SUFFICES ASSUME i + 1 <= n PROVE e[i + 1] = f[i + 1]
    OBVIOUS
  <2>2. i \in 0 .. n - 1 /\ i \in 0 .. m - 1 /\ i <= n
    BY <2>1
  <2>3. e[i] = f[i]
    BY <2>2
  <2>4. e[i + 1] = g[<<i, e[i]>>] /\ f[i + 1] = g[<<i, f[i]>>]
    BY <2>2 DEF Recursion
  <2> QED
    BY <2>3, <2>4
<1> HIDE DEF T
<1>3. \A i \in Nat : i \in T
  BY <1>1, <1>2, Induction DEF T
<1> QED
  BY <1>3 DEF T

(***************************************************************************)
(* So each step of a recursion is defined for every number at once.        *)
(***************************************************************************)
Runs(S, x, g, h) == /\ h \in [Nat -> S] /\ h[0] = x
                    /\ \A n \in Nat : h[n + 1] = g[<<n, h[n]>>]

\* There is such a function for every first value and every step.
LEMMA RecursionDefined ==
    ASSUME NEW S, NEW x \in S, NEW g \in [Nat \X S -> S]
    PROVE  \E h : Runs(S, x, g, h)
<1> DEFINE R(f, n) == Recursion(S, x, g, f, n)
           At(n) == CHOOSE f : R(f, n)
           h == [n \in Nat |-> At(n)[n]]
<1>1. ASSUME NEW n \in Nat PROVE R(At(n), n)
  <2>1. \E f : R(f, n)
    BY RecursionRuns
  <2> QED
    BY <2>1
<1> HIDE DEF At, R
<1>2. h \in [Nat -> S]
  <2>1. ASSUME NEW n \in Nat PROVE At(n)[n] \in S
    BY <1>1 DEF R, Recursion
  <2> QED
    BY <2>1
<1>3. h[0] = x
  BY <1>1 DEF R, Recursion
<1>4. ASSUME NEW n \in Nat PROVE h[n + 1] = g[<<n, h[n]>>]
  <2>1. R(At(n), n) /\ R(At(n + 1), n + 1)
    BY <1>1
  <2>2. At(n)[n] = At(n + 1)[n]
    BY <2>1, RecursionAgrees DEF R
  <2>3. At(n + 1)[n + 1] = g[<<n, At(n + 1)[n]>>]
    BY <2>1 DEF R, Recursion
  <2> QED
    BY <2>2, <2>3
<1> HIDE DEF h
<1> QED
  BY <1>2, <1>3, <1>4 DEF Runs
-----------------------------------------------------------------------------
\* The powers of two are positive and double.
LEMMA PowerOfTwo ==
    ASSUME NEW n \in Nat
    PROVE  2 ^ n \in Nat \ {0} /\ 2 ^ (n + 1) = 2 * 2 ^ n
<1> DEFINE S == 1 .. n
           T == SUBSET S
           U == {X \cup {n + 1} : X \in T}
<1>1. ASSUME NEW k \in Nat
      PROVE  /\ IsFiniteSet(SUBSET (1 .. k)) /\ Cardinality(SUBSET (1 .. k)) = 2 ^ k
             /\ 2 ^ k \in Nat \ {0}
  <2>1. IsFiniteSet(1 .. k) /\ Cardinality(1 .. k) = k
    BY FS_Interval
  <2>2. IsFiniteSet(SUBSET (1 .. k)) /\ Cardinality(SUBSET (1 .. k)) = 2 ^ k
    BY <2>1, FS_SUBSET
  <2>3. Cardinality(SUBSET (1 .. k)) \in Nat
    BY <2>2, FS_CardinalityType
  <2>4. SUBSET (1 .. k) # {}
    OBVIOUS
  <2>5. Cardinality(SUBSET (1 .. k)) # 0
    BY <2>2, <2>4, FS_EmptySet
  <2> QED
    BY <2>2, <2>3, <2>5
<1>2. SUBSET (1 .. n + 1) = T \cup U
  <2>1. ASSUME NEW X \in SUBSET (1 .. n + 1) PROVE X \in T \cup U
    <3>1. CASE n + 1 \in X
      <4>1. X \ {n + 1} \in T /\ X = (X \ {n + 1}) \cup {n + 1}
        BY <3>1
      <4> QED
        BY <4>1
    <3>2. CASE n + 1 \notin X
      BY <3>2
    <3> QED
      BY <3>1, <3>2
  <2>2. ASSUME NEW X \in T \cup U PROVE X \in SUBSET (1 .. n + 1)
    OBVIOUS
  <2> QED
    BY <2>1, <2>2
<1>3. T \cap U = {}
  <2>1. n + 1 \notin S
    OBVIOUS
  <2> QED
    BY <2>1
<1>4. ExistsBijection(T, U)
  <2> DEFINE f == [X \in T |-> X \cup {n + 1}]
  <2>1. f \in [T -> U]
    OBVIOUS
  <2>2. ASSUME NEW X \in T, NEW Y \in T, f[X] = f[Y] PROVE X = Y
    <3>1. X \cup {n + 1} = Y \cup {n + 1} /\ n + 1 \notin X /\ n + 1 \notin Y
      BY <2>2
    <3> QED
      BY <3>1
  <2>3. \A Y \in U : \E X \in T : f[X] = Y
    OBVIOUS
  <2> HIDE DEF f, T, U
  <2> QED
    BY <2>1, <2>2, <2>3 DEF ExistsBijection, Bijection, Injection, Surjection, IsInjective
<1>5. IsFiniteSet(U) /\ Cardinality(U) = Cardinality(T)
  BY <1>1, <1>4, FS_Bijection
<1>6. Cardinality(T \cup U) = Cardinality(T) + Cardinality(U) - Cardinality(T \cap U)
  BY <1>1, <1>5, FS_Union
<1>7. Cardinality(T \cap U) = 0
  BY <1>3, FS_EmptySet
<1>8. /\ Cardinality(T) = 2 ^ n /\ 2 ^ n \in Nat \ {0}
      /\ Cardinality(T \cup U) = 2 ^ (n + 1)
  <2>1. n + 1 \in Nat
    OBVIOUS
  <2>2. Cardinality(SUBSET (1 .. n + 1)) = 2 ^ (n + 1)
    BY <1>1, <2>1
  <2> QED
    BY <1>1, <1>2, <2>2
<1> HIDE DEF T, U
<1>9. 2 ^ (n + 1) = 2 ^ n + 2 ^ n - 0
  BY <1>5, <1>6, <1>7, <1>8
<1> QED
  BY <1>8, <1>9

\* Induction over the subsets of a finite set, again with a set for the predicate.
LEMMA SetInduction ==
    ASSUME NEW S, IsFiniteSet(S), NEW T, {} \in T,
           \A s \in SUBSET S : \A x \in s : s \ {x} \in T => s \in T
    PROVE  \A s \in SUBSET S : s \in T
<1> DEFINE N == {n \in Nat : \A s \in SUBSET S : Cardinality(s) = n => s \in T}
<1>1. \A s \in SUBSET S : IsFiniteSet(s) /\ Cardinality(s) \in Nat
  BY FS_Subset, FS_CardinalityType
<1>2. 0 \in N
  BY <1>1, FS_EmptySet
<1>3. ASSUME NEW n \in N PROVE n + 1 \in N
  <2>1. SUFFICES ASSUME NEW s \in SUBSET S, Cardinality(s) = n + 1 PROVE s \in T
    OBVIOUS
  <2>2. s # {}
    BY <1>1, <2>1, FS_EmptySet
  <2>3. PICK x \in s : TRUE
    BY <2>2
  <2>4. Cardinality(s \ {x}) = n /\ s \ {x} \in SUBSET S
    BY <1>1, <2>1, <2>3, FS_RemoveElement
  <2>5. s \ {x} \in T
    BY <2>4
  <2> QED
    BY <2>3, <2>5
<1> HIDE DEF N
<1>4. \A n \in Nat : n \in N
  BY <1>2, <1>3, Induction DEF N
<1> QED
  BY <1>1, <1>4 DEF N

(***************************************************************************)
(* The recursion of the folds: g takes one member of the set after         *)
(* another, in the order c chooses.                                        *)
(***************************************************************************)
Folds(D, x, c, G, g) ==
    g = [s \in SUBSET D |-> IF s = {} THEN x ELSE G[<<c[s], g[s \ {c[s]}]>>]]

\* It is defined over every finite set.
LEMMA FoldDefined ==
    ASSUME NEW D, IsFiniteSet(D), NEW c, \A s \in SUBSET D : s # {} => c[s] \in s,
           NEW V, NEW x \in V, NEW G \in [D \X V -> V]
    PROVE  \E g : g \in [SUBSET D -> V] /\ Folds(D, x, c, G, g)
<1> DEFINE W == [SUBSET D -> V]
           Step(h) == [s \in SUBSET D |-> IF s = {} THEN x ELSE G[<<c[s], h[s \ {c[s]}]>>]]
           first == [s \in SUBSET D |-> x]
           step == [p \in Nat \X W |-> Step(p[2])]
<1>1. first \in W
  OBVIOUS
<1>2. ASSUME NEW h \in W PROVE Step(h) \in W
  <2>1. ASSUME NEW s \in SUBSET D, s # {} PROVE G[<<c[s], h[s \ {c[s]}]>>] \in V
    <3>1. c[s] \in D /\ s \ {c[s]} \in SUBSET D
      BY <2>1
    <3>2. h[s \ {c[s]}] \in V
      BY <3>1
    <3> QED
      BY <3>1, <3>2
  <2> QED
    BY <2>1
<1>3. step \in [Nat \X W -> W]
  <2> HIDE DEF Step, W
  <2> QED
    BY <1>2
<1>4. ASSUME NEW n \in Nat, NEW h \in W PROVE step[<<n, h>>] = Step(h)
  <2> HIDE DEF Step, W
  <2> QED
    OBVIOUS
<1> HIDE DEF first, step
<1>5. PICK h : Runs(W, first, step, h)
  BY <1>1, <1>3, RecursionDefined
<1>6. h \in [Nat -> W] /\ \A n \in Nat : h[n + 1] = Step(h[n])
  <2> HIDE DEF Step, W
  <2> QED
    BY <1>4, <1>5 DEF Runs
<1> DEFINE N == {n \in Nat : \A s \in SUBSET D : Cardinality(s) <= n =>
                                h[n + 1][s] = h[n][s]}
<1>7. \A s \in SUBSET D : IsFiniteSet(s) /\ Cardinality(s) \in Nat
  BY FS_Subset, FS_CardinalityType
<1>8. ASSUME NEW n \in Nat, NEW s \in SUBSET D
      PROVE  h[n + 1][s] = IF s = {} THEN x ELSE G[<<c[s], h[n][s \ {c[s]}]>>]
  <2>1. h[n + 1] = Step(h[n])
    BY <1>6
  <2> QED
    BY <2>1
<1>9. 0 \in N
  <2>1. SUFFICES ASSUME NEW s \in SUBSET D, Cardinality(s) <= 0 PROVE h[0 + 1][s] = h[0][s]
    OBVIOUS
  <2>2. s = {}
    BY <1>7, <2>1, FS_EmptySet
  <2>3. h[0][s] = x
    BY <1>5 DEF Runs, first
  <2> QED
    BY <1>8, <2>2, <2>3
<1>10. ASSUME NEW n \in N PROVE n + 1 \in N
  <2>1. SUFFICES ASSUME NEW s \in SUBSET D, Cardinality(s) <= n + 1
                 PROVE  h[n + 1 + 1][s] = h[n + 1][s]
    OBVIOUS
  <2>0. n \in Nat /\ n + 1 \in Nat
    BY DEF N
  <2>2. CASE s = {}
    BY <1>8, <2>0, <2>2
  <2>3. CASE s # {}
    <3> DEFINE t == s \ {c[s]}
    <3>0. c[s] \in s /\ IsFiniteSet(s)
      BY <1>7, <2>3
    <3>1. t \in SUBSET D /\ Cardinality(t) <= n
      <4>1. Cardinality(t) = Cardinality(s) - 1 /\ Cardinality(s) \in Nat
        BY <1>7, <3>0, FS_RemoveElement
      <4> QED
        BY <2>0, <2>1, <4>1
    <3>2. h[n + 1][t] = h[n][t]
      BY <3>1
    <3>3. h[n + 1 + 1][s] = G[<<c[s], h[n + 1][t]>>] /\ h[n + 1][s] = G[<<c[s], h[n][t]>>]
      BY <1>8, <2>0, <2>3
    <3> QED
      BY <3>2, <3>3
  <2> QED
    BY <2>2, <2>3
<1> HIDE DEF N
<1>11. \A n \in Nat : n \in N
  BY <1>9, <1>10, Induction DEF N
<1> DEFINE k == Cardinality(D)
<1>12. k \in Nat /\ \A s \in SUBSET D : Cardinality(s) <= k
  BY FS_Subset, FS_CardinalityType
<1>13. h[k] \in W /\ h[k + 1] = Step(h[k])
  BY <1>6, <1>12
<1>14. h[k + 1] \in W
  <2>1. k + 1 \in Nat
    BY <1>12
  <2> HIDE DEF W
  <2> QED
    BY <1>6, <2>1
<1>15. h[k + 1] = h[k]
  <2>1. \A s \in SUBSET D : h[k + 1][s] = h[k][s]
    BY <1>11, <1>12 DEF N
  <2>2. h[k] \in [SUBSET D -> V] /\ h[k + 1] \in [SUBSET D -> V]
    BY <1>13, <1>14
  <2> HIDE DEF k, Step, W
  <2> QED
    BY <2>1, <2>2
<1> HIDE DEF k
<1>16. Folds(D, x, c, G, h[k])
  BY <1>13, <1>15 DEF Folds
<1> QED
  BY <1>13, <1>16

(***************************************************************************)
(* The sums of a function of integers over the subsets of its domain.      *)
(***************************************************************************)
Sums(F) == CHOOSE g : g = [s \in SUBSET DOMAIN F |->
    IF s = {} THEN 0
    ELSE F[CHOOSE x \in s : TRUE] + g[s \ {CHOOSE x \in s : TRUE}]]

Summable(F, S) == IsFiniteSet(S) /\ F \in [S -> Int]

Adds(F, S, g) ==
    /\ g \in [SUBSET S -> Int]
    /\ g[{}] = 0
    /\ \A s \in SUBSET S : s # {} => \E x \in s : g[s] = F[x] + g[s \ {x}]

\* They satisfy their recursion, and are integers.
LEMMA SumsStep ==
    ASSUME NEW S, NEW F, Summable(F, S)
    PROVE  Adds(F, S, Sums(F))
<1> DEFINE c == [s \in SUBSET S |-> CHOOSE x \in s : TRUE]
           G == [p \in S \X Int |-> F[p[1]] + p[2]]
           P(g) == g = [s \in SUBSET S |->
                          IF s = {} THEN 0
                          ELSE F[CHOOSE x \in s : TRUE] + g[s \ {CHOOSE x \in s : TRUE}]]
<1>1. \A s \in SUBSET S : s # {} => c[s] \in s /\ c[s] = (CHOOSE x \in s : TRUE)
  OBVIOUS
<1>2. G \in [S \X Int -> Int] /\ \A x \in S, v \in Int : G[<<x, v>>] = F[x] + v
  BY DEF Summable
<1> HIDE DEF c, G
<1>3. PICK g : g \in [SUBSET S -> Int] /\ Folds(S, 0, c, G, g)
  <2>1. IsFiniteSet(S) /\ 0 \in Int
    BY DEF Summable
  <2> QED
    BY <1>1, <1>2, <2>1, FoldDefined
<1>4. ASSUME NEW s \in SUBSET S
      PROVE  g[s] = IF s = {} THEN 0
                    ELSE F[CHOOSE x \in s : TRUE] + g[s \ {CHOOSE x \in s : TRUE}]
  <2>1. g[s] = IF s = {} THEN 0 ELSE G[<<c[s], g[s \ {c[s]}]>>]
    BY <1>3 DEF Folds
  <2>2. CASE s = {}
    BY <2>1, <2>2
  <2>3. CASE s # {}
    <3>1. c[s] \in S /\ c[s] = (CHOOSE x \in s : TRUE) /\ s \ {c[s]} \in SUBSET S
      BY <1>1, <2>3
    <3>2. g[s \ {c[s]}] \in Int
      BY <1>3, <3>1
    <3> QED
      BY <1>2, <2>1, <2>3, <3>1, <3>2
  <2> QED
    BY <2>2, <2>3
<1>5. P(g)
  BY <1>3, <1>4
<1>6. Sums(F) = CHOOSE e : P(e)
  <2>1. DOMAIN F = S
    BY DEF Summable
  <2> QED
    BY <2>1, Zenon DEF Sums
<1> DEFINE h == CHOOSE e : P(e)
<1>7. P(h)
  BY <1>5
<1> HIDE DEF h
<1>8. DOMAIN h = SUBSET S /\ h[{}] = 0
  BY <1>7
<1>9. ASSUME NEW s \in SUBSET S, s # {}
      PROVE  \E x \in s : h[s] = F[x] + h[s \ {x}]
  <2>1. (CHOOSE x \in s : TRUE) \in s
    BY <1>9
  <2>2. h[s] = F[CHOOSE x \in s : TRUE] + h[s \ {CHOOSE x \in s : TRUE}]
    BY <1>7, <1>9
  <2> QED
    BY <2>1, <2>2
<1> DEFINE T == {s \in SUBSET S : h[s] = g[s]}
<1>10. ASSUME NEW s \in SUBSET S PROVE s \in T
  <2>1. {} \in T
    BY <1>4, <1>8
  <2>2. ASSUME NEW n \in Nat,
               \A t \in SUBSET S : Cardinality(t) = n => t \in T
        PROVE  \A t \in SUBSET S : Cardinality(t) = n + 1 => t \in T
    <3>1. SUFFICES ASSUME NEW t \in SUBSET S, Cardinality(t) = n + 1 PROVE h[t] = g[t]
      OBVIOUS
    <3>2. IsFiniteSet(t)
      BY FS_Subset DEF Summable
    <3>3. t # {}
      BY <3>1, FS_EmptySet
    <3> DEFINE x == CHOOSE x \in t : TRUE
    <3>4. x \in t
      BY <3>3
    <3>5. h[t] = F[x] + h[t \ {x}]
      BY <1>7, <3>3
    <3>6. g[t] = F[x] + g[t \ {x}]
      BY <1>4, <3>3
    <3> HIDE DEF x
    <3>7. t \ {x} \in SUBSET S /\ Cardinality(t \ {x}) = n
      BY <3>1, <3>2, <3>4, FS_RemoveElement
    <3>8. h[t \ {x}] = g[t \ {x}]
      BY <2>2, <3>7
    <3> QED
      BY <3>5, <3>6, <3>8
  <2> DEFINE N == {n \in Nat : \A t \in SUBSET S : Cardinality(t) = n => t \in T}
  <2>3. \A t \in SUBSET S : IsFiniteSet(t) /\ Cardinality(t) \in Nat
    BY FS_Subset, FS_CardinalityType DEF Summable
  <2>4. 0 \in N
    BY <2>1, <2>3, FS_EmptySet
  <2>5. \A n \in N : n + 1 \in N
    BY <2>2
  <2> HIDE DEF N
  <2>6. \A n \in Nat : n \in N
    BY <2>4, <2>5, Induction DEF N
  <2> QED
    BY <2>3, <2>6 DEF N
<1>11. h \in [SUBSET S -> Int]
  <2>1. \A s \in SUBSET S : h[s] \in Int
    BY <1>3, <1>10
  <2>2. h = [s \in SUBSET S |-> h[s]]
    BY <1>7
  <2> QED
    BY <2>1, <2>2
<1>12. Sums(F) = h
  BY <1>6 DEF h
<1> QED
  BY <1>8, <1>9, <1>11, <1>12 DEF Adds

\* The order in which the members are added makes no difference.
LEMMA SumsRemove ==
    ASSUME NEW S, NEW F, Summable(F, S), NEW s \in SUBSET S, NEW x \in s
    PROVE  Sums(F)[s] = F[x] + Sums(F)[s \ {x}]
<1> DEFINE g == Sums(F)
<1>0. g = Sums(F)
  OBVIOUS
<1> HIDE DEF g
<1>1. /\ g \in [SUBSET S -> Int]
      /\ \A t \in SUBSET S : t # {} => \E y \in t : g[t] = F[y] + g[t \ {y}]
  <2>1. Adds(F, S, g)
    BY <1>0, SumsStep
  <2> QED
    BY <2>1 DEF Adds
<1> DEFINE T == {t \in SUBSET S : \A y \in t : g[t] = F[y] + g[t \ {y}]}
           N == {n \in Nat : \A t \in SUBSET S : Cardinality(t) = n => t \in T}
<1>3. \A t \in SUBSET S : IsFiniteSet(t) /\ Cardinality(t) \in Nat
  BY FS_Subset, FS_CardinalityType DEF Summable
<1>4. \A y \in S : F[y] \in Int
  BY DEF Summable
<1>5. 0 \in N
  BY <1>3, FS_EmptySet
<1>6. ASSUME NEW n \in N PROVE n + 1 \in N
  <2>1. SUFFICES ASSUME NEW t \in SUBSET S, Cardinality(t) = n + 1, NEW y \in t
                 PROVE  g[t] = F[y] + g[t \ {y}]
    OBVIOUS
  <2>2. PICK z \in t : g[t] = F[z] + g[t \ {z}]
    BY <1>1, <2>1
  <2>3. CASE y = z
    BY <2>2, <2>3
  <2>4. CASE y # z
    <3>1. /\ Cardinality(t \ {z}) = n /\ Cardinality(t \ {y}) = n
          /\ t \ {z} \in SUBSET S /\ t \ {y} \in SUBSET S
      BY <1>3, <2>1, FS_RemoveElement
    <3>2. g[t \ {z}] = F[y] + g[(t \ {z}) \ {y}]
      <4>1. t \ {z} \in T /\ y \in t \ {z}
        BY <2>4, <3>1
      <4> QED
        BY <4>1
    <3>3. g[t \ {y}] = F[z] + g[(t \ {y}) \ {z}]
      <4>1. t \ {y} \in T /\ z \in t \ {y}
        BY <2>4, <3>1
      <4> QED
        BY <4>1
    <3>4. (t \ {y}) \ {z} = (t \ {z}) \ {y} /\ (t \ {z}) \ {y} \in SUBSET S
      OBVIOUS
    <3>5. F[y] \in Int /\ F[z] \in Int /\ g[(t \ {z}) \ {y}] \in Int
      BY <1>1, <1>4, <3>4
    <3> DEFINE r == g[(t \ {z}) \ {y}]
    <3>6. g[t] = F[z] + (F[y] + r) /\ g[t \ {y}] = F[z] + r
      BY <2>2, <3>2, <3>3, <3>4
    <3> HIDE DEF r
    <3> QED
      BY <3>5, <3>6 DEF r
  <2> QED
    BY <2>3, <2>4
<1> HIDE DEF N
<1>7. \A n \in Nat : n \in N
  BY <1>5, <1>6, Induction DEF N
<1>8. s \in T
  BY <1>3, <1>7 DEF N
<1> QED
  BY <1>8 DEF g

\* The empty sum is 0, and every sum is an integer.
LEMMA SumsType ==
    ASSUME NEW S, NEW F, Summable(F, S)
    PROVE  /\ Sums(F)[{}] = 0
           /\ \A s \in SUBSET S : Sums(F)[s] \in Int
<1>1. Adds(F, S, Sums(F))
  BY SumsStep
<1> QED
  BY <1>1 DEF Adds

\* Functions equal on a set have the same sum over it,
LEMMA SumsEqual ==
    ASSUME NEW S, NEW F, Summable(F, S), NEW R, NEW G, Summable(G, R),
           NEW s \in SUBSET (S \cap R), \A x \in s : F[x] = G[x]
    PROVE  Sums(F)[s] = Sums(G)[s]
<1> DEFINE T == {t \in SUBSET s : Sums(F)[t] = Sums(G)[t]}
<1>1. s \in SUBSET S /\ s \in SUBSET R
  OBVIOUS
<1>2. IsFiniteSet(s)
  BY <1>1, FS_Subset DEF Summable
<1>3. {} \in T
  BY SumsType
<1>4. ASSUME NEW t \in SUBSET s, NEW x \in t, t \ {x} \in T PROVE t \in T
  <2>1. t \in SUBSET S /\ t \in SUBSET R
    BY <1>1
  <2>2. Sums(F)[t] = F[x] + Sums(F)[t \ {x}]
    BY <2>1, SumsRemove
  <2>3. Sums(G)[t] = G[x] + Sums(G)[t \ {x}]
    BY <2>1, SumsRemove
  <2> QED
    BY <1>4, <2>2, <2>3
<1> HIDE DEF T
<1>5. s \in T
  BY <1>2, <1>3, <1>4, SetInduction
<1> QED
  BY <1>5 DEF T

Combines(F, G, H, a, b, S) == \A x \in S : H[x] = a * F[x] + b * G[x]

\* the sum of a linear combination is that of the sums,
LEMMA SumsLinear ==
    ASSUME NEW S, NEW F, Summable(F, S), NEW G, Summable(G, S), NEW H, Summable(H, S),
           NEW a \in Int, NEW b \in Int, Combines(F, G, H, a, b, S)
    PROVE  Combines(Sums(F), Sums(G), Sums(H), a, b, SUBSET S)
<1> DEFINE f == Sums(F)
           g == Sums(G)
           h == Sums(H)
<1>1. /\ f[{}] = 0 /\ \A s \in SUBSET S : f[s] \in Int
      /\ g[{}] = 0 /\ \A s \in SUBSET S : g[s] \in Int
      /\ h[{}] = 0 /\ \A s \in SUBSET S : h[s] \in Int
  BY SumsType
<1>2. ASSUME NEW t \in SUBSET S, NEW x \in t
      PROVE  /\ f[t] = F[x] + f[t \ {x}]
             /\ g[t] = G[x] + g[t \ {x}]
             /\ h[t] = H[x] + h[t \ {x}]
  BY SumsRemove
<1> HIDE DEF f, g, h
<1> DEFINE T == {t \in SUBSET S : h[t] = a * f[t] + b * g[t]}
<1>3. {} \in T
  BY <1>1
<1>4. ASSUME NEW t \in SUBSET S, NEW x \in t, t \ {x} \in T PROVE t \in T
  <2> DEFINE r == t \ {x}
  <2>1. r \in SUBSET S /\ h[r] = a * f[r] + b * g[r]
    BY <1>4
  <2>2. f[t] = F[x] + f[r] /\ g[t] = G[x] + g[r] /\ h[t] = H[x] + h[r]
    BY <1>2
  <2>3. /\ F[x] \in Int /\ G[x] \in Int /\ H[x] = a * F[x] + b * G[x]
        /\ f[r] \in Int /\ g[r] \in Int
    BY <1>1 DEF Summable, Combines
  <2> HIDE DEF r
  <2>4. h[t] = a * f[t] + b * g[t]
    BY <2>1, <2>2, <2>3
  <2> QED
    BY <2>4
<1> HIDE DEF T
<1>5. \A s \in SUBSET S : s \in T
  <2>1. IsFiniteSet(S)
    BY DEF Summable
  <2> QED
    BY <1>3, <1>4, <2>1, SetInduction
<1> QED
  BY <1>5 DEF T, f, g, h, Combines

\* and a function nowhere greater has no greater sum.
LEMMA SumsMonotone ==
    ASSUME NEW S, NEW F, Summable(F, S), NEW G, Summable(G, S),
           NEW s \in SUBSET S, \A x \in s : F[x] <= G[x]
    PROVE  Sums(F)[s] <= Sums(G)[s]
<1> DEFINE f == Sums(F)
           g == Sums(G)
<1>1. /\ f[{}] = 0 /\ \A t \in SUBSET S : f[t] \in Int
      /\ g[{}] = 0 /\ \A t \in SUBSET S : g[t] \in Int
  BY SumsType
<1>2. ASSUME NEW t \in SUBSET S, NEW x \in t
      PROVE  f[t] = F[x] + f[t \ {x}] /\ g[t] = G[x] + g[t \ {x}]
  BY SumsRemove
<1> HIDE DEF f, g
<1> DEFINE T == {t \in SUBSET s : f[t] <= g[t]}
<1>3. {} \in T
  BY <1>1
<1>4. ASSUME NEW t \in SUBSET s, NEW x \in t, t \ {x} \in T PROVE t \in T
  <2> DEFINE r == t \ {x}
  <2>1. t \in SUBSET S /\ r \in SUBSET S /\ f[r] <= g[r]
    BY <1>4
  <2>2. f[t] = F[x] + f[r] /\ g[t] = G[x] + g[r]
    BY <1>2, <2>1
  <2>3. F[x] \in Int /\ G[x] \in Int /\ F[x] <= G[x] /\ f[r] \in Int /\ g[r] \in Int
    BY <1>1, <2>1 DEF Summable
  <2> HIDE DEF r
  <2>4. f[t] <= g[t]
    BY <2>1, <2>2, <2>3
  <2> QED
    BY <2>4
<1> HIDE DEF T
<1>5. s \in T
  <2>1. IsFiniteSet(s)
    BY FS_Subset DEF Summable
  <2> QED
    BY <1>3, <1>4, <2>1, SetInduction
<1> QED
  BY <1>5 DEF T, f, g

\* The sum of a constant function,
LEMMA SumsConstant ==
    ASSUME NEW S, NEW F, Summable(F, S), NEW k \in Int, \A x \in S : F[x] = k
    PROVE  \A s \in SUBSET S : Sums(F)[s] = k * Cardinality(s)
<1> DEFINE f == Sums(F)
<1>1. f[{}] = 0 /\ \A t \in SUBSET S : f[t] \in Int
  BY SumsType
<1>2. ASSUME NEW t \in SUBSET S, NEW x \in t PROVE f[t] = F[x] + f[t \ {x}]
  BY SumsRemove
<1> HIDE DEF f
<1> DEFINE T == {t \in SUBSET S : f[t] = k * Cardinality(t)}
<1>3. {} \in T
  BY <1>1, FS_EmptySet
<1>4. ASSUME NEW t \in SUBSET S, NEW x \in t, t \ {x} \in T PROVE t \in T
  <2>1. IsFiniteSet(t) /\ IsFiniteSet(t \ {x})
    BY FS_Subset DEF Summable
  <2>2. Cardinality(t \ {x}) = Cardinality(t) - 1 /\ Cardinality(t) \in Nat
    BY <2>1, FS_RemoveElement, FS_CardinalityType
  <2>3. f[t] = k + f[t \ {x}]
    BY <1>2
  <2> DEFINE n == Cardinality(t)
  <2>4. f[t] = k + k * (n - 1) /\ n \in Nat
    BY <1>4, <2>2, <2>3
  <2> HIDE DEF n
  <2>5. f[t] = k * n
    BY <2>4
  <2> QED
    BY <2>5 DEF n
<1> HIDE DEF T
<1>5. \A s \in SUBSET S : s \in T
  <2>1. IsFiniteSet(S)
    BY DEF Summable
  <2> QED
    BY <1>3, <1>4, <2>1, SetInduction
<1> QED
  BY <1>5 DEF T, f

\* of two functions that differ in one place,
LEMMA SumsChange ==
    ASSUME NEW S, NEW F, Summable(F, S), NEW G, Summable(G, S),
           NEW y \in S, \A x \in S \ {y} : F[x] = G[x]
    PROVE  Sums(G)[S] = Sums(F)[S] - F[y] + G[y]
<1> DEFINE r == S \ {y}
<1>1. Sums(F)[S] = F[y] + Sums(F)[r] /\ Sums(G)[S] = G[y] + Sums(G)[r]
  BY SumsRemove
<1>2. Sums(F)[r] = Sums(G)[r]
  BY SumsEqual
<1>3. F[y] \in Int /\ G[y] \in Int /\ Sums(F)[r] \in Int
  <2>1. r \in SUBSET S
    OBVIOUS
  <2> QED
    BY <2>1, SumsType DEF Summable
<1> HIDE DEF r
<1> QED
  BY <1>1, <1>2, <1>3

\* and of one that is 0 outside a smaller set.
LEMMA SumsSupport ==
    ASSUME NEW S, NEW F, Summable(F, S), NEW r \in SUBSET S, \A x \in S \ r : F[x] = 0
    PROVE  Sums(F)[S] = Sums(F)[r]
<1> DEFINE f == Sums(F)
<1>1. f[{}] = 0 /\ \A t \in SUBSET S : f[t] \in Int
  BY SumsType
<1>2. ASSUME NEW t \in SUBSET S, NEW x \in t PROVE f[t] = F[x] + f[t \ {x}]
  BY SumsRemove
<1> HIDE DEF f
<1> DEFINE T == {t \in SUBSET S : f[t] = f[t \cap r]}
<1>3. {} \in T
  <2>1. {} \cap r = {}
    OBVIOUS
  <2> QED
    BY <2>1
<1>4. ASSUME NEW t \in SUBSET S, NEW x \in t, t \ {x} \in T PROVE t \in T
  <2>1. f[t] = F[x] + f[(t \ {x}) \cap r]
    BY <1>2, <1>4
  <2>2. CASE x \in r
    <3>1. (t \cap r) \ {x} = (t \ {x}) \cap r
      OBVIOUS
    <3>2. f[t \cap r] = F[x] + f[(t \cap r) \ {x}]
      BY <1>2, <2>2
    <3> QED
      BY <2>1, <3>1, <3>2
  <2>3. CASE x \notin r
    <3>1. (t \ {x}) \cap r = t \cap r
      BY <2>3
    <3>2. F[x] = 0 /\ f[t \cap r] \in Int
      BY <1>1, <2>3
    <3>3. f[t] = 0 + f[t \cap r]
      BY <2>1, <3>1, <3>2
    <3> QED
      BY <3>2, <3>3
  <2> QED
    BY <2>2, <2>3
<1> HIDE DEF T
<1>5. \A t \in SUBSET S : t \in T
  <2>1. IsFiniteSet(S)
    BY DEF Summable
  <2> QED
    BY <1>3, <1>4, <2>1, SetInduction
<1>6. S \cap r = r /\ S \in T
  BY <1>5
<1> QED
  BY <1>6 DEF T, f

(***************************************************************************)
(* The recursion as the library writes it, for F or for a term equal to F  *)
(* on S: there is one function that satisfies it.                          *)
(***************************************************************************)
Summing(F, S, g) == g = [s \in SUBSET S |->
    IF s = {} THEN 0
    ELSE F[CHOOSE x \in s : TRUE] + g[s \ {CHOOSE x \in s : TRUE}]]

\* Sums satisfies it,
LEMMA SumsSumming ==
    ASSUME NEW S, NEW F, Summable(F, S) PROVE Summing(F, S, Sums(F))
<1> DEFINE f == Sums(F)
<1>1. Adds(F, S, f)
  BY SumsStep
<1>2. ASSUME NEW t \in SUBSET S, NEW x \in t PROVE f[t] = F[x] + f[t \ {x}]
  BY SumsRemove
<1> HIDE DEF f
<1>3. f \in [SUBSET S -> Int] /\ f[{}] = 0
  BY <1>1 DEF Adds
<1>4. \A s \in SUBSET S :
          f[s] = IF s = {} THEN 0
                 ELSE F[CHOOSE x \in s : TRUE] + f[s \ {CHOOSE x \in s : TRUE}]
  <2>1. \A s \in SUBSET S : s # {} => (CHOOSE x \in s : TRUE) \in s
    OBVIOUS
  <2> QED
    BY <1>2, <1>3, <2>1
<1>5. Summing(F, S, f)
  BY <1>3, <1>4 DEF Summing
<1> QED
  BY <1>5 DEF f

\* and whatever else does has the same sum over S.
LEMMA SummingIs ==
    ASSUME NEW S, NEW F, Summable(F, S), NEW h, Summing(F, S, h)
    PROVE  h[S] = Sums(F)[S]
<1> DEFINE f == Sums(F)
<1>1. Summing(F, S, f)
  BY SumsSumming
<1> HIDE DEF f
<1>2. ASSUME NEW s \in SUBSET S
      PROVE  /\ f[s] = IF s = {} THEN 0
                       ELSE F[CHOOSE x \in s : TRUE] + f[s \ {CHOOSE x \in s : TRUE}]
             /\ h[s] = IF s = {} THEN 0
                       ELSE F[CHOOSE x \in s : TRUE] + h[s \ {CHOOSE x \in s : TRUE}]
  BY <1>1 DEF Summing
<1> DEFINE N == {n \in Nat : \A t \in SUBSET S : Cardinality(t) = n => h[t] = f[t]}
<1>3. \A t \in SUBSET S : IsFiniteSet(t) /\ Cardinality(t) \in Nat
  BY FS_Subset, FS_CardinalityType DEF Summable
<1>4. 0 \in N
  BY <1>2, <1>3, FS_EmptySet
<1>5. ASSUME NEW n \in N PROVE n + 1 \in N
  <2>1. SUFFICES ASSUME NEW t \in SUBSET S, Cardinality(t) = n + 1 PROVE h[t] = f[t]
    OBVIOUS
  <2>2. t # {}
    BY <1>3, <2>1, FS_EmptySet
  <2> DEFINE x == CHOOSE x \in t : TRUE
  <2>3. x \in t
    BY <2>2
  <2>4. f[t] = F[x] + f[t \ {x}] /\ h[t] = F[x] + h[t \ {x}]
    BY <1>2, <2>2
  <2> HIDE DEF x
  <2>5. t \ {x} \in SUBSET S /\ Cardinality(t \ {x}) = n
    <3>1. IsFiniteSet(t) /\ n \in Nat
      BY <1>3 DEF N
    <3>2. Cardinality(t \ {x}) = Cardinality(t) - 1
      BY <2>3, <3>1, FS_RemoveElement
    <3> QED
      BY <2>1, <3>1, <3>2
  <2>6. h[t \ {x}] = f[t \ {x}]
    BY <2>5
  <2> QED
    BY <2>4, <2>6
<1> HIDE DEF N
<1>6. \A n \in Nat : n \in N
  BY <1>4, <1>5, Induction DEF N
<1>7. IsFiniteSet(S) /\ S \in SUBSET S
  BY DEF Summable
<1>8. h[S] = f[S]
  BY <1>3, <1>6, <1>7 DEF N
<1> QED
  BY <1>8 DEF f

\* A function on a finite set is largest somewhere.
LEMMA GreatestOf ==
    ASSUME NEW S, IsFiniteSet(S), S # {}, NEW f \in [S -> Int]
    PROVE  \E n \in S : \A m \in S : f[m] <= f[n]
<1> DEFINE T == {s \in SUBSET S : s # {} => \E n \in s : \A m \in s : f[m] <= f[n]}
<1>1. {} \in T
  OBVIOUS
<1>2. ASSUME NEW s \in SUBSET S, NEW x \in s, s \ {x} \in T PROVE s \in T
  <2>1. CASE s \ {x} = {}
    <3>1. \A m \in s : m = x
      BY <2>1
    <3> QED
      BY <3>1
  <2>2. CASE s \ {x} # {}
    <3>1. PICK n \in s \ {x} : \A m \in s \ {x} : f[m] <= f[n]
      BY <1>2, <2>2
    <3>2. \A m \in s : f[m] \in Int
      OBVIOUS
    <3>3. CASE f[x] <= f[n]
      BY <3>1, <3>3
    <3>4. CASE f[n] < f[x]
      BY <3>1, <3>2, <3>4
    <3> QED
      BY <3>1, <3>2, <3>3, <3>4
  <2> QED
    BY <2>1, <2>2
<1> HIDE DEF T
<1>3. \A s \in SUBSET S : s \in T
  BY <1>1, <1>2, SetInduction
<1>4. S \in T
  BY <1>3
<1> QED
  BY <1>4 DEF T

\* A sum of naturals is a natural, and no less than any of them.
LEMMA SumsNat ==
    ASSUME NEW S, IsFiniteSet(S), NEW f \in [S -> Nat]
    PROVE  /\ Summable(f, S)
           /\ \A s \in SUBSET S : Sums(f)[s] \in Nat
           /\ \A n \in S : f[n] <= Sums(f)[S]
<1>1. Summable(f, S)
  BY DEF Summable
<1> DEFINE z == [n \in S |-> 0]
<1>2. Summable(z, S) /\ \A n \in S : z[n] = 0 /\ z[n] <= f[n]
  BY DEF Summable
<1> HIDE DEF z
<1>3. ASSUME NEW s \in SUBSET S PROVE Sums(f)[s] \in Nat
  <2>1. Sums(f)[s] \in Int /\ Sums(z)[s] <= Sums(f)[s]
    BY <1>1, <1>2, SumsType, SumsMonotone
  <2>2. Sums(z)[s] = 0 * Cardinality(s) /\ Cardinality(s) \in Nat
    BY <1>2, SumsConstant, FS_Subset, FS_CardinalityType
  <2> QED
    BY <2>1, <2>2
<1>4. ASSUME NEW n \in S PROVE f[n] <= Sums(f)[S]
  <2>1. Sums(f)[S] = f[n] + Sums(f)[S \ {n}]
    BY <1>1, SumsRemove
  <2>2. S \ {n} \in SUBSET S /\ f[n] \in Nat
    OBVIOUS
  <2>3. Sums(f)[S \ {n}] \in Nat
    BY <1>3, <2>2
  <2> QED
    BY <2>1, <2>2, <2>3
<1> QED
  BY <1>1, <1>3, <1>4
=============================================================================
