---------------------------- MODULE ExactProofs ----------------------------
(***************************************************************************)
(* What ExactInterval and NoDiv state of the coder, for every register     *)
(* width, every set of tables and messages of any length: the interval of  *)
(* the payloads that are still possible only shrinks, the payload stays    *)
(* within its bound, and the build without a divider computes the same.    *)
(***************************************************************************)
EXTENDS NoDiv, ExactInterval, RangeCodecProofs

-----------------------------------------------------------------------------
\* Powers of two are positive,
LEMMA TwoToPositive == \A n \in Nat : TwoTo[n] \in Nat \ {0}
<1> DEFINE T == {n \in Nat : TwoTo[n] \in Nat \ {0}}
<1>1. 0 \in T /\ \A n \in T : n + 1 \in T
  BY TwoToDoubles
<1> HIDE DEF T
<1>2. \A n \in Nat : n \in T
  BY <1>1, Induction DEF T
<1> QED
  BY <1>2 DEF T

\* and grow with their exponent.
LEMMA TwoToGrows ==
    ASSUME NEW m \in Nat, NEW n \in Nat
    PROVE  /\ m <= n => TwoTo[m] <= TwoTo[n]
           /\ m < n => TwoTo[m] < TwoTo[n]
<1> DEFINE T == {d \in Nat : TwoTo[m] <= TwoTo[m + d] /\ (d # 0 => TwoTo[m] < TwoTo[m + d])}
<1>1. 0 \in T
  BY TwoToPositive
<1>2. ASSUME NEW d \in T PROVE d + 1 \in T
  <2>1. d \in Nat /\ m + d \in Nat /\ m + (d + 1) = (m + d) + 1
    OBVIOUS
  <2>2. TwoTo[m + (d + 1)] = 2 * TwoTo[m + d] /\ TwoTo[m + d] \in Nat \ {0}
    BY <2>1, TwoToDoubles, TwoToPositive
  <2>3. TwoTo[m] \in Nat /\ TwoTo[m] <= TwoTo[m + d]
    BY TwoToPositive
  <2> QED
    BY <2>1, <2>2, <2>3
<1> HIDE DEF T
<1>3. \A d \in Nat : d \in T
  BY <1>1, <1>2, Induction DEF T
<1>4. ASSUME m <= n PROVE n - m \in T /\ m + (n - m) = n /\ (m < n => n - m # 0)
  BY <1>3, <1>4
<1> QED
  BY <1>4 DEF T

\* The small ones.
LEMMA TwoToSmall == TwoTo[0] = 1 /\ TwoTo[1] = 2 /\ TwoTo[2] = 4
<1>1. 0 + 1 = 1 /\ 1 + 1 = 2
  OBVIOUS
<1>2. TwoTo[0] = 1 /\ TwoTo[0 + 1] = 2 * TwoTo[0] /\ TwoTo[1 + 1] = 2 * TwoTo[1]
  BY TwoToDoubles
<1> QED
  BY <1>1, <1>2

-----------------------------------------------------------------------------
(***************************************************************************)
(* Sequences of bits as numbers.                                           *)
(***************************************************************************)

\* The value of a sequence of bits is what its recursion ends with.
LEMMA ValueRuns ==
    ASSUME NEW bits \in Seq({0, 1}), NEW g \in [Nat \X Nat -> Nat],
           \A i \in 0 .. Len(bits) - 1, v \in Nat : g[<<i, v>>] = 2 * v + bits[i + 1],
           NEW f, Recursion(Nat, 0, g, f, Len(bits))
    PROVE  Value(bits) = f[Len(bits)]
<1> DEFINE n == Len(bits)
           P(e) == e = [i \in 0 .. n |-> IF i = 0 THEN 0 ELSE 2 * e[i - 1] + bits[i]]
           c == CHOOSE e : P(e)
<1>1. n \in Nat
  OBVIOUS
<1>2. Value(bits) = c[n]
  BY DEF Value
<1>3. f \in [0 .. n -> Nat] /\ f[0] = 0 /\ \A i \in 0 .. n - 1 : f[i + 1] = 2 * f[i] + bits[i + 1]
  <2>1. /\ f \in [0 .. n -> Nat] /\ f[0] = 0
        /\ \A i \in 0 .. n - 1 : f[i + 1] = g[<<i, f[i]>>]
    BY DEF Recursion
  <2>2. ASSUME NEW i \in 0 .. n - 1 PROVE f[i] \in Nat
    BY <1>1, <2>1
  <2> QED
    BY <2>1, <2>2
<1> HIDE DEF n
<1>4. P(f)
  <2>1. ASSUME NEW i \in 0 .. n, i # 0 PROVE f[i] = 2 * f[i - 1] + bits[i]
    <3>1. i - 1 \in 0 .. n - 1 /\ (i - 1) + 1 = i
      BY <1>1, <2>1
    <3> QED
      BY <1>3, <3>1
  <2>2. \A i \in 0 .. n : f[i] = IF i = 0 THEN 0 ELSE 2 * f[i - 1] + bits[i]
    BY <1>3, <2>1
  <2> QED
    BY <1>3, <2>2
<1>5. P(c)
  BY <1>4
<1> HIDE DEF c
<1>6. c[0] = 0 /\ \A i \in 0 .. n : i # 0 => c[i] = 2 * c[i - 1] + bits[i]
  <2>1. c = [i \in 0 .. n |-> IF i = 0 THEN 0 ELSE 2 * c[i - 1] + bits[i]]
    BY <1>5
  <2>2. \A i \in 0 .. n : c[i] = IF i = 0 THEN 0 ELSE 2 * c[i - 1] + bits[i]
    BY <2>1
  <2> QED
    BY <1>1, <2>2
<1> HIDE DEF P
<1> DEFINE T == {i \in Nat : i <= n => c[i] = f[i]}
<1>7. \A i \in Nat : i \in T
  <2>1. 0 \in T
    BY <1>3, <1>6
  <2>2. ASSUME NEW i \in T PROVE i + 1 \in T
    <3>1. SUFFICES ASSUME i + 1 <= n PROVE c[i + 1] = f[i + 1]
      OBVIOUS
    <3>2. i \in 0 .. n - 1 /\ i + 1 \in 0 .. n /\ i + 1 # 0 /\ (i + 1) - 1 = i
      BY <1>1, <3>1
    <3>3. c[i] = f[i]
      BY <1>1, <3>2
    <3>4. c[i + 1] = 2 * c[i] + bits[i + 1]
      BY <1>6, <3>2
    <3> QED
      BY <1>3, <3>2, <3>3, <3>4
  <2> HIDE DEF T
  <2> QED
    BY <2>1, <2>2, Induction DEF T
<1> QED
  BY <1>1, <1>2, <1>7 DEF n

\* One more bit doubles the value and is added.
LEMMA ValueAppend ==
    ASSUME NEW bits \in Seq({0, 1}), NEW x \in {0, 1}
    PROVE  Value(bits) \in Nat /\ Value(Append(bits, x)) = 2 * Value(bits) + x
<1> DEFINE n == Len(bits)
           more == Append(bits, x)
           g == [t \in Nat \X Nat |-> 2 * t[2] + (IF t[1] \in 0 .. n THEN more[t[1] + 1] ELSE 0)]
<1>1. /\ n \in Nat /\ more \in Seq({0, 1}) /\ Len(more) = n + 1 /\ more[n + 1] = x
      /\ \A i \in 1 .. n : more[i] = bits[i]
      /\ \A i \in 0 .. n : more[i + 1] \in Nat
  OBVIOUS
<1> HIDE DEF n, more
<1>2. /\ g \in [Nat \X Nat -> Nat]
      /\ \A i \in 0 .. n, v \in Nat : g[<<i, v>>] = 2 * v + more[i + 1]
  <2>1. ASSUME NEW i \in 0 .. n, NEW v \in Nat PROVE g[<<i, v>>] = 2 * v + more[i + 1]
    <3>1. <<i, v>> \in Nat \X Nat
      BY <1>1
    <3> QED
      BY <3>1
  <2>2. ASSUME NEW t \in Nat \X Nat
        PROVE  2 * t[2] + (IF t[1] \in 0 .. n THEN more[t[1] + 1] ELSE 0) \in Nat
    <3>1. CASE t[1] \in 0 .. n
      BY <1>1, <3>1
    <3>2. CASE t[1] \notin 0 .. n
      BY <3>2
    <3> QED
      BY <3>1, <3>2
  <2> QED
    BY <2>1, <2>2
<1> HIDE DEF g
<1>3. PICK f : Recursion(Nat, 0, g, f, n + 1)
  <2>1. 0 \in Nat /\ n + 1 \in Nat
    BY <1>1
  <2> QED
    BY <1>2, <2>1, RecursionRuns
<1> DEFINE e == [i \in 0 .. n |-> f[i]]
<1>4. /\ f \in [0 .. n + 1 -> Nat] /\ f[0] = 0
      /\ \A i \in 0 .. n : f[i + 1] = g[<<i, f[i]>>]
  BY <1>1, <1>3 DEF Recursion
<1>5. Recursion(Nat, 0, g, e, n)
  BY <1>1, <1>4 DEF Recursion
<1>6. ASSUME NEW i \in 0 .. n - 1, NEW v \in Nat PROVE g[<<i, v>>] = 2 * v + bits[i + 1]
  <2>1. i \in 0 .. n /\ i + 1 \in 1 .. n
    BY <1>1
  <2> QED
    BY <1>1, <1>2, <2>1
<1>7. Value(bits) = e[n]
  <2> HIDE DEF e
  <2> QED
    BY <1>2, <1>5, <1>6, ValueRuns DEF n
<1>8. Value(more) = f[n + 1]
  <2>1. ASSUME NEW i \in 0 .. Len(more) - 1, NEW v \in Nat
        PROVE  g[<<i, v>>] = 2 * v + more[i + 1]
    <3>1. i \in 0 .. n
      BY <1>1
    <3> QED
      BY <1>2, <3>1
  <2> QED
    BY <1>1, <1>2, <1>3, <2>1, ValueRuns
<1>9. e[n] = f[n] /\ f[n] \in Nat /\ f[n + 1] = 2 * f[n] + x
  <2>1. n \in 0 .. n /\ n \in 0 .. n + 1
    BY <1>1
  <2>2. e[n] = f[n] /\ f[n] \in Nat /\ f[n + 1] = g[<<n, f[n]>>]
    BY <1>4, <2>1
  <2> QED
    BY <1>1, <1>2, <2>1, <2>2
<1> QED
  BY <1>7, <1>8, <1>9 DEF more

\* p equal bits after a sequence.
Run(p, x) == [i \in 1 .. p |-> x]

\* A run of zeros shifts the value, and a run of ones fills the places.
LEMMA ValueRun ==
    ASSUME NEW bits \in Seq({0, 1}), NEW x \in {0, 1}
    PROVE  \A p \in Nat : /\ bits \o Run(p, x) \in Seq({0, 1})
                          /\ Value(bits \o Run(p, x))
                                = Value(bits) * TwoTo[p] + x * (TwoTo[p] - 1)
<1> DEFINE V == Value(bits)
           T == {p \in Nat : /\ bits \o Run(p, x) \in Seq({0, 1})
                             /\ Value(bits \o Run(p, x)) = V * TwoTo[p] + x * (TwoTo[p] - 1)}
<1>1. V \in Nat
  BY ValueAppend
<1>2. 0 \in T
  <2>1. bits \o Run(0, x) = bits
    BY DEF Run
  <2>2. TwoTo[0] = 1 /\ V * 1 + x * (1 - 1) = V
    BY <1>1, TwoToDoubles
  <2> QED
    BY <2>1, <2>2
<1>3. ASSUME NEW p \in T PROVE p + 1 \in T
  <2> DEFINE b == bits \o Run(p, x)
             t == TwoTo[p]
  <2>1. bits \o Run(p + 1, x) = Append(b, x)
    BY DEF Run
  <2>2. p \in Nat /\ p + 1 \in Nat
    OBVIOUS
  <2>3. b \in Seq({0, 1}) /\ Value(b) = V * t + x * (t - 1) /\ t \in Nat /\ TwoTo[p + 1] = 2 * t
    BY TwoToDoubles
  <2>4. Value(Append(b, x)) = 2 * Value(b) + x /\ Append(b, x) \in Seq({0, 1})
    BY <2>3, ValueAppend, AppendBit
  <2>5. 2 * (V * t + x * (t - 1)) + x = V * (2 * t) + x * (2 * t - 1)
    <3>1. V \in Nat /\ t \in Nat
      BY <1>1, <2>3
    <3> HIDE DEF V, t
    <3>2. V * t \in Nat /\ V * (2 * t) = 2 * (V * t)
      BY <3>1
    <3>3. CASE x = 0
      BY <3>1, <3>2, <3>3
    <3>4. CASE x = 1
      BY <3>1, <3>2, <3>4
    <3> QED
      BY <3>3, <3>4
  <2> QED
    BY <2>1, <2>3, <2>4, <2>5, <2>2
<1> HIDE DEF T
<1>4. \A p \in Nat : p \in T
  BY <1>2, <1>3, Induction DEF T
<1> QED
  BY <1>4 DEF T

-----------------------------------------------------------------------------
(***************************************************************************)
(* The division without a divider.                                         *)
(***************************************************************************)

\* Products grow with either factor.
LEMMA ProductGrows ==
    ASSUME NEW a \in Nat, NEW b \in Nat, NEW c \in Nat
    PROVE  /\ a <= b => a * c <= b * c
           /\ a < b /\ c # 0 => a * c < b * c
           /\ a * c \in Nat /\ b * c \in Nat /\ a * c = c * a
<1>1. ASSUME a <= b PROVE a * c <= b * c
  <2> DEFINE d == b - a
  <2>1. d \in Nat /\ b = a + d
    BY <1>1
  <2> HIDE DEF d
  <2>2. (a + d) * c = a * c + d * c /\ d * c \in Nat /\ a * c \in Nat
    BY <2>1
  <2> QED
    BY <2>1, <2>2
<1>2. ASSUME a < b, c # 0 PROVE a * c < b * c
  <2> DEFINE d == b - a - 1
  <2>1. d \in Nat /\ b = (a + d) + 1
    BY <1>2
  <2> HIDE DEF d
  <2>2. ((a + d) + 1) * c = (a * c + d * c) + c /\ d * c \in Nat /\ a * c \in Nat
    BY <2>1
  <2> QED
    BY <1>2, <2>1, <2>2
<1> QED
  BY <1>1, <1>2

\* A quotient is known by the multiples around the dividend.
LEMMA QuotientIs ==
    ASSUME NEW a \in Nat, NEW d \in Nat \ {0}, NEW q \in Nat, NEW r \in 0 .. d - 1,
           a = q * d + r
    PROVE  a \div d = q
<1> DEFINE p == a \div d
<1>1. p \in Nat /\ p * d <= a /\ a < p * d + d
  BY Division
<1>2. q <= p
  <2>1. q * d \in Nat /\ q * d <= a
    OBVIOUS
  <2> QED
    BY <2>1, QuotientAtLeast
<1>3. ASSUME q + 1 <= p PROVE FALSE
  <2>1. (q + 1) * d <= a
    BY <1>1, <1>3, QuotientAtLeast
  <2>2. (q + 1) * d = q * d + d /\ q * d \in Nat
    OBVIOUS
  <2> QED
    BY <2>1, <2>2
<1> HIDE DEF p
<1>4. p = q
  BY <1>1, <1>2, <1>3
<1> QED
  BY <1>4 DEF p

\* Shifting one place less doubles and adds the bit that was lost.
LEMMA Shifted ==
    ASSUME NEW num \in Nat, NEW j \in Nat
    PROVE  /\ num \div TwoTo[j + 1] \in Nat /\ Bit(num, j) \in {0, 1}
           /\ num \div TwoTo[j] = 2 * (num \div TwoTo[j + 1]) + Bit(num, j)
<1> DEFINE t == TwoTo[j]
           a == num \div t
           h == a \div 2
           b == a % 2
<1>1. t \in Nat \ {0} /\ TwoTo[j + 1] = 2 * t
  BY TwoToDoubles, TwoToPositive
<1>2. a \in Nat /\ a * t <= num /\ num < a * t + t
  BY <1>1, Division
<1> HIDE DEF a
<1>3. h \in Nat /\ b \in {0, 1} /\ a = 2 * h + b
  BY <1>2
<1> HIDE DEF h, b, t
<1>4. num \div (2 * t) = h
  <2> DEFINE r == num - h * (2 * t)
  <2>1. a * t = h * (2 * t) + b * t /\ h * (2 * t) \in Nat /\ b * t \in {0, t}
    BY <1>1, <1>3
  <2>2. r \in 0 .. 2 * t - 1 /\ num = h * (2 * t) + r /\ 2 * t \in Nat \ {0}
    BY <1>1, <1>2, <2>1
  <2> HIDE DEF r
  <2> QED
    BY <1>3, <2>2, QuotientIs
<1>5. Bit(num, j) = b
  BY DEF Bit, a, b, t
<1> QED
  BY <1>1, <1>3, <1>4, <1>5 DEF a, t

\* The states of the loop of bcb_divq64.
DivStates == [q : Nat, rem : Nat]

\* An iteration keeps quotient and remainder natural numbers.
LEMMA DivStepType ==
    ASSUME NEW num \in Nat, NEW den \in Nat, NEW s \in DivStates, NEW j \in Nat
    PROVE  DivStep(num, den, s, j) \in DivStates
<1> DEFINE m == U64(2 * s.rem + Bit(num, j))
<1>1. s.q \in Nat /\ s.rem \in Nat /\ Bit(num, j) \in {0, 1}
  BY Shifted DEF DivStates
<1>2. m \in Nat
  <2> DEFINE F2 == Full * Full
  <2>1. F2 \in Nat \ {0}
    BY Sizes
  <2>2. 2 * s.rem + Bit(num, j) \in Nat
    BY <1>1
  <2> HIDE DEF F2
  <2>3. (2 * s.rem + Bit(num, j)) % F2 \in Nat
    BY <2>1, <2>2
  <2> QED
    BY <2>3 DEF U64, F2
<1> HIDE DEF m
<1>3. 2 * s.q + 1 \in Nat /\ 2 * s.q \in Nat /\ (m >= den => m - den \in Nat)
  BY <1>1, <1>2
<1>4. DivStep(num, den, s, j) = IF m >= den THEN [q |-> 2 * s.q + 1, rem |-> m - den]
                                ELSE [q |-> 2 * s.q, rem |-> m]
  BY DEF DivStep, m
<1>5. CASE m >= den
  BY <1>3, <1>4, <1>5 DEF DivStates
<1>6. CASE ~(m >= den)
  BY <1>2, <1>3, <1>4, <1>6 DEF DivStates
<1> QED
  BY <1>5, <1>6

\* What the loop has after the iteration for bit j: quotient and remainder of
\* the part of the numerator it has seen.
Divided(num, den, s, j) == /\ s \in DivStates
                           /\ s.rem < den
                           /\ s.q * den + s.rem = num \div TwoTo[j]

\* One iteration takes the numerator's next bit into account, without a wrap.
LEMMA DivStepExact ==
    ASSUME NEW num \in Nat, NEW den \in 1 .. Full, NEW j \in Nat, NEW s,
           Divided(num, den, s, j + 1)
    PROVE  Divided(num, den, DivStep(num, den, s, j), j)
<1> DEFINE b == Bit(num, j)
           m == 2 * s.rem + b
           a == num \div TwoTo[j + 1]
<1>1. s \in DivStates /\ s.q \in Nat /\ s.rem \in Nat /\ s.rem < den /\ s.q * den + s.rem = a
  BY DEF Divided, DivStates
<1>2. a \in Nat /\ b \in {0, 1} /\ num \div TwoTo[j] = 2 * a + b
  BY Shifted
<1> HIDE DEF b, a
<1>3. den \in Nat /\ den >= 1 /\ den <= Full
  BY Sizes
<1>4. m \in Nat /\ m < 2 * den
  BY <1>1, <1>2, <1>3
<1>5. U64(m) = m
  <2>1. 4 * Full <= Full * Full /\ Full \in Nat /\ Full >= 4
    <3>1. Full \in Nat /\ Full >= 4
      BY Sizes
    <3> QED
      BY <3>1
  <2>2. m < Full * Full
    BY <1>3, <1>4, <2>1
  <2> QED
    BY <1>4, <2>2, U64Fits
<1>6. DivStep(num, den, s, j) = IF m >= den THEN [q |-> 2 * s.q + 1, rem |-> m - den]
                                ELSE [q |-> 2 * s.q, rem |-> m]
  BY <1>5 DEF DivStep, b
<1>7. 2 * (s.q * den) + m = 2 * a + b /\ s.q * den \in Nat
  <2> DEFINE p == s.q * den
  <2>1. p \in Nat /\ p + s.rem = a
    BY <1>1, <1>3
  <2> HIDE DEF p
  <2>2. s.rem \in Nat /\ a \in Nat /\ b \in Nat
    BY <1>1, <1>2
  <2>3. 2 * p + (2 * s.rem + b) = 2 * a + b
    BY <2>1, <2>2
  <2> QED
    BY <2>1, <2>3 DEF p
<1>8. (2 * s.q) * den = 2 * (s.q * den) /\ (2 * s.q + 1) * den = 2 * (s.q * den) + den
  BY <1>1, <1>3
<1> HIDE DEF m
<1>9. CASE m >= den
  <2> DEFINE u == [q |-> 2 * s.q + 1, rem |-> m - den]
  <2>1. u \in DivStates /\ u.q = 2 * s.q + 1 /\ u.rem = m - den
    BY <1>1, <1>3, <1>4, <1>9 DEF DivStates
  <2>2. u.rem < den /\ u.q * den + u.rem = 2 * a + b
    BY <1>2, <1>3, <1>4, <1>7, <1>8, <2>1
  <2> QED
    BY <1>2, <1>6, <1>9, <2>1, <2>2 DEF Divided
<1>10. CASE ~(m >= den)
  <2> DEFINE u == [q |-> 2 * s.q, rem |-> m]
  <2>1. u \in DivStates /\ u.q = 2 * s.q /\ u.rem = m
    BY <1>1, <1>4 DEF DivStates
  <2>2. u.rem < den /\ u.q * den + u.rem = 2 * a + b
    BY <1>2, <1>3, <1>4, <1>7, <1>8, <1>10, <2>1
  <2> QED
    BY <1>2, <1>6, <1>10, <2>1, <2>2 DEF Divided
<1> QED
  BY <1>9, <1>10

\* A numerator of the word fits in it.
LEMMA WordSize == WordBits \in Nat /\ TwoTo[WordBits] = Full * Full
  BY WordAssumption DEF WordBits

\* bcb_divq64 computes the truncating quotient of every numerator of the word.
LEMMA bcb_divq64Exact ==
    ASSUME NEW num \in Nat, num < Full * Full, NEW den \in 1 .. Full
    PROVE  bcb_divq64(num, den) = num \div den
<1> DEFINE W == WordBits
           first == [q |-> 0, rem |-> 0]
           P(e) == e = [i \in 0 .. W |-> IF i = 0 THEN first
                                        ELSE DivStep(num, den, e[i - 1], W - i)]
           c == CHOOSE e : P(e)
           Go(t) == IF t[1] < W THEN DivStep(num, den, t[2], W - (t[1] + 1)) ELSE first
           g == [t \in Nat \X DivStates |-> Go(t)]
<1>1. W \in Nat /\ TwoTo[W] = Full * Full
  BY WordSize
<1>2. bcb_divq64(num, den) = c[W].q
  BY DEF bcb_divq64
<1>3. den \in Nat /\ den >= 1 /\ den <= Full /\ Full \in Nat
  BY Sizes
<1>4. first \in DivStates
  BY DEF DivStates
<1> HIDE DEF W, first
<1>5. g \in [Nat \X DivStates -> DivStates]
  <2>1. ASSUME NEW t \in Nat \X DivStates PROVE Go(t) \in DivStates
    <3>1. CASE t[1] < W
      <4>1. W - (t[1] + 1) \in Nat
        BY <1>1, <3>1
      <4>2. DivStep(num, den, t[2], W - (t[1] + 1)) \in DivStates
        BY <4>1, <1>3, DivStepType
      <4> QED
        BY <3>1, <4>2
    <3>2. CASE ~(t[1] < W)
      BY <1>4, <3>2
    <3> QED
      BY <3>1, <3>2
  <2> HIDE DEF Go
  <2> QED
    BY <2>1
<1>6. ASSUME NEW i \in Nat, NEW v \in DivStates, i < W
      PROVE  g[<<i, v>>] = DivStep(num, den, v, W - (i + 1))
  BY <1>6
<1> HIDE DEF g
<1>7. PICK f : Recursion(DivStates, first, g, f, W)
  BY <1>1, <1>4, <1>5, RecursionRuns
<1>8. P(f)
  <2>1. /\ f \in [0 .. W -> DivStates] /\ f[0] = first
        /\ \A i \in 0 .. W - 1 : f[i + 1] = g[<<i, f[i]>>]
    BY <1>7 DEF Recursion
  <2>2. ASSUME NEW i \in 0 .. W, i # 0 PROVE f[i] = DivStep(num, den, f[i - 1], W - i)
    <3>1. /\ i - 1 \in Nat /\ i - 1 < W /\ (i - 1) + 1 = i
          /\ i - 1 \in 0 .. W /\ i - 1 \in 0 .. W - 1
      BY <1>1, <2>2
    <3>2. f[i - 1] \in DivStates /\ f[(i - 1) + 1] = g[<<i - 1, f[i - 1]>>]
      BY <2>1, <3>1
    <3>3. g[<<i - 1, f[i - 1]>>] = DivStep(num, den, f[i - 1], W - ((i - 1) + 1))
      BY <1>6, <3>1, <3>2
    <3> QED
      BY <3>1, <3>2, <3>3
  <2>3. \A i \in 0 .. W : f[i] = IF i = 0 THEN first ELSE DivStep(num, den, f[i - 1], W - i)
    BY <2>1, <2>2
  <2> QED
    BY <2>1, <2>3
<1>9. P(c)
  BY <1>8
<1> HIDE DEF c
<1>10. /\ c[0] = first
       /\ \A i \in 0 .. W : i # 0 => c[i] = DivStep(num, den, c[i - 1], W - i)
  BY <1>1, <1>9
<1> HIDE DEF P
<1> DEFINE T == {i \in Nat : i <= W => Divided(num, den, c[i], W - i)}
<1>11. 0 \in T
  <2>1. num \div TwoTo[W] = 0
    <3>1. TwoTo[W] \in Nat \ {0} /\ num \in 0 .. TwoTo[W] - 1 /\ num = 0 * TwoTo[W] + num
      BY <1>1, TwoToPositive
    <3> QED
      BY <3>1, QuotientIs
  <2>2. c[0].q = 0 /\ c[0].rem = 0 /\ c[0] \in DivStates
    BY <1>4, <1>10 DEF first
  <2>3. W - 0 = W
    BY <1>1
  <2> QED
    BY <1>3, <2>1, <2>2, <2>3 DEF Divided
<1>12. ASSUME NEW i \in T PROVE i + 1 \in T
  <2>1. SUFFICES ASSUME i + 1 <= W PROVE Divided(num, den, c[i + 1], W - (i + 1))
    OBVIOUS
  <2> DEFINE j == W - (i + 1)
  <2>2. j \in Nat /\ j + 1 = W - i /\ i + 1 \in 0 .. W /\ i + 1 # 0 /\ (i + 1) - 1 = i /\ i <= W
    BY <1>1, <2>1
  <2>3. Divided(num, den, c[i], j + 1)
    BY <2>2
  <2>4. c[i + 1] = DivStep(num, den, c[i], j)
    BY <1>10, <2>2
  <2> HIDE DEF j
  <2>5. Divided(num, den, c[i + 1], j)
    BY <2>2, <2>3, <2>4, DivStepExact
  <2> QED
    BY <2>5 DEF j
<1> HIDE DEF T
<1>13. \A i \in Nat : i \in T
  BY <1>11, <1>12, Induction DEF T
<1>14. Divided(num, den, c[W], 0)
  <2>1. W <= W /\ W - W = 0
    BY <1>1
  <2> QED
    BY <1>1, <1>13, <2>1 DEF T
<1>15. /\ c[W].q \in Nat /\ c[W].rem \in Nat /\ c[W].rem < den
       /\ c[W].q * den + c[W].rem = num
  <2>1. num \div TwoTo[0] = num
    BY TwoToDoubles
  <2> QED
    BY <1>14, <2>1 DEF Divided, DivStates
<1>16. den \in Nat \ {0} /\ c[W].rem \in 0 .. den - 1
  BY <1>3, <1>15
<1> QED
  BY <1>2, <1>15, <1>16, QuotientIs

(***************************************************************************)
(* The cuts and the target of the two builds.                              *)
(***************************************************************************)

\* A total that is a power of two is divided by with the shift for it.
LEMMA Pow2Exact ==
    ASSUME NEW tot \in Powers
    PROVE  TwoTo[bcb_log2_pow2(tot)] = tot
  BY DEF Powers, bcb_log2_pow2

\* Both builds cut an interval at the same places.
LEMMA SharesExact ==
    ASSUME NEW cum, IsCum(cum), NEW r \in 1 .. Full
    PROVE  SharesEqual(r, cum)
<1> DEFINE tot == cum[NSym]
<1>1. /\ tot \in Nat \ {0} /\ tot <= Quarter
      /\ \A b \in 0 .. NSym : cum[b] \in Nat /\ cum[b] <= tot
  BY TableFacts
<1>2. r \in Nat /\ r <= Full /\ Quarter \in Nat /\ Full = 4 * Quarter /\ Quarter >= 1
  BY Sizes
<1> HIDE DEF tot
<1>3. ASSUME NEW b \in 0 .. NSym
      PROVE  ShareNoDiv(r, cum[b], tot) = Share(r, cum[b], tot)
  <2> DEFINE c == cum[b]
  <2>1. c \in Nat /\ c <= Quarter
    BY <1>1, <1>2
  <2> HIDE DEF c
  <2>2. r * c \in Nat /\ r * c < Full * Full
    <3>1. r * c <= Full * c /\ Full * c < Full * Full
      BY <1>2, <2>1, ProductGrows
    <3> QED
      BY <1>2, <2>1, <3>1
  <2> DEFINE n == r * c
  <2>3. /\ ShareNoDiv(r, c, tot) = U32(IF tot \in Powers
                                       THEN U64(n) \div TwoTo[bcb_log2_pow2(tot)]
                                       ELSE bcb_divq64(U64(n), tot))
        /\ Share(r, c, tot) = U32(n \div tot)
    BY DEF ShareNoDiv, Share
  <2>4. n \in Nat /\ n < Full * Full
    BY <2>2
  <2> HIDE DEF n
  <2>5. U64(n) = n
    BY <2>4, U64Fits
  <2>6. ASSUME tot \in Powers PROVE ShareNoDiv(r, c, tot) = Share(r, c, tot)
    BY <2>3, <2>5, <2>6, Pow2Exact
  <2>7. ASSUME tot \notin Powers PROVE ShareNoDiv(r, c, tot) = Share(r, c, tot)
    <3>1. tot \in 1 .. Full
      BY <1>1, <1>2
    <3>2. bcb_divq64(n, tot) = n \div tot
      BY <2>4, <3>1, bcb_divq64Exact
    <3> QED
      BY <2>3, <2>5, <2>7, <3>2
  <2>8. ShareNoDiv(r, c, tot) = Share(r, c, tot)
    BY <2>6, <2>7
  <2> QED
    BY <2>8 DEF c
<1> QED
  BY <1>3 DEF SharesEqual, tot

\* Both decoders compute the same target, also from a numerator that wrapped.
LEMMA TargetsExact ==
    ASSUME NEW low \in Register, NEW high \in Register, low <= high,
           NEW cd \in Register, NEW tot \in Nat
    PROVE  TargetNoDiv(low, high, cd, tot) = Target(low, high, cd, tot)
<1> DEFINE num == U64(U32(cd - low + 1) * tot - 1)
           r == Width(low, high)
<1>1. r \in 1 .. Full
  BY Sizes DEF Register, Width
<1>2. num \in Nat /\ num < Full * Full
  <2> DEFINE x == U32(cd - low + 1) * tot - 1
             F2 == Full * Full
  <2>1. U32(cd - low + 1) \in Nat
    BY U32Type, Sizes DEF Register
  <2>2. x \in Int /\ F2 \in Nat \ {0}
    BY <2>1, Sizes
  <2> HIDE DEF x, F2
  <2>3. x % F2 \in 0 .. F2 - 1
    BY <2>2
  <2> QED
    BY <2>2, <2>3 DEF U64, x, F2
<1> HIDE DEF num, r
<1>3. bcb_divq64(num, r) = num \div r
  BY <1>1, <1>2, bcb_divq64Exact
<1> QED
  BY <1>3 DEF TargetNoDiv, Target, num, r

(***************************************************************************)
(* A build without a divider computes the intervals and the targets of one *)
(* with it, whatever the payload: bcb_divq64 is exact for every numerator. *)
(***************************************************************************)
THEOREM NoDivExactSafe == Spec => []NoDivExact
<1>1. CodecInv => NoDivExact
  <2> SUFFICES ASSUME CodecInv PROVE NoDivExact
    OBVIOUS
  <2>1. /\ elow \in Register /\ ehigh \in Register /\ elow <= ehigh /\ ectx \in Context
        /\ dist \in [Context -> Tables]
    BY DEF CodecInv, EncInv, EncTypeOK, EncInterval, Register
  <2>2. ASSUME dpc = "byte"
        PROVE  /\ dlow \in Register /\ dhigh \in Register /\ dlow <= dhigh
               /\ code \in Register /\ dctx \in Context
    <3>1. /\ dlow \in Register /\ dhigh \in Register /\ dlow <= dhigh
          /\ code \in dlow .. dhigh
      BY <2>2, DecFacts DEF CodecInv
    <3>2. dctx \in Context
      BY DEF CodecInv, DecInv, DecTypeOK
    <3> QED
      BY <3>1, <3>2, Sizes DEF Register
  <2>3. Width(elow, ehigh) \in 1 .. Full
    BY <2>1, Sizes DEF Register, Width
  <2>4. SharesEqual(Width(elow, ehigh), dist[ectx])
    BY <2>1, <2>3, TablesAssumption, SharesExact
  <2>5. ASSUME dpc = "byte"
        PROVE  /\ SharesEqual(Width(dlow, dhigh), dist[dctx])
               /\ TargetNoDiv(dlow, dhigh, code, dist[dctx][NSym])
                    = Target(dlow, dhigh, code, dist[dctx][NSym])
    <3>1. Width(dlow, dhigh) \in 1 .. Full
      BY <2>2, <2>5, Sizes DEF Register, Width
    <3>2. IsCum(dist[dctx])
      BY <2>1, <2>2, <2>5, TablesAssumption
    <3>3. dist[dctx][NSym] \in Nat
      BY <3>2, TableFacts
    <3> QED
      BY <2>2, <2>5, <3>1, <3>2, <3>3, SharesExact, TargetsExact
  <2> QED
    BY <2>4, <2>5 DEF NoDivExact
<1> QED
  BY <1>1, CodecInvariant, PTL
-----------------------------------------------------------------------------
(***************************************************************************)
(* The exact interval of the encoder only shrinks.                         *)
(***************************************************************************)

\* What the bits emitted stand for when p more will follow, and half of the
\* room those p leave.
Place(o, p) == (Value(o) * TwoTo[p]) * Full
Room(p)     == TwoTo[p] * Half

\* One more bit, and one more place.
LEMMA PlaceMoves ==
    ASSUME NEW o \in Seq({0, 1}), NEW p \in Nat
    PROVE  /\ Place(o, p) \in Nat /\ Room(p) \in Nat /\ Room(0) = Half
           /\ Place(Append(o, 0), p) = 2 * Place(o, p)
           /\ Place(Append(o, 1), p) = 2 * Place(o, p) + 2 * Room(p)
           /\ Place(o, p + 1) = 2 * Place(o, p) /\ Room(p + 1) = 2 * Room(p)
<1> DEFINE V == Value(o)
           t == TwoTo[p]
           A == V * t
<1>1. /\ V \in Nat /\ Value(Append(o, 0)) = 2 * V + 0 /\ Value(Append(o, 1)) = 2 * V + 1
      /\ t \in Nat /\ TwoTo[p + 1] = 2 * t /\ TwoTo[0] = 1
  BY ValueAppend, TwoToDoubles
<1>2. Half \in Nat /\ Full \in Nat /\ Full = 2 * Half
  BY Sizes
<1>3. /\ Place(o, p) = A * Full /\ Room(p) = t * Half /\ Room(0) = 1 * Half
      /\ Place(Append(o, 0), p) = ((2 * V + 0) * t) * Full
      /\ Place(Append(o, 1), p) = ((2 * V + 1) * t) * Full
      /\ Place(o, p + 1) = (V * (2 * t)) * Full /\ Room(p + 1) = (2 * t) * Half
  BY <1>1 DEF Place, Room
<1> HIDE DEF V, t
<1>4. /\ A \in Nat /\ (2 * V + 0) * t = 2 * A /\ (2 * V + 1) * t = 2 * A + t
      /\ V * (2 * t) = 2 * A
  BY <1>1
<1> HIDE DEF A
<1>5. /\ A * Full \in Nat /\ t * Half \in Nat /\ 1 * Half = Half
      /\ (2 * A) * Full = 2 * (A * Full) /\ (2 * A + t) * Full = 2 * (A * Full) + t * Full
      /\ (2 * t) * Half = 2 * (t * Half)
  BY <1>1, <1>2, <1>4
<1>6. t * Full = 2 * (t * Half)
  BY <1>1, <1>2
<1> QED
  BY <1>3, <1>4, <1>5, <1>6

\* The lower end of the payloads that are possible, without the registers:
\* while the pending bits are undecided, and while cec_flush_ owes them.
OpenBase(o, p)    == Place(o, p) + Room(p) - Half
OwedBase(o, p, e) == Place(o, p) + IF e = 0 THEN 2 * Room(p) - Full ELSE 0

\* That is what ExactInterval computes in either case.
LEMMA BaseForms ==
    ASSUME NEW o \in Seq({0, 1}), NEW p \in Nat, NEW e \in {0, 1}
    PROVE  /\ Value(o) * TwoTo[p] * Full + Half * (TwoTo[p] - 1) = OpenBase(o, p)
           /\ LET K == o \o [i \in 1 .. p |-> 1 - e]
                  U == IF K = o THEN p ELSE 0
              IN  Value(K) * TwoTo[U] * Full + Half * (TwoTo[U] - 1) = OwedBase(o, p, e)
<1> DEFINE V == Value(o)
           t == TwoTo[p]
           A == V * t
           K == o \o [i \in 1 .. p |-> 1 - e]
           U == IF K = o THEN p ELSE 0
<1>1. V \in Nat /\ t \in Nat /\ TwoTo[0] = 1 /\ 1 - e \in {0, 1}
  <2>1. 1 - e \in {0, 1} /\ 0 \in {0, 1}
    OBVIOUS
  <2> QED
    BY <2>1, ValueAppend, TwoToDoubles
<1>2. Half \in Nat /\ Full \in Nat /\ Full = 2 * Half
  BY Sizes
<1>3. K = o \o Run(p, 1 - e)
  BY DEF Run
<1>4. Value(K) = A + (1 - e) * (t - 1)
  <2>1. Value(o \o Run(p, 1 - e)) = V * t + (1 - e) * (t - 1)
    BY <1>1, ValueRun
  <2> HIDE DEF K
  <2> QED
    BY <1>3, <2>1
<1>5. U = 0
  <2>1. Len(K) = Len(o) + p /\ Len(o) \in Nat
    BY DEF Run
  <2> QED
    BY <2>1
<1>6. Place(o, p) = A * Full /\ Room(p) = t * Half
  BY DEF Place, Room
<1> HIDE DEF V, t, K, U
<1>7. A \in Nat
  BY <1>1
<1>8. A * Full + Half * (t - 1) = OpenBase(o, p)
  <2> HIDE DEF A
  <2>1. Half * (t - 1) = t * Half - Half
    BY <1>1, <1>2
  <2>2. A * Full \in Nat /\ t * Half \in Nat
    BY <1>1, <1>2, <1>7
  <2> QED
    BY <1>2, <1>6, <2>1, <2>2 DEF OpenBase
<1>9. Value(K) * 1 * Full + Half * (1 - 1) = OwedBase(o, p, e)
  <2> HIDE DEF A
  <2>1. CASE e = 0
    <3>1. Value(K) = A + t - 1 /\ Value(K) \in Int
      BY <1>1, <1>4, <1>7, <2>1
    <3>2. (A + t - 1) * Full = A * Full + t * Full - Full
      BY <1>1, <1>2, <1>7
    <3>3. t * Full = 2 * (t * Half)
      BY <1>1, <1>2
    <3>4. Value(K) * 1 * Full + Half * (1 - 1) = (A + t - 1) * Full
      BY <1>1, <1>2, <1>7, <3>1
    <3>5. A * Full \in Nat /\ t * Half \in Nat
      BY <1>1, <1>2, <1>7
    <3> QED
      BY <1>2, <1>6, <2>1, <3>2, <3>3, <3>4, <3>5 DEF OwedBase
  <2>2. CASE e = 1
    <3>1. Value(K) = A
      BY <1>1, <1>4, <1>7, <2>2
    <3>2. Value(K) * 1 * Full + Half * (1 - 1) = A * Full /\ A * Full \in Nat
      BY <1>2, <1>7, <3>1
    <3> QED
      BY <1>6, <2>2, <3>2 DEF OwedBase
  <2> QED
    BY <2>1, <2>2
<1>10. Value(K) * TwoTo[U] * Full + Half * (TwoTo[U] - 1) = OwedBase(o, p, e)
  BY <1>1, <1>5, <1>9
<1> QED
  BY <1>8, <1>10 DEF V, t, K, U

\* The exact interval of an encoder that has the bits o, p pending and the
\* bit e of its last flush.
Between(low, high, base, l, h) == low = base + l /\ high = base + h

\* What ExactInterval means at each place of the encoder,
LEMMA ExactIs ==
    ASSUME EncInv
    PROVE  /\ epc \in {"byte", "renorm"} =>
                 Between(ExactLow, ExactHigh, OpenBase(out, pending), elow, ehigh + 1)
           /\ epc = "flush" =>
                 Between(ExactLow, ExactHigh, OwedBase(out, pending, ebit), elow, ehigh + 1)
           /\ epc \in {"finish", "done"} =>
                 Between(ExactLow, ExactHigh, OwedBase(out, pending, ebit), 0, Full)
<1>1. out \in Seq({0, 1}) /\ pending \in Nat /\ ebit \in {0, 1}
  BY DEF EncInv, EncTypeOK
<1>2. ASSUME epc \in {"byte", "renorm"} PROVE Base = OpenBase(out, pending)
  <2>1. Known = out
    BY <1>2 DEF Known, Committed
  <2> QED
    BY <1>1, <2>1, BaseForms DEF Base, Undecided
<1>3. ASSUME epc \in {"flush", "finish", "done"} PROVE Base = OwedBase(out, pending, ebit)
  BY <1>1, <1>3, BaseForms DEF Base, Known, Undecided, Committed
<1> QED
  BY <1>2, <1>3 DEF ExactLow, ExactHigh, Committed, Between

\* and at the next.
LEMMA ExactWillBe ==
    ASSUME EncInv'
    PROVE  /\ epc' \in {"byte", "renorm"} =>
                 Between(ExactLow', ExactHigh', OpenBase(out', pending'), elow', ehigh' + 1)
           /\ epc' = "flush" =>
                 Between(ExactLow', ExactHigh', OwedBase(out', pending', ebit'), elow', ehigh' + 1)
           /\ epc' \in {"finish", "done"} =>
                 Between(ExactLow', ExactHigh', OwedBase(out', pending', ebit'), 0, Full)
<1>1. out' \in Seq({0, 1}) /\ pending' \in Nat /\ ebit' \in {0, 1}
  BY DEF EncInv, EncTypeOK
<1>2. ASSUME epc' \in {"byte", "renorm"} PROVE Base' = OpenBase(out', pending')
  <2>1. Known' = out'
    BY <1>2 DEF Known, Committed
  <2> QED
    BY <1>1, <2>1, BaseForms DEF Base, Undecided
<1>3. ASSUME epc' \in {"flush", "finish", "done"} PROVE Base' = OwedBase(out', pending', ebit')
  BY <1>1, <1>3, BaseForms DEF Base, Known, Undecided, Committed
<1> QED
  BY <1>2, <1>3 DEF ExactLow, ExactHigh, Committed, Between

\* cec_enc_byte moves both ends of the interval inwards.
LEMMA EncByteCuts ==
    ASSUME EncInv, NEW b \in Symbols, EncByte(b)
    PROVE  LET r == Width(elow, ehigh)
               cum == dist[ectx]
           IN  /\ IsCum(cum) /\ r \in Nat /\ r > Quarter + 1
               /\ b \in 0 .. NSym /\ b + 1 \in 0 .. NSym
               /\ Cut(r, cum, b) \in Nat /\ Cut(r, cum, b + 1) \in Nat
               /\ elow' = elow + Cut(r, cum, b) /\ ehigh' = elow + Cut(r, cum, b + 1) - 1
               /\ elow <= elow' /\ elow' <= ehigh' /\ ehigh' <= ehigh
<1> DEFINE cum == dist[ectx]
           r == Width(elow, ehigh)
<1>1. IsCum(cum)
  BY TablesAssumption DEF EncInv, EncTypeOK
<1>2. b \in 0 .. NSym /\ b + 1 \in 0 .. NSym /\ b < b + 1
  BY NSymAssumption DEF Symbols
<1>3. elow \in Register /\ ehigh \in Register /\ elow <= ehigh
  BY DEF EncInv, EncTypeOK, EncInterval, Register
<1>4. r > Quarter + 1 /\ r \in Nat /\ r > Quarter
  BY <1>3, Sizes DEF EncInv, EncByte, EncInterval, Register, Width
<1>5. /\ elow' = NarrowLow(elow, ehigh, cum[b], cum[NSym])
      /\ ehigh' = NarrowHigh(elow, ehigh, cum[b + 1], cum[NSym])
  BY DEF EncByte
<1> HIDE DEF cum
<1>6. /\ elow' = elow + Cut(r, cum, b)
      /\ ehigh' = elow + Cut(r, cum, b + 1) - 1
      /\ elow <= elow' /\ elow' <= ehigh' /\ ehigh' <= ehigh
  BY <1>5, <1>1, <1>2, <1>3, <1>4, Narrow
<1> HIDE DEF r
<1>7. Cut(r, cum, b) \in Nat /\ Cut(r, cum, b + 1) \in Nat
  BY <1>1, <1>2, <1>4, Cuts
<1> QED
  BY <1>1, <1>2, <1>4, <1>6, <1>7 DEF cum, r

\* The types of what the steps below compute with.
LEMMA ExactShape ==
    ASSUME EncInv
    PROVE  /\ out \in Seq({0, 1}) /\ Len(out) \in Nat /\ pending \in Nat /\ ebit \in {0, 1}
           /\ elow \in Nat /\ ehigh \in Nat /\ elow <= ehigh /\ ehigh < Full
           /\ Quarter \in Nat /\ Quarter >= 1 /\ Half = 2 * Quarter /\ Full = 4 * Quarter
           /\ Half \in Nat /\ Full \in Nat
  BY Sizes DEF EncInv, EncTypeOK, EncInterval

\* A step that adds d bits, emitted or pending, and stays in the interval,
\* taken in units k times smaller.
Nests(d, k) == /\ Len(out') + pending' = (Len(out) + pending) + d
               /\ k * ExactLow <= ExactLow'
               /\ ExactHigh' <= k * ExactHigh

\* Such a step is nested.
LEMMA NestsNested ==
    ASSUME EncInv, ExactLow \in Int, ExactHigh \in Int,
           NEW d \in {0, 1, 2}, NEW k, k = TwoTo[d], Nests(d, k)
    PROVE  NestedStep
<1> DEFINE n == Len(out) + pending
           S == Scale
<1>1. n \in Nat
  BY ExactShape
<1>2. S = TwoTo[n] /\ Scale' = TwoTo[n + d]
  BY DEF Scale, Nests
<1>3. S \in Nat \ {0} /\ TwoTo[n + 1] = 2 * S /\ TwoTo[n + 2] = 4 * S
  <2>1. (n + 1) + 1 = n + 2 /\ n + 1 \in Nat
    BY <1>1
  <2>2. TwoTo[n + 1] = 2 * TwoTo[n] /\ TwoTo[(n + 1) + 1] = 2 * TwoTo[n + 1]
        /\ TwoTo[n] \in Nat \ {0}
    BY <1>1, <2>1, TwoToDoubles, TwoToPositive
  <2> QED
    BY <1>2, <2>1, <2>2
<1>4. TwoTo[0] = 1 /\ TwoTo[1] = 2 /\ TwoTo[2] = 4
  BY TwoToSmall
<1>5. Scale' = k * S /\ k \in Nat
  <2>1. n + 0 = n
    BY <1>1
  <2> HIDE DEF S, n
  <2>2. CASE d = 0
    BY <1>2, <1>3, <1>4, <2>1, <2>2
  <2>3. CASE d = 1
    BY <1>2, <1>3, <1>4, <2>3
  <2>4. CASE d = 2
    BY <1>2, <1>3, <1>4, <2>4
  <2> QED
    BY <2>2, <2>3, <2>4
<1>6. Scale' \div S = k
  <2> HIDE DEF S
  <2>1. Scale' = k * S + 0 /\ 0 \in 0 .. S - 1 /\ Scale' \in Nat
    BY <1>3, <1>5
  <2> QED
    BY <1>3, <1>5, <2>1, QuotientIs
<1>7. ExactLow * k = k * ExactLow /\ ExactHigh * k = k * ExactHigh
  BY <1>5
<1> QED
  BY <1>6, <1>7 DEF NestedStep, Nests

\* cec_enc_byte cuts the interval.
LEMMA EncByteNests ==
    ASSUME EncInv, EncInv', NEW b \in Symbols, EncByte(b)
    PROVE  Nests(0, 1)
<1>0. /\ out \in Seq({0, 1}) /\ Len(out) \in Nat /\ pending \in Nat /\ ebit \in {0, 1}
      /\ elow \in Nat /\ ehigh \in Nat /\ elow <= ehigh /\ ehigh < Full
      /\ Quarter \in Nat /\ Quarter >= 1 /\ Half = 2 * Quarter /\ Full = 4 * Quarter
      /\ Half \in Nat /\ Full \in Nat
  BY ExactShape
<1>1. epc = "byte" /\ epc' = "renorm" /\ out' = out /\ pending' = pending
  BY DEF EncByte
<1>2. elow <= elow' /\ ehigh' <= ehigh
  BY EncByteCuts
<1>3. /\ Between(ExactLow, ExactHigh, OpenBase(out, pending), elow, ehigh + 1)
      /\ Between(ExactLow', ExactHigh', OpenBase(out, pending), elow', ehigh' + 1)
  BY <1>1, ExactIs, ExactWillBe
<1>4. OpenBase(out, pending) \in Int
  <2>1. Place(out, pending) \in Nat /\ Room(pending) \in Nat
    BY <1>0, PlaceMoves
  <2> QED
    BY <1>0, <2>1 DEF OpenBase
<1>5. elow' \in Nat /\ ehigh' \in Nat
  BY DEF EncInv, EncTypeOK
<1>6. PICK x \in Int : x = OpenBase(out, pending)
  BY <1>4
<1>7. /\ ExactLow = x + elow /\ ExactHigh = x + (ehigh + 1)
      /\ ExactLow' = x + elow' /\ ExactHigh' = x + (ehigh' + 1)
  BY <1>3, <1>6 DEF Between
<1>8. Len(out') + pending' = (Len(out) + pending) + 0
  BY <1>0, <1>1
<1>9. 1 * ExactLow <= ExactLow' /\ ExactHigh' <= 1 * ExactHigh
  <2>1. ASSUME NEW l \in Nat, NEW m \in Nat, l <= m
        PROVE  1 * (x + l) <= x + m /\ x + (l + 1) <= 1 * (x + (m + 1))
    BY <2>1
  <2>2. 1 * (x + elow) <= x + elow' /\ x + (ehigh' + 1) <= 1 * (x + (ehigh + 1))
    BY <1>0, <1>2, <1>5, <2>1
  <2> QED
    BY <1>7, <2>2
<1> QED
  BY <1>8, <1>9 DEF Nests

\* The shifts of cec_renorm_enc_ keep the interval exactly, also while the
\* bit that decides is not yet known.
LEMMA EncShiftNests ==
    ASSUME EncInv, EncInv', EncShifts
    PROVE  Nests(1, 2)
<1>0. /\ out \in Seq({0, 1}) /\ Len(out) \in Nat /\ pending \in Nat /\ ebit \in {0, 1}
      /\ elow \in Nat /\ ehigh \in Nat /\ elow <= ehigh /\ ehigh < Full
      /\ Quarter \in Nat /\ Quarter >= 1 /\ Half = 2 * Quarter /\ Full = 4 * Quarter
      /\ Half \in Nat /\ Full \in Nat
  BY ExactShape
<1> DEFINE P == Place(out, pending)
           R == Room(pending)
<1>1. PICK base \in Nat : /\ IsShift(elow, ehigh, base)
                          /\ elow' = 2 * (elow - base) /\ ehigh' = 2 * (ehigh - base) + 1
  BY EncShiftRegisters
<1>2. /\ P \in Nat /\ R \in Nat
      /\ Place(Append(out, 0), pending) = 2 * P
      /\ Place(Append(out, 1), pending) = 2 * P + 2 * R
      /\ Place(out, pending + 1) = 2 * P /\ Room(pending + 1) = 2 * R
  BY <1>0, PlaceMoves
<1>3. Between(ExactLow, ExactHigh, P + R - Half, elow, ehigh + 1)
  BY ExactIs DEF OpenBase, EncShifts, EncShiftLower, EncShiftUpper, EncShiftMiddle
<1> HIDE DEF P, R
<1>4. CASE EncShiftLower
  <2>1. out' = Append(out, 0) /\ pending' = pending /\ ebit' = 0 /\ epc' = "flush" /\ base = 0
    BY <1>1, <1>4, <1>0 DEF EncShiftLower, Emit, IsShift, InLower, InUpper, InMiddle
  <2>2. Between(ExactLow', ExactHigh', 2 * P + (2 * R - Full), elow', ehigh' + 1)
    BY <1>2, <2>1, ExactWillBe DEF OwedBase, R
  <2>3. Len(out') = Len(out) + 1
    BY <2>1, <1>0
  <2> QED
    BY <1>1, <1>2, <1>3, <2>1, <2>2, <2>3, <1>0 DEF Between, Nests
<1>5. CASE EncShiftUpper
  <2>1. out' = Append(out, 1) /\ pending' = pending /\ ebit' = 1 /\ epc' = "flush" /\ base = Half
    BY <1>1, <1>5, <1>0 DEF EncShiftUpper, Emit, IsShift, InLower, InUpper, InMiddle
  <2>2. Between(ExactLow', ExactHigh', 2 * P + 2 * R + 0, elow', ehigh' + 1)
    BY <1>2, <2>1, ExactWillBe DEF OwedBase
  <2>3. Len(out') = Len(out) + 1
    BY <2>1, <1>0
  <2> QED
    BY <1>1, <1>2, <1>3, <2>1, <2>2, <2>3, <1>0 DEF Between, Nests
<1>6. CASE EncShiftMiddle
  <2>1. out' = out /\ pending' = pending + 1 /\ epc' = "renorm" /\ base = Quarter
    BY <1>1, <1>6, <1>0 DEF EncShiftMiddle, IsShift, InLower, InUpper, InMiddle
  <2>2. Between(ExactLow', ExactHigh', 2 * P + 2 * R - Half, elow', ehigh' + 1)
    BY <1>2, <2>1, ExactWillBe DEF OpenBase
  <2> QED
    BY <1>1, <1>2, <1>3, <2>1, <2>2, <1>0 DEF Between, Nests
<1> QED
  BY <1>4, <1>5, <1>6 DEF EncShifts

\* A pending bit that is emitted was already decided.
LEMMA EncFlushNests ==
    ASSUME EncInv, EncInv', EncFlushPending
    PROVE  Nests(0, 1)
<1>0. /\ out \in Seq({0, 1}) /\ Len(out) \in Nat /\ pending \in Nat /\ ebit \in {0, 1}
      /\ elow \in Nat /\ ehigh \in Nat /\ elow <= ehigh /\ ehigh < Full
      /\ Quarter \in Nat /\ Quarter >= 1 /\ Half = 2 * Quarter /\ Full = 4 * Quarter
      /\ Half \in Nat /\ Full \in Nat
  BY ExactShape
<1> DEFINE q == pending - 1
           P == Place(out, q)
           R == Room(q)
<1>1. /\ q \in Nat /\ pending = q + 1 /\ pending' = q /\ out' = Append(out, 1 - ebit)
      /\ epc \in {"flush", "finish"} /\ epc' = epc
      /\ elow' = elow /\ ehigh' = ehigh /\ ebit' = ebit
  BY <1>0 DEF EncFlushPending, Emit
<1> HIDE DEF q
<1>2. /\ P \in Nat /\ R \in Nat
      /\ Place(Append(out, 0), q) = 2 * P
      /\ Place(Append(out, 1), q) = 2 * P + 2 * R
      /\ Place(out, q + 1) = 2 * P /\ Room(q + 1) = 2 * R
  BY <1>1, <1>0, PlaceMoves
<1>3. OwedBase(out', pending', ebit') = OwedBase(out, pending, ebit)
      /\ OwedBase(out, pending, ebit) \in Int
  <2>1. CASE ebit = 0
    <3>1. out' = Append(out, 1)
      BY <1>1, <2>1
    <3>2. OwedBase(out, pending, ebit) = 2 * P + (2 * (2 * R) - Full)
      BY <1>1, <1>2, <2>1 DEF OwedBase
    <3>3. OwedBase(out', pending', ebit') = (2 * P + 2 * R) + (2 * R - Full)
      BY <1>1, <1>2, <2>1, <3>1 DEF OwedBase
    <3> HIDE DEF P, R
    <3> QED
      BY <1>2, <3>2, <3>3, <1>0
  <2>2. CASE ebit = 1
    <3>1. out' = Append(out, 0)
      BY <1>1, <2>2
    <3>2. OwedBase(out, pending, ebit) = 2 * P + 0
      BY <1>1, <1>2, <2>2 DEF OwedBase
    <3>3. OwedBase(out', pending', ebit') = 2 * P + 0
      BY <1>1, <1>2, <2>2, <3>1 DEF OwedBase
    <3> HIDE DEF P
    <3> QED
      BY <1>2, <3>2, <3>3
  <2> QED
    BY <2>1, <2>2, <1>0
<1>4. Len(out') + pending' = Len(out) + pending + 0
  BY <1>1, <1>0
<1>5. ExactLow' = ExactLow /\ ExactHigh' = ExactHigh
  BY <1>1, <1>3, ExactIs, ExactWillBe DEF Between
<1>6. ExactLow \in Int /\ ExactHigh \in Int
  BY <1>1, <1>3, ExactIs, <1>0 DEF Between
<1> QED
  BY <1>2, <1>4, <1>5, <1>6 DEF Nests

\* When the last bit is out the interval is what the registers say again.
LEMMA EncFlushedNests ==
    ASSUME EncInv, EncInv', EncFlushed
    PROVE  Nests(0, 1)
<1>0. /\ out \in Seq({0, 1}) /\ Len(out) \in Nat /\ ebit \in {0, 1}
      /\ elow \in Nat /\ ehigh \in Nat
      /\ Half \in Nat /\ Full \in Nat /\ Full = 2 * Half
  BY ExactShape
<1>1. /\ pending = 0 /\ epc = "flush" /\ epc' = "renorm"
      /\ elow' = elow /\ ehigh' = ehigh /\ out' = out /\ pending' = 0
  BY DEF EncFlushed
<1> DEFINE P == Place(out, 0)
<1>2. P \in Nat /\ Room(0) = Half
  BY <1>0, PlaceMoves
<1>3. OwedBase(out, 0, ebit) = P /\ OpenBase(out, 0) = P
  <2>1. 2 * Half - Full = 0 /\ P + Half - Half = P /\ P + 0 = P
    BY <1>0, <1>2
  <2> QED
    BY <1>2, <2>1 DEF OwedBase, OpenBase
<1>4. Between(ExactLow, ExactHigh, P, elow, ehigh + 1)
  BY <1>1, <1>3, ExactIs
<1>5. Between(ExactLow', ExactHigh', P, elow, ehigh + 1)
  BY <1>1, <1>3, ExactWillBe
<1> HIDE DEF P
<1> QED
  BY <1>0, <1>1, <1>2, <1>4, <1>5 DEF Between, Nests

\* Returning and handing the payload over change neither bits nor registers.
LEMMA EncIdleNests ==
    ASSUME EncInv, EncInv', EncReturn \/ EncHandOver
    PROVE  Nests(0, 1)
<1>0. /\ out \in Seq({0, 1}) /\ Len(out) \in Nat /\ pending \in Nat /\ ebit \in {0, 1}
      /\ elow \in Nat /\ ehigh \in Nat
      /\ Half \in Nat /\ Full \in Nat
  BY ExactShape
<1>1. UNCHANGED <<elow, ehigh, out, pending, ebit>>
  BY DEF EncReturn, EncHandOver
<1> DEFINE P == Place(out, pending)
           R == Room(pending)
<1>2. P \in Nat /\ R \in Nat
  BY <1>0, PlaceMoves
<1>3. CASE EncReturn
  <2> DEFINE x == OpenBase(out, pending)
  <2>1. x \in Int
    BY <1>0, <1>2 DEF OpenBase
  <2>2. epc = "renorm" /\ epc' = "byte"
    BY <1>3 DEF EncReturn
  <2>3. Between(ExactLow, ExactHigh, x, elow, ehigh + 1)
    BY <2>2, ExactIs
  <2>4. Between(ExactLow', ExactHigh', x, elow, ehigh + 1)
    BY <1>1, <2>2, ExactWillBe
  <2> HIDE DEF x
  <2> QED
    BY <1>0, <1>1, <2>1, <2>3, <2>4 DEF Between, Nests
<1>4. CASE EncHandOver
  <2> DEFINE x == OwedBase(out, pending, ebit)
  <2>1. x \in Int
    BY <1>0, <1>2 DEF OwedBase
  <2>2. epc = "finish" /\ epc' = "done"
    BY <1>4 DEF EncHandOver
  <2>3. Between(ExactLow, ExactHigh, x, 0, Full)
    BY <2>2, ExactIs
  <2>4. Between(ExactLow', ExactHigh', x, 0, Full)
    BY <1>1, <2>2, ExactWillBe
  <2> HIDE DEF x
  <2> QED
    BY <1>0, <1>1, <2>1, <2>3, <2>4 DEF Between, Nests
<1> QED
  BY <1>3, <1>4

\* The padding picks the lower half of what is left, and the half of it.
LEMMA EncPadNests ==
    ASSUME EncInv, EncInv', EncPad
    PROVE  Nests(1, 2)
<1>0. /\ out \in Seq({0, 1}) /\ Len(out) \in Nat /\ ebit \in {0, 1}
      /\ Half \in Nat /\ Full \in Nat /\ Full = 2 * Half
  BY ExactShape
<1>1. /\ pending = 0 /\ epc = "finish" /\ epc' = "finish" /\ ebit' = ebit
      /\ out' = Append(out, 0) /\ pending' = 0 /\ Len(out') = Len(out) + 1
  BY <1>0 DEF EncPad, Emit
<1> DEFINE P == Place(out, 0)
<1>2. P \in Nat /\ Room(0) = Half /\ Place(Append(out, 0), 0) = 2 * P
  BY <1>0, PlaceMoves
<1>3. OwedBase(out, 0, ebit) = P /\ OwedBase(out', 0, ebit) = 2 * P
  <2>1. 2 * Half - Full = 0 /\ 2 * P + 0 = 2 * P /\ P + 0 = P
    BY <1>0, <1>2
  <2> QED
    BY <1>1, <1>2, <2>1 DEF OwedBase
<1>4. Between(ExactLow, ExactHigh, P, 0, Full)
  BY <1>1, <1>3, ExactIs
<1>5. Between(ExactLow', ExactHigh', 2 * P, 0, Full)
  BY <1>1, <1>3, ExactWillBe
<1> HIDE DEF P
<1> QED
  BY <1>0, <1>1, <1>2, <1>4, <1>5 DEF Between, Nests

(***************************************************************************)
(* The choice of cec_enc_finish is right because the renormalisation is    *)
(* over: the interval reaches over the middle and is not in the middle.    *)
(***************************************************************************)
BetweenCalls == epc = "byte" => Settled(elow, ehigh)

\* So one quarter of the register range lies inside it.
LEMMA EncFinishNests ==
    ASSUME EncInv, EncInv', BetweenCalls, EncFinish
    PROVE  Nests(2, 4)
<1>0. /\ out \in Seq({0, 1}) /\ Len(out) \in Nat /\ pending \in Nat
      /\ elow \in Nat /\ ehigh \in Nat
      /\ Quarter \in Nat /\ Half = 2 * Quarter /\ Full = 4 * Quarter
      /\ Half \in Nat /\ Full \in Nat
  BY ExactShape
<1>1. /\ epc = "byte" /\ epc' = "finish" /\ pending' = pending + 1
      /\ ebit' = (IF elow < Quarter THEN 0 ELSE 1) /\ out' = Append(out, ebit')
  BY DEF EncFinish, Emit
<1>2. elow < Half /\ ehigh >= Half /\ (elow >= Quarter => ehigh >= 3 * Quarter)
  BY <1>0, <1>1 DEF BetweenCalls, Settled, InLower, InUpper, InMiddle
<1> DEFINE P == Place(out, pending)
           R == Room(pending)
<1>3. /\ P \in Nat /\ R \in Nat
      /\ Place(out, pending + 1) = 2 * P /\ Room(pending + 1) = 2 * R
  BY <1>0, PlaceMoves
<1>4. /\ Place(Append(out, 0), pending + 1) = 2 * (2 * P)
      /\ Place(Append(out, 1), pending + 1) = 2 * (2 * P) + 2 * (2 * R)
  <2>1. pending + 1 \in Nat
    BY <1>0
  <2> QED
    BY <1>0, <1>3, <2>1, PlaceMoves
<1>5. Between(ExactLow, ExactHigh, P + R - Half, elow, ehigh + 1)
  BY <1>1, ExactIs DEF OpenBase
<1>6. Between(ExactLow', ExactHigh', OwedBase(out', pending + 1, ebit'), 0, Full)
  BY <1>1, ExactWillBe
<1> HIDE DEF P, R
<1>7. Len(out') + pending' = (Len(out) + pending) + 2
  <2>1. Len(out') = Len(out) + 1
    BY <1>0, <1>1
  <2> QED
    BY <1>0, <1>1, <2>1
<1>8. CASE elow < Quarter
  <2>1. OwedBase(out', pending + 1, ebit') = 2 * (2 * P) + (2 * (2 * R) - Full)
    BY <1>1, <1>3, <1>4, <1>8 DEF OwedBase
  <2> QED
    BY <1>0, <1>2, <1>3, <1>5, <1>6, <1>7, <1>8, <2>1 DEF Between, Nests
<1>9. CASE ~(elow < Quarter)
  <2>1. OwedBase(out', pending + 1, ebit') = (2 * (2 * P) + 2 * (2 * R)) + 0
    BY <1>1, <1>3, <1>4, <1>9 DEF OwedBase
  <2> QED
    BY <1>0, <1>2, <1>3, <1>5, <1>6, <1>7, <1>9, <2>1 DEF Between, Nests
<1> QED
  BY <1>8, <1>9

\* The ends of the interval are numbers.
LEMMA ExactType ==
    ASSUME EncInv
    PROVE  ExactLow \in Int /\ ExactHigh \in Int
<1>1. /\ out \in Seq({0, 1}) /\ pending \in Nat /\ ebit \in {0, 1}
      /\ elow \in Nat /\ ehigh \in Nat /\ Half \in Nat /\ Full \in Nat
  BY ExactShape
<1>2. Place(out, pending) \in Nat /\ Room(pending) \in Nat
  BY <1>1, PlaceMoves
<1>3. OpenBase(out, pending) \in Int /\ OwedBase(out, pending, ebit) \in Int
  BY <1>1, <1>2 DEF OpenBase, OwedBase
<1>4. epc \in {"byte", "renorm", "flush", "finish", "done"}
  BY DEF EncInv, EncTypeOK
<1> QED
  BY <1>1, <1>3, <1>4, ExactIs DEF Between

\* Every step of the encoder is nested.
LEMMA EncNextNested ==
    ASSUME EncInv, EncInv', BetweenCalls, EncNext
    PROVE  NestedStep
<1>1. Nests(0, 1) \/ Nests(1, 2) \/ Nests(2, 4)
  BY EncByteNests, EncShiftNests, EncFlushNests, EncFlushedNests, EncIdleNests,
     EncPadNests, EncFinishNests
  DEF EncNext, EncRun, EncShifts
<1>2. ExactLow \in Int /\ ExactHigh \in Int
  BY ExactType
<1> QED
  BY <1>1, <1>2, NestsNested, TwoToSmall

\* A step of encoder and decoder is one of the encoder or none of it.
LEMMA EncoderStep ==
    ASSUME [Next]_codecVars
    PROVE  [EncNext /\ UNCHANGED dist]_<<dist, encVars>>
  BY DEF Next, Encode, Decode, StartDecoder, StartForeign, codecVars

\* The renormalisation is over whenever cec_enc_byte can be called.
LEMMA BetweenCallsKept ==
    /\ Init => BetweenCalls
    /\ BetweenCalls /\ [EncNext /\ UNCHANGED dist]_<<dist, encVars>> => BetweenCalls'
<1>1. Init => BetweenCalls
  BY Sizes DEF Init, EncInit, BetweenCalls, Settled, InLower, InUpper, InMiddle
<1>2. ASSUME BetweenCalls, EncNext PROVE BetweenCalls'
  <2>1. epc' = "byte" => EncReturn
    BY <1>2 DEF EncNext, EncRun, EncByte, EncShiftLower, EncShiftUpper, EncShiftMiddle,
                EncFlushPending, EncFlushed, EncPad, EncHandOver, EncFinish
  <2>2. EncReturn => Settled(elow', ehigh')
    BY DEF EncReturn
  <2> QED
    BY <2>1, <2>2 DEF BetweenCalls
<1>3. ASSUME BetweenCalls, UNCHANGED <<dist, encVars>> PROVE BetweenCalls'
  BY <1>3 DEF BetweenCalls, encVars
<1> QED
  BY <1>1, <1>2, <1>3

(***************************************************************************)
(* The interval of the payloads that are still possible never leaves what  *)
(* it was: not in cec_enc_byte, not while bits are pending, not in         *)
(* cec_enc_finish, for every register width, table and message.            *)
(***************************************************************************)
THEOREM EncNestedSafe == Spec => EncNested
<1>1. Init => BetweenCalls
  BY BetweenCallsKept
<1>2. BetweenCalls /\ [Next]_codecVars => BetweenCalls'
  BY EncoderStep, BetweenCallsKept
<1>3. CodecInv /\ CodecInv' /\ BetweenCalls /\ [Next]_codecVars
        => [NestedStep]_<<dist, encVars>>
  BY EncoderStep, EncNextNested DEF CodecInv
<1> QED
  BY <1>1, <1>2, <1>3, CodecInvariant, PTL DEF Spec, EncNested

-----------------------------------------------------------------------------
(***************************************************************************)
(* The payload stays within its bound: a symbol of cec_enc_byte costs at   *)
(* most SymbolBits iterations of the renormalisation, because each of them *)
(* doubles an interval that was not narrower than the smallest share.      *)
(***************************************************************************)
RoundUp(n) == ((n + (ByteBits - 1)) \div ByteBits) * ByteBits

\* the bits so far, those for the symbols that are done, and the symbol that
\* is being coded after s iterations
Produced   == Len(out) + pending
ForSent    == SymbolBits * Len(sent)
After(s)   == /\ Produced <= ForSent + s
              /\ TwoTo[s] * Quarter <= Width(elow, ehigh) * MaxTotal

BoundInv ==
    /\ epc = "byte" => Produced <= ForSent
    /\ epc \in {"renorm", "flush"} => \E s \in Nat : After(s)
    /\ Committed => Produced <= RoundUp(ForSent + 2)

\* Rounding up to whole bytes.
LEMMA RoundingUp ==
    ASSUME NEW n \in Nat
    PROVE  /\ RoundUp(n) \in Nat /\ n <= RoundUp(n) /\ RoundUp(n) <= n + (ByteBits - 1)
           /\ \A m \in Nat : m <= RoundUp(n) /\ m % ByteBits # 0 => m + 1 <= RoundUp(n)
  BY DEF RoundUp, ByteBits

\* SymbolBits is what it says.
LEMMA SymbolSize == SymbolBits \in Nat /\ TwoTo[SymbolBits] = 4 * MaxTotal
  BY MaxTotalAssumption DEF SymbolBits

\* The smallest share of an interval that is wide enough.
LEMMA SmallestShare ==
    ASSUME NEW c \in Tables, NEW r \in Nat, r > Quarter, NEW b \in 0 .. NSym, b + 1 \in 0 .. NSym
    PROVE  Quarter <= (Cut(r, c, b + 1) - Cut(r, c, b)) * MaxTotal
<1> DEFINE tot == c[NSym]
           u == Quarter \div MaxTotal
           x == c[b]
           y == c[b + 1]
           p == Cut(r, c, b)
           q == Cut(r, c, b + 1)
<1>1. IsCum(c)
  BY TablesAssumption
<1>2. tot \in Nat \ {0} /\ x \in Nat /\ y \in Nat /\ x + 1 <= y
  <2>1. \A i, j \in 0 .. NSym : i < j => c[i] < c[j]
    BY <1>1 DEF IsCum
  <2>2. c[b] < c[b + 1]
    BY <2>1
  <2>3. c[b] \in Nat /\ c[b + 1] \in Nat /\ c[NSym] \in Nat \ {0}
    BY <1>1, TableFacts
  <2> QED
    BY <2>2, <2>3
<1>3. tot <= MaxTotal /\ MaxTotal \in Nat \ {0} /\ Quarter \in Nat
  BY MaxTotalAssumption, Sizes
<1>4. u \in Nat /\ u * MaxTotal = Quarter
  BY <1>3, MaxTotalAssumption
<1>5. p = (r * x) \div tot /\ q = (r * y) \div tot
  BY DEF Cut
<1> HIDE DEF tot, u, x, y, p, q
<1>6. p \in Nat /\ p * tot <= r * x /\ q \in Nat
  <2>1. r * x \in Nat /\ r * y \in Nat
    BY <1>2
  <2> QED
    BY <1>2, <1>5, <2>1, Division
<1>7. (p + u) * tot <= r * y
  <2>1. u * tot <= u * MaxTotal
    BY <1>2, <1>3, <1>4, ProductGrows
  <2>2. u * tot <= r /\ u * tot \in Nat /\ p * tot \in Nat /\ r * x \in Nat
    BY <1>2, <1>3, <1>4, <1>6, <2>1
  <2>3. (x + 1) * r <= y * r
    BY <1>2, ProductGrows
  <2>4. (x + 1) * r = r * x + r /\ y * r = r * y /\ r * y \in Nat
    BY <1>2
  <2>5. (p + u) * tot = p * tot + u * tot
    BY <1>2, <1>4, <1>6
  <2> QED
    BY <1>6, <2>2, <2>3, <2>4, <2>5
<1>8. p + u <= q
  <2>1. r * y \in Nat /\ p + u \in Nat
    BY <1>2, <1>4, <1>6
  <2> QED
    BY <1>2, <1>5, <1>7, <2>1, QuotientAtLeast
<1>9. u * MaxTotal <= (q - p) * MaxTotal
  <2>1. q - p \in Nat /\ u <= q - p
    BY <1>4, <1>6, <1>8
  <2> QED
    BY <1>3, <1>4, <2>1, ProductGrows
<1> QED
  BY <1>4, <1>9 DEF p, q

\* No more iterations fit in one symbol.
LEMMA IterationsBounded ==
    ASSUME NEW s \in Nat, NEW w \in Nat, w <= Full, TwoTo[s] * Quarter <= w * MaxTotal
    PROVE  s <= SymbolBits
<1> DEFINE k == SymbolBits
<1>1. k \in Nat /\ TwoTo[k] = 4 * MaxTotal
  BY SymbolSize
<1>2. MaxTotal \in Nat /\ Quarter \in Nat \ {0} /\ Full = 4 * Quarter
  BY MaxTotalAssumption, Sizes
<1>3. w * MaxTotal <= Full * MaxTotal
  BY <1>2, ProductGrows
<1>4. Full * MaxTotal = TwoTo[k] * Quarter
  BY <1>1, <1>2
<1>5. ASSUME k < s PROVE FALSE
  <2>1. TwoTo[k] < TwoTo[s] /\ TwoTo[k] \in Nat /\ TwoTo[s] \in Nat
    BY <1>1, <1>5, TwoToGrows, TwoToPositive
  <2>2. TwoTo[k] * Quarter < TwoTo[s] * Quarter
    BY <1>2, <2>1, ProductGrows
  <2>3. TwoTo[k] * Quarter \in Nat /\ TwoTo[s] * Quarter \in Nat /\ w * MaxTotal \in Nat
    BY <1>2, <2>1
  <2> QED
    BY <1>2, <1>3, <1>4, <2>2, <2>3
<1> QED
  BY <1>1, <1>5

\* The counts are numbers, and a byte more is SymbolBits more.
LEMMA CountTypes ==
    ASSUME EncInv
    PROVE  /\ Produced \in Nat /\ ForSent \in Nat /\ SymbolBits \in Nat
           /\ Width(elow, ehigh) \in Nat /\ Width(elow, ehigh) <= Full
           /\ SymbolBits * (Len(sent) + 1) = ForSent + SymbolBits
<1>1. Len(sent) \in Nat
  BY DEF EncInv, EncTypeOK
<1>2. /\ Len(out) \in Nat /\ pending \in Nat /\ elow \in Nat /\ ehigh \in Nat
      /\ elow <= ehigh /\ ehigh < Full /\ Full \in Nat
  BY ExactShape
<1>3. SymbolBits \in Nat
  BY SymbolSize
<1>4. /\ SymbolBits * Len(sent) \in Nat
      /\ SymbolBits * (Len(sent) + 1) = SymbolBits * Len(sent) + SymbolBits
  BY <1>1, <1>3
<1>5. ehigh - elow + 1 \in Nat /\ ehigh - elow + 1 <= Full
  BY <1>2
<1> QED
  BY <1>2, <1>3, <1>4, <1>5 DEF Produced, ForSent, Width

\* A new symbol starts with at least its share.
LEMMA EncByteBound ==
    ASSUME EncInv, EncInv', BoundInv, NEW b \in Symbols, EncByte(b)
    PROVE  BoundInv'
<1> DEFINE c == dist[ectx]
           r == Width(elow, ehigh)
<1>1. /\ epc = "byte" /\ epc' = "renorm" /\ UNCHANGED <<out, pending, sent>>
  BY DEF EncByte
<1>2. c \in Tables
  BY DEF EncInv, EncTypeOK
<1>3. /\ r \in Nat /\ r > Quarter + 1
      /\ b \in 0 .. NSym /\ b + 1 \in 0 .. NSym
      /\ Cut(r, c, b) \in Nat /\ Cut(r, c, b + 1) \in Nat
      /\ elow' = elow + Cut(r, c, b) /\ ehigh' = elow + Cut(r, c, b + 1) - 1
  BY EncByteCuts
<1>4. elow \in Nat /\ Quarter \in Nat
  BY ExactShape
<1> HIDE DEF c, r
<1>5. Quarter <= (Cut(r, c, b + 1) - Cut(r, c, b)) * MaxTotal
  <2>1. r > Quarter
    BY <1>3, <1>4
  <2> QED
    BY <1>2, <1>3, <2>1, SmallestShare
<1>6. Width(elow', ehigh') = Cut(r, c, b + 1) - Cut(r, c, b)
  BY <1>3, <1>4 DEF Width
<1>7. 1 * Quarter <= Width(elow', ehigh') * MaxTotal
  BY <1>4, <1>5, <1>6
<1>8. Produced' = Produced /\ ForSent' = ForSent /\ Produced <= ForSent
  BY <1>1 DEF BoundInv, Produced, ForSent
<1>9. Produced <= ForSent + 0
  BY <1>8, CountTypes
<1>10. After(0)'
  BY <1>7, <1>8, <1>9, TwoToSmall DEF After
<1> QED
  BY <1>1, <1>10 DEF BoundInv, Committed

\* An iteration produces one bit and doubles the interval.
LEMMA EncShiftBound ==
    ASSUME EncInv, EncInv', BoundInv, EncShifts
    PROVE  BoundInv'
<1>1. /\ epc = "renorm" /\ epc' \in {"renorm", "flush"} /\ sent' = sent
  BY DEF EncShifts, EncShiftLower, EncShiftUpper, EncShiftMiddle
<1>2. Produced' = Produced + 1
  <2>1. /\ out \in Seq({0, 1}) /\ Len(out) \in Nat /\ pending \in Nat
        /\ \A x \in {0, 1} : Len(Append(out, x)) = Len(out) + 1
    BY ExactShape
  <2>2. \/ Len(out') = Len(out) + 1 /\ pending' = pending
        \/ out' = out /\ pending' = pending + 1
    BY <2>1 DEF EncShifts, EncShiftLower, EncShiftUpper, EncShiftMiddle, Emit
  <2> QED
    BY <2>1, <2>2 DEF Produced
<1>3. PICK base \in Nat : elow' = 2 * (elow - base) /\ ehigh' = 2 * (ehigh - base) + 1
  BY EncShiftRegisters
<1> DEFINE w == Width(elow, ehigh)
<1>4. Width(elow', ehigh') = 2 * w /\ w \in Nat
  <2>1. elow \in Nat /\ ehigh \in Nat
    BY ExactShape
  <2> QED
    BY <1>3, <2>1, CountTypes DEF Width
<1>5. PICK s \in Nat : After(s)
  BY <1>1 DEF BoundInv
<1>6. Produced <= ForSent + s /\ TwoTo[s] * Quarter <= w * MaxTotal
  BY <1>5 DEF After
<1> HIDE DEF w
<1>7. TwoTo[s + 1] * Quarter <= (2 * w) * MaxTotal
  <2>1. TwoTo[s] \in Nat /\ TwoTo[s + 1] = 2 * TwoTo[s] /\ Quarter \in Nat /\ MaxTotal \in Nat
    BY TwoToDoubles, Sizes, MaxTotalAssumption
  <2>2. /\ (2 * TwoTo[s]) * Quarter = 2 * (TwoTo[s] * Quarter) /\ TwoTo[s] * Quarter \in Nat
        /\ (2 * w) * MaxTotal = 2 * (w * MaxTotal) /\ w * MaxTotal \in Nat
    BY <1>4, <2>1
  <2> QED
    BY <1>6, <2>1, <2>2
<1>8. Produced' <= ForSent' + (s + 1)
  <2>1. ForSent' = ForSent
    BY <1>1 DEF ForSent
  <2> QED
    BY <1>2, <1>6, <2>1, CountTypes
<1>9. After(s + 1)' /\ s + 1 \in Nat
  BY <1>4, <1>7, <1>8 DEF After
<1> QED
  BY <1>1, <1>9 DEF BoundInv, Committed

\* When the symbol is done its bits are paid for.
LEMMA EncReturnBound ==
    ASSUME EncInv, EncInv', BoundInv, EncReturn
    PROVE  BoundInv'
<1>1. epc = "renorm" /\ epc' = "byte" /\ Produced' = Produced /\ sent' = Append(sent, esym)
  BY DEF EncReturn, Produced
<1>2. PICK s \in Nat : After(s)
  BY <1>1 DEF BoundInv
<1>3. s <= SymbolBits
  BY <1>2, CountTypes, IterationsBounded DEF After
<1>4. ForSent' = ForSent + SymbolBits
  <2>1. sent \in Seq(Symbols) /\ esym \in Symbols
    BY DEF EncInv, EncTypeOK
  <2>2. Len(sent') = Len(sent) + 1
    BY <1>1, <2>1
  <2> QED
    BY <2>2, CountTypes DEF ForSent
<1>5. Produced' <= ForSent'
  BY <1>1, <1>2, <1>3, <1>4, CountTypes DEF After
<1> QED
  BY <1>1, <1>5 DEF BoundInv, Committed

\* Emitting what is pending produces nothing.
LEMMA EncFlushBound ==
    ASSUME EncInv, EncInv', BoundInv, EncFlushPending \/ EncFlushed \/ EncHandOver
    PROVE  BoundInv'
<1>1. /\ UNCHANGED <<elow, ehigh, sent>>
      /\ epc' \in {"renorm", "flush"} <=> epc \in {"renorm", "flush"}
      /\ epc' # "byte" /\ (Committed' <=> Committed)
  BY DEF EncFlushPending, EncFlushed, EncHandOver, Committed
<1>2. Produced' = Produced
  <2>1. /\ out \in Seq({0, 1}) /\ Len(out) \in Nat /\ pending \in Nat
        /\ \A x : Len(Append(out, x)) = Len(out) + 1
    BY ExactShape
  <2>2. \/ Len(out') = Len(out) + 1 /\ pending' = pending - 1
        \/ out' = out /\ pending' = pending
    BY <2>1 DEF EncFlushPending, EncFlushed, EncHandOver, Emit
  <2> QED
    BY <2>1, <2>2 DEF Produced
<1>3. ForSent' = ForSent /\ \A s \in Nat : After(s)' <=> After(s)
  BY <1>1, <1>2 DEF ForSent, After
<1> QED
  BY <1>1, <1>2, <1>3 DEF BoundInv

\* cec_enc_finish adds two bits, and pads to whole bytes.
LEMMA EncFinishBound ==
    ASSUME EncInv, EncInv', BoundInv, EncFinish \/ EncPad
    PROVE  BoundInv'
<1>1. /\ out \in Seq({0, 1}) /\ Len(out) \in Nat /\ pending \in Nat
      /\ \A x : Len(Append(out, x)) = Len(out) + 1
  BY ExactShape
<1>2. sent' = sent /\ epc' = "finish" /\ ForSent' = ForSent
  BY DEF EncFinish, EncPad, ForSent
<1>3. ForSent + 2 \in Nat /\ Produced \in Nat
  BY CountTypes
<1>4. CASE EncFinish
  <2>1. Produced' = Produced + 2 /\ Produced <= ForSent
    BY <1>1, <1>4 DEF EncFinish, Emit, Produced, BoundInv
  <2>2. Produced' <= ForSent + 2
    BY <2>1, CountTypes
  <2>3. ForSent + 2 <= RoundUp(ForSent + 2) /\ RoundUp(ForSent + 2) \in Nat
    BY <1>3, RoundingUp
  <2>4. Produced' <= RoundUp(ForSent + 2)
    BY <1>3, <2>1, <2>2, <2>3
  <2> QED
    BY <1>2, <2>4 DEF BoundInv
<1>5. CASE EncPad
  <2>1. Produced' = Produced + 1 /\ Produced % ByteBits # 0 /\ Produced <= RoundUp(ForSent + 2)
    BY <1>1, <1>5 DEF EncPad, Emit, Produced, BoundInv, Committed
  <2>2. Produced + 1 <= RoundUp(ForSent + 2)
    BY <1>3, <2>1, RoundingUp
  <2> QED
    BY <1>2, <2>1, <2>2 DEF BoundInv
<1> QED
  BY <1>4, <1>5

\* Every step of the encoder keeps the invariant.
LEMMA EncNextBound ==
    ASSUME EncInv, EncInv', BoundInv, [EncNext /\ UNCHANGED dist]_<<dist, encVars>>
    PROVE  BoundInv'
<1>1. CASE EncNext
  BY <1>1, EncByteBound, EncShiftBound, EncReturnBound, EncFlushBound, EncFinishBound
  DEF EncNext, EncRun, EncShifts
<1>2. CASE UNCHANGED <<dist, encVars>>
  BY <1>2 DEF encVars, BoundInv, Produced, ForSent, After, Width, Committed
<1> QED
  BY <1>1, <1>2

\* The invariant gives the bound.
LEMMA BoundFollows ==
    ASSUME EncInv, BoundInv
    PROVE  EncBound
<1>1. /\ Produced \in Nat /\ ForSent \in Nat /\ SymbolBits \in Nat
      /\ SymbolBits * (Len(sent) + 1) = ForSent + SymbolBits
  BY CountTypes
<1>2. ByteBits = 8
  BY DEF ByteBits
<1>3. Len(sent) + 0 = Len(sent) /\ ForSent + 0 = ForSent
  <2>1. Len(sent) \in Nat
    BY DEF EncInv, EncTypeOK
  <2> QED
    BY <1>1, <2>1
<1>4. CASE epc = "byte"
  BY <1>1, <1>3, <1>4 DEF BoundInv, EncBound, Coding, Committed, Produced, ForSent
<1>5. CASE epc \in {"renorm", "flush"}
  <2>1. PICK s \in Nat : After(s)
    BY <1>5 DEF BoundInv
  <2>2. s <= SymbolBits
    BY <2>1, CountTypes, IterationsBounded DEF After
  <2>3. Produced <= (ForSent + SymbolBits) + 0
    BY <1>1, <2>1, <2>2 DEF After
  <2> QED
    BY <1>1, <1>5, <2>3 DEF EncBound, Coding, Committed, Produced
<1>6. CASE epc \in {"finish", "done"}
  <2>1. Produced <= RoundUp(ForSent + 2)
    BY <1>6 DEF BoundInv, Committed
  <2>2. RoundUp(ForSent + 2) \in Nat /\ RoundUp(ForSent + 2) <= (ForSent + 2) + (ByteBits - 1)
    BY <1>1, RoundingUp
  <2>3. Produced <= ForSent + (2 + (ByteBits - 1))
    BY <1>1, <1>2, <2>1, <2>2
  <2> QED
    BY <1>3, <1>6, <2>3 DEF EncBound, Coding, Committed, Produced, ForSent
<1>7. epc \in {"byte", "renorm", "flush", "finish", "done"}
  BY DEF EncInv, EncTypeOK
<1> QED
  BY <1>4, <1>5, <1>6, <1>7

(***************************************************************************)
(* The bound of bcb_compress_bound: a message never takes more bits than   *)
(* SymbolBits for each byte, two, and the padding to a whole byte.         *)
(***************************************************************************)
THEOREM EncBoundSafe == Spec => []EncBound
<1>1. ASSUME Init PROVE BoundInv
  <2>1. /\ out = <<>> /\ pending = 0 /\ sent = <<>> /\ epc = "byte"
    BY <1>1 DEF Init, EncInit
  <2>2. Produced = 0 /\ ForSent = SymbolBits * 0 /\ SymbolBits * 0 = 0
    BY <2>1, SymbolSize DEF Produced, ForSent
  <2> QED
    BY <2>1, <2>2 DEF BoundInv, Committed
<1>2. CodecInv /\ CodecInv' /\ BoundInv /\ [Next]_codecVars => BoundInv'
  BY EncoderStep, EncNextBound DEF CodecInv
<1>3. CodecInv /\ BoundInv => EncBound
  BY BoundFollows DEF CodecInv
<1> QED
  BY <1>1, <1>2, <1>3, CodecInvariant, PTL DEF Spec
=============================================================================
