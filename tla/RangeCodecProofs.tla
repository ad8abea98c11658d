-------------------------- MODULE RangeCodecProofs --------------------------
(***************************************************************************)
(* The invariants of the range coder, for every register width, every set  *)
(* of tables, messages of any length, every payload and every number of    *)
(* bytes asked for: first the arithmetic, then the encoder, the decoder,   *)
(* and the two together.                                                   *)
(***************************************************************************)
EXTENDS RangeCodec, NatInduction

-----------------------------------------------------------------------------
(***************************************************************************)
(* The arithmetic of RangeCoder: wrapping, the cuts of an interval, and the *)
(* three shifts of the renormalisation.                                    *)
(***************************************************************************)

\* A register is some code value.
Register == 0 .. Full - 1

\* Powers of two are defined by doubling.
LEMMA TwoToDoubles ==
    /\ TwoTo \in [Nat -> Nat] /\ TwoTo[0] = 1
    /\ \A n \in Nat : TwoTo[n + 1] = 2 * TwoTo[n]
<1> DEFINE g == [t \in Nat \X Nat |-> 2 * t[2]]
           Def(f) == f = [n \in Nat |-> IF n = 0 THEN 1 ELSE 2 * f[n - 1]]
<1>1. g \in [Nat \X Nat -> Nat] /\ \A n, v \in Nat : g[<<n, v>>] = 2 * v
  OBVIOUS
<1> HIDE DEF g
<1>2. PICK f : Runs(Nat, 1, g, f)
  BY <1>1, RecursionDefined
<1>3. f \in [Nat -> Nat] /\ f[0] = 1 /\ \A n \in Nat : f[n + 1] = 2 * f[n]
  BY <1>1, <1>2 DEF Runs
<1>4. Def(f)
  <2>1. ASSUME NEW n \in Nat, n # 0 PROVE f[n] = 2 * f[n - 1]
    <3>1. n - 1 \in Nat /\ (n - 1) + 1 = n
      BY <2>1
    <3> QED
      BY <1>3, <3>1
  <2>2. \A n \in Nat : f[n] = IF n = 0 THEN 1 ELSE 2 * f[n - 1]
    BY <1>3, <2>1
  <2> QED
    BY <1>3, <2>2
<1>5. Def(TwoTo)
  BY <1>4 DEF TwoTo
<1>6. \A n \in Nat : TwoTo[n] = IF n = 0 THEN 1 ELSE 2 * TwoTo[n - 1]
  BY <1>5
<1>7. TwoTo[0] = 1 /\ \A n \in Nat : TwoTo[n + 1] = 2 * TwoTo[n]
  BY <1>6
<1> DEFINE T == {n \in Nat : TwoTo[n] \in Nat}
<1>8. \A n \in Nat : n \in T
  <2>1. 0 \in T /\ \A n \in T : n + 1 \in T
    BY <1>7
  <2> QED
    BY <2>1, Induction
<1>9. TwoTo \in [Nat -> Nat]
  BY <1>5, <1>8
<1> QED
  BY <1>7, <1>9

(***************************************************************************)
(* Truncating division is the largest multiple that fits.                  *)
(***************************************************************************)
LEMMA Division ==
    ASSUME NEW a \in Nat, NEW d \in Nat \ {0}
    PROVE  /\ a \div d \in Nat
           /\ (a \div d) * d <= a
           /\ a < (a \div d) * d + d
  OBVIOUS

(***************************************************************************)
(* A quotient is at least k exactly when k divisors fit in the dividend.   *)
(***************************************************************************)
LEMMA QuotientAtLeast ==
    ASSUME NEW a \in Nat, NEW d \in Nat \ {0}, NEW k \in Nat
    PROVE  k <= a \div d <=> k * d <= a
<1> DEFINE q == a \div d
<1>1. q \in Nat /\ q * d <= a /\ a < q * d + d
  BY Division
<1> HIDE DEF q
<1>2. ASSUME k <= q PROVE k * d <= a
  <2>1. k * d <= q * d
    BY <1>1, <1>2
  <2> QED
    BY <2>1, <1>1
<1>3. ASSUME k * d <= a, ~(k <= q) PROVE FALSE
  <2>1. q + 1 <= k
    BY <1>1, <1>3
  <2>2. (q + 1) * d <= k * d
    BY <1>1, <2>1
  <2>3. (q + 1) * d = q * d + d
    BY <1>1
  <2> QED
    BY <1>1, <1>3, <2>2, <2>3
<1> QED
  BY <1>2, <1>3 DEF q

(***************************************************************************)
(* The register range is positive and four quarters wide.                  *)
(***************************************************************************)
LEMMA Sizes ==
    /\ Quarter \in Nat /\ Half \in Nat /\ Full \in Nat
    /\ Quarter >= 1 /\ Half = 2 * Quarter /\ Full = 4 * Quarter
  BY QuarterAssumption DEF Half, Full

(***************************************************************************)
(* A value that fits its register is stored unchanged.                     *)
(***************************************************************************)
LEMMA U32Fits ==
    ASSUME NEW x \in Register
    PROVE  U32(x) = x
  BY Sizes DEF U32, Register

(***************************************************************************)
(* Storing anything gives a register value.                                *)
(***************************************************************************)
LEMMA U32Type ==
    ASSUME NEW x \in Int
    PROVE  U32(x) \in Register
  BY Sizes DEF U32, Register

\* One past either end of the register range wraps to the other end.
LEMMA U32Ends == U32(Full) = 0 /\ U32(-1) = Full - 1
  BY Sizes DEF U32

(***************************************************************************)
(* The cuts of an interval of width r > Quarter by a table: they start at  *)
(* 0, end at r and strictly increase, so that every symbol has a share.    *)
(***************************************************************************)
Cut(r, c, m) == (r * c[m]) \div c[NSym]

\* The entries of a cumulative table lie between 0 and its total; only the
\* last one reaches it, and the total fits in a quarter of the register range.
LEMMA TableFacts ==
    ASSUME NEW c, IsCum(c)
    PROVE  /\ \A m \in 0 .. NSym : c[m] \in Nat /\ c[m] <= c[NSym]
           /\ \A m \in 0 .. NSym : m < NSym => c[m] + 1 <= c[NSym]
           /\ c[NSym] \in Nat \ {0}
           /\ c[NSym] <= Quarter
           /\ c[0] = 0
<1>1. NSym \in 0 .. NSym /\ 0 \in 0 .. NSym /\ 0 < NSym
  BY NSymAssumption
<1>2. \A m \in 0 .. NSym : c[m] \in Nat
  BY DEF IsCum
<1>3. \A m \in 0 .. NSym : m < NSym => c[m] < c[NSym]
  BY <1>1 DEF IsCum
<1>4. \A m \in 0 .. NSym : ~(m < NSym) => m = NSym
  BY NSymAssumption
<1> QED
  BY <1>1, <1>2, <1>3, <1>4 DEF IsCum

\* Cutting a range wider than a quarter at the entries of a table: the cuts
\* run from 0 to the whole range, and no share between two of them is empty.
LEMMA Cuts ==
    ASSUME NEW c, IsCum(c), NEW r \in Nat, r > Quarter
    PROVE  /\ \A m \in 0 .. NSym : Cut(r, c, m) \in 0 .. r
           /\ Cut(r, c, 0) = 0
           /\ Cut(r, c, NSym) = r
           /\ \A i, j \in 0 .. NSym : i < j => Cut(r, c, i) + 1 <= Cut(r, c, j)
<1> DEFINE tot == c[NSym]
<1>1. /\ tot \in Nat \ {0} /\ tot <= Quarter /\ c[0] = 0
      /\ \A m \in 0 .. NSym : c[m] \in Nat /\ c[m] <= tot
  BY TableFacts
<1>2. NSym \in 0 .. NSym /\ 0 \in 0 .. NSym /\ Quarter \in Nat
  BY NSymAssumption, Sizes
<1>3. ASSUME NEW m \in 0 .. NSym
      PROVE  r * c[m] \in Nat /\ Cut(r, c, m) \in Nat
  <2>1. r * c[m] \in Nat
    BY <1>1
  <2> QED
    BY <2>1, <1>1, Division DEF Cut
<1>4. Cut(r, c, 0) = 0
  <2>1. r * c[0] = 0
    BY <1>1
  <2> QED
    BY <2>1, <1>1 DEF Cut
<1>5. Cut(r, c, NSym) = r
  <2> DEFINE q == (r * tot) \div tot
  <2>1. r * tot \in Nat
    BY <1>1
  <2>2. q \in Nat /\ q * tot <= r * tot /\ r * tot < q * tot + tot
    BY <2>1, <1>1, Division
  <2>3. r <= q
    BY <2>1, <1>1, QuotientAtLeast
  <2>4. ASSUME r + 1 <= q PROVE FALSE
    <3>1. r + 1 \in Nat
      OBVIOUS
    <3>2. (r + 1) * tot <= r * tot
      BY <3>1, <2>1, <1>1, <2>4, QuotientAtLeast
    <3>3. (r + 1) * tot = r * tot + tot
      BY <1>1
    <3> HIDE DEF q
    <3> QED
      BY <3>2, <3>3, <2>1, <1>1
  <2> QED
    BY <2>2, <2>3, <2>4 DEF Cut
<1>6. ASSUME NEW i \in 0 .. NSym, NEW j \in 0 .. NSym, i < j
      PROVE  Cut(r, c, i) + 1 <= Cut(r, c, j)
  <2> DEFINE q == Cut(r, c, i)
  <2>1. r * c[i] \in Nat /\ r * c[j] \in Nat /\ q \in Nat
    BY <1>3
  <2>2. q * tot <= r * c[i]
    BY <2>1, <1>1, Division DEF Cut
  <2>3. c[i] + 1 <= c[j]
    BY <1>1, <1>6 DEF IsCum
  <2>4. r * (c[i] + 1) <= r * c[j]
    BY <2>3, <1>1
  <2>5. r * (c[i] + 1) = r * c[i] + r
    BY <1>1
  <2>6. (q + 1) * tot = q * tot + tot
    BY <2>1, <1>1
  <2>7. (q + 1) * tot <= r * c[j]
    <3>1. tot <= r
      BY <1>1, <1>2
    <3>2. q * tot \in Nat
      BY <2>1, <1>1
    <3> HIDE DEF q, tot
    <3> QED
      BY <2>1, <2>2, <2>4, <2>5, <2>6, <3>1, <3>2, <1>1
  <2>8. q + 1 <= (r * c[j]) \div tot
    BY <2>1, <2>7, <1>1, QuotientAtLeast
  <2> QED
    BY <2>8 DEF Cut
<1>7. ASSUME NEW m \in 0 .. NSym
      PROVE  Cut(r, c, m) <= r
  <2>1. CASE m = NSym
    BY <2>1, <1>5
  <2>2. CASE m # NSym
    <3>1. m < NSym
      BY <2>2, NSymAssumption
    <3>2. Cut(r, c, m) + 1 <= r
      BY <3>1, <1>2, <1>5, <1>6
    <3> QED
      BY <3>2, <1>3
  <2> QED
    BY <2>1, <2>2
<1> QED
  BY <1>3, <1>4, <1>5, <1>6, <1>7

(***************************************************************************)
(* What narrowing does to the registers: the symbol whose share is         *)
(* [Cut(m), Cut(n)) gets exactly that part of the interval, including the  *)
(* case where Cut(n) is 2^32 and is stored as 0.                           *)
(***************************************************************************)
LEMMA Narrow ==
    ASSUME NEW c, IsCum(c), NEW low \in Register, NEW high \in Register,
           low <= high, Width(low, high) > Quarter,
           NEW m \in 0 .. NSym, NEW n \in 0 .. NSym, m < n
    PROVE  LET r == Width(low, high)
           IN  /\ NarrowLow(low, high, c[m], c[NSym])  = low + Cut(r, c, m)
               /\ NarrowHigh(low, high, c[n], c[NSym]) = low + Cut(r, c, n) - 1
               /\ low <= low + Cut(r, c, m)
               /\ low + Cut(r, c, m) <= low + Cut(r, c, n) - 1
               /\ low + Cut(r, c, n) - 1 <= high
<1> DEFINE r == Width(low, high)
           qm == Cut(r, c, m)
           qn == Cut(r, c, n)
<1>1. /\ low \in Nat /\ high \in Nat /\ high < Full /\ r \in Nat /\ r <= Full
      /\ r = high - low + 1
  BY Sizes DEF Register, Width
<1>2. qm \in 0 .. r /\ qn \in 0 .. r /\ qm + 1 <= qn
  BY Cuts, <1>1
<1>3. /\ NarrowLow(low, high, c[m], c[NSym])  = U32(low + U32(qm))
      /\ NarrowHigh(low, high, c[n], c[NSym]) = U32(low + U32(qn) - 1)
  BY DEF NarrowLow, NarrowHigh, Share, Cut
<1> HIDE DEF r, qm, qn
<1>4. U32(low + U32(qm)) = low + qm
  <2>1. qm \in Register /\ low + qm \in Register
    BY <1>1, <1>2, Sizes DEF Register
  <2> QED
    BY <2>1, U32Fits
<1>5. U32(low + U32(qn) - 1) = low + qn - 1
  <2>1. CASE qn = Full
    <3>1. low = 0 /\ U32(qn) = 0 /\ low + 0 - 1 = -1
      BY <1>1, <1>2, <2>1, U32Ends, Sizes
    <3> QED
      BY <3>1, <2>1, U32Ends, Sizes
  <2>2. CASE qn # Full
    <3>1. qn \in Register /\ low + qn - 1 \in Register
      BY <1>1, <1>2, <2>2, Sizes DEF Register
    <3> QED
      BY <3>1, U32Fits
  <2> QED
    BY <2>1, <2>2
<1>6. /\ low <= low + qm /\ low + qm <= low + qn - 1
      /\ low + qn - 1 <= high
  BY <1>1, <1>2
<1> QED
  BY <1>3, <1>4, <1>5, <1>6 DEF r, qm, qn

(***************************************************************************)
(* A shift of the renormalisation subtracts one of three bases, then       *)
(* doubles; no bit is lost in any register that lies in the interval.      *)
(***************************************************************************)
IsShift(low, high, base) == \/ InLower(low, high)  /\ base = 0
                            \/ InUpper(low, high)  /\ base = Half
                            \/ InMiddle(low, high) /\ base = Quarter

\* Under such a shift every value of the interval doubles without wrapping.
LEMMA Shift ==
    ASSUME NEW low \in Register, NEW high \in Register, low <= high,
           NEW base, IsShift(low, high, base),
           NEW x \in low .. high, NEW bit \in {0, 1}
    PROVE  /\ base \in Nat
           /\ Shl(x - base, bit) = 2 * (x - base) + bit
           /\ Shl(x - base, bit) \in Register
<1>1. /\ base \in Nat /\ base <= low /\ high - base < Half
  BY Sizes DEF IsShift, InLower, InUpper, InMiddle, Register
<1>2. 2 * (x - base) + bit \in Register
  BY <1>1, Sizes DEF Register
<1> QED
  BY <1>1, <1>2, U32Fits DEF Shl

(***************************************************************************)
(* The loop stops only on an interval wider than a quarter of the range.   *)
(***************************************************************************)
LEMMA SettledWidth ==
    ASSUME NEW low \in Register, NEW high \in Register,
           low <= high, Settled(low, high)
    PROVE  Width(low, high) > Quarter + 1
  BY Sizes DEF Settled, InLower, InUpper, InMiddle, Register, Width

-----------------------------------------------------------------------------
(***************************************************************************)
(* The encoder keeps its registers typed and its interval usable.          *)
(***************************************************************************)

EncInv == EncTypeOK /\ EncInterval

\* The registers cec_enc_new sets satisfy the invariant.
LEMMA EncInitInv ==
    ASSUME dist \in [Context -> Tables], EncInit
    PROVE  EncInv
<1>1. 0 \in Register /\ Full - 1 \in Register /\ Quarter + 1 < Full
  BY Sizes DEF Register
<1>2. Start \in Context /\ 0 \in Symbols
  BY NSymAssumption DEF Start, Context, Symbols
<1>3. <<>> \in Seq({0, 1}) /\ <<>> \in Seq(Symbols)
  OBVIOUS
<1> QED
  BY <1>1, <1>2, <1>3, Sizes
  DEF EncInit, EncInv, EncTypeOK, EncInterval, Register, Width

(***************************************************************************)
(* Coding a symbol narrows the interval to its share, which is not empty.  *)
(***************************************************************************)
LEMMA EncByteInv ==
    ASSUME EncInv, NEW b \in Symbols, EncByte(b), UNCHANGED dist
    PROVE  EncInv'
<1> USE DEF EncInv
<1> DEFINE cum == dist[ectx]
           r == Width(elow, ehigh)
<1>1. IsCum(cum)
  BY TablesAssumption DEF EncTypeOK
<1>2. b \in 0 .. NSym /\ b + 1 \in 0 .. NSym /\ b < b + 1
  BY NSymAssumption DEF Symbols
<1>3. elow \in Register /\ ehigh \in Register /\ elow <= ehigh
  BY DEF EncTypeOK, EncInterval, Register
<1>4. r > Quarter
  BY <1>3, Sizes DEF EncByte, EncInterval, Register, Width
<1>5. /\ elow' = elow + Cut(r, cum, b)
      /\ ehigh' = elow + Cut(r, cum, b + 1) - 1
      /\ elow <= elow' /\ elow' <= ehigh' /\ ehigh' <= ehigh
  <2> HIDE DEF cum
  <2>1. /\ elow' = NarrowLow(elow, ehigh, cum[b], cum[NSym])
        /\ ehigh' = NarrowHigh(elow, ehigh, cum[b + 1], cum[NSym])
    BY DEF EncByte, cum
  <2> QED
    BY <2>1, <1>1, <1>2, <1>3, <1>4, Narrow
<1>6. r \in Nat
  BY <1>3, Sizes DEF Register, Width
<1>7. Cut(r, cum, b) \in Nat /\ Cut(r, cum, b + 1) \in Nat
  <2> HIDE DEF r, cum
  <2> QED
    BY <1>1, <1>2, <1>4, <1>6, Cuts
<1>8. elow' \in 0 .. Full - 1 /\ ehigh' \in 0 .. Full - 1
  <2> HIDE DEF r, cum
  <2> QED
    BY <1>3, <1>5, <1>7, Sizes DEF Register
<1>9. EncTypeOK'
  BY <1>8 DEF EncByte, EncTypeOK
<1>10. EncInterval'
  BY <1>5 DEF EncByte, EncInterval
<1> QED
  BY <1>9, <1>10

\* Emitting a bit leaves a sequence of bits.
LEMMA AppendBit ==
    ASSUME NEW bits \in Seq({0, 1}), NEW bit \in {0, 1}
    PROVE  Append(bits, bit) \in Seq({0, 1})
  OBVIOUS

(***************************************************************************)
(* The three shifts, with `base' the amount they subtract.                 *)
(***************************************************************************)
EncShifts == EncShiftLower \/ EncShiftUpper \/ EncShiftMiddle

\* Each shift of cec_renorm_enc_ doubles both ends of the interval after
\* subtracting the same base, without a wrap.
LEMMA EncShiftRegisters ==
    ASSUME EncInv, EncShifts
    PROVE  \E base \in Nat :
             /\ IsShift(elow, ehigh, base)
             /\ elow' = 2 * (elow - base) /\ ehigh' = 2 * (ehigh - base) + 1
             /\ elow' \in Register /\ ehigh' \in Register /\ elow' <= ehigh'
<1>1. elow \in Register /\ ehigh \in Register /\ elow <= ehigh
  BY DEF EncInv, EncTypeOK, EncInterval, Register
<1>2. PICK base \in Nat : /\ IsShift(elow, ehigh, base)
                          /\ elow' = Shl(elow - base, 0)
                          /\ ehigh' = Shl(ehigh - base, 1)
  <2>1. CASE EncShiftLower
    <3>1. elow - 0 = elow /\ ehigh - 0 = ehigh
      BY <1>1 DEF Register
    <3> QED
      BY <2>1, <3>1 DEF EncShiftLower, IsShift
  <2>2. CASE EncShiftUpper
    BY <2>2, Sizes DEF EncShiftUpper, IsShift
  <2>3. CASE EncShiftMiddle
    BY <2>3, Sizes DEF EncShiftMiddle, IsShift
  <2> QED
    BY <2>1, <2>2, <2>3 DEF EncShifts
<1>3. elow \in elow .. ehigh /\ ehigh \in elow .. ehigh
  BY <1>1 DEF Register
<1>4. /\ elow' = 2 * (elow - base) + 0 /\ ehigh' = 2 * (ehigh - base) + 1
      /\ elow' \in Register /\ ehigh' \in Register
  BY <1>1, <1>2, <1>3, Shift
<1>5. elow' = 2 * (elow - base) /\ elow' <= ehigh'
  BY <1>1, <1>4 DEF Register
<1> QED
  BY <1>2, <1>4, <1>5

\* A shift leaves a non-empty interval; the width is checked on return.
LEMMA EncShiftInv ==
    ASSUME EncInv, EncShifts, UNCHANGED dist
    PROVE  EncInv'
<1>1. /\ elow' \in 0 .. Full - 1 /\ ehigh' \in 0 .. Full - 1
      /\ elow' <= ehigh'
  BY EncShiftRegisters DEF Register
<1>2. out' \in Seq({0, 1}) /\ ebit' \in {0, 1} /\ pending' \in Nat
  <2> USE DEF EncInv, EncTypeOK, Emit
  <2>1. CASE EncShiftLower
    BY <2>1, AppendBit DEF EncShiftLower
  <2>2. CASE EncShiftUpper
    BY <2>2, AppendBit DEF EncShiftUpper
  <2>3. CASE EncShiftMiddle
    BY <2>3 DEF EncShiftMiddle
  <2> QED
    BY <2>1, <2>2, <2>3 DEF EncShifts
<1>3. epc' \in {"flush", "renorm"} /\ UNCHANGED <<ectx, esym, sent>>
  BY DEF EncShifts, EncShiftLower, EncShiftUpper, EncShiftMiddle
<1>4. EncTypeOK'
  BY <1>1, <1>2, <1>3 DEF EncInv, EncTypeOK
<1>5. EncInterval'
  BY <1>1, <1>3 DEF EncInterval
<1> QED
  BY <1>4, <1>5 DEF EncInv

(***************************************************************************)
(* The steps that leave the registers alone.                               *)
(***************************************************************************)
LEMMA EncReturnInv ==
    ASSUME EncInv, EncReturn, UNCHANGED dist
    PROVE  EncInv'
<1>1. Width(elow, ehigh) > Quarter + 1
  BY SettledWidth
  DEF EncInv, EncTypeOK, EncInterval, EncReturn, Register
<1>2. sent' \in Seq(Symbols) /\ ectx' \in Context
  BY NSymAssumption
  DEF EncInv, EncTypeOK, EncReturn, Train, Context, Symbols
<1>3. EncTypeOK'
  BY <1>2 DEF EncInv, EncTypeOK, EncReturn
<1>4. EncInterval'
  BY <1>1 DEF EncInv, EncInterval, EncReturn, Width
<1> QED
  BY <1>3, <1>4 DEF EncInv

\* Emitting pending bits, flushing, padding and handing over only add bits.
LEMMA EncOutputInv ==
    ASSUME EncInv, UNCHANGED dist,
           EncFlushPending \/ EncFlushed \/ EncFinish \/ EncPad \/ EncHandOver
    PROVE  EncInv'
<1> USE DEF EncFlushPending, EncFlushed, EncFinish, EncPad, EncHandOver, Emit
<1>1. UNCHANGED <<elow, ehigh, ectx, esym, sent>>
  OBVIOUS
<1>2. ebit' \in {0, 1}
  BY DEF EncInv, EncTypeOK
<1>3. out' \in Seq({0, 1})
  <2>1. 1 - ebit \in {0, 1} /\ out \in Seq({0, 1})
    BY DEF EncInv, EncTypeOK
  <2> QED
    BY <1>2, <2>1, AppendBit
<1>4. pending' \in Nat
  BY DEF EncInv, EncTypeOK
<1>5. /\ epc' \in {"byte", "renorm", "flush", "finish", "done"}
      /\ epc' \in {"byte", "finish", "done"} => epc \in {"byte", "finish", "done"}
  OBVIOUS
<1>6. EncTypeOK'
  BY <1>1, <1>2, <1>3, <1>4, <1>5 DEF EncInv, EncTypeOK
<1>7. EncInterval'
  BY <1>1, <1>5 DEF EncInv, EncInterval, Width
<1> QED
  BY <1>6, <1>7 DEF EncInv

\* A step that leaves the encoder alone keeps the invariant.
LEMMA EncStutterInv ==
    ASSUME EncInv, UNCHANGED <<dist, encVars>>
    PROVE  EncInv'
  BY DEF EncInv, EncTypeOK, EncInterval, Width, encVars

\* Every step of the encoder keeps the invariant.
LEMMA EncNextInv ==
    ASSUME EncInv, EncNext, UNCHANGED dist
    PROVE  EncInv'
<1>1. CASE \E b \in Symbols : EncByte(b)
  BY <1>1, EncByteInv
<1>2. CASE EncShifts
  BY <1>2, EncShiftInv
<1>3. CASE EncReturn
  BY <1>3, EncReturnInv
<1>4. CASE EncFlushPending \/ EncFlushed \/ EncFinish \/ EncPad \/ EncHandOver
  BY <1>4, EncOutputInv
<1> QED
  BY <1>1, <1>2, <1>3, <1>4 DEF EncNext, EncRun, EncShifts

\* The encoder alone satisfies the invariant in every state.
LEMMA EncInvariant == EncSpec => []EncInv
<1>1. dist \in [Context -> Tables] /\ EncInit => EncInv
  BY EncInitInv
<1>2. EncInv /\ [EncNext /\ UNCHANGED dist]_<<dist, encVars>> => EncInv'
  BY EncNextInv, EncStutterInv
<1> QED
  BY <1>1, <1>2, PTL DEF EncSpec

(***************************************************************************)
(* The encoder's variables keep their types.                               *)
(***************************************************************************)
THEOREM EncTypeCorrect == EncSpec => []EncTypeOK
  BY EncInvariant, PTL DEF EncInv

(***************************************************************************)
(* cec_enc_byte never meets or leaves an interval too narrow to code in.   *)
(***************************************************************************)
THEOREM EncIntervalSafe == EncSpec => []EncInterval
  BY EncInvariant, PTL DEF EncInv

-----------------------------------------------------------------------------
(***************************************************************************)
(* The decoder keeps the code register inside the interval and the binary  *)
(* search around the right symbol.                                         *)
(***************************************************************************)

\* A 64-bit intermediate that fits is kept unchanged.
LEMMA U64Fits ==
    ASSUME NEW x \in Nat, x < Full * Full
    PROVE  U64(x) = x
<1> DEFINE F2 == Full * Full
<1>1. F2 \in Nat \ {0}
  BY Sizes
<1> HIDE DEF F2
<1>2. x % F2 = x
  BY <1>1 DEF F2
<1> QED
  BY <1>2 DEF U64, F2

\* 0 - 1 in 64 bits is the largest 64-bit value.
LEMMA U64Wraps == U64(-1) = Full * Full - 1
<1> DEFINE F2 == Full * Full
<1>1. F2 \in Nat \ {0}
  BY Sizes
<1> HIDE DEF F2
<1>2. (-1) % F2 = F2 - 1
  BY <1>1
<1> QED
  BY <1>2 DEF U64, F2

(***************************************************************************)
(* The target of cec_dec_byte decides the search correctly: comparing a    *)
(* table entry with it is the same as comparing the cut that entry makes   *)
(* with the position of the code in the interval.                          *)
(***************************************************************************)
LEMMA TargetNoWrap ==
    ASSUME NEW c, IsCum(c), NEW low \in Register, NEW high \in Register,
           NEW cd \in low .. high, Width(low, high) > Quarter,
           cd - low + 1 # Full, NEW m \in 0 .. NSym
    PROVE  c[m] <= Target(low, high, cd, c[NSym])
             <=> Cut(Width(low, high), c, m) <= cd - low
<1> DEFINE r == Width(low, high)
           tot == c[NSym]
           off == cd - low
           x == (off + 1) * tot - 1
           q == x \div r
<1>1. /\ r \in Nat \ {0} /\ r <= Full /\ Full \in Nat /\ Quarter < Full
      /\ off \in Nat /\ off + 1 <= r /\ off + 1 \in Register
  BY Sizes DEF Register, Width
<1>2. /\ c[m] \in Nat /\ tot \in Nat \ {0} /\ tot <= Quarter
  BY TableFacts
<1>3. U32(cd - low + 1) = off + 1
  BY <1>1, U32Fits
<1> HIDE DEF r, tot, off
<1>4. /\ (off + 1) * tot \in Nat /\ (off + 1) * tot >= 1
      /\ (off + 1) * tot <= r * tot /\ r * tot <= Full * tot
      /\ Full * tot <= Full * Full
  <2>1. tot <= Full
    BY <1>1, <1>2, Sizes
  <2> QED
    BY <2>1, <1>1, <1>2
<1>5. x \in Nat /\ x < Full * Full
  <2> DEFINE p == (off + 1) * tot
  <2>1. p \in Nat /\ p >= 1 /\ p <= Full * Full
    <3>1. p <= Full * tot /\ r * tot \in Nat /\ Full * tot \in Nat
      BY <1>1, <1>2, <1>4
    <3>2. Full * Full \in Nat
      BY <1>1
    <3> QED
      BY <3>1, <3>2, <1>4
  <2>2. Full * Full \in Nat
    BY <1>1
  <2>3. x = p - 1
    OBVIOUS
  <2> HIDE DEF p, x
  <2> QED
    BY <2>1, <2>2, <2>3
<1>6. U64(U32(cd - low + 1) * tot - 1) = x
  BY <1>3, <1>5, U64Fits
<1>7. q \in Nat /\ \A k \in Nat : k <= q <=> k * r <= x
  BY <1>1, <1>5, Division, QuotientAtLeast
<1>8. q < tot
  <2>1. ~(tot * r <= x)
    <3>1. tot * r = r * tot /\ r * tot \in Nat
      BY <1>1, <1>2
    <3> QED
      BY <3>1, <1>4
  <2> QED
    BY <2>1, <1>2, <1>7
<1>9. Target(low, high, cd, c[NSym]) = q
  <2>1. q \in Register
    <3> HIDE DEF q
    <3> QED
      BY <1>1, <1>2, <1>7, <1>8, Sizes DEF Register
  <2>2. Target(low, high, cd, c[NSym]) = U32(q)
    BY <1>6 DEF Target, r, tot
  <2> QED
    BY <2>1, <2>2, U32Fits
<1>10. c[m] <= q <=> ~((off + 1) * tot <= r * c[m])
  <2>1. c[m] * r = r * c[m] /\ r * c[m] \in Nat
    BY <1>1, <1>2
  <2> QED
    BY <2>1, <1>2, <1>4, <1>7
<1>11. (off + 1) * tot <= r * c[m] <=> off + 1 <= Cut(r, c, m)
  <2>1. off + 1 \in Nat /\ r * c[m] \in Nat
    BY <1>1, <1>2
  <2> QED
    BY <2>1, <1>2, QuotientAtLeast DEF Cut, tot
<1>12. Cut(r, c, m) \in Nat
  <2>1. r * c[m] \in Nat
    BY <1>1, <1>2
  <2> QED
    BY <2>1, <1>2, Division DEF Cut, tot
<1>13. c[m] <= q <=> Cut(r, c, m) <= off
  BY <1>1, <1>10, <1>11, <1>12
<1> QED
  BY <1>9, <1>13 DEF r, off

\* code - low + 1 is 2^32, stored as 0: the target is then above every entry
LEMMA TargetWraps ==
    ASSUME NEW c, IsCum(c), NEW low \in Register, NEW high \in Register,
           NEW cd \in low .. high, cd - low + 1 = Full
    PROVE  /\ Target(low, high, cd, c[NSym]) = Full - 1
           /\ Width(low, high) = Full
<1>1. Width(low, high) = Full
  BY Sizes DEF Register, Width
<1>2. c[NSym] \in Nat
  BY TableFacts
<1>3. U64(U32(cd - low + 1) * c[NSym] - 1) = Full * Full - 1
  <2>1. U32(cd - low + 1) = 0
    BY U32Ends
  <2>2. 0 * c[NSym] - 1 = -1
    BY <1>2
  <2> QED
    BY <2>1, <2>2, U64Wraps
<1>4. (Full * Full - 1) \div Full = Full - 1
  <2> DEFINE x == Full * Full - 1
             q == x \div Full
  <2>1. Full \in Nat \ {0} /\ Full >= 1
    BY Sizes
  <2>2. x \in Nat /\ Full - 1 \in Nat
    BY <2>1
  <2>3. q \in Nat /\ \A k \in Nat : k <= q <=> k * Full <= x
    BY <2>1, <2>2, Division, QuotientAtLeast
  <2>4. (Full - 1) * Full <= x
    BY <2>1
  <2>5. ~(Full * Full <= x)
    BY <2>1
  <2> HIDE DEF q, x
  <2>6. Full - 1 <= q /\ ~(Full <= q)
    BY <2>1, <2>2, <2>3, <2>4, <2>5
  <2>7. q = Full - 1
    BY <2>1, <2>3, <2>6
  <2> QED
    BY <2>7 DEF q, x
<1>5. U32(Full - 1) = Full - 1
  BY U32Fits, Sizes DEF Register
<1> QED
  BY <1>1, <1>3, <1>4, <1>5 DEF Target

\* Comparing an entry below the total with the search's target, wrapped or
\* not, tells on which side of that entry's cut the code lies.
LEMMA TargetDecides ==
    ASSUME NEW c, IsCum(c), NEW low \in Register, NEW high \in Register,
           NEW cd \in low .. high, Width(low, high) > Quarter,
           NEW m \in 0 .. NSym, m < NSym
    PROVE  c[m] <= Target(low, high, cd, c[NSym])
             <=> Cut(Width(low, high), c, m) <= cd - low
<1>1. CASE cd - low + 1 # Full
  BY <1>1, TargetNoWrap
<1>2. CASE cd - low + 1 = Full
  <2> DEFINE r == Width(low, high)
  <2>1. Target(low, high, cd, c[NSym]) = Full - 1 /\ r = Full
    BY <1>2, TargetWraps
  <2>2. r \in Nat /\ NSym \in 0 .. NSym
    BY <2>1, Sizes, NSymAssumption
  <2>3. c[m] \in Nat /\ c[m] <= Full - 1
    BY TableFacts, Sizes
  <2>4. Cut(r, c, m) \in 0 .. r /\ Cut(r, c, m) + 1 <= r
    <3> HIDE DEF r
    <3>1. /\ Cut(r, c, m) \in 0 .. r /\ Cut(r, c, NSym) = r
          /\ Cut(r, c, m) + 1 <= Cut(r, c, NSym)
      BY <2>2, Cuts DEF r
    <3> QED
      BY <3>1
  <2>5. cd - low = Full - 1
    BY <1>2, Sizes DEF Register
  <2>6. Cut(r, c, m) <= cd - low
    <3> HIDE DEF r
    <3> QED
      BY <2>1, <2>4, <2>5, Sizes
  <2> QED
    BY <2>1, <2>3, <2>6
<1> QED
  BY <1>1, <1>2
-----------------------------------------------------------------------------
(***************************************************************************)
(* What DecContained and DecBracket need to be inductive: the registers    *)
(* cec_dec_new sets, the width of the interval a symbol starts from, and   *)
(* where the search's target came from.                                    *)
(***************************************************************************)
DecStart  == dpc \in {"idle", "fill"} => dlow = 0 /\ dhigh = Full - 1
DecWidth  == dpc \in {"byte", "search"} => Width(dlow, dhigh) > Quarter
DecTarget == dpc = "search" =>
                 target = Target(dlow, dhigh, code, dist[dctx][NSym])

DecInv == /\ DecTypeOK /\ DecContained /\ DecBracket
          /\ DecStart /\ DecWidth /\ DecTarget

\* An unused decoder satisfies the invariant.
LEMMA DecInitInv ==
    ASSUME dist \in [Context -> Tables], DecInit
    PROVE  DecInv
<1>1. Start \in Context /\ 0 \in Symbols /\ NSym \in 1 .. NSym
  BY NSymAssumption DEF Start, Context, Symbols
<1>2. <<>> \in Seq({0, 1}) /\ <<>> \in Seq(Symbols) /\ 0 \in 0 .. Len(<<>>)
  OBVIOUS
<1> QED
  BY <1>1, <1>2, Sizes
  DEF DecInit, DecInv, DecTypeOK, DecContained, DecBracket,
      DecStart, DecWidth, DecTarget

\* A bit read is a bit, and reading stays inside the payload.
LEMMA ReadBit ==
    ASSUME DecInv
    PROVE  /\ NextBit \in {0, 1}
           /\ SkipBit => pos' \in 0 .. Len(payload)
  BY DEF DecInv, DecTypeOK, NextBit, SkipBit

\* cec_dec_new starts a decoder on any payload.
LEMMA DecNewInv ==
    ASSUME DecInv, NEW bits \in Seq({0, 1}), NEW n \in Nat,
           DecNew(bits, n), UNCHANGED dist
    PROVE  DecInv'
<1>1. Start \in Context /\ 0 \in 0 .. Full - 1 /\ Full - 1 \in 0 .. Full - 1
  BY NSymAssumption, Sizes DEF Start, Context
<1>2. <<>> \in Seq(Symbols) /\ 0 \in 0 .. Len(bits)
  OBVIOUS
<1>3. DecTypeOK'
  BY <1>1, <1>2 DEF DecNew, DecInv, DecTypeOK
<1>4. DecStart'
  BY DEF DecNew, DecStart
<1> QED
  BY <1>3, <1>4
  DEF DecNew, DecInv, DecContained, DecBracket, DecWidth, DecTarget

\* cec_dec_new reads one more bit into the code register.
LEMMA DecFillInv ==
    ASSUME DecInv, DecFill, UNCHANGED dist
    PROVE  DecInv'
<1>1. code' \in 0 .. Full - 1
  <2>1. 2 * code + NextBit \in Int
    BY ReadBit DEF DecInv, DecTypeOK
  <2> QED
    BY <2>1, U32Type DEF DecFill, Shl, Register
<1>2. pos' \in 0 .. Len(payload)
  BY ReadBit DEF DecFill
<1>3. weight' \in Nat
  BY DEF DecFill, DecInv, DecTypeOK
<1>4. DecTypeOK'
  BY <1>1, <1>2, <1>3 DEF DecFill, DecInv, DecTypeOK
<1>5. DecStart'
  BY DEF DecFill, DecInv, DecStart
<1> QED
  BY <1>4, <1>5
  DEF DecFill, DecInv, DecContained, DecBracket, DecWidth, DecTarget

\* With the code register full, the first symbol starts from the whole range.
LEMMA DecFilledInv ==
    ASSUME DecInv, DecFilled, UNCHANGED dist
    PROVE  DecInv'
<1>1. DecTypeOK'
  BY DEF DecFilled, DecInv, DecTypeOK
<1>2. dlow = 0 /\ dhigh = Full - 1 /\ code \in 0 .. Full - 1
  BY DEF DecFilled, DecInv, DecStart, DecTypeOK
<1>3. DecContained' /\ DecWidth'
  BY <1>2, Sizes DEF DecFilled, DecContained, DecWidth, Width
<1> QED
  BY <1>1, <1>3
  DEF DecFilled, DecInv, DecStart, DecBracket, DecTarget

(***************************************************************************)
(* The facts about registers and tables every symbol's steps use.          *)
(***************************************************************************)
LEMMA DecFacts ==
    ASSUME DecInv, dpc \in {"byte", "search", "renorm"}
    PROVE  /\ dlow \in Register /\ dhigh \in Register /\ dlow <= dhigh
           /\ code \in dlow .. dhigh
           /\ Width(dlow, dhigh) \in Nat
           /\ IsCum(dist[dctx])
           /\ lo \in 0 .. NSym /\ lo < NSym /\ lo + 1 \in 0 .. NSym
           /\ hi \in 0 .. NSym
<1>1. IsCum(dist[dctx])
  BY TablesAssumption DEF DecInv, DecTypeOK
<1>2. /\ lo \in 0 .. NSym /\ lo < NSym /\ lo + 1 \in 0 .. NSym
      /\ hi \in 0 .. NSym
  BY NSymAssumption DEF DecInv, DecTypeOK, Symbols
<1>3. /\ dlow \in Register /\ dhigh \in Register /\ dlow <= dhigh
      /\ code \in dlow .. dhigh
  BY Sizes DEF DecInv, DecTypeOK, DecContained, Register
<1>4. Width(dlow, dhigh) \in Nat
  BY <1>3, Sizes DEF Width, Register
<1> QED
  BY <1>1, <1>2, <1>3, <1>4

\* DecBracket in terms of Cut
LEMMA BracketCut ==
    DecBracket <=>
      (dpc = "search" =>
         /\ lo < hi
         /\ Cut(Width(dlow, dhigh), dist[dctx], lo) <= code - dlow
         /\ code - dlow < Cut(Width(dlow, dhigh), dist[dctx], hi))
  BY DEF DecBracket, Cut

\* cec_dec_byte begins: its target and the ends of the table bracket the code.
LEMMA DecByteInv ==
    ASSUME DecInv, DecByte, UNCHANGED dist
    PROVE  DecInv'
<1> DEFINE r == Width(dlow, dhigh)
           cum == dist[dctx]
<1>1. UNCHANGED <<dlow, dhigh, code, dist, dctx>> /\ dpc = "byte"
  BY DEF DecByte
<1>2. r > Quarter
  BY <1>1 DEF DecInv, DecWidth
<1>3. Cut(r, cum, 0) = 0 /\ Cut(r, cum, NSym) = r
  <2> HIDE DEF r, cum
  <2> QED
    BY <1>1, <1>2, DecFacts, Cuts DEF r, cum
<1>4. lo' = 0 /\ hi' = NSym /\ lo' < hi'
  BY NSymAssumption DEF DecByte
<1>5. 0 <= code - dlow /\ code - dlow < r
  BY <1>1, DecFacts DEF Register, Width
<1>6. DecBracket'
  <2>1. /\ Cut(Width(dlow, dhigh), dist[dctx], lo)' <= (code - dlow)'
        /\ (code - dlow)' < Cut(Width(dlow, dhigh), dist[dctx], hi)'
    BY <1>1, <1>3, <1>4, <1>5 DEF Cut, Width
  <2> QED
    BY <2>1, <1>4 DEF DecBracket, Cut
<1>7. target' \in 0 .. Full - 1
  <2> DEFINE tot == cum[NSym]
             x == U32(code - dlow + 1) * tot - 1
  <2>1. tot \in Nat
    BY <1>1, DecFacts, TableFacts
  <2>2. code - dlow + 1 \in Int
    BY <1>1, DecFacts DEF Register
  <2>3. U32(code - dlow + 1) \in Register
    BY <2>2, U32Type
  <2>4. x \in Int
    <3> HIDE DEF tot
    <3> QED
      BY <2>1, <2>3, Sizes DEF Register
  <2>5. U64(x) \in Int
    <3> DEFINE F2 == Full * Full
    <3>1. F2 \in Nat \ {0}
      BY Sizes
    <3> HIDE DEF F2, x
    <3>2. x % F2 \in Int
      BY <2>4, <3>1
    <3> QED
      BY <3>2 DEF U64, F2
  <2>6. U64(x) \div r \in Int
    <3>1. r \in Nat \ {0}
      BY <1>1, <1>2, DecFacts, Sizes
    <3> HIDE DEF r, x
    <3> QED
      BY <2>5, <3>1
  <2>7. target' = U32(U64(x) \div r)
    BY DEF DecByte, Target
  <2> QED
    BY <2>6, <2>7, U32Type DEF Register
<1>8. DecTypeOK'
  <2>1. 0 \in Symbols /\ NSym \in 1 .. NSym
    BY NSymAssumption DEF Symbols
  <2> QED
    BY <2>1, <1>7 DEF DecByte, DecInv, DecTypeOK
<1>9. DecContained' /\ DecWidth' /\ DecTarget' /\ DecStart'
  BY DEF DecByte, DecInv, DecContained, DecWidth, DecTarget, DecStart, Width,
         Target
<1> QED
  BY <1>6, <1>8, <1>9 DEF DecInv

(***************************************************************************)
(* Halving keeps the code between the cuts of lo and hi.                   *)
(***************************************************************************)
LEMMA DecSearchInv ==
    ASSUME DecInv, DecSearch, UNCHANGED dist
    PROVE  DecInv'
<1> DEFINE r == Width(dlow, dhigh)
           cum == dist[dctx]
           m == (lo + hi) \div 2
<1>1. /\ dpc = "search" /\ dpc' = "search" /\ lo + 1 < hi
      /\ UNCHANGED <<dlow, dhigh, code, dist, dctx, target, weight, payload,
                     pos, want, recv>>
  BY DEF DecSearch
<1>2. /\ m \in 0 .. NSym /\ lo < m /\ m < hi /\ m < NSym
      /\ m \in Symbols /\ m \in 1 .. NSym
  <2>1. lo \in Nat /\ hi \in Nat /\ hi <= NSym
    BY <1>1, DecFacts
  <2> QED
    BY <2>1, <1>1, NSymAssumption DEF Symbols
<1>3. cum[m] <= target <=> Cut(r, cum, m) <= code - dlow
  <2>1. r > Quarter /\ target = Target(dlow, dhigh, code, cum[NSym])
    BY <1>1 DEF DecInv, DecWidth, DecTarget
  <2> HIDE DEF m, cum
  <2> QED
    BY <2>1, <1>1, <1>2, DecFacts, TargetDecides DEF cum
<1>4. Cut(r, cum, m) \in Nat /\ code - dlow \in Nat
  <2>1. r > Quarter
    BY <1>1 DEF DecInv, DecWidth
  <2>2. code - dlow \in Nat
    BY <1>1, DecFacts DEF Register
  <2> HIDE DEF r, m, cum
  <2> QED
    BY <2>1, <2>2, <1>1, <1>2, DecFacts, Cuts DEF r, cum
<1>5. cum[m] \in Nat /\ target \in Nat
  <2>1. target \in Nat
    BY Sizes DEF DecInv, DecTypeOK
  <2> HIDE DEF m, cum
  <2> QED
    BY <2>1, <1>1, <1>2, DecFacts, TableFacts DEF cum
<1>6. \/ cum[m] <= target /\ lo' = m /\ hi' = hi
      \/ ~(cum[m] <= target) /\ hi' = m /\ lo' = lo
  BY <1>5 DEF DecSearch
<1>7. /\ lo < hi
      /\ Cut(r, cum, lo) <= code - dlow
      /\ code - dlow < Cut(r, cum, hi)
  BY <1>1, BracketCut DEF DecInv
<1>8. DecBracket'
  <2>1. CASE cum[m] <= target /\ lo' = m /\ hi' = hi
    <3>1. Cut(r, cum, m) <= code - dlow
      BY <2>1, <1>3
    <3> QED
      BY <2>1, <3>1, <1>1, <1>2, <1>7 DEF DecBracket, Cut, Width
  <2>2. CASE ~(cum[m] <= target) /\ hi' = m /\ lo' = lo
    <3>1. code - dlow < Cut(r, cum, m)
      <4> HIDE DEF r, cum, m
      <4> QED
        BY <2>2, <1>3, <1>4
    <3> QED
      BY <2>2, <3>1, <1>1, <1>2, <1>7 DEF DecBracket, Cut, Width
  <2> QED
    BY <1>6, <2>1, <2>2
<1>9. DecTypeOK'
  <2> HIDE DEF m
  <2> QED
    BY <1>1, <1>2, <1>6 DEF DecInv, DecTypeOK
<1>10. DecContained' /\ DecWidth' /\ DecTarget' /\ DecStart'
  BY <1>1
  DEF DecInv, DecContained, DecWidth, DecTarget, DecStart, Width, Target
<1> QED
  BY <1>8, <1>9, <1>10 DEF DecInv

(***************************************************************************)
(* The search has ended on the symbol whose share holds the code, so       *)
(* narrowing to that share keeps the code inside.                          *)
(***************************************************************************)
LEMMA DecNarrowInv ==
    ASSUME DecInv, DecNarrow, UNCHANGED dist
    PROVE  DecInv'
<1> DEFINE r == Width(dlow, dhigh)
           cum == dist[dctx]
<1>1. /\ dpc = "search" /\ dpc' = "renorm" /\ lo + 1 >= hi
      /\ UNCHANGED <<code, weight, payload, pos, want, target, lo, hi, dctx,
                     recv, dist>>
  BY DEF DecNarrow
<1>2. /\ lo < hi
      /\ Cut(r, cum, lo) <= code - dlow
      /\ code - dlow < Cut(r, cum, hi)
  BY <1>1, BracketCut DEF DecInv
<1>3. hi = lo + 1
  <2>1. lo \in Nat /\ hi \in Nat
    BY <1>1, DecFacts
  <2> QED
    BY <2>1, <1>1, <1>2
<1>4. r > Quarter
  BY <1>1 DEF DecInv, DecWidth
<1>5. /\ dlow' = dlow + Cut(r, cum, lo)
      /\ dhigh' = dlow + Cut(r, cum, hi) - 1
      /\ dlow <= dlow' /\ dlow' <= dhigh' /\ dhigh' <= dhigh
  <2>1. /\ dlow' = NarrowLow(dlow, dhigh, cum[lo], cum[NSym])
        /\ dhigh' = NarrowHigh(dlow, dhigh, cum[hi], cum[NSym])
    BY <1>3 DEF DecNarrow
  <2> HIDE DEF cum
  <2> QED
    BY <2>1, <1>1, <1>2, <1>4, DecFacts, Narrow DEF cum
<1>6. /\ Cut(r, cum, lo) \in Nat /\ Cut(r, cum, hi) \in Nat
  <2> HIDE DEF r, cum
  <2> QED
    BY <1>1, <1>4, DecFacts, Cuts DEF r, cum
<1>7. /\ dlow \in Nat /\ code \in Nat /\ dhigh \in Nat
      /\ dhigh \in 0 .. Full - 1
  BY <1>1, DecFacts, Sizes DEF Register
<1>8. /\ dlow' \in 0 .. Full - 1 /\ dhigh' \in 0 .. Full - 1
      /\ dlow' <= code /\ code <= dhigh'
  <2> HIDE DEF r, cum
  <2> QED
    BY <1>2, <1>5, <1>6, <1>7, Sizes
<1>9. DecTypeOK'
  BY <1>1, <1>8 DEF DecInv, DecTypeOK
<1>10. DecContained'
  BY <1>1, <1>8 DEF DecContained
<1> QED
  BY <1>1, <1>9, <1>10
  DEF DecInv, DecBracket, DecStart, DecWidth, DecTarget

(***************************************************************************)
(* The renormalisation maps the code with the interval around it.          *)
(***************************************************************************)
LEMMA DecShiftInv ==
    ASSUME DecInv, UNCHANGED dist,
           DecShiftLower \/ DecShiftUpper \/ DecShiftMiddle
    PROVE  DecInv'
<1>1. dpc = "renorm"
  BY DEF DecShiftLower, DecShiftUpper, DecShiftMiddle
<1>2. PICK base : IsShift(dlow, dhigh, base) /\ DecShift(base)
  BY DEF DecShiftLower, DecShiftUpper, DecShiftMiddle, IsShift
<1>3. NextBit \in {0, 1} /\ pos' \in 0 .. Len(payload)
  BY <1>2, ReadBit DEF DecShift
<1>4. /\ dlow \in Register /\ dhigh \in Register /\ dlow <= dhigh
      /\ code \in dlow .. dhigh /\ dlow \in dlow .. dhigh
      /\ dhigh \in dlow .. dhigh
  BY <1>1, DecFacts DEF Register
<1>5. /\ base \in Nat
      /\ dlow' = 2 * (dlow - base) + 0 /\ dlow' \in Register
      /\ dhigh' = 2 * (dhigh - base) + 1 /\ dhigh' \in Register
      /\ code' = 2 * (code - base) + NextBit /\ code' \in Register
  <2>1. /\ dlow' = Shl(dlow - base, 0) /\ dhigh' = Shl(dhigh - base, 1)
        /\ code' = Shl(code - base, NextBit) /\ 0 \in {0, 1} /\ 1 \in {0, 1}
    BY <1>2 DEF DecShift
  <2>2. Shl(dlow - base, 0) = 2 * (dlow - base) + 0 /\ Shl(dlow - base, 0) \in Register
        /\ base \in Nat
    BY <1>2, <1>4, <2>1, Shift
  <2>3. Shl(dhigh - base, 1) = 2 * (dhigh - base) + 1 /\ Shl(dhigh - base, 1) \in Register
    BY <1>2, <1>4, <2>1, Shift
  <2>4. /\ Shl(code - base, NextBit) = 2 * (code - base) + NextBit
        /\ Shl(code - base, NextBit) \in Register
    BY <1>2, <1>3, <1>4, Shift
  <2> QED
    BY <2>1, <2>2, <2>3, <2>4
<1>6. dlow' <= code' /\ code' <= dhigh'
  <2>1. NextBit = 0 \/ NextBit = 1
    BY <1>3
  <2> HIDE DEF NextBit
  <2> QED
    BY <2>1, <1>4, <1>5 DEF Register
<1>7. DecTypeOK'
  BY <1>2, <1>3, <1>5 DEF DecShift, DecInv, DecTypeOK, Register
<1>8. DecContained'
  BY <1>6 DEF DecContained
<1> QED
  BY <1>1, <1>2, <1>7, <1>8
  DEF DecShift, DecInv, DecBracket, DecStart, DecWidth, DecTarget

\* cec_dec_byte returns with an interval wide enough for the next symbol.
LEMMA DecReturnInv ==
    ASSUME DecInv, DecReturn, UNCHANGED dist
    PROVE  DecInv'
<1>1. dpc = "renorm" /\ Settled(dlow, dhigh)
  BY DEF DecReturn
<1>2. Width(dlow, dhigh) > Quarter + 1 /\ Width(dlow, dhigh) \in Nat
  BY <1>1, DecFacts, SettledWidth
<1>3. recv' \in Seq(Symbols) /\ dctx' \in Context
  BY NSymAssumption
  DEF DecInv, DecTypeOK, DecReturn, Train, Context, Symbols
<1>4. DecTypeOK'
  BY <1>3 DEF DecInv, DecTypeOK, DecReturn
<1>5. DecContained' /\ DecWidth'
  BY <1>1, <1>2, Sizes DEF DecInv, DecContained, DecReturn, DecWidth, Width
<1> QED
  BY <1>4, <1>5
  DEF DecReturn, DecInv, DecBracket, DecStart, DecTarget

\* The decoder stops after the last byte asked for.
LEMMA DecDoneInv ==
    ASSUME DecInv, DecDone, UNCHANGED dist
    PROVE  DecInv'
  BY DEF DecDone, DecInv, DecTypeOK, DecContained, DecBracket, DecStart,
         DecWidth, DecTarget

\* A step that leaves the decoder alone keeps the invariant.
LEMMA DecStutterInv ==
    ASSUME DecInv, UNCHANGED <<dist, decVars>>
    PROVE  DecInv'
  BY DEF decVars, DecInv, DecTypeOK, DecContained, DecBracket, DecStart,
         DecWidth, DecTarget, Width, Target

\* Every step inside a call of the decoder keeps the invariant.
LEMMA DecRunInv ==
    ASSUME DecInv, DecRun, UNCHANGED dist
    PROVE  DecInv'
  BY DecFillInv, DecFilledInv, DecByteInv, DecSearchInv, DecNarrowInv,
     DecShiftInv, DecReturnInv, DecDoneInv DEF DecRun

-----------------------------------------------------------------------------
(***************************************************************************)
(* The invariants of the two halves hold of their composition, and of a    *)
(* decoder that is given arbitrary bytes.                                  *)
(***************************************************************************)

CodecInv == EncInv /\ DecInv

\* Encoder and decoder satisfy their invariants in every state of the
\* composition: neither disturbs the other's.
LEMMA CodecInvariant == Spec => []CodecInv
<1>1. Init => CodecInv
  BY EncInitInv, DecInitInv DEF Init, CodecInv
<1>2. ASSUME CodecInv, [Next]_codecVars
      PROVE  CodecInv'
  <2> USE DEF CodecInv
  <2>1. CASE Encode
    BY <2>1, <1>2, EncNextInv, DecStutterInv DEF Encode
  <2>2. ASSUME NEW tail \in Tails, StartDecoder(tail)
        PROVE  CodecInv'
    <3>1. out \o tail \in Seq({0, 1}) /\ Len(sent) \in Nat
      BY <1>2, TailsAssumption DEF EncInv, EncTypeOK
    <3>2. DecInv'
      BY <3>1, <2>2, <1>2, DecNewInv DEF StartDecoder
    <3>3. EncInv'
      BY <2>2, <1>2, EncStutterInv DEF StartDecoder
    <3> QED
      BY <3>2, <3>3
  <2>3. CASE Decode
    BY <2>3, <1>2, DecRunInv, EncStutterInv DEF Decode
  <2>4. ASSUME NEW bits \in Payloads, NEW n \in Wants, StartForeign(bits, n)
        PROVE  CodecInv'
    <3>1. bits \in Seq({0, 1}) /\ n \in Nat
      BY PayloadsAssumption, WantsAssumption
    <3>2. DecInv'
      BY <3>1, <2>4, <1>2, DecNewInv DEF StartForeign
    <3>3. EncInv'
      BY <2>4, <1>2, EncStutterInv DEF StartForeign
    <3> QED
      BY <3>2, <3>3
  <2>5. CASE UNCHANGED codecVars
    BY <2>5, <1>2, EncStutterInv, DecStutterInv DEF codecVars
  <2> QED
    BY <2>1, <2>2, <2>3, <2>4, <2>5, <1>2 DEF Next
<1> QED
  BY <1>1, <1>2, PTL DEF Spec

(***************************************************************************)
(* The decoder's variables keep their types, on payloads of any origin.    *)
(***************************************************************************)
THEOREM DecTypeCorrect == Spec => []DecTypeOK
  BY CodecInvariant, PTL DEF CodecInv, DecInv

(***************************************************************************)
(* No payload moves the code register out of the interval, so the          *)
(* subtractions of cec_dec_byte and cec_renorm_dec_ never wrap.            *)
(***************************************************************************)
THEOREM DecContainedSafe == Spec => []DecContained
  BY CodecInvariant, PTL DEF CodecInv, DecInv

(***************************************************************************)
(* The binary search of cec_dec_byte is right about every table entry,     *)
(* also where the computation of its target wraps.                         *)
(***************************************************************************)
THEOREM DecBracketSafe == Spec => []DecBracket
  BY CodecInvariant, PTL DEF CodecInv, DecInv

(***************************************************************************)
(* Encoding does not disturb decoding, nor the reverse: beside a decoder   *)
(* the interval of the encoder stays usable for every table.               *)
(***************************************************************************)
THEOREM CodecSafe == Spec => []EncInterval
  BY CodecInvariant, PTL DEF CodecInv, EncInv

-----------------------------------------------------------------------------
(***************************************************************************)
(* The codec delivers the message that was encoded, for every register     *)
(* width, every set of tables, messages of any length and whatever follows *)
(* the payload: the decoder's registers go through the stages the          *)
(* encoder's went through, because at each of them its code lies in the    *)
(* encoder's interval.                                                     *)
(***************************************************************************)


(***************************************************************************)
(* Bits as numbers: the value of the first n bits of an endless stream,    *)
(* and the value of the window that a code register wide enough for B bits *)
(* sees after n shifts.                                                    *)
(***************************************************************************)
Streams == [Nat -> {0, 1}]

PrefixValue(s) == CHOOSE f \in [Nat -> Nat] :
                      f[0] = 0 /\ \A n \in Nat : f[n + 1] = 2 * f[n] + s[n + 1]

Window(s, B, n) == PrefixValue(s)[n + B] - Full * PrefixValue(s)[n]

\* The value of a prefix takes one more bit at a time.
LEMMA PrefixGrows ==
    ASSUME NEW s \in Streams
    PROVE  /\ PrefixValue(s) \in [Nat -> Nat] /\ PrefixValue(s)[0] = 0
           /\ \A n \in Nat : PrefixValue(s)[n + 1] = 2 * PrefixValue(s)[n] + s[n + 1]
<1> DEFINE g == [t \in Nat \X Nat |-> 2 * t[2] + s[t[1] + 1]]
           Grows(f) == f[0] = 0 /\ \A n \in Nat : f[n + 1] = 2 * f[n] + s[n + 1]
<1>1. \A n \in Nat : s[n + 1] \in Nat
  BY DEF Streams
<1>2. g \in [Nat \X Nat -> Nat] /\ \A n, v \in Nat : g[<<n, v>>] = 2 * v + s[n + 1]
  BY <1>1
<1> HIDE DEF g
<1>3. PICK f : Runs(Nat, 0, g, f)
  BY <1>2, RecursionDefined
<1>4. f \in [Nat -> Nat] /\ Grows(f)
  BY <1>2, <1>3 DEF Runs
<1>5. PrefixValue(s) \in [Nat -> Nat] /\ Grows(PrefixValue(s))
  BY <1>4 DEF PrefixValue
<1> QED
  BY <1>5

\* Bits that follow a prefix move its value only within its last place.
LEMMA PrefixBounds ==
    ASSUME NEW s \in Streams, NEW n \in Nat
    PROVE  \A m \in Nat : /\ PrefixValue(s)[n] * TwoTo[m] <= PrefixValue(s)[n + m]
                          /\ PrefixValue(s)[n + m] + 1 <= PrefixValue(s)[n] * TwoTo[m] + TwoTo[m]
<1> DEFINE v == PrefixValue(s)
           x == v[n]
           T == {m \in Nat : x * TwoTo[m] <= v[n + m]
                             /\ v[n + m] + 1 <= x * TwoTo[m] + TwoTo[m]}
<1>1. v \in [Nat -> Nat] /\ v[0] = 0 /\ \A i \in Nat : v[i + 1] = 2 * v[i] + s[i + 1]
  BY PrefixGrows
<1>2. x \in Nat
  BY <1>1
<1>3. 0 \in T
  BY <1>1, <1>2, TwoToDoubles
<1>4. ASSUME NEW m \in T PROVE m + 1 \in T
  <2> DEFINE t == TwoTo[m]
             y == v[n + m]
  <2>1. m \in Nat /\ t \in Nat /\ y \in Nat /\ x * t <= y /\ y + 1 <= x * t + t
    BY <1>1, TwoToDoubles
  <2>2. TwoTo[m + 1] = 2 * t
    BY <2>1, TwoToDoubles
  <2>3. v[n + (m + 1)] = 2 * y + s[(n + m) + 1] /\ s[(n + m) + 1] \in {0, 1}
    <3>1. n + m \in Nat /\ n + (m + 1) = (n + m) + 1
      BY <2>1
    <3> QED
      BY <1>1, <3>1 DEF Streams
  <2>4. x * (2 * t) = 2 * (x * t) /\ x * t \in Nat
    BY <1>2, <2>1
  <2>5. 2 * (x * t) <= 2 * y + s[(n + m) + 1]
        /\ 2 * y + s[(n + m) + 1] + 1 <= 2 * (x * t) + 2 * t
    <3> HIDE DEF x, t, y
    <3>1. s[(n + m) + 1] = 0 \/ s[(n + m) + 1] = 1
      BY <2>3
    <3> QED
      BY <2>1, <2>4, <3>1
  <2> QED
    BY <2>1, <2>2, <2>3, <2>4, <2>5
<1> HIDE DEF T
<1>5. \A m \in Nat : m \in T
  BY <1>3, <1>4, Induction DEF T
<1> QED
  BY <1>5 DEF T

\* The window is a register value that loses its top bit at every shift.
LEMMA WindowSlides ==
    ASSUME NEW s \in Streams, NEW B \in Nat, TwoTo[B] = Full, NEW n \in Nat
    PROVE  /\ Window(s, B, n) \in Register
           /\ Window(s, B, n + 1) = 2 * Window(s, B, n) - Full * s[n + 1] + s[n + B + 1]
           /\ Window(s, B, 0) = PrefixValue(s)[B]
<1> DEFINE v == PrefixValue(s)
<1>1. v \in [Nat -> Nat] /\ v[0] = 0 /\ \A i \in Nat : v[i + 1] = 2 * v[i] + s[i + 1]
  BY PrefixGrows
<1>2. Full \in Nat /\ Full >= 1
  BY Sizes
<1>3. Window(s, B, n) \in Register
  <2>1. v[n] * Full <= v[n + B] /\ v[n + B] + 1 <= v[n] * Full + Full
    BY PrefixBounds
  <2>2. v[n] \in Nat /\ v[n + B] \in Nat
    BY <1>1
  <2> DEFINE x == v[n]
             y == v[n + B]
  <2> HIDE DEF v, x, y
  <2>3. Full * x = x * Full /\ x * Full \in Nat
    BY <1>2, <2>2 DEF x
  <2>4. y - Full * x \in 0 .. Full - 1
    BY <1>2, <2>1, <2>2, <2>3 DEF x, y
  <2> QED
    BY <2>4 DEF Window, Register, x, y, v
<1>4. Window(s, B, n + 1) = 2 * Window(s, B, n) - Full * s[n + 1] + s[n + B + 1]
  <2>1. (n + 1) + B = (n + B) + 1 /\ n + B \in Nat
    OBVIOUS
  <2>2. v[(n + 1) + B] = 2 * v[n + B] + s[n + B + 1] /\ v[n + 1] = 2 * v[n] + s[n + 1]
    BY <1>1, <2>1
  <2>3. v[n] \in Nat /\ v[n + B] \in Nat /\ s[n + 1] \in {0, 1} /\ s[n + B + 1] \in {0, 1}
    BY <1>1, <2>1 DEF Streams
  <2>4. Full * (2 * v[n] + s[n + 1]) = 2 * (Full * v[n]) + Full * s[n + 1]
    BY <1>2, <2>3
  <2>5. Full * v[n] \in Nat /\ Full * s[n + 1] \in Nat
    BY <1>2, <2>3
  <2> HIDE DEF v
  <2> QED
    BY <2>2, <2>3, <2>4, <2>5 DEF Window, v
<1>5. Window(s, B, 0) = v[B]
  <2>1. Full * v[0] = 0 /\ v[B] \in Nat /\ 0 + B = B
    BY <1>1, <1>2
  <2> HIDE DEF v
  <2> QED
    BY <2>1 DEF Window, v
<1> QED
  BY <1>3, <1>4, <1>5

-----------------------------------------------------------------------------
(***************************************************************************)
(* A stage of the coder: the registers between two steps of cec_enc_byte   *)
(* or of cec_dec_byte, with n the shifts made so far, p how many of the    *)
(* last ones were middle ones, and k the bytes finished.  A shift that is  *)
(* not a middle one settles p + 1 bits of the stream.                      *)
(***************************************************************************)
Stages == {a \in [ph : {"byte", "renorm"}, low : Register, high : Register,
                  ctx : Context, sym : Symbols, n : Nat, p : Nat, k : Nat] :
              /\ a.low <= a.high /\ a.p <= a.n
              /\ a.ph = "byte" => Settled(a.low, a.high)}

First == [ph |-> "byte", low |-> 0, high |-> Full - 1, ctx |-> Start, sym |-> 0,
          n |-> 0, p |-> 0, k |-> 0]

\* from position j on, s has the bit e and then p bits of the other kind
Settles(s, j, p, e) ==
    /\ \A i \in 0 .. p : j + i \in DOMAIN s
    /\ s[j] = e
    /\ \A i \in 1 .. p : s[j + i] = 1 - e

Narrowed(d, a, b) ==
    /\ a.ph = "byte" /\ b.ph = "renorm"
    /\ b.low  = NarrowLow(a.low, a.high, d[a.ctx][b.sym], d[a.ctx][NSym])
    /\ b.high = NarrowHigh(a.low, a.high, d[a.ctx][b.sym + 1], d[a.ctx][NSym])
    /\ b.ctx = a.ctx /\ b.n = a.n /\ b.p = a.p /\ b.k = a.k

ShiftedBy(s, a, b, base) ==
    /\ a.ph = "renorm" /\ b.ph = "renorm"
    /\ IsShift(a.low, a.high, base)
    /\ b.low = 2 * (a.low - base) /\ b.high = 2 * (a.high - base) + 1
    /\ b.ctx = a.ctx /\ b.sym = a.sym /\ b.n = a.n + 1 /\ b.k = a.k
    /\ IF base = Quarter THEN b.p = a.p + 1
       ELSE b.p = 0 /\ Settles(s, a.n - a.p + 1, a.p, IF base = 0 THEN 0 ELSE 1)

Returned(m, a, b) ==
    /\ a.ph = "renorm" /\ b.ph = "byte"
    /\ Settled(a.low, a.high)
    /\ b.low = a.low /\ b.high = a.high /\ b.ctx = a.sym
    /\ b.n = a.n /\ b.p = a.p /\ b.k = a.k + 1
    /\ b.k \in DOMAIN m /\ m[b.k] = a.sym

Step(d, s, m, a, b) == \/ Narrowed(d, a, b)
                       \/ \E base \in {0, Quarter, Half} : ShiftedBy(s, a, b, base)
                       \/ Returned(m, a, b)

\* the stages up to the L-th, with tables d, bits s and message m
Trace(d, s, m, T, L) ==
    /\ T \in [0 .. L -> Stages]
    /\ T[0] = First
    /\ \A i \in 0 .. L - 1 : Step(d, s, m, T[i], T[i + 1])

\* the bits cec_enc_finish adds at stage a
Finished(s, a) ==
    a.ph = "byte" /\ Settles(s, a.n - a.p + 1, a.p + 1, IF a.low < Quarter THEN 0 ELSE 1)

(***************************************************************************)
(* The code register of a decoder at stage a: its window on the stream,    *)
(* moved by half the range while middle shifts wait for their bit.         *)
(***************************************************************************)
Code(s, B, a) ==
    Window(s, B, a.n) + IF a.p = 0 THEN 0
                        ELSE IF s[a.n - a.p + 1] = 1 THEN Half ELSE -Half

\* The bits that middle shifts wait for are each the opposite of the first.
Promised(s, a) == \A i \in 1 .. a.p : s[a.n - a.p + 1 + i] = 1 - s[a.n - a.p + 1]

\* A shift of the stage shifts the code and reads the next bit.
LEMMA CodeShifts ==
    ASSUME NEW s \in Streams, NEW B \in Nat, TwoTo[B] = Full,
           NEW a \in Stages, NEW b \in Stages, NEW base \in {0, Quarter, Half},
           ShiftedBy(s, a, b, base), Promised(s, a)
    PROVE  Code(s, B, b) = 2 * (Code(s, B, a) - base) + s[a.n + B + 1]
<1> DEFINE w == Window(s, B, a.n)
           x == Window(s, B, b.n)
           t == s[a.n + B + 1]
           u == s[a.n + 1]
<1>1. /\ a.n \in Nat /\ a.p \in Nat /\ a.p <= a.n /\ b.n = a.n + 1
  BY DEF Stages, ShiftedBy
<1>2. w \in Int /\ x = 2 * w - Full * u + t /\ t \in {0, 1} /\ u \in {0, 1}
  <2>1. w \in Register /\ x = 2 * w - Full * u + t
    BY <1>1, WindowSlides
  <2>2. a.n + B + 1 \in Nat /\ a.n + 1 \in Nat
    BY <1>1
  <2> QED
    BY <2>1, <2>2 DEF Streams, Register
<1> HIDE DEF w, x, t, u
<1> DEFINE e == s[a.n - a.p + 1]
           A == IF a.p = 0 THEN 0 ELSE IF e = 1 THEN Half ELSE -Half
           C == IF b.p = 0 THEN 0 ELSE IF s[b.n - b.p + 1] = 1 THEN Half ELSE -Half
<1>3. Code(s, B, a) = w + A /\ Code(s, B, b) = x + C
  BY DEF Code, w, x
<1>4. a.p = 0 => e = u
  BY <1>1 DEF u
<1>5. e \in {0, 1}
  <2>1. a.n - a.p + 1 \in Nat
    BY <1>1
  <2> QED
    BY <2>1 DEF Streams
<1>9. a.p # 0 => u = 1 - e
  <2>1. SUFFICES ASSUME a.p # 0 PROVE u = 1 - e
    OBVIOUS
  <2>2. a.p \in 1 .. a.p /\ (a.n - a.p + 1) + a.p = a.n + 1
    BY <1>1, <2>1
  <2> QED
    BY <2>2 DEF Promised, u
<1>6. u = 0 \/ u = 1
  BY <1>2
<1>7. Full * u = IF u = 1 THEN Full ELSE 0
  BY <1>6, Sizes
<1>8. x + C = 2 * (w + A - base) + t
  <2>1. CASE base = Quarter
    <3>1. b.p = a.p + 1 /\ b.p # 0 /\ b.n - b.p + 1 = a.n - a.p + 1
      BY <1>1, <2>1 DEF ShiftedBy
    <3>2. C = IF e = 1 THEN Half ELSE -Half
      BY <3>1
    <3> HIDE DEF e, C
    <3> QED
      BY <1>2, <1>4, <1>5, <1>6, <1>7, <1>9, <2>1, <3>2, Sizes
  <2>2. CASE base # Quarter
    <3>1. b.p = 0 /\ Settles(s, a.n - a.p + 1, a.p, IF base = 0 THEN 0 ELSE 1)
      BY <2>2 DEF ShiftedBy
    <3>2. C = 0 /\ e = IF base = 0 THEN 0 ELSE 1
      BY <3>1 DEF Settles
    <3>4. base = 0 \/ base = Half
      BY <2>2
    <3> HIDE DEF e, C
    <3> QED
      BY <1>2, <1>4, <1>5, <1>6, <1>7, <1>9, <3>2, <3>4, Sizes
  <2> QED
    BY <2>1, <2>2
<1> DEFINE ca == Code(s, B, a)
           cb == Code(s, B, b)
<1>10. ca = w + A /\ cb = x + C /\ A \in Int /\ base \in Int
  BY <1>3, Sizes
<1> HIDE DEF A, C, ca, cb
<1>11. cb = 2 * (ca - base) + t
  BY <1>2, <1>8, <1>10
<1> QED
  BY <1>11 DEF ca, cb, t

(***************************************************************************)
(* Containment goes from a stage back to the one before it: if the code    *)
(* lies in the interval after a step, it did before.                       *)
(***************************************************************************)
Contained(s, B, a) == /\ a.low <= Code(s, B, a) /\ Code(s, B, a) <= a.high
                      /\ Promised(s, a)

\* The code is an integer.
LEMMA CodeType ==
    ASSUME NEW s \in Streams, NEW B \in Nat, TwoTo[B] = Full, NEW a \in Stages
    PROVE  Code(s, B, a) \in Int
<1>1. Window(s, B, a.n) \in Int
  BY WindowSlides DEF Stages, Register
<1> QED
  BY <1>1, Sizes DEF Code

\* A narrowed interval is part of the one before.
LEMMA NarrowedBack ==
    ASSUME NEW s \in Streams, NEW B \in Nat, TwoTo[B] = Full,
           NEW d \in [Context -> Tables], NEW a \in Stages, NEW b \in Stages,
           Narrowed(d, a, b), Contained(s, B, b)
    PROVE  Contained(s, B, a)
<1>1. /\ a.low \in Register /\ a.high \in Register /\ a.low <= a.high
      /\ Settled(a.low, a.high) /\ b.low \in Register /\ b.high \in Register
  BY DEF Stages, Narrowed
<1>7. Width(a.low, a.high) > Quarter
  <2>1. Width(a.low, a.high) > Quarter + 1 /\ Width(a.low, a.high) \in Int
    BY <1>1, SettledWidth, Sizes DEF Width, Register
  <2> QED
    BY <2>1, Sizes
<1>2. IsCum(d[a.ctx]) /\ b.sym \in 0 .. NSym /\ b.sym + 1 \in 0 .. NSym /\ b.sym < b.sym + 1
  BY TablesAssumption, NSymAssumption DEF Stages, Symbols
<1>3. a.low <= b.low /\ b.high <= a.high
  BY <1>1, <1>2, <1>7, Narrow DEF Narrowed
<1>4. Code(s, B, a) = Code(s, B, b) /\ Promised(s, a)
  BY DEF Code, Promised, Contained, Narrowed
<1>5. Code(s, B, b) \in Int
  BY CodeType
<1>6. a.low <= Code(s, B, b) /\ Code(s, B, b) <= a.high
  BY <1>1, <1>3, <1>5 DEF Contained, Register
<1> QED
  BY <1>4, <1>6 DEF Contained

\* The bits promised after a middle shift were promised before it.
LEMMA PromisedBack ==
    ASSUME NEW s \in Streams, NEW a \in Stages, NEW b \in Stages,
           NEW base \in {0, Quarter, Half}, ShiftedBy(s, a, b, base), Promised(s, b)
    PROVE  Promised(s, a)
<1>1. a.n \in Nat /\ a.p \in Nat
  BY DEF Stages
<1>2. CASE base = Quarter
  <2>1. b.p = a.p + 1 /\ b.n - b.p + 1 = a.n - a.p + 1
    BY <1>1, <1>2 DEF ShiftedBy
  <2>2. 1 .. a.p \subseteq 1 .. b.p
    BY <1>1, <2>1
  <2> QED
    BY <2>1, <2>2 DEF Promised
<1>3. CASE base # Quarter
  BY <1>3 DEF ShiftedBy, Settles, Promised
<1> QED
  BY <1>2, <1>3

\* A code in the shifted interval comes from one in the interval.
LEMMA ShiftedBack ==
    ASSUME NEW s \in Streams, NEW B \in Nat, TwoTo[B] = Full,
           NEW a \in Stages, NEW b \in Stages, NEW base \in {0, Quarter, Half},
           ShiftedBy(s, a, b, base), Contained(s, B, b)
    PROVE  Contained(s, B, a)
<1> DEFINE c == Code(s, B, a)
           t == s[a.n + B + 1]
<1>1. Promised(s, a)
  BY PromisedBack DEF Contained
<1>2. Code(s, B, b) = 2 * (c - base) + t
  BY <1>1, CodeShifts
<1>3. c \in Int /\ base \in Int /\ a.low \in Int /\ a.high \in Int
  BY CodeType, Sizes DEF Stages, Register
<1>4. t \in {0, 1}
  <2>1. a.n + B + 1 \in Nat
    BY DEF Stages
  <2> QED
    BY <2>1 DEF Streams
<1> HIDE DEF c, t
<1>5. 2 * (a.low - base) <= 2 * (c - base) + t /\ 2 * (c - base) + t <= 2 * (a.high - base) + 1
  BY <1>2 DEF Contained, ShiftedBy
<1>6. a.low <= c /\ c <= a.high
  BY <1>3, <1>4, <1>5
<1> QED
  BY <1>1, <1>6 DEF Contained, c

\* Returning from a call moves nothing.
LEMMA ReturnedBack ==
    ASSUME NEW s, NEW B, NEW m, NEW a, NEW b, Returned(m, a, b), Contained(s, B, b)
    PROVE  Contained(s, B, a)
  BY DEF Returned, Contained, Code, Promised

\* cec_enc_finish picks bits that put the code inside the last interval.
LEMMA FinishedContained ==
    ASSUME NEW s \in Streams, NEW B \in Nat, TwoTo[B] = Full,
           NEW a \in Stages, Finished(s, a)
    PROVE  Contained(s, B, a)
<1> DEFINE e == IF a.low < Quarter THEN 0 ELSE 1
           j == a.n - a.p + 1
           w == Window(s, B, a.n)
           x == Window(s, B, a.n + 1)
           y == Window(s, B, a.n + 2)
           u == s[a.n + 1]
           v == s[a.n + 2]
<1>1. a.n \in Nat /\ a.p \in Nat /\ a.p <= a.n /\ a.low \in Register /\ a.high \in Register
      /\ a.low <= a.high /\ Settled(a.low, a.high)
  BY DEF Stages, Finished
<1>2. /\ w \in Register /\ x \in Register /\ y \in Register
      /\ x = 2 * w - Full * u + s[a.n + B + 1]
      /\ y = 2 * x - Full * v + s[(a.n + 1) + B + 1]
      /\ u \in {0, 1} /\ v \in {0, 1}
      /\ s[a.n + B + 1] \in {0, 1} /\ s[(a.n + 1) + B + 1] \in {0, 1}
  <2>1. /\ a.n + 1 \in Nat /\ a.n + 2 \in Nat /\ (a.n + 1) + 1 = a.n + 2
        /\ a.n + B + 1 \in Nat /\ (a.n + 1) + B + 1 \in Nat
    BY <1>1
  <2>2. \A n \in Nat : /\ Window(s, B, n) \in Register
                       /\ Window(s, B, n + 1) = 2 * Window(s, B, n) - Full * s[n + 1]
                                                  + s[n + B + 1]
    BY WindowSlides
  <2>3. \A n \in Nat : s[n] \in {0, 1}
    BY DEF Streams
  <2> QED
    BY <1>1, <2>1, <2>2, <2>3
<1>3. s[j] = e /\ \A i \in 1 .. a.p + 1 : s[j + i] = 1 - e
  BY DEF Finished, Settles
<1>4. v = 1 - e
  <2>1. a.p + 1 \in 1 .. a.p + 1 /\ j + (a.p + 1) = a.n + 2
    BY <1>1
  <2> QED
    BY <1>3, <2>1
<1>5. u = IF a.p = 0 THEN e ELSE 1 - e
  <2>1. CASE a.p = 0
    BY <1>1, <1>3, <2>1
  <2>2. CASE a.p # 0
    <3>1. a.p \in 1 .. a.p + 1 /\ j + a.p = a.n + 1
      BY <1>1, <2>2
    <3> QED
      BY <1>3, <2>2, <3>1
  <2> QED
    BY <2>1, <2>2
<1>6. Promised(s, a)
  <2>1. 1 .. a.p \subseteq 1 .. a.p + 1
    BY <1>1
  <2> QED
    BY <1>3, <2>1 DEF Promised
<1>7. Code(s, B, a) = w + (IF a.p = 0 THEN 0 ELSE IF e = 1 THEN Half ELSE -Half)
  BY <1>3 DEF Code
<1>8. e = 0 \/ e = 1
  OBVIOUS
<1>9. IF e = 0 THEN a.low < Quarter /\ a.high >= Half
      ELSE a.low <= Half /\ a.high >= 3 * Quarter /\ a.low >= Quarter
  BY <1>1, Sizes DEF Settled, InLower, InUpper, InMiddle, Register
<1> HIDE DEF e, w, x, y, u, v
<1>10. Full * u = (IF u = 1 THEN Full ELSE 0) /\ Full * v = (IF v = 1 THEN Full ELSE 0)
  BY <1>2, Sizes
<1> DEFINE c == w + (IF a.p = 0 THEN 0 ELSE IF e = 1 THEN Half ELSE -Half)
<1>11. IF e = 0 THEN Quarter <= c /\ c < Half ELSE Half <= c /\ c < 3 * Quarter
  BY <1>2, <1>4, <1>5, <1>8, <1>10, Sizes DEF Register
<1>12. c \in Int
  BY <1>2, Sizes DEF Register
<1> HIDE DEF c
<1>13. a.low <= c /\ c <= a.high
  BY <1>1, <1>8, <1>9, <1>11, <1>12, Sizes DEF Register
<1> QED
  BY <1>6, <1>7, <1>13 DEF Contained, c

\* So a decoder whose code ends in the last interval was in each one before.
LEMMA AllContained ==
    ASSUME NEW s \in Streams, NEW B \in Nat, TwoTo[B] = Full,
           NEW d \in [Context -> Tables], NEW m, NEW T, NEW L \in Nat,
           Trace(d, s, m, T, L), Contained(s, B, T[L])
    PROVE  \A i \in 0 .. L : Contained(s, B, T[i])
<1> DEFINE N == {n \in Nat : n <= L => Contained(s, B, T[L - n])}
<1>1. 0 \in N
  OBVIOUS
<1>2. ASSUME NEW n \in N PROVE n + 1 \in N
  <2> DEFINE i == L - (n + 1)
  <2>1. SUFFICES ASSUME n + 1 <= L PROVE Contained(s, B, T[i])
    OBVIOUS
  <2>2. i \in 0 .. L - 1 /\ i + 1 = L - n /\ i \in 0 .. L /\ i + 1 \in 0 .. L
    BY <2>1
  <2> HIDE DEF i
  <2>3. Contained(s, B, T[i + 1])
    BY <2>1, <2>2
  <2>4. T[i] \in Stages /\ T[i + 1] \in Stages /\ Step(d, s, m, T[i], T[i + 1])
    BY <2>2 DEF Trace
  <2> QED
    BY <2>3, <2>4, NarrowedBack, ShiftedBack, ReturnedBack DEF Step
<1> HIDE DEF N
<1>3. \A n \in Nat : n \in N
  BY <1>1, <1>2, Induction DEF N
<1>4. ASSUME NEW i \in 0 .. L PROVE Contained(s, B, T[i])
  <2>1. L - i \in Nat /\ L - i <= L /\ L - (L - i) = i
    OBVIOUS
  <2> QED
    BY <1>3, <2>1 DEF N
<1> QED
  BY <1>4
-----------------------------------------------------------------------------
(***************************************************************************)
(* The encoder's stages.  Bits and message only grow, and a stage that was *)
(* reached stays reached.                                                  *)
(***************************************************************************)
Extends(s, t) == \A i \in DOMAIN s : i \in DOMAIN t /\ t[i] = s[i]

\* The bits a trace settled are settled in every longer stream.
LEMMA TraceExtends ==
    ASSUME NEW d, NEW s, NEW t, NEW m, NEW x, NEW T, NEW L \in Nat,
           Trace(d, s, m, T, L), Extends(s, t), Extends(m, x)
    PROVE  Trace(d, t, x, T, L)
<1>1. ASSUME NEW i \in 0 .. L - 1 PROVE Step(d, t, x, T[i], T[i + 1])
  <2> DEFINE a == T[i]
             b == T[i + 1]
  <2>1. Step(d, s, m, a, b) /\ a \in Stages
    BY DEF Trace
  <2> HIDE DEF a, b
  <2>2. ASSUME NEW base \in {0, Quarter, Half}, ShiftedBy(s, a, b, base)
        PROVE  ShiftedBy(t, a, b, base)
    <3>1. ASSUME NEW j \in Int, NEW p \in Nat, NEW e, Settles(s, j, p, e)
          PROVE  Settles(t, j, p, e)
      <4>1. j + 0 = j /\ 0 \in 0 .. p /\ 1 .. p \subseteq 0 .. p
        OBVIOUS
      <4> QED
        BY <3>1, <4>1 DEF Settles, Extends
    <3>2. a.n - a.p + 1 \in Int /\ a.p \in Nat
      BY <2>1 DEF Stages
    <3> QED
      BY <2>2, <3>1, <3>2 DEF ShiftedBy
  <2>3. ASSUME Returned(m, a, b) PROVE Returned(x, a, b)
    BY <2>3 DEF Returned, Extends
  <2> QED
    BY <2>1, <2>2, <2>3 DEF Step, a, b
<1> QED
  BY <1>1 DEF Trace

\* A trace goes on with any step from its last stage.
LEMMA TraceGrows ==
    ASSUME NEW d, NEW s, NEW m, NEW T, NEW L \in Nat, Trace(d, s, m, T, L),
           NEW b \in Stages, Step(d, s, m, T[L], b)
    PROVE  \E U : Trace(d, s, m, U, L + 1) /\ U[L + 1] = b
<1> DEFINE U == [i \in 0 .. L + 1 |-> IF i <= L THEN T[i] ELSE b]
<1>1. T \in [0 .. L -> Stages] /\ T[0] = First
  BY DEF Trace
<1>2. U \in [0 .. L + 1 -> Stages] /\ U[0] = First /\ U[L + 1] = b
  BY <1>1
<1>3. ASSUME NEW i \in 0 .. (L + 1) - 1 PROVE Step(d, s, m, U[i], U[i + 1])
  <2>1. CASE i = L
    BY <2>1
  <2>2. CASE i # L
    <3>1. i \in 0 .. L - 1 /\ i + 1 \in 0 .. L /\ i \in 0 .. L
      BY <2>2
    <3>2. U[i] = T[i] /\ U[i + 1] = T[i + 1]
      BY <3>1
    <3> QED
      BY <3>1, <3>2 DEF Trace
  <2> QED
    BY <2>1, <2>2
<1>4. Trace(d, s, m, U, L + 1)
  BY <1>2, <1>3 DEF Trace
<1> QED
  BY <1>2, <1>4

(***************************************************************************)
(* What is known of the stream: the bits emitted, and q more that the      *)
(* running cec_flush_ still owes after its bit e.                          *)
(***************************************************************************)
Bits(o, q, e) == [i \in 1 .. Len(o) + q |-> IF i <= Len(o) THEN o[i] ELSE 1 - e]

Owed  == IF epc \in {"flush", "finish"} THEN pending ELSE 0
KnownBits == Bits(out, Owed, ebit)

\* Emitting a bit, with others owed or not, keeps the known ones.
LEMMA BitsGrow ==
    ASSUME NEW o \in Seq({0, 1}), NEW q \in Nat, NEW e, NEW f, NEW x \in {0, 1}
    PROVE  /\ Extends(Bits(o, 0, f), Bits(Append(o, x), q, e))
           /\ Extends(Bits(o, q + 1, e), Bits(Append(o, 1 - e), q, e))
           /\ Bits(o, 0, e) = Bits(o, 0, f)
<1>1. /\ Len(o) \in Nat
      /\ \A y : /\ Len(Append(o, y)) = Len(o) + 1
                /\ Append(o, y)[Len(o) + 1] = y
                /\ \A i \in 1 .. Len(o) : Append(o, y)[i] = o[i]
  OBVIOUS
<1>2. Extends(Bits(o, 0, f), Bits(Append(o, x), q, e))
  BY <1>1 DEF Extends, Bits
<1>3. Extends(Bits(o, q + 1, e), Bits(Append(o, 1 - e), q, e))
  BY <1>1 DEF Extends, Bits
<1>4. Bits(o, 0, e) = Bits(o, 0, f)
  BY <1>1 DEF Bits
<1> QED
  BY <1>2, <1>3, <1>4

\* A bit and the opposite bits owed after it settle what was pending.
LEMMA BitsSettle ==
    ASSUME NEW o \in Seq({0, 1}), NEW q \in Nat, NEW e \in {0, 1}
    PROVE  Settles(Bits(Append(o, e), q, e), Len(o) + 1, q, e)
<1>1. /\ Len(o) \in Nat /\ Len(Append(o, e)) = Len(o) + 1
      /\ Append(o, e)[Len(o) + 1] = e
  OBVIOUS
<1> QED
  BY <1>1 DEF Settles, Bits

(***************************************************************************)
(* The encoder is at stage a.                                              *)
(***************************************************************************)
AtStage(a) ==
    /\ a.low = elow /\ a.high = ehigh /\ a.ctx = ectx /\ a.k = Len(sent)
    /\ a.ph = IF epc \in {"renorm", "flush"} THEN "renorm" ELSE "byte"
    /\ a.ph = "renorm" => a.sym = esym
    /\ epc \in {"byte", "renorm", "flush"} =>
          a.n = Len(out) + pending /\ a.p = IF epc = "flush" THEN 0 ELSE pending
    /\ epc \in {"finish", "done"} => Finished(KnownBits, a)

EncTrace == \E L \in Nat : \E T : Trace(dist, KnownBits, sent, T, L) /\ AtStage(T[L])

\* Before the first byte the encoder is at the first stage.
LEMMA EncTraceInit ==
    ASSUME dist \in [Context -> Tables], EncInit PROVE EncTrace
<1> DEFINE T == [i \in 0 .. 0 |-> First]
<1>1. First \in Stages
  <2>1. /\ 0 \in Register /\ Full - 1 \in Register /\ Start \in Context /\ 0 \in Symbols
        /\ 0 <= Full - 1
    BY Sizes, NSymAssumption DEF Register, Start, Context, Symbols
  <2>2. Settled(0, Full - 1)
    BY Sizes DEF Settled, InLower, InUpper, InMiddle
  <2> QED
    BY <2>1, <2>2 DEF First, Stages
<1>2. Trace(dist, KnownBits, sent, T, 0) /\ T[0] = First
  BY <1>1 DEF Trace
<1>3. AtStage(First)
  BY DEF EncInit, AtStage, First
<1> QED
  BY <1>2, <1>3 DEF EncTrace

\* A step of the encoder that is a step between stages.
LEMMA EncTraceStep ==
    ASSUME EncTrace, UNCHANGED dist, Extends(KnownBits, KnownBits'), Extends(sent, sent'),
           \A a \in Stages : AtStage(a) =>
               \E b \in Stages : Step(dist, KnownBits', sent', a, b) /\ AtStage(b)'
    PROVE  EncTrace'
<1>1. PICK L \in Nat : \E T : Trace(dist, KnownBits, sent, T, L) /\ AtStage(T[L])
  BY DEF EncTrace
<1>2. PICK T : Trace(dist, KnownBits, sent, T, L) /\ AtStage(T[L])
  BY <1>1
<1>3. T[L] \in Stages
  BY <1>2 DEF Trace
<1>4. PICK b \in Stages : Step(dist, KnownBits', sent', T[L], b) /\ AtStage(b)'
  BY <1>2, <1>3
<1>5. Trace(dist, KnownBits', sent', T, L)
  BY <1>2, TraceExtends
<1>6. PICK U : Trace(dist, KnownBits', sent', U, L + 1) /\ U[L + 1] = b
  BY <1>4, <1>5, TraceGrows
<1>7. L + 1 \in Nat /\ Trace(dist', KnownBits', sent', U, L + 1) /\ AtStage(U[L + 1])'
  BY <1>4, <1>6
<1> QED
  BY <1>7 DEF EncTrace

\* A step of the encoder inside one stage.
LEMMA EncTraceStay ==
    ASSUME EncTrace, UNCHANGED <<dist, sent>>, Extends(KnownBits, KnownBits'),
           \A a \in Stages : AtStage(a) => AtStage(a)'
    PROVE  EncTrace'
<1>1. PICK L \in Nat : \E T : Trace(dist, KnownBits, sent, T, L) /\ AtStage(T[L])
  BY DEF EncTrace
<1>2. PICK T : Trace(dist, KnownBits, sent, T, L) /\ AtStage(T[L])
  BY <1>1
<1>3. T[L] \in Stages
  BY <1>2 DEF Trace
<1>4. Extends(sent, sent)
  BY DEF Extends
<1>5. Trace(dist', KnownBits', sent', T, L) /\ AtStage(T[L])'
  BY <1>2, <1>3, <1>4, TraceExtends
<1> QED
  BY <1>5 DEF EncTrace

\* Types of the encoder's state, as the steps use them.
LEMMA EncShape ==
    ASSUME EncInv
    PROVE  /\ out \in Seq({0, 1}) /\ Len(out) \in Nat /\ pending \in Nat /\ ebit \in {0, 1}
           /\ sent \in Seq(Symbols) /\ Len(sent) \in Nat /\ esym \in Symbols
           /\ ectx \in Context /\ dist \in [Context -> Tables]
           /\ elow \in Register /\ ehigh \in Register /\ elow <= ehigh
           /\ Extends(KnownBits, KnownBits) /\ Extends(sent, sent)
  BY DEF EncInv, EncTypeOK, EncInterval, Register, Extends

\* cec_enc_byte narrows the interval of the stage.
LEMMA EncByteTrace ==
    ASSUME EncInv, EncInv', EncTrace, NEW c \in Symbols, EncByte(c), UNCHANGED dist
    PROVE  EncTrace'
<1>1. /\ epc = "byte" /\ epc' = "renorm" /\ esym' = c
      /\ UNCHANGED <<pending, ebit, out, ectx, sent>>
  BY DEF EncByte
<1>2. KnownBits' = KnownBits
  BY <1>1 DEF KnownBits, Owed
<1>3. ASSUME NEW a \in Stages, AtStage(a)
      PROVE  \E b \in Stages : Step(dist, KnownBits, sent, a, b) /\ AtStage(b)'
  <2>6. PICK b : b = [ph |-> "renorm", low |-> elow', high |-> ehigh', ctx |-> ectx,
                     sym |-> c, n |-> a.n, p |-> a.p, k |-> a.k]
    OBVIOUS
  <2>1. elow' \in Register /\ ehigh' \in Register /\ elow' <= ehigh'
    BY DEF EncInv, EncTypeOK, EncInterval, Register
  <2>2. b \in Stages
    BY <2>1, <2>6, EncShape DEF Stages
  <2>3. Narrowed(dist, a, b)
    BY <1>1, <1>3, <2>6 DEF AtStage, EncByte, Narrowed
  <2>4. AtStage(b)'
    BY <1>1, <1>3, <2>6 DEF AtStage
  <2> QED
    BY <2>2, <2>3, <2>4 DEF Step
<1> QED
  BY <1>1, <1>2, <1>3, EncShape, EncTraceStep

\* A shift of cec_renorm_enc_ that settles the pending bits.
LEMMA EncSettleTrace ==
    ASSUME EncInv, EncInv', EncTrace, EncShiftLower \/ EncShiftUpper, UNCHANGED dist
    PROVE  EncTrace'
<1> DEFINE e == IF EncShiftLower THEN 0 ELSE 1
           base == IF EncShiftLower THEN 0 ELSE Half
<1>1. /\ epc = "renorm" /\ epc' = "flush" /\ ebit' = e /\ out' = Append(out, e)
      /\ UNCHANGED <<pending, ectx, esym, sent>>
  BY DEF EncShiftLower, EncShiftUpper, Emit, InLower, InUpper
<1>2. IsShift(elow, ehigh, base) /\ elow' = 2 * (elow - base) /\ ehigh' = 2 * (ehigh - base) + 1
  <2>1. /\ IsShift(elow, ehigh, base)
        /\ elow' = Shl(elow - base, 0) /\ ehigh' = Shl(ehigh - base, 1)
    <3>1. elow - 0 = elow /\ ehigh - 0 = ehigh
      BY EncShape DEF Register
    <3> QED
      BY <3>1 DEF EncShiftLower, EncShiftUpper, IsShift
  <2>2. elow \in elow .. ehigh /\ ehigh \in elow .. ehigh
    BY EncShape DEF Register
  <2> HIDE DEF base
  <2>3. /\ elow \in Register /\ ehigh \in Register /\ elow <= ehigh
        /\ 0 \in {0, 1} /\ 1 \in {0, 1}
    BY EncShape
  <2>4. Shl(elow - base, 0) = 2 * (elow - base) + 0 /\ base \in Nat
    BY <2>1, <2>2, <2>3, Shift
  <2>5. Shl(ehigh - base, 1) = 2 * (ehigh - base) + 1
    BY <2>1, <2>2, <2>3, Shift
  <2> QED
    BY <2>1, <2>4, <2>5, EncShape DEF Register
<1>3. KnownBits = Bits(out, 0, ebit) /\ KnownBits' = Bits(Append(out, e), pending, e)
  BY <1>1 DEF KnownBits, Owed
<1>4. e \in {0, 1} /\ base \in {0, Quarter, Half} /\ base # Quarter /\ e = IF base = 0 THEN 0 ELSE 1
  BY Sizes
<1> HIDE DEF e, base
<1>5. Extends(KnownBits, KnownBits') /\ Settles(KnownBits', Len(out) + 1, pending, e)
  BY <1>3, <1>4, EncShape, BitsGrow, BitsSettle
<1>6. ASSUME NEW a \in Stages, AtStage(a)
      PROVE  \E b \in Stages : Step(dist, KnownBits', sent', a, b) /\ AtStage(b)'
  <2>6. PICK b : b = [ph |-> "renorm", low |-> elow', high |-> ehigh', ctx |-> ectx,
                     sym |-> esym, n |-> a.n + 1, p |-> 0, k |-> a.k]
    OBVIOUS
  <2>1. elow' \in Register /\ ehigh' \in Register /\ elow' <= ehigh'
    BY DEF EncInv, EncTypeOK, EncInterval, Register
  <2>2. b \in Stages
    BY <2>1, <2>6, EncShape DEF Stages
  <2>3. a.n - a.p + 1 = Len(out) + 1 /\ a.p = pending /\ a.ph = "renorm" /\ a.sym = esym
        /\ a.low = elow /\ a.high = ehigh /\ a.ctx = ectx
    BY <1>1, <1>6, EncShape DEF AtStage
  <2>4. ShiftedBy(KnownBits', a, b, base)
    BY <1>2, <1>4, <1>5, <2>3, <2>6 DEF ShiftedBy
  <2>5. AtStage(b)'
    <3>1. Len(out') = Len(out) + 1
      BY <1>1, EncShape
    <3>2. a.n = Len(out) + pending /\ a.k = Len(sent)
      BY <1>1, <1>6 DEF AtStage
    <3>3. b.n = Len(out') + pending'
      BY <1>1, <2>6, <3>1, <3>2, EncShape
    <3> QED
      BY <1>1, <2>6, <3>2, <3>3 DEF AtStage
  <2> QED
    BY <1>4, <2>2, <2>4, <2>5 DEF Step
<1> QED
  BY <1>1, <1>5, <1>6, EncShape, EncTraceStep

\* A middle shift leaves one more bit pending.
LEMMA EncMiddleTrace ==
    ASSUME EncInv, EncInv', EncTrace, EncShiftMiddle, UNCHANGED dist
    PROVE  EncTrace'
<1>1. /\ epc = "renorm" /\ epc' = "renorm" /\ pending' = pending + 1
      /\ UNCHANGED <<ebit, out, ectx, esym, sent>>
  BY DEF EncShiftMiddle
<1>2. /\ IsShift(elow, ehigh, Quarter)
      /\ elow' = 2 * (elow - Quarter) /\ ehigh' = 2 * (ehigh - Quarter) + 1
  <2>1. IsShift(elow, ehigh, Quarter)
    BY DEF EncShiftMiddle, IsShift
  <2>2. elow \in elow .. ehigh /\ ehigh \in elow .. ehigh
    BY EncShape DEF Register
  <2>3. /\ elow \in Register /\ ehigh \in Register /\ elow <= ehigh
        /\ 0 \in {0, 1} /\ 1 \in {0, 1}
    BY EncShape
  <2>4. Shl(elow - Quarter, 0) = 2 * (elow - Quarter) + 0
    BY <2>1, <2>2, <2>3, Shift
  <2>5. Shl(ehigh - Quarter, 1) = 2 * (ehigh - Quarter) + 1
    BY <2>1, <2>2, <2>3, Shift
  <2> QED
    BY <2>1, <2>4, <2>5, EncShape, Sizes DEF Register, EncShiftMiddle
<1>3. KnownBits' = KnownBits
  BY <1>1 DEF KnownBits, Owed
<1>4. ASSUME NEW a \in Stages, AtStage(a)
      PROVE  \E b \in Stages : Step(dist, KnownBits, sent, a, b) /\ AtStage(b)'
  <2>6. PICK b : b = [ph |-> "renorm", low |-> elow', high |-> ehigh', ctx |-> ectx,
                     sym |-> esym, n |-> a.n + 1, p |-> a.p + 1, k |-> a.k]
    OBVIOUS
  <2>1. elow' \in Register /\ ehigh' \in Register /\ elow' <= ehigh'
    BY DEF EncInv, EncTypeOK, EncInterval, Register
  <2>2. b \in Stages
    BY <2>1, <2>6, EncShape DEF Stages
  <2>3. ShiftedBy(KnownBits, a, b, Quarter)
    BY <1>1, <1>2, <1>4, <2>6 DEF ShiftedBy, AtStage
  <2>4. AtStage(b)'
    BY <1>1, <1>4, <2>6, EncShape DEF AtStage
  <2> QED
    BY <2>2, <2>3, <2>4 DEF Step
<1> QED
  BY <1>1, <1>3, <1>4, EncShape, EncTraceStep

\* cec_enc_byte returns with the interval it has.
LEMMA EncReturnTrace ==
    ASSUME EncInv, EncInv', EncTrace, EncReturn, UNCHANGED dist
    PROVE  EncTrace'
<1>1. /\ epc = "renorm" /\ epc' = "byte" /\ sent' = Append(sent, esym) /\ ectx' = esym
      /\ Settled(elow, ehigh)
      /\ UNCHANGED <<elow, ehigh, pending, ebit, out, esym>>
  BY DEF EncReturn, Train
<1>2. KnownBits' = KnownBits
  BY <1>1 DEF KnownBits, Owed
<1>3. /\ Extends(sent, sent') /\ Len(sent') = Len(sent) + 1
      /\ Len(sent') \in DOMAIN sent' /\ sent'[Len(sent')] = esym
  BY <1>1, EncShape DEF Extends
<1>4. ASSUME NEW a \in Stages, AtStage(a)
      PROVE  \E b \in Stages : Step(dist, KnownBits, sent', a, b) /\ AtStage(b)'
  <2>6. PICK b : b = [ph |-> "byte", low |-> elow, high |-> ehigh, ctx |-> esym,
                     sym |-> esym, n |-> a.n, p |-> a.p, k |-> a.k + 1]
    OBVIOUS
  <2>1. esym \in Context
    BY EncShape, NSymAssumption DEF Symbols, Context
  <2>2. b \in Stages
    BY <1>1, <2>1, <2>6, EncShape DEF Stages
  <2>3. Returned(sent', a, b)
    BY <1>1, <1>3, <1>4, <2>6 DEF Returned, AtStage
  <2>4. AtStage(b)'
    BY <1>1, <1>3, <1>4, <2>6, EncShape DEF AtStage
  <2> QED
    BY <2>2, <2>3, <2>4 DEF Step
<1> QED
  BY <1>2, <1>3, <1>4, EncShape, EncTraceStep

\* What cec_enc_finish settled stays settled in a longer stream.
LEMMA FinishedExtends ==
    ASSUME NEW s, NEW t, NEW a \in Stages, Extends(s, t), Finished(s, a)
    PROVE  Finished(t, a)
<1> DEFINE j == a.n - a.p + 1
<1>1. a.p + 1 \in Nat /\ j \in Int /\ j + 0 = j /\ 0 \in 0 .. a.p + 1
      /\ 1 .. a.p + 1 \subseteq 0 .. a.p + 1
  BY DEF Stages
<1> HIDE DEF j
<1> QED
  BY <1>1 DEF Finished, Settles, Extends, j

\* Emitting an owed bit is what was known.
LEMMA EncFlushTrace ==
    ASSUME EncInv, EncTrace, EncFlushPending, UNCHANGED dist
    PROVE  EncTrace'
<1>1. /\ epc \in {"flush", "finish"} /\ pending > 0 /\ pending' = pending - 1
      /\ out' = Append(out, 1 - ebit)
      /\ UNCHANGED <<epc, elow, ehigh, ebit, ectx, esym, sent>>
  BY DEF EncFlushPending, Emit
<1>2. pending - 1 \in Nat /\ pending = (pending - 1) + 1 /\ Len(out') = Len(out) + 1
  BY <1>1, EncShape
<1>3. KnownBits = Bits(out, (pending - 1) + 1, ebit) /\ KnownBits' = Bits(out', pending - 1, ebit)
  BY <1>1, <1>2 DEF KnownBits, Owed
<1>4. Extends(KnownBits, KnownBits')
  BY <1>1, <1>2, <1>3, EncShape, BitsGrow
<1>5. ASSUME NEW a \in Stages, AtStage(a) PROVE AtStage(a)'
  <2>1. epc = "finish" => Finished(KnownBits, a) /\ Finished(KnownBits', a)
    BY <1>4, <1>5, FinishedExtends DEF AtStage
  <2>2. Len(out') + pending' = Len(out) + pending
    BY <1>1, <1>2, EncShape
  <2> QED
    BY <1>1, <1>5, <2>1, <2>2 DEF AtStage
<1> QED
  BY <1>1, <1>4, <1>5, EncTraceStay

\* With no bit owed the loops of cec_flush_ end.
LEMMA EncFlushedTrace ==
    ASSUME EncInv, EncTrace, EncFlushed \/ EncHandOver, UNCHANGED dist
    PROVE  EncTrace'
<1>1. /\ pending = 0
      /\ \/ epc = "flush" /\ epc' = "renorm"
         \/ epc = "finish" /\ epc' = "done"
      /\ UNCHANGED <<elow, ehigh, pending, ebit, out, ectx, esym, sent>>
  BY DEF EncFlushed, EncHandOver
<1>2. KnownBits' = KnownBits
  BY <1>1 DEF KnownBits, Owed
<1>3. ASSUME NEW a \in Stages, AtStage(a) PROVE AtStage(a)'
  BY <1>1, <1>2, <1>3 DEF AtStage
<1> QED
  BY <1>1, <1>2, <1>3, EncShape, EncTraceStay

\* cec_enc_finish settles two bits more than were pending.
LEMMA EncFinishTrace ==
    ASSUME EncInv, EncTrace, EncFinish, UNCHANGED dist
    PROVE  EncTrace'
<1> DEFINE e == IF elow < Quarter THEN 0 ELSE 1
<1>1. /\ epc = "byte" /\ epc' = "finish" /\ ebit' = e /\ pending' = pending + 1
      /\ out' = Append(out, e)
      /\ UNCHANGED <<elow, ehigh, ectx, esym, sent>>
  BY DEF EncFinish, Emit
<1>2. KnownBits = Bits(out, 0, ebit) /\ KnownBits' = Bits(Append(out, e), pending + 1, e)
  BY <1>1 DEF KnownBits, Owed
<1>3. e \in {0, 1} /\ pending + 1 \in Nat
  BY EncShape
<1>4. Extends(KnownBits, KnownBits') /\ Settles(KnownBits', Len(out) + 1, pending + 1, e)
  <2> HIDE DEF e
  <2> QED
    BY <1>2, <1>3, EncShape, BitsGrow, BitsSettle
<1>5. ASSUME NEW a \in Stages, AtStage(a) PROVE AtStage(a)'
  <2>1. a.n - a.p + 1 = Len(out) + 1 /\ a.p = pending /\ a.ph = "byte" /\ a.low = elow
    BY <1>1, <1>5, EncShape DEF AtStage
  <2>2. Finished(KnownBits', a)
    BY <1>4, <2>1 DEF Finished
  <2> QED
    BY <1>1, <1>5, <2>2 DEF AtStage
<1> QED
  BY <1>1, <1>4, <1>5, EncTraceStay

\* Padding only adds bits.
LEMMA EncPadTrace ==
    ASSUME EncInv, EncTrace, EncPad, UNCHANGED dist
    PROVE  EncTrace'
<1>1. /\ epc = "finish" /\ pending = 0 /\ out' = Append(out, 0)
      /\ UNCHANGED <<epc, elow, ehigh, pending, ebit, ectx, esym, sent>>
  BY DEF EncPad, Emit
<1>2. KnownBits = Bits(out, 0, ebit) /\ KnownBits' = Bits(Append(out, 0), 0, ebit)
  BY <1>1 DEF KnownBits, Owed
<1>3. Extends(KnownBits, KnownBits')
  BY <1>2, EncShape, BitsGrow
<1>4. ASSUME NEW a \in Stages, AtStage(a) PROVE AtStage(a)'
  <2>1. Finished(KnownBits, a) /\ Finished(KnownBits', a)
    BY <1>1, <1>3, <1>4, FinishedExtends DEF AtStage
  <2> QED
    BY <1>1, <1>4, <2>1 DEF AtStage
<1> QED
  BY <1>1, <1>3, <1>4, EncTraceStay

\* A step that leaves the encoder alone leaves its trace.
LEMMA EncTraceStutter ==
    ASSUME EncTrace, UNCHANGED <<dist, encVars>>
    PROVE  EncTrace'
<1>1. KnownBits' = KnownBits /\ \A a : AtStage(a)' = AtStage(a)
  BY DEF encVars, KnownBits, Owed, AtStage
<1> QED
  BY <1>1 DEF EncTrace, encVars

\* Every step of the encoder leaves a trace of stages behind it.
LEMMA EncNextTrace ==
    ASSUME EncInv, EncInv', EncTrace, EncNext, UNCHANGED dist
    PROVE  EncTrace'
<1>1. CASE \E c \in Symbols : EncByte(c)
  BY <1>1, EncByteTrace
<1>2. CASE EncShiftLower \/ EncShiftUpper
  BY <1>2, EncSettleTrace
<1>3. CASE EncShiftMiddle
  BY <1>3, EncMiddleTrace
<1>4. CASE EncReturn
  BY <1>4, EncReturnTrace
<1>5. CASE EncFlushPending
  BY <1>5, EncFlushTrace
<1>6. CASE EncFlushed \/ EncHandOver
  BY <1>6, EncFlushedTrace
<1>7. CASE EncFinish
  BY <1>7, EncFinishTrace
<1>8. CASE EncPad
  BY <1>8, EncPadTrace
<1> QED
  BY <1>1, <1>2, <1>3, <1>4, <1>5, <1>6, <1>7, <1>8 DEF EncNext, EncRun

-----------------------------------------------------------------------------
(***************************************************************************)
(* The decoder.  Its payload is a stream that ends in zeros; a number of   *)
(* bits asked for leaves its position there or at the end.                 *)
(***************************************************************************)
Stream(bits) == [i \in Nat |-> IF i \in 1 .. Len(bits) THEN bits[i] ELSE 0]

Read(q) == IF q <= Len(payload) THEN q ELSE Len(payload)

\* all the stages of the message, on the stream the decoder reads
Whole(T, L) ==
    /\ Trace(dist, Stream(payload), sent, T, L)
    /\ T[L].k = Len(sent) /\ Finished(Stream(payload), T[L])

\* the loop of cec_dec_new
Filling ==
    /\ recv = <<>> /\ dctx = Start
    /\ \E m \in Nat : /\ weight = TwoTo[m] /\ pos = Read(m)
                      /\ weight <= Full => code = PrefixValue(Stream(payload))[m]

\* the decoder is at stage a, and has returned the bytes up to there
Following(B, a) ==
    /\ dlow = a.low /\ dhigh = a.high /\ dctx = a.ctx
    /\ code = Code(Stream(payload), B, a) /\ pos = Read(a.n + B)
    /\ Len(recv) = a.k /\ \A j \in 1 .. a.k : recv[j] = sent[j]
    /\ a.ph = IF dpc = "renorm" THEN "renorm" ELSE "byte"
    /\ dpc = "renorm" => lo = a.sym

Delivering ==
    /\ want = Len(sent)
    /\ dpc \in {"search", "renorm"} => Len(recv) < want
    /\ dpc = "done" => Len(recv) = want
    /\ \E L \in Nat : \E T :
          /\ Whole(T, L)
          /\ dpc = "fill" => Filling
          /\ dpc # "fill" => \E B \in Nat : \E i \in 0 .. L :
                                TwoTo[B] = Full /\ Following(B, T[i])

ChannelInv ==
    /\ EncTrace
    /\ dpc = "idle" => recv = <<>>
    /\ dpc # "idle" => epc \in {"byte", "done"}
    /\ dpc # "idle" /\ epc = "done" => Delivering

\* A payload is a stream, and cec_read_bit_ reads it in order.
LEMMA ReadsStream ==
    ASSUME DecInv
    PROVE  /\ Stream(payload) \in Streams /\ Len(payload) \in Nat
           /\ \A q \in Nat : /\ Read(q) \in Nat
                             /\ pos = Read(q) =>
                                  /\ NextBit = Stream(payload)[q + 1]
                                  /\ SkipBit => pos' = Read(q + 1)
<1>1. payload \in Seq({0, 1}) /\ Len(payload) \in Nat
  BY DEF DecInv, DecTypeOK
<1>2. Stream(payload) \in Streams
  BY <1>1 DEF Stream, Streams
<1>3. ASSUME NEW q \in Nat
      PROVE  /\ Read(q) \in Nat
             /\ pos = Read(q) => NextBit = Stream(payload)[q + 1]
                                 /\ (SkipBit => pos' = Read(q + 1))
  BY <1>1 DEF Read, NextBit, SkipBit, Stream
<1> QED
  BY <1>1, <1>2, <1>3

\* cec_dec_new begins with the whole trace of the encoder.
LEMMA StartDelivers ==
    ASSUME CodecInv, CodecInv', EncTrace, NEW tail \in Tails, StartDecoder(tail)
    PROVE  Delivering'
<1>1. /\ epc = "done" /\ payload' = out \o tail /\ want' = Len(sent)
      /\ code' = 0 /\ weight' = 1 /\ pos' = 0 /\ dctx' = Start /\ recv' = <<>>
      /\ dpc' = "fill" /\ UNCHANGED <<dist, encVars>>
  BY DEF StartDecoder, DecNew
<1> DEFINE S == Stream(payload')
<1>2. S \in Streams /\ Len(payload') \in Nat
  <2>1. payload' \in Seq({0, 1})
    BY DEF CodecInv, DecInv, DecTypeOK
  <2> QED
    BY <2>1 DEF Stream, Streams
<1>3. Extends(KnownBits, S)
  <2>1. KnownBits = Bits(out, 0, ebit)
    BY <1>1 DEF KnownBits, Owed
  <2>2. out \in Seq({0, 1}) /\ tail \in Seq({0, 1})
    BY EncShape, TailsAssumption DEF CodecInv
  <2>3. /\ Len(out) \in Nat /\ Len(payload') = Len(out) + Len(tail) /\ Len(tail) \in Nat
        /\ \A i \in 1 .. Len(out) : payload'[i] = out[i]
    BY <1>1, <2>2
  <2> QED
    BY <2>1, <2>3 DEF Extends, Bits, Stream
<1>4. PICK L \in Nat : \E T : Trace(dist, KnownBits, sent, T, L) /\ AtStage(T[L])
  BY DEF EncTrace
<1>5. PICK T : Trace(dist, KnownBits, sent, T, L) /\ AtStage(T[L])
  BY <1>4
<1>6. Extends(sent, sent)
  BY DEF Extends
<1>7. T[L] \in Stages
  BY <1>5 DEF Trace
<1>8. Whole(T, L)'
  <2>1. Trace(dist, S, sent, T, L)
    BY <1>3, <1>5, <1>6, TraceExtends
  <2>2. T[L].k = Len(sent) /\ Finished(S, T[L])
    BY <1>1, <1>3, <1>5, <1>7, FinishedExtends DEF AtStage
  <2> QED
    BY <1>1, <2>1, <2>2 DEF Whole, encVars
<1>9. Filling'
  <2>1. 0 \in Nat /\ TwoTo[0] = 1 /\ PrefixValue(S)[0] = 0
    BY <1>2, TwoToDoubles, PrefixGrows
  <2>2. Read(0)' = 0
    BY <1>2 DEF Read
  <2> QED
    BY <1>1, <2>1, <2>2 DEF Filling
<1>10. want' = Len(sent')
  BY <1>1 DEF encVars
<1> QED
  BY <1>1, <1>8, <1>9, <1>10 DEF Delivering

\* One more bit in the code register.
LEMMA FillDelivers ==
    ASSUME CodecInv, Delivering, DecFill, UNCHANGED <<dist, encVars>>
    PROVE  Delivering'
<1>1. /\ dpc = "fill" /\ dpc' = "fill" /\ weight # Full /\ weight' = 2 * weight
      /\ code' = Shl(code, NextBit) /\ SkipBit
      /\ UNCHANGED <<payload, want, dctx, recv, dist, sent>>
  BY DEF DecFill, encVars
<1> DEFINE S == Stream(payload)
<1>2. PICK m \in Nat : weight = TwoTo[m] /\ pos = Read(m)
                       /\ (weight <= Full => code = PrefixValue(S)[m])
  BY <1>1 DEF Delivering, Filling
<1>3. m + 1 \in Nat /\ weight' = TwoTo[m + 1] /\ weight \in Nat
  BY <1>1, <1>2, TwoToDoubles
<1>4. S \in Streams /\ NextBit = S[m + 1] /\ pos' = Read(m + 1)
  BY <1>1, <1>2, ReadsStream DEF CodecInv
<1>5. ASSUME weight' <= Full PROVE code' = PrefixValue(S)[m + 1]
  <2>1. weight <= Full
    BY <1>1, <1>3, <1>5, Sizes
  <2> DEFINE v == PrefixValue(S)
  <2>2. v \in [Nat -> Nat] /\ v[0] = 0 /\ v[m + 1] = 2 * v[m] + S[m + 1]
    BY <1>4, PrefixGrows
  <2>3. v[m] + 1 <= weight
    <3>1. v[0 + m] + 1 <= v[0] * TwoTo[m] + TwoTo[m]
      BY <1>4, PrefixBounds
    <3>2. 0 + m = m /\ 0 * TwoTo[m] = 0 /\ TwoTo[m] \in Nat
      BY <1>2, TwoToDoubles
    <3> QED
      BY <1>2, <2>2, <3>1, <3>2
  <2>4. S[m + 1] \in {0, 1}
    BY <1>4 DEF Streams
  <2>5. v[m] \in Nat
    BY <2>2
  <2> HIDE DEF v, S
  <2>6. 2 * v[m] + S[m + 1] \in Register
    BY <1>1, <1>3, <1>5, <2>3, <2>4, <2>5, Sizes DEF Register
  <2> QED
    BY <1>1, <1>2, <1>4, <2>1, <2>2, <2>6, U32Fits DEF Shl, v, S
<1>6. Filling'
  <2>1. Read(m + 1)' = Read(m + 1)
    BY <1>1 DEF Read
  <2> QED
    BY <1>1, <1>2, <1>3, <1>4, <1>5, <2>1 DEF Delivering, Filling
<1>7. \A T, L : Whole(T, L)' = Whole(T, L)
  BY <1>1 DEF Whole
<1> QED
  BY <1>1, <1>6, <1>7 DEF Delivering

\* With the register full the decoder is at the first stage.
LEMMA FilledDelivers ==
    ASSUME CodecInv, Delivering, DecFilled, UNCHANGED <<dist, encVars>>
    PROVE  Delivering'
<1>1. /\ dpc = "fill" /\ dpc' = "byte" /\ weight = Full
      /\ UNCHANGED <<dlow, dhigh, code, payload, pos, want, lo, dctx, recv, dist, sent>>
  BY DEF DecFilled, encVars
<1> DEFINE S == Stream(payload)
<1>2. PICK L \in Nat : \E T : Whole(T, L)
  BY DEF Delivering
<1>3. PICK T : Whole(T, L)
  BY <1>2
<1>4. T[0] = First
  BY <1>3 DEF Whole, Trace
<1>5. PICK B \in Nat : TwoTo[B] = Full /\ pos = Read(B) /\ code = PrefixValue(S)[B]
  BY <1>1, <1>3, Sizes DEF Delivering, Filling
<1>6. recv = <<>> /\ dctx = Start
  BY <1>1 DEF Delivering, Filling
<1>7. dlow = 0 /\ dhigh = Full - 1
  BY <1>1 DEF CodecInv, DecInv, DecStart
<1>8. Code(S, B, First) = code
  <2>1. Window(S, B, 0) = PrefixValue(S)[B] /\ Window(S, B, 0) \in Int
    <3>1. S \in Streams
      BY ReadsStream DEF CodecInv
    <3> HIDE DEF S
    <3>2. Window(S, B, 0) = PrefixValue(S)[B] /\ Window(S, B, 0) \in Register
      BY <1>5, <3>1, WindowSlides
    <3> QED
      BY <3>2 DEF Register
  <2> QED
    BY <1>5, <2>1 DEF Code, First
<1>9. Following(B, First)'
  <2>1. Read(B)' = Read(B) /\ 0 + B = B
    BY <1>1 DEF Read
  <2>2. Len(recv') = 0
    BY <1>1, <1>6
  <2> QED
    BY <1>1, <1>5, <1>6, <1>7, <1>8, <2>1, <2>2 DEF Following, First
<1>10. Whole(T, L)'
  BY <1>1, <1>3 DEF Whole
<1>11. 0 \in 0 .. L /\ TwoTo[B] = Full /\ Following(B, T[0])'
  BY <1>4, <1>5, <1>9
<1> QED
  BY <1>1, <1>10, <1>11 DEF Delivering

(***************************************************************************)
(* A decoder that follows the trace, for the lemmas below.                 *)
(***************************************************************************)
FollowsAt(T, L, B, i) ==
    /\ L \in Nat /\ B \in Nat /\ i \in 0 .. L
    /\ Whole(T, L) /\ TwoTo[B] = Full /\ Following(B, T[i])

\* Steps that leave the registers at their stage.
LEMMA StayDelivers ==
    ASSUME CodecInv, Delivering, DecByte \/ DecSearch \/ DecDone, UNCHANGED <<dist, encVars>>
    PROVE  Delivering'
<1>1. /\ dpc \notin {"fill", "renorm"} /\ dpc' \notin {"fill", "renorm"}
      /\ dpc' = "search" => dpc = "search" \/ Len(recv) < want
      /\ dpc' = "done" => Len(recv) = want
      /\ UNCHANGED <<dlow, dhigh, code, payload, pos, want, dctx, recv, dist, sent>>
  BY DEF DecByte, DecSearch, DecDone, encVars
<1>2. PICK L \in Nat : \E T : Whole(T, L) /\ \E B \in Nat : \E i \in 0 .. L :
                             TwoTo[B] = Full /\ Following(B, T[i])
  BY <1>1 DEF Delivering
<1>3. PICK T : Whole(T, L) /\ \E B \in Nat : \E i \in 0 .. L :
                             TwoTo[B] = Full /\ Following(B, T[i])
  BY <1>2
<1>4. PICK B \in Nat, i \in 0 .. L : TwoTo[B] = Full /\ Following(B, T[i])
  BY <1>3
<1>5. Whole(T, L)'
  BY <1>1, <1>3 DEF Whole
<1>6. Following(B, T[i])'
  <2>1. Read(T[i].n + B)' = Read(T[i].n + B)
    BY <1>1 DEF Read
  <2> QED
    BY <1>1, <1>4, <2>1 DEF Following
<1> QED
  BY <1>1, <1>4, <1>5, <1>6 DEF Delivering

\* Before the last byte is returned there is a next stage.
LEMMA NextStage ==
    ASSUME CodecInv, Delivering, dpc \in {"search", "renorm"}
    PROVE  \E L, T, B, i : /\ FollowsAt(T, L, B, i) /\ i \in 0 .. L - 1
                           /\ T[i] \in Stages /\ T[i + 1] \in Stages
                           /\ Step(dist, Stream(payload), sent, T[i], T[i + 1])
                           /\ Contained(Stream(payload), B, T[i])
                           /\ Contained(Stream(payload), B, T[i + 1])
<1>1. PICK L \in Nat : \E T : Whole(T, L) /\ \E B \in Nat : \E i \in 0 .. L :
                             TwoTo[B] = Full /\ Following(B, T[i])
  BY DEF Delivering
<1>2. PICK T : Whole(T, L) /\ \E B \in Nat : \E i \in 0 .. L :
                             TwoTo[B] = Full /\ Following(B, T[i])
  BY <1>1
<1>3. PICK B \in Nat, i \in 0 .. L : TwoTo[B] = Full /\ Following(B, T[i])
  BY <1>2
<1>4. i # L
  <2>1. Len(recv) < Len(sent) /\ Len(recv) \in Nat /\ Len(sent) \in Nat
    BY EncShape DEF Delivering, CodecInv, DecInv, DecTypeOK
  <2> QED
    BY <1>2, <1>3, <2>1 DEF Following, Whole
<1>5. i \in 0 .. L - 1 /\ i + 1 \in 0 .. L
  BY <1>4
<1>6. Stream(payload) \in Streams /\ dist \in [Context -> Tables]
  BY ReadsStream, EncShape DEF CodecInv
<1>7. T[L] \in Stages
  BY <1>2 DEF Whole, Trace
<1>8. Contained(Stream(payload), B, T[L])
  BY <1>2, <1>3, <1>6, <1>7, FinishedContained DEF Whole
<1>9. \A j \in 0 .. L : Contained(Stream(payload), B, T[j])
  BY <1>2, <1>3, <1>6, <1>8, AllContained DEF Whole
<1>10. T[i] \in Stages /\ T[i + 1] \in Stages /\ Step(dist, Stream(payload), sent, T[i], T[i + 1])
  BY <1>2, <1>5 DEF Whole, Trace
<1>11. FollowsAt(T, L, B, i)
  BY <1>2, <1>3 DEF FollowsAt
<1> QED
  BY <1>5, <1>9, <1>10, <1>11

\* Following the trace to the next stage.
LEMMA FollowOn ==
    ASSUME NEW L, NEW T, NEW B, NEW i, FollowsAt(T, L, B, i), i \in 0 .. L - 1, want = Len(sent),
           dpc' \in {"byte", "renorm"}, Following(B, T[i + 1])',
           dpc' = "renorm" => Len(recv') < want', UNCHANGED <<dist, payload, want, sent>>
    PROVE  Delivering'
<1>1. L \in Nat /\ B \in Nat /\ i + 1 \in 0 .. L /\ Whole(T, L) /\ TwoTo[B] = Full
  BY DEF FollowsAt
<1>2. Whole(T, L)'
  BY <1>1 DEF Whole
<1> QED
  BY <1>1, <1>2 DEF Delivering

\* The search ends on the symbol the encoder coded.
LEMMA NarrowDelivers ==
    ASSUME CodecInv, Delivering, DecNarrow, UNCHANGED <<dist, encVars>>
    PROVE  Delivering'
<1>1. /\ dpc = "search" /\ dpc' = "renorm" /\ lo + 1 >= hi
      /\ UNCHANGED <<code, payload, pos, want, lo, dctx, recv, dist, sent>>
      /\ Len(recv) < want /\ want = Len(sent)
  BY DEF DecNarrow, encVars, Delivering
<1> DEFINE S == Stream(payload)
           cum == dist[dctx]
           r == Width(dlow, dhigh)
<1>2. PICK L, T, B, i : /\ FollowsAt(T, L, B, i) /\ i \in 0 .. L - 1
                        /\ T[i] \in Stages /\ T[i + 1] \in Stages
                        /\ Step(dist, S, sent, T[i], T[i + 1])
                        /\ Contained(S, B, T[i])
                        /\ Contained(S, B, T[i + 1])
  BY <1>1, NextStage
<1> DEFINE a == T[i]
           b == T[i + 1]
<1>3. a.ph = "byte" /\ Following(B, a)
  BY <1>1, <1>2 DEF FollowsAt, Following
<1>4. Narrowed(dist, a, b)
  BY <1>2, <1>3 DEF Step, ShiftedBy, Returned
<1>5. /\ b.sym \in 0 .. NSym /\ b.sym + 1 \in 0 .. NSym /\ b.sym < b.sym + 1 /\ b.sym \in Nat
  BY <1>2, NSymAssumption DEF Stages, Symbols
<1>6. /\ IsCum(cum) /\ dlow \in Register /\ dhigh \in Register /\ dlow <= dhigh /\ r \in Nat
      /\ r > Quarter /\ lo \in 0 .. NSym /\ lo + 1 \in 0 .. NSym /\ hi \in 0 .. NSym
      /\ code \in dlow .. dhigh
  BY <1>1, DecFacts DEF CodecInv, DecInv, DecWidth
<1>7. /\ lo < hi /\ Cut(r, cum, lo) <= code - dlow /\ code - dlow < Cut(r, cum, hi)
  BY <1>1, BracketCut DEF CodecInv, DecInv
<1>8. hi = lo + 1
  BY <1>1, <1>6, <1>7
<1>9. b.low = dlow + Cut(r, cum, b.sym) /\ b.high = dlow + Cut(r, cum, b.sym + 1) - 1
  <2>1. /\ b.low  = NarrowLow(dlow, dhigh, cum[b.sym], cum[NSym])
        /\ b.high = NarrowHigh(dlow, dhigh, cum[b.sym + 1], cum[NSym])
    BY <1>3, <1>4 DEF Narrowed, Following
  <2> HIDE DEF a, b, cum
  <2> QED
    BY <1>5, <1>6, <2>1, Narrow
<1>10. Code(S, B, b) = code /\ b.low <= code /\ code <= b.high
  <2>1. Code(S, B, b) = Code(S, B, a)
    BY <1>4 DEF Narrowed, Code
  <2> QED
    BY <1>2, <1>3, <2>1 DEF Contained, Following
<1>11. lo = b.sym
  <2> DEFINE m == b.sym
             C(x) == Cut(r, cum, x)
  <2>1. /\ \A x \in 0 .. NSym : C(x) \in 0 .. r
        /\ \A x, y \in 0 .. NSym : x < y => C(x) + 1 <= C(y)
    <3> HIDE DEF r, cum
    <3> QED
      BY <1>6, Cuts
  <2>2. C(m) <= code - dlow /\ code - dlow < C(m + 1) /\ C(lo) <= code - dlow
        /\ code - dlow < C(lo + 1)
    <3>1. C(m) \in Int /\ C(m + 1) \in Int
      BY <1>5, <2>1
    <3>2. dlow \in Int /\ code \in Int
      BY <1>6, Sizes DEF Register
    <3> HIDE DEF r, cum, C
    <3> QED
      BY <1>7, <1>8, <1>9, <1>10, <3>1, <3>2 DEF C
  <2>3. m \in 0 .. NSym /\ m + 1 \in 0 .. NSym /\ lo \in 0 .. NSym /\ lo + 1 \in 0 .. NSym
    BY <1>5, <1>6
  <2>4. code - dlow \in Int
    BY <1>6, Sizes DEF Register
  <2> HIDE DEF C, m
  <2>5. ~(lo + 1 <= m)
    <3>1. lo + 1 < m \/ lo + 1 = m => C(lo + 1) <= C(m)
      BY <2>1, <2>3
    <3>2. C(lo + 1) \in Int /\ C(m) \in Int
      BY <2>1, <2>3
    <3> QED
      BY <2>2, <2>3, <2>4, <3>1, <3>2
  <2>6. ~(m + 1 <= lo)
    <3>1. m + 1 < lo \/ m + 1 = lo => C(m + 1) <= C(lo)
      BY <2>1, <2>3
    <3>2. C(m + 1) \in Int /\ C(lo) \in Int
      BY <2>1, <2>3
    <3> QED
      BY <2>2, <2>3, <2>4, <3>1, <3>2
  <2> QED
    BY <2>3, <2>5, <2>6, NSymAssumption DEF m
<1>12. dlow' = b.low /\ dhigh' = b.high
  BY <1>3, <1>4, <1>11 DEF DecNarrow, Narrowed, Following
<1>13. Following(B, b)'
  <2>1. Read(a.n + B)' = Read(a.n + B)
    BY <1>1 DEF Read
  <2>2. b.ctx = a.ctx /\ b.n = a.n /\ b.k = a.k /\ b.ph = "renorm"
    BY <1>4 DEF Narrowed
  <2> HIDE DEF a, b
  <2> QED
    BY <1>1, <1>3, <1>10, <1>11, <1>12, <2>1, <2>2 DEF Following
<1> QED
  BY <1>1, <1>2, <1>13, FollowOn

\* A shift moves the code to the next stage.
LEMMA ShiftDelivers ==
    ASSUME CodecInv, Delivering, DecShiftLower \/ DecShiftUpper \/ DecShiftMiddle,
           UNCHANGED <<dist, encVars>>
    PROVE  Delivering'
<1>1. PICK base : IsShift(dlow, dhigh, base) /\ DecShift(base)
  BY DEF DecShiftLower, DecShiftUpper, DecShiftMiddle, IsShift
<1>2. /\ dpc = "renorm" /\ dpc' = "renorm" /\ ~Settled(dlow, dhigh)
      /\ UNCHANGED <<payload, want, lo, dctx, recv, dist, sent>>
      /\ Len(recv) < want /\ want = Len(sent)
  BY <1>1 DEF DecShiftLower, DecShiftUpper, DecShiftMiddle, DecShift, encVars, Delivering,
              Settled
<1> DEFINE S == Stream(payload)
<1>3. PICK L, T, B, i : /\ FollowsAt(T, L, B, i) /\ i \in 0 .. L - 1
                        /\ T[i] \in Stages /\ T[i + 1] \in Stages
                        /\ Step(dist, S, sent, T[i], T[i + 1])
                        /\ Contained(S, B, T[i])
                        /\ Contained(S, B, T[i + 1])
  BY <1>2, NextStage
<1> DEFINE a == T[i]
           b == T[i + 1]
<1>4. a.ph = "renorm" /\ Following(B, a) /\ B \in Nat /\ TwoTo[B] = Full
  BY <1>2, <1>3 DEF FollowsAt, Following
<1>5. PICK x \in {0, Quarter, Half} : ShiftedBy(S, a, b, x)
  BY <1>2, <1>3, <1>4 DEF Step, Narrowed, Returned, Following
<1>6. x = base
  BY <1>1, <1>4, <1>5 DEF ShiftedBy, Following, IsShift, InLower, InUpper, InMiddle
<1>7. /\ dlow \in Register /\ dhigh \in Register /\ dlow <= dhigh
      /\ code \in dlow .. dhigh /\ dlow \in dlow .. dhigh /\ dhigh \in dlow .. dhigh
  BY <1>2, DecFacts DEF CodecInv, Register
<1>8. /\ S \in Streams /\ a.n \in Nat /\ a.n + B \in Nat /\ pos = Read(a.n + B)
      /\ NextBit = S[a.n + B + 1] /\ pos' = Read(a.n + B + 1) /\ NextBit \in {0, 1}
  <2>1. a.n \in Nat /\ a.n + B \in Nat /\ pos = Read(a.n + B)
    BY <1>3, <1>4 DEF Stages, Following
  <2>2. S \in Streams /\ NextBit = S[a.n + B + 1] /\ pos' = Read(a.n + B + 1)
    BY <1>1, <2>1, ReadsStream DEF CodecInv, DecShift
  <2> QED
    BY <2>1, <2>2, ReadBit DEF CodecInv
<1>9. /\ dlow' = 2 * (dlow - base) + 0 /\ dhigh' = 2 * (dhigh - base) + 1
      /\ code' = 2 * (code - base) + NextBit /\ base \in Nat
  <2>1. NextBit \in {0, 1}
    BY <1>8
  <2>2. /\ dlow' = Shl(dlow - base, 0) /\ dhigh' = Shl(dhigh - base, 1)
        /\ code' = Shl(code - base, NextBit)
    BY <1>1 DEF DecShift
  <2> HIDE DEF S, a, b
  <2>3. IsShift(dlow, dhigh, base) /\ 0 \in {0, 1} /\ 1 \in {0, 1}
    BY <1>1
  <2>4. Shl(dlow - base, 0) = 2 * (dlow - base) + 0 /\ base \in Nat
    BY <1>7, <2>3, Shift
  <2>5. Shl(dhigh - base, 1) = 2 * (dhigh - base) + 1
    BY <1>7, <2>3, Shift
  <2>6. Shl(code - base, NextBit) = 2 * (code - base) + NextBit
    <3>1. dlow \in Register /\ dhigh \in Register /\ dlow <= dhigh /\ code \in dlow .. dhigh
      BY <1>7
    <3>2. IsShift(dlow, dhigh, base)
      BY <2>3
    <3> QED
      BY <2>1, <3>1, <3>2, Shift
  <2> QED
    BY <2>2, <2>4, <2>5, <2>6
<1>10. Code(S, B, b) = 2 * (Code(S, B, a) - base) + S[a.n + B + 1]
  <2> HIDE DEF S, a, b
  <2> QED
    BY <1>3, <1>4, <1>5, <1>6, <1>8, CodeShifts DEF Contained, a, b
<1>11. dlow' = b.low /\ dhigh' = b.high
  <2>1. b.low = 2 * (dlow - base) /\ b.high = 2 * (dhigh - base) + 1
    BY <1>4, <1>5, <1>6 DEF ShiftedBy, Following
  <2> HIDE DEF S, a, b
  <2> QED
    BY <1>7, <1>9, <2>1 DEF Register
<1>12. code' = Code(S, B, b)
  BY <1>4, <1>8, <1>9, <1>10 DEF Following
<1>13. Following(B, b)'
  <2>1. b.n = a.n + 1 /\ b.ctx = a.ctx /\ b.k = a.k /\ b.ph = "renorm" /\ b.sym = a.sym
    BY <1>5 DEF ShiftedBy
  <2>2. b.n + B = a.n + B + 1
    BY <1>4, <1>8, <2>1
  <2>3. Read(b.n + B)' = Read(a.n + B + 1)
    BY <1>2, <2>2 DEF Read
  <2>4. Code(Stream(payload), B, b)' = Code(S, B, b)
    BY <1>2
  <2> HIDE DEF a, b, S
  <2> QED
    BY <1>2, <1>4, <1>8, <1>11, <1>12, <2>1, <2>3, <2>4 DEF Following
<1> QED
  BY <1>2, <1>3, <1>13, FollowOn

\* The byte returned is the next one of the message.
LEMMA ReturnDelivers ==
    ASSUME CodecInv, Delivering, DecReturn, UNCHANGED <<dist, encVars>>
    PROVE  Delivering' /\ recv' = Append(recv, sent[Len(recv) + 1]) /\ Len(recv) < Len(sent)
<1>1. /\ dpc = "renorm" /\ dpc' = "byte" /\ Settled(dlow, dhigh)
      /\ recv' = Append(recv, lo) /\ dctx' = lo
      /\ UNCHANGED <<dlow, dhigh, code, payload, pos, want, lo, dist, sent>>
      /\ Len(recv) < want /\ want = Len(sent)
  BY DEF DecReturn, Train, encVars, Delivering
<1> DEFINE S == Stream(payload)
<1>2. PICK L, T, B, i : /\ FollowsAt(T, L, B, i) /\ i \in 0 .. L - 1
                        /\ T[i] \in Stages /\ T[i + 1] \in Stages
                        /\ Step(dist, S, sent, T[i], T[i + 1])
                        /\ Contained(S, B, T[i])
                        /\ Contained(S, B, T[i + 1])
  BY <1>1, NextStage
<1> DEFINE a == T[i]
           b == T[i + 1]
<1>3. a.ph = "renorm" /\ Following(B, a)
  BY <1>1, <1>2 DEF FollowsAt, Following
<1>4. Returned(sent, a, b)
  BY <1>1, <1>2, <1>3 DEF Step, Narrowed, ShiftedBy, Following, Settled, IsShift
<1>5. /\ b.low = a.low /\ b.high = a.high /\ b.ctx = a.sym /\ b.n = a.n /\ b.p = a.p
      /\ b.k = a.k + 1 /\ b.ph = "byte" /\ sent[b.k] = a.sym
  BY <1>4 DEF Returned
<1>6. a.k = Len(recv) /\ lo = a.sym /\ a.k \in Nat
  BY <1>1, <1>2, <1>3 DEF Following, Stages
<1>7. recv \in Seq(Symbols) /\ lo \in Symbols
  BY DEF CodecInv, DecInv, DecTypeOK
<1>8. /\ Len(recv') = a.k + 1 /\ recv'[a.k + 1] = lo
      /\ \A j \in 1 .. a.k : recv'[j] = recv[j]
  BY <1>1, <1>6, <1>7
<1>9. \A j \in 1 .. a.k + 1 : recv'[j] = sent[j]
  <2>1. \A j \in 1 .. a.k : recv[j] = sent[j]
    BY <1>3 DEF Following
  <2>2. \A j \in 1 .. a.k + 1 : j \in 1 .. a.k \/ j = a.k + 1
    BY <1>6
  <2> QED
    BY <1>5, <1>6, <1>8, <2>1, <2>2
<1>10. Following(B, b)'
  <2>1. Read(b.n + B)' = Read(a.n + B)
    BY <1>1, <1>5 DEF Read
  <2>2. Code(Stream(payload), B, b)' = Code(S, B, a)
    BY <1>1, <1>5 DEF Code
  <2> HIDE DEF a, b, S
  <2> QED
    BY <1>1, <1>3, <1>5, <1>6, <1>8, <1>9, <2>1, <2>2 DEF Following, S
<1>11. Delivering'
  BY <1>1, <1>2, <1>10, FollowOn
<1> QED
  BY <1>1, <1>5, <1>6, <1>11

\* Every step of a genuine decoder delivers.
LEMMA RunDelivers ==
    ASSUME CodecInv, Delivering, DecRun, UNCHANGED <<dist, encVars>>
    PROVE  Delivering'
  BY FillDelivers, FilledDelivers, StayDelivers, NarrowDelivers, ShiftDelivers,
     ReturnDelivers DEF DecRun

-----------------------------------------------------------------------------
\* Initially there is nothing to deliver.
LEMMA ChannelInitInv == Init => ChannelInv
  BY EncTraceInit DEF Init, ChannelInv, EncInit, DecInit

\* The codec keeps the invariant; what is delivered is dealt with above.
LEMMA ChannelNextInv ==
    ASSUME CodecInv, CodecInv', ChannelInv, [Next]_codecVars
    PROVE  ChannelInv'
<1> USE DEF ChannelInv
<1>1. CASE Encode
  <2>1. EncNext /\ ~Foreign /\ UNCHANGED <<dist, decVars>>
    BY <1>1 DEF Encode
  <2>2. epc # "done"
    BY <2>1 DEF EncNext, EncRun, EncByte, EncShiftLower, EncShiftUpper, EncShiftMiddle,
                EncFlushPending, EncFlushed, EncReturn, EncFinish, EncPad, EncHandOver
  <2>3. dpc = "idle" /\ dpc' = "idle" /\ recv' = recv
    BY <2>1, <2>2 DEF Foreign, decVars
  <2>4. EncTrace'
    BY <2>1, EncNextTrace DEF CodecInv
  <2> QED
    BY <2>3, <2>4
<1>2. ASSUME NEW tail \in Tails, StartDecoder(tail)
      PROVE  ChannelInv'
  <2>1. EncTrace'
    BY <1>2, EncTraceStutter DEF StartDecoder
  <2>2. dpc' # "idle" /\ epc' = "done"
    BY <1>2 DEF StartDecoder, DecNew, encVars
  <2> QED
    BY <1>2, <2>1, <2>2, StartDelivers
<1>3. ASSUME NEW bits \in Payloads, NEW n \in Wants, StartForeign(bits, n)
      PROVE  ChannelInv'
  <2>1. EncTrace'
    BY <1>3, EncTraceStutter DEF StartForeign
  <2>2. dpc' # "idle" /\ epc' = "byte"
    BY <1>3 DEF StartForeign, DecNew, encVars
  <2> QED
    BY <2>1, <2>2
<1>4. CASE Decode
  <2>1. DecRun /\ UNCHANGED <<dist, encVars>>
    BY <1>4 DEF Decode
  <2>2. EncTrace'
    BY <2>1, EncTraceStutter
  <2>3. dpc # "idle" /\ dpc' # "idle" /\ epc' = epc
    BY <2>1 DEF DecRun, DecFill, DecFilled, DecByte, DecSearch, DecNarrow, DecShiftLower,
                DecShiftUpper, DecShiftMiddle, DecShift, DecReturn, DecDone, encVars
  <2> QED
    BY <2>1, <2>2, <2>3, RunDelivers
<1>5. CASE UNCHANGED codecVars
  <2>1. EncTrace' /\ UNCHANGED <<dpc, recv, epc>>
    BY <1>5, EncTraceStutter DEF codecVars, decVars, encVars
  <2>2. Delivering' = Delivering
    BY <1>5 DEF codecVars, decVars, encVars, Delivering, Whole, Filling, Following, Read
  <2> QED
    BY <2>1, <2>2
<1> QED
  BY <1>1, <1>2, <1>3, <1>4, <1>5 DEF Next

Received == IF Foreign THEN <<>> ELSE recv

\* Every step of the codec is a step of the channel, or none.
LEMMA ChannelStep ==
    ASSUME CodecInv, CodecInv', ChannelInv, ChannelInv', [Next]_codecVars
    PROVE  [Channel!Next]_(Channel!vars)
<1> DEFINE Put(b) == epc # "done" /\ sent' = Append(sent, b)
                     /\ UNCHANGED <<Received, epc = "done">>
           Close  == epc # "done" /\ epc' = "done" /\ UNCHANGED <<sent, Received>>
           Get    == /\ epc = "done" /\ Len(Received) < Len(sent)
                     /\ Received' = Append(Received, sent[Len(Received) + 1])
                     /\ UNCHANGED <<sent, epc = "done">>
           None   == UNCHANGED <<sent, Received, epc = "done">>
<1>1. (\E b \in Symbols : Put(b)) \/ Close \/ Get \/ None
  <2>1. CASE Encode
    <3>1. EncNext /\ ~Foreign /\ UNCHANGED <<dist, decVars>>
      BY <2>1 DEF Encode
    <3>2. epc # "done"
      BY <3>1 DEF EncNext, EncRun, EncByte, EncShiftLower, EncShiftUpper, EncShiftMiddle,
                  EncFlushPending, EncFlushed, EncReturn, EncFinish, EncPad, EncHandOver
    <3>3. dpc = "idle" /\ dpc' = "idle" /\ recv' = recv /\ recv = <<>>
      BY <3>1, <3>2 DEF ChannelInv, Foreign, decVars
    <3>4. Received = <<>> /\ Received' = <<>>
      BY <3>3 DEF Received, Foreign
    <3>5. CASE EncReturn
      <4>1. epc' = "byte" /\ sent' = Append(sent, esym) /\ esym \in Symbols
        BY <3>5, EncShape DEF EncReturn, CodecInv
      <4> QED
        BY <3>2, <3>4, <4>1
    <3>6. CASE EncHandOver
      BY <3>2, <3>4, <3>6 DEF EncHandOver
    <3>7. CASE ~EncReturn /\ ~EncHandOver
      <4>1. sent' = sent /\ epc' # "done"
        BY <3>1, <3>2, <3>7
        DEF EncNext, EncRun, EncByte, EncShiftLower, EncShiftUpper, EncShiftMiddle,
            EncFlushPending, EncFlushed, EncFinish, EncPad
      <4> QED
        BY <3>2, <3>4, <4>1
    <3> QED
      BY <3>5, <3>6, <3>7
  <2>2. ASSUME NEW tail \in Tails, StartDecoder(tail)
        PROVE  None
    BY <2>2 DEF StartDecoder, DecNew, encVars, ChannelInv, Received, Foreign
  <2>3. ASSUME NEW bits \in Payloads, NEW n \in Wants, StartForeign(bits, n)
        PROVE  None
    BY <2>3 DEF StartForeign, DecNew, encVars, ChannelInv, Received, Foreign
  <2>4. CASE Decode
    <3>1. DecRun /\ UNCHANGED <<dist, encVars>> /\ epc' = epc /\ sent' = sent
      BY <2>4 DEF Decode, encVars
    <3>2. dpc # "idle" /\ dpc' # "idle" /\ epc \in {"byte", "done"}
      BY <3>1 DEF DecRun, DecFill, DecFilled, DecByte, DecSearch, DecNarrow, DecShiftLower,
                  DecShiftUpper, DecShiftMiddle, DecShift, DecReturn, DecDone, ChannelInv
    <3>3. CASE epc = "byte"
      BY <3>1, <3>2, <3>3 DEF Received, Foreign
    <3>4. CASE epc = "done"
      <4>1. Received = recv /\ Received' = recv'
        BY <3>1, <3>4 DEF Received, Foreign
      <4>2. CASE DecReturn
        <5>1. recv' = Append(recv, sent[Len(recv) + 1]) /\ Len(recv) < Len(sent)
          BY <3>1, <3>2, <3>4, <4>2, ReturnDelivers DEF ChannelInv
        <5> QED
          BY <3>1, <3>4, <4>1, <5>1
      <4>3. CASE ~DecReturn
        <5>1. recv' = recv
          BY <3>1, <4>3 DEF DecRun, DecFill, DecFilled, DecByte, DecSearch, DecNarrow,
                  DecShiftLower, DecShiftUpper, DecShiftMiddle, DecShift, DecDone
        <5> QED
          BY <3>1, <4>1, <5>1
      <4> QED
        BY <4>2, <4>3
    <3> QED
      BY <3>2, <3>3, <3>4
  <2>5. CASE UNCHANGED codecVars
    BY <2>5 DEF codecVars, encVars, decVars, Received, Foreign
  <2> QED
    BY <2>1, <2>2, <2>3, <2>4, <2>5 DEF Next
<1> QED
  BY <1>1 DEF Channel!Next, Channel!Put, Channel!Close, Channel!Get, Channel!vars, Received

(***************************************************************************)
(* The invariant holds throughout.                                         *)
(***************************************************************************)
LEMMA ChannelInvariant == Spec => [](CodecInv /\ ChannelInv)
<1>1. Init => ChannelInv
  BY ChannelInitInv
<1>2. CodecInv /\ CodecInv' /\ ChannelInv /\ [Next]_codecVars => ChannelInv'
  BY ChannelNextInv
<1> QED
  BY <1>1, <1>2, CodecInvariant, PTL DEF Spec

(***************************************************************************)
(* The safety of ChannelSpec: what the decoder of cec_decompress returns   *)
(* is at every moment the beginning of what cec_compress was given,        *)
(* whatever the model, the message and the bytes after the payload.        *)
(***************************************************************************)
THEOREM ChannelSafe == Spec => Channel!Safety
<1>1. Init => Channel!Init
  BY DEF Init, EncInit, DecInit, Channel!Init, Foreign
<1>2. CodecInv /\ CodecInv' /\ ChannelInv /\ ChannelInv' /\ [Next]_codecVars
        => [Channel!Next]_(Channel!vars)
  BY ChannelStep
<1> QED
  BY <1>1, <1>2, ChannelInvariant, PTL DEF Spec, Channel!Safety

(***************************************************************************)
(* When a decoder of the message is done it has returned all of it.        *)
(***************************************************************************)
Complete == epc = "done" /\ dpc = "done" => recv = sent

\* What cec_decompress has returned in the end is what cec_compress was given.
THEOREM CompleteSafe == Spec => []Complete
<1>1. ASSUME CodecInv, ChannelInv, epc = "done", dpc = "done"
      PROVE  recv = sent
  <2>1. Delivering
    BY <1>1 DEF ChannelInv
  <2>2. PICK T, i, B : Following(B, T[i])
    BY <1>1, <2>1 DEF Delivering
  <2>3. Len(recv) = Len(sent) /\ \A j \in 1 .. Len(recv) : recv[j] = sent[j]
    BY <1>1, <2>1, <2>2 DEF Delivering, Following
  <2>4. recv \in Seq(Symbols) /\ sent \in Seq(Symbols)
    BY <1>1, EncShape DEF CodecInv, DecInv, DecTypeOK
  <2> QED
    BY <2>3, <2>4
<1> QED
  BY <1>1, ChannelInvariant, PTL DEF Complete
=============================================================================
