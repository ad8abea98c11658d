------------------------------- MODULE BtDist -------------------------------
(***************************************************************************)
(* bt_v3_distribution_r: from the counts of the contexts that end the      *)
(* window to the width of each byte, in fixed point throughout.  Every     *)
(* resolution is a parameter; the code has 16 fraction bits, 2^16 entries  *)
(* in either table and 28 bits for weights and probabilities.              *)
(***************************************************************************)
EXTENDS Integers, SequencesExt

CONSTANTS NVal,           \* byte values, 256 in the code
          Depth,          \* BT_MAX_DEPTH
          FractionBits,   \* LOG2_FB
          PRES,           \* entries of CONF_LOG2
          ExpBits,        \* EXP2_FB
          WSCALE, PSCALE, \* scale of weights and of probabilities
          LOG2_E,         \* log2(e) in fixed point
          LEVELS          \* a sequence of [dmin, dmax, wint]

Byte == 0 .. NVal - 1
Unit == 2 ^ FractionBits
FractionSteps == [i \in 1 .. FractionBits |-> i]

\* 64 bits are enough for every product; a level weighs something
ASSUME BtDistAssumption ==
    /\ NVal \in Nat \ {0} /\ Depth \in Nat \ {0} /\ PRES \in Nat \ {0}
    /\ FractionBits \in Nat /\ ExpBits \in 0 .. FractionBits /\ NVal * Unit <= 2 ^ 30
    /\ WSCALE \in Nat \ {0} /\ PSCALE \in Nat /\ NVal <= PSCALE /\ LOG2_E \in Nat
    /\ IsFiniteSet(DOMAIN LEVELS)
    /\ \A i \in DOMAIN LEVELS : LEVELS[i] \in [dmin : Nat, dmax : Nat, wint : Nat \ {0}]

AtLeast(x, least) == IF x < least THEN least ELSE x
AtMost(x, most)   == IF x > most THEN most ELSE x

\* f itself; TLC evaluates it once and not at each application
Table(f) == CHOOSE g \in {f} : g = f

\* the sum of a function on the bytes
Total(f) == MapThenSumSet(LAMBDA b : f[b], Byte)
-----------------------------------------------------------------------------
(***************************************************************************)
(* The two lookup tables, built without floating point.                    *)
(***************************************************************************)
\* the code finds the root bit by bit
isqrt64(x) == CHOOSE r \in 0 .. 2 ^ (FractionBits + 1) : r * r <= x /\ x < (r + 1) * (r + 1)

Log2Floor(x) == CHOOSE k \in 0 .. 30 : 2 ^ k <= x /\ x < 2 ^ (k + 1)

log2_q16(x) ==      \* x in fixed point, at least Unit
    LET whole == Log2Floor(x) - FractionBits
        Bit(s, i) == LET m == (s.m * s.m) \div Unit
                     IN  IF m >= 2 * Unit
                         THEN [m |-> m \div 2, res |-> 2 * s.res + 1]
                         ELSE [m |-> m, res |-> 2 * s.res]
    IN  FoldLeft(Bit, [m |-> x \div 2 ^ whole, res |-> whole], FractionSteps).res

EXP_LOG2  == [n \in 0 .. Depth |-> n * LOG2_E]
CONF_LOG2 == [i \in 0 .. PRES - 1 |->
    20 * log2_q16(AtLeast(((2 * i + 1) * NVal * Unit) \div (2 * PRES), Unit))]

\* 2^(2^-k) for k = 1 .. FractionBits
TwoPow[k \in 0 .. FractionBits] ==
    IF k = 0 THEN 2 * Unit ELSE isqrt64(TwoPow[k - 1] * Unit)

EXP2_FRAC == [f \in 0 .. 2 ^ ExpBits - 1 |->
    LET frac == (f * Unit) \div 2 ^ ExpBits
        Factor(e, k) == IF (frac \div 2 ^ (FractionBits - k)) % 2 = 1
                        THEN (e * TwoPow[k]) \div Unit ELSE e
    IN  (WSCALE * Unit) \div FoldLeft(Factor, Unit, FractionSteps)]

exp2_w(norm) ==     \* norm <= 0
    LET whole == (-norm) \div Unit
        frac  == ((-norm) \div 2 ^ (FractionBits - ExpBits)) % 2 ^ ExpBits
    IN  IF whole >= 40 THEN 0
        ELSE EXP2_FRAC[frac] \div 2 ^ AtMost(whole, 30)
-----------------------------------------------------------------------------
(***************************************************************************)
(* The contexts of a level that were trained, what each says of a byte it  *)
(* has seen or has not seen, and their mean weighted by confidence.  count *)
(* is a function from the contexts trained to how often each byte followed *)
(* (module BtTable shows that the hash tables hold just this).             *)
(***************************************************************************)
Ending(window, n) == SubSeq(window, Len(window) - n + 1, Len(window))

Active(count, window, level) ==
    {n \in level.dmin .. AtMost(Len(window), level.dmax) :
        Ending(window, n) \in DOMAIN count}

Estimate(freqs, n, b) ==
    LET total == Total(freqs)
        f     == freqs[b]
        index == IF f > 0 THEN (f * PRES) \div total ELSE PRES \div (total + NVal)
    IN  [l |-> EXP_LOG2[n] + CONF_LOG2[AtMost(index, PRES - 1)],
         p |-> IF f > 0 THEN (f * PSCALE) \div total ELSE PSCALE \div (total + NVal)]

Mean(of) ==     \* of a function from context lengths to estimates
    LET estimates == Table(of)
        ns   == DOMAIN estimates
        most == Max({estimates[n].l : n \in ns})
        w == Table([n \in ns |-> exp2_w(estimates[n].l - most)])
    IN  MapThenSumSet(LAMBDA n : w[n] * estimates[n].p, ns)
          \div MapThenSumSet(LAMBDA n : w[n], ns)

\* what a context says of a byte it has not seen
Unobserved(freqs, n) ==
    [l |-> EXP_LOG2[n] + CONF_LOG2[AtMost(PRES \div (Total(freqs) + NVal), PRES - 1)],
     p |-> PSCALE \div (Total(freqs) + NVal)]

\* slip: the default of the level is not taken back from an observed byte
LevelSumKept(count, window, level) ==
    LET act == Active(count, window, level)
        Freqs(n) == count[Ending(window, n)]
        default  == Mean([n \in act |-> Unobserved(Freqs(n), n)])
        observed == {b \in Byte : \E n \in act : Freqs(n)[b] > 0}
    IN  IF act = {} THEN [b \in Byte |-> 0]
        ELSE [b \in Byte |-> level.wint *
                (default + IF b \in observed
                           THEN Mean([n \in act |-> Estimate(Freqs(n), n, b)])
                           ELSE 0)]

\* what a level adds to ws: its default for all bytes, replaced where observed
LevelSum(count, window, level) ==
    LET act == Active(count, window, level)
        Freqs(n) == count[Ending(window, n)]
        default  == Mean([n \in act |-> Unobserved(Freqs(n), n)])
        observed == {b \in Byte : \E n \in act : Freqs(n)[b] > 0}
    IN  IF act = {} THEN [b \in Byte |-> 0]
        ELSE [b \in Byte |-> level.wint *
                (default - IF b \in observed THEN default
                             - Mean([n \in act |-> Estimate(Freqs(n), n, b)])
                           ELSE 0)]

LevelWeight(count, window, level) ==    \* what it adds to wt, equal for all bytes
    IF Active(count, window, level) = {} THEN 0 ELSE level.wint

Probs(count, window) ==
    LET lvs == DOMAIN LEVELS
        wt  == MapThenSumSet(LAMBDA i : LevelWeight(count, window, LEVELS[i]), lvs)
        sums == Table([i \in lvs |-> Table(LevelSum(count, window, LEVELS[i]))])
    IN  IF wt = 0 THEN [b \in Byte |-> PSCALE \div NVal]
        ELSE [b \in Byte |->
                AtMost(AtLeast(MapThenSumSet(LAMBDA i : sums[i][b], lvs) \div wt, 1),
                       PSCALE)]

(***************************************************************************)
(* The final quantisation: 95 parts in 100 by probability, 5 evenly.  A    *)
(* distribution is given by its widths; cum is their running sum.          *)
(***************************************************************************)
Quantised(of, scale) ==
    LET probs == Table(of)
        s == Total(probs)
    IN  Table([b \in Byte |-> AtLeast((950 * scale * probs[b]) \div (1000 * s)
                                  + (50 * scale) \div (1000 * NVal), 1)])

bt_v3_distribution(count, window, scale) == Quantised(Probs(count, window), scale)
-----------------------------------------------------------------------------
(***************************************************************************)
(* The same by definition: each byte is estimated by itself on each level. *)
(* The code calls its shortcut bit-identical to this.                      *)
(***************************************************************************)
DirectProb(count, window, b) ==
    LET lvs == {i \in DOMAIN LEVELS : Active(count, window, LEVELS[i]) # {}}
        Of(i) == Mean([n \in Active(count, window, LEVELS[i]) |->
                          Estimate(count[Ending(window, n)], n, b)])
        sum == MapThenSumSet(LAMBDA i : LEVELS[i].wint * Of(i), lvs)
        wt  == MapThenSumSet(LAMBDA i : LEVELS[i].wint, lvs)
    IN  IF lvs = {} THEN PSCALE \div NVal
        ELSE AtMost(AtLeast(sum \div wt, 1), PSCALE)

DirectDistribution(count, window, scale) ==
    Quantised([b \in Byte |-> DirectProb(count, window, b)], scale)
=============================================================================
