------------------------------- MODULE NoDiv --------------------------------
(***************************************************************************)
(* The arithmetic of a BCB_MCU_NO_DIV build, for targets without a         *)
(* divider: shifts for totals that are powers of two, and else a           *)
(* shift-subtract division over the whole 64-bit word.                     *)
(***************************************************************************)
EXTENDS RangeCodec

\* products are kept in a word of twice the registers' width
ASSUME WordAssumption == \E n \in 0 .. 64 : TwoTo[n] = Full * Full

WordBits == CHOOSE n \in 0 .. 64 : TwoTo[n] = Full * Full

Bit(num, i) == (num \div TwoTo[i]) % 2

\* one iteration of the loop of bcb_divq64, for the bit numbered i
DivStep(num, den, s, i) ==
    LET rem == U64(2 * s.rem + Bit(num, i))
    IN  IF rem >= den THEN [q |-> 2 * s.q + 1, rem |-> rem - den]
        ELSE [q |-> 2 * s.q, rem |-> rem]

\* slip: the low half of the word is thought to hold every numerator
bcb_divq64Trimmed(num, den) ==
    LET half == WordBits \div 2
        Loop[i \in 0 .. half] ==
            IF i = 0 THEN [q |-> 0, rem |-> 0]
            ELSE DivStep(num, den, Loop[i - 1], half - i)
    IN  Loop[half].q

\* a quotient bit for each bit of the word, the highest first
bcb_divq64(num, den) ==
    LET Loop[i \in 0 .. WordBits] ==
            IF i = 0 THEN [q |-> 0, rem |-> 0]
            ELSE DivStep(num, den, Loop[i - 1], WordBits - i)
    IN  Loop[WordBits].q

Powers           == {TwoTo[s] : s \in 0 .. WordBits}
bcb_log2_pow2(d) == CHOOSE s \in 0 .. WordBits : TwoTo[s] = d

ShareNoDiv(r, c, tot) ==
    U32(IF tot \in Powers THEN U64(r * c) \div TwoTo[bcb_log2_pow2(tot)]
        ELSE bcb_divq64(U64(r * c), tot))

TargetNoDiv(low, high, cd, tot) ==
    U32(bcb_divq64(U64(U32(cd - low + 1) * tot - 1), Width(low, high)))
-----------------------------------------------------------------------------
SharesEqual(r, cum) ==
    \A b \in 0 .. NSym : ShareNoDiv(r, cum[b], cum[NSym]) = Share(r, cum[b], cum[NSym])

(***************************************************************************)
(* The comment before bcb_divq64 calls its results the exact quotients and *)
(* the output bit-identical: a build without / and one with it compute the *)
(* same interval and the same target, also where the target's numerator    *)
(* has wrapped.                                                            *)
(***************************************************************************)
NoDivExact ==
    /\ epc = "byte" => SharesEqual(Width(elow, ehigh), dist[ectx])
    /\ dpc = "byte" =>
          /\ SharesEqual(Width(dlow, dhigh), dist[dctx])
          /\ TargetNoDiv(dlow, dhigh, code, dist[dctx][NSym])
               = Target(dlow, dhigh, code, dist[dctx][NSym])
=============================================================================
