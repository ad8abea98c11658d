--------------------------- MODULE ExactInterval ----------------------------
(***************************************************************************)
(* What the state of the encoder means: the interval of the payloads that  *)
(* are still possible, and how long the payload can get.                   *)
(***************************************************************************)
EXTENDS RangeEncoder

CONSTANT MaxTotal  \* CEC_RC_SCALE, the largest total of a table

\* a power of two, as the quarter of the register range is
ASSUME MaxTotalAssumption ==
    /\ MaxTotal \in Nat \ {0} /\ Quarter % MaxTotal = 0
    /\ \E k \in 0 .. 64 : TwoTo[k] = 4 * MaxTotal
    /\ \A c \in Tables : c[NSym] <= MaxTotal

\* the number the bits are the binary digits of
Value(bits) ==
    LET Prefix[i \in 0 .. Len(bits)] ==
            IF i = 0 THEN 0 ELSE 2 * Prefix[i - 1] + bits[i]
    IN  Prefix[Len(bits)]

(***************************************************************************)
(* The exact rational interval the output stands for, in units of          *)
(* 1 / Scale of the register range: what has been emitted, the pending     *)
(* bits, and the registers, put together.  Once cec_enc_finish has chosen  *)
(* its bits only they count: the interval is all that starts with them.    *)
(***************************************************************************)
Committed == epc \in {"finish", "done"}
Known     == IF Committed \/ epc = "flush"
             THEN out \o [i \in 1 .. pending |-> 1 - ebit] ELSE out
Undecided == IF Known = out THEN pending ELSE 0
Scale     == TwoTo[Len(out) + pending]
Base      == Value(Known) * TwoTo[Undecided] * Full + Half * (TwoTo[Undecided] - 1)
ExactLow  == Base + IF Committed THEN 0 ELSE elow
ExactHigh == Base + IF Committed THEN Full ELSE ehigh + 1

(***************************************************************************)
(* No step moves the coded interval out of where it was: the bits emitted, *)
(* the carry held back in `pending' and the registers always denote a      *)
(* subset of the interval before the step, down to the padding of          *)
(* cec_enc_finish.  So any decoder that follows the same intervals reads   *)
(* the message back, whatever bits come after the payload.                 *)
(***************************************************************************)
NestedStep ==
    LET grown == Scale' \div Scale
    IN  /\ ExactLow * grown <= ExactLow'
        /\ ExactHigh' <= ExactHigh * grown
EncNested == [][NestedStep]_<<dist, encVars>>

(***************************************************************************)
(* The bound bcb_compress_bound rests on: cec_enc_byte never adds more     *)
(* bits than the smallest share of the narrowest interval leaves room for, *)
(* and cec_enc_finish adds two and the padding.  With totals of 1 << 14    *)
(* that is 16 bits a byte, the 2 * in_len of the public API.               *)
(***************************************************************************)
SymbolBits == CHOOSE k \in 0 .. 64 : TwoTo[k] = 4 * MaxTotal
Coding     == Len(sent) + IF epc \in {"renorm", "flush"} THEN 1 ELSE 0
EncBound   == Len(out) + pending
                <= SymbolBits * Coding + IF Committed THEN 2 + (ByteBits - 1) ELSE 0
=============================================================================
