----------------------------- MODULE RangeCoder -----------------------------
(***************************************************************************)
(* Registers and interval arithmetic shared by the encoder and the decoder *)
(* of src/src/v0_baseline/ce_compress.c.                                   *)
(*                                                                         *)
(* The registers are uint32_t.  The width is a parameter: Quarter stands   *)
(* for 1u<<30, so Half is 1u<<31 and Full is 2^32, and every assignment to *)
(* a register wraps modulo Full exactly where the C code's does.           *)
(*                                                                         *)
(* The model behind the coder (the CecBT callbacks distribution and train) *)
(* is an order-1 context model: `dist' gives the cumulative table of each  *)
(* context and never changes during a behaviour, and training on a byte    *)
(* makes that byte the context.                                            *)
(***************************************************************************)
EXTENDS Integers, Sequences

CONSTANTS Quarter,  \* 1u<<30
          NSym,     \* 256, the number of byte values
          Tables    \* the cumulative tables distribution() may fill in

VARIABLE dist       \* context -> cumulative table: the loaded model

Half == 2 * Quarter
Full == 4 * Quarter

Symbols == 0 .. NSym - 1
Context == 0 .. NSym
Start   == NSym        \* context of a freshly reset model

(***************************************************************************)
(* What the coder needs of cum[]: it starts at 0, gives every byte a       *)
(* non-empty share, and its total leaves at least one code value per unit  *)
(* of frequency (CEC_RC_SCALE = 1<<14 against 1u<<30).                     *)
(***************************************************************************)
IsCum(c) == /\ c \in [0 .. NSym -> Nat]
            /\ c[0] = 0
            /\ \A i, j \in 0 .. NSym : i < j => c[i] < c[j]
            /\ c[NSym] <= Quarter

ASSUME QuarterAssumption == Quarter \in Nat \ {0}
ASSUME NSymAssumption    == NSym \in Nat \ {0}
ASSUME TablesAssumption  == \A c \in Tables : IsCum(c)

Train(ctx, byte) == byte

\* 1u << n
TwoTo[n \in Nat] == IF n = 0 THEN 1 ELSE 2 * TwoTo[n - 1]

U32(x) == x % Full
U64(x) == x % (Full * Full)

Width(low, high) == high - low + 1

\* (uint32_t)((r * c) / tot)
Share(r, c, tot) == U32((r * c) \div tot)

NarrowLow(low, high, cl, tot)  ==
    U32(low + Share(Width(low, high), cl, tot))
\* slip: the inclusive upper end is one too high
NarrowHighInclusive(low, high, ch, tot) ==
    U32(low + Share(Width(low, high), ch, tot))
NarrowHigh(low, high, ch, tot) ==
    U32(low + Share(Width(low, high), ch, tot) - 1)

(***************************************************************************)
(* The three branches of the renormalisation loops, in the order in which  *)
(* the else-ifs test them, and the loop's exit.                            *)
(***************************************************************************)
InLower(low, high)  == high < Half
InUpper(low, high)  == ~InLower(low, high) /\ low >= Half
\* slip: an interval that starts exactly at Quarter is left alone
InMiddleStrict(low, high) == low > Quarter /\ low < Half
                             /\ high >= Half /\ high < 3 * Quarter
InMiddle(low, high) == /\ ~InLower(low, high)
                       /\ ~InUpper(low, high)
                       /\ low >= Quarter
                       /\ high < 3 * Quarter
Settled(low, high)  == /\ ~InLower(low, high)
                       /\ ~InUpper(low, high)
                       /\ ~InMiddle(low, high)

Shl(x, bit) == U32(2 * x + bit)
=============================================================================
