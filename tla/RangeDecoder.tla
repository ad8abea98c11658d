---------------------------- MODULE RangeDecoder ----------------------------
(***************************************************************************)
(* cec_dec_new and cec_dec_byte of ce_compress.c, and the loop that asks   *)
(* for `want' bytes.  The payload is a sequence of bits, and it need not   *)
(* be one an encoder produced.  One iteration of a loop is one step; dpc   *)
(* says where the decoder's single thread is.                              *)
(***************************************************************************)
EXTENDS RangeCoder

VARIABLES dpc,          \* "idle", "fill", "byte", "search", "renorm", "done"
          dlow, dhigh,  \* d->low, d->high
          code,         \* d->code
          weight,       \* 2 to the number of iterations of cec_dec_new's loop
          payload,      \* the bits of d->in
          pos,          \* how many of them have been read
          want,         \* orig_len, the number of bytes asked for
          target,       \* locals of the running cec_dec_byte
          lo, hi,
          dctx,         \* the decoder's model context
          recv          \* the bytes returned

decVars == <<dpc, dlow, dhigh, code, weight, payload, pos, want,
             target, lo, hi, dctx, recv>>

DecInit == /\ dpc = "idle"
           /\ dlow = 0 /\ dhigh = Full - 1
           /\ code = 0 /\ weight = 1
           /\ payload = <<>> /\ pos = 0 /\ want = 0
           /\ target = 0 /\ lo = 0 /\ hi = NSym
           /\ dctx = Start
           /\ recv = <<>>

\* cec_read_bit_: zeros once the payload has run out
NextBit == IF pos < Len(payload) THEN payload[pos + 1] ELSE 0
\* slip: the position is advanced past the end of the input
SkipBitUnbounded == pos' = pos + 1
SkipBit == pos' = IF pos < Len(payload) THEN pos + 1 ELSE pos

DecNew(bits, n) ==
    /\ dpc = "idle"
    /\ payload' = bits /\ pos' = 0 /\ want' = n
    /\ dlow' = 0 /\ dhigh' = Full - 1
    /\ code' = 0 /\ weight' = 1
    /\ dctx' = Start /\ recv' = <<>>
    /\ dpc' = "fill"
    /\ UNCHANGED <<target, lo, hi>>

DecFill ==
    /\ dpc = "fill"
    /\ weight # Full
    /\ code' = Shl(code, NextBit) /\ SkipBit
    /\ weight' = 2 * weight
    /\ UNCHANGED <<dpc, dlow, dhigh, payload, want, target, lo, hi, dctx, recv>>

DecFilled ==
    /\ dpc = "fill"
    /\ weight = Full
    /\ dpc' = "byte"
    /\ UNCHANGED <<dlow, dhigh, code, weight, payload, pos, want,
                   target, lo, hi, dctx, recv>>

\* slip: the position of the code is scaled without the + 1 and - 1
TargetRoundedDown(low, high, cd, tot) ==
    U32(U64(U32(cd - low) * tot) \div Width(low, high))

\* ((uint64_t)(code - low + 1) * tot - 1) / r: the sum wraps in 32 bits, and
\* the difference in 64
Target(low, high, cd, tot) ==
    U32(U64(U32(cd - low + 1) * tot - 1) \div Width(low, high))

DecByte ==
    /\ dpc = "byte"
    /\ Len(recv) < want
    /\ target' = Target(dlow, dhigh, code, dist[dctx][NSym])
    /\ lo' = 0 /\ hi' = NSym
    /\ dpc' = "search"
    /\ UNCHANGED <<dlow, dhigh, code, weight, payload, pos, want, dctx, recv>>

\* slip: the middle of the closed range, which may be `lo' itself
DecSearchClosed ==
    /\ dpc = "search"
    /\ lo + 1 < hi
    /\ LET m == (lo + hi - 1) \div 2
       IN  \/ /\ dist[dctx][m] <= target
              /\ lo' = m /\ hi' = hi
           \/ /\ dist[dctx][m] > target
              /\ hi' = m /\ lo' = lo
    /\ UNCHANGED <<dpc, dlow, dhigh, code, weight, payload, pos, want,
                   target, dctx, recv>>

\* one iteration of the binary search
DecSearch ==
    /\ dpc = "search"
    /\ lo + 1 < hi
    /\ LET m == (lo + hi) \div 2
       IN  \/ /\ dist[dctx][m] <= target
              /\ lo' = m /\ hi' = hi
           \/ /\ dist[dctx][m] > target
              /\ hi' = m /\ lo' = lo
    /\ UNCHANGED <<dpc, dlow, dhigh, code, weight, payload, pos, want,
                   target, dctx, recv>>

DecNarrow ==
    /\ dpc = "search"
    /\ lo + 1 >= hi
    /\ LET cum == dist[dctx]
       IN  /\ dhigh' = NarrowHigh(dlow, dhigh, cum[lo + 1], cum[NSym])
           /\ dlow'  = NarrowLow(dlow, dhigh, cum[lo], cum[NSym])
    /\ dpc' = "renorm"
    /\ UNCHANGED <<code, weight, payload, pos, want, target, lo, hi, dctx, recv>>

\* slip: the code register is not moved with the interval
DecShiftCodeKept(base) ==
    /\ dlow'  = Shl(dlow - base, 0)
    /\ dhigh' = Shl(dhigh - base, 1)
    /\ code'  = Shl(code, NextBit) /\ SkipBit
    /\ UNCHANGED <<dpc, weight, payload, want, target, lo, hi, dctx, recv>>

\* one iteration of cec_renorm_dec_, which subtracts `base' from the registers
DecShift(base) ==
    /\ dlow'  = Shl(dlow - base, 0)
    /\ dhigh' = Shl(dhigh - base, 1)
    /\ code'  = Shl(code - base, NextBit) /\ SkipBit
    /\ UNCHANGED <<dpc, weight, payload, want, target, lo, hi, dctx, recv>>

DecShiftLower  == dpc = "renorm" /\ InLower(dlow, dhigh)  /\ DecShift(0)
DecShiftUpper  == dpc = "renorm" /\ InUpper(dlow, dhigh)  /\ DecShift(Half)
DecShiftMiddle == dpc = "renorm" /\ InMiddle(dlow, dhigh) /\ DecShift(Quarter)

\* the loop breaks, the model is trained and cec_dec_byte returns
DecReturn ==
    /\ dpc = "renorm"
    /\ Settled(dlow, dhigh)
    /\ dctx' = Train(dctx, lo)
    /\ recv' = Append(recv, lo)
    /\ dpc' = "byte"
    /\ UNCHANGED <<dlow, dhigh, code, weight, payload, pos, want, target, lo, hi>>

DecDone ==
    /\ dpc = "byte"
    /\ Len(recv) = want
    /\ dpc' = "done"
    /\ UNCHANGED <<dlow, dhigh, code, weight, payload, pos, want,
                   target, lo, hi, dctx, recv>>

DecRun == \/ DecFill \/ DecFilled \/ DecByte \/ DecSearch \/ DecNarrow
          \/ DecShiftLower \/ DecShiftUpper \/ DecShiftMiddle
          \/ DecReturn \/ DecDone
-----------------------------------------------------------------------------
DecTypeOK ==
    /\ dist \in [Context -> Tables]
    /\ dpc \in {"idle", "fill", "byte", "search", "renorm", "done"}
    /\ dlow \in 0 .. Full - 1
    /\ dhigh \in 0 .. Full - 1
    /\ code \in 0 .. Full - 1
    /\ weight \in Nat
    /\ payload \in Seq({0, 1})
    /\ pos \in 0 .. Len(payload)
    /\ want \in Nat
    /\ target \in 0 .. Full - 1
    /\ lo \in Symbols
    /\ hi \in 1 .. NSym
    /\ dctx \in Context
    /\ recv \in Seq(Symbols)

(***************************************************************************)
(* Whatever the payload, the code register stays inside the interval: the  *)
(* subtractions of cec_dec_byte and cec_renorm_dec_ never wrap, and the    *)
(* symbol found by the search is the one whose share the code lies in.     *)
(***************************************************************************)
DecContained ==
    dpc \in {"byte", "search", "renorm", "done"} => dlow <= code /\ code <= dhigh

(***************************************************************************)
(* The binary search compares table entries with a target computed by a    *)
(* division of its own; the entries it has ruled in and out are those the  *)
(* narrowing will cut at.  This includes the step where code - low + 1     *)
(* wraps to 0 and the 64-bit product to its maximum.                       *)
(***************************************************************************)
DecBracket ==
    dpc = "search" =>
        LET cum == dist[dctx]
            Cut(m) == (Width(dlow, dhigh) * cum[m]) \div cum[NSym]
        IN  lo < hi /\ Cut(lo) <= code - dlow /\ code - dlow < Cut(hi)

=============================================================================
