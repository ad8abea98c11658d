---------------------------- MODULE RangeEncoder ----------------------------
(***************************************************************************)
(* cec_enc_new, cec_enc_byte and cec_enc_finish of ce_compress.c.  One     *)
(* iteration of a loop is one step, and epc says where the encoder's       *)
(* single thread is: a call that has begun runs to its end before the next *)
(* one.  Output bytes are kept as the bits they consist of.                *)
(***************************************************************************)
EXTENDS RangeCoder

CONSTANT MaxLen         \* bound on the message, for model checking

VARIABLES epc,          \* "byte": between calls; "renorm", "flush": in
                        \* cec_enc_byte; "finish"; "done"
          elow, ehigh,  \* e->low, e->high
          pending,      \* e->pending
          ebit,         \* bit argument of the running cec_flush_
          out,          \* the bits emitted: out[] and then cur_byte
          ectx,         \* the encoder's model context
          esym,         \* byte argument of the running cec_enc_byte
          sent          \* the bytes whose cec_enc_byte has returned

ByteBits == 8

encVars == <<epc, elow, ehigh, pending, ebit, out, ectx, esym, sent>>

EncInit == /\ epc = "byte"
           /\ elow = 0 /\ ehigh = Full - 1
           /\ pending = 0 /\ ebit = 0
           /\ out = <<>>
           /\ ectx = Start /\ esym = 0
           /\ sent = <<>>

Emit(bit) == out' = Append(out, bit)

\* cec_enc_byte up to the call of cec_renorm_enc_
EncByte(b) ==
    /\ epc = "byte"
    /\ Len(sent) < MaxLen
    /\ LET cum == dist[ectx]
       IN  /\ ehigh' = NarrowHigh(elow, ehigh, cum[b + 1], cum[NSym])
           /\ elow'  = NarrowLow(elow, ehigh, cum[b], cum[NSym])
    /\ esym' = b
    /\ epc' = "renorm"
    /\ UNCHANGED <<pending, ebit, out, ectx, sent>>

\* the first bit of cec_flush_, which the caller's shift follows
EncShiftLower ==
    /\ epc = "renorm"
    /\ InLower(elow, ehigh)
    /\ Emit(0) /\ ebit' = 0 /\ epc' = "flush"
    /\ elow' = Shl(elow, 0)
    /\ ehigh' = Shl(ehigh, 1)
    /\ UNCHANGED <<pending, ectx, esym, sent>>

EncShiftUpper ==
    /\ epc = "renorm"
    /\ InUpper(elow, ehigh)
    /\ Emit(1) /\ ebit' = 1 /\ epc' = "flush"
    /\ elow' = Shl(elow - Half, 0)
    /\ ehigh' = Shl(ehigh - Half, 1)
    /\ UNCHANGED <<pending, ectx, esym, sent>>

EncShiftMiddle ==
    /\ epc = "renorm"
    /\ InMiddle(elow, ehigh)
    /\ pending' = pending + 1
    /\ elow' = Shl(elow - Quarter, 0)
    /\ ehigh' = Shl(ehigh - Quarter, 1)
    /\ UNCHANGED <<epc, ebit, out, ectx, esym, sent>>

\* slip: a pending bit that has been emitted stays counted
EncFlushPendingKept ==
    /\ epc \in {"flush", "finish"}
    /\ pending > 0
    /\ Emit(1 - ebit)
    /\ UNCHANGED <<epc, elow, ehigh, pending, ebit, ectx, esym, sent>>

\* slip: the loop's test lets the counter pass zero
EncFlushPendingOnceMore ==
    /\ epc \in {"flush", "finish"}
    /\ pending >= 0
    /\ Emit(1 - ebit)
    /\ pending' = pending - 1
    /\ UNCHANGED <<epc, elow, ehigh, ebit, ectx, esym, sent>>

\* one iteration of cec_flush_'s loop over the pending bits
EncFlushPending ==
    /\ epc \in {"flush", "finish"}
    /\ pending > 0
    /\ Emit(1 - ebit)
    /\ pending' = pending - 1
    /\ UNCHANGED <<epc, elow, ehigh, ebit, ectx, esym, sent>>

EncFlushed ==
    /\ epc = "flush"
    /\ pending = 0
    /\ epc' = "renorm"
    /\ UNCHANGED <<elow, ehigh, pending, ebit, out, ectx, esym, sent>>

\* the loop breaks, the model is trained and cec_enc_byte returns
EncReturn ==
    /\ epc = "renorm"
    /\ Settled(elow, ehigh)
    /\ ectx' = Train(ectx, esym)
    /\ sent' = Append(sent, esym)
    /\ epc' = "byte"
    /\ UNCHANGED <<elow, ehigh, pending, ebit, out, esym>>

\* slip: no pending++, a single bit ends the payload
EncFinishOneBit ==
    /\ epc = "byte"
    /\ ebit' = IF elow < Quarter THEN 0 ELSE 1
    /\ Emit(ebit')
    /\ epc' = "finish"
    /\ UNCHANGED <<elow, ehigh, pending, ectx, esym, sent>>

\* cec_enc_finish: pending++ and the first bit of cec_flush_
EncFinish ==
    /\ epc = "byte"
    /\ ebit' = IF elow < Quarter THEN 0 ELSE 1
    /\ Emit(ebit')
    /\ pending' = pending + 1
    /\ epc' = "finish"
    /\ UNCHANGED <<elow, ehigh, ectx, esym, sent>>

\* slip: the padding bits are not counted, and cur_bits stays as it is
EncPadUncounted ==
    /\ epc = "finish"
    /\ pending = 0
    /\ Len(out) % ByteBits # 0
    /\ UNCHANGED encVars

\* while (cur_bits > 0) cec_emit_bit_(e, 0)
EncPad ==
    /\ epc = "finish"
    /\ pending = 0
    /\ Len(out) % ByteBits # 0
    /\ Emit(0)
    /\ UNCHANGED <<epc, elow, ehigh, pending, ebit, ectx, esym, sent>>

EncHandOver ==
    /\ epc = "finish"
    /\ pending = 0
    /\ Len(out) % ByteBits = 0
    /\ epc' = "done"
    /\ UNCHANGED <<elow, ehigh, pending, ebit, out, ectx, esym, sent>>

\* the steps inside a call that has begun
EncRun == \/ EncShiftLower \/ EncShiftUpper \/ EncShiftMiddle
          \/ EncFlushPending \/ EncFlushed \/ EncReturn
          \/ EncPad \/ EncHandOver

EncNext == (\E b \in Symbols : EncByte(b)) \/ EncFinish \/ EncRun

EncSpec == /\ dist \in [Context -> Tables] /\ EncInit
           /\ [][EncNext /\ UNCHANGED dist]_<<dist, encVars>>
           /\ WF_<<dist, encVars>>(EncRun /\ UNCHANGED dist)
-----------------------------------------------------------------------------
EncTypeOK ==
    /\ dist \in [Context -> Tables]
    /\ epc \in {"byte", "renorm", "flush", "finish", "done"}
    /\ elow \in 0 .. Full - 1
    /\ ehigh \in 0 .. Full - 1
    /\ pending \in Nat
    /\ ebit \in {0, 1}
    /\ out \in Seq({0, 1})
    /\ ectx \in Context
    /\ esym \in Symbols
    /\ sent \in Seq(Symbols)

(***************************************************************************)
(* Safety of the renormalisation: the interval never turns inside out      *)
(* while a symbol is being coded, and whenever cec_enc_byte returns it is  *)
(* wider than a quarter of the register range, so that the next symbol,    *)
(* whatever its table, gets a non-empty share.  The C code never tests     *)
(* either condition: it relies on them.                                    *)
(***************************************************************************)
EncInterval ==
    /\ elow <= ehigh
    /\ epc \in {"byte", "finish", "done"} => Width(elow, ehigh) > Quarter + 1

(***************************************************************************)
(* Every call returns: the loops of cec_renorm_enc_, cec_flush_ and        *)
(* cec_enc_finish end (an empty or one-point interval would not leave the  *)
(* renormalisation loop).                                                  *)
(***************************************************************************)
EncCallsReturn == (epc \notin {"byte", "done"}) ~> (epc \in {"byte", "done"})
=============================================================================
