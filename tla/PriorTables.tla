---------------------------- MODULE PriorTables -----------------------------
(***************************************************************************)
(* The tables a prior carries beside the context model: the landmarks of   *)
(* bcb_prior_save_with_landmarks and the record schema of                  *)
(* bcb_prior_save_with_schema.                                             *)
(***************************************************************************)
EXTENDS AuxChannel

CONSTANT LM_BACKOFF_W   \* 64 in the code

\* the k contexts of n bytes met most often; qsort leaves the order of equals open
Landmarks(count, n, k) ==
    LET ofLength == {c \in DOMAIN count : Len(c) = n}
        size     == AtMost(k, Cardinality(ofLength))
    IN  {chosen \in kSubset(size, ofLength) :
            \A c \in chosen, d \in ofLength \ chosen : Total(count[c]) >= Total(count[d])}

\* freq/tot + BACKOFF * pbt/tot, times tot * scale
LandmarkWeights(count, ctx, scale) ==
    LET pbt == bt_v3_distribution(count, ctx, scale)
    IN  [b \in Byte |-> count[ctx][b] * scale + LM_BACKOFF_W * pbt[b]]

LandmarkTables(count, chosen, scale) ==
    [ctx \in chosen |-> lm_quantize(LandmarkWeights(count, ctx, scale), scale)]
-----------------------------------------------------------------------------
(***************************************************************************)
(* Each position of a record is coded as it is or as the difference to the *)
(* record before, whichever explains the held-out records better.  The     *)
(* code compares sums of logarithms in floating point, here products.      *)
(***************************************************************************)
Delta(b, prev) == (b - prev) % NVal

RecordCount(corpus, rec) == Len(corpus) \div rec
At(corpus, rec, r, pos)  == corpus[r * rec + pos + 1]       \* both from 0
DeltaAt(corpus, rec, r, pos) ==
    Delta(At(corpus, rec, r, pos), At(corpus, rec, r - 1, pos))

Fitted(nrec) == IF nrec >= 5 THEN (nrec * 4) \div 5 ELSE nrec
HeldOut(nrec) == (IF Fitted(nrec) < nrec THEN Fitted(nrec) ELSE 1) .. nrec - 1

\* how often each byte is the value of a record
Histogram(values) == [b \in Byte |-> Cardinality({r \in DOMAIN values : values[r] = b})]

\* product over the held-out values of (freq + BACKOFF/NVal), and of the total
Explained(freqs, values) ==
    FoldFunction(LAMBDA b, p : p * (NVal * freqs[b] + LM_BACKOFF_W), 1, values)
OutOf(freqs, values) ==
    FoldFunction(LAMBDA b, p : p * (NVal * (Total(freqs) + LM_BACKOFF_W)), 1, values)

Position(corpus, rec, pos, scale) ==
    LET nrec   == RecordCount(corpus, rec)
        Bytes(R)  == [r \in R |-> At(corpus, rec, r, pos)]
        Deltas(R) == [r \in R |-> DeltaAt(corpus, rec, r, pos)]
        bf == Histogram(Bytes(0 .. Fitted(nrec) - 1))
        df == Histogram(Deltas(1 .. Fitted(nrec) - 1))
        vb == Bytes(HeldOut(nrec))
        vd == Deltas(HeldOut(nrec))
        use_delta == Explained(df, vd) * OutOf(bf, vb) > Explained(bf, vb) * OutOf(df, vd)
    IN  [delta |-> use_delta,
         widths |-> lm_quantize(IF use_delta THEN Histogram(Deltas(1 .. nrec - 1))
                                ELSE Histogram(Bytes(0 .. nrec - 1)), scale)]

Schema(corpus, rec, scale) ==
    [pos \in 0 .. rec - 1 |-> Position(corpus, rec, pos, scale)]
=============================================================================
