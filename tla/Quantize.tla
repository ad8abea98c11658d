------------------------------ MODULE Quantize ------------------------------
(***************************************************************************)
(* The two normalisations that promise widths with an exact total and no   *)
(* empty byte: symdist_normalize, and lm_quantize for the tables stored in *)
(* a prior.  A distribution is a function from bytes to widths.            *)
(***************************************************************************)
EXTENDS BtDist

Even(scale) == [b \in Byte |-> AtLeast(scale \div NVal, 1)]

\* the first of the largest
Largest(w) == CHOOSE b \in Byte : /\ \A c \in Byte : w[c] <= w[b]
                                  /\ \A c \in 0 .. b - 1 : w[c] < w[b]

(***************************************************************************)
(* symdist_normalize: widths in proportion to scale and at least 1; what   *)
(* is missing goes to the largest, what is too much comes from the largest *)
(* as long as they have more than 1.                                       *)
(***************************************************************************)
Proportional(w, scale) ==
    IF Total(w) = 0 THEN Even(scale)
    ELSE LET total == Total(w)
         IN  Table([b \in Byte |-> AtLeast((w[b] * scale) \div total, 1)])

TakenExcess(w, excess) ==
    LET Take(s, i) ==
            LET big  == Largest(s.w)
                take == AtMost(s.w[big] - 1, s.excess)
            IN  [w |-> Table([s.w EXCEPT ![big] = @ - take]), excess |-> s.excess - take]
    IN  FoldLeft(Take, [w |-> w, excess |-> excess], [i \in 1 .. NVal |-> i]).w

symdist_normalize(w, scale) ==
    LET nw  == Proportional(w, scale)
        sum == Total(nw)
    IN  IF sum <= scale THEN Table([nw EXCEPT ![Largest(nw)] = @ + scale - sum])
        ELSE TakenExcess(nw, sum - scale)

(***************************************************************************)
(* lm_quantize: weights, any naturals, to widths.  The double arithmetic   *)
(* of the code rounds P/sum*scale to the nearest integer, as here.         *)
(***************************************************************************)
Rounded(weights, scale) ==
    LET sum == Total(weights)
    IN  Table([b \in Byte |->
            AtMost(AtLeast(IF sum > 0
                           THEN (2 * weights[b] * scale + sum) \div (2 * sum)
                           ELSE (2 * scale + NVal) \div (2 * NVal), 1), scale)])

\* slip: rounding up is not corrected
lm_quantizeUncorrected(weights, scale) ==
    LET w   == Rounded(weights, scale)
        acc == Total(w)
    IN  IF acc <= scale THEN [w EXCEPT ![Largest(weights)] = @ + scale - acc]
        ELSE w

lm_quantize(weights, scale) ==
    LET w   == Rounded(weights, scale)
        acc == Total(w)
        Dec(v, i) == IF v[Largest(v)] > 1 THEN Table([v EXCEPT ![Largest(v)] = @ - 1]) ELSE v
    IN  IF acc <= scale THEN [w EXCEPT ![Largest(weights)] = @ + scale - acc]
        ELSE FoldLeft(Dec, w, [i \in 1 .. acc - scale |-> i])

\* widths the range coder can use with the whole of scale
IsSound(w, scale) == Total(w) = scale /\ \A b \in Byte : w[b] >= 1
=============================================================================
