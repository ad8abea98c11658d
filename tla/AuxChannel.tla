----------------------------- MODULE AuxChannel -----------------------------
(***************************************************************************)
(* The auxiliary channels: each predicts the next byte from a class of the *)
(* bytes before it, learned from a corpus, and is blended into the         *)
(* distribution.  A channel is a record; what it learned is kept as the    *)
(* corpus its counters are computed from.                                  *)
(***************************************************************************)
EXTENDS Quantize

CONSTANTS Char,     \* [Byte -> 0..255], the characters the byte values stand for
          PMAX,     \* longest phase that is told apart
          A_DEN     \* denominator of alpha

Between(c, lo, hi) == lo <= c /\ c <= hi
Lower(c) == Between(c, 97, 122)
Upper(c) == Between(c, 65, 90)
is_ws(b) == Char[b] \in {32, 9, 10, 13}

byte_type(b) == LET c == Char[b] IN
    CASE c \in {32, 9} -> "space"
      [] c \in {10, 13} -> "newline"
      [] Lower(c) -> "lower"
      [] Upper(c) -> "upper"
      [] Between(c, 48, 57) -> "digit"
      [] Between(c, 33, 126) /\ ~Lower(c) /\ ~Upper(c) /\ ~Between(c, 48, 57) -> "punct"
      [] OTHER -> "other"

case_class(b) == LET c == Char[b] IN
    IF Lower(c) THEN "lower" ELSE IF Upper(c) THEN "upper" ELSE "none"

Types == {"space", "newline", "lower", "upper", "digit", "punct", "other"}
Cases == {"lower", "upper", "none"}

Kinds == {"byte_type", "bigram_type", "case_pattern", "whitespace_phase"}

ClassOf(kind, b) == IF kind = "case_pattern" THEN case_class(b) ELSE byte_type(b)
Classes(kind)    == IF kind = "case_pattern" THEN Cases ELSE Types
Order(kind)      == IF kind = "bigram_type" THEN 2 ELSE 1

(***************************************************************************)
(* memory: the classes of the last bytes, newest last, or the bytes since  *)
(* the last white space.                                                   *)
(***************************************************************************)
Fresh(kind) == CASE kind = "byte_type"        -> <<"space">>
                 [] kind = "bigram_type"      -> <<"space", "space">>
                 [] kind = "case_pattern"     -> <<"none">>
                 [] kind = "whitespace_phase" -> 0

After(kind, memory, b) ==
    IF kind = "whitespace_phase" THEN IF is_ws(b) THEN 0 ELSE memory + 1
    ELSE Append(Tail(memory), ClassOf(kind, b))

aux_new(kind, alpha) == [kind |-> kind, alpha |-> alpha, corpus |-> <<>>,
                         memory |-> Fresh(kind)]

reset(ch) == [ch EXCEPT !.corpus = <<>>, !.memory = Fresh(ch.kind)]

MemoryAfter(kind, corpus) ==
    FoldLeft(LAMBDA mem, b : After(kind, mem, b), Fresh(kind), corpus)

learn(ch, corpus) == [ch EXCEPT !.corpus = corpus, !.memory = MemoryAfter(ch.kind, corpus)]

observe(ch, b) == [ch EXCEPT !.memory = After(ch.kind, @, b)]
-----------------------------------------------------------------------------
(***************************************************************************)
(* The counters, over the positions of the corpus, and the widths a        *)
(* channel gives each byte from them.                                      *)
(***************************************************************************)
Share(whole, part, total) == (whole * part) \div total

Positions(ch, first) == first .. Len(ch.corpus)

Count(ch, b) == Cardinality({i \in Positions(ch, 1) : ch.corpus[i] = b})
CountClass(ch, c) ==
    Cardinality({i \in Positions(ch, 1) : ClassOf(ch.kind, ch.corpus[i]) = c})

\* positions that follow bytes of the classes in memory
Following(ch, memory) ==
    {i \in Positions(ch, Order(ch.kind) + 1) :
        \A k \in 1 .. Order(ch.kind) :
            ClassOf(ch.kind, ch.corpus[i - Order(ch.kind) + k - 1]) = memory[k]}

ClassWidth(ch, c, scale) ==
    LET met == Following(ch, ch.memory)
        hit == {i \in met : ClassOf(ch.kind, ch.corpus[i]) = c}
    IN  IF met # {} THEN Share(scale, Cardinality(hit), Cardinality(met))
        ELSE scale \div Cardinality(Classes(ch.kind))

PriorByClass(ch, scale) ==
    [b \in Byte |->
        LET c == ClassOf(ch.kind, b)
        IN  IF CountClass(ch, c) > 0
            THEN Share(ClassWidth(ch, c, scale), Count(ch, b), CountClass(ch, c))
            ELSE 0]

PhaseAt(corpus, i) == AtMost(MemoryAfter("whitespace_phase", SubSeq(corpus, 1, i - 1)), PMAX)

PriorByPhase(ch, scale) ==
    LET met == {i \in Positions(ch, 1) : PhaseAt(ch.corpus, i) = AtMost(ch.memory, PMAX)}
    IN  [b \in Byte |->
            IF met # {}
            THEN Share(scale, Cardinality({i \in met : ch.corpus[i] = b}), Cardinality(met))
            ELSE scale \div NVal]

PriorWidths(ch, scale) == IF ch.kind = "whitespace_phase" THEN PriorByPhase(ch, scale)
                          ELSE PriorByClass(ch, scale)

(***************************************************************************)
(* blend_into and the adjust functions; a combo adjusts by each channel in *)
(* turn.                                                                   *)
(***************************************************************************)
\* slip: the blend is not normalised again
blend_intoRaw(w, scale, alpha, prior) ==
    [b \in Byte |-> (alpha * ((w[b] * scale) \div Total(w))
                       + (A_DEN - alpha) * prior[b]) \div A_DEN]

blend_into(w, scale, alpha, prior) ==
    LET total == Total(w)
    IN  IF total = 0 THEN w
        ELSE symdist_normalize(
               Table([b \in Byte |-> (alpha * ((w[b] * scale) \div total)
                                       + (A_DEN - alpha) * prior[b]) \div A_DEN]), scale)

adjust(ch, w, scale) == blend_into(w, scale, ch.alpha, Table(PriorWidths(ch, scale)))

\* a combo is a sequence of channels
AdjustAll(combo, w, scale) == FoldLeft(LAMBDA v, ch : adjust(ch, v, scale), w, combo)

ResetAll(combo)         == [i \in DOMAIN combo |-> reset(combo[i])]
LearnAll(combo, corpus) == [i \in DOMAIN combo |-> learn(combo[i], corpus)]
ObserveAll(combo, b)    == [i \in DOMAIN combo |-> observe(combo[i], b)]
=============================================================================
