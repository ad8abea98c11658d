---------------------------- MODULE GlobalCodec -----------------------------
(***************************************************************************)
(* The research path: a model behind the two callbacks of a CecBT that     *)
(* lives in process-wide globals and learns while it codes, or is attached *)
(* to a prior, or is blended with auxiliary channels, or follows records.  *)
(* A message is encoded, then decoded after the same preparation, as the   *)
(* tools and tests do; the globals stay from one message to the next.      *)
(***************************************************************************)
EXTENDS PriorTables

CONSTANTS Scale,                \* CEC_RC_SCALE
          Corpora,              \* training corpora, sequences of bytes
          Combos,               \* combos of channels, as they are made
          LmLength, LmCount,    \* --landmark-n and --landmark-k
          RecordSizes,          \* --schema-record-size
          MaxCoded              \* bound of the model: bytes ever encoded

ASSUME ScaleAssumption == Scale \in Nat /\ 20 * NVal <= Scale
ASSUME TablesAssumption ==
    /\ LM_BACKOFF_W \in Nat /\ A_DEN \in Nat \ {0} /\ RecordSizes \subseteq Nat \ {0}
    /\ \A bytes \in Corpora : bytes \in Seq(Byte)

ASSUME CombosAssumption ==
    \A combo \in Combos :
        /\ Len(combo) \in Nat /\ DOMAIN combo = 1 .. Len(combo)
        /\ \A i \in DOMAIN combo :
              \E kind \in Kinds, alpha \in 0 .. A_DEN : combo[i] = aux_new(kind, alpha)

VARIABLES corpus,   \* what this process and the prior were trained with
          prior,    \* what the opened prior holds
          g,        \* the globals: bt (g_window, g_frozen and the counts that the
                    \* tables hold), combo (the channels in use), pos, prev and cur
                    \* (g_sc_pos, g_sc_prev, g_sc_cur)
          cec,      \* the CecBT in use and how it was prepared
          side,     \* "idle", "encode" or "decode"
          wire,     \* the symbols coded, each with the globals at that moment
          done,     \* symbols decoded
          coded     \* for MaxCoded

vars == <<corpus, prior, g, cec, side, wire, done, coded>>

NoCount == [c \in {} |-> <<>>]
Zeros(rec) == [pos \in 0 .. rec - 1 |-> 0]

Push(w, b) == IF Len(w) < Depth THEN Append(w, b) ELSE Append(Tail(w), b)

\* bt_v3_train; module BtTable has it one bt_update a step
Trained(m, b) ==
    LET endings == {Ending(m.window, n) : n \in 1 .. Len(m.window)}
        Freqs(c) == IF c \in DOMAIN m.count THEN m.count[c] ELSE [x \in Byte |-> 0]
        counted == [c \in DOMAIN m.count \cup endings |->
                      IF c \in endings THEN [Freqs(c) EXCEPT ![b] = @ + 1] ELSE m.count[c]]
    IN  [m EXCEPT !.count = IF m.frozen THEN @ ELSE counted, !.window = Push(@, b)]

bt_v3_init == [count |-> NoCount, window |-> <<>>, frozen |-> FALSE]

\* btv3_cec_bt and the training loop of the tools
TrainedOn == [bytes \in Corpora |-> FoldLeft(Trained, bt_v3_init, bytes)]

(***************************************************************************)
(* The priors bcb-prior-build makes of a corpus, plain, with landmarks or  *)
(* with a schema, as bcb_prior_mmap finds them.                            *)
(***************************************************************************)
Plain(m) == [bt |-> m, lm |-> NoCount, schema |-> NoCount]

BuiltPriors == [bytes \in Corpora |->
    LET m == TrainedOn[bytes]
    IN  {Plain(m)}
        \cup {[Plain(m) EXCEPT !.lm = LandmarkTables(m.count, chosen, Scale)] :
                 chosen \in Landmarks(m.count, LmLength, LmCount)}
        \cup {[Plain(m) EXCEPT !.schema = IF RecordCount(bytes, rec) < 2 THEN @
                                          ELSE Schema(bytes, rec, Scale)] :
                 rec \in RecordSizes}]

NoPrior == Plain(bt_v3_init)

Init == /\ corpus \in Corpora
        /\ prior = NoPrior
        /\ g = [bt |-> bt_v3_init, combo |-> <<>>, pos |-> 0, prev |-> <<>>, cur |-> <<>>]
        /\ cec = [kind |-> "none"] /\ side = "idle" /\ wire = <<>> /\ done = 0 /\ coded = 0

OpenPrior == /\ prior = NoPrior /\ side = "idle"
             /\ prior' \in BuiltPriors[corpus]
             /\ UNCHANGED <<corpus, g, cec, side, wire, done, coded>>
-----------------------------------------------------------------------------
(***************************************************************************)
(* The preparations: btv3_cec_bt and training; aux_cec_bt and aux_prime;   *)
(* bcb_prior_cec_bt, with or without bt_v3_reset_window after it.          *)
(***************************************************************************)
Records   == Cardinality(DOMAIN prior.schema)
PriorKind == IF Records > 0 THEN "structural"
             ELSE IF DOMAIN prior.lm # {} THEN "landmark" ELSE "prior"

\* slip: the records of the message before are not forgotten
msg_beginStale ==
    IF DOMAIN g.prev = 0 .. Records - 1 THEN [g EXCEPT !.pos = 0]
    ELSE [g EXCEPT !.pos = 0, !.prev = Zeros(Records), !.cur = Zeros(Records)]

msg_begin == [g EXCEPT !.pos = 0, !.prev = Zeros(Records), !.cur = Zeros(Records)]

Kept(window, keep) == IF keep THEN window ELSE <<>>

PrepareAux(channels) ==
    [g EXCEPT !.bt = TrainedOn[corpus], !.combo = LearnAll(ResetAll(channels), corpus)]

PreparePrior(keep) ==
    IF PriorKind = "structural" THEN [msg_begin EXCEPT !.bt.window = Kept(@, keep)]
    ELSE [g EXCEPT !.bt = [prior.bt EXCEPT !.frozen = TRUE, !.window = Kept(@, keep)]]

Prepared(c) == CASE c.kind = "own" -> [g EXCEPT !.bt = TrainedOn[corpus]]
                 [] c.kind = "aux" -> PrepareAux(IF side = "idle" THEN c.combo ELSE g.combo)
                 [] OTHER -> PreparePrior(c.keep)

Preparations ==
    {[kind |-> "own"]} \cup {[kind |-> "aux", combo |-> c] : c \in Combos}
    \cup (IF prior = NoPrior THEN {}
          ELSE {[kind |-> PriorKind, keep |-> keep] : keep \in BOOLEAN})
-----------------------------------------------------------------------------
(***************************************************************************)
(* The distribution callbacks.                                             *)
(***************************************************************************)
BtWidths(m) == bt_v3_distribution(m.count, m.window, Scale)

Checked(w, other) == IF Total(w) = Scale THEN w ELSE other

landmark_dist(m) ==
    LET key == Ending(m.window, LmLength)
    IN  IF Len(m.window) >= LmLength /\ key \in DOMAIN prior.lm
        THEN Checked(prior.lm[key], BtWidths(m))
        ELSE BtWidths(m)

structural_dist(s) ==
    LET at    == prior.schema[s.pos]
        shift == IF at.delta THEN s.prev[s.pos] ELSE 0
    IN  Checked([b \in Byte |-> at.widths[(b - shift) % NVal]], Even(Scale))

aux_dist(s) == AdjustAll(s.combo, symdist_normalize(BtWidths(s.bt), Scale), Scale)

Dist(s) == CASE cec.kind = "aux" -> aux_dist(s)
             [] cec.kind = "landmark" -> landmark_dist(s.bt)
             [] cec.kind = "structural" -> structural_dist(s)
             [] OTHER -> BtWidths(s.bt)

(***************************************************************************)
(* The train callbacks.                                                    *)
(***************************************************************************)
structural_train(b) ==
    LET cur == [g.cur EXCEPT ![g.pos] = b]
    IN  IF g.pos + 1 >= Records THEN [g EXCEPT !.pos = 0, !.prev = cur, !.cur = cur]
        ELSE [g EXCEPT !.pos = @ + 1, !.cur = cur]

aux_train(b) == [g EXCEPT !.bt = Trained(@, b), !.combo = ObserveAll(@, b)]

Train(b) == g' = CASE cec.kind = "structural" -> structural_train(b)
                   [] cec.kind = "aux" -> aux_train(b)
                   [] OTHER -> [g EXCEPT !.bt = Trained(@, b)]
-----------------------------------------------------------------------------
EncodeBegin(c) ==
    /\ side = "idle" /\ coded < MaxCoded
    /\ g' = Prepared(c)
    /\ cec' = c /\ side' = "encode" /\ wire' = <<>>
    /\ UNCHANGED <<corpus, prior, done, coded>>

EncodeByte(b) ==
    /\ side = "encode" /\ coded < MaxCoded
    /\ wire' = Append(wire, [sym |-> b, coder |-> g])
    /\ Train(b)
    /\ coded' = coded + 1
    /\ UNCHANGED <<corpus, prior, cec, side, done>>

DecodeBegin == /\ side = "encode"
               /\ g' = Prepared(cec)
               /\ side' = "decode"
               /\ UNCHANGED <<corpus, prior, cec, wire, done, coded>>

DecodeByte == /\ side = "decode" /\ done < Len(wire)
              /\ Train(wire[done + 1].sym)
              /\ done' = done + 1
              /\ UNCHANGED <<corpus, prior, cec, side, wire, coded>>

DecodeEnd == /\ side = "decode" /\ done = Len(wire)
             /\ side' = "idle" /\ wire' = <<>> /\ done' = 0
             /\ UNCHANGED <<corpus, prior, g, cec, coded>>

Next == \/ OpenPrior
        \/ \E c \in Preparations : EncodeBegin(c)
        \/ \E b \in Byte : EncodeByte(b)
        \/ DecodeBegin \/ DecodeByte \/ DecodeEnd

Spec == Init /\ [][Next]_vars
-----------------------------------------------------------------------------
(***************************************************************************)
(* The decoder has, before each byte, the distribution the encoder coded   *)
(* it with: the same preparation undoes whatever encoding left in the      *)
(* globals and the channels, and both learn from the same bytes.           *)
(***************************************************************************)
InStep == side = "decode" /\ done < Len(wire) => Dist(g) = Dist(wire[done + 1].coder)

(***************************************************************************)
(* What the range coder takes for granted (IsCum in RangeCoder): no byte   *)
(* is empty and the total is at most the scale - exactly the scale where   *)
(* aux_channel.c promises it in the comment before blend_into.             *)
(***************************************************************************)
DistUsable ==
    side # "idle" =>
       LET w == Dist(g)
       IN  /\ \A b \in Byte : w[b] >= 1
           /\ IF cec.kind = "aux" THEN Total(w) = Scale ELSE Total(w) <= Scale

(***************************************************************************)
(* Every table stored with a prior has the total lm_quantize promises, so  *)
(* that landmark_dist and structural_dist never fall back.                 *)
(***************************************************************************)
TablesSound == /\ \A ctx \in DOMAIN prior.lm : IsSound(prior.lm[ctx], Scale)
               /\ \A pos \in DOMAIN prior.schema : IsSound(prior.schema[pos].widths, Scale)

(***************************************************************************)
(* The shortcut for unobserved bytes gives what estimating each byte by    *)
(* itself gives: btv3.c calls it bit-identical.                            *)
(***************************************************************************)
ShortcutExact ==
    side # "idle" => BtWidths(g.bt) = DirectDistribution(g.bt.count, g.bt.window, Scale)
=============================================================================
