------------------------- MODULE GlobalCodecProofs --------------------------
(***************************************************************************)
(* The decoder of the attached codec follows the encoder, for every        *)
(* corpus, prior and combination of channels: a preparation leaves nothing *)
(* of what the globals were used for before, so far as the callbacks read  *)
(* them, and both sides then train on the same bytes.  Then, from the      *)
(* sums of NatInduction up: every distribution is one the range coder can  *)
(* use, every table stored with a prior has the scale as its total, and    *)
(* the shortcut for unobserved bytes is exact.                             *)
(***************************************************************************)
EXTENDS GlobalCodec, NatInduction, SequenceTheorems

(***************************************************************************)
(* The train callback on any globals, and what a distribution callback     *)
(* reads of them.                                                          *)
(***************************************************************************)
TrainedRecords(s, b) ==
    LET cur == [s.cur EXCEPT ![s.pos] = b]
    IN  IF s.pos + 1 >= Records THEN [s EXCEPT !.pos = 0, !.prev = cur, !.cur = cur]
        ELSE [s EXCEPT !.pos = @ + 1, !.cur = cur]

TrainedGlobals(s, b) ==
    IF cec.kind = "structural" THEN TrainedRecords(s, b)
    ELSE IF cec.kind = "aux"
         THEN [s EXCEPT !.bt = Trained(@, b), !.combo = ObserveAll(@, b)]
         ELSE [s EXCEPT !.bt = Trained(@, b)]

Alike(s, t) ==
    IF cec.kind = "structural" THEN s.pos = t.pos /\ s.prev = t.prev /\ s.cur = t.cur
    ELSE s.bt = t.bt /\ (cec.kind = "aux" => s.combo = t.combo)

Globals(s) == s = [bt |-> s.bt, combo |-> s.combo, pos |-> s.pos, prev |-> s.prev,
                   cur |-> s.cur]

\* what a preparation makes of the globals, as far as the callbacks read them
Start(s) ==
    IF cec.kind = "structural"
    THEN s.pos = 0 /\ s.prev = Zeros(Records) /\ s.cur = Zeros(Records)
    ELSE IF cec.kind = "aux"
    THEN s.bt = TrainedOn[corpus] /\ s.combo = LearnAll(ResetAll(cec.combo), corpus)
    ELSE IF cec.kind = "own" THEN s.bt = TrainedOn[corpus]
    ELSE s.bt = [prior.bt EXCEPT !.frozen = TRUE, !.window = Kept(@, cec.keep)]

Channel(ch) == ch \in [kind : {ch.kind}, alpha : {ch.alpha}, corpus : {ch.corpus},
                        memory : {ch.memory}]

\* combos of the same channels, whatever they have learned
SameChannels(c, d) ==
    /\ DOMAIN c = DOMAIN d
    /\ \A i \in DOMAIN c : /\ Channel(c[i]) /\ Channel(d[i])
                           /\ c[i].kind = d[i].kind /\ c[i].alpha = d[i].alpha

IsSeq(s) == \E S : s \in Seq(S)

Coded ==
    /\ IsSeq(wire)
    /\ \A k \in 1 .. Len(wire) : Globals(wire[k].coder)
    /\ Len(wire) > 0 => Start(wire[1].coder)
    /\ \A k \in 1 .. Len(wire) - 1 :
          Alike(wire[k + 1].coder, TrainedGlobals(wire[k].coder, wire[k].sym))

Encoding ==
    /\ IF Len(wire) = 0 THEN Start(g)
       ELSE Alike(g, TrainedGlobals(wire[Len(wire)].coder, wire[Len(wire)].sym))
    /\ cec.kind = "aux" => SameChannels(g.combo, cec.combo)

Decoding == done <= Len(wire)
            /\ (done < Len(wire) => Alike(g, wire[done + 1].coder))

InUse == /\ cec.kind \in {"own", "aux", PriorKind}
         /\ cec.kind = "aux" => cec.combo \in Combos

Inv == /\ Globals(g) /\ side \in {"idle", "encode", "decode"} /\ done \in Nat
       /\ side # "decode" => done = 0
       /\ side # "idle" => InUse /\ Coded
       /\ side = "encode" => Encoding
       /\ side = "decode" => Decoding

\* Appending, for sequences whose elements have no common type.
LEMMA AppendAny ==
    ASSUME NEW s, IsSeq(s), NEW e
    PROVE  /\ IsSeq(Append(s, e)) /\ Len(s) \in Nat
           /\ Len(Append(s, e)) = Len(s) + 1
           /\ \A i \in 1 .. Len(s) : Append(s, e)[i] = s[i]
           /\ Append(s, e)[Len(s) + 1] = e
<1>1. PICK S : s \in Seq(S)
  BY DEF IsSeq
<1>2. s \in Seq(S \cup {e}) /\ e \in S \cup {e}
  BY <1>1, SeqMonotonic
<1> QED
  BY <1>2, AppendProperties, LenProperties DEF IsSeq

\* The empty sequence is one of them.
LEMMA EmptyIsSeq == IsSeq(<<>>) /\ Len(<<>>) = 0
  BY EmptySeq DEF IsSeq

\* A prior is used in one of three ways.
LEMMA Kinds3 == PriorKind \in {"structural", "landmark", "prior"}
  BY DEF PriorKind

\* The train callbacks, as a function of the globals.
LEMMA TrainIsTrained == ASSUME NEW b, Train(b) PROVE g' = TrainedGlobals(g, b)
  BY Zenon DEF Train, TrainedGlobals, TrainedRecords, structural_train, aux_train

\* They keep the globals together.
LEMMA TrainedShape ==
    ASSUME NEW s, Globals(s), NEW b PROVE Globals(TrainedGlobals(s, b))
  BY DEF Globals, TrainedGlobals, TrainedRecords

\* Globals the callbacks cannot tell apart stay so when trained on one byte,
LEMMA TrainedAlike ==
    ASSUME NEW s, NEW t, Globals(s), Globals(t), Alike(s, t), NEW b
    PROVE  Alike(TrainedGlobals(s, b), TrainedGlobals(t, b))
  BY DEF Globals, Alike, TrainedGlobals, TrainedRecords

\* and give the same distribution.
LEMMA AlikeDist ==
    ASSUME NEW s, NEW t, Alike(s, t) PROVE Dist(s) = Dist(t)
<1>1. CASE cec.kind = "structural"
  BY <1>1, Zenon DEF Alike, Dist, structural_dist
<1>2. CASE cec.kind # "structural"
  BY <1>2, Zenon DEF Alike, Dist, aux_dist
<1> QED
  BY <1>1, <1>2

\* The callbacks cannot tell apart two states a preparation leaves.
LEMMA StartAlike ==
    ASSUME NEW s, NEW t, Start(s), Start(t) PROVE Alike(s, t)
  BY DEF Start, Alike

\* Changing what a channel remembers keeps its kind and its weight.
LEMMA ChannelUpdate ==
    ASSUME NEW ch, Channel(ch), NEW c, NEW m
    PROVE  /\ Channel([ch EXCEPT !.corpus = c, !.memory = m])
           /\ [ch EXCEPT !.corpus = c, !.memory = m].kind = ch.kind
           /\ [ch EXCEPT !.corpus = c, !.memory = m].alpha = ch.alpha
  BY DEF Channel

\* So do reset and learn.
LEMMA LearnedChannel ==
    ASSUME NEW ch, Channel(ch), NEW bytes
    PROVE  /\ Channel(learn(reset(ch), bytes))
           /\ learn(reset(ch), bytes).kind = ch.kind
           /\ learn(reset(ch), bytes).alpha = ch.alpha
<1> DEFINE r == reset(ch)
<1>1. Channel(r) /\ r.kind = ch.kind /\ r.alpha = ch.alpha
  BY ChannelUpdate, Zenon DEF reset
<1> HIDE DEF r
<1>2. PICK m : learn(r, bytes) = [r EXCEPT !.corpus = bytes, !.memory = m]
  BY Zenon DEF learn
<1> DEFINE l == [r EXCEPT !.corpus = bytes, !.memory = m]
<1>3. Channel(l) /\ l.kind = r.kind /\ l.alpha = r.alpha
  BY <1>1 DEF Channel
<1>4. learn(r, bytes) = l
  BY <1>2
<1> HIDE DEF l
<1> QED
  BY <1>1, <1>3, <1>4, Zenon DEF r

\* reset and learn undo whatever a channel has observed:
\* combos of the same channels become equal.
LEMMA ResetSame ==
    ASSUME NEW c, NEW d, SameChannels(c, d)
    PROVE  LearnAll(ResetAll(c), corpus) = LearnAll(ResetAll(d), corpus)
<1>1. \A i \in DOMAIN c : reset(c[i]) = reset(d[i])
  BY DEF SameChannels, Channel, reset
<1>2. ResetAll(c) = ResetAll(d)
  BY <1>1 DEF ResetAll, SameChannels
<1> QED
  BY <1>2

\* A combo that was reset and has learned is still of the same channels,
LEMMA LearnedSame ==
    ASSUME NEW c, SameChannels(c, c)
    PROVE  SameChannels(LearnAll(ResetAll(c), corpus), c)
<1> DEFINE d == LearnAll(ResetAll(c), corpus)
<1>1. DOMAIN d = DOMAIN c /\ \A i \in DOMAIN c : d[i] = learn(reset(c[i]), corpus)
  BY DEF LearnAll, ResetAll
<1>2. \A i \in DOMAIN c :
          /\ Channel(learn(reset(c[i]), corpus))
          /\ learn(reset(c[i]), corpus).kind = c[i].kind
          /\ learn(reset(c[i]), corpus).alpha = c[i].alpha
  BY LearnedChannel DEF SameChannels
<1> HIDE DEF d
<1> QED
  BY <1>1, <1>2 DEF SameChannels, d

\* and so is one that has observed a byte.
LEMMA ObservedSame ==
    ASSUME NEW c, NEW d, SameChannels(c, d), NEW b
    PROVE  SameChannels(ObserveAll(c, b), d)
<1>1. \A i \in DOMAIN c : /\ Channel(observe(c[i], b))
                          /\ observe(c[i], b).kind = c[i].kind
                          /\ observe(c[i], b).alpha = c[i].alpha
  BY DEF SameChannels, Channel, observe
<1> DEFINE o == ObserveAll(c, b)
<1>2. DOMAIN o = DOMAIN c /\ \A i \in DOMAIN c : o[i] = observe(c[i], b)
  BY DEF ObserveAll
<1> HIDE DEF o
<1> QED
  BY <1>1, <1>2 DEF SameChannels, o

\* The channels aux_new makes are channels.
LEMMA MadeSame == ASSUME NEW c \in Combos PROVE SameChannels(c, c)
<1>1. \A i \in DOMAIN c : Channel(c[i])
  BY CombosAssumption DEF Channel, aux_new
<1> QED
  BY <1>1 DEF SameChannels

\* The encoder's preparation leaves a starting state, whatever was there.
LEMMA PreparedIdle ==
    ASSUME Inv, side = "idle", NEW c \in Preparations,
           g' = Prepared(c), cec' = c, UNCHANGED <<corpus, prior>>
    PROVE  /\ Globals(g') /\ Start(g)' /\ InUse'
           /\ cec'.kind = "aux" => SameChannels(g'.combo, cec'.combo)
<1>1. Records' = Records /\ PriorKind' = PriorKind
  BY DEF Records, PriorKind
<1>2. CASE c.kind = "own"
  <2>1. g' = [g EXCEPT !.bt = TrainedOn[corpus]]
    BY <1>2, Zenon DEF Prepared
  <2> QED
    BY <1>1, <1>2, <2>1 DEF Inv, Globals, Start, InUse
<1>3. CASE c.kind = "aux"
  <2>1. c \in [kind : {"aux"}, combo : Combos]
    BY <1>3, Kinds3 DEF Preparations
  <2>2. g' = [g EXCEPT !.bt = TrainedOn[corpus], !.combo = LearnAll(ResetAll(c.combo), corpus)]
    BY <1>3, Zenon DEF Prepared, PrepareAux
  <2> DEFINE d == LearnAll(ResetAll(c.combo), corpus)
  <2>3. SameChannels(d, c.combo)
    BY <2>1, MadeSame, LearnedSame
  <2> HIDE DEF d
  <2>4. g' = [g EXCEPT !.bt = TrainedOn[corpus], !.combo = d]
    BY <2>2 DEF d
  <2>5. Globals(g') /\ g'.bt = TrainedOn[corpus] /\ g'.combo = d
    BY <2>4 DEF Inv, Globals
  <2>6. Start(g)'
    BY <1>3, <2>5 DEF Start, d
  <2>7. InUse'
    BY <1>3, <2>1 DEF InUse
  <2> QED
    BY <2>3, <2>5, <2>6, <2>7
<1>4. CASE c.kind \notin {"own", "aux"}
  <2>1. c.kind = PriorKind /\ c.keep \in BOOLEAN
    BY <1>4 DEF Preparations
  <2>2. g' = PreparePrior(c.keep)
    BY <1>4, Zenon DEF Prepared
  <2>3. CASE PriorKind = "structural"
    <3>1. g' = [msg_begin EXCEPT !.bt.window = Kept(@, c.keep)]
      BY <2>2, <2>3 DEF PreparePrior
    <3>2. /\ Globals(g') /\ g'.pos = 0 /\ g'.prev = Zeros(Records) /\ g'.cur = Zeros(Records)
      BY <3>1 DEF msg_begin, Inv, Globals
    <3> QED
      BY <1>1, <2>1, <2>3, <3>2 DEF Start, InUse, Zeros
  <2>4. CASE PriorKind # "structural"
    <3>1. g' = [g EXCEPT !.bt = [prior.bt EXCEPT !.frozen = TRUE,
                                                 !.window = Kept(@, c.keep)]]
      BY <2>2, <2>4 DEF PreparePrior
    <3> DEFINE m == [prior.bt EXCEPT !.frozen = TRUE, !.window = Kept(@, c.keep)]
    <3>2. g' = [g EXCEPT !.bt = m]
      BY <3>1
    <3> HIDE DEF m
    <3>3. Globals(g') /\ g'.bt = m
      BY <3>2 DEF Inv, Globals
    <3>4. Start(g)'
      BY <1>4, <2>1, <2>4, <3>3 DEF Start, m
    <3> QED
      BY <1>1, <1>4, <2>1, <3>3, <3>4 DEF InUse
  <2> QED
    BY <2>3, <2>4
<1> QED
  BY <1>2, <1>3, <1>4

\* The decoder's preparation leaves one too, after the encoder's bytes went
\* through the same globals and the same channels.
LEMMA PreparedAgain ==
    ASSUME Inv, side = "encode", g' = Prepared(cec), UNCHANGED <<corpus, prior, cec>>
    PROVE  Globals(g') /\ Start(g)'
<1>1. Records' = Records /\ PriorKind' = PriorKind
  BY DEF Records, PriorKind
<1>2. CASE cec.kind = "own"
  <2>1. g' = [g EXCEPT !.bt = TrainedOn[corpus]]
    BY <1>2, Zenon DEF Prepared
  <2> QED
    BY <1>1, <1>2, <2>1 DEF Inv, Globals, Start
<1>3. CASE cec.kind = "aux"
  <2>1. SameChannels(g.combo, cec.combo)
    BY <1>3 DEF Inv, Encoding
  <2>2. g' = [g EXCEPT !.bt = TrainedOn[corpus],
                       !.combo = LearnAll(ResetAll(g.combo), corpus)]
    BY <1>3, Zenon DEF Prepared, PrepareAux, Inv
  <2> DEFINE d == LearnAll(ResetAll(cec.combo), corpus)
  <2>3. LearnAll(ResetAll(g.combo), corpus) = d
    BY <2>1, ResetSame
  <2> HIDE DEF d
  <2>4. Globals(g') /\ g'.bt = TrainedOn[corpus] /\ g'.combo = d
    BY <2>2, <2>3 DEF Inv, Globals
  <2> QED
    BY <1>3, <2>4 DEF Start, d
<1>4. CASE cec.kind \notin {"own", "aux"}
  <2>1. cec.kind = PriorKind
    BY <1>4 DEF Inv, InUse
  <2>2. g' = PreparePrior(cec.keep)
    BY <1>4, Zenon DEF Prepared
  <2>3. CASE PriorKind = "structural"
    <3>1. g' = [msg_begin EXCEPT !.bt.window = Kept(@, cec.keep)]
      BY <2>2, <2>3 DEF PreparePrior
    <3>2. /\ Globals(g') /\ g'.pos = 0 /\ g'.prev = Zeros(Records) /\ g'.cur = Zeros(Records)
      BY <3>1 DEF msg_begin, Inv, Globals
    <3> QED
      BY <1>1, <2>1, <2>3, <3>2 DEF Start, Zeros
  <2>4. CASE PriorKind # "structural"
    <3>1. g' = [g EXCEPT !.bt = [prior.bt EXCEPT !.frozen = TRUE,
                                                 !.window = Kept(@, cec.keep)]]
      BY <2>2, <2>4 DEF PreparePrior
    <3> DEFINE m == [prior.bt EXCEPT !.frozen = TRUE, !.window = Kept(@, cec.keep)]
    <3>2. g' = [g EXCEPT !.bt = m]
      BY <3>1
    <3> HIDE DEF m
    <3>3. Globals(g') /\ g'.bt = m
      BY <3>2 DEF Inv, Globals
    <3>4. Start(g)'
      BY <1>4, <2>1, <2>4, <3>3 DEF Start, m
    <3> QED
      BY <3>3, <3>4
  <2> QED
    BY <2>3, <2>4
<1> QED
  BY <1>2, <1>3, <1>4

\* At first no codec is in use.
LEMMA InitInv == Init => Inv
  BY DEF Init, Inv, Globals

\* Opening a prior happens while no codec is in use.
LEMMA OpenPriorInv == ASSUME Inv, OpenPrior PROVE Inv'
  BY DEF Inv, OpenPrior, Globals

\* The first byte is coded from a starting state.
LEMMA EncodeBeginInv ==
    ASSUME Inv, NEW c \in Preparations, EncodeBegin(c) PROVE Inv'
<1>1. /\ Globals(g') /\ Start(g)' /\ InUse'
      /\ cec'.kind = "aux" => SameChannels(g'.combo, cec'.combo)
  BY PreparedIdle DEF EncodeBegin
<1>2. wire' = <<>> /\ side' = "encode" /\ done' = 0
  BY DEF EncodeBegin, Inv
<1>3. Coded'
  BY <1>2, EmptyIsSeq DEF Coded
<1>4. Encoding'
  BY <1>1, <1>2, EmptyIsSeq DEF Encoding
<1> QED
  BY <1>1, <1>2, <1>3, <1>4 DEF Inv, Globals

\* Each byte coded was coded from the state the byte before it left.
LEMMA EncodeByteInv == ASSUME Inv, NEW b \in Byte, EncodeByte(b) PROVE Inv'
<1> DEFINE e == [sym |-> b, coder |-> g]
           n == Len(wire)
<1>1. /\ side = "encode" /\ g' = TrainedGlobals(g, b) /\ wire' = Append(wire, e)
      /\ side' = side /\ done' = 0
  BY TrainIsTrained DEF EncodeByte, Inv
<1>2. UNCHANGED <<corpus, prior, cec>> /\ Records' = Records /\ PriorKind' = PriorKind
  BY DEF EncodeByte, Records, PriorKind
<1>3. Globals(g) /\ InUse /\ Coded /\ Encoding
  BY <1>1 DEF Inv
<1>4. /\ IsSeq(wire') /\ n \in Nat /\ Len(wire') = n + 1
      /\ \A i \in 1 .. n : wire'[i] = wire[i]
      /\ wire'[n + 1] = e
  BY <1>1, <1>3, AppendAny DEF Coded
<1>5. e.sym = b /\ e.coder = g
  OBVIOUS
<1> HIDE DEF e
<1>6. Globals(g)'
  BY <1>1, <1>3, TrainedShape
<1>7. (\A s, x : TrainedGlobals(s, x)' = TrainedGlobals(s, x))
  BY <1>2 DEF TrainedGlobals, TrainedRecords
<1>8. /\ \A s : Start(s)' = Start(s)
      /\ \A s, t : Alike(s, t)' = Alike(s, t)
  BY <1>2 DEF Start, Alike
<1>9. Alike(g, g) /\ Alike(g', TrainedGlobals(g, b))
  BY <1>1 DEF Alike
<1>10. Coded'
  <2>1. \A k \in 1 .. n + 1 : Globals(wire'[k].coder)
    BY <1>3, <1>4, <1>5 DEF Coded
  <2>2. Start(wire'[1].coder)
    <3>1. CASE n = 0
      BY <1>3, <1>4, <1>5, <3>1 DEF Encoding
    <3>2. CASE n > 0
      BY <1>3, <1>4, <3>2 DEF Coded
    <3> QED
      BY <1>4, <3>1, <3>2
  <2>3. ASSUME NEW k \in 1 .. n
        PROVE  Alike(wire'[k + 1].coder, TrainedGlobals(wire'[k].coder, wire'[k].sym))
    <3>1. CASE k = n
      BY <1>3, <1>4, <1>5, <3>1 DEF Encoding
    <3>2. CASE k # n
      <4>1. k \in 1 .. n - 1 /\ k + 1 \in 1 .. n
        BY <1>4, <3>2
      <4> QED
        BY <1>3, <1>4, <4>1 DEF Coded
    <3> QED
      BY <3>1, <3>2
  <2> QED
    BY <1>4, <1>7, <1>8, <2>1, <2>2, <2>3 DEF Coded
<1>11. Encoding'
  <2>1. Alike(g', TrainedGlobals(wire'[n + 1].coder, wire'[n + 1].sym))
    BY <1>4, <1>5, <1>9
  <2>2. cec.kind = "aux" => SameChannels(g'.combo, cec.combo)
    <3>1. SUFFICES ASSUME cec.kind = "aux" PROVE SameChannels(g'.combo, cec.combo)
      OBVIOUS
    <3>2. g'.combo = ObserveAll(g.combo, b)
      BY <1>1, <1>3, <3>1 DEF TrainedGlobals, Globals
    <3> QED
      BY <1>3, <3>1, <3>2, ObservedSame DEF Encoding
  <2> QED
    BY <1>2, <1>4, <1>7, <1>8, <2>1, <2>2 DEF Encoding
<1> QED
  BY <1>1, <1>2, <1>3, <1>6, <1>10, <1>11 DEF Inv, InUse

\* The decoder begins in a state like that of the first byte.
LEMMA DecodeBeginInv == ASSUME Inv, DecodeBegin PROVE Inv'
<1>1. Globals(g') /\ Start(g)' /\ Coded /\ InUse /\ done = 0 /\ side = "encode"
  BY PreparedAgain DEF DecodeBegin, Inv
<1>2. UNCHANGED <<corpus, prior, cec, wire, done>> /\ side' = "decode"
  BY DEF DecodeBegin
<1>3. Records' = Records /\ PriorKind' = PriorKind
  BY <1>2 DEF Records, PriorKind
<1>4. /\ \A s : Start(s)' = Start(s)
      /\ \A s, t : Alike(s, t)' = Alike(s, t)
      /\ \A s, x : TrainedGlobals(s, x)' = TrainedGlobals(s, x)
  BY <1>2, <1>3 DEF Start, Alike, TrainedGlobals, TrainedRecords
<1>5. Len(wire) \in Nat
  BY <1>1, AppendAny DEF Coded
<1>6. Coded'
  BY <1>1, <1>2, <1>4 DEF Coded
<1>7. Decoding'
  <2>1. ASSUME 0 < Len(wire) PROVE Alike(g', wire[1].coder)
    <3>1. Start(g') /\ Start(wire[1].coder)
      BY <1>1, <1>4, <2>1 DEF Coded
    <3> QED
      BY <3>1, StartAlike
  <2> QED
    BY <1>1, <1>2, <1>5, <2>1 DEF Decoding, Alike
<1> QED
  BY <1>1, <1>2, <1>3, <1>6, <1>7 DEF Inv, InUse, Globals

\* After each byte decoded it is like that of the next.
LEMMA DecodeByteInv == ASSUME Inv, DecodeByte PROVE Inv'
<1> DEFINE e == wire[done + 1]
<1>1. /\ side = "decode" /\ done < Len(wire) /\ g' = TrainedGlobals(g, e.sym)
      /\ done' = done + 1
  BY TrainIsTrained DEF DecodeByte
<1>2. UNCHANGED <<corpus, prior, cec, wire, side>>
  BY DEF DecodeByte
<1>3. /\ Globals(g) /\ Coded /\ Decoding /\ InUse /\ done \in Nat /\ Len(wire) \in Nat
  BY <1>1, AppendAny DEF Inv, Coded
<1>4. Records' = Records /\ PriorKind' = PriorKind
  BY <1>2 DEF Records, PriorKind
<1>5. /\ \A s : Start(s)' = Start(s)
      /\ \A s, t : Alike(s, t)' = Alike(s, t)
      /\ \A s, x : TrainedGlobals(s, x)' = TrainedGlobals(s, x)
  BY <1>2, <1>4 DEF Start, Alike, TrainedGlobals, TrainedRecords
<1>6. Globals(e.coder) /\ Alike(g, e.coder)
  BY <1>1, <1>3 DEF Coded, Decoding
<1>7. Alike(g', TrainedGlobals(e.coder, e.sym))
  BY <1>1, <1>3, <1>6, TrainedAlike
<1>8. ASSUME done + 1 < Len(wire) PROVE Alike(g', wire[done + 2].coder)
  <2>1. Alike(wire[done + 2].coder, TrainedGlobals(e.coder, e.sym))
    <3>1. done + 1 \in 1 .. Len(wire) - 1 /\ (done + 1) + 1 = done + 2
      BY <1>3, <1>8
    <3> QED
      BY <1>3, <3>1 DEF Coded
  <2> QED
    BY <1>7, <2>1 DEF Alike
<1>9. Globals(g')
  BY <1>1, <1>3, TrainedShape
<1>10. Coded'
  BY <1>2, <1>3, <1>5 DEF Coded
<1>11. Decoding'
  <2>1. done' = done + 1 /\ done' <= Len(wire) /\ done' + 1 = done + 2
    BY <1>1, <1>3
  <2> QED
    BY <1>2, <1>5, <1>8, <2>1 DEF Decoding
<1> QED
  BY <1>1, <1>2, <1>3, <1>4, <1>9, <1>10, <1>11 DEF Inv, InUse, Globals

\* A finished message leaves nothing to follow.
LEMMA DecodeEndInv == ASSUME Inv, DecodeEnd PROVE Inv'
  BY DEF Inv, DecodeEnd, Globals

\* A step that changes nothing keeps the invariant.
LEMMA StutterInv == ASSUME Inv, UNCHANGED vars PROVE Inv'
<1>1. Records' = Records /\ PriorKind' = PriorKind
  BY DEF vars, Records, PriorKind
<1>2. Globals(g)' = Globals(g) /\ InUse' = InUse
  BY <1>1 DEF vars, Globals, InUse
<1>3. /\ \A s : Start(s)' = Start(s)
      /\ \A s, t : Alike(s, t)' = Alike(s, t)
      /\ \A s, x : TrainedGlobals(s, x)' = TrainedGlobals(s, x)
  BY <1>1 DEF vars, Start, Alike, TrainedGlobals, TrainedRecords
<1>4. Coded' = Coded /\ Encoding' = Encoding /\ Decoding' = Decoding
  BY <1>3 DEF vars, Coded, Encoding, Decoding
<1> QED
  BY <1>2, <1>4 DEF vars, Inv

\* The invariant holds in every state.
THEOREM InvAlways == Spec => []Inv
<1>1. Inv /\ [Next]_vars => Inv'
  BY OpenPriorInv, EncodeBeginInv, EncodeByteInv, DecodeBeginInv, DecodeByteInv,
     DecodeEndInv, StutterInv DEF Next
<1> QED
  BY InitInv, <1>1, PTL DEF Spec

\* Encoder and decoder of the attached codec have equal distributions before
\* every byte, for every corpus, prior, combination of channels and length.
THEOREM InStepSafe == Spec => []InStep
<1>1. Inv => InStep
  BY AlikeDist DEF Inv, Decoding, InStep
<1> QED
  BY InvAlways, <1>1, PTL
-----------------------------------------------------------------------------
(***************************************************************************)
(* Totals, and what the rounds of the normalisations do to them.           *)
(***************************************************************************)
\* A table is the function it is made of.
LEMMA TableIs == ASSUME NEW S, NEW V, NEW f \in [S -> V] PROVE Table(f) = f
  BY SMT DEF Table

\* There are NVal bytes.
LEMMA ByteFinite == IsFiniteSet(Byte) /\ Cardinality(Byte) = NVal
<1>1. NVal \in Nat \ {0}
  BY BtDistAssumption
<1> QED
  BY <1>1, FS_Interval DEF Byte

\* The sum over all bytes, as one of NatInduction's sums.
LEMMA TotalIs == ASSUME NEW f, DOMAIN f = Byte PROVE Total(f) = Sums(f)[Byte]
  BY Zenon DEF Total, MapThenSumSet, MapThenFoldSet, Sums

\* It is an integer, and changes with the function where the function changes.
LEMMA TotalChange ==
    ASSUME NEW f \in [Byte -> Int], NEW h \in [Byte -> Int],
           NEW y \in Byte, \A x \in Byte \ {y} : f[x] = h[x]
    PROVE  /\ Total(f) \in Int /\ Total(h) \in Int
           /\ Total(h) = Total(f) - f[y] + h[y]
<1>1. Summable(f, Byte) /\ Summable(h, Byte)
  BY ByteFinite DEF Summable
<1>2. Total(f) = Sums(f)[Byte] /\ Total(h) = Sums(h)[Byte]
  BY TotalIs
<1>3. Sums(f)[Byte] \in Int /\ Sums(h)[Byte] \in Int
  BY <1>1, SumsType
<1>4. Sums(h)[Byte] = Sums(f)[Byte] - f[y] + h[y]
  BY <1>1, SumsChange
<1> QED
  BY <1>2, <1>3, <1>4

\* The total of a constant is the constant so many times.
LEMMA TotalConstant ==
    ASSUME NEW f \in [Byte -> Int], NEW k \in Int, \A b \in Byte : f[b] = k
    PROVE  Total(f) = k * NVal
<1>1. Summable(f, Byte)
  BY ByteFinite DEF Summable
<1>2. Sums(f)[Byte] = k * Cardinality(Byte)
  BY <1>1, SumsConstant
<1> QED
  BY <1>2, ByteFinite, TotalIs

\* Larger widths have a larger total.
LEMMA TotalMonotone ==
    ASSUME NEW f \in [Byte -> Int], NEW h \in [Byte -> Int], \A b \in Byte : f[b] <= h[b]
    PROVE  Total(f) <= Total(h)
<1>1. Summable(f, Byte) /\ Summable(h, Byte)
  BY ByteFinite DEF Summable
<1>2. Sums(f)[Byte] <= Sums(h)[Byte]
  BY <1>1, SumsMonotone
<1> QED
  BY <1>2, TotalIs

\* The total of naturals is a natural.
LEMMA TotalType ==
    ASSUME NEW f \in [Byte -> Nat] PROVE Total(f) \in Nat
<1> DEFINE z == [b \in Byte |-> 0]
<1>1. z \in [Byte -> Int] /\ f \in [Byte -> Int] /\ \A b \in Byte : z[b] = 0 /\ z[b] <= f[b]
  OBVIOUS
<1> HIDE DEF z
<1>2. Total(z) = 0 * NVal /\ Total(z) <= Total(f)
  BY <1>1, TotalConstant, TotalMonotone
<1>3. Total(f) \in Int
  <2>1. 0 \in Byte
    BY BtDistAssumption DEF Byte
  <2> QED
    BY <1>1, <2>1, TotalChange
<1> QED
  BY <1>2, <1>3, BtDistAssumption

\* Where a total is more than NVal, some byte has more than 1.
LEMMA TotalOfOnes ==
    ASSUME NEW f \in [Byte -> Int], \A b \in Byte : f[b] <= 1
    PROVE  Total(f) <= NVal
<1> DEFINE one == [b \in Byte |-> 1]
<1>1. one \in [Byte -> Int] /\ \A b \in Byte : one[b] = 1 /\ f[b] <= one[b]
  OBVIOUS
<1> HIDE DEF one
<1>2. Total(one) = 1 * NVal /\ Total(f) <= Total(one)
  BY <1>1, TotalConstant, TotalMonotone
<1> QED
  BY <1>2, BtDistAssumption

\* There is a first of the largest, and nothing is larger.
LEMMA LargestIs ==
    ASSUME NEW w \in [Byte -> Int]
    PROVE  Largest(w) \in Byte /\ \A c \in Byte : w[c] <= w[Largest(w)]
<1> DEFINE First(b, n) == /\ \A c \in 0 .. n : w[c] <= w[b]
                          /\ \A c \in 0 .. b - 1 : w[c] < w[b]
           T == {n \in Nat : n < NVal => \E b \in 0 .. n : First(b, n)}
<1>1. 0 \in T
  <2>1. 0 < NVal => w[0] \in Int
    BY BtDistAssumption DEF Byte
  <2>2. 0 < NVal => First(0, 0)
    BY <2>1
  <2> QED
    BY <2>2
<1>2. ASSUME NEW n \in T PROVE n + 1 \in T
  <2>1. SUFFICES ASSUME n + 1 < NVal PROVE \E b \in 0 .. n + 1 : First(b, n + 1)
    OBVIOUS
  <2>2. n \in Nat /\ n < NVal /\ n + 1 \in Byte /\ \A c \in 0 .. n + 1 : w[c] \in Int
    BY <2>1, BtDistAssumption DEF Byte
  <2>3. PICK b \in 0 .. n : First(b, n)
    BY <2>2
  <2>4. CASE w[n + 1] <= w[b]
    <3>1. First(b, n + 1)
      BY <2>2, <2>3, <2>4
    <3> QED
      BY <2>2, <3>1
  <2>5. CASE w[b] < w[n + 1]
    <3>1. First(n + 1, n + 1)
      BY <2>2, <2>3, <2>5
    <3> QED
      BY <2>2, <3>1
  <2> QED
    BY <2>2, <2>3, <2>4, <2>5
<1> HIDE DEF T
<1>3. \A n \in Nat : n \in T
  BY <1>1, <1>2, Induction DEF T
<1>4. NVal - 1 \in Nat /\ NVal - 1 < NVal /\ Byte = 0 .. NVal - 1
  BY BtDistAssumption DEF Byte
<1>5. \E b \in Byte : First(b, NVal - 1)
  BY <1>3, <1>4 DEF T
<1> QED
  BY <1>4, <1>5 DEF Largest

\* The largest index of a set of indices, for the folds from the left.
LastOf(n) == [s \in SUBSET (1 .. n) |-> Max(s)]

\* The largest index of a set of indices is one of them, and the prefixes of
\* 1 .. n are what the folds go through.
LEMMA LastIs ==
    ASSUME NEW n \in Nat
    PROVE  /\ IsFiniteSet(1 .. n)
           /\ \A s \in SUBSET (1 .. n) : s # {} => LastOf(n)[s] \in s /\ Max(s) \in s
           /\ \A k \in 1 .. n : /\ Max(1 .. k) = k /\ (1 .. k) \ {k} = 1 .. k - 1
                                /\ 1 .. k \in SUBSET (1 .. n) /\ 1 .. k # {}
<1>1. ASSUME NEW s \in SUBSET (1 .. n), s # {} PROVE Max(s) \in s
  <2> DEFINE T == {n - x : x \in s}
  <2>0. PICK z \in s : TRUE
    BY <1>1
  <2>1. T \in SUBSET Nat /\ T # {}
    <3>1. \A x \in s : x \in Int /\ x <= n
      OBVIOUS
    <3>2. n - z \in T
      BY <2>0
    <3> QED
      BY <3>1, <3>2
  <2>2. PICK d \in T : \A m \in T : d <= m
    BY <2>1, LeastMember
  <2>3. PICK x \in s : d = n - x
    BY <2>2
  <2>4. ASSUME NEW y \in s PROVE x >= y
    <3>1. n - y \in T /\ x \in Int /\ y \in Int
      OBVIOUS
    <3>2. n - x <= n - y
      BY <2>2, <2>3, <3>1
    <3> QED
      BY <3>1, <3>2
  <2> QED
    BY <2>4 DEF Max
<1>2. ASSUME NEW k \in 1 .. n
      PROVE  /\ Max(1 .. k) = k /\ (1 .. k) \ {k} = 1 .. k - 1
             /\ 1 .. k \in SUBSET (1 .. n) /\ 1 .. k # {}
  <2>1. 1 .. k \in SUBSET (1 .. n) /\ k \in 1 .. k
    OBVIOUS
  <2>2. k \in 1 .. k /\ \A y \in 1 .. k : k >= y
    OBVIOUS
  <2>3. \A x \in 1 .. k : (\A y \in 1 .. k : x >= y) => x = k
    BY <2>2
  <2>4. Max(1 .. k) = k
    BY <2>2, <2>3 DEF Max
  <2> QED
    BY <2>1, <2>4
<1>3. \A s \in SUBSET (1 .. n) : LastOf(n)[s] = Max(s)
  BY DEF LastOf
<1>4. IsFiniteSet(1 .. n)
  BY FS_Interval
<1> QED
  BY <1>1, <1>2, <1>3, <1>4

LeftRun(n, V, x, G, run) ==
    /\ run \in [SUBSET (1 .. n) -> V]
    /\ \A s \in SUBSET (1 .. n) :
          /\ s = {} => run[s] = x
          /\ s # {} => /\ Max(s) \in 1 .. n /\ run[s \ {Max(s)}] \in V
                       /\ run[s] = G[<<Max(s), run[s \ {Max(s)}]>>]

\* So a fold from the left is defined, and goes from the first to the last.
LEMMA LeftDefined ==
    ASSUME NEW n \in Nat, NEW V, NEW x \in V, NEW G \in [(1 .. n) \X V -> V]
    PROVE  \E run : LeftRun(n, V, x, G, run)
<1> DEFINE D == 1 .. n
           c == LastOf(n)
<1>1. /\ IsFiniteSet(D)
      /\ \A s \in SUBSET D : s # {} => c[s] \in s /\ Max(s) \in s
  BY LastIs
<1>2. \A s \in SUBSET D : c[s] = Max(s)
  BY DEF LastOf
<1> HIDE DEF c
<1>3. PICK run : run \in [SUBSET D -> V] /\ Folds(D, x, c, G, run)
  BY <1>1, FoldDefined
<1>4. ASSUME NEW s \in SUBSET D
      PROVE  run[s] = IF s = {} THEN x ELSE G[<<c[s], run[s \ {c[s]}]>>]
  BY <1>3 DEF Folds
<1>5. ASSUME NEW s \in SUBSET D
      PROVE  /\ s = {} => run[s] = x
             /\ s # {} => /\ Max(s) \in D /\ run[s \ {Max(s)}] \in V
                          /\ run[s] = G[<<Max(s), run[s \ {Max(s)}]>>]
  <2>1. s # {} => Max(s) \in D /\ s \ {Max(s)} \in SUBSET D /\ c[s] = Max(s)
    BY <1>1, <1>2
  <2>2. s # {} => run[s \ {Max(s)}] \in V
    BY <1>3, <2>1
  <2> QED
    BY <1>4, <2>1, <2>2
<1>6. LeftRun(n, V, x, G, run)
  BY <1>3, <1>5 DEF LeftRun
<1> QED
  BY <1>6

\* lm_quantize takes one from the largest, as often as the total is too large.
DecOne(v) == IF v[Largest(v)] > 1 THEN Table([v EXCEPT ![Largest(v)] = @ - 1]) ELSE v

Widths == [Byte -> Nat \ {0}]

\* It keeps the widths usable, and the total falls while one is above 1.
LEMMA DecOneIs ==
    ASSUME NEW v \in Widths
    PROVE  /\ DecOne(v) \in Widths
           /\ Total(v) > NVal => Total(DecOne(v)) = Total(v) - 1
<1>1. v \in [Byte -> Int] /\ \A b \in Byte : v[b] >= 1
  BY DEF Widths
<1> DEFINE y == Largest(v)
<1>2. y \in Byte /\ \A b \in Byte : v[b] <= v[y]
  BY <1>1, LargestIs
<1>3. DecOne(v) = IF v[y] > 1 THEN Table([v EXCEPT ![y] = v[y] - 1]) ELSE v
  BY DEF DecOne
<1> HIDE DEF y
<1>4. CASE v[y] > 1
  <2> DEFINE h == [v EXCEPT ![y] = v[y] - 1]
  <2>1. v[y] - 1 \in Int
    BY <1>1, <1>2
  <2>2. h \in [Byte -> Int] /\ h[y] = v[y] - 1 /\ \A x \in Byte \ {y} : v[x] = h[x]
    BY <1>1, <1>2, <2>1
  <2> HIDE DEF h
  <2>8. Total(v) \in Int /\ Total(h) = Total(v) - v[y] + h[y]
    BY <1>1, <1>2, <2>2, TotalChange
  <2>3. \A b \in Byte : h[b] >= 1
    BY <1>1, <1>2, <1>4 DEF h
  <2>4. DecOne(v) = Table(h)
    BY <1>3, <1>4 DEF h
  <2>5. h \in Widths
    BY <2>2, <2>3 DEF Widths
  <2>6. Table(h) = h
    BY <2>2, TableIs
  <2>7. Total(h) = Total(v) - 1
    BY <1>1, <1>2, <2>2, <2>8
  <2> QED
    BY <2>4, <2>5, <2>6, <2>7
<1>5. CASE ~(v[y] > 1)
  <2>1. \A b \in Byte : v[b] <= 1
    BY <1>1, <1>2, <1>5
  <2>2. Total(v) <= NVal
    BY <1>1, <2>1, TotalOfOnes
  <2>3. 0 \in Byte
    BY BtDistAssumption DEF Byte
  <2>4. Total(v) \in Int
    BY <1>1, <2>3, TotalChange
  <2> QED
    BY <1>3, <1>5, <2>2, <2>4, BtDistAssumption
<1> QED
  BY <1>4, <1>5

\* So n rounds take n, as long as NVal is left.
LEMMA DecFold ==
    ASSUME NEW w \in Widths, NEW n \in Nat
    PROVE  LET Dec(v, i) == IF v[Largest(v)] > 1
                            THEN Table([v EXCEPT ![Largest(v)] = @ - 1]) ELSE v
               r == FoldLeft(Dec, w, [i \in 1 .. n |-> i])
           IN  r \in Widths /\ (Total(w) - n >= NVal => Total(r) = Total(w) - n)
<1> DEFINE Dec(v, i) == IF v[Largest(v)] > 1
                        THEN Table([v EXCEPT ![Largest(v)] = @ - 1]) ELSE v
           r == FoldLeft(Dec, w, [i \in 1 .. n |-> i])
           D == 1 .. n
           G == [p \in D \X Widths |-> DecOne(p[2])]
           P(e) == e = [s \in SUBSET D |-> IF s = {} THEN w
                                           ELSE DecOne(e[s \ {Max(s)}])]
<1>1. G \in [D \X Widths -> Widths]
  BY DecOneIs
<1>2. \A i \in D, v \in Widths : G[<<i, v>>] = DecOne(v)
  OBVIOUS
<1> HIDE DEF G
<1>3. PICK run : LeftRun(n, Widths, w, G, run)
  BY <1>1, LeftDefined
<1>4. P(run)
  <2>1. \A s \in SUBSET D : run[s] = IF s = {} THEN w ELSE DecOne(run[s \ {Max(s)}])
    BY <1>2, <1>3 DEF LeftRun
  <2> QED
    BY <1>3, <2>1 DEF LeftRun
<1> DEFINE h == CHOOSE e : P(e)
<1>5. P(h)
  BY <1>4
<1>6. r = h[D]
  BY Zenon DEF FoldLeft, MapThenFoldSet, DecOne
<1> HIDE DEF h, r
<1> DEFINE T == {k \in Nat : k <= n => /\ h[1 .. k] \in Widths
                                       /\ Total(w) - k >= NVal =>
                                             Total(h[1 .. k]) = Total(w) - k}
<1>7. \A u \in Widths : Total(u) \in Nat
  <2>1. \A u \in Widths : u \in [Byte -> Nat]
    BY DEF Widths
  <2> QED
    BY <2>1, TotalType
<1>8. 0 \in T
  <2>1. h[1 .. 0] = w
    BY <1>5
  <2> QED
    BY <1>7, <2>1
<1>9. ASSUME NEW k \in T PROVE k + 1 \in T
  <2>1. SUFFICES ASSUME k + 1 <= n
                 PROVE  /\ h[1 .. k + 1] \in Widths
                        /\ Total(w) - (k + 1) >= NVal =>
                              Total(h[1 .. k + 1]) = Total(w) - (k + 1)
    OBVIOUS
  <2>2. k + 1 \in D /\ k \in Nat
    BY <2>1
  <2>3. /\ 1 .. k + 1 \in SUBSET D /\ 1 .. k + 1 # {}
        /\ (1 .. k + 1) \ {Max(1 .. k + 1)} = 1 .. k
    <3>1. (k + 1) - 1 = k
      BY <2>2
    <3> QED
      BY <2>2, <3>1, LastIs
  <2>4. h[1 .. k + 1] = DecOne(h[1 .. k])
    BY <1>5, <2>3
  <2>5. /\ h[1 .. k] \in Widths
        /\ Total(w) - k >= NVal => Total(h[1 .. k]) = Total(w) - k
    BY <2>1, <2>2
  <2> DEFINE v == h[1 .. k]
  <2>6. DecOne(v) \in Widths /\ (Total(v) > NVal => Total(DecOne(v)) = Total(v) - 1)
    BY <2>5, DecOneIs
  <2> HIDE DEF v
  <2>7. Total(w) \in Nat /\ Total(v) \in Nat
    BY <1>7, <2>5 DEF v
  <2> QED
    BY <2>2, <2>4, <2>5, <2>6, <2>7, BtDistAssumption DEF v
<1> HIDE DEF T
<1>10. \A k \in Nat : k \in T
  BY <1>8, <1>9, Induction DEF T
<1>11. n \in T
  BY <1>10
<1>12. h[1 .. n] \in Widths /\ (Total(w) - n >= NVal => Total(h[1 .. n]) = Total(w) - n)
  BY <1>11 DEF T
<1> QED
  BY <1>6, <1>12 DEF r

\* 0 is a byte, and the scale is large enough for every byte.
LEMMA Sizes ==
    /\ NVal \in Nat \ {0} /\ 0 \in Byte
    /\ Scale \in Nat \ {0} /\ NVal <= Scale /\ 20 * NVal <= Scale
<1>1. NVal \in Nat \ {0}
  BY BtDistAssumption
<1> QED
  BY <1>1, ScaleAssumption DEF Byte

\* Widths are naturals, so is their total.
LEMMA WidthsAre ==
    ASSUME NEW w \in Widths
    PROVE  /\ w \in [Byte -> Nat] /\ w \in [Byte -> Int] /\ Total(w) \in Nat
           /\ \A b \in Byte : w[b] \in Nat /\ w[b] >= 1
<1>1. w \in [Byte -> Nat] /\ w \in [Byte -> Int] /\ \A b \in Byte : w[b] \in Nat /\ w[b] >= 1
  BY DEF Widths
<1> QED
  BY <1>1, TotalType

\* Giving what is missing to one byte makes the total the scale.
LEMMA MissingGiven ==
    ASSUME NEW w \in Widths, NEW y \in Byte, Total(w) <= Scale
    PROVE  LET h == [w EXCEPT ![y] = @ + Scale - Total(w)]
           IN  h \in Widths /\ Total(h) = Scale
<1> DEFINE h == [w EXCEPT ![y] = @ + Scale - Total(w)]
<1>1. /\ w \in [Byte -> Int] /\ Total(w) \in Nat /\ Scale \in Nat
      /\ \A b \in Byte : w[b] \in Nat /\ w[b] >= 1
  BY WidthsAre, Sizes
<1>2. w[y] + Scale - Total(w) \in Nat /\ w[y] + Scale - Total(w) >= 1
  BY <1>1
<1>3. /\ h[y] = w[y] + Scale - Total(w) /\ \A x \in Byte \ {y} : w[x] = h[x]
      /\ h = [x \in Byte |-> h[x]]
  BY <1>1
<1> HIDE DEF h
<1>4. h \in Widths
  <2>1. \A x \in Byte : h[x] \in Nat /\ h[x] # 0
    BY <1>1, <1>2, <1>3
  <2> QED
    BY <1>3, <2>1 DEF Widths
<1>5. Total(h) = Total(w) - w[y] + h[y]
  BY <1>1, <1>3, <1>4, WidthsAre, TotalChange
<1> QED
  BY <1>1, <1>3, <1>4, <1>5 DEF h

\* Rounding leaves no byte empty.
LEMMA RoundedIs ==
    ASSUME NEW weights \in [Byte -> Nat] PROVE Rounded(weights, Scale) \in Widths
<1> DEFINE sum == Total(weights)
           x(b) == IF sum > 0 THEN (2 * weights[b] * Scale + sum) \div (2 * sum)
                   ELSE (2 * Scale + NVal) \div (2 * NVal)
           f == [b \in Byte |-> AtMost(AtLeast(x(b), 1), Scale)]
<1>1. sum \in Nat
  BY TotalType
<1>2. ASSUME NEW b \in Byte PROVE x(b) \in Int
  <2>1. CASE sum > 0
    <3>1. (2 * weights[b] * Scale + sum) \in Nat /\ 2 * sum \in Nat \ {0}
      BY <1>1, <2>1, Sizes
    <3> QED
      BY <2>1, <3>1
  <2>2. CASE ~(sum > 0)
    <3>1. (2 * Scale + NVal) \in Nat /\ 2 * NVal \in Nat \ {0}
      BY Sizes
    <3> QED
      BY <2>2, <3>1
  <2> QED
    BY <2>1, <2>2
<1>3. Rounded(weights, Scale) = Table(f)
  BY DEF Rounded
<1> HIDE DEF x
<1>4. f \in Widths
  BY <1>2, Sizes DEF AtMost, AtLeast, Widths
<1> HIDE DEF f
<1>5. Table(f) = f
  BY <1>4, TableIs DEF Widths
<1> QED
  BY <1>3, <1>4, <1>5

\* lm_quantize keeps its promise: no byte is empty, and the total is the scale.
LEMMA QuantizeSound ==
    ASSUME NEW weights \in [Byte -> Nat]
    PROVE  /\ lm_quantize(weights, Scale) \in Widths
           /\ Total(lm_quantize(weights, Scale)) = Scale
<1> DEFINE w == Rounded(weights, Scale)
           acc == Total(w)
<1>1. w \in Widths
  BY RoundedIs
<1>2. acc \in Nat
  BY <1>1, WidthsAre
<1>3. CASE acc <= Scale
  <2> DEFINE y == Largest(weights)
             h == [w EXCEPT ![y] = @ + Scale - acc]
  <2>1. y \in Byte
    <3>1. weights \in [Byte -> Int]
      OBVIOUS
    <3> QED
      BY <3>1, LargestIs
  <2>2. lm_quantize(weights, Scale) = h
    BY <1>3, Zenon DEF lm_quantize
  <2> HIDE DEF w, y
  <2>3. h \in Widths /\ Total(h) = Scale
    BY <1>1, <1>3, <2>1, MissingGiven
  <2> QED
    BY <2>2, <2>3
<1>4. CASE ~(acc <= Scale)
  <2> DEFINE n == acc - Scale
             Dec(v, i) == IF v[Largest(v)] > 1
                          THEN Table([v EXCEPT ![Largest(v)] = @ - 1]) ELSE v
             r == FoldLeft(Dec, w, [i \in 1 .. n |-> i])
  <2>1. n \in Nat /\ acc - n = Scale
    BY <1>2, <1>4, Sizes
  <2>2. lm_quantize(weights, Scale) = r
    BY <1>4, Zenon DEF lm_quantize
  <2>3. r \in Widths /\ (acc - n >= NVal => Total(r) = acc - n)
    <3> HIDE DEF n, w
    <3> QED
      BY <1>1, <2>1, DecFold, Zenon
  <2> HIDE DEF r, n, acc
  <2>4. acc - n >= NVal
    BY <2>1, Sizes
  <2> QED
    BY <2>1, <2>2, <2>3, <2>4
<1> QED
  BY <1>3, <1>4

(***************************************************************************)
(* symdist_normalize: a round of taking ends the excess or leaves one byte *)
(* less with more than 1.                                                  *)
(***************************************************************************)
TakeOnce(s) == LET big  == Largest(s.w)
                   take == AtMost(s.w[big] - 1, s.excess)
               IN  [w |-> Table([s.w EXCEPT ![big] = @ - take]), excess |-> s.excess - take]

Takes == [w : Widths, excess : Nat]

Wide(w) == {b \in Byte : w[b] > 1}

\* At most NVal bytes can give something.
LEMMA WideFinite ==
    ASSUME NEW w PROVE IsFiniteSet(Wide(w)) /\ Cardinality(Wide(w)) \in Nat
                       /\ Cardinality(Wide(w)) <= NVal
<1>1. Wide(w) \in SUBSET Byte
  BY DEF Wide
<1> QED
  BY <1>1, ByteFinite, FS_Subset, FS_CardinalityType

\* What a round takes from the total it takes from the excess too.
LEMMA TakeOnceIs ==
    ASSUME NEW s \in Takes
    PROVE  /\ TakeOnce(s) \in Takes
           /\ Total(TakeOnce(s).w) - TakeOnce(s).excess = Total(s.w) - s.excess
           /\ \/ TakeOnce(s).excess = 0
              \/ Wide(s.w) = {} /\ Wide(TakeOnce(s).w) = {}
              \/ Cardinality(Wide(TakeOnce(s).w)) = Cardinality(Wide(s.w)) - 1
<1> DEFINE w == s.w
           x == s.excess
           big == Largest(w)
           take == AtMost(w[big] - 1, x)
           h == [w EXCEPT ![big] = @ - take]
<1>1. w \in Widths /\ x \in Nat /\ w \in [Byte -> Int] /\ \A b \in Byte : w[b] \in Nat /\ w[b] >= 1
  BY WidthsAre DEF Takes
<1>2. big \in Byte /\ \A b \in Byte : w[b] <= w[big]
  BY <1>1, LargestIs
<1>3. TakeOnce(s) = [w |-> Table(h), excess |-> x - take]
  BY Zenon DEF TakeOnce
<1> HIDE DEF w, x, big
<1>4. take \in Nat /\ take <= w[big] - 1 /\ take <= x /\ (take = x \/ take = w[big] - 1)
  BY <1>1, <1>2 DEF AtMost
<1> HIDE DEF take
<1>5. /\ h[big] = w[big] - take /\ \A b \in Byte \ {big} : w[b] = h[b]
      /\ h = [b \in Byte |-> h[b]]
  BY <1>1, <1>2, <1>4
<1> HIDE DEF h
<1>6. h \in Widths
  <2>1. \A b \in Byte : h[b] \in Nat /\ h[b] # 0
    BY <1>1, <1>2, <1>4, <1>5
  <2> QED
    BY <1>5, <2>1 DEF Widths
<1>7. Table(h) = h
  BY <1>6, TableIs DEF Widths
<1>8. TakeOnce(s).w = h /\ TakeOnce(s).excess = x - take /\ TakeOnce(s) \in Takes
  <2>1. x - take \in Nat
    BY <1>1, <1>4
  <2> QED
    BY <1>3, <1>6, <1>7, <2>1 DEF Takes
<1>9. Total(h) = Total(w) - take
  <2>1. Total(h) = Total(w) - w[big] + h[big] /\ Total(w) \in Int
    BY <1>1, <1>2, <1>5, <1>6, WidthsAre, TotalChange
  <2> QED
    BY <1>1, <1>2, <1>4, <1>5, <2>1
<1>10. Total(h) - (x - take) = Total(w) - x
  BY <1>1, <1>4, <1>9, WidthsAre
<1>11. \/ x - take = 0
       \/ Wide(w) = {} /\ Wide(h) = {}
       \/ Cardinality(Wide(h)) = Cardinality(Wide(w)) - 1
  <2>1. CASE take = x
    BY <1>1, <2>1
  <2>2. CASE take = w[big] - 1 /\ w[big] > 1
    <3>1. h[big] = 1
      BY <1>1, <1>2, <1>5, <2>2
    <3>2. Wide(h) = Wide(w) \ {big} /\ big \in Wide(w)
      BY <1>2, <1>5, <2>2, <3>1 DEF Wide
    <3> QED
      BY <3>2, WideFinite, FS_RemoveElement
  <2>3. CASE take = w[big] - 1 /\ ~(w[big] > 1)
    <3>1. Wide(w) = {}
      BY <1>1, <1>2, <2>3 DEF Wide
    <3>2. \A b \in Byte : h[b] = w[b]
      BY <1>1, <1>2, <1>5, <2>3
    <3> QED
      BY <3>1, <3>2 DEF Wide
  <2> QED
    BY <1>4, <2>1, <2>2, <2>3
<1> QED
  BY <1>8, <1>10, <1>11 DEF w, x

\* No round is left in which the excess could remain.
LEMMA TakenExcessIs ==
    ASSUME NEW w \in Widths, NEW x \in Nat, Total(w) - x = Scale
    PROVE  TakenExcess(w, x) \in Widths /\ Total(TakenExcess(w, x)) = Scale
<1> DEFINE D == 1 .. NVal
           first == [w |-> w, excess |-> x]
           Take(s, i) == LET big  == Largest(s.w)
                             take == AtMost(s.w[big] - 1, s.excess)
                         IN  [w |-> Table([s.w EXCEPT ![big] = @ - take]),
                              excess |-> s.excess - take]
           r == FoldLeft(Take, first, [i \in D |-> i])
           G == [p \in D \X Takes |-> TakeOnce(p[2])]
           P(e) == e = [s \in SUBSET D |-> IF s = {} THEN first
                                           ELSE TakeOnce(e[s \ {Max(s)}])]
<1>1. TakenExcess(w, x) = r.w
  BY Zenon DEF TakenExcess
<1>2. G \in [D \X Takes -> Takes] /\ first \in Takes /\ first.w = w /\ first.excess = x
  BY TakeOnceIs DEF Takes
<1>3. \A i \in D, s \in Takes : G[<<i, s>>] = TakeOnce(s)
  OBVIOUS
<1> HIDE DEF G
<1>4. PICK run : LeftRun(NVal, Takes, first, G, run)
  <2> HIDE DEF first
  <2> QED
    BY <1>2, Sizes, LeftDefined
<1>5. P(run)
  <2> HIDE DEF first
  <2>1. \A s \in SUBSET D : run[s] = IF s = {} THEN first ELSE TakeOnce(run[s \ {Max(s)}])
    BY <1>3, <1>4 DEF LeftRun
  <2> QED
    BY <1>4, <2>1 DEF LeftRun
<1> DEFINE h == CHOOSE e : P(e)
<1>6. P(h)
  BY <1>5
<1>7. r = h[D]
  BY Zenon DEF FoldLeft, MapThenFoldSet, TakeOnce
<1> HIDE DEF h, r, first
<1> DEFINE Left(s) == \/ s.excess = 0
                      \/ Wide(s.w) = {}
           T == {k \in Nat : k <= NVal =>
                   /\ h[1 .. k] \in Takes
                   /\ Total(h[1 .. k].w) - h[1 .. k].excess = Scale
                   /\ Left(h[1 .. k]) \/ Cardinality(Wide(h[1 .. k].w)) + k <= NVal}
<1>8. 0 \in T
  <2>1. h[1 .. 0] = first
    BY <1>6
  <2> QED
    BY <1>2, <2>1, WideFinite
<1>9. ASSUME NEW k \in T PROVE k + 1 \in T
  <2> DEFINE s == h[1 .. k]
             t == h[1 .. k + 1]
  <2>1. SUFFICES ASSUME k + 1 <= NVal
                 PROVE  /\ t \in Takes /\ Total(t.w) - t.excess = Scale
                        /\ Left(t) \/ Cardinality(Wide(t.w)) + (k + 1) <= NVal
    OBVIOUS
  <2>2. k + 1 \in D /\ k \in Nat
    BY <2>1, Sizes
  <2>3. /\ 1 .. k + 1 \in SUBSET D /\ 1 .. k + 1 # {}
        /\ (1 .. k + 1) \ {Max(1 .. k + 1)} = 1 .. k
    <3>1. (k + 1) - 1 = k
      BY <2>2
    <3> QED
      BY <2>2, <3>1, Sizes, LastIs
  <2>4. t = TakeOnce(s)
    BY <1>6, <2>3
  <2>5. /\ s \in Takes /\ Total(s.w) - s.excess = Scale
        /\ Left(s) \/ Cardinality(Wide(s.w)) + k <= NVal
    BY <2>1, <2>2, Sizes
  <2> HIDE DEF s, t
  <2>6. /\ t \in Takes
        /\ Total(t.w) - t.excess = Total(s.w) - s.excess
        /\ \/ t.excess = 0
           \/ Wide(s.w) = {} /\ Wide(t.w) = {}
           \/ Cardinality(Wide(t.w)) = Cardinality(Wide(s.w)) - 1
    BY <2>4, <2>5, TakeOnceIs
  <2>7. s.excess = 0 => t.excess = 0
    <3>1. s.excess \in Nat /\ s.w \in Widths
      BY <2>5 DEF Takes
    <3>2. s.excess = 0 => AtMost(s.w[Largest(s.w)] - 1, s.excess) = 0
      <4>1. s.w[Largest(s.w)] \in Nat /\ s.w[Largest(s.w)] >= 1
        BY <3>1, WidthsAre, LargestIs
      <4> QED
        BY <4>1 DEF AtMost
    <3> QED
      BY <2>4, <3>2 DEF TakeOnce
  <2>8. /\ Cardinality(Wide(s.w)) \in Nat /\ Cardinality(Wide(t.w)) \in Nat
        /\ Wide(s.w) = {} => Cardinality(Wide(s.w)) = 0
    BY WideFinite, FS_EmptySet
  <2> QED
    BY <2>2, <2>5, <2>6, <2>7, <2>8, Sizes
<1> HIDE DEF T, Left
<1>10. \A k \in Nat : k \in T
  BY <1>8, <1>9, Induction DEF T
<1>11. NVal \in T
  BY <1>10, Sizes
<1>12. /\ r \in Takes /\ Total(r.w) - r.excess = Scale
       /\ Left(r) \/ Cardinality(Wide(r.w)) + NVal <= NVal
  BY <1>7, <1>11, Sizes DEF T
<1>13. r.w \in Widths /\ r.excess \in Nat
  BY <1>12 DEF Takes
<1>14. r.excess = 0
  <2>1. SUFFICES ASSUME Wide(r.w) = {} PROVE r.excess = 0
    <3>1. Cardinality(Wide(r.w)) + NVal <= NVal => Wide(r.w) = {}
      BY Sizes, WideFinite, FS_EmptySet
    <3> QED
      BY <1>12, <3>1 DEF Left
  <2>2. \A b \in Byte : r.w[b] <= 1
    BY <1>13, <2>1, WidthsAre DEF Wide
  <2>3. Total(r.w) <= NVal /\ Total(r.w) \in Nat
    BY <1>13, <2>2, WidthsAre, TotalOfOnes
  <2> QED
    BY <1>12, <1>13, <2>3, Sizes
<1> QED
  BY <1>1, <1>12, <1>13, <1>14, WidthsAre

-----------------------------------------------------------------------------
(***************************************************************************)
(* The normalisations, the channels and the tables they are blended from.  *)
(***************************************************************************)
\* What every table and every channel should give.
Sound(w) == w \in Widths /\ Total(w) = Scale

\* Even widths fit in the scale.
LEMMA EvenIs == Even(Scale) \in Widths /\ Total(Even(Scale)) <= Scale
<1> DEFINE k == Scale \div NVal
<1>1. k \in Nat /\ k >= 1 /\ k * NVal <= Scale
  BY Sizes
<1> HIDE DEF k
<1>2. Even(Scale) = [b \in Byte |-> k]
  BY <1>1 DEF Even, AtLeast, k
<1> DEFINE e == Even(Scale)
<1>3. e \in [Byte -> Int] /\ e \in Widths /\ \A b \in Byte : e[b] = k
  BY <1>1, <1>2 DEF Widths
<1> HIDE DEF e
<1>4. Total(e) = k * NVal
  BY <1>1, <1>3, TotalConstant
<1> QED
  BY <1>1, <1>3, <1>4 DEF e

\* Widths in proportion leave no byte empty.
LEMMA ProportionalIs ==
    ASSUME NEW w \in [Byte -> Nat] PROVE Proportional(w, Scale) \in Widths
<1> DEFINE total == Total(w)
           f == [b \in Byte |-> AtLeast((w[b] * Scale) \div total, 1)]
<1>1. total \in Nat
  BY TotalType
<1>2. CASE total = 0
  BY <1>2, EvenIs DEF Proportional
<1>3. CASE total # 0
  <2>1. ASSUME NEW b \in Byte PROVE (w[b] * Scale) \div total \in Nat
    <3>1. w[b] * Scale \in Nat /\ total \in Nat \ {0}
      BY <1>1, <1>3, Sizes
    <3> HIDE DEF total
    <3> QED
      BY <3>1
  <2>2. f \in Widths
    <3> HIDE DEF total
    <3> QED
      BY <2>1 DEF AtLeast, Widths
  <2>3. Proportional(w, Scale) = Table(f)
    BY <1>3 DEF Proportional
  <2> HIDE DEF f
  <2>4. Table(f) = f
    BY <2>2, TableIs DEF Widths
  <2> QED
    BY <2>2, <2>3, <2>4
<1> QED
  BY <1>2, <1>3

\* symdist_normalize keeps its promise, of any widths.
LEMMA NormalizeSound ==
    ASSUME NEW w \in [Byte -> Nat] PROVE Sound(symdist_normalize(w, Scale))
<1> DEFINE nw  == Proportional(w, Scale)
           sum == Total(nw)
<1>1. nw \in Widths
  BY ProportionalIs
<1>2. nw \in [Byte -> Int] /\ sum \in Nat
  BY <1>1, WidthsAre
<1>3. CASE sum <= Scale
  <2> DEFINE y == Largest(nw)
             h == [nw EXCEPT ![y] = @ + Scale - sum]
  <2>1. symdist_normalize(w, Scale) = Table(h)
    BY <1>3, Zenon DEF symdist_normalize
  <2>2. y \in Byte
    BY <1>2, LargestIs
  <2> HIDE DEF nw, y
  <2>3. h \in Widths /\ Total(h) = Scale
    BY <1>1, <1>3, <2>2, MissingGiven
  <2> HIDE DEF h
  <2>4. Table(h) = h
    BY <2>3, TableIs DEF Widths
  <2> QED
    BY <2>1, <2>3, <2>4 DEF Sound
<1>4. CASE ~(sum <= Scale)
  <2> DEFINE x == sum - Scale
  <2>1. x \in Nat /\ Total(nw) - x = Scale
    BY <1>2, <1>4, Sizes
  <2>2. symdist_normalize(w, Scale) = TakenExcess(nw, x)
    BY <1>4, Zenon DEF symdist_normalize
  <2> HIDE DEF nw, x
  <2>3. TakenExcess(nw, x) \in Widths /\ Total(TakenExcess(nw, x)) = Scale
    BY <1>1, <2>1, TakenExcessIs
  <2> QED
    BY <2>2, <2>3 DEF Sound
<1> QED
  BY <1>3, <1>4
-----------------------------------------------------------------------------
(***************************************************************************)
(* The auxiliary channels.                                                 *)
(***************************************************************************)
ChannelOK(ch) == /\ ch.kind \in Kinds /\ ch.alpha \in 0 .. A_DEN /\ ch.corpus \in Seq(Byte)

\* A share is a natural,
LEMMA ShareIs ==
    ASSUME NEW whole \in Nat, NEW part \in Nat, NEW total \in Nat \ {0}
    PROVE  Share(whole, part, total) \in Nat
<1>1. whole * part \in Nat
  OBVIOUS
<1> HIDE DEF Share
<1>2. \A n \in Nat : n \div total \in Nat
  OBVIOUS
<1> QED
  BY <1>1, <1>2 DEF Share

\* a set of some of finitely many things has a number of members,
LEMMA CountOf ==
    ASSUME NEW S, IsFiniteSet(S), NEW T \in SUBSET S
    PROVE  Cardinality(T) \in Nat /\ (T # {} => Cardinality(T) \in Nat \ {0})
  BY FS_Subset, FS_CardinalityType, FS_EmptySet

\* and there are finitely many classes.
LEMMA ClassesFinite ==
    ASSUME NEW kind PROVE Cardinality(Classes(kind)) \in Nat \ {0}
<1>1. IsFiniteSet(Types)
  <2>1. IsFiniteSet({}) /\ \A S, x : IsFiniteSet(S) => IsFiniteSet(S \cup {x})
    BY FS_EmptySet, FS_AddElement
  <2>2. IsFiniteSet((((((({} \cup {"space"}) \cup {"newline"}) \cup {"lower"}) \cup {"upper"})
                        \cup {"digit"}) \cup {"punct"}) \cup {"other"})
    BY <2>1
  <2>3. Types = (((((({} \cup {"space"}) \cup {"newline"}) \cup {"lower"}) \cup {"upper"})
                        \cup {"digit"}) \cup {"punct"}) \cup {"other"}
    BY DEF Types
  <2> QED
    BY <2>2, <2>3
<1>2. Cases \subseteq Types \cup {"none"}
  BY DEF Cases, Types
<1>3. IsFiniteSet(Types \cup {"none"})
  BY <1>1, FS_AddElement
<1>4. Classes(kind) \in SUBSET (Types \cup {"none"}) /\ Classes(kind) # {}
  BY <1>2 DEF Classes, Types, Cases
<1> QED
  BY <1>3, <1>4, CountOf

\* Whatever a channel has learned, the widths it proposes are naturals.
LEMMA PriorWidthsAre ==
    ASSUME NEW ch, ChannelOK(ch)
    PROVE  PriorWidths(ch, Scale) \in [Byte -> Nat]
<1> DEFINE all == Positions(ch, 1)
<1>1. IsFiniteSet(all) /\ \A first \in Nat \ {0} : Positions(ch, first) \subseteq all
  BY FS_Interval DEF ChannelOK, Positions
<1> HIDE DEF all
<1>2. Scale \in Nat /\ NVal \in Nat \ {0}
  BY Sizes
<1>3. ASSUME NEW c PROVE ClassWidth(ch, c, Scale) \in Nat
  <2> DEFINE met == Following(ch, ch.memory)
             hit == {i \in met : ClassOf(ch.kind, ch.corpus[i]) = c}
  <2>1. met \in SUBSET all /\ hit \in SUBSET all
    BY <1>1 DEF Following, Order
  <2>2. ClassWidth(ch, c, Scale) = IF met # {}
                                   THEN Share(Scale, Cardinality(hit), Cardinality(met))
                                   ELSE Scale \div Cardinality(Classes(ch.kind))
    BY DEF ClassWidth
  <2> HIDE DEF met, hit
  <2>3. CASE met # {}
    <3>1. Cardinality(hit) \in Nat /\ Cardinality(met) \in Nat \ {0}
      BY <1>1, <2>1, <2>3, CountOf
    <3> QED
      BY <1>2, <2>2, <2>3, <3>1, ShareIs
  <2>4. CASE met = {}
    <3>1. Cardinality(Classes(ch.kind)) \in Nat \ {0}
      BY ClassesFinite
    <3>2. \A n \in Nat \ {0} : Scale \div n \in Nat
      BY <1>2
    <3> QED
      BY <2>2, <2>4, <3>1, <3>2
  <2> QED
    BY <2>3, <2>4
<1>4. PriorByClass(ch, Scale) \in [Byte -> Nat]
  <2>1. ASSUME NEW b \in Byte, NEW c
        PROVE  CountClass(ch, c) > 0 =>
                  Share(ClassWidth(ch, c, Scale), Count(ch, b), CountClass(ch, c)) \in Nat
    <3> DEFINE M == {i \in all : ch.corpus[i] = b}
               N == {i \in all : ClassOf(ch.kind, ch.corpus[i]) = c}
    <3>1. Count(ch, b) = Cardinality(M) /\ CountClass(ch, c) = Cardinality(N)
      BY DEF Count, CountClass, all
    <3>2. M \in SUBSET all /\ N \in SUBSET all
      OBVIOUS
    <3> HIDE DEF M, N
    <3>3. Count(ch, b) \in Nat /\ CountClass(ch, c) \in Nat
      BY <1>1, <3>1, <3>2, CountOf
    <3>4. CountClass(ch, c) > 0 => CountClass(ch, c) \in Nat \ {0}
      BY <3>3
    <3> QED
      BY <1>3, <3>3, <3>4, ShareIs
  <2> QED
    BY <2>1 DEF PriorByClass
<1>5. PriorByPhase(ch, Scale) \in [Byte -> Nat]
  <2> DEFINE met == {i \in Positions(ch, 1) : PhaseAt(ch.corpus, i) = AtMost(ch.memory, PMAX)}
             hit(b) == {i \in met : ch.corpus[i] = b}
  <2>1. met \in SUBSET all /\ \A b \in Byte : hit(b) \in SUBSET all
    BY DEF all
  <2>2. PriorByPhase(ch, Scale) =
          [b \in Byte |-> IF met # {} THEN Share(Scale, Cardinality(hit(b)), Cardinality(met))
                          ELSE Scale \div NVal]
    BY DEF PriorByPhase
  <2> HIDE DEF met, hit
  <2>3. Scale \div NVal \in Nat
    BY <1>2
  <2>4. \A b \in Byte : met # {} => Share(Scale, Cardinality(hit(b)), Cardinality(met)) \in Nat
    BY <1>1, <1>2, <2>1, CountOf, ShareIs
  <2> QED
    BY <2>2, <2>3, <2>4
<1> QED
  BY <1>4, <1>5 DEF PriorWidths

\* Blending is normalised again, so that it keeps the promise.
LEMMA AdjustSound ==
    ASSUME NEW ch, ChannelOK(ch), NEW w, Sound(w)
    PROVE  Sound(adjust(ch, w, Scale))
<1> DEFINE p == PriorWidths(ch, Scale)
           total == Total(w)
           f == [b \in Byte |-> (ch.alpha * ((w[b] * Scale) \div total)
                                  + (A_DEN - ch.alpha) * p[b]) \div A_DEN]
<1>1. p \in [Byte -> Nat]
  BY PriorWidthsAre
<1>2. Table(p) = p
  BY <1>1, TableIs
<1>3. total = Scale /\ total \in Nat \ {0} /\ \A b \in Byte : w[b] \in Nat
  BY Sizes, WidthsAre DEF Sound
<1>4. adjust(ch, w, Scale) = symdist_normalize(Table(f), Scale)
  <2>1. adjust(ch, w, Scale) = blend_into(w, Scale, ch.alpha, p)
    BY <1>2 DEF adjust
  <2>2. total # 0
    BY <1>3
  <2> HIDE DEF p
  <2> QED
    BY <2>1, <2>2 DEF blend_into
<1>5. f \in [Byte -> Nat]
  <2> HIDE DEF p, total
  <2>1. ASSUME NEW b \in Byte
        PROVE  (ch.alpha * ((w[b] * Scale) \div total)
                  + (A_DEN - ch.alpha) * p[b]) \div A_DEN \in Nat
    <3>1. w[b] * Scale \in Nat
      BY <1>3, Sizes
    <3>2. (w[b] * Scale) \div total \in Nat
      BY <1>3, <3>1
    <3>3. ch.alpha \in Nat /\ A_DEN - ch.alpha \in Nat /\ A_DEN \in Nat \ {0} /\ p[b] \in Nat
      BY <1>1, TablesAssumption DEF ChannelOK
    <3> DEFINE q == (w[b] * Scale) \div total
               r == A_DEN - ch.alpha
    <3>4. ch.alpha * q \in Nat /\ r * p[b] \in Nat
      <4> HIDE DEF q, r
      <4> QED
        BY <3>2, <3>3 DEF q, r
    <3> DEFINE m == ch.alpha * q + r * p[b]
    <3>5. m \in Nat
      <4> HIDE DEF q, r
      <4> QED
        BY <3>4
    <3> HIDE DEF m
    <3>6. m \div A_DEN \in Nat
      BY <3>3, <3>5
    <3> QED
      BY <3>6 DEF m
  <2> QED
    BY <2>1
<1> HIDE DEF f
<1>6. Table(f) = f
  BY <1>5, TableIs
<1> QED
  BY <1>4, <1>5, <1>6, NormalizeSound

\* What every round keeps holds at the end of a fold from the left.
LEMMA LeftStays ==
    ASSUME NEW n \in Nat, NEW V, NEW h, h[{}] \in V,
           \A s \in SUBSET (1 .. n) : s # {} /\ h[s \ {Max(s)}] \in V => h[s] \in V
    PROVE  h[1 .. n] \in V
<1> DEFINE T == {k \in Nat : k <= n => h[1 .. k] \in V}
<1>1. 0 \in T
  <2>1. 1 .. 0 = {}
    OBVIOUS
  <2> QED
    BY <2>1
<1>2. ASSUME NEW k \in T PROVE k + 1 \in T
  <2>1. SUFFICES ASSUME k + 1 <= n PROVE h[1 .. k + 1] \in V
    OBVIOUS
  <2>2. k + 1 \in 1 .. n /\ (k + 1) - 1 = k /\ h[1 .. k] \in V
    BY <2>1
  <2>3. /\ 1 .. k + 1 \in SUBSET (1 .. n) /\ 1 .. k + 1 # {}
        /\ (1 .. k + 1) \ {Max(1 .. k + 1)} = 1 .. k
    BY <2>2, LastIs
  <2> QED
    BY <2>2, <2>3
<1> HIDE DEF T
<1>3. \A k \in Nat : k \in T
  BY <1>1, <1>2, Induction DEF T
<1>4. n \in T
  BY <1>3
<1> QED
  BY <1>4 DEF T

SoundWidths == {w \in Widths : Total(w) = Scale}

\* A combo adjusts by one channel after another, and each keeps the total.
LEMMA AdjustAllSound ==
    ASSUME NEW combo, NEW n \in Nat, DOMAIN combo = 1 .. n,
           \A i \in 1 .. n : ChannelOK(combo[i]), NEW w, Sound(w)
    PROVE  Sound(AdjustAll(combo, w, Scale))
<1> DEFINE D == 1 .. n
           V == SoundWidths
           G == [p \in D \X V |-> adjust(combo[p[1]], p[2], Scale)]
           P(e) == e = [s \in SUBSET D |-> IF s = {} THEN w
                               ELSE adjust(combo[Max(s)], e[s \ {Max(s)}], Scale)]
<1>1. \A v : v \in V <=> Sound(v)
  BY DEF Sound, SoundWidths
<1> HIDE DEF V
<1>2. \A i \in D, v \in V : adjust(combo[i], v, Scale) \in V
  BY <1>1, AdjustSound
<1>3. G \in [D \X V -> V] /\ w \in V
  BY <1>1, <1>2
<1>4. \A i \in D, v \in V : G[<<i, v>>] = adjust(combo[i], v, Scale)
  OBVIOUS
<1> HIDE DEF G
<1>5. PICK run : LeftRun(n, V, w, G, run)
  BY <1>3, LeftDefined
<1>6. P(run)
  <2>1. \A s \in SUBSET D : run[s] = IF s = {} THEN w
                                   ELSE adjust(combo[Max(s)], run[s \ {Max(s)}], Scale)
    BY <1>4, <1>5 DEF LeftRun
  <2> QED
    BY <1>5, <2>1 DEF LeftRun
<1> DEFINE h == CHOOSE e : P(e)
<1>7. P(h)
  BY <1>6
<1>8. AdjustAll(combo, w, Scale) = h[D]
  BY Zenon DEF AdjustAll, FoldLeft, MapThenFoldSet
<1> HIDE DEF h
<1>9. h[D] \in V
  <2>1. h[{}] \in V
    BY <1>3, <1>7
  <2>2. ASSUME NEW s \in SUBSET D, s # {}, h[s \ {Max(s)}] \in V PROVE h[s] \in V
    <3>1. Max(s) \in D
      BY <2>2, LastIs
    <3>2. h[s] = adjust(combo[Max(s)], h[s \ {Max(s)}], Scale)
      BY <1>7, <2>2
    <3> QED
      BY <1>2, <2>2, <3>1, <3>2
  <2> QED
    BY <2>1, <2>2, LeftStays
<1> QED
  BY <1>1, <1>8, <1>9
-----------------------------------------------------------------------------
(***************************************************************************)
(* The lookup tables hold integers.                                        *)
(***************************************************************************)
\* The unit of the fixed point is positive, and 64 bits hold NVal of it.
LEMMA UnitIs == Unit \in Nat \ {0} /\ NVal * Unit <= 2 ^ 30
<1>1. FractionBits \in Nat /\ NVal * Unit <= 2 ^ 30
  BY BtDistAssumption
<1> QED
  BY <1>1, PowerOfTwo DEF Unit

\* A greater power of two has a greater exponent.
LEMMA PowersGrow ==
    ASSUME NEW m \in Nat, NEW n \in Nat, m <= n PROVE 2 ^ m <= 2 ^ n
<1> DEFINE T == {k \in Nat : 2 ^ m <= 2 ^ (m + k)}
<1>1. 0 \in T
  <2>1. m + 0 = m /\ 2 ^ m \in Nat
    BY PowerOfTwo
  <2> QED
    BY <2>1
<1>2. ASSUME NEW k \in T PROVE k + 1 \in T
  <2>1. m + k \in Nat /\ m + (k + 1) = (m + k) + 1
    OBVIOUS
  <2>2. 2 ^ m \in Nat /\ 2 ^ (m + k) \in Nat \ {0} /\ 2 ^ ((m + k) + 1) = 2 * 2 ^ (m + k)
    BY <2>1, PowerOfTwo
  <2>3. 2 ^ m <= 2 ^ (m + k)
    OBVIOUS
  <2>4. 2 ^ m <= 2 ^ (m + (k + 1))
    BY <2>1, <2>2, <2>3
  <2> QED
    BY <2>4
<1> HIDE DEF T
<1>3. \A k \in Nat : k \in T
  BY <1>1, <1>2, Induction DEF T
<1>4. n - m \in T /\ m + (n - m) = n
  BY <1>3
<1> QED
  BY <1>4 DEF T

\* The integer logarithm of what is at least 1 is not negative.
LEMMA Log2FloorIs ==
    ASSUME NEW x \in Nat, Unit <= x, x <= 2 ^ 30
    PROVE  Log2Floor(x) - FractionBits \in Nat
<1>1. x \in Nat \ {0} /\ FractionBits \in Nat
  BY UnitIs, BtDistAssumption
<1> DEFINE T == {k \in Nat : x < 2 ^ (k + 1)}
<1>2. 30 \in T
  <2>1. 30 \in Nat /\ 30 + 1 = 31
    OBVIOUS
  <2>2. 2 ^ 30 \in Nat \ {0} /\ 2 ^ (30 + 1) = 2 * 2 ^ 30
    BY <2>1, PowerOfTwo
  <2>3. x < 2 ^ (30 + 1)
    BY <2>2
  <2> QED
    BY <2>3
<1>3. PICK k \in T : \A m \in T : k <= m
  BY <1>2, LeastMember
<1>4. 2 ^ k <= x
  <2>1. CASE k = 0
    <3>1. 2 ^ 0 = 1
      OBVIOUS
    <3> QED
      BY <1>1, <2>1, <3>1
  <2>2. CASE k # 0
    <3>1. k - 1 \in Nat /\ (k - 1) + 1 = k /\ ~(k <= k - 1)
      BY <2>2
    <3>2. k - 1 \notin T
      BY <1>3, <3>1
    <3>3. 2 ^ k \in Nat
      BY PowerOfTwo
    <3> QED
      BY <3>1, <3>2, <3>3
  <2> QED
    BY <2>1, <2>2
<1>5. k \in 0 .. 30 /\ 2 ^ k <= x /\ x < 2 ^ (k + 1)
  <2>1. x < 2 ^ (k + 1) /\ k \in Nat
    OBVIOUS
  <2> HIDE DEF T
  <2>2. k <= 30
    BY <1>2, <1>3
  <2> QED
    BY <1>4, <2>1, <2>2
<1> DEFINE l == Log2Floor(x)
<1>6. l \in 0 .. 30 /\ x < 2 ^ (l + 1)
  BY <1>5 DEF Log2Floor
<1> HIDE DEF l
<1>7. FractionBits <= l
  <2>1. SUFFICES ASSUME l + 1 <= FractionBits PROVE FALSE
    BY <1>1, <1>6
  <2>2. 2 ^ (l + 1) <= Unit
    BY <1>1, <1>6, <2>1, PowersGrow DEF Unit
  <2>3. 2 ^ (l + 1) \in Nat
    BY <1>6, PowerOfTwo
  <2> QED
    BY <1>6, <2>2, <2>3, UnitIs
<1> QED
  BY <1>1, <1>6, <1>7 DEF l

LogBit(s) == LET m == (s.m * s.m) \div Unit
             IN  IF m >= 2 * Unit THEN [m |-> m \div 2, res |-> 2 * s.res + 1]
                 ELSE [m |-> m, res |-> 2 * s.res]

\* Squaring m doubles its logarithm: the bits of the fraction, one a round, so that
\* the logarithm of the code is an integer.
LEMMA LogIs ==
    ASSUME NEW x \in Nat, Unit <= x, x <= 2 ^ 30
    PROVE  log2_q16(x) \in Int
<1> DEFINE V == [m : Nat, res : Int]
           n == FractionBits
           D == 1 .. n
           whole == Log2Floor(x) - FractionBits
           first == [m |-> x \div 2 ^ whole, res |-> whole]
           Bit(s, i) == LET m == (s.m * s.m) \div Unit
                        IN  IF m >= 2 * Unit THEN [m |-> m \div 2, res |-> 2 * s.res + 1]
                            ELSE [m |-> m, res |-> 2 * s.res]
           r == FoldLeft(Bit, first, FractionSteps)
           G == [p \in D \X V |-> LogBit(p[2])]
           P(e) == e = [s \in SUBSET D |-> IF s = {} THEN first ELSE LogBit(e[s \ {Max(s)}])]
<1>1. log2_q16(x) = r.res
  BY Zenon DEF log2_q16
<1>2. n \in Nat
  BY BtDistAssumption
<1>3. first \in V
  <2>1. whole \in Nat
    BY Log2FloorIs
  <2> HIDE DEF whole
  <2>2. 2 ^ whole \in Nat \ {0}
    BY <2>1, PowerOfTwo
  <2> DEFINE p == 2 ^ whole
  <2> HIDE DEF p
  <2>3. x \div p \in Nat
    BY <2>2 DEF p
  <2> QED
    BY <2>1, <2>3 DEF p
<1> HIDE DEF first
<1>4. ASSUME NEW s \in V PROVE LogBit(s) \in V
  <2> DEFINE q == s.m * s.m
             m == q \div Unit
  <2>1. q \in Nat /\ s.res \in Int
    <3>1. \A k \in Nat : k * k \in Nat
      OBVIOUS
    <3> QED
      BY <3>1
  <2> HIDE DEF q
  <2>2. m \in Nat
    BY <2>1, UnitIs
  <2>3. LogBit(s) = IF m >= 2 * Unit THEN [m |-> m \div 2, res |-> 2 * s.res + 1]
                    ELSE [m |-> m, res |-> 2 * s.res]
    BY DEF LogBit, q
  <2> HIDE DEF m
  <2>4. m \div 2 \in Nat /\ 2 * s.res + 1 \in Int /\ 2 * s.res \in Int
    BY <2>1, <2>2
  <2> QED
    BY <2>2, <2>3, <2>4
<1> HIDE DEF V
<1>5. G \in [D \X V -> V] /\ \A i \in D, s \in V : G[<<i, s>>] = LogBit(s)
  BY <1>4
<1> HIDE DEF G
<1>6. PICK run : LeftRun(n, V, first, G, run)
  <2> HIDE DEF n
  <2> QED
    BY <1>2, <1>3, <1>5, LeftDefined
<1>7. P(run)
  <2>1. \A s \in SUBSET D : run[s] = IF s = {} THEN first ELSE LogBit(run[s \ {Max(s)}])
    BY <1>5, <1>6 DEF LeftRun
  <2> QED
    BY <1>6, <2>1 DEF LeftRun
<1> DEFINE h == CHOOSE e : P(e)
<1>8. P(h)
  BY <1>7
<1>9. r = h[D]
  <2>1. FractionSteps = [i \in D |-> i]
    BY DEF FractionSteps
  <2>2. FoldLeft(Bit, first, [i \in D |-> i]) = h[D]
    BY Zenon DEF FoldLeft, MapThenFoldSet, LogBit
  <2> QED
    BY <2>1, <2>2
<1> HIDE DEF h, r
<1>10. h[D] \in V
  <2>1. h[{}] \in V
    BY <1>3, <1>8
  <2>2. ASSUME NEW s \in SUBSET D, s # {}, h[s \ {Max(s)}] \in V PROVE h[s] \in V
    BY <1>4, <1>8, <2>2
  <2> QED
    BY <1>2, <2>1, <2>2, LeftStays
<1> QED
  BY <1>1, <1>9, <1>10 DEF V

\* The confidence of every slot is an integer,
LEMMA ConfIs == \A i \in 0 .. PRES - 1 : CONF_LOG2[i] \in Int
<1>1. SUFFICES ASSUME NEW i \in 0 .. PRES - 1 PROVE CONF_LOG2[i] \in Int
  OBVIOUS
<1> DEFINE N == (2 * i + 1) * NVal * Unit
           p == 2 * PRES
           y == N \div p
           x == AtLeast(y, Unit)
<1>2. /\ NVal \in Nat \ {0} /\ Unit \in Nat \ {0} /\ PRES \in Nat \ {0}
      /\ NVal * Unit <= 2 ^ 30
  BY UnitIs, BtDistAssumption
<1>3. NVal * Unit \in Nat /\ 2 ^ 30 \in Nat /\ Unit <= NVal * Unit
  <2>1. 2 ^ 30 \in Nat
    OBVIOUS
  <2>2. \A a, b \in Nat \ {0} : a * b \in Nat /\ b <= a * b
    OBVIOUS
  <2> QED
    BY <1>2, <2>1, <2>2
<1>4. y \in Nat /\ y <= NVal * Unit
  <2> DEFINE u == NVal * Unit
  <2>1. N = (2 * i + 1) * u /\ u \in Nat /\ 2 * i + 1 \in Nat /\ 2 * i + 1 <= p
    BY <1>2, <1>3
  <2>2. p \in Nat \ {0}
    BY <1>2
  <2> HIDE DEF N, p, u
  <2>3. N \in Nat /\ N <= u * p
    <3>1. \A a, b, c \in Nat : a <= b => a * c \in Nat /\ a * c <= c * b
      OBVIOUS
    <3> QED
      BY <2>1, <2>2, <3>1
  <2>4. N \div p \in Nat /\ N \div p <= u
    <3>1. N \div p \in Nat /\ p * (N \div p) <= N
      BY <2>2, <2>3
    <3> DEFINE q == N \div p
    <3> HIDE DEF q
    <3>2. q <= u
      <4>1. SUFFICES ASSUME u + 1 <= q PROVE FALSE
        BY <2>1, <3>1 DEF q
      <4>2. (u + 1) * p <= q * p
        BY <2>1, <2>2, <3>1, <4>1 DEF q
      <4> QED
        BY <2>1, <2>2, <2>3, <3>1, <4>2 DEF q
    <3> QED
      BY <3>1, <3>2 DEF q
  <2> QED
    BY <2>4 DEF u
<1> HIDE DEF y
<1>5. x \in Nat /\ Unit <= x /\ x <= 2 ^ 30
  BY <1>2, <1>3, <1>4 DEF AtLeast
<1>6. log2_q16(x) \in Int
  BY <1>5, LogIs
<1>7. CONF_LOG2[i] = 20 * log2_q16(x)
  BY DEF CONF_LOG2, y
<1> HIDE DEF x
<1> QED
  BY <1>6, <1>7

\* The roots of two stay between 1 and 2, in fixed point.
Roots == {v \in Nat : Unit <= v /\ v <= 2 * Unit}

\* isqrt64 finds the root, and it is between 1 and 2 again,
LEMMA RootIs == ASSUME NEW v \in Roots PROVE isqrt64(v * Unit) \in Roots
<1> DEFINE x == v * Unit
           T == {d \in 0 .. 2 * Unit : (2 * Unit - d) * (2 * Unit - d) <= x}
<1>1. Unit \in Nat \ {0} /\ v \in Nat /\ Unit <= v /\ v <= 2 * Unit
  BY UnitIs DEF Roots
<1>2. 2 ^ (FractionBits + 1) = 2 * Unit
  BY BtDistAssumption, PowerOfTwo DEF Unit
<1> DEFINE u == Unit
<1> HIDE DEF u
<1>3. u \in Nat \ {0} /\ u = Unit /\ x = v * u /\ u <= v /\ v <= 2 * u
  BY <1>1 DEF u
<1>4. u * u <= x /\ x <= 2 * u * u /\ x \in Nat
  <2>1. \A a, b, c \in Nat : a <= b => a * c <= b * c /\ a * c \in Nat
    OBVIOUS
  <2>2. u * u <= v * u /\ v * u <= (2 * u) * u /\ v * u \in Nat
    <3> DEFINE w == 2 * u
    <3>1. u \in Nat /\ v \in Nat /\ w \in Nat /\ u <= v /\ v <= w
      BY <1>1, <1>3
    <3> HIDE DEF w
    <3> QED
      BY <2>1, <3>1 DEF w
  <2> QED
    BY <1>3, <2>2
<1>5. \E r \in 0 .. 2 * u : r * r <= x /\ x < (r + 1) * (r + 1)
  <2> DEFINE S == {k \in Nat : x < (k + 1) * (k + 1)}
  <2> HIDE DEF x
  <2>1. 2 * u \in S
    <3>1. x < (2 * u + 1) * (2 * u + 1)
      <4>1. (2 * u + 1) * (2 * u + 1) = 2 * u * u + (2 * u * u + 4 * u + 1) /\ u * u \in Nat
        BY <1>3
      <4> DEFINE q == u * u
      <4>2. 2 * u * u = 2 * q /\ q \in Nat
        BY <1>3
      <4> HIDE DEF q
      <4> QED
        BY <1>3, <1>4, <4>1, <4>2
    <3> QED
      BY <1>3, <3>1
  <2>2. PICK r \in S : \A m \in S : r <= m
    BY <2>1, LeastMember
  <2>3. r * r <= x
    <3>1. CASE r = 0
      BY <1>4, <3>1
    <3>2. CASE r # 0
      <4>1. r - 1 \in Nat /\ ~(r <= r - 1) /\ (r - 1) + 1 = r
        BY <3>2
      <4>2. ~(x < ((r - 1) + 1) * ((r - 1) + 1))
        BY <2>2, <4>1
      <4>3. r * r \in Nat
        BY <4>1
      <4> QED
        BY <1>4, <4>1, <4>2, <4>3
    <3> QED
      BY <3>1, <3>2
  <2>4. r \in 0 .. 2 * u /\ x < (r + 1) * (r + 1)
    BY <1>3, <2>1, <2>2
  <2> QED
    BY <2>3, <2>4
<1> DEFINE r == isqrt64(x)
<1>6. r \in 0 .. 2 * u /\ r * r <= x /\ x < (r + 1) * (r + 1)
  BY <1>2, <1>3, <1>5 DEF isqrt64
<1> HIDE DEF x, r
<1>7. u <= r
  <2>1. SUFFICES ASSUME r + 1 <= u PROVE FALSE
    BY <1>3, <1>6
  <2>2. (r + 1) * (r + 1) <= u * u
    <3>1. \A a, b \in Nat : a <= b => a * a <= a * b /\ a * b <= b * b /\ a * a \in Nat
                                     /\ a * b \in Nat /\ b * b \in Nat
      OBVIOUS
    <3>2. r + 1 \in Nat
      BY <1>6
    <3> DEFINE a == r + 1
    <3> HIDE DEF a
    <3>3. a * a <= a * u /\ a * u <= u * u /\ a * a \in Nat /\ a * u \in Nat /\ u * u \in Nat
      BY <1>3, <2>1, <3>1, <3>2 DEF a
    <3>4. a * a <= u * u
      BY <3>3
    <3> QED
      BY <3>4 DEF a
  <2>3. (r + 1) * (r + 1) \in Nat /\ u * u \in Nat
    BY <1>3, <1>6
  <2> QED
    BY <1>4, <1>6, <2>2, <2>3
<1>8. isqrt64(x) \in Roots
  BY <1>3, <1>6, <1>7 DEF Roots, r
<1> QED
  BY <1>8 DEF x

\* so that all the roots of two are.
LEMMA TwoPowIs == \A k \in 0 .. FractionBits : TwoPow[k] \in Roots
<1> DEFINE n == FractionBits
           G == [p \in Nat \X Roots |-> isqrt64(p[2] * Unit)]
           P(e) == e = [k \in 0 .. n |-> IF k = 0 THEN 2 * Unit ELSE isqrt64(e[k - 1] * Unit)]
<1>1. n \in Nat /\ 2 * Unit \in Roots
  BY UnitIs, BtDistAssumption DEF Roots
<1>2. G \in [Nat \X Roots -> Roots] /\ \A k \in Nat, v \in Roots : G[<<k, v>>] = isqrt64(v * Unit)
  BY RootIs
<1> HIDE DEF G
<1> DEFINE first == 2 * Unit
<1> HIDE DEF first
<1>3. PICK f : Runs(Roots, first, G, f)
  BY <1>1, <1>2, RecursionDefined DEF first
<1> DEFINE e == [k \in 0 .. n |-> f[k]]
<1>4. P(e)
  <2>1. ASSUME NEW k \in 0 .. n
        PROVE  e[k] = IF k = 0 THEN 2 * Unit ELSE isqrt64(e[k - 1] * Unit)
    <3>1. CASE k = 0
      BY <1>3, <3>1 DEF Runs, first
    <3>2. CASE k # 0
      <4>1. k - 1 \in Nat /\ k - 1 \in 0 .. n /\ (k - 1) + 1 = k
        BY <1>1, <3>2
      <4>2. f[(k - 1) + 1] = G[<<k - 1, f[k - 1]>>] /\ f[k - 1] \in Roots
        BY <1>3, <4>1 DEF Runs
      <4> QED
        BY <1>2, <3>2, <4>1, <4>2
    <3> QED
      BY <3>1, <3>2
  <2> HIDE DEF n
  <2> QED
    BY <2>1
<1>5. TwoPow = CHOOSE h : P(h)
  BY Zenon DEF TwoPow
<1>6. P(TwoPow)
  <2> DEFINE h == CHOOSE x : P(x)
  <2>1. P(h)
    BY <1>4
  <2> HIDE DEF h
  <2> QED
    BY <1>5, <2>1 DEF h
<1>7. \A k \in 0 .. n : TwoPow[k] = IF k = 0 THEN 2 * Unit ELSE isqrt64(TwoPow[k - 1] * Unit)
  <2> DEFINE h == TwoPow
  <2>1. P(h)
    BY <1>6
  <2> HIDE DEF h, n
  <2>2. \A k \in 0 .. n : h[k] = IF k = 0 THEN 2 * Unit ELSE isqrt64(h[k - 1] * Unit)
    BY <2>1
  <2> QED
    BY <2>2 DEF h
<1> DEFINE T == {k \in Nat : k <= n => TwoPow[k] \in Roots}
<1>8. 0 \in T
  BY <1>1, <1>7
<1>9. ASSUME NEW k \in T PROVE k + 1 \in T
  <2>1. SUFFICES ASSUME k + 1 <= n PROVE TwoPow[k + 1] \in Roots
    OBVIOUS
  <2>2. TwoPow[k + 1] = isqrt64(TwoPow[k] * Unit)
    <3>1. k + 1 \in 0 .. n /\ k + 1 # 0 /\ (k + 1) - 1 = k
      BY <2>1
    <3> QED
      BY <1>7, <3>1
  <2>3. TwoPow[k] \in Roots
    BY <1>1, <2>1
  <2> QED
    BY <2>2, <2>3, RootIs
<1> HIDE DEF T
<1>10. \A k \in Nat : k \in T
  BY <1>8, <1>9, Induction DEF T
<1> QED
  BY <1>1, <1>10 DEF T

\* Two to the power of a fraction, and so what EXP2_FRAC holds: naturals,
\* the first of them the whole scale of the weights.
LEMMA Exp2FracIs ==
    /\ \A f \in 0 .. 2 ^ ExpBits - 1 : EXP2_FRAC[f] \in Nat
    /\ EXP2_FRAC[0] = WSCALE
<1> DEFINE n == FractionBits
           D == 1 .. n
           All == {e \in Nat : Unit <= e}
<1>1. /\ n \in Nat /\ Unit \in Nat \ {0} /\ WSCALE \in Nat \ {0} /\ ExpBits \in Nat
      /\ 2 ^ ExpBits \in Nat \ {0}
  <2>1. n \in Nat /\ WSCALE \in Nat \ {0} /\ ExpBits \in Nat
    BY BtDistAssumption
  <2> QED
    BY <2>1, UnitIs, PowerOfTwo
<1>2. ASSUME NEW f \in 0 .. 2 ^ ExpBits - 1
      PROVE  /\ EXP2_FRAC[f] \in Nat
             /\ f = 0 => EXP2_FRAC[f] = WSCALE
  <2> DEFINE frac == (f * Unit) \div 2 ^ ExpBits
             Odd(k) == (frac \div 2 ^ (FractionBits - k)) % 2 = 1
             V == IF f = 0 THEN {Unit} ELSE All
             Step(e, k) == IF Odd(k) THEN (e * TwoPow[k]) \div Unit ELSE e
             Factor(e, k) == IF (frac \div 2 ^ (FractionBits - k)) % 2 = 1
                             THEN (e * TwoPow[k]) \div Unit ELSE e
             r == FoldLeft(Factor, Unit, FractionSteps)
             G == [p \in D \X V |-> Step(p[2], p[1])]
             P(e) == e = [s \in SUBSET DOMAIN FractionSteps |->
                            IF s = {} THEN Unit
                            ELSE Factor(e[s \ {Max(s)}], FractionSteps[Max(s)])]
  <2>0. DOMAIN FractionSteps = D /\ \A k \in D : FractionSteps[k] = k
    BY DEF FractionSteps
  <2>1. EXP2_FRAC[f] = (WSCALE * Unit) \div r
    BY Zenon DEF EXP2_FRAC
  <2>2. ASSUME f = 0, NEW k \in D PROVE ~Odd(k)
    <3>1. FractionBits - k \in Nat
      BY <1>1
    <3>2. frac = 0
      BY <1>1, <2>2
    <3> DEFINE p == 2 ^ (FractionBits - k)
    <3>3. p \in Nat \ {0}
      BY <3>1, PowerOfTwo
    <3> HIDE DEF p, frac
    <3>4. 0 \div p = 0
      BY <3>3
    <3> QED
      BY <3>2, <3>4 DEF p
  <2>3. ASSUME NEW k \in D, NEW e \in V PROVE Step(e, k) \in V
    <3>1. CASE f = 0
      BY <2>2, <3>1
    <3>2. CASE f # 0 /\ ~Odd(k)
      BY <3>2
    <3>3. CASE f # 0 /\ Odd(k)
      <4> DEFINE u == Unit
                 t == TwoPow[k]
      <4>1. k \in 0 .. FractionBits
        BY <1>1
      <4>2. t \in Nat /\ u <= t /\ u \in Nat \ {0}
        BY <1>1, <4>1, TwoPowIs DEF Roots
      <4>3. e \in Nat /\ u <= e
        BY <3>3
      <4> HIDE DEF u, t
      <4>4. (e * t) \div u \in Nat /\ e <= (e * t) \div u
        <5>1. e * u <= e * t /\ e * t \in Nat
          <6>1. \A a, b, c \in Nat : a <= b => c * a <= c * b /\ c * b \in Nat
            OBVIOUS
          <6> QED
            BY <4>2, <4>3, <6>1
        <5> DEFINE m == e * t
        <5> HIDE DEF m
        <5>2. m \div u \in Nat /\ m < u * (m \div u + 1)
          BY <4>2, <5>1 DEF m
        <5> DEFINE q == m \div u
        <5> HIDE DEF q
        <5>3. e <= q
          <6>1. SUFFICES ASSUME q + 1 <= e PROVE FALSE
            BY <4>3, <5>2 DEF q
          <6>2. u * (q + 1) <= u * e
            <7>1. \A a, b, c \in Nat : a <= b => c * a <= c * b
              OBVIOUS
            <7>2. q + 1 \in Nat
              BY <5>2 DEF q
            <7> QED
              BY <4>2, <4>3, <6>1, <7>1, <7>2
          <6>3. u * e = e * u /\ e * u \in Nat /\ u * (q + 1) \in Nat
            BY <4>2, <4>3, <5>2 DEF q
          <6> QED
            BY <5>1, <5>2, <6>2, <6>3 DEF m, q
        <5> QED
          BY <5>2, <5>3 DEF m, q
      <4>5. Step(e, k) = (e * t) \div u
        BY <3>3 DEF u, t
      <4> HIDE DEF Odd, Step
      <4> QED
        BY <3>3, <4>2, <4>3, <4>4, <4>5 DEF u
    <3> QED
      BY <3>1, <3>2, <3>3
  <2>4. Unit \in V /\ \A v \in V : v \in Nat /\ Unit <= v
    BY <1>1
  <2> HIDE DEF V, Step
  <2>5. G \in [D \X V -> V] /\ \A k \in D, e \in V : G[<<k, e>>] = Step(e, k)
    BY <2>3
  <2> HIDE DEF G
  <2> DEFINE first == Unit
  <2> HIDE DEF first
  <2>6. PICK run : LeftRun(n, V, first, G, run)
    <3> HIDE DEF n
    <3> QED
      BY <1>1, <2>4, <2>5, LeftDefined DEF first
  <2>7. P(run)
    <3>1. \A s \in SUBSET D : run[s] = IF s = {} THEN Unit
                                     ELSE Step(run[s \ {Max(s)}], Max(s))
      BY <2>5, <2>6 DEF LeftRun, first
    <3> HIDE DEF frac
    <3>2. \A s \in SUBSET D : s # {} => FractionSteps[Max(s)] = Max(s)
      BY <1>1, <2>0, LastIs
    <3>3. \A s \in SUBSET D : run[s] = IF s = {} THEN Unit
                                     ELSE Factor(run[s \ {Max(s)}], FractionSteps[Max(s)])
      BY <3>1, <3>2 DEF Step
    <3> HIDE DEF Factor
    <3> QED
      BY <2>0, <2>6, <3>3 DEF LeftRun
  <2> DEFINE h == CHOOSE e : P(e)
  <2>8. P(h)
    BY <2>7
  <2>9. r = h[D]
    <3>1. r = h[DOMAIN FractionSteps]
      <4> HIDE DEF frac
      <4> QED
        BY Zenon DEF FoldLeft, MapThenFoldSet
    <3> QED
      BY <2>0, <3>1
  <2> HIDE DEF h, r
  <2>10. h[D] \in V
    <3>1. h[{}] \in V
      BY <2>4, <2>8
    <3>2. ASSUME NEW s \in SUBSET D, s # {}, h[s \ {Max(s)}] \in V PROVE h[s] \in V
      <4>1. Max(s) \in D
        BY <1>1, <3>2, LastIs
      <4>2. h[s] = Step(h[s \ {Max(s)}], Max(s))
        <5> HIDE DEF frac
        <5>1. h[s] = Factor(h[s \ {Max(s)}], FractionSteps[Max(s)])
          BY <2>0, <2>8, <3>2
        <5> QED
          BY <2>0, <4>1, <5>1 DEF Step
      <4> QED
        BY <2>3, <3>2, <4>1, <4>2
    <3> QED
      BY <1>1, <3>1, <3>2, LeftStays
  <2>11. r \in V
    BY <2>9, <2>10
  <2>12. r \in Nat \ {0}
    BY <1>1, <2>4, <2>11
  <2>13. WSCALE * Unit \in Nat
    BY <1>1
  <2> DEFINE a == WSCALE * Unit
  <2> HIDE DEF a
  <2>14. a \div r \in Nat
    BY <2>12, <2>13 DEF a
  <2>15. f = 0 => r = Unit
    BY <2>11 DEF V
  <2>16. (WSCALE * Unit) \div Unit = WSCALE
    BY <1>1
  <2> QED
    BY <2>1, <2>14, <2>15, <2>16 DEF a
<1>3. 0 \in 0 .. 2 ^ ExpBits - 1
  BY <1>1
<1> QED
  BY <1>2, <1>3

\* A weight is a natural, and the greatest confidence has the whole scale.
LEMMA WeightIs ==
    /\ \A norm \in Int : norm <= 0 => exp2_w(norm) \in Nat
    /\ exp2_w(0) \in Nat \ {0}
<1>1. /\ Unit \in Nat \ {0} /\ WSCALE \in Nat \ {0}
      /\ 2 ^ ExpBits \in Nat \ {0} /\ 2 ^ (FractionBits - ExpBits) \in Nat \ {0}
  <2>1. WSCALE \in Nat \ {0} /\ ExpBits \in Nat /\ FractionBits - ExpBits \in Nat
    BY BtDistAssumption
  <2> QED
    BY <2>1, UnitIs, PowerOfTwo
<1> DEFINE p == 2 ^ ExpBits
           q == 2 ^ (FractionBits - ExpBits)
           Frac(norm) == EXP2_FRAC[((-norm) \div q) % p]
<1>2. p \in Nat \ {0} /\ q \in Nat \ {0}
  BY <1>1
<1>3. \A f \in 0 .. p - 1 : EXP2_FRAC[f] \in Nat
  BY Exp2FracIs
<1>4. \A norm : exp2_w(norm) = IF (-norm) \div Unit >= 40 THEN 0
                              ELSE Frac(norm) \div 2 ^ AtMost((-norm) \div Unit, 30)
  BY Zenon DEF exp2_w
<1> HIDE DEF p, q
<1>5. ASSUME NEW norm \in Int, norm <= 0
      PROVE  Frac(norm) \in Nat /\ (-norm) \div Unit \in Nat
  <2> DEFINE m == -norm
  <2>1. m \in Nat
    BY <1>5
  <2> HIDE DEF m
  <2>2. m \div q \in Nat /\ m \div Unit \in Nat
    BY <1>1, <1>2, <2>1
  <2> DEFINE d == m \div q
  <2> HIDE DEF d
  <2>3. d % p \in 0 .. p - 1
    BY <1>2, <2>2 DEF d
  <2> QED
    BY <1>3, <2>2, <2>3 DEF d, m
<1>6. ASSUME NEW norm \in Int, norm <= 0 PROVE exp2_w(norm) \in Nat
  <2> DEFINE k == AtMost((-norm) \div Unit, 30)
             a == Frac(norm)
  <2>1. k \in Nat /\ a \in Nat
    BY <1>5, <1>6 DEF AtMost
  <2>2. exp2_w(norm) = IF (-norm) \div Unit >= 40 THEN 0 ELSE a \div 2 ^ k
    BY <1>4
  <2> HIDE DEF k, a
  <2>3. 2 ^ k \in Nat \ {0}
    BY <2>1, PowerOfTwo
  <2> DEFINE t == 2 ^ k
  <2> HIDE DEF t
  <2>4. a \div t \in Nat
    BY <2>1, <2>3 DEF t
  <2> QED
    BY <2>2, <2>4 DEF t
<1>7. exp2_w(0) = WSCALE
  <2>1. (-0) \div Unit = 0 /\ (-0) \div q = 0 /\ 0 % p = 0
    BY <1>1, <1>2
  <2>2. Frac(0) = WSCALE
    BY <2>1, Exp2FracIs
  <2>3. AtMost(0, 30) = 0 /\ 2 ^ 0 = 1 /\ WSCALE \div 1 = WSCALE
    BY <1>1 DEF AtMost
  <2> HIDE DEF Frac
  <2>4. exp2_w(0) = IF 0 >= 40 THEN 0 ELSE WSCALE \div 2 ^ AtMost(0, 30)
    BY <1>4, <2>1, <2>2
  <2>5. exp2_w(0) = WSCALE \div 2 ^ AtMost(0, 30)
    BY <2>4
  <2>6. exp2_w(0) = WSCALE \div 2 ^ 0
    BY <2>3, <2>5
  <2> QED
    BY <2>3, <2>6
<1> QED
  BY <1>1, <1>6, <1>7

\* The mean of estimates is a natural.
LEMMA MeanIs ==
    ASSUME NEW S, IsFiniteSet(S), S # {}, NEW of \in [S -> [l : Int, p : Nat]]
    PROVE  Mean(of) \in Nat
<1> DEFINE est == Table(of)
           ns  == DOMAIN est
           L   == {est[n].l : n \in ns}
           most == Max(L)
           weights == [n \in ns |-> exp2_w(est[n].l - most)]
           w  == Table(weights)
           wp == [n \in ns |-> w[n] * est[n].p]
           M1 == MapThenSumSet(LAMBDA n : w[n] * est[n].p, ns)
           M2 == MapThenSumSet(LAMBDA n : w[n], ns)
<1>1. Mean(of) = M1 \div M2
  BY Zenon DEF Mean
<1>2. est = of
  BY TableIs
<1> HIDE DEF est
<1>3. ns = S
  BY <1>2
<1>4. est \in [ns -> [l : Int, p : Nat]] /\ IsFiniteSet(ns) /\ ns # {}
  BY <1>2, <1>3
<1> HIDE DEF ns
<1>5. \A n \in ns : est[n].l \in Int /\ est[n].p \in Nat
  BY <1>4
<1>6. (\E n \in ns : est[n].l = most) /\ \A m \in ns : est[m].l <= most
  <2> DEFINE f == [n \in ns |-> est[n].l]
  <2>1. f \in [ns -> Int] /\ \A n \in ns : f[n] = est[n].l
    BY <1>5
  <2> HIDE DEF f
  <2>2. PICK n \in ns : \A m \in ns : f[m] <= f[n]
    BY <1>4, <2>1, GreatestOf
  <2>3. est[n].l \in L /\ \A y \in L : est[n].l >= y
    BY <1>5, <2>1, <2>2
  <2>4. most \in L /\ \A y \in L : most >= y
    BY <2>3 DEF Max
  <2> HIDE DEF most
  <2>5. \A m \in ns : est[m].l \in L
    OBVIOUS
  <2>6. most \in Int
    BY <1>5, <2>4
  <2> QED
    BY <1>5, <2>4, <2>5, <2>6
<1>7. most \in Int
  BY <1>5, <1>6
<1> HIDE DEF most
<1>8. weights \in [ns -> Nat] /\ \E n \in ns : weights[n] \in Nat \ {0}
  <2>1. ASSUME NEW n \in ns PROVE exp2_w(est[n].l - most) \in Nat
    <3>1. est[n].l - most \in Int /\ est[n].l - most <= 0
      BY <1>5, <1>6, <1>7
    <3> QED
      BY <3>1, WeightIs
  <2>2. PICK n \in ns : est[n].l = most
    BY <1>6
  <2>3. est[n].l - most = 0
    BY <1>7, <2>2
  <2> QED
    BY <2>1, <2>3, WeightIs
<1> HIDE DEF weights
<1>9. w = weights
  BY <1>8, TableIs
<1> HIDE DEF w
<1>10. w \in [ns -> Nat] /\ \E n \in ns : w[n] \in Nat \ {0}
  BY <1>8, <1>9
<1>11. wp \in [ns -> Nat]
  <2>1. \A a, b \in Nat : a * b \in Nat
    OBVIOUS
  <2> QED
    BY <1>5, <1>10, <2>1
<1>12. M2 = Sums(w)[ns]
  <2>1. DOMAIN w = ns
    BY <1>10
  <2> QED
    BY <2>1, Zenon DEF MapThenSumSet, MapThenFoldSet, Sums
<1>13. M1 = Sums(wp)[ns]
  <2> DEFINE P(e) == e = [s \in SUBSET ns |-> IF s = {} THEN 0
                            ELSE w[CHOOSE x \in s : TRUE] * est[CHOOSE x \in s : TRUE].p
                                   + e[s \ {CHOOSE x \in s : TRUE}]]
             h == CHOOSE e : P(e)
  <2>1. M1 = h[ns]
    BY Zenon DEF MapThenSumSet, MapThenFoldSet
  <2>2. \A s \in SUBSET ns : s # {} => (CHOOSE x \in s : TRUE) \in ns
    OBVIOUS
  <2>3. \A e : P(e) <=> Summing(wp, ns, e)
    BY <2>2 DEF Summing
  <2>4. Summable(wp, ns)
    BY <1>4, <1>11, SumsNat
  <2> HIDE DEF wp, P
  <2>5. Summing(wp, ns, Sums(wp))
    BY <2>4, SumsSumming
  <2>6. P(h)
    BY <2>3, <2>5
  <2>7. Summing(wp, ns, h)
    BY <2>3, <2>6
  <2> HIDE DEF h
  <2> QED
    BY <2>1, <2>4, <2>7, SummingIs
<1> HIDE DEF M1, M2, wp
<1>14. M1 \in Nat
  BY <1>4, <1>11, <1>13, SumsNat
<1>15. M2 \in Nat \ {0}
  <2>1. PICK n \in ns : w[n] \in Nat \ {0}
    BY <1>10
  <2>2. Sums(w)[ns] \in Nat /\ w[n] <= Sums(w)[ns]
    BY <1>4, <1>10, SumsNat
  <2> QED
    BY <1>12, <2>1, <2>2
<1>16. M1 \div M2 \in Nat
  BY <1>14, <1>15
<1> QED
  BY <1>1, <1>16

-----------------------------------------------------------------------------
(***************************************************************************)
(* The distribution of the context model.                                  *)
(***************************************************************************)
\* The total of a linear combination.
LEMMA TotalLinear ==
    ASSUME NEW f \in [Byte -> Int], NEW k \in [Byte -> Int], NEW h \in [Byte -> Int],
           NEW a \in Int, NEW b \in Int, Combines(f, k, h, a, b, Byte)
    PROVE  Total(h) = a * Total(f) + b * Total(k)
<1>1. Summable(f, Byte) /\ Summable(k, Byte) /\ Summable(h, Byte)
  BY ByteFinite DEF Summable
<1>2. Total(f) = Sums(f)[Byte] /\ Total(k) = Sums(k)[Byte] /\ Total(h) = Sums(h)[Byte]
  BY TotalIs
<1>3. Combines(Sums(f), Sums(k), Sums(h), a, b, SUBSET Byte)
  BY <1>1, SumsLinear
<1>4. Byte \in SUBSET Byte
  OBVIOUS
<1> QED
  BY <1>2, <1>3, <1>4 DEF Combines

\* The final quantisation leaves no byte empty and stays within the scale.
LEMMA QuantisedIs ==
    ASSUME NEW probs \in [Byte -> Nat \ {0}]
    PROVE  Quantised(probs, Scale) \in Widths /\ Total(Quantised(probs, Scale)) <= Scale
<1> DEFINE pt == Table(probs)
           qt == [b \in Byte |-> AtLeast((950 * Scale * pt[b]) \div (1000 * Total(pt))
                                          + (50 * Scale) \div (1000 * NVal), 1)]
           s == Total(probs)
           k == (50 * Scale) \div (1000 * NVal)
           a == [b \in Byte |-> (950 * Scale * probs[b]) \div (1000 * s)]
           q == [b \in Byte |-> AtLeast((950 * Scale * probs[b]) \div (1000 * s) + k, 1)]
           one == [b \in Byte |-> 1]
           r == 1000 * s
           u == 950 * Scale
<1>1. Table(qt) = Quantised(probs, Scale)
  BY Zenon DEF Quantised
<1>2. Quantised(probs, Scale) = Table(q)
  <2>1. pt = probs
    BY TableIs
  <2> HIDE DEF pt
  <2> QED
    BY <1>1, <2>1
<1>3. s \in Nat \ {0} /\ r \in Nat \ {0} /\ u \in Nat
  <2>1. one \in [Byte -> Int] /\ probs \in [Byte -> Int] /\ probs \in [Byte -> Nat]
        /\ \A b \in Byte : one[b] = 1 /\ one[b] <= probs[b]
    OBVIOUS
  <2> HIDE DEF one
  <2>2. Total(one) = 1 * NVal /\ Total(one) <= s /\ s \in Nat
    BY <2>1, TotalConstant, TotalMonotone, TotalType
  <2> QED
    BY <2>2, Sizes
<1>4. k \in Nat /\ k >= 1 /\ 1000 * (k * NVal) <= 50 * Scale
  <2> DEFINE d == 1000 * NVal
             n == 50 * Scale
  <2>1. d \in Nat \ {0} /\ n \in Nat /\ d <= n
    BY Sizes
  <2> HIDE DEF d, n
  <2>2. n \div d \in Nat /\ d * (n \div d) <= n /\ n < d * (n \div d + 1)
    BY <2>1
  <2> DEFINE m == n \div d
  <2> HIDE DEF m
  <2>3. m # 0
    BY <2>1, <2>2 DEF m
  <2>4. m = k
    BY DEF m, n, d
  <2> HIDE DEF k
  <2>5. 1000 * NVal * k <= 50 * Scale
    BY <2>2, <2>4 DEF m, n, d
  <2>6. 1000 * NVal * k = 1000 * (k * NVal)
    BY <2>2, <2>4, Sizes DEF m
  <2> QED
    BY <2>2, <2>3, <2>4, <2>5, <2>6 DEF m
<1> HIDE DEF k
<1>5. ASSUME NEW b \in Byte
      PROVE  /\ a[b] \in Nat /\ r * a[b] <= u * probs[b]
             /\ q[b] = a[b] + k
  <2> DEFINE n == u * probs[b]
  <2>1. n \in Nat
    <3>1. \A x, y \in Nat : x * y \in Nat
      OBVIOUS
    <3> QED
      BY <1>3, <3>1
  <2>2. a[b] = n \div r /\ q[b] = AtLeast(n \div r + k, 1)
    OBVIOUS
  <2> HIDE DEF n, r
  <2>3. n \div r \in Nat /\ r * (n \div r) <= n
    BY <1>3, <2>1
  <2> DEFINE m == n \div r
  <2> HIDE DEF m
  <2>4. AtLeast(m + k, 1) = m + k
    BY <1>4, <2>3 DEF AtLeast, m
  <2> QED
    BY <2>2, <2>3, <2>4 DEF m, n
<1>6. a \in [Byte -> Int] /\ q \in [Byte -> Int] /\ one \in [Byte -> Int]
      /\ probs \in [Byte -> Int] /\ \A b \in Byte : one[b] = 1
  <2>1. \A b \in Byte : a[b] \in Int /\ q[b] \in Int
    BY <1>4, <1>5
  <2> HIDE DEF r, s
  <2> QED
    BY <2>1
<1> HIDE DEF a, q, one
<1>7. q \in Widths
  <2>1. \A b \in Byte : q[b] \in Nat \ {0}
    BY <1>4, <1>5
  <2> QED
    BY <1>6, <2>1 DEF Widths
<1>8. Total(q) = Total(a) + k * NVal
  <2>1. Combines(a, one, q, 1, k, Byte)
    BY <1>4, <1>5, <1>6 DEF Combines
  <2>2. Total(q) = 1 * Total(a) + k * Total(one)
    BY <1>4, <1>6, <2>1, TotalLinear
  <2>3. Total(one) = 1 * NVal
    BY <1>6, TotalConstant
  <2>4. Total(a) \in Int
    BY <1>6, Sizes, TotalChange
  <2> QED
    BY <1>4, <2>2, <2>3, <2>4, Sizes
<1>9. 1000 * Total(a) <= u
  <2> DEFINE f == [b \in Byte |-> r * a[b]]
             h == [b \in Byte |-> u * probs[b]]
  <2> HIDE DEF r, u, s
  <2>1. f \in [Byte -> Int] /\ h \in [Byte -> Int]
    <3>1. \A x, y \in Int : x * y \in Int
      OBVIOUS
    <3> QED
      BY <1>3, <1>6, <3>1
  <2>2. /\ Combines(a, a, f, r, 0, Byte) /\ Combines(probs, probs, h, u, 0, Byte)
        /\ \A b \in Byte : f[b] <= h[b]
    <3>1. \A b \in Byte : f[b] = r * a[b] /\ h[b] = u * probs[b]
      OBVIOUS
    <3>2. \A b \in Byte : f[b] \in Int /\ h[b] \in Int /\ 0 * a[b] = 0 /\ 0 * probs[b] = 0
      BY <1>6, <2>1
    <3> HIDE DEF f, h
    <3>3. \A b \in Byte : r * a[b] + 0 * a[b] = f[b] + 0 /\ u * probs[b] + 0 * probs[b] = h[b] + 0
      BY <3>1, <3>2
    <3>4. \A b \in Byte : f[b] <= h[b]
      BY <1>5, <3>1
    <3> QED
      BY <3>2, <3>3, <3>4 DEF Combines
  <2> HIDE DEF f, h
  <2>3. r \in Int /\ u \in Int /\ 0 \in Int
    BY <1>3
  <2>4. Total(f) = r * Total(a) + 0 * Total(a) /\ Total(h) = u * Total(probs) + 0 * Total(probs)
    BY <1>6, <2>1, <2>2, <2>3, TotalLinear
  <2>5. Total(f) <= Total(h)
    BY <2>1, <2>2, TotalMonotone
  <2>6. Total(a) \in Int /\ Total(probs) \in Int
    BY <1>6, Sizes, TotalChange
  <2>7. r * Total(a) <= u * s
    BY <2>3, <2>4, <2>5, <2>6 DEF s
  <2> DEFINE t == Total(a)
  <2> HIDE DEF t
  <2>8. s * (1000 * t) <= s * u
    <3>1. r * t = s * (1000 * t) /\ u * s = s * u
      BY <1>3, <2>6 DEF r, t
    <3> QED
      BY <2>7, <3>1 DEF t
  <2>9. 1000 * t <= u
    <3>1. SUFFICES ASSUME u + 1 <= 1000 * t PROVE FALSE
      BY <1>3, <2>6 DEF t
    <3> DEFINE v == 1000 * t
    <3>2. v \in Int /\ u + 1 <= v /\ s * v <= s * u
      BY <2>6, <2>8, <3>1 DEF t
    <3> HIDE DEF v
    <3>3. s * (u + 1) <= s * v
      BY <1>3, <3>2
    <3> QED
      BY <1>3, <3>2, <3>3
  <2> QED
    BY <2>9 DEF t
<1>10. Table(q) = q
  BY <1>6, TableIs
<1>11. Total(q) <= Scale
  <2>1. Total(a) \in Int /\ k * NVal \in Int
    BY <1>4, <1>6, Sizes, TotalChange
  <2> QED
    BY <1>4, <1>8, <1>9, <2>1, Sizes
<1> QED
  BY <1>2, <1>7, <1>10, <1>11

(***************************************************************************)
(* A model has counted bytes, after contexts, and its window is no longer  *)
(* than the contexts it counts.                                            *)
(***************************************************************************)
CountsOK(count)  == \A c \in DOMAIN count : c \in Seq(Byte) /\ Len(c) <= Depth
                                            /\ count[c] \in [Byte -> Nat]
WindowOK(window) == window \in Seq(Byte) /\ Len(window) <= Depth

\* The contexts of a level are finitely many, each with counts.
LEMMA ActiveIs ==
    ASSUME NEW count, CountsOK(count), NEW window, WindowOK(window),
           NEW level \in [dmin : Nat, dmax : Nat, wint : Nat \ {0}]
    PROVE  /\ IsFiniteSet(Active(count, window, level))
           /\ \A n \in Active(count, window, level) :
                 n \in 0 .. Depth /\ count[Ending(window, n)] \in [Byte -> Nat]
<1>1. Depth \in Nat /\ Len(window) \in Nat /\ Len(window) <= Depth
  BY BtDistAssumption DEF WindowOK
<1>2. level.dmin \in Nat /\ level.dmax \in Nat
  OBVIOUS
<1>3. AtMost(Len(window), level.dmax) \in Nat /\ AtMost(Len(window), level.dmax) <= Depth
  BY <1>1, <1>2 DEF AtMost
<1>4. Active(count, window, level) \subseteq 0 .. Depth
  BY <1>1, <1>2, <1>3 DEF Active
<1>5. IsFiniteSet(0 .. Depth)
  BY <1>1, FS_Interval
<1> QED
  BY <1>4, <1>5, FS_Subset DEF Active, CountsOK

\* What a context says is a confidence and a probability; what it says of
\* a byte that never followed it does not depend on the byte.
LEMMA EstimateIs ==
    ASSUME NEW freqs \in [Byte -> Nat], NEW n \in 0 .. Depth
    PROVE  /\ Unobserved(freqs, n) \in [l : Int, p : Nat]
           /\ \A b \in Byte : /\ Estimate(freqs, n, b) \in [l : Int, p : Nat]
                              /\ freqs[b] = 0 => Estimate(freqs, n, b) = Unobserved(freqs, n)
<1> DEFINE total == Total(freqs)
<1>1. /\ total \in Nat /\ \A b \in Byte : freqs[b] \in Nat /\ freqs[b] <= total
  <2>1. \A b \in Byte : freqs[b] <= Sums(freqs)[Byte]
    BY ByteFinite, SumsNat
  <2> QED
    BY <2>1, TotalType, TotalIs
<1>2. /\ PRES \in Nat \ {0} /\ PSCALE \in Nat /\ NVal \in Nat \ {0} /\ LOG2_E \in Nat
      /\ Depth \in Nat
  BY BtDistAssumption
<1>3. EXP_LOG2[n] \in Int
  <2>1. \A x, y \in Int : x * y \in Int
    OBVIOUS
  <2> QED
    BY <1>2, <2>1 DEF EXP_LOG2
<1>4. \A i \in Nat : AtMost(i, PRES - 1) \in 0 .. PRES - 1
  BY <1>2 DEF AtMost
<1>5. \A i \in Nat : CONF_LOG2[AtMost(i, PRES - 1)] \in Int
  BY <1>4, ConfIs
<1> DEFINE most == total + NVal
<1>6. most \in Nat \ {0}
  BY <1>1, <1>2
<1>7. Unobserved(freqs, n)
        = [l |-> EXP_LOG2[n] + CONF_LOG2[AtMost(PRES \div most, PRES - 1)],
           p |-> PSCALE \div most]
  BY DEF Unobserved
<1>8. \A b : Estimate(freqs, n, b)
        = [l |-> EXP_LOG2[n] + CONF_LOG2[AtMost(IF freqs[b] > 0
                                                THEN (freqs[b] * PRES) \div total
                                                ELSE PRES \div most, PRES - 1)],
           p |-> IF freqs[b] > 0 THEN (freqs[b] * PSCALE) \div total ELSE PSCALE \div most]
  BY DEF Estimate
<1> HIDE DEF total, most
<1>9. PRES \div most \in Nat /\ PSCALE \div most \in Nat
  BY <1>2, <1>6
<1>10. Unobserved(freqs, n) \in [l : Int, p : Nat]
  BY <1>3, <1>5, <1>7, <1>9
<1>11. ASSUME NEW b \in Byte
       PROVE  /\ Estimate(freqs, n, b) \in [l : Int, p : Nat]
              /\ freqs[b] = 0 => Estimate(freqs, n, b) = Unobserved(freqs, n)
  <2>1. CASE freqs[b] = 0
    <3>1. ~(freqs[b] > 0)
      BY <2>1
    <3> QED
      BY <1>7, <1>8, <1>10, <3>1
  <2>2. CASE freqs[b] # 0
    <3> DEFINE f == freqs[b]
    <3>1. f \in Nat /\ f > 0 /\ total \in Nat \ {0}
      BY <1>1, <2>2
    <3> HIDE DEF f
    <3>2. f * PRES \in Nat /\ f * PSCALE \in Nat
      BY <1>2, <3>1
    <3>3. (f * PRES) \div total \in Nat /\ (f * PSCALE) \div total \in Nat
      BY <3>1, <3>2
    <3>4. Estimate(freqs, n, b)
            = [l |-> EXP_LOG2[n] + CONF_LOG2[AtMost((f * PRES) \div total, PRES - 1)],
               p |-> (f * PSCALE) \div total]
      BY <1>8, <3>1 DEF f
    <3> DEFINE i == (f * PRES) \div total
               p == (f * PSCALE) \div total
    <3> HIDE DEF i, p
    <3>5. Estimate(freqs, n, b) \in [l : Int, p : Nat]
      BY <1>3, <1>5, <3>3, <3>4 DEF i, p
    <3> QED
      BY <2>2, <3>5
  <2> QED
    BY <2>1, <2>2
<1> QED
  BY <1>10, <1>11

\* the mean of what the contexts of a level say of a byte
MeanOf(count, window, level, b) ==
    Mean([n \in Active(count, window, level) |-> Estimate(count[Ending(window, n)], n, b)])

\* What a level adds for a byte is this mean, observed or not, weighted.
LEMMA LevelSumIs ==
    ASSUME NEW count, CountsOK(count), NEW window, WindowOK(window),
           NEW level \in [dmin : Nat, dmax : Nat, wint : Nat \ {0}], NEW b \in Byte
    PROVE  /\ Active(count, window, level) # {} =>
                 /\ MeanOf(count, window, level, b) \in Nat
                 /\ LevelSum(count, window, level)[b]
                      = level.wint * MeanOf(count, window, level, b)
           /\ Active(count, window, level) = {} => LevelSum(count, window, level)[b] = 0
           /\ LevelSum(count, window, level) \in [Byte -> Int]
<1> DEFINE act == Active(count, window, level)
           freqs == [n \in act |-> count[Ending(window, n)]]
           default == Mean([n \in act |-> Unobserved(count[Ending(window, n)], n)])
           seen(x) == \E n \in act : count[Ending(window, n)][x] > 0
           M(x) == Mean([n \in act |-> Estimate(count[Ending(window, n)], n, x)])
<1>1. IsFiniteSet(act) /\ \A n \in act : n \in 0 .. Depth
                                         /\ count[Ending(window, n)] \in [Byte -> Nat]
  BY ActiveIs
<1>2. \A x \in Byte : M(x) = MeanOf(count, window, level, x)
  BY DEF MeanOf
<1>3. LevelSum(count, window, level)
        = IF act = {} THEN [x \in Byte |-> 0]
          ELSE [x \in Byte |-> level.wint *
                  (default - IF x \in {y \in Byte : seen(y)} THEN default - M(x) ELSE 0)]
  BY Zenon DEF LevelSum
<1> HIDE DEF act
<1>4. ASSUME act # {}
      PROVE  default \in Nat /\ \A x \in Byte : M(x) \in Nat /\ (~seen(x) => M(x) = default)
  <2> DEFINE U == [n \in act |-> Unobserved(count[Ending(window, n)], n)]
             E(x) == [n \in act |-> Estimate(count[Ending(window, n)], n, x)]
  <2>1. U \in [act -> [l : Int, p : Nat]]
    BY <1>1, EstimateIs
  <2>2. \A x \in Byte : E(x) \in [act -> [l : Int, p : Nat]]
    BY <1>1, EstimateIs
  <2>3. ASSUME NEW x \in Byte, ~seen(x) PROVE E(x) = U
    <3>1. \A n \in act : count[Ending(window, n)][x] = 0
      BY <1>1, <2>3
    <3>2. \A n \in act : Estimate(count[Ending(window, n)], n, x)
                           = Unobserved(count[Ending(window, n)], n)
      BY <1>1, <3>1, EstimateIs
    <3> QED
      BY <3>2
  <2>4. default = Mean(U) /\ \A x \in Byte : M(x) = Mean(E(x))
    BY DEF U, E
  <2> HIDE DEF U, E
  <2> QED
    BY <1>1, <1>4, <2>1, <2>2, <2>3, <2>4, MeanIs
<1> HIDE DEF default, M
<1>5. level.wint \in Nat \ {0} /\ \A x, y \in Int : x * y \in Int
  OBVIOUS
<1>6. ASSUME act # {}, NEW x \in Byte
      PROVE  LevelSum(count, window, level)[x] = level.wint * M(x)
  <2>1. default - (IF x \in {y \in Byte : seen(y)} THEN default - M(x) ELSE 0) = M(x)
    BY <1>4, <1>6
  <2> QED
    BY <1>3, <1>6, <2>1
<1>7. LevelSum(count, window, level) \in [Byte -> Int]
  <2>1. CASE act = {}
    BY <1>3, <2>1
  <2>2. CASE act # {}
    <3>1. \A x \in Byte : level.wint * M(x) \in Int
      BY <1>4, <1>5, <2>2
    <3>2. \A x \in Byte : LevelSum(count, window, level)[x] \in Int
      BY <1>6, <2>2, <3>1
    <3>3. LevelSum(count, window, level)
            = [x \in Byte |-> LevelSum(count, window, level)[x]]
      BY <1>3, <2>2
    <3> QED
      BY <3>2, <3>3
  <2> QED
    BY <2>1, <2>2
<1>8. act = {} => LevelSum(count, window, level)[b] = 0
  BY <1>3
<1> QED
  BY <1>2, <1>4, <1>6, <1>7, <1>8 DEF act

\* A mean weighted over the levels with contexts, kept between 1 and PSCALE,
\* is the same if the other levels take part with weight 0: the probabilities
\* of the code are those of the definition.
LEMMA ProbsAre ==
    ASSUME NEW count, CountsOK(count), NEW window, WindowOK(window)
    PROVE  /\ Probs(count, window) \in [Byte -> Nat \ {0}]
           /\ Probs(count, window) = [b \in Byte |-> DirectProb(count, window, b)]
<1> DEFINE D == DOMAIN LEVELS
           wt == MapThenSumSet(LAMBDA i : LevelWeight(count, window, LEVELS[i]), D)
           table == [i \in D |-> Table(LevelSum(count, window, LEVELS[i]))]
           sums == Table(table)
           sum(b) == MapThenSumSet(LAMBDA i : sums[i][b], D)
           R == {i \in D : Active(count, window, LEVELS[i]) # {}}
           dsum(b) == MapThenSumSet(LAMBDA i : LEVELS[i].wint *
                        Mean([n \in Active(count, window, LEVELS[i]) |->
                                Estimate(count[Ending(window, n)], n, b)]), R)
           dwt == MapThenSumSet(LAMBDA i : LEVELS[i].wint, R)
           W == [i \in D |-> LevelWeight(count, window, LEVELS[i])]
           V == [i \in R |-> LEVELS[i].wint]
           F(b) == [i \in D |-> LevelSum(count, window, LEVELS[i])[b]]
           G(b) == [i \in R |-> LEVELS[i].wint * MeanOf(count, window, LEVELS[i], b)]
<1>1. /\ IsFiniteSet(D) /\ IsFiniteSet(R) /\ R \in SUBSET D
      /\ \A i \in D : LEVELS[i] \in [dmin : Nat, dmax : Nat, wint : Nat \ {0}]
  BY BtDistAssumption, FS_Subset
<1>2. Probs(count, window) =
        IF wt = 0 THEN [b \in Byte |-> PSCALE \div NVal]
        ELSE [b \in Byte |-> AtMost(AtLeast(sum(b) \div wt, 1), PSCALE)]
  BY Zenon DEF Probs
<1>3. \A b : DirectProb(count, window, b) =
        IF R = {} THEN PSCALE \div NVal
        ELSE AtMost(AtLeast(dsum(b) \div dwt, 1), PSCALE)
  BY Zenon DEF DirectProb
<1>4. sums = table
      /\ \A i \in D : /\ sums[i] = LevelSum(count, window, LEVELS[i])
                      /\ LevelSum(count, window, LEVELS[i]) \in [Byte -> Int]
  <2>1. \A i \in D : LevelSum(count, window, LEVELS[i]) \in [Byte -> Int]
    <3>1. \E b : b \in Byte
      BY Sizes
    <3> QED
      BY <1>1, <3>1, LevelSumIs
  <2>2. \A i \in D : Table(LevelSum(count, window, LEVELS[i])) = LevelSum(count, window, LEVELS[i])
    BY <2>1, TableIs
  <2>3. table \in [D -> [Byte -> Int]]
    BY <2>1, <2>2
  <2>4. sums = table
    BY <2>3, TableIs
  <2> HIDE DEF sums
  <2> QED
    BY <2>1, <2>2, <2>4
<1>5. wt = Sums(W)[D] /\ Summable(W, D)
  <2> DEFINE P(e) == e = [s \in SUBSET D |-> IF s = {} THEN 0
                            ELSE LevelWeight(count, window, LEVELS[CHOOSE x \in s : TRUE])
                                   + e[s \ {CHOOSE x \in s : TRUE}]]
             h == CHOOSE e : P(e)
  <2>1. wt = h[D]
    BY Zenon DEF MapThenSumSet, MapThenFoldSet
  <2>2. \A s \in SUBSET D : s # {} => (CHOOSE x \in s : TRUE) \in D
    OBVIOUS
  <2>3. \A e : P(e) <=> Summing(W, D, e)
    BY <2>2 DEF Summing
  <2>4. Summable(W, D)
    <3>1. \A i \in D : LevelWeight(count, window, LEVELS[i]) \in Int
      BY <1>1 DEF LevelWeight
    <3> QED
      BY <1>1, <3>1 DEF Summable
  <2> HIDE DEF W, P
  <2>5. P(h)
    BY <2>3, <2>4, SumsSumming
  <2>6. Summing(W, D, h)
    BY <2>3, <2>5
  <2> HIDE DEF h
  <2> QED
    BY <2>1, <2>4, <2>6, SummingIs
<1>6. dwt = Sums(V)[R] /\ Summable(V, R)
  <2> DEFINE P(e) == e = [s \in SUBSET R |-> IF s = {} THEN 0
                            ELSE LEVELS[CHOOSE x \in s : TRUE].wint
                                   + e[s \ {CHOOSE x \in s : TRUE}]]
             h == CHOOSE e : P(e)
  <2>1. dwt = h[R]
    BY Zenon DEF MapThenSumSet, MapThenFoldSet
  <2>2. \A s \in SUBSET R : s # {} => (CHOOSE x \in s : TRUE) \in R
    OBVIOUS
  <2>3. \A e : P(e) <=> Summing(V, R, e)
    BY <2>2 DEF Summing
  <2>4. Summable(V, R)
    <3>1. \A i \in R : LEVELS[i].wint \in Int
      BY <1>1
    <3> QED
      BY <1>1, <3>1 DEF Summable
  <2> HIDE DEF V, P
  <2>5. P(h)
    BY <2>3, <2>4, SumsSumming
  <2>6. Summing(V, R, h)
    BY <2>3, <2>5
  <2> HIDE DEF h
  <2> QED
    BY <2>1, <2>4, <2>6, SummingIs
<1>7. ASSUME NEW b \in Byte
      PROVE  sum(b) = Sums(F(b))[D] /\ Summable(F(b), D)
  <2> DEFINE f == F(b)
             P(e) == e = [s \in SUBSET D |-> IF s = {} THEN 0
                            ELSE sums[CHOOSE x \in s : TRUE][b]
                                   + e[s \ {CHOOSE x \in s : TRUE}]]
             h == CHOOSE e : P(e)
  <2>1. sum(b) = h[D]
    BY Zenon DEF MapThenSumSet, MapThenFoldSet
  <2> HIDE DEF sums
  <2>2. /\ \A i \in D : f[i] = sums[i][b] /\ f[i] \in Int
        /\ f = [i \in D |-> f[i]]
    BY <1>4
  <2>3. \A s \in SUBSET D : s # {} => (CHOOSE x \in s : TRUE) \in D
    OBVIOUS
  <2> HIDE DEF f
  <2> DEFINE t(i) == sums[i][b]
  <2>4. \A e : P(e) <=> Summing(f, D, e)
    <3>1. \A i \in D : f[i] = t(i)
      BY <2>2
    <3>2. \A e : P(e) <=> e = [s \in SUBSET D |-> IF s = {} THEN 0
                            ELSE t(CHOOSE x \in s : TRUE) + e[s \ {CHOOSE x \in s : TRUE}]]
      OBVIOUS
    <3> HIDE DEF P, t
    <3> QED
      BY <2>3, <3>1, <3>2 DEF Summing
  <2>5. Summable(f, D)
    BY <1>1, <2>2 DEF Summable
  <2> HIDE DEF P
  <2>6. P(h)
    BY <2>4, <2>5, SumsSumming
  <2>7. Summing(f, D, h)
    BY <2>4, <2>6
  <2> HIDE DEF h
  <2>8. sum(b) = Sums(f)[D]
    BY <2>1, <2>5, <2>7, SummingIs
  <2> QED
    BY <2>5, <2>8 DEF f
<1>8. ASSUME NEW b \in Byte
      PROVE  dsum(b) = Sums(G(b))[R] /\ Summable(G(b), R)
  <2> DEFINE f == G(b)
             P(e) == e = [s \in SUBSET R |-> IF s = {} THEN 0
                            ELSE LEVELS[CHOOSE x \in s : TRUE].wint *
                                   Mean([n \in Active(count, window, LEVELS[CHOOSE x \in s : TRUE]) |->
                                           Estimate(count[Ending(window, n)], n, b)])
                                   + e[s \ {CHOOSE x \in s : TRUE}]]
             h == CHOOSE e : P(e)
  <2>1. dsum(b) = h[R]
    BY Zenon DEF MapThenSumSet, MapThenFoldSet
  <2>2. /\ \A i \in R : f[i] = LEVELS[i].wint * MeanOf(count, window, LEVELS[i], b)
        /\ f = [i \in R |-> f[i]]
    OBVIOUS
  <2>3. \A i \in R : f[i] \in Int
    <3>1. \A x, y \in Nat : x * y \in Int
      OBVIOUS
    <3>2. \A i \in R : LEVELS[i].wint \in Nat /\ MeanOf(count, window, LEVELS[i], b) \in Nat
      BY <1>1, LevelSumIs
    <3> HIDE DEF f
    <3> QED
      BY <2>2, <3>1, <3>2
  <2>4. \A s \in SUBSET R : s # {} => (CHOOSE x \in s : TRUE) \in R
    OBVIOUS
  <2> DEFINE t(i) == LEVELS[i].wint * Mean([n \in Active(count, window, LEVELS[i]) |->
                                           Estimate(count[Ending(window, n)], n, b)])
  <2>5. \A i \in R : f[i] = t(i)
    BY <2>2 DEF MeanOf
  <2>6. \A e : P(e) <=> e = [s \in SUBSET R |-> IF s = {} THEN 0
                            ELSE t(CHOOSE x \in s : TRUE) + e[s \ {CHOOSE x \in s : TRUE}]]
    OBVIOUS
  <2> HIDE DEF f, P, t
  <2>7. \A e : P(e) <=> Summing(f, R, e)
    BY <2>4, <2>5, <2>6 DEF Summing
  <2>8. Summable(f, R)
    BY <1>1, <2>2, <2>3 DEF Summable
  <2>9. P(h)
    BY <2>7, <2>8, SumsSumming
  <2>10. Summing(f, R, h)
    BY <2>7, <2>9
  <2> HIDE DEF h
  <2>11. dsum(b) = Sums(f)[R]
    BY <2>1, <2>8, <2>10, SummingIs
  <2> QED
    BY <2>8, <2>11 DEF f
<1> HIDE DEF wt, sum, dwt, dsum
\* levels without contexts add nothing to the sums
<1>9. wt = dwt
  <2>1. \A i \in D \ R : W[i] = 0
    BY DEF LevelWeight
  <2>2. \A i \in R : W[i] = V[i]
    BY DEF LevelWeight
  <2> HIDE DEF W, V
  <2>3. Sums(W)[D] = Sums(W)[R]
    BY <1>1, <1>5, <2>1, SumsSupport
  <2>4. R \in SUBSET (D \cap R)
    BY <1>1
  <2>5. Sums(W)[R] = Sums(V)[R]
    BY <1>5, <1>6, <2>2, <2>4, SumsEqual
  <2> QED
    BY <1>5, <1>6, <2>3, <2>5
<1>10. ASSUME NEW b \in Byte PROVE sum(b) = dsum(b)
  <2> DEFINE f == F(b)
             k == G(b)
  <2>1. \A i \in D \ R : f[i] = 0
    BY <1>1, LevelSumIs
  <2>2. \A i \in R : f[i] = k[i]
    BY <1>1, LevelSumIs
  <2>3. /\ sum(b) = Sums(f)[D] /\ Summable(f, D)
        /\ dsum(b) = Sums(k)[R] /\ Summable(k, R)
    BY <1>7, <1>8
  <2> HIDE DEF f, k
  <2>4. Sums(f)[D] = Sums(f)[R]
    BY <1>1, <2>1, <2>3, SumsSupport
  <2>5. R \in SUBSET (D \cap R)
    BY <1>1
  <2>6. Sums(f)[R] = Sums(k)[R]
    BY <2>2, <2>3, <2>5, SumsEqual
  <2> QED
    BY <2>3, <2>4, <2>6
\* and they have weight exactly if there is one with contexts
<1>11. dwt \in Nat /\ (dwt = 0 <=> R = {})
  <2>1. V \in [R -> Nat] /\ \A i \in R : V[i] \in Nat \ {0}
    BY <1>1
  <2> HIDE DEF V
  <2>2. dwt \in Nat /\ \A i \in R : V[i] <= dwt
    BY <1>1, <1>6, <2>1, SumsNat
  <2>3. R = {} => dwt = 0
    BY <1>6, SumsType
  <2> QED
    BY <2>1, <2>2, <2>3
<1>12. \A b \in Byte : dsum(b) \in Int
  <2>1. \A b \in Byte : Sums(G(b))[R] \in Int
    <3>1. R \in SUBSET R
      OBVIOUS
    <3>2. ASSUME NEW b \in Byte PROVE Sums(G(b))[R] \in Int
      <4> DEFINE k == G(b)
      <4>1. Summable(k, R)
        BY <1>8
      <4> HIDE DEF k
      <4>2. Sums(k)[R] \in Int
        BY <3>1, <4>1, SumsType
      <4> QED
        BY <4>2 DEF k
    <3> QED
      BY <3>2
  <2> QED
    BY <1>8, <2>1
<1> HIDE DEF R, F, G, W, V
<1>13. \A b \in Byte : DirectProb(count, window, b) \in Nat \ {0}
  <2>1. PSCALE \in Nat /\ NVal \in Nat \ {0} /\ NVal <= PSCALE
    BY BtDistAssumption
  <2>2. PSCALE \div NVal \in Nat \ {0} /\ 1 <= PSCALE
    BY <2>1
  <2>3. ASSUME NEW b \in Byte, dwt # 0
        PROVE  AtMost(AtLeast(dsum(b) \div dwt, 1), PSCALE) \in Nat \ {0}
    <3>1. dsum(b) \div dwt \in Int
      BY <1>11, <1>12, <2>3
    <3> QED
      BY <2>1, <2>2, <3>1 DEF AtLeast, AtMost
  <2> QED
    BY <1>3, <1>11, <2>2, <2>3
<1>14. Probs(count, window) = [b \in Byte |-> DirectProb(count, window, b)]
  BY <1>2, <1>3, <1>9, <1>10, <1>11
<1> QED
  BY <1>13, <1>14

\* The distribution of the model: no byte is empty, the total is at most the
\* scale, and it is what estimating each byte by itself gives.
LEMMA DistributionIs ==
    ASSUME NEW count, CountsOK(count), NEW window, WindowOK(window)
    PROVE  LET w == bt_v3_distribution(count, window, Scale)
           IN  w \in Widths /\ Total(w) <= Scale
               /\ w = DirectDistribution(count, window, Scale)
<1> DEFINE p == Probs(count, window)
<1>1. p \in [Byte -> Nat \ {0}] /\ p = [b \in Byte |-> DirectProb(count, window, b)]
  BY ProbsAre
<1>2. bt_v3_distribution(count, window, Scale) = Quantised(p, Scale)
  BY DEF bt_v3_distribution
<1>3. DirectDistribution(count, window, Scale)
        = Quantised([b \in Byte |-> DirectProb(count, window, b)], Scale)
  BY DEF DirectDistribution
<1> HIDE DEF p
<1>4. DirectDistribution(count, window, Scale) = Quantised(p, Scale)
  BY <1>1, <1>3
<1> QED
  BY <1>1, <1>2, <1>4, QuantisedIs

-----------------------------------------------------------------------------
(***************************************************************************)
(* The models and priors that are made, and the distributions of the       *)
(* callbacks that use them.                                                *)
(***************************************************************************)
(***************************************************************************)
(* The models the code makes: counts of bytes after contexts no longer     *)
(* than Depth, a window no longer either.                                  *)
(***************************************************************************)
Contexts == {c \in Seq(Byte) : Len(c) <= Depth}
Models   == [count : UNION {[C -> [Byte -> Nat]] : C \in SUBSET Contexts},
             window : Contexts, frozen : BOOLEAN]

\* What the distribution needs of them.
LEMMA ModelsAre ==
    ASSUME NEW m \in Models
    PROVE  /\ CountsOK(m.count) /\ WindowOK(m.window)
           /\ DOMAIN m.count \subseteq Contexts
           /\ \A c \in DOMAIN m.count : m.count[c] \in [Byte -> Nat]
<1>1. PICK C \in SUBSET Contexts : m.count \in [C -> [Byte -> Nat]]
  BY DEF Models
<1>2. DOMAIN m.count = C /\ \A c \in C : m.count[c] \in [Byte -> Nat]
  BY <1>1
<1> QED
  BY <1>2 DEF CountsOK, WindowOK, Contexts, Models

\* An ending of a window is a context,
LEMMA EndingIs ==
    ASSUME NEW w \in Contexts, NEW n \in 1 .. Len(w) PROVE Ending(w, n) \in Contexts
<1>1. w \in Seq(Byte) /\ Len(w) \in Nat /\ Len(w) <= Depth /\ Depth \in Nat
  BY BtDistAssumption DEF Contexts
<1>2. /\ Len(w) - n + 1 \in 1 .. Len(w) + 1 /\ Len(w) \in Len(w) - n + 1 - 1 .. Len(w)
      /\ Len(w) - (Len(w) - n + 1) + 1 = n
  BY <1>1
<1>3. \A i \in Len(w) - n + 1 .. Len(w) : w[i] \in Byte
  BY <1>1
<1>4. Ending(w, n) \in Seq(Byte) /\ Len(Ending(w, n)) = n
  BY <1>1, <1>2, <1>3 DEF Ending
<1> QED
  BY <1>1, <1>4 DEF Contexts

\* and so is a window that moved on.
LEMMA PushIs ==
    ASSUME NEW w \in Contexts, NEW b \in Byte PROVE Push(w, b) \in Contexts
<1>1. w \in Seq(Byte) /\ Len(w) \in Nat /\ Len(w) <= Depth /\ Depth \in Nat \ {0}
  BY BtDistAssumption DEF Contexts
<1>2. CASE Len(w) < Depth
  <2>1. Append(w, b) \in Seq(Byte) /\ Len(Append(w, b)) = Len(w) + 1
    BY <1>1
  <2> QED
    BY <1>1, <1>2, <2>1 DEF Push, Contexts
<1>3. CASE ~(Len(w) < Depth)
  <2>1. w # <<>>
    BY <1>1, <1>3
  <2>2. Tail(w) \in Seq(Byte) /\ Len(Tail(w)) = Len(w) - 1
    BY <1>1, <2>1
  <2> DEFINE t == Tail(w)
  <2> HIDE DEF t
  <2>3. Append(t, b) \in Seq(Byte) /\ Len(Append(t, b)) = Len(w)
    BY <1>1, <2>2 DEF t
  <2>4. Push(w, b) = Append(t, b)
    BY <1>3 DEF Push, t
  <2> QED
    BY <1>1, <2>3, <2>4 DEF Contexts
<1> QED
  BY <1>2, <1>3

\* Training on a byte makes a model of a model,
LEMMA TrainedIs ==
    ASSUME NEW m \in Models, NEW b \in Byte PROVE Trained(m, b) \in Models
<1> DEFINE endings == {Ending(m.window, n) : n \in 1 .. Len(m.window)}
           Freqs(c) == IF c \in DOMAIN m.count THEN m.count[c] ELSE [x \in Byte |-> 0]
           counted == [c \in DOMAIN m.count \cup endings |->
                         IF c \in endings THEN [Freqs(c) EXCEPT ![b] = @ + 1] ELSE m.count[c]]
           window == Push(m.window, b)
<1>1. /\ DOMAIN m.count \subseteq Contexts /\ m.window \in Contexts /\ m.frozen \in BOOLEAN
      /\ \A c \in DOMAIN m.count : m.count[c] \in [Byte -> Nat]
  BY ModelsAre DEF Models
<1>2. endings \subseteq Contexts
  BY <1>1, EndingIs
<1>3. \A c : Freqs(c) \in [Byte -> Nat]
  BY <1>1
<1>4. \A c : [Freqs(c) EXCEPT ![b] = @ + 1] \in [Byte -> Nat]
  <2> DEFINE F == [Byte -> Nat]
  <2>1. \A f \in F : [f EXCEPT ![b] = @ + 1] \in F
    OBVIOUS
  <2> HIDE DEF F
  <2>2. \A c : Freqs(c) \in F
    BY <1>3 DEF F
  <2> HIDE DEF Freqs
  <2>3. \A c : [Freqs(c) EXCEPT ![b] = @ + 1] \in F
    BY <2>1, <2>2
  <2> QED
    BY <2>3 DEF F
<1>5. counted \in UNION {[C -> [Byte -> Nat]] : C \in SUBSET Contexts}
  <2> DEFINE C == DOMAIN m.count \cup endings
             one(c) == [Freqs(c) EXCEPT ![b] = @ + 1]
  <2>1. C \in SUBSET Contexts
    BY <1>1, <1>2
  <2>2. \A c \in C : c \notin endings => c \in DOMAIN m.count
    OBVIOUS
  <2>3. counted = [c \in C |-> IF c \in endings THEN one(c) ELSE m.count[c]]
    OBVIOUS
  <2>4. \A c \in C : one(c) \in [Byte -> Nat]
    BY <1>4
  <2> HIDE DEF C, one, counted, endings
  <2>5. \A c \in C : (IF c \in endings THEN one(c) ELSE m.count[c]) \in [Byte -> Nat]
    BY <1>1, <2>2, <2>4
  <2>6. counted \in [C -> [Byte -> Nat]]
    BY <2>3, <2>5
  <2> QED
    BY <2>1, <2>6
<1>6. window \in Contexts
  BY <1>1, PushIs
<1>7. Trained(m, b) = [m EXCEPT !.count = IF m.frozen THEN @ ELSE counted, !.window = window]
  BY Zenon DEF Trained
<1> HIDE DEF counted, window
<1> QED
  BY <1>5, <1>6, <1>7 DEF Models

\* as an empty one is,
LEMMA InitModel == bt_v3_init \in Models
<1>1. NoCount \in [{} -> [Byte -> Nat]] /\ {} \in SUBSET Contexts
  BY DEF NoCount
<1>2. <<>> \in Contexts
  BY BtDistAssumption DEF Contexts
<1> QED
  BY <1>1, <1>2 DEF bt_v3_init, Models

\* so that training on a corpus makes one.
LEMMA TrainedOnIs == \A bytes \in Corpora : TrainedOn[bytes] \in Models
<1> TAKE bytes \in Corpora
<1> DEFINE n == Len(bytes)
           D == DOMAIN bytes
           G == [p \in D \X Models |-> Trained(p[2], bytes[p[1]])]
           P(e) == e = [s \in SUBSET D |-> IF s = {} THEN bt_v3_init
                               ELSE Trained(e[s \ {Max(s)}], bytes[Max(s)])]
           h == CHOOSE e : P(e)
<1>1. D = 1 .. n /\ n \in Nat /\ \A i \in D : bytes[i] \in Byte
  BY TablesAssumption
<1>2. bt_v3_init \in Models
  BY InitModel
<1>3. TrainedOn[bytes] = h[D]
  BY Zenon DEF TrainedOn, FoldLeft, MapThenFoldSet
<1> HIDE DEF n, D
<1>4. \A i \in D, m \in Models : Trained(m, bytes[i]) \in Models
  BY <1>1, TrainedIs
<1>5. G \in [(1 .. n) \X Models -> Models]
  BY <1>1, <1>4
<1>6. \A i \in D, m \in Models : G[<<i, m>>] = Trained(m, bytes[i])
  OBVIOUS
<1> HIDE DEF G
<1>7. PICK run : LeftRun(n, Models, bt_v3_init, G, run)
  BY <1>1, <1>2, <1>5, LeftDefined
<1>8. P(run)
  <2>1. \A s \in SUBSET D : run[s] = IF s = {} THEN bt_v3_init
                                   ELSE Trained(run[s \ {Max(s)}], bytes[Max(s)])
    BY <1>1, <1>6, <1>7 DEF LeftRun
  <2> QED
    BY <1>1, <1>7, <2>1 DEF LeftRun
<1>9. P(h)
  BY <1>8
<1> HIDE DEF h
<1>10. h[{}] \in Models
  BY <1>2, <1>9
<1>11. ASSUME NEW s \in SUBSET (1 .. n), s # {}, h[s \ {Max(s)}] \in Models
       PROVE  h[s] \in Models
  <2>1. Max(s) \in D
    BY <1>1, <1>11, LastIs
  <2>2. h[s] = Trained(h[s \ {Max(s)}], bytes[Max(s)])
    BY <1>1, <1>9, <1>11
  <2> QED
    BY <1>4, <1>11, <2>1, <2>2
<1>12. h[1 .. n] \in Models
  BY <1>1, <1>10, <1>11, LeftStays
<1> QED
  BY <1>1, <1>3, <1>12

\* A prior holds a model, and tables with no empty byte and the scale as total.
PriorSound(p) ==
    /\ p.bt \in Models
    /\ \A ctx \in DOMAIN p.lm : Sound(p.lm[ctx])
    /\ \E rec \in Nat : DOMAIN p.schema = 0 .. rec - 1
    /\ \A pos \in DOMAIN p.schema : Sound(p.schema[pos].widths)

\* The landmarks a prior is saved with are contexts of the model.
LEMMA LandmarksSound ==
    ASSUME NEW m \in Models, NEW n, NEW k, NEW chosen \in Landmarks(m.count, n, k)
    PROVE  LET lm == LandmarkTables(m.count, chosen, Scale)
           IN  \A ctx \in DOMAIN lm : Sound(lm[ctx])
<1> DEFINE lm == LandmarkTables(m.count, chosen, Scale)
<1>1. chosen \subseteq DOMAIN m.count
  BY DEF Landmarks, kSubset
<1>2. DOMAIN lm = chosen /\ \A ctx \in chosen :
          lm[ctx] = lm_quantize(LandmarkWeights(m.count, ctx, Scale), Scale)
  BY DEF LandmarkTables
<1>3. ASSUME NEW ctx \in chosen
      PROVE  LandmarkWeights(m.count, ctx, Scale) \in [Byte -> Nat]
  <2> DEFINE p == bt_v3_distribution(m.count, ctx, Scale)
             f == m.count[ctx]
  <2>1. CountsOK(m.count) /\ f \in [Byte -> Nat] /\ WindowOK(ctx)
    BY <1>1, ModelsAre DEF WindowOK, Contexts
  <2>2. p \in Widths
    BY <2>1, DistributionIs
  <2>3. LandmarkWeights(m.count, ctx, Scale) = [b \in Byte |-> f[b] * Scale + LM_BACKOFF_W * p[b]]
    BY DEF LandmarkWeights
  <2> HIDE DEF p, f
  <2>4. Scale \in Nat /\ LM_BACKOFF_W \in Nat /\ \A x, y, z, t \in Nat : x * y + z * t \in Nat
    BY Sizes, TablesAssumption
  <2>5. \A b \in Byte : f[b] \in Nat /\ p[b] \in Nat
    BY <2>1, <2>2, WidthsAre DEF f
  <2> QED
    BY <2>3, <2>4, <2>5
<1> HIDE DEF lm
<1>4. \A ctx \in DOMAIN lm : Sound(lm[ctx])
  BY <1>2, <1>3, QuantizeSound DEF Sound
<1> QED
  BY <1>4 DEF lm

\* The counts of a histogram of finitely many values are naturals.
LEMMA HistogramIs ==
    ASSUME NEW values, IsFiniteSet(DOMAIN values) PROVE Histogram(values) \in [Byte -> Nat]
<1>1. \A b \in Byte : Cardinality({r \in DOMAIN values : values[r] = b}) \in Nat
  BY FS_Subset, FS_CardinalityType
<1> QED
  BY <1>1 DEF Histogram

\* So a schema has sound widths at every position, however it codes them.
LEMMA SchemaSound ==
    ASSUME NEW bytes \in Corpora, NEW rec \in RecordSizes, NEW pos
    PROVE  Sound(Position(bytes, rec, pos, Scale).widths)
<1> DEFINE nrec == RecordCount(bytes, rec)
           B == [r \in 0 .. nrec - 1 |-> At(bytes, rec, r, pos)]
           D == [r \in 1 .. nrec - 1 |-> DeltaAt(bytes, rec, r, pos)]
<1>1. nrec \in Nat
  <2>1. Len(bytes) \in Nat /\ rec \in Nat \ {0}
    BY TablesAssumption
  <2> QED
    BY <2>1 DEF RecordCount
<1>2. \E d : Position(bytes, rec, pos, Scale)
               = [delta |-> d, widths |-> lm_quantize(IF d THEN Histogram(D) ELSE Histogram(B), Scale)]
  BY Zenon DEF Position
<1> HIDE DEF nrec
<1>3. Histogram(B) \in [Byte -> Nat] /\ Histogram(D) \in [Byte -> Nat]
  <2>1. IsFiniteSet(0 .. nrec - 1) /\ IsFiniteSet(1 .. nrec - 1)
    BY <1>1, FS_Interval
  <2>2. DOMAIN B = 0 .. nrec - 1 /\ DOMAIN D = 1 .. nrec - 1
    OBVIOUS
  <2> HIDE DEF B, D
  <2> QED
    BY <2>1, <2>2, HistogramIs
<1> HIDE DEF B, D
<1>4. \A d : Sound(lm_quantize(IF d THEN Histogram(D) ELSE Histogram(B), Scale))
  <2>1. Sound(lm_quantize(Histogram(D), Scale)) /\ Sound(lm_quantize(Histogram(B), Scale))
    BY <1>3, QuantizeSound DEF Sound
  <2> QED
    BY <2>1
<1>5. PICK d : Position(bytes, rec, pos, Scale)
               = [delta |-> d, widths |-> lm_quantize(IF d THEN Histogram(D) ELSE Histogram(B), Scale)]
  BY <1>2
<1> DEFINE w == lm_quantize(IF d THEN Histogram(D) ELSE Histogram(B), Scale)
<1>6. Sound(w)
  BY <1>4
<1> HIDE DEF w
<1>7. Position(bytes, rec, pos, Scale).widths = w
  BY <1>5 DEF w
<1> QED
  BY <1>6, <1>7

\* Without a prior there are no tables; every prior built has sound ones.
LEMMA PriorsSound ==
    /\ PriorSound(NoPrior)
    /\ \A bytes \in Corpora : \A p \in BuiltPriors[bytes] : PriorSound(p)
<1>1. ASSUME NEW m \in Models PROVE PriorSound(Plain(m))
  <2>1. Plain(m).bt = m /\ DOMAIN Plain(m).lm = {} /\ DOMAIN Plain(m).schema = {}
    BY DEF Plain, NoCount
  <2>2. 0 \in Nat /\ 0 .. 0 - 1 = {}
    OBVIOUS
  <2> QED
    BY <2>1, <2>2 DEF PriorSound
<1>2. ASSUME NEW m \in Models, NEW lm, \A ctx \in DOMAIN lm : Sound(lm[ctx])
      PROVE  PriorSound([Plain(m) EXCEPT !.lm = lm])
  <2> DEFINE p == [Plain(m) EXCEPT !.lm = lm]
  <2>1. p.bt = m /\ p.lm = lm /\ p.schema = Plain(m).schema
    BY DEF Plain
  <2> HIDE DEF p
  <2>2. PriorSound(p)
    BY <1>1, <1>2, <2>1 DEF PriorSound
  <2> QED
    BY <2>2 DEF p
<1>3. ASSUME NEW m \in Models, NEW schema, NEW rec \in Nat, DOMAIN schema = 0 .. rec - 1,
             \A pos \in DOMAIN schema : Sound(schema[pos].widths)
      PROVE  PriorSound([Plain(m) EXCEPT !.schema = schema])
  <2> DEFINE p == [Plain(m) EXCEPT !.schema = schema]
  <2>1. p.bt = m /\ p.lm = Plain(m).lm /\ p.schema = schema
    BY DEF Plain
  <2> HIDE DEF p
  <2>2. PriorSound(p)
    BY <1>1, <1>3, <2>1 DEF PriorSound
  <2> QED
    BY <2>2 DEF p
<1>4. ASSUME NEW bytes \in Corpora, NEW p \in BuiltPriors[bytes] PROVE PriorSound(p)
  <2> DEFINE m == TrainedOn[bytes]
  <2>1. m \in Models
    BY TrainedOnIs
  <2>2. \/ p = Plain(m)
        \/ \E chosen \in Landmarks(m.count, LmLength, LmCount) :
              p = [Plain(m) EXCEPT !.lm = LandmarkTables(m.count, chosen, Scale)]
        \/ \E rec \in RecordSizes :
              p = [Plain(m) EXCEPT !.schema = IF RecordCount(bytes, rec) < 2 THEN @
                                              ELSE Schema(bytes, rec, Scale)]
    BY Zenon DEF BuiltPriors
  <2> HIDE DEF m
  <2>3. CASE p = Plain(m)
    BY <1>1, <2>1, <2>3
  <2>4. ASSUME NEW chosen \in Landmarks(m.count, LmLength, LmCount),
               p = [Plain(m) EXCEPT !.lm = LandmarkTables(m.count, chosen, Scale)]
        PROVE  PriorSound(p)
    <3> DEFINE lm == LandmarkTables(m.count, chosen, Scale)
    <3>1. \A ctx \in DOMAIN lm : Sound(lm[ctx])
      BY <2>1, LandmarksSound
    <3> HIDE DEF lm
    <3>2. PriorSound([Plain(m) EXCEPT !.lm = lm])
      BY <1>2, <2>1, <3>1
    <3> QED
      BY <2>4, <3>2 DEF lm
  <2>5. ASSUME NEW rec \in RecordSizes,
               p = [Plain(m) EXCEPT !.schema = IF RecordCount(bytes, rec) < 2 THEN @
                                               ELSE Schema(bytes, rec, Scale)]
        PROVE  PriorSound(p)
    <3> DEFINE schema == Schema(bytes, rec, Scale)
    <3>1. CASE RecordCount(bytes, rec) < 2
      <4>1. p = Plain(m)
        BY <2>5, <3>1 DEF Plain
      <4> QED
        BY <1>1, <2>1, <4>1
    <3>2. CASE ~(RecordCount(bytes, rec) < 2)
      <4>1. p = [Plain(m) EXCEPT !.schema = schema]
        BY <2>5, <3>2
      <4>2. DOMAIN schema = 0 .. rec - 1 /\ rec \in Nat
        BY TablesAssumption DEF Schema
      <4>3. \A pos \in DOMAIN schema : Sound(schema[pos].widths)
        BY SchemaSound DEF Schema
      <4> HIDE DEF schema
      <4> QED
        BY <1>3, <2>1, <4>1, <4>2, <4>3
    <3> QED
      BY <3>1, <3>2
  <2> QED
    BY <2>2, <2>3, <2>4, <2>5
<1>5. PriorSound(NoPrior)
  <2>1. bt_v3_init \in Models
    BY InitModel
  <2> QED
    BY <1>1, <2>1 DEF NoPrior
<1> QED
  BY <1>4, <1>5

(***************************************************************************)
(* What the callbacks read is fit to code with.                            *)
(***************************************************************************)
ChannelsOK(c) == /\ \E n \in Nat : DOMAIN c = 1 .. n
                 /\ \A i \in DOMAIN c : Channel(c[i]) /\ ChannelOK(c[i])

Ready(s) ==
    /\ s.bt \in Models
    /\ cec.kind = "aux" => ChannelsOK(s.combo)
    /\ cec.kind = "structural" =>
          /\ s.pos \in 0 .. Records - 1
          /\ s.prev \in [0 .. Records - 1 -> Byte] /\ s.cur \in [0 .. Records - 1 -> Byte]

SymsOK == \A k \in 1 .. Len(wire) : wire[k].sym \in Byte

TablesInv == /\ corpus \in Corpora /\ PriorSound(prior) /\ g.bt \in Models
             /\ side # "idle" => Ready(g) /\ SymsOK

\* A model's distribution is one the range coder can use.
LEMMA ModelWidths ==
    ASSUME NEW m \in Models
    PROVE  /\ BtWidths(m) \in Widths /\ Total(BtWidths(m)) <= Scale
           /\ BtWidths(m) = DirectDistribution(m.count, m.window, Scale)
  BY ModelsAre, DistributionIs, Zenon DEF BtWidths

\* There is a position for each record byte.
LEMMA SchemaDomain ==
    ASSUME PriorSound(prior)
    PROVE  Records \in Nat /\ DOMAIN prior.schema = 0 .. Records - 1
<1>1. PICK rec \in Nat : DOMAIN prior.schema = 0 .. rec - 1
  BY DEF PriorSound
<1>2. Cardinality(0 .. rec - 1) = rec
  BY FS_Interval
<1> QED
  BY <1>1, <1>2 DEF Records

\* Every callback gives widths that leave no byte empty; the channels use
\* the whole scale.
LEMMA DistIs ==
    ASSUME TablesInv, InUse, Ready(g)
    PROVE  /\ Dist(g) \in Widths /\ Total(Dist(g)) <= Scale
           /\ cec.kind = "aux" => Total(Dist(g)) = Scale
<1>1. CASE cec.kind = "aux"
  <2>1. g.bt \in Models /\ ChannelsOK(g.combo)
    BY <1>1 DEF Ready
  <2> DEFINE w == BtWidths(g.bt)
             v == symdist_normalize(w, Scale)
  <2>2. w \in [Byte -> Nat]
    BY <2>1, ModelWidths, WidthsAre
  <2> HIDE DEF w
  <2>3. Sound(v)
    BY <2>2, NormalizeSound
  <2> HIDE DEF v
  <2>4. Dist(g) = AdjustAll(g.combo, v, Scale)
    BY <1>1, Zenon DEF Dist, aux_dist, v, w
  <2>5. Sound(AdjustAll(g.combo, v, Scale))
    <3>1. PICK n \in Nat : DOMAIN g.combo = 1 .. n
      BY <2>1 DEF ChannelsOK
    <3>2. \A i \in 1 .. n : ChannelOK(g.combo[i])
      BY <2>1, <3>1 DEF ChannelsOK
    <3> QED
      BY <2>3, <3>1, <3>2, AdjustAllSound
  <2> QED
    BY <2>4, <2>5, Sizes DEF Sound
<1>2. CASE cec.kind = "landmark"
  <2>1. g.bt \in Models
    BY <1>2 DEF Ready
  <2> DEFINE w == BtWidths(g.bt)
  <2>2. w \in Widths /\ Total(w) <= Scale
    BY <2>1, ModelWidths
  <2> HIDE DEF w
  <2>3. \/ Dist(g) = w
        \/ \E key \in DOMAIN prior.lm : Dist(g) = Checked(prior.lm[key], w)
    BY <1>2, Zenon DEF Dist, landmark_dist, w
  <2>4. \A key \in DOMAIN prior.lm : Sound(prior.lm[key])
    BY DEF TablesInv, PriorSound
  <2> QED
    BY <1>2, <2>2, <2>3, <2>4, Sizes DEF Checked, Sound
<1>3. CASE cec.kind = "structural"
  <2>1. /\ Records \in Nat /\ DOMAIN prior.schema = 0 .. Records - 1
        /\ \A pos \in DOMAIN prior.schema : Sound(prior.schema[pos].widths)
    BY SchemaDomain DEF TablesInv, PriorSound
  <2>2. g.pos \in 0 .. Records - 1 /\ g.prev[g.pos] \in Byte
    BY <1>3, <2>1 DEF Ready
  <2> DEFINE w == prior.schema[g.pos].widths
             shift == IF prior.schema[g.pos].delta THEN g.prev[g.pos] ELSE 0
             v == [b \in Byte |-> w[(b - shift) % NVal]]
  <2>3. Sound(w) /\ shift \in Byte
    BY <2>1, <2>2, Sizes
  <2>4. Dist(g) = Checked(v, Even(Scale))
    BY <1>3, Zenon DEF Dist, structural_dist
  <2> HIDE DEF shift, w
  <2>5. v \in Widths
    <3>1. \A b \in Byte : (b - shift) % NVal \in Byte
      <4>1. NVal \in Nat \ {0} /\ \A b \in Byte : b - shift \in Int
        BY <2>3, Sizes DEF Byte
      <4>2. \A x \in Int : x % NVal \in 0 .. NVal - 1
        BY <4>1
      <4> QED
        BY <4>1, <4>2 DEF Byte
    <3>2. \A b \in Byte : w[(b - shift) % NVal] \in Nat \ {0}
      BY <2>3, <3>1 DEF Sound, Widths
    <3> QED
      BY <3>2 DEF Widths
  <2> HIDE DEF v
  <2> QED
    BY <1>3, <2>4, <2>5, EvenIs, Sizes DEF Checked
<1>4. CASE cec.kind \notin {"aux", "landmark", "structural"}
  <2>1. Dist(g) = BtWidths(g.bt) /\ g.bt \in Models
    BY <1>4, Zenon DEF Dist, Ready
  <2> QED
    BY <1>4, <2>1, ModelWidths
<1> QED
  BY <1>1, <1>2, <1>3, <1>4

\* A preparation leaves the callbacks ready.
LEMMA StartReady ==
    /\ corpus \in Corpora /\ PriorSound(prior) /\ InUse /\ Start(g)
    /\ cec.kind = "structural" => g.bt \in Models
    => Ready(g)
<1> DEFINE s == g
<1> HIDE DEF s
<1> SUFFICES ASSUME corpus \in Corpora, PriorSound(prior), InUse, Start(s),
                    cec.kind = "structural" => s.bt \in Models
             PROVE  Ready(s)
  BY DEF s
<1>1. CASE cec.kind = "structural"
  <2>1. Records \in Nat /\ Records > 0
    BY <1>1, SchemaDomain DEF InUse, PriorKind
  <2>2. Zeros(Records) \in [0 .. Records - 1 -> Byte]
    BY Sizes DEF Zeros
  <2>3. s.pos = 0 /\ s.prev = Zeros(Records) /\ s.cur = Zeros(Records)
    BY <1>1 DEF Start
  <2>4. 0 \in 0 .. Records - 1
    BY <2>1
  <2> QED
    BY <1>1, <2>2, <2>3, <2>4 DEF Ready
<1>2. CASE cec.kind = "aux"
  <2> DEFINE c == cec.combo
             d == LearnAll(ResetAll(c), corpus)
  <2>1. s.bt = TrainedOn[corpus] /\ s.combo = d
    BY <1>2 DEF Start
  <2>2. c \in Combos
    BY <1>2 DEF InUse
  <2> HIDE DEF c
  <2>3. PICK n \in Nat : DOMAIN c = 1 .. n
    BY <2>2, CombosAssumption
  <2>4. SameChannels(d, c)
    BY <2>2, MadeSame, LearnedSame
  <2>5. \A i \in DOMAIN c : c[i].kind \in Kinds /\ c[i].alpha \in 0 .. A_DEN
    BY <2>2, CombosAssumption DEF aux_new
  <2>6. \A i \in DOMAIN d : d[i].corpus = corpus
    <3>1. DOMAIN d = DOMAIN c /\ \A i \in DOMAIN c : d[i] = learn(reset(c[i]), corpus)
      BY DEF LearnAll, ResetAll
    <3>2. ASSUME NEW ch, Channel(ch) PROVE learn(reset(ch), corpus).corpus = corpus
      <4> DEFINE r == reset(ch)
      <4>1. Channel(r)
        BY <3>2, ChannelUpdate, Zenon DEF reset
      <4> HIDE DEF r
      <4>2. PICK m : learn(r, corpus) = [r EXCEPT !.corpus = corpus, !.memory = m]
        BY Zenon DEF learn
      <4>3. [r EXCEPT !.corpus = corpus, !.memory = m].corpus = corpus
        BY <4>1 DEF Channel
      <4> QED
        BY <4>2, <4>3 DEF r
    <3>3. \A i \in DOMAIN c : Channel(c[i])
      BY <2>2, MadeSame DEF SameChannels
    <3> HIDE DEF d
    <3> QED
      BY <3>1, <3>2, <3>3
  <2> HIDE DEF d
  <2>7. corpus \in Seq(Byte)
    BY TablesAssumption
  <2>8. ChannelsOK(d)
    BY <2>3, <2>4, <2>5, <2>6, <2>7 DEF ChannelsOK, SameChannels, ChannelOK
  <2> QED
    BY <1>2, <2>1, <2>8, TrainedOnIs DEF Ready
<1>3. CASE cec.kind \notin {"structural", "aux"}
  <2>1. CASE cec.kind = "own"
    BY <1>3, <2>1, TrainedOnIs DEF Ready, Start
  <2>2. CASE cec.kind # "own"
    <3>1. s.bt = [prior.bt EXCEPT !.frozen = TRUE, !.window = Kept(@, cec.keep)]
      BY <1>3, <2>2 DEF Start
    <3>2. prior.bt \in Models /\ <<>> \in Contexts
      BY InitModel DEF PriorSound, bt_v3_init, Models
    <3>3. Kept(prior.bt.window, cec.keep) \in Contexts
      BY <3>2 DEF Kept, Models
    <3>4. s.bt \in Models
      BY <3>1, <3>2, <3>3 DEF Models
    <3> QED
      BY <1>3, <3>4 DEF Ready
  <2> QED
    BY <2>1, <2>2
<1> QED
  BY <1>1, <1>2, <1>3

\* Training on a byte keeps them ready.
LEMMA TrainedReady ==
    ASSUME PriorSound(prior), NEW s, Globals(s), Ready(s), NEW b \in Byte
    PROVE  Ready(TrainedGlobals(s, b))
<1>1. CASE cec.kind = "structural"
  <2> DEFINE P == 0 .. Records - 1
             cur == [s.cur EXCEPT ![s.pos] = b]
  <2>1. /\ Records \in Nat /\ s.pos \in P /\ s.prev \in [P -> Byte] /\ s.cur \in [P -> Byte]
        /\ s.bt \in Models
    BY <1>1, SchemaDomain DEF Ready
  <2>2. cur \in [P -> Byte]
    BY <2>1
  <2> HIDE DEF cur
  <2>3. TrainedGlobals(s, b) = IF s.pos + 1 >= Records
                               THEN [s EXCEPT !.pos = 0, !.prev = cur, !.cur = cur]
                               ELSE [s EXCEPT !.pos = @ + 1, !.cur = cur]
    BY <1>1, Zenon DEF TrainedGlobals, TrainedRecords, cur
  <2>4. CASE s.pos + 1 >= Records
    <3> DEFINE t == [s EXCEPT !.pos = 0, !.prev = cur, !.cur = cur]
    <3>1. t.pos = 0 /\ t.prev = cur /\ t.cur = cur /\ t.bt = s.bt
      BY DEF Globals
    <3>2. TrainedGlobals(s, b) = t /\ 0 \in P
      BY <2>1, <2>3, <2>4
    <3> HIDE DEF t
    <3> QED
      BY <1>1, <2>1, <2>2, <3>1, <3>2 DEF Ready
  <2>5. CASE ~(s.pos + 1 >= Records)
    <3> DEFINE t == [s EXCEPT !.pos = @ + 1, !.cur = cur]
    <3>1. t.pos = s.pos + 1 /\ t.prev = s.prev /\ t.cur = cur /\ t.bt = s.bt
      BY DEF Globals
    <3>2. TrainedGlobals(s, b) = t /\ s.pos + 1 \in P
      BY <2>1, <2>3, <2>5
    <3> HIDE DEF t
    <3> QED
      BY <1>1, <2>1, <2>2, <3>1, <3>2 DEF Ready
  <2> QED
    BY <2>4, <2>5
<1>2. CASE cec.kind = "aux"
  <2>1. s.bt \in Models /\ ChannelsOK(s.combo)
    BY <1>2 DEF Ready
  <2> DEFINE m == Trained(s.bt, b)
             o == ObserveAll(s.combo, b)
             t == [s EXCEPT !.bt = m, !.combo = o]
  <2>2. m \in Models
    BY <2>1, TrainedIs
  <2>3. DOMAIN o = DOMAIN s.combo /\ \A i \in DOMAIN s.combo : o[i] = observe(s.combo[i], b)
    BY DEF ObserveAll
  <2>4. ASSUME NEW ch, Channel(ch), ChannelOK(ch)
        PROVE  Channel(observe(ch, b)) /\ ChannelOK(observe(ch, b))
    BY <2>4 DEF Channel, ChannelOK, observe
  <2> HIDE DEF m, o
  <2>5. ChannelsOK(o)
    BY <2>1, <2>3, <2>4 DEF ChannelsOK
  <2>6. t.bt = m /\ t.combo = o
    BY DEF Globals
  <2>7. TrainedGlobals(s, b) = t
    BY <1>2 DEF TrainedGlobals, m, o
  <2> HIDE DEF t
  <2> QED
    BY <1>2, <2>2, <2>5, <2>6, <2>7 DEF Ready
<1>3. CASE cec.kind \notin {"structural", "aux"}
  <2> DEFINE m == Trained(s.bt, b)
             t == [s EXCEPT !.bt = m]
  <2>1. m \in Models
    BY <1>3, TrainedIs DEF Ready
  <2> HIDE DEF m
  <2>2. t.bt = m
    BY DEF Globals
  <2>3. TrainedGlobals(s, b) = t
    BY <1>3 DEF TrainedGlobals, m
  <2> HIDE DEF t
  <2> QED
    BY <1>3, <2>1, <2>2, <2>3 DEF Ready
<1> QED
  BY <1>1, <1>2, <1>3

\* An empty window, or the same one.
LEMMA KeptIs ==
    ASSUME NEW m \in Models, NEW keep
    PROVE  [m EXCEPT !.window = Kept(@, keep)] \in Models
<1>1. m.window \in Contexts /\ <<>> \in Contexts
  BY InitModel DEF bt_v3_init, Models
<1>2. Kept(m.window, keep) \in Contexts
  BY <1>1 DEF Kept
<1> QED
  BY <1>2 DEF Models

\* A preparation for records leaves the model, but for its window.
LEMMA RecordsPrepared ==
    ASSUME Globals(g), g.bt \in Models, PriorKind = "structural", NEW c,
           c.kind = PriorKind
    PROVE  Prepared(c).bt \in Models
<1>1. Prepared(c) = [msg_begin EXCEPT !.bt.window = Kept(@, c.keep)]
  BY Zenon DEF Prepared, PreparePrior
<1> DEFINE m == [g.bt EXCEPT !.window = Kept(@, c.keep)]
<1>2. msg_begin.bt = g.bt /\ DOMAIN msg_begin = DOMAIN g /\ "bt" \in DOMAIN g
  BY DEF msg_begin, Globals
<1>3. [msg_begin EXCEPT !.bt.window = Kept(@, c.keep)].bt = m
  BY <1>2
<1>4. m \in Models
  BY KeptIs
<1> QED
  BY <1>1, <1>3, <1>4

\* Tables and models stay sound.
LEMMA TablesStep == ASSUME Inv, TablesInv, [Next]_vars PROVE TablesInv'
<1>0. (/\ corpus \in Corpora /\ PriorSound(prior) /\ InUse /\ Start(g)
       /\ cec.kind = "structural" => g.bt \in Models
       => Ready(g))'
  BY StartReady, PTL
<1>1. CASE OpenPrior
  <2>1. corpus' = corpus /\ side' = "idle" /\ prior' \in BuiltPriors[corpus]
        /\ g' = g
    BY <1>1 DEF OpenPrior
  <2> QED
    BY <2>1, PriorsSound DEF TablesInv
<1>2. ASSUME NEW c \in Preparations, EncodeBegin(c) PROVE TablesInv'
  <2>1. UNCHANGED <<corpus, prior>> /\ g' = Prepared(c) /\ cec' = c /\ side = "idle"
        /\ wire' = <<>> /\ PriorKind' = PriorKind
    BY <1>2 DEF EncodeBegin, PriorKind, Records
  <2>2. Start(g)' /\ InUse'
    BY <1>2, <2>1, PreparedIdle
  <2>3. corpus' \in Corpora /\ PriorSound(prior')
    BY <2>1 DEF TablesInv
  <2>4. cec'.kind = "structural" => g'.bt \in Models
    <3>1. cec'.kind = "structural" => PriorKind = "structural" /\ c.kind = PriorKind
      BY <2>1, <2>2 DEF InUse
    <3> QED
      BY <2>1, <3>1, RecordsPrepared DEF TablesInv, Inv
  <2>5. Ready(g)'
    BY <2>2, <2>3, <2>4, <1>0
  <2>6. SymsOK'
    BY <2>1, EmptyIsSeq DEF SymsOK
  <2> QED
    BY <2>3, <2>5, <2>6 DEF TablesInv, Ready
<1>3. ASSUME NEW b \in Byte, EncodeByte(b) PROVE TablesInv'
  <2>1. /\ UNCHANGED <<corpus, prior, cec>> /\ g' = TrainedGlobals(g, b)
        /\ wire' = Append(wire, [sym |-> b, coder |-> g]) /\ side # "idle" /\ IsSeq(wire)
        /\ Globals(g)
    BY <1>3, TrainIsTrained DEF EncodeByte, Inv, Coded
  <2>2. Ready(g')
    BY <2>1, TrainedReady DEF TablesInv
  <2>3. Ready(g)'
    BY <2>1, <2>2 DEF Ready, Records
  <2>4. SymsOK'
    <3> DEFINE e == [sym |-> b, coder |-> g]
    <3>1. e.sym = b
      OBVIOUS
    <3> HIDE DEF e
    <3>2. /\ Len(wire) \in Nat /\ Len(wire') = Len(wire) + 1
          /\ \A i \in 1 .. Len(wire) : wire'[i] = wire[i]
          /\ wire'[Len(wire) + 1] = e
      BY <2>1, AppendAny DEF e
    <3> QED
      BY <2>1, <3>1, <3>2 DEF SymsOK, TablesInv
  <2> QED
    BY <2>1, <2>3, <2>4 DEF TablesInv, Ready
<1>4. CASE DecodeBegin
  <2>1. UNCHANGED <<corpus, prior, cec, wire>> /\ g' = Prepared(cec) /\ side = "encode"
        /\ PriorKind' = PriorKind
    BY <1>4 DEF DecodeBegin, PriorKind, Records
  <2>2. Start(g)'
    BY <1>4, PreparedAgain DEF DecodeBegin
  <2>3. InUse /\ InUse'
    BY <2>1 DEF Inv, InUse
  <2>4. cec'.kind = "structural" => g'.bt \in Models
    <3>1. cec.kind = "structural" => PriorKind = "structural" /\ cec.kind = PriorKind
      BY <2>3 DEF InUse
    <3> QED
      BY <2>1, <3>1, RecordsPrepared DEF TablesInv, Inv
  <2>5. Ready(g)'
    BY <1>0, <2>1, <2>2, <2>3, <2>4 DEF TablesInv
  <2> QED
    BY <2>1, <2>5 DEF TablesInv, SymsOK, Ready
<1>5. CASE DecodeByte
  <2>1. /\ UNCHANGED <<corpus, prior, cec, wire, side>> /\ side = "decode"
        /\ g' = TrainedGlobals(g, wire[done + 1].sym) /\ done < Len(wire)
        /\ done \in Nat /\ IsSeq(wire) /\ Globals(g)
    BY <1>5, TrainIsTrained DEF DecodeByte, Inv, Coded
  <2>2. Len(wire) \in Nat
    BY <2>1, AppendAny
  <2>3. wire[done + 1].sym \in Byte
    BY <2>1, <2>2 DEF TablesInv, SymsOK
  <2>4. Ready(g')
    BY <2>1, <2>3, TrainedReady DEF TablesInv
  <2>5. Ready(g)'
    BY <2>1, <2>4 DEF Ready, Records
  <2> QED
    BY <2>1, <2>5 DEF TablesInv, SymsOK, Ready
<1>6. CASE DecodeEnd
  BY <1>6 DEF DecodeEnd, TablesInv
<1>7. CASE UNCHANGED vars
  BY <1>7 DEF vars, TablesInv, Ready, Records, SymsOK
<1> QED
  BY <1>1, <1>2, <1>3, <1>4, <1>5, <1>6, <1>7 DEF Next

\* In every state.
THEOREM TablesInvAlways == Spec => []TablesInv
<1>1. Init => TablesInv
  BY PriorsSound, InitModel DEF Init, TablesInv
<1>2. Inv /\ TablesInv /\ [Next]_vars => TablesInv'
  BY TablesStep
<1> QED
  BY InvAlways, <1>1, <1>2, PTL DEF Spec

\* Every landmark and schema table stored with a prior has the scale as its
\* total and no byte at zero, so that neither callback ever falls back to even
\* widths, for any corpus and any choice of landmarks and records.
THEOREM TablesSoundSafe == Spec => []TablesSound
<1>1. TablesInv => TablesSound
  BY WidthsAre DEF TablesInv, PriorSound, TablesSound, IsSound, Sound
<1> QED
  BY TablesInvAlways, <1>1, PTL

\* Before every byte the callback of the codec in use gives the range coder
\* widths it can use: no byte empty, the total at most the scale, and exactly
\* the scale where auxiliary channels were blended in.
THEOREM DistUsableSafe == Spec => []DistUsable
<1>1. Inv /\ TablesInv => DistUsable
  BY DistIs, WidthsAre DEF Inv, TablesInv, DistUsable
<1> QED
  BY InvAlways, TablesInvAlways, <1>1, PTL

\* Giving every unobserved byte the one estimate computed for all of them, as
\* bt_v3_distribution does, is estimating each byte by itself.
THEOREM ShortcutExactSafe == Spec => []ShortcutExact
<1>1. TablesInv => ShortcutExact
  BY ModelWidths DEF TablesInv, ShortcutExact
<1> QED
  BY TablesInvAlways, <1>1, PTL
=============================================================================
