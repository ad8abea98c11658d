---------------------------- MODULE MCPublicApi -----------------------------
(***************************************************************************)
(* Byte values 0..2, windows of two bytes, a cache of two slots whose hash *)
(* collides, and a checksum that collides.                                 *)
(***************************************************************************)
EXTENDS PublicApi, SequencesExt

Sum(w) == FoldLeft(LAMBDA a, b : a + b, 0, w)

MCHash(w) == Sum(w)
MCCrc(w)  == (1 + Sum(w)) % 3

Schema(id, rec, delta) ==
    [id |-> id, rec |-> rec, delta |-> delta, lmN |-> 0, lm |-> {}]
Text(id, lmN, lm) ==
    [id |-> id, rec |-> 0, delta |-> {}, lmN |-> lmN, lm |-> lm]

\* records of two bytes, one of them coded as a difference; and of one byte
MCSchemas == {Schema("two", 2, {0}), Schema("one", 1, {0})}
\* a plain text prior, and one with landmarks
MCTexts   == {Text("bt", 0, {}), Text("lm", 1, {<<1>>})}

MCRecords == {<<1, 2, 2>>, <<2>>}
MCStrings == {<<>>, <<1, 2, 1>>, <<2, 1>>}
=============================================================================
