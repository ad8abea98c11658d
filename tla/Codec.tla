------------------------------- MODULE Codec --------------------------------
(***************************************************************************)
(* A codec instance (BcbCodec of bcb_prior.c): the adaptive state behind   *)
(* one encoder or decoder handle, and what the callbacks codec_dist and    *)
(* codec_train, and the calls around them, do to it.                       *)
(*                                                                         *)
(* A distribution is represented by everything it is computed from, so two *)
(* distributions are equal here only if the code computes them from equal  *)
(* data.  Everything in a prior file that a codec reads is in the prior's  *)
(* record: rec is schema_rec (0: no schema), delta the positions whose     *)
(* schema mode is delta, lmN and lm the landmark length and contexts.      *)
(***************************************************************************)
EXTENDS Integers, Sequences

CONSTANTS NVal,         \* 256
          Depth,        \* BT_MAX_DEPTH, the length of the context window
          Slots,        \* BCB_DISTCACHE_SLOTS
          Hash(_),      \* distcache_hash of a window
          PerMsgClear,  \* the builds: settings of BCB_DISTCACHE_PER_MSG_CLEAR
          GenMod        \* 2^32, where the generation counter wraps

Bytes == 0 .. NVal - 1

\* the contents of the context window: at most Depth bytes
Windows == UNION {[1 .. n -> Bytes] : n \in 0 .. Depth}

ASSUME CodecAssumption ==
    /\ NVal \in Nat \ {0} /\ Depth \in Nat \ {0} /\ Slots \in Nat \ {0}
    /\ \A w \in Windows : Hash(w) \in Nat
    /\ PerMsgClear \subseteq BOOLEAN
    /\ GenMod \in Nat /\ GenMod >= 2

Structural(p) == p.rec > 0

(***************************************************************************)
(* distribution cache: direct-mapped, keyed by the whole window.  `old' is *)
(* not in the code: it marks what an earlier message left in the cache.    *)
(***************************************************************************)
EmptyEntry == [gen |-> 0, key |-> <<>>, cum |-> <<>>, old |-> FALSE]
EmptyCache == [s \in 0 .. Slots - 1 |-> EmptyEntry]
NoCache    == <<>>     \* distcache is NULL: a structural prior, or no memory

SlotOf(win) == Hash(win) % Slots

\* slip: the windows are compared, but not their lengths
HitByPrefix(c, win) ==
    /\ c.cache # NoCache
    /\ LET e == c.cache[SlotOf(win)]
       IN  /\ e.gen = c.gen /\ Len(e.key) >= Len(win)
           /\ SubSeq(e.key, 1, Len(win)) = win

Hit(c, win) == /\ c.cache # NoCache
               /\ LET e == c.cache[SlotOf(win)]
                  IN  e.gen = c.gen /\ e.key = win

(***************************************************************************)
(* codec_dist.  BtDist stands for bt_v3_distribution_r, a function of the  *)
(* prior and the window.                                                   *)
(***************************************************************************)
BtDist(p, win) == <<"bt", p.id, win>>

LandmarkContext(p, win) == SubSeq(win, Len(win) - p.lmN + 1, Len(win))

LandmarkHit(p, win) ==
    /\ p.lm # {}
    /\ Len(win) >= p.lmN
    /\ LandmarkContext(p, win) \in p.lm

\* positions coded as differences have a table rotated by the previous record,
\* except in the delta-symbol format
StructuralDist(c) ==
    <<"schema", c.p.id, c.pos,
      IF c.pos \in c.p.delta /\ ~c.sdelta THEN c.prev[c.pos] ELSE 0>>

CachedDist(c) == IF Hit(c, c.win) THEN c.cache[SlotOf(c.win)].cum
                                  ELSE BtDist(c.p, c.win)

CodecDist(c) ==
    IF Structural(c.p) THEN StructuralDist(c)
    ELSE IF LandmarkHit(c.p, c.win)
         THEN <<"landmark", c.p.id, LandmarkContext(c.p, c.win)>>
         ELSE CachedDist(c)

\* slip: the slot is refilled, but its key is not
MemoizedUnderOldKey(c) ==
    IF c.cache = NoCache \/ LandmarkHit(c.p, c.win) \/ Hit(c, c.win) THEN c
    ELSE [c EXCEPT !.cache[SlotOf(c.win)].gen = c.gen,
                   !.cache[SlotOf(c.win)].cum = BtDist(c.p, c.win)]

\* what codec_dist leaves in the cache
Memoized(c) ==
    IF c.cache = NoCache \/ LandmarkHit(c.p, c.win) \/ Hit(c, c.win) THEN c
    ELSE [c EXCEPT !.cache[SlotOf(c.win)] =
            [gen |-> c.gen, key |-> c.win, cum |-> BtDist(c.p, c.win),
             old |-> FALSE]]

(***************************************************************************)
(* codec_train: with a structural prior `b' is the coded symbol, which is  *)
(* turned into the real byte before it is kept for the next record.        *)
(***************************************************************************)
\* slip: the symbol is kept as the byte
ActualSymbol(c, b) == b

Actual(c, b) == IF c.sdelta /\ c.pos \in c.p.delta
                THEN (b + c.prev[c.pos]) % NVal ELSE b

\* sc_rec_mask: all ones for a power of two, 0 for any other length and for 1
Mask(rec) == IF \E k \in 0 .. rec : 2^k = rec THEN rec - 1 ELSE 0

\* slip: the comparison lets the position reach the length
AdvanceLate(pos, rec) ==
    IF Mask(rec) # 0 THEN (pos + 1) % (Mask(rec) + 1)
    ELSE IF pos + 1 > rec THEN 0 ELSE pos + 1

\* the next position: `&' with the mask, or else by comparison
Advance(pos, rec) ==
    IF Mask(rec) # 0 THEN (pos + 1) % (Mask(rec) + 1)
    ELSE IF pos + 1 >= rec THEN 0 ELSE pos + 1

TrainStructural(c, b) ==
    LET cur  == [c.cur EXCEPT ![c.pos] = Actual(c, b)]
        next == Advance(c.pos, c.p.rec)
    IN  [c EXCEPT !.last = Actual(c, b), !.cur = cur, !.pos = next,
                  !.prev = IF next = 0 THEN cur ELSE c.prev]

Pushed(win, b) == IF Len(win) < Depth THEN Append(win, b)
                                      ELSE Append(Tail(win), b)

CodecTrain(c, b) == IF Structural(c.p) THEN TrainStructural(c, b)
                    ELSE [c EXCEPT !.win = Pushed(c.win, b)]

\* bcb_codec_enc_xform
EncXform(c, b) == IF Structural(c.p) /\ c.sdelta /\ c.pos \in c.p.delta
                  THEN (b - c.prev[c.pos]) % NVal ELSE b

(***************************************************************************)
(* bcb_codec_begin, which every message starts with, then                  *)
(* bcb_codec_set_sdelta.                                                   *)
(***************************************************************************)
Zeros(p) == [i \in 0 .. p.rec - 1 |-> 0]

Aged(cache) == [s \in DOMAIN cache |-> [cache[s] EXCEPT !.old = TRUE]]

\* slip: the wrap of the generation does not clear the entries
BeginCacheWrapped(c) ==
    IF ~c.perMsgClear THEN [c EXCEPT !.cache = Aged(c.cache)]
    ELSE [c EXCEPT !.cache = Aged(c.cache),
                   !.gen = IF (c.gen + 1) % GenMod = 0 THEN 1 ELSE c.gen + 1]

BeginCache(c) ==
    IF ~c.perMsgClear THEN [c EXCEPT !.cache = Aged(c.cache)]
    ELSE IF (c.gen + 1) % GenMod = 0
         THEN [c EXCEPT !.cache = [s \in DOMAIN c.cache |-> EmptyEntry], !.gen = 1]
         ELSE [c EXCEPT !.cache = Aged(c.cache), !.gen = c.gen + 1]

\* slips: a message starts in the state the last one left
BeginMidRecord(c) ==
    IF Structural(c.p) THEN [c EXCEPT !.prev = Zeros(c.p), !.cur = Zeros(c.p)]
    ELSE BeginCache([c EXCEPT !.win = <<>>])
BeginWarmWindow(c) ==
    IF Structural(c.p)
    THEN [c EXCEPT !.pos = 0, !.prev = Zeros(c.p), !.cur = Zeros(c.p)]
    ELSE BeginCache(c)

Begin(c) ==
    IF Structural(c.p)
    THEN [c EXCEPT !.pos = 0, !.prev = Zeros(c.p), !.cur = Zeros(c.p)]
    ELSE BeginCache([c EXCEPT !.win = <<>>])

SetSdelta(c, on) == [c EXCEPT !.sdelta = Structural(c.p) /\ on]

\* bcb_codec_new; the cache is left out where calloc returns NULL.  The build
\* matters only where there is a cache.
CodecWith(p, cache, clear) ==
    Begin([p |-> p, pos |-> 0, prev |-> Zeros(p), cur |-> Zeros(p), sdelta |-> FALSE,
           last |-> 0, win |-> <<>>, cache |-> cache, gen |-> 1, perMsgClear |-> clear])

CodecNew(p) ==
    {CodecWith(p, NoCache, FALSE)}
      \cup IF Structural(p) THEN {}
           ELSE {CodecWith(p, EmptyCache, clear) : clear \in PerMsgClear}
-----------------------------------------------------------------------------
CodecOK(c) ==
    /\ Structural(c.p) =>
         /\ c.pos \in 0 .. c.p.rec - 1
         /\ c.prev \in [0 .. c.p.rec - 1 -> Bytes]
         /\ c.cur \in [0 .. c.p.rec - 1 -> Bytes]
         /\ c.last \in Bytes /\ c.win = <<>>
    /\ ~Structural(c.p) =>
         /\ c.win \in Seq(Bytes) /\ Len(c.win) <= Depth
         /\ ~c.sdelta
         /\ c.gen \in 1 .. GenMod - 1

\* a live entry is what codec_dist would compute for its key
Coherent(c) ==
    \A s \in DOMAIN c.cache :
        LET e == c.cache[s]
        IN  e.gen = c.gen => e.cum = BtDist(c.p, e.key) /\ SlotOf(e.key) = s

\* with per-message clearing, no live entry is from an earlier message
Cleared(c) ==
    c.perMsgClear => \A s \in DOMAIN c.cache :
                       c.cache[s].gen = c.gen => ~c.cache[s].old
=============================================================================
