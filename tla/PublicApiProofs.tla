-------------------------- MODULE PublicApiProofs --------------------------
(***************************************************************************)
(* Encoder and decoder of the public API give back every message, for all  *)
(* priors, cache sizes, generation limits, hash functions and messages:    *)
(* both make the same sequence of codec states, in which no cached         *)
(* distribution is ever that of another context or of another message.     *)
(***************************************************************************)
EXTENDS PublicApi, SequenceTheorems, TLAPS

-----------------------------------------------------------------------------
(***************************************************************************)
(* The operations of a codec instance, and what its fields hold.           *)
(***************************************************************************)
Dists == {BtDist(p, w) : p \in Priors, w \in Windows}
           \cup {<<"schema", p.id, i, b>> : p \in Priors, i \in Nat, b \in Bytes}
           \cup {<<"landmark", p.id, w>> : p \in Priors, w \in Seq(Bytes)}
           \cup {EmptyEntry.cum}

Entries == [gen : Nat, key : Windows, cum : Dists, old : BOOLEAN]
Caches  == {NoCache} \cup [0 .. Slots - 1 -> Entries]
Records == UNION {[0 .. n - 1 -> Bytes] : n \in Nat}

Codecs == [p : Priors, pos : Nat, prev : Records, cur : Records, sdelta : BOOLEAN,
           last : Bytes, win : Windows, cache : Caches, gen : 1 .. GenMod - 1,
           perMsgClear : BOOLEAN]

IsCodec(c) ==
    /\ c \in Codecs
    /\ c.prev \in [0 .. c.p.rec - 1 -> Bytes]
    /\ c.cur \in [0 .. c.p.rec - 1 -> Bytes]
    /\ Structural(c.p) => c.pos < c.p.rec /\ c.win = <<>>
    /\ ~Structural(c.p) => ~c.sdelta

\* no entry is from a generation yet to come
Past(c) == c.perMsgClear => \A s \in DOMAIN c.cache : c.cache[s].gen <= c.gen

Sound(c) == IsCodec(c) /\ Coherent(c) /\ Cleared(c) /\ Past(c)

\* A window is a sequence of at most Depth bytes,
LEMMA WindowIsSeq ==
    ASSUME NEW w \in Windows
    PROVE  w \in Seq(Bytes) /\ Len(w) \in Nat /\ Len(w) <= Depth
<1>1. PICK n \in 0 .. Depth : w \in [1 .. n -> Bytes]
  BY DEF Windows
<1>2. n \in Nat
  BY CodecAssumption
<1>3. w \in Seq(Bytes)
  BY <1>1, <1>2, SeqDef
<1>4. PICK k \in Nat : k = Len(w)
  BY <1>3, LenProperties
<1>5. 1 .. n = 1 .. k
  BY <1>1, <1>3, <1>4, LenProperties
<1>6. (n > 0 => n \in 1 .. k) /\ (k > 0 => k \in 1 .. n)
  BY <1>2, <1>5
<1>7. k = n
  BY <1>2, <1>6
<1> QED
  BY <1>3, <1>4, <1>7, CodecAssumption

\* and every such sequence is a window,
LEMMA SeqIsWindow ==
    ASSUME NEW w \in Seq(Bytes), Len(w) <= Depth
    PROVE  w \in Windows
<1>1. Len(w) \in Nat /\ w \in [1 .. Len(w) -> Bytes]
  BY LenProperties
<1>2. Len(w) \in 0 .. Depth
  BY <1>1, CodecAssumption
<1> QED
  BY <1>1, <1>2 DEF Windows

\* the empty one included.
LEMMA EmptyWindow == <<>> \in Windows
<1>1. <<>> \in Seq(Bytes) /\ Len(<<>>) = 0
  BY EmptySeq
<1>2. Len(<<>>) <= Depth
  BY <1>1, CodecAssumption
<1> QED
  BY <1>1, <1>2, SeqIsWindow

\* codec_train leaves a window: the oldest byte goes when it is full.
LEMMA PushedType ==
    ASSUME NEW w \in Windows, NEW b \in Bytes
    PROVE  Pushed(w, b) \in Windows
<1>1. w \in Seq(Bytes) /\ Len(w) \in Nat /\ Len(w) <= Depth /\ Depth \in Nat \ {0}
  BY WindowIsSeq, CodecAssumption
<1>2. CASE Len(w) < Depth
  <2>1. Append(w, b) \in Seq(Bytes) /\ Len(Append(w, b)) = Len(w) + 1
    BY <1>1, AppendProperties
  <2>2. Len(Append(w, b)) <= Depth
    BY <1>1, <1>2, <2>1
  <2>3. Append(w, b) \in Windows
    BY <2>1, <2>2, SeqIsWindow
  <2> QED
    BY <1>2, <2>3 DEF Pushed
<1>3. CASE ~(Len(w) < Depth)
  <2>1. w # <<>>
    BY <1>1, <1>3, EmptySeq
  <2>2. Tail(w) \in Seq(Bytes) /\ Len(Tail(w)) = Len(w) - 1
    BY <1>1, <2>1, HeadTailProperties
  <2>3. Append(Tail(w), b) \in Seq(Bytes) /\ Len(Append(Tail(w), b)) = Len(Tail(w)) + 1
    BY <2>2, AppendProperties
  <2>4. Len(Append(Tail(w), b)) <= Depth
    BY <1>1, <2>2, <2>3
  <2>5. Append(Tail(w), b) \in Windows
    BY <2>3, <2>4, SeqIsWindow
  <2> QED
    BY <1>3, <2>5 DEF Pushed
<1> QED
  BY <1>2, <1>3

\* Every window has a slot of the cache.
LEMMA SlotType ==
    ASSUME NEW w \in Windows
    PROVE  SlotOf(w) \in 0 .. Slots - 1
<1>1. Hash(w) \in Nat /\ Slots \in Nat \ {0}
  BY CodecAssumption
<1> QED
  BY <1>1 DEF SlotOf

\* A cache that was allocated has all its slots.
LEMMA CacheShape ==
    ASSUME NEW c, c \in Codecs, c.cache # NoCache
    PROVE  c.cache \in [0 .. Slots - 1 -> Entries] /\ DOMAIN c.cache = 0 .. Slots - 1
  BY DEF Codecs, Caches

\* bt_v3_distribution_r gives one of the distributions.
LEMMA DistType ==
    ASSUME NEW p \in Priors, NEW w \in Windows
    PROVE  BtDist(p, w) \in Dists
  BY DEF Dists

\* So does each other source of a distribution.
LEMMA DistCases ==
    /\ \A p \in Priors, w \in Windows : BtDist(p, w) \in Dists
    /\ \A p \in Priors, i \in Nat, b \in Bytes : <<"schema", p.id, i, b>> \in Dists
    /\ \A p \in Priors, w \in Seq(Bytes) : <<"landmark", p.id, w>> \in Dists
    /\ EmptyEntry.cum \in Dists
  BY DEF Dists

\* 0 is a byte.
LEMMA Zero == 0 \in Bytes
  BY CodecAssumption DEF Bytes

\* Record and landmark lengths are numbers; a structural prior has records.
LEMMA PriorFacts ==
    ASSUME NEW p \in Priors
    PROVE  p.rec \in Nat /\ p.lmN \in Nat /\ (Structural(p) => p.rec \in Nat \ {0})
  BY ApiAssumption DEF Structural

\* codec_dist gives one of the distributions, from whatever source.
LEMMA CodecDistType ==
    ASSUME NEW c, Sound(c)
    PROVE  CodecDist(c) \in Dists
<1>1. c \in Codecs /\ c.p \in Priors /\ c.win \in Windows /\ c.pos \in Nat
      /\ c.win \in Seq(Bytes) /\ Len(c.win) \in Nat
  BY WindowIsSeq DEF Sound, IsCodec, Codecs
<1>2. CASE Structural(c.p)
  <2>1. c.prev[c.pos] \in Bytes
    BY <1>1, <1>2, PriorFacts DEF Sound, IsCodec
  <2>2. StructuralDist(c) \in Dists
    BY <1>1, <2>1, Zero, DistCases DEF StructuralDist
  <2> QED
    BY <1>2, <2>2 DEF CodecDist
<1>3. CASE ~Structural(c.p) /\ LandmarkHit(c.p, c.win)
  <2>1. LandmarkContext(c.p, c.win) \in Seq(Bytes)
    <3>1. c.p.lmN \in Nat /\ Len(c.win) >= c.p.lmN
      BY <1>1, <1>3, PriorFacts DEF LandmarkHit
    <3>2. \A i \in Len(c.win) - c.p.lmN + 1 .. Len(c.win) : c.win[i] \in Bytes
      BY <1>1, <3>1, ElementOfSeq
    <3>3. Len(c.win) - c.p.lmN + 1 \in Int /\ Len(c.win) \in Int
      BY <1>1, <3>1
    <3> QED
      BY <3>2, <3>3, SubSeqProperties DEF LandmarkContext
  <2> QED
    BY <1>1, <1>3, <2>1, DistCases DEF CodecDist
<1>4. CASE ~Structural(c.p) /\ ~LandmarkHit(c.p, c.win)
  <2>1. CASE Hit(c, c.win)
    <3>1. c.cache \in [0 .. Slots - 1 -> Entries] /\ SlotOf(c.win) \in 0 .. Slots - 1
      BY <1>1, <2>1, CacheShape, SlotType DEF Hit
    <3>2. c.cache[SlotOf(c.win)].cum \in Dists
      BY <3>1 DEF Entries
    <3> QED
      BY <1>4, <2>1, <3>2 DEF CodecDist, CachedDist
  <2>2. CASE ~Hit(c, c.win)
    BY <1>1, <1>4, <2>2, DistCases DEF CodecDist, CachedDist
  <2> QED
    BY <2>1, <2>2
<1> QED
  BY <1>2, <1>3, <1>4

\* Whether it hits or misses, the cache gives what bt_v3_distribution_r would.
LEMMA HitDist ==
    ASSUME NEW c, Sound(c)
    PROVE  CachedDist(c) = BtDist(c.p, c.win)
<1>1. CASE Hit(c, c.win)
  <2>1. c \in Codecs /\ c.cache # NoCache /\ c.win \in Windows
    BY <1>1 DEF Hit, Sound, IsCodec, Codecs
  <2>2. SlotOf(c.win) \in DOMAIN c.cache
    BY <2>1, CacheShape, SlotType
  <2> QED
    BY <1>1, <2>2 DEF Hit, CachedDist, Sound, Coherent
<1>2. CASE ~Hit(c, c.win)
  BY <1>2 DEF CachedDist
<1> QED
  BY <1>1, <1>2

\* Filling the cache changes nothing else of the codec.
LEMMA MemoizedFields ==
    ASSUME NEW c, Sound(c)
    PROVE  LET m == Memoized(c)
           IN  /\ m \in Codecs
               /\ m.p = c.p /\ m.pos = c.pos /\ m.prev = c.prev /\ m.cur = c.cur
               /\ m.sdelta = c.sdelta /\ m.last = c.last /\ m.win = c.win
               /\ m.gen = c.gen /\ m.perMsgClear = c.perMsgClear
               /\ m.cache = c.cache \/ m.cache \in [0 .. Slots - 1 -> Entries]
<1>1. c \in Codecs /\ c.p \in Priors /\ c.win \in Windows /\ c.gen \in Nat
  BY CodecAssumption DEF Sound, IsCodec, Codecs
<1> DEFINE e == [gen |-> c.gen, key |-> c.win, cum |-> BtDist(c.p, c.win), old |-> FALSE]
<1>2. e \in Entries
  BY <1>1, DistCases DEF Entries
<1> HIDE DEF e
<1>3. CASE c.cache # NoCache
  <2>1. c.cache \in [0 .. Slots - 1 -> Entries] /\ SlotOf(c.win) \in 0 .. Slots - 1
    BY <1>1, <1>3, CacheShape, SlotType
  <2> DEFINE k == [c.cache EXCEPT ![SlotOf(c.win)] = e]
  <2>2. k \in [0 .. Slots - 1 -> Entries]
    BY <2>1, <1>2
  <2>3. k \in Caches
    BY <2>2 DEF Caches
  <2>4. Memoized(c) = c \/ Memoized(c) = [c EXCEPT !.cache = k]
    BY DEF Memoized, e
  <2> HIDE DEF k
  <2> QED
    BY <1>1, <2>1, <2>2, <2>3, <2>4 DEF Codecs
<1>4. CASE c.cache = NoCache
  BY <1>1, <1>4 DEF Memoized
<1> QED
  BY <1>3, <1>4

\* What codec_dist puts in the cache keeps it coherent and cleared.
LEMMA MemoizedSound ==
    ASSUME NEW c, Sound(c)
    PROVE  Sound(Memoized(c))
<1> DEFINE m == Memoized(c)
<1>1. /\ m \in Codecs /\ m.p = c.p /\ m.pos = c.pos /\ m.prev = c.prev /\ m.cur = c.cur
      /\ m.sdelta = c.sdelta /\ m.win = c.win /\ m.gen = c.gen
      /\ m.perMsgClear = c.perMsgClear
  BY MemoizedFields
<1>2. IsCodec(m)
  BY <1>1 DEF Sound, IsCodec
<1>3. c \in Codecs /\ c.win \in Windows /\ c.gen \in Nat
  BY CodecAssumption DEF Sound, IsCodec, Codecs
<1>4. CASE m.cache = c.cache
  BY <1>1, <1>2, <1>4 DEF Sound, Coherent, Cleared, Past
<1>5. CASE m.cache # c.cache
  <2> DEFINE t == SlotOf(c.win)
             e == [gen |-> c.gen, key |-> c.win, cum |-> BtDist(c.p, c.win),
                   old |-> FALSE]
  <2>1. c.cache # NoCache /\ m = [c EXCEPT !.cache[t] = e]
    BY <1>5 DEF Memoized
  <2>2. c.cache \in [0 .. Slots - 1 -> Entries] /\ t \in 0 .. Slots - 1
    BY <1>3, <2>1, CacheShape, SlotType
  <2>3. m.cache = [c.cache EXCEPT ![t] = e]
    BY <1>3, <2>1 DEF Codecs
  <2>4. DOMAIN m.cache = DOMAIN c.cache /\ m.cache[t] = e
    BY <2>2, <2>3
  <2>5. \A s \in DOMAIN m.cache : s # t => m.cache[s] = c.cache[s]
    BY <2>2, <2>3
  <2>6. e.gen = c.gen /\ e.key = c.win /\ e.cum = BtDist(c.p, c.win) /\ e.old = FALSE
    OBVIOUS
  <2> HIDE DEF m, e, t
  <2>7. Coherent(m)
    <3> SUFFICES ASSUME NEW s \in DOMAIN m.cache, m.cache[s].gen = m.gen
                 PROVE  /\ m.cache[s].cum = BtDist(m.p, m.cache[s].key)
                        /\ SlotOf(m.cache[s].key) = s
      BY DEF Coherent
    <3>1. CASE s = t
      BY <1>1, <2>4, <2>6, <3>1 DEF t
    <3>2. CASE s # t
      BY <1>1, <2>4, <2>5, <3>2 DEF Sound, Coherent
    <3> QED
      BY <3>1, <3>2
  <2>8. Cleared(m)
    BY <1>1, <2>4, <2>5, <2>6 DEF Sound, Cleared
  <2>9. Past(m)
    BY <1>1, <1>3, <2>4, <2>5, <2>6 DEF Sound, Past
  <2> QED
    BY <1>2, <2>7, <2>8, <2>9 DEF Sound, m
<1> QED
  BY <1>4, <1>5

\* The byte codec_train recovers from a delta symbol is a byte.
LEMMA ActualType ==
    ASSUME NEW c, IsCodec(c), Structural(c.p), NEW b \in Bytes
    PROVE  Actual(c, b) \in Bytes
<1>1. c.pos \in Nat /\ c.p.rec \in Nat \ {0}
  BY PriorFacts DEF IsCodec, Codecs
<1>2. c.prev[c.pos] \in Bytes
  BY <1>1 DEF IsCodec
<1>3. c.prev[c.pos] \in Int /\ b \in Int /\ NVal \in Nat \ {0}
  BY <1>2, CodecAssumption DEF Bytes
<1>4. (b + c.prev[c.pos]) % NVal \in 0 .. NVal - 1
  BY <1>3
<1> QED
  BY <1>4 DEF Actual, Bytes

\* By mask and by comparison, the next position is in the record.
LEMMA AdvanceType ==
    ASSUME NEW rec \in Nat \ {0}, NEW pos \in Nat, pos < rec
    PROVE  Advance(pos, rec) \in Nat /\ Advance(pos, rec) < rec
<1>1. CASE Mask(rec) # 0
  <2>1. Mask(rec) = rec - 1
    BY <1>1, Zenon DEF Mask
  <2> QED
    BY <1>1, <2>1 DEF Advance
<1>2. CASE Mask(rec) = 0
  BY <1>2 DEF Advance
<1> QED
  BY <1>1, <1>2

\* codec_train keeps a codec sound, and its prior and format.
LEMMA TrainSound ==
    ASSUME NEW c, Sound(c), NEW b \in Bytes
    PROVE  /\ Sound(CodecTrain(c, b))
           /\ CodecTrain(c, b).p = c.p /\ CodecTrain(c, b).sdelta = c.sdelta
<1> DEFINE d == CodecTrain(c, b)
<1>1. c \in Codecs /\ c.win \in Windows /\ c.p \in Priors /\ c.pos \in Nat
  BY DEF Sound, IsCodec, Codecs
<1>2. CASE Structural(c.p)
  <2> DEFINE cur == [c.cur EXCEPT ![c.pos] = Actual(c, b)]
             next == Advance(c.pos, c.p.rec)
             prev == IF next = 0 THEN cur ELSE c.prev
  <2>1. c.p.rec \in Nat \ {0} /\ Actual(c, b) \in Bytes
    BY <1>1, <1>2, PriorFacts, ActualType DEF Sound
  <2>2. cur \in [0 .. c.p.rec - 1 -> Bytes] /\ prev \in [0 .. c.p.rec - 1 -> Bytes]
    BY <2>1 DEF Sound, IsCodec
  <2>3. cur \in Records /\ prev \in Records
    BY <2>1, <2>2 DEF Records
  <2>4. next \in Nat /\ next < c.p.rec
    BY <1>1, <1>2, <2>1, AdvanceType DEF Sound, IsCodec
  <2>5. d = [c EXCEPT !.last = Actual(c, b), !.cur = cur, !.pos = next, !.prev = prev]
    BY <1>2 DEF CodecTrain, TrainStructural
  <2> HIDE DEF cur, next, prev, d
  <2>6. d \in Codecs /\ d.p = c.p /\ d.prev = prev /\ d.cur = cur /\ d.pos = next
        /\ d.win = c.win /\ d.sdelta = c.sdelta /\ d.cache = c.cache /\ d.gen = c.gen
        /\ d.perMsgClear = c.perMsgClear
    BY <1>1, <2>1, <2>3, <2>4, <2>5 DEF Codecs
  <2>7. IsCodec(d)
    BY <2>2, <2>4, <2>6 DEF IsCodec, Sound
  <2> QED
    BY <2>6, <2>7 DEF Sound, Coherent, Cleared, Past, d
<1>3. CASE ~Structural(c.p)
  <2>1. Pushed(c.win, b) \in Windows
    BY <1>1, PushedType
  <2>2. d = [c EXCEPT !.win = Pushed(c.win, b)]
    BY <1>3 DEF CodecTrain
  <2> HIDE DEF d
  <2>3. d \in Codecs /\ d.p = c.p /\ d.prev = c.prev /\ d.cur = c.cur /\ d.pos = c.pos
        /\ d.sdelta = c.sdelta /\ d.cache = c.cache /\ d.gen = c.gen
        /\ d.perMsgClear = c.perMsgClear
    BY <1>1, <2>1, <2>2 DEF Codecs
  <2>4. IsCodec(d)
    BY <1>3, <2>3 DEF IsCodec, Sound
  <2> QED
    BY <2>3, <2>4 DEF Sound, Coherent, Cleared, Past, d
<1> QED
  BY <1>2, <1>3

\* A cache that was not allocated has no slots.
LEMMA NoCacheShape == DOMAIN NoCache = {}
  BY DEF NoCache

\* Marking an entry as old leaves all the code has of it.
LEMMA EntryAged ==
    ASSUME NEW e \in Entries
    PROVE  /\ [e EXCEPT !.old = TRUE] \in Entries
           /\ [e EXCEPT !.old = TRUE].gen = e.gen
           /\ [e EXCEPT !.old = TRUE].key = e.key
           /\ [e EXCEPT !.old = TRUE].cum = e.cum
  BY DEF Entries

\* So does marking all of a cache.
LEMMA AgedFacts ==
    ASSUME NEW k \in Caches
    PROVE  /\ Aged(k) \in Caches
           /\ DOMAIN Aged(k) = DOMAIN k
           /\ \A s \in DOMAIN k : /\ Aged(k)[s].gen = k[s].gen
                                  /\ Aged(k)[s].key = k[s].key
                                  /\ Aged(k)[s].cum = k[s].cum
                                  /\ k[s].gen \in Nat
<1>1. CASE k = NoCache
  <2>1. DOMAIN k = {}
    BY <1>1, NoCacheShape
  <2>2. DOMAIN Aged(k) = {}
    BY <2>1 DEF Aged
  <2>3. Aged(k) = NoCache
    BY <2>1 DEF Aged, NoCache
  <2> QED
    BY <2>1, <2>2, <2>3 DEF Caches
<1>2. CASE k \in [0 .. Slots - 1 -> Entries]
  <2>1. \A s \in 0 .. Slots - 1 : k[s] \in Entries /\ Aged(k)[s] = [k[s] EXCEPT !.old = TRUE]
    BY <1>2 DEF Aged
  <2>2. Aged(k) \in [0 .. Slots - 1 -> Entries]
    BY <1>2, EntryAged DEF Aged
  <2>3. \A s \in 0 .. Slots - 1 : k[s].gen \in Nat
    BY <2>1 DEF Entries
  <2> QED
    BY <1>2, <2>1, <2>2, <2>3, EntryAged DEF Caches
<1> QED
  BY <1>1, <1>2 DEF Caches

\* Emptying a cache leaves a cache.
LEMMA EmptiedFacts ==
    ASSUME NEW k \in Caches
    PROVE  [s \in DOMAIN k |-> EmptyEntry] \in Caches
<1>1. EmptyEntry \in Entries
  BY EmptyWindow, DistCases DEF EmptyEntry, Entries
<1>2. CASE k = NoCache
  <2>1. DOMAIN k = {}
    BY <1>2, NoCacheShape
  <2>2. [s \in DOMAIN k |-> EmptyEntry] = NoCache
    BY <2>1 DEF NoCache
  <2> QED
    BY <2>2 DEF Caches
<1>3. CASE k \in [0 .. Slots - 1 -> Entries]
  BY <1>1, <1>3 DEF Caches
<1> QED
  BY <1>2, <1>3 DEF Caches

\* The record bcb_codec_begin starts from is a record of zeros.
LEMMA ZerosType ==
    ASSUME NEW p \in Priors
    PROVE  Zeros(p) \in [0 .. p.rec - 1 -> Bytes] /\ Zeros(p) \in Records
  BY PriorFacts, Zero DEF Zeros, Records

\* The per-message clear leaves no live entry of an older message: each
\* generation is new until the counter wraps, and then the entries go.
LEMMA BeginCacheSound ==
    ASSUME NEW c, Sound(c), ~Structural(c.p)
    PROVE  /\ Sound(BeginCache(c)) /\ BeginCache(c).p = c.p
           /\ BeginCache(c).win = c.win
<1> DEFINE d == BeginCache(c)
<1>1. c \in Codecs /\ c.cache \in Caches /\ c.gen \in 1 .. GenMod - 1 /\ c.gen \in Nat
      /\ GenMod \in Nat /\ GenMod >= 2 /\ c.perMsgClear \in BOOLEAN
  BY CodecAssumption DEF Sound, IsCodec, Codecs
<1>2. /\ Aged(c.cache) \in Caches
      /\ DOMAIN Aged(c.cache) = DOMAIN c.cache
      /\ \A s \in DOMAIN c.cache : /\ Aged(c.cache)[s].gen = c.cache[s].gen
                                   /\ Aged(c.cache)[s].key = c.cache[s].key
                                   /\ Aged(c.cache)[s].cum = c.cache[s].cum
                                   /\ c.cache[s].gen \in Nat
  BY <1>1, AgedFacts
<1>3. CASE ~c.perMsgClear
  <2>1. d = [c EXCEPT !.cache = Aged(c.cache)]
    BY <1>3 DEF BeginCache
  <2> HIDE DEF d
  <2>2. d \in Codecs /\ d.p = c.p /\ d.prev = c.prev /\ d.cur = c.cur /\ d.pos = c.pos
        /\ d.win = c.win /\ d.sdelta = c.sdelta /\ d.cache = Aged(c.cache)
        /\ d.gen = c.gen /\ d.perMsgClear = c.perMsgClear
    BY <1>1, <1>2, <2>1 DEF Codecs
  <2>3. IsCodec(d)
    BY <2>2 DEF IsCodec, Sound
  <2> QED
    BY <1>2, <1>3, <2>2, <2>3 DEF Sound, Coherent, Cleared, Past, d
<1>4. CASE c.perMsgClear /\ c.gen + 1 # GenMod
  <2>1. (c.gen + 1) % GenMod # 0 /\ c.gen + 1 \in 1 .. GenMod - 1
    BY <1>1, <1>4
  <2>2. d = [c EXCEPT !.cache = Aged(c.cache), !.gen = c.gen + 1]
    BY <1>4, <2>1 DEF BeginCache
  <2> HIDE DEF d
  <2>3. d \in Codecs /\ d.p = c.p /\ d.prev = c.prev /\ d.cur = c.cur /\ d.pos = c.pos
        /\ d.win = c.win /\ d.sdelta = c.sdelta /\ d.cache = Aged(c.cache)
        /\ d.gen = c.gen + 1 /\ d.perMsgClear = c.perMsgClear
    BY <1>1, <1>2, <2>1, <2>2 DEF Codecs
  <2>4. IsCodec(d)
    BY <2>3 DEF IsCodec, Sound
  <2>5. \A s \in DOMAIN d.cache : d.cache[s].gen < d.gen
    BY <1>1, <1>2, <1>4, <2>3 DEF Sound, Past
  <2>6. \A s \in DOMAIN d.cache : d.cache[s].gen # d.gen /\ d.cache[s].gen <= d.gen
    BY <1>1, <1>2, <2>3, <2>5
  <2> QED
    BY <2>3, <2>4, <2>6 DEF Sound, Coherent, Cleared, Past, d
<1>5. CASE c.perMsgClear /\ c.gen + 1 = GenMod
  <2> DEFINE k == [s \in DOMAIN c.cache |-> EmptyEntry]
  <2>1. (c.gen + 1) % GenMod = 0 /\ 1 \in 1 .. GenMod - 1
    BY <1>1, <1>5
  <2>2. d = [c EXCEPT !.cache = k, !.gen = 1]
    BY <1>5, <2>1 DEF BeginCache
  <2>3. k \in Caches
    BY <1>1, EmptiedFacts
  <2>4. \A s \in DOMAIN k : k[s].gen = 0
    BY DEF EmptyEntry
  <2> HIDE DEF d, k
  <2>5. d \in Codecs /\ d.p = c.p /\ d.prev = c.prev /\ d.cur = c.cur /\ d.pos = c.pos
        /\ d.win = c.win /\ d.sdelta = c.sdelta /\ d.cache = k
        /\ d.gen = 1 /\ d.perMsgClear = c.perMsgClear
    BY <1>1, <2>1, <2>2, <2>3 DEF Codecs
  <2>6. IsCodec(d)
    BY <2>5 DEF IsCodec, Sound
  <2>7. \A s \in DOMAIN d.cache : d.cache[s].gen # d.gen /\ d.cache[s].gen <= d.gen
    BY <2>4, <2>5
  <2> QED
    BY <2>5, <2>6, <2>7 DEF Sound, Coherent, Cleared, Past, d
<1> QED
  BY <1>1, <1>3, <1>4, <1>5

\* bcb_codec_begin puts a codec in the state every message starts in.
LEMMA BeginSound ==
    ASSUME NEW c, Sound(c)
    PROVE  /\ Sound(Begin(c)) /\ Begin(c).p = c.p
           /\ Structural(c.p) => /\ Begin(c).pos = 0 /\ Begin(c).prev = Zeros(c.p)
                                 /\ Begin(c).cur = Zeros(c.p)
           /\ Begin(c).win = <<>>
<1>1. c \in Codecs /\ c.p \in Priors
  BY DEF Sound, IsCodec, Codecs
<1>2. CASE Structural(c.p)
  <2> DEFINE d == [c EXCEPT !.pos = 0, !.prev = Zeros(c.p), !.cur = Zeros(c.p)]
  <2>1. d \in Codecs /\ d.p = c.p /\ d.prev = Zeros(c.p) /\ d.cur = Zeros(c.p) /\ d.pos = 0
        /\ d.win = c.win /\ d.sdelta = c.sdelta /\ d.cache = c.cache
        /\ d.gen = c.gen /\ d.perMsgClear = c.perMsgClear
    BY <1>1, ZerosType DEF Codecs
  <2>2. Begin(c) = d
    BY <1>2 DEF Begin
  <2> HIDE DEF d
  <2>3. IsCodec(d)
    BY <1>1, <1>2, <2>1, ZerosType, PriorFacts DEF IsCodec, Sound
  <2>4. Sound(d)
    BY <2>1, <2>3 DEF Sound, Coherent, Cleared, Past
  <2>5. d.win = <<>>
    BY <1>2, <2>1 DEF Sound, IsCodec
  <2> QED
    BY <2>1, <2>2, <2>4, <2>5
<1>3. CASE ~Structural(c.p)
  <2> DEFINE d == [c EXCEPT !.win = <<>>]
  <2>1. d \in Codecs /\ d.p = c.p /\ d.prev = c.prev /\ d.cur = c.cur /\ d.pos = c.pos
        /\ d.win = <<>> /\ d.sdelta = c.sdelta /\ d.cache = c.cache
        /\ d.gen = c.gen /\ d.perMsgClear = c.perMsgClear
    BY <1>1, EmptyWindow DEF Codecs
  <2>2. Begin(c) = BeginCache(d)
    BY <1>3 DEF Begin
  <2> HIDE DEF d
  <2>3. IsCodec(d)
    BY <1>3, <2>1 DEF IsCodec, Sound
  <2>4. Sound(d)
    BY <2>1, <2>3 DEF Sound, Coherent, Cleared, Past
  <2> QED
    BY <1>3, <2>1, <2>2, <2>4, BeginCacheSound
<1> QED
  BY <1>2, <1>3

\* bcb_codec_set_sdelta takes effect only with a structural prior.
LEMMA SetSdeltaSound ==
    ASSUME NEW c, Sound(c), NEW on \in BOOLEAN
    PROVE  LET d == SetSdelta(c, on)
           IN  /\ Sound(d) /\ d.p = c.p /\ d.pos = c.pos /\ d.prev = c.prev
               /\ d.cur = c.cur /\ d.win = c.win
               /\ d.sdelta = (Structural(c.p) /\ on) /\ d.sdelta \in BOOLEAN
<1> DEFINE d == SetSdelta(c, on)
<1>1. c \in Codecs
  BY DEF Sound, IsCodec
<1>2. d \in Codecs /\ d.p = c.p /\ d.prev = c.prev /\ d.cur = c.cur /\ d.pos = c.pos
      /\ d.win = c.win /\ d.cache = c.cache /\ d.sdelta = (Structural(c.p) /\ on)
      /\ d.gen = c.gen /\ d.perMsgClear = c.perMsgClear /\ d.sdelta \in BOOLEAN
  BY <1>1 DEF SetSdelta, Codecs
<1> HIDE DEF d
<1>3. IsCodec(d)
  BY <1>2 DEF IsCodec, Sound
<1> QED
  BY <1>2, <1>3 DEF Sound, Coherent, Cleared, Past, d

\* bcb_codec_new makes a sound codec, with or without memory for a cache.
LEMMA NewSound ==
    ASSUME NEW p \in Priors, NEW c \in CodecNew(p)
    PROVE  Sound(c) /\ c.p = p
<1>1. PICK k \in {NoCache, EmptyCache}, clear \in BOOLEAN : c = CodecWith(p, k, clear)
  BY CodecAssumption DEF CodecNew
<1> DEFINE b == [p |-> p, pos |-> 0, prev |-> Zeros(p), cur |-> Zeros(p),
                 sdelta |-> FALSE, last |-> 0, win |-> <<>>, cache |-> k, gen |-> 1,
                 perMsgClear |-> clear]
<1>2. EmptyCache \in [0 .. Slots - 1 -> Entries]
  BY EmptyWindow, DistCases DEF EmptyCache, EmptyEntry, Entries
<1>3. k \in Caches /\ \A s \in DOMAIN k : k[s].gen = 0
  <2>1. CASE k = NoCache
    BY <2>1, NoCacheShape DEF Caches
  <2>2. CASE k = EmptyCache
    <3>1. \A s \in 0 .. Slots - 1 : EmptyCache[s].gen = 0
      BY DEF EmptyCache, EmptyEntry
    <3> QED
      BY <1>2, <2>2, <3>1 DEF Caches
  <2> QED
    BY <2>1, <2>2
<1>4. 1 \in 1 .. GenMod - 1
  BY CodecAssumption
<1>5. b \in Codecs
  BY <1>3, <1>4, Zero, ZerosType, EmptyWindow DEF Codecs
<1>6. IsCodec(b)
  BY <1>5, ZerosType, PriorFacts DEF IsCodec
<1>7. Sound(b) /\ b.p = p
  BY <1>3, <1>6 DEF Sound, Coherent, Cleared, Past
<1>8. c = Begin(b)
  BY <1>1 DEF CodecWith
<1> HIDE DEF b
<1> QED
  BY <1>7, <1>8, BeginSound

(***************************************************************************)
(* Two codecs are alike when everything the coming distributions depend on *)
(* is the same in both.  Their caches need not be.                         *)
(***************************************************************************)
Alike(c, k) ==
    /\ c.p = k.p /\ c.sdelta = k.sdelta /\ c.win = k.win
    /\ Structural(c.p) => c.pos = k.pos /\ c.prev = k.prev /\ c.cur = k.cur

\* Codecs that are alike give the same distribution,
LEMMA AlikeDist ==
    ASSUME NEW c, Sound(c), NEW k, Sound(k), Alike(c, k)
    PROVE  CodecDist(c) = CodecDist(k)
<1>1. CachedDist(c) = CachedDist(k)
  BY HitDist DEF Alike
<1> QED
  BY <1>1 DEF Alike, CodecDist, StructuralDist

\* stay alike when they are trained on the same symbol and recover the same
\* byte from it,
LEMMA AlikeTrain ==
    ASSUME NEW c, IsCodec(c), NEW k, IsCodec(k), Alike(c, k), NEW b
    PROVE  /\ Alike(CodecTrain(c, b), CodecTrain(k, b))
           /\ Structural(c.p) => CodecTrain(c, b).last = CodecTrain(k, b).last
<1>1. c \in Codecs /\ k \in Codecs
  BY DEF IsCodec
<1>2. CASE Structural(c.p)
  <2>1. Actual(c, b) = Actual(k, b)
    BY <1>2 DEF Alike, Actual
  <2> DEFINE v == Actual(c, b)
             cur == [c.cur EXCEPT ![c.pos] = v]
             next == Advance(c.pos, c.p.rec)
             prev == IF next = 0 THEN cur ELSE c.prev
  <2>2. CodecTrain(c, b) = [c EXCEPT !.last = v, !.cur = cur, !.pos = next, !.prev = prev]
    BY <1>2 DEF CodecTrain, TrainStructural
  <2>3. CodecTrain(k, b) = [k EXCEPT !.last = v, !.cur = cur, !.pos = next, !.prev = prev]
    BY <1>2, <2>1 DEF CodecTrain, TrainStructural, Alike
  <2> HIDE DEF v, cur, next, prev
  <2> QED
    BY <1>1, <1>2, <2>2, <2>3 DEF Alike, Codecs
<1>3. CASE ~Structural(c.p)
  <2>1. /\ CodecTrain(c, b) = [c EXCEPT !.win = Pushed(c.win, b)]
        /\ CodecTrain(k, b) = [k EXCEPT !.win = Pushed(c.win, b)]
    BY <1>3 DEF CodecTrain, Alike
  <2> QED
    BY <1>1, <1>3, <2>1 DEF Alike, Codecs
<1> QED
  BY <1>2, <1>3

\* and stay alike whatever each puts in its own cache.
LEMMA AlikeMemoized ==
    ASSUME NEW c, Sound(c), NEW k, Sound(k), Alike(c, k)
    PROVE  Alike(Memoized(c), Memoized(k))
<1> DEFINE mc == Memoized(c)
           mk == Memoized(k)
<1>1. /\ mc.p = c.p /\ mc.pos = c.pos /\ mc.prev = c.prev /\ mc.cur = c.cur
      /\ mc.sdelta = c.sdelta /\ mc.win = c.win
  BY MemoizedFields
<1>2. /\ mk.p = k.p /\ mk.pos = k.pos /\ mk.prev = k.prev /\ mk.cur = k.cur
      /\ mk.sdelta = k.sdelta /\ mk.win = k.win
  BY MemoizedFields
<1> HIDE DEF mc, mk
<1>3. Alike(mc, mk)
  BY <1>1, <1>2 DEF Alike
<1> QED
  BY <1>3 DEF mc, mk

\* The symbol bcb_codec_enc_xform makes of a byte is a byte.
LEMMA XformType ==
    ASSUME NEW c, Sound(c), NEW b \in Bytes
    PROVE  EncXform(c, b) \in Bytes
<1>1. NVal \in Nat \ {0} /\ b \in Int
  BY CodecAssumption DEF Bytes
<1>2. CASE Structural(c.p)
  <2>1. c.pos \in 0 .. c.p.rec - 1
    BY <1>2, PriorFacts DEF Sound, IsCodec, Codecs
  <2>2. c.prev[c.pos] \in Bytes
    BY <2>1 DEF Sound, IsCodec
  <2>3. (b - c.prev[c.pos]) % NVal \in 0 .. NVal - 1
    BY <1>1, <2>2 DEF Bytes
  <2> QED
    BY <2>3 DEF EncXform, Bytes
<1>3. CASE ~Structural(c.p)
  BY <1>3 DEF EncXform
<1> QED
  BY <1>2, <1>3

\* ((b - a) mod n + a) mod n = b
LEMMA DifferenceUndone ==
    ASSUME NEW n \in Nat \ {0}, NEW a \in 0 .. n - 1, NEW b \in 0 .. n - 1
    PROVE  (((b - a) % n) + a) % n = b
<1>1. CASE b >= a
  <2>1. (b - a) % n = b - a
    BY <1>1
  <2> QED
    BY <2>1
<1>2. CASE b < a
  <2>1. (b - a) % n = b - a + n
    BY <1>2
  <2>2. b - a + n + a = b + n
    OBVIOUS
  <2>3. (b + n) % n = b
    OBVIOUS
  <2> QED
    BY <2>1, <2>2, <2>3
<1> QED
  BY <1>1, <1>2

\* codec_train recovers the byte bcb_codec_enc_xform made the symbol of.
LEMMA XformUndone ==
    ASSUME NEW c, Sound(c), NEW b \in Bytes
    PROVE  /\ c.sdelta => Actual(c, EncXform(c, b)) = b
           /\ ~c.sdelta => EncXform(c, b) = b
<1>1. CASE c.sdelta /\ c.pos \in c.p.delta
  <2>1. Structural(c.p)
    BY <1>1 DEF Sound, IsCodec
  <2>2. c.pos \in 0 .. c.p.rec - 1
    BY <2>1, PriorFacts DEF Sound, IsCodec, Codecs
  <2>3. c.prev[c.pos] \in 0 .. NVal - 1 /\ b \in 0 .. NVal - 1 /\ NVal \in Nat \ {0}
    BY <2>2, CodecAssumption DEF Sound, IsCodec, Bytes
  <2> QED
    BY <1>1, <2>1, <2>3, DifferenceUndone DEF EncXform, Actual
<1>2. CASE ~(c.sdelta /\ c.pos \in c.p.delta)
  BY <1>2 DEF EncXform, Actual
<1> QED
  BY <1>1, <1>2

-----------------------------------------------------------------------------
(***************************************************************************)
(* Calls, blobs and the history of codec states they stand for.            *)
(***************************************************************************)
Coded1 == [sym : Bytes, cum : Dists]

(***************************************************************************)
(* History(h, p, sdelta, msg, payload): h[i] is a codec that coded the     *)
(* first i bytes of msg as the first i symbols of payload.                 *)
(***************************************************************************)
Fresh(c, p, sdelta) ==
    /\ c.p = p /\ c.sdelta = sdelta /\ c.win = <<>>
    /\ Structural(p) => c.pos = 0 /\ c.prev = Zeros(p) /\ c.cur = Zeros(p)

CodedStep(c, d, b, e) ==
    /\ e.cum = CodecDist(c)
    /\ e.sym = EncXform(c, b)
    /\ d = CodecTrain(Memoized(c), e.sym)

History(h, p, sdelta, msg, payload) ==
    /\ Fresh(h[0], p, sdelta)
    /\ \A i \in 0 .. Len(payload) : Sound(h[i])
    /\ \A i \in 1 .. Len(payload) : CodedStep(h[i-1], h[i], msg[i], payload[i])

EncCalls == [pc : {"coding"}, msg : Seq(Bytes), payload : Seq(Coded1)]

EncodeInv ==
    ecall.pc = "coding" =>
        /\ ecall \in EncCalls
        /\ Len(ecall.payload) <= Len(ecall.msg)
        /\ \E h : /\ DOMAIN h = Nat
                  /\ History(h, enc.p, enc.sdelta, ecall.msg, ecall.payload)
                  /\ h[Len(ecall.payload)] = enc

Blobs == [hasCrc : BOOLEAN, hasId : BOOLEAN, sdelta : BOOLEAN, len : Nat,
          crc : {Crc(m) : m \in Seq(Bytes)}, id : {p.id : p \in Priors},
          payload : Seq(Coded1), whole : BOOLEAN,
          from : Priors, orig : Seq(Bytes), genuine : BOOLEAN]

Made(b) ==
    /\ b.whole /\ b.id = b.from.id /\ b.crc = Crc(b.orig)
    /\ b.len = Len(b.orig) /\ Len(b.payload) = Len(b.orig)
    /\ b.sdelta => Structural(b.from)
    /\ \E h : History(h, b.from, b.sdelta, b.orig, b.payload)

IsBlob(b) == b \in Blobs /\ (b.genuine => Made(b))

WireInv == \A b \in wire : IsBlob(b)

DecCalls == [pc : {"decoding"}, blob : Blobs, out : Seq(Bytes), inStep : BOOLEAN]

Following ==
    LET b == dcall.blob
        n == Len(dcall.out)
    IN  /\ dcall.inStep
        /\ \A i \in 1 .. n : dcall.out[i] = b.orig[i]
        /\ \E h : /\ History(h, b.from, b.sdelta, b.orig, b.payload)
                  /\ Alike(dec, h[n])

DecodeInv ==
    dcall.pc = "decoding" =>
        /\ dcall \in DecCalls /\ IsBlob(dcall.blob)
        /\ Len(dcall.out) <= dcall.blob.len
        /\ dcall.blob.genuine /\ dcall.blob.from = dec.p => Following

Inv == /\ Sound(enc) /\ Sound(dec)
       /\ crcOn \in BOOLEAN /\ idOn \in BOOLEAN
       /\ ecall.pc \in {"idle", "coding"} /\ dcall.pc \in {"idle", "decoding"}
       /\ result.status \in {"none", "ok", "corrupted", "id_mismatch", "too_small"}
       /\ EncodeInv /\ WireInv /\ DecodeInv
       /\ Lossless

\* New handles satisfy the invariant.
LEMMA InitInv == Init => Inv
<1> SUFFICES ASSUME Init PROVE Inv
  OBVIOUS
<1>1. Sound(enc) /\ Sound(dec)
  BY NewSound DEF Init
<1>2. ecall.pc = "idle" /\ dcall.pc = "idle" /\ wire = {} /\ result.status = "none"
  BY DEF Init, Idle, NoResult
<1>3. EncodeInv /\ WireInv /\ DecodeInv /\ Lossless
  BY <1>2 DEF EncodeInv, WireInv, DecodeInv, Lossless
<1> QED
  BY <1>1, <1>2, <1>3 DEF Init, Inv

\* what a call that the step leaves alone keeps
LEMMA EncodeUntouched ==
    ASSUME EncodeInv, enc' = enc, ecall' = ecall PROVE EncodeInv'
  BY DEF EncodeInv

\* The same for the decoder.
LEMMA DecodeUntouched ==
    ASSUME DecodeInv, dec' = dec, dcall' = dcall PROVE DecodeInv'
  BY DEF DecodeInv, Following

\* Switching a flag of the encoder keeps the invariant.
LEMMA SwitchInv ==
    ASSUME Inv, NEW on \in BOOLEAN, SetChecksum(on) \/ SetPriorId(on) PROVE Inv'
<1>1. UNCHANGED <<enc, dec, ecall, dcall, wire, result>> /\ crcOn' \in BOOLEAN
      /\ idOn' \in BOOLEAN
  BY DEF Inv, SetChecksum, SetPriorId
<1>2. EncodeInv' /\ DecodeInv'
  BY <1>1, EncodeUntouched, DecodeUntouched DEF Inv
<1>3. WireInv' /\ Lossless'
  BY <1>1 DEF Inv, WireInv, Lossless
<1> QED
  BY <1>1, <1>2, <1>3 DEF Inv

\* bcb_encode starts a history with the codec it has just reset.
LEMMA EncodeBeginInv ==
    ASSUME Inv, NEW msg \in Messages, NEW legacy \in BOOLEAN, EncodeBegin(msg, legacy)
    PROVE  Inv'
<1>1. /\ enc' = SetSdelta(Begin(enc), ~legacy)
      /\ ecall' = [pc |-> "coding", msg |-> msg, payload |-> <<>>]
      /\ result' = NoResult
      /\ UNCHANGED <<dec, crcOn, idOn, dcall, wire>>
  BY DEF EncodeBegin
<1>2. Sound(enc') /\ Fresh(enc', enc'.p, enc'.sdelta)
  <2> DEFINE c == Begin(enc)
  <2>1. /\ Sound(c) /\ c.p = enc.p /\ c.win = <<>>
        /\ Structural(c.p) => c.pos = 0 /\ c.prev = Zeros(c.p) /\ c.cur = Zeros(c.p)
    BY BeginSound DEF Inv
  <2> HIDE DEF c
  <2>2. /\ Sound(SetSdelta(c, ~legacy))
        /\ Fresh(SetSdelta(c, ~legacy), c.p, SetSdelta(c, ~legacy).sdelta)
    BY <2>1, SetSdeltaSound DEF Fresh
  <2>3. SetSdelta(c, ~legacy).p = c.p /\ enc' = SetSdelta(c, ~legacy)
    BY <1>1, <2>1, SetSdeltaSound DEF c
  <2> QED
    BY <2>2, <2>3
<1>3. EncodeInv'
  <2>1. msg \in Seq(Bytes) /\ <<>> \in Seq(Coded1) /\ Len(<<>>) = 0 /\ Len(msg) \in Nat
    BY ApiAssumption, EmptySeq, LenProperties
  <2>2. ecall'.msg = msg /\ ecall'.payload = <<>> /\ ecall' \in EncCalls
    BY <1>1, <2>1 DEF EncCalls
  <2> DEFINE h == [i \in Nat |-> enc']
  <2>3. DOMAIN h = Nat /\ h[0] = enc'
    OBVIOUS
  <2> HIDE DEF h
  <2>4. Sound(h[0]) /\ Fresh(h[0], enc'.p, enc'.sdelta)
    BY <1>2, <2>3
  <2>5. \A i \in 0 .. Len(<<>>) : i = 0
    BY <2>1
  <2>6. \A i \in 1 .. Len(<<>>) : FALSE
    BY <2>1
  <2>7. History(h, enc'.p, enc'.sdelta, msg, <<>>)
    BY <2>4, <2>5, <2>6 DEF History
  <2> QED
    BY <2>1, <2>2, <2>3, <2>7 DEF EncodeInv
<1>4. DecodeInv'
  BY <1>1, DecodeUntouched DEF Inv
<1>5. WireInv' /\ Lossless' /\ result'.status = "none"
  BY <1>1 DEF Inv, WireInv, Lossless, NoResult
<1> QED
  BY <1>1, <1>2, <1>3, <1>4, <1>5 DEF Inv

\* A symbol coded by the last codec of a history extends it.
LEMMA HistoryExtended ==
    ASSUME NEW h, DOMAIN h = Nat, NEW p, NEW sdelta, NEW msg,
           NEW payload \in Seq(Coded1), History(h, p, sdelta, msg, payload),
           NEW e \in Coded1, NEW d, Sound(d),
           CodedStep(h[Len(payload)], d, msg[Len(payload) + 1], e)
    PROVE  LET h2 == [h EXCEPT ![Len(payload) + 1] = d]
           IN  /\ DOMAIN h2 = Nat /\ h2[Len(payload) + 1] = d
               /\ History(h2, p, sdelta, msg, Append(payload, e))
<1> DEFINE n  == Len(payload)
           pl == Append(payload, e)
           h2 == [h EXCEPT ![n + 1] = d]
<1>1. n \in Nat /\ Len(pl) = n + 1 /\ pl[n + 1] = e
      /\ \A i \in 1 .. n : pl[i] = payload[i]
  BY LenProperties, AppendProperties
<1> HIDE DEF n, pl
<1>2. DOMAIN h2 = Nat /\ h2[n + 1] = d /\ \A i \in 0 .. n : h2[i] = h[i]
  BY <1>1
<1> HIDE DEF h2
<1>3. Fresh(h2[0], p, sdelta)
  BY <1>1, <1>2 DEF History
<1>4. \A i \in 0 .. Len(pl) : Sound(h2[i])
  <2>1. \A i \in 0 .. n : Sound(h2[i])
    BY <1>2 DEF History, n
  <2>2. \A i \in 0 .. Len(pl) : i \in 0 .. n \/ i = n + 1
    BY <1>1
  <2> QED
    BY <1>2, <2>1, <2>2
<1>5. \A i \in 1 .. Len(pl) : CodedStep(h2[i-1], h2[i], msg[i], pl[i])
  <2> SUFFICES ASSUME NEW i \in 1 .. Len(pl)
               PROVE  CodedStep(h2[i-1], h2[i], msg[i], pl[i])
    OBVIOUS
  <2>1. CASE i = n + 1
    <3>1. i - 1 = n /\ n \in 0 .. n
      BY <1>1, <2>1
    <3>2. h2[i - 1] = h[n] /\ h2[i] = d /\ pl[i] = e
      BY <1>1, <1>2, <2>1, <3>1
    <3> QED
      BY <2>1, <3>2 DEF n
  <2>2. CASE i # n + 1
    <3>1. i \in 1 .. n /\ i - 1 \in 0 .. n /\ i \in 0 .. n
      BY <1>1, <2>2
    <3>2. h2[i - 1] = h[i - 1] /\ h2[i] = h[i] /\ pl[i] = payload[i]
      BY <1>1, <1>2, <3>1
    <3> QED
      BY <3>1, <3>2 DEF History, n
  <2> QED
    BY <2>1, <2>2
<1> QED
  BY <1>2, <1>3, <1>4, <1>5 DEF History, n, pl, h2

\* Each byte coded extends the history of the message.
LEMMA EncodeByteInv == ASSUME Inv, EncodeByte PROVE Inv'
<1> DEFINE n   == Len(ecall.payload)
           b   == ecall.msg[n + 1]
           sym == EncXform(enc, b)
           e   == [sym |-> sym, cum |-> CodecDist(enc)]
<1>1. /\ ecall.pc = "coding" /\ n < Len(ecall.msg)
      /\ enc' = CodecTrain(Memoized(enc), sym)
      /\ ecall' = [ecall EXCEPT !.payload = Append(@, e)]
      /\ UNCHANGED <<dec, crcOn, idOn, dcall, wire, result>>
  BY DEF EncodeByte
<1>2. PICK h : /\ DOMAIN h = Nat
               /\ History(h, enc.p, enc.sdelta, ecall.msg, ecall.payload)
               /\ h[n] = enc
  BY <1>1 DEF Inv, EncodeInv
<1>3. Sound(enc) /\ ecall \in EncCalls /\ ecall.msg \in Seq(Bytes) /\ ecall.payload \in Seq(Coded1)
  BY <1>1 DEF Inv, EncodeInv, EncCalls
<1>4. n \in Nat /\ b \in Bytes
  <2>1. n \in Nat /\ Len(ecall.msg) \in Nat
    BY <1>3, LenProperties
  <2>2. n + 1 \in 1 .. Len(ecall.msg)
    BY <1>1, <2>1
  <2> QED
    BY <1>3, <2>1, <2>2, ElementOfSeq
<1>5. sym \in Bytes /\ e \in Coded1
  BY <1>3, <1>4, XformType, CodecDistType DEF Coded1
<1>6. Sound(enc') /\ enc'.p = enc.p /\ enc'.sdelta = enc.sdelta
  <2>1. Sound(Memoized(enc)) /\ Memoized(enc).p = enc.p /\ Memoized(enc).sdelta = enc.sdelta
    BY <1>3, MemoizedSound, MemoizedFields
  <2> QED
    BY <1>1, <1>5, <2>1, TrainSound
<1>7. CodedStep(h[n], enc', b, e)
  BY <1>1, <1>2 DEF CodedStep
<1> HIDE DEF sym, e, b
<1> DEFINE h2 == [h EXCEPT ![n + 1] = enc']
<1>8. /\ DOMAIN h2 = Nat /\ h2[n + 1] = enc'
      /\ History(h2, enc.p, enc.sdelta, ecall.msg, Append(ecall.payload, e))
  BY <1>2, <1>3, <1>5, <1>6, <1>7, HistoryExtended DEF b
<1> HIDE DEF h2
<1>9. /\ ecall'.msg = ecall.msg /\ ecall'.payload = Append(ecall.payload, e)
      /\ ecall'.pc = "coding" /\ ecall' \in EncCalls
      /\ Len(ecall'.payload) = n + 1
  <2>1. /\ Append(ecall.payload, e) \in Seq(Coded1)
        /\ Len(Append(ecall.payload, e)) = n + 1
    BY <1>3, <1>5, AppendProperties
  <2> QED
    BY <1>1, <1>3, <2>1 DEF EncCalls
<1>10. Len(ecall'.payload) <= Len(ecall'.msg)
  <2>1. Len(ecall.msg) \in Nat
    BY <1>3, LenProperties
  <2> QED
    BY <1>1, <1>4, <1>9, <2>1
<1>11. EncodeInv'
  BY <1>6, <1>8, <1>9, <1>10 DEF EncodeInv
<1>12. DecodeInv'
  BY <1>1, DecodeUntouched DEF Inv
<1>13. WireInv' /\ Lossless'
  BY <1>1 DEF Inv, WireInv, Lossless
<1> QED
  BY <1>1, <1>6, <1>9, <1>11, <1>12, <1>13 DEF Inv

\* The blob of a coded message carries its whole history.
LEMMA BlobMade ==
    ASSUME Inv, Coded
    PROVE  IsBlob(Blob)
<1>1. PICK h : History(h, enc.p, enc.sdelta, ecall.msg, ecall.payload)
  BY DEF Coded, Inv, EncodeInv
<1>2. Sound(enc) /\ enc.p \in Priors /\ enc.sdelta \in BOOLEAN
      /\ (enc.sdelta => Structural(enc.p)) /\ crcOn \in BOOLEAN /\ idOn \in BOOLEAN
  BY DEF Inv, Sound, IsCodec, Codecs
<1>3. ecall.msg \in Seq(Bytes) /\ ecall.payload \in Seq(Coded1)
      /\ Len(ecall.payload) = Len(ecall.msg)
  BY DEF Inv, EncodeInv, EncCalls, Coded
<1>4. Len(ecall.msg) \in Nat
  BY <1>3, LenProperties
<1>5. (Structural(enc.p) /\ enc.sdelta) = enc.sdelta
  BY <1>2
<1>6. Blob \in Blobs
  BY <1>2, <1>3, <1>4, <1>5 DEF Blob, Blobs
<1>7. Made(Blob)
  BY <1>1, <1>2, <1>3, <1>5 DEF Blob, Made
<1> QED
  BY <1>6, <1>7 DEF IsBlob

\* A finished blob joins those on the wire.
LEMMA EncodeDoneInv == ASSUME Inv, EncodeDone PROVE Inv'
<1>1. Coded /\ wire' = wire \cup {Blob} /\ ecall'.pc = "idle"
      /\ UNCHANGED <<enc, dec, crcOn, idOn, dcall, result>>
  BY DEF EncodeDone, Idle
<1>2. WireInv'
  BY <1>1, BlobMade DEF Inv, WireInv
<1>3. EncodeInv' /\ Lossless' /\ DecodeInv'
  BY <1>1, DecodeUntouched DEF Inv, EncodeInv, Lossless
<1> QED
  BY <1>1, <1>2, <1>3 DEF Inv

\* A call that fails leaves no blob.
LEMMA EncodeFailsInv == ASSUME Inv, EncodeFails PROVE Inv'
<1>1. ecall'.pc = "idle" /\ UNCHANGED <<enc, dec, crcOn, idOn, dcall, wire, result>>
  BY DEF EncodeFails, Idle
<1>2. EncodeInv' /\ Lossless' /\ DecodeInv' /\ WireInv'
  BY <1>1, DecodeUntouched DEF Inv, EncodeInv, Lossless, WireInv
<1> QED
  BY <1>1, <1>2 DEF Inv

\* What arrives is a blob that was made, or is known as damaged.
LEMMA ArrivalIsBlob ==
    ASSUME Inv, NEW b \in Arrivals
    PROVE  IsBlob(b)
<1>1. PICK w \in wire : b = w \/ b \in Damaged(w)
  BY DEF Arrivals
<1>2. IsBlob(w)
  BY DEF Inv, WireInv
<1>3. CASE b \in Damaged(w)
  <2>1. w \in Blobs /\ w.len + 1 \in Nat /\ <<>> \in Seq(Coded1)
    BY <1>2, EmptySeq DEF IsBlob, Blobs
  <2>2. [w EXCEPT !.genuine = FALSE, !.payload = <<>>] \in {x \in Blobs : x.genuine = FALSE}
    BY <2>1 DEF Blobs
  <2>3. [w EXCEPT !.genuine = FALSE, !.len = 0] \in {x \in Blobs : x.genuine = FALSE}
    BY <2>1 DEF Blobs
  <2>4. [w EXCEPT !.genuine = FALSE, !.len = w.len + 1] \in {x \in Blobs : x.genuine = FALSE}
    BY <2>1 DEF Blobs
  <2>5. [w EXCEPT !.genuine = FALSE, !.whole = FALSE] \in {x \in Blobs : x.genuine = FALSE}
    BY <2>1 DEF Blobs
  <2>6. b \in {x \in Blobs : x.genuine = FALSE}
    BY <1>3, <2>2, <2>3, <2>4, <2>5 DEF Damaged
  <2> QED
    BY <2>6 DEF IsBlob
<1> QED
  BY <1>1, <1>2, <1>3

\* The checks refuse an undamaged blob of the same prior only for its size,
\* and accept without decoding only an empty message.
LEMMA DecodeReturnEarlyInv ==
    ASSUME Inv, NEW b \in Arrivals, NEW cap, DecodeReturnEarly(b, cap) PROVE Inv'
<1>1. /\ Refusal(b, cap) # "none"
      /\ result' = [status |-> Refusal(b, cap), out |-> <<>>, blob |-> b, by |-> dec.p,
                    fault |-> FALSE]
      /\ dcall'.pc = "idle"
      /\ UNCHANGED <<enc, dec, crcOn, idOn, ecall, wire>>
  BY DEF DecodeReturnEarly, Return, Idle
<1>2. IsBlob(b)
  BY ArrivalIsBlob
<1>3. Refusal(b, cap) \in {"ok", "corrupted", "id_mismatch", "too_small"}
  BY <1>1 DEF Refusal
<1>4. Lossless'
  <2> SUFFICES ASSUME b.genuine, dec.p = b.from, Refusal(b, cap) # "too_small"
               PROVE  Refusal(b, cap) = "ok" /\ b.orig = <<>>
    BY <1>1 DEF Lossless
  <2>1. Made(b)
    BY <1>2 DEF IsBlob
  <2>2. Refusal(b, cap) = "ok" /\ b.len = 0
    BY <1>1, <2>1 DEF Made, Refusal
  <2>3. b.orig \in Seq(Bytes) /\ Len(b.orig) = 0
    BY <1>2, <2>1, <2>2 DEF IsBlob, Blobs, Made
  <2> QED
    BY <2>2, <2>3, EmptySeq
<1>5. EncodeInv' /\ WireInv' /\ DecodeInv'
  BY <1>1, EncodeUntouched DEF Inv, WireInv, DecodeInv
<1> QED
  BY <1>1, <1>3, <1>4, <1>5 DEF Inv

\* bcb_decode starts with a codec like the one the message started with.
LEMMA DecodeBeginInv ==
    ASSUME Inv, NEW b \in Arrivals, NEW cap, DecodeBegin(b, cap) PROVE Inv'
<1> DEFINE c == Begin(dec)
<1>1. /\ dec' = SetSdelta(c, b.sdelta)
      /\ dcall' = [pc |-> "decoding", blob |-> b, out |-> <<>>, inStep |-> TRUE]
      /\ result'.status = "none"
      /\ UNCHANGED <<enc, crcOn, idOn, ecall, wire>>
  BY DEF DecodeBegin, NoResult
<1>2. IsBlob(b) /\ b \in Blobs /\ b.sdelta \in BOOLEAN /\ b.len \in Nat
  BY ArrivalIsBlob DEF IsBlob, Blobs
<1>3. /\ Sound(c) /\ c.p = dec.p /\ c.win = <<>>
      /\ Structural(c.p) => c.pos = 0 /\ c.prev = Zeros(c.p) /\ c.cur = Zeros(c.p)
  BY BeginSound DEF Inv
<1> HIDE DEF c
<1>4. /\ Sound(dec') /\ dec'.p = dec.p /\ dec'.win = <<>>
      /\ dec'.sdelta = (Structural(dec.p) /\ b.sdelta)
      /\ Structural(dec.p) => /\ dec'.pos = 0 /\ dec'.prev = Zeros(dec.p)
                              /\ dec'.cur = Zeros(dec.p)
  <2> DEFINE d == SetSdelta(c, b.sdelta)
  <2>1. /\ Sound(d) /\ d.p = c.p /\ d.pos = c.pos /\ d.prev = c.prev
        /\ d.cur = c.cur /\ d.win = c.win /\ d.sdelta = (Structural(c.p) /\ b.sdelta)
    BY <1>2, <1>3, SetSdeltaSound
  <2> HIDE DEF d
  <2>2. dec' = d
    BY <1>1 DEF d
  <2> QED
    BY <1>3, <2>1, <2>2
<1>5. <<>> \in Seq(Bytes) /\ Len(<<>>) = 0
  BY EmptySeq
<1>6. /\ dcall'.blob = b /\ dcall'.out = <<>> /\ dcall'.inStep = TRUE
      /\ dcall'.pc = "decoding" /\ dcall' \in DecCalls
  BY <1>1, <1>2, <1>5 DEF DecCalls
<1>7. ASSUME b.genuine, b.from = dec.p PROVE Following'
  <2>1. Made(b)
    BY <1>2, <1>7 DEF IsBlob
  <2>2. PICK h : History(h, b.from, b.sdelta, b.orig, b.payload)
    BY <2>1 DEF Made
  <2>3. Fresh(h[0], dec.p, b.sdelta)
    BY <1>7, <2>2 DEF History
  <2>4. dec'.sdelta = b.sdelta
    BY <1>4, <1>7, <2>1, <1>2 DEF Made
  <2>5. Alike(dec', h[0])
    BY <1>4, <2>3, <2>4 DEF Alike, Fresh
  <2>6. \A i \in 1 .. Len(<<>>) : FALSE
    BY <1>5
  <2> QED
    BY <1>5, <1>6, <2>2, <2>5, <2>6 DEF Following
<1>8. DecodeInv'
  BY <1>2, <1>4, <1>5, <1>6, <1>7 DEF DecodeInv
<1>9. EncodeInv' /\ WireInv' /\ Lossless'
  BY <1>1, EncodeUntouched DEF Inv, WireInv, Lossless
<1> QED
  BY <1>1, <1>4, <1>6, <1>8, <1>9 DEF Inv

\* Each byte decoded is the byte coded, by a codec like the one that coded it.
LEMMA DecodeByteInv == ASSUME Inv, DecodeByte PROVE Inv'
<1> DEFINE b == dcall.blob
           i == Len(dcall.out) + 1
           inStep == /\ dcall.inStep /\ i <= Len(b.payload)
                     /\ b.payload[i].cum = CodecDist(dec)
<1>1. PICK sym \in IF inStep THEN {b.payload[i].sym} ELSE Bytes :
          /\ dec' = CodecTrain(Memoized(dec), sym)
          /\ dcall' = [dcall EXCEPT !.inStep = inStep,
                         !.out = Append(@, IF dec.sdelta THEN dec'.last ELSE sym)]
  BY DEF DecodeByte
<1>2. /\ dcall.pc = "decoding" /\ Len(dcall.out) < b.len
      /\ UNCHANGED <<enc, crcOn, idOn, ecall, wire, result>>
  BY DEF DecodeByte
<1>3. /\ dcall \in DecCalls /\ IsBlob(b) /\ Sound(dec)
      /\ b.genuine /\ b.from = dec.p => Following
  BY <1>2 DEF Inv, DecodeInv
<1>4. /\ b \in Blobs /\ b.payload \in Seq(Coded1) /\ b.orig \in Seq(Bytes)
      /\ b.len \in Nat /\ dcall.out \in Seq(Bytes)
  BY <1>3 DEF DecCalls, Blobs
<1>5. Len(dcall.out) \in Nat /\ Len(b.payload) \in Nat /\ i \in Nat /\ i >= 1
  <2>1. Len(dcall.out) \in Nat /\ Len(b.payload) \in Nat
    BY <1>4, LenProperties
  <2> QED
    BY <2>1
<1>6. sym \in Bytes
  <2>1. CASE inStep
    <3>1. i \in 1 .. Len(b.payload)
      BY <1>5, <2>1
    <3>2. b.payload[i] \in Coded1
      BY <1>4, <3>1, ElementOfSeq
    <3> QED
      BY <1>1, <2>1, <3>2 DEF Coded1
  <2>2. CASE ~inStep
    BY <1>1, <2>2
  <2> QED
    BY <2>1, <2>2
<1> DEFINE m == Memoized(dec)
           byte == IF dec.sdelta THEN dec'.last ELSE sym
           out == Append(dcall.out, byte)
<1>7. /\ Sound(m) /\ m.p = dec.p /\ m.sdelta = dec.sdelta /\ m.pos = dec.pos
      /\ m.prev = dec.prev
  BY <1>3, MemoizedSound, MemoizedFields
<1>8. Sound(dec') /\ dec'.p = dec.p /\ dec'.sdelta = dec.sdelta /\ dec'.last \in Bytes
  <2>1. Sound(dec') /\ dec'.p = dec.p /\ dec'.sdelta = dec.sdelta
    BY <1>1, <1>6, <1>7, TrainSound
  <2> QED
    BY <2>1 DEF Sound, IsCodec, Codecs
<1>9. /\ out \in Seq(Bytes) /\ Len(out) = i /\ out[i] = byte
      /\ \A j \in 1 .. Len(dcall.out) : out[j] = dcall.out[j]
  BY <1>4, <1>6, <1>8, AppendProperties
<1>10. inStep \in BOOLEAN
  BY <1>3 DEF DecCalls
<1>11. /\ dcall' \in DecCalls /\ dcall'.pc = "decoding" /\ dcall'.blob = b
       /\ dcall'.out = out /\ dcall'.inStep = inStep
  <2> HIDE DEF inStep, out
  <2> QED
    BY <1>1, <1>3, <1>9, <1>10 DEF DecCalls, out
<1>12. Len(out) <= b.len
  BY <1>2, <1>4, <1>5, <1>9
<1>13. ASSUME b.genuine, b.from = dec.p PROVE Following'
  <2>1. Made(b) /\ Following
    BY <1>3, <1>13 DEF IsBlob
  <2>2. PICK h : /\ History(h, b.from, b.sdelta, b.orig, b.payload)
                 /\ Alike(dec, h[i - 1])
    BY <2>1, <1>5 DEF Following
  <2>3. i <= Len(b.payload) /\ i \in 1 .. Len(b.payload) /\ i - 1 \in 0 .. Len(b.payload)
        /\ i \in 0 .. Len(b.payload) /\ Len(b.orig) = Len(b.payload)
    BY <1>2, <1>4, <1>5, <2>1 DEF Made
  <2> DEFINE k == h[i - 1]
  <2>4. Sound(k) /\ Sound(h[i]) /\ CodedStep(k, h[i], b.orig[i], b.payload[i])
    BY <2>2, <2>3 DEF History
  <2>5. inStep
    BY <1>3, <2>1, <2>2, <2>3, <2>4, AlikeDist DEF CodedStep, Following
  <2>6. sym = b.payload[i].sym /\ sym = EncXform(k, b.orig[i]) /\ b.orig[i] \in Bytes
    BY <1>1, <1>4, <2>3, <2>4, <2>5, ElementOfSeq DEF CodedStep
  <2>7. Alike(m, Memoized(k))
    BY <1>3, <2>2, <2>4, AlikeMemoized
  <2>8. Alike(dec', h[i])
    <3>1. IsCodec(m) /\ IsCodec(Memoized(k))
      BY <1>7, <2>4, MemoizedSound DEF Sound
    <3>2. h[i] = CodecTrain(Memoized(k), sym)
      BY <2>4, <2>6 DEF CodedStep
    <3> QED
      BY <1>1, <2>7, <3>1, <3>2, AlikeTrain
  <2>9. byte = b.orig[i]
    <3>1. CASE ~dec.sdelta
      BY <2>2, <2>4, <2>6, <3>1, XformUndone DEF Alike
    <3>2. CASE dec.sdelta
      <4>1. Structural(dec.p) /\ k.sdelta
        BY <1>3, <2>2, <3>2 DEF Alike, Sound, IsCodec
      <4>2. Actual(k, sym) = b.orig[i]
        BY <2>4, <2>6, <4>1, XformUndone
      <4>3. Actual(m, sym) = Actual(k, sym)
        BY <1>7, <2>2, <4>1 DEF Actual, Alike
      <4>4. dec'.last = Actual(m, sym)
        BY <1>1, <1>7, <4>1 DEF CodecTrain, TrainStructural, Sound, IsCodec, Codecs
      <4> QED
        BY <3>2, <4>2, <4>3, <4>4
    <3> QED
      BY <3>1, <3>2
  <2>10. \A j \in 1 .. Len(out) : out[j] = b.orig[j]
    <3> SUFFICES ASSUME NEW j \in 1 .. Len(out) PROVE out[j] = b.orig[j]
      OBVIOUS
    <3>1. CASE j = i
      BY <1>9, <2>9, <3>1
    <3>2. CASE j # i
      <4>1. j \in 1 .. Len(dcall.out)
        BY <1>5, <1>9, <3>2
      <4> QED
        BY <1>9, <2>1, <4>1 DEF Following
    <3> QED
      BY <3>1, <3>2
  <2> HIDE DEF inStep, out
  <2> QED
    BY <1>9, <1>11, <2>2, <2>5, <2>8, <2>10 DEF Following
<1>14. DecodeInv'
  <2> HIDE DEF inStep, out
  <2> QED
    BY <1>3, <1>8, <1>11, <1>12, <1>13 DEF DecodeInv
<1>15. EncodeInv' /\ WireInv' /\ Lossless'
  BY <1>2, EncodeUntouched DEF Inv, WireInv, Lossless
<1> QED
  BY <1>2, <1>8, <1>11, <1>14, <1>15 DEF Inv

\* Out of memory is reported as such.
LEMMA DecodeFailsInv == ASSUME Inv, DecodeFails PROVE Inv'
<1>1. /\ result'.status = "corrupted" /\ result'.fault /\ dcall'.pc = "idle"
      /\ UNCHANGED <<enc, dec, crcOn, idOn, ecall, wire>>
  BY DEF DecodeFails, Return, Idle
<1>2. EncodeInv' /\ WireInv' /\ DecodeInv' /\ Lossless'
  BY <1>1, EncodeUntouched DEF Inv, WireInv, DecodeInv, Lossless
<1> QED
  BY <1>1, <1>2 DEF Inv

\* What bcb_decode returns for an undamaged blob is the message.
LEMMA DecodeEndInv == ASSUME Inv, DecodeEnd PROVE Inv'
<1> DEFINE b == dcall.blob
           bad == b.hasCrc /\ Crc(dcall.out) # b.crc
<1>1. /\ dcall.pc = "decoding" /\ Len(dcall.out) = b.len
      /\ result' = [status |-> IF bad THEN "corrupted" ELSE "ok",
                    out |-> IF bad THEN <<>> ELSE dcall.out, blob |-> b,
                    by |-> dec.p, fault |-> FALSE]
      /\ dcall'.pc = "idle"
      /\ UNCHANGED <<enc, dec, crcOn, idOn, ecall, wire>>
  BY DEF DecodeEnd, Return, Idle
<1>2. Lossless'
  <2> SUFFICES ASSUME b.genuine, dec.p = b.from
               PROVE  ~bad /\ dcall.out = b.orig
    BY <1>1 DEF Lossless
  <2>1. Made(b) /\ Following /\ dcall \in DecCalls /\ b \in Blobs
    BY <1>1 DEF Inv, DecodeInv, IsBlob, DecCalls
  <2>2. dcall.out \in Seq(Bytes) /\ b.orig \in Seq(Bytes)
    BY <2>1 DEF DecCalls, Blobs
  <2>3. Len(dcall.out) = Len(b.orig)
    BY <1>1, <2>1 DEF Made
  <2>4. dcall.out = b.orig
    BY <2>1, <2>2, <2>3, SeqEqual DEF Following
  <2> QED
    BY <2>1, <2>4 DEF Made
<1>3. result'.status \in {"ok", "corrupted"}
  BY <1>1
<1>4. EncodeInv' /\ WireInv' /\ DecodeInv'
  BY <1>1, EncodeUntouched DEF Inv, WireInv, DecodeInv
<1> QED
  BY <1>1, <1>2, <1>3, <1>4 DEF Inv

\* A step that changes nothing keeps the invariant.
LEMMA StutterInv == ASSUME Inv, UNCHANGED vars PROVE Inv'
<1>1. UNCHANGED <<enc, dec, crcOn, idOn, ecall, dcall, wire, result>>
  BY DEF vars
<1>2. EncodeInv' /\ DecodeInv' /\ WireInv' /\ Lossless'
  BY <1>1, EncodeUntouched, DecodeUntouched DEF Inv, WireInv, Lossless
<1> QED
  BY <1>1, <1>2 DEF Inv

\* Every step keeps the invariant.
LEMMA InvPreserved == Inv /\ [Next]_vars => Inv'
<1> SUFFICES ASSUME Inv, [Next]_vars PROVE Inv'
  OBVIOUS
<1>1. ASSUME NEW on \in BOOLEAN, SetChecksum(on) \/ SetPriorId(on) PROVE Inv'
  BY <1>1, SwitchInv
<1>2. ASSUME NEW msg \in Messages, NEW legacy \in BOOLEAN, EncodeBegin(msg, legacy)
      PROVE  Inv'
  BY <1>2, EncodeBeginInv
<1>3. CASE EncodeCall
  BY <1>3, EncodeByteInv, EncodeDoneInv, EncodeFailsInv DEF EncodeCall
<1>4. ASSUME NEW b \in Arrivals, NEW cap \in Caps,
             DecodeReturnEarly(b, cap) \/ DecodeBegin(b, cap)
      PROVE  Inv'
  BY <1>4, DecodeReturnEarlyInv, DecodeBeginInv
<1>5. CASE DecodeCall
  BY <1>5, DecodeByteInv, DecodeFailsInv, DecodeEndInv DEF DecodeCall
<1>6. CASE UNCHANGED vars
  BY <1>6, StutterInv
<1> QED
  BY <1>1, <1>2, <1>3, <1>4, <1>5, <1>6 DEF Next

\* The invariant holds in every state.
THEOREM InvAlways == Spec => []Inv
  BY InitInv, InvPreserved, PTL DEF Spec

\* A sound codec is typed.
LEMMA CodecTypeOK ==
    ASSUME NEW c, Sound(c)
    PROVE  CodecOK(c)
<1>1. c \in Codecs /\ IsCodec(c)
  BY DEF Sound, IsCodec
<1>2. /\ c.win \in Seq(Bytes) /\ Len(c.win) <= Depth /\ c.gen \in 1 .. GenMod - 1
      /\ c.last \in Bytes /\ c.p \in Priors /\ c.pos \in Nat
  BY <1>1, WindowIsSeq DEF Codecs
<1>3. Structural(c.p) => c.pos \in 0 .. c.p.rec - 1
  BY <1>1, <1>2, PriorFacts DEF IsCodec
<1> QED
  BY <1>1, <1>2, <1>3 DEF CodecOK, IsCodec

\* The variables of the two handles keep their types.
THEOREM TypeCorrect == Spec => []TypeOK
<1>1. Inv => TypeOK
  BY CodecTypeOK DEF Inv, TypeOK
<1> QED
  BY <1>1, InvAlways, PTL

\* Every undamaged blob is decoded to the message it was made of, with every
\* prior and whatever was encoded and decoded on the two handles before, unless
\* the buffer is too small or there is no memory.
THEOREM LosslessSafe == Spec => []Lossless
<1>1. Inv => Lossless
  BY DEF Inv
<1> QED
  BY <1>1, InvAlways, PTL

\* For every symbol the decoder asks with the distribution the encoder used.
THEOREM InStepSafe == Spec => []InStep
<1>1. Inv => InStep
  BY DEF Inv, InStep, DecodeInv, Following
<1> QED
  BY <1>1, InvAlways, PTL

\* A cached distribution is always the one a recomputation would give.
THEOREM CacheCoherentSafe == Spec => []CacheCoherent
<1>1. Inv => CacheCoherent
  BY DEF Inv, CacheCoherent, Sound
<1> QED
  BY <1>1, InvAlways, PTL

\* No entry of an earlier message is live in a build that clears per message.
THEOREM CacheClearedSafe == Spec => []CacheCleared
<1>1. Inv => CacheCleared
  BY DEF Inv, CacheCleared, Sound
<1> QED
  BY <1>1, InvAlways, PTL
=============================================================================
