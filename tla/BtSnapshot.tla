----------------------------- MODULE BtSnapshot -----------------------------
(***************************************************************************)
(* The trained tables of btv3.c as a reader sees them, in memory or mapped *)
(* from a prior file: context entries found by open addressing, each with  *)
(* a chain of pool entries, one per byte seen after the context; and the   *)
(* test bt_v3_validate puts a file to before anybody reads it.             *)
(*                                                                         *)
(* Entries are numbered from 1; Empty stands for the negative indices that *)
(* mark an empty slot and the end of a chain.                              *)
(***************************************************************************)
EXTENDS Integers, Sequences, FiniteSets

CONSTANTS Contexts,  \* the contexts an entry can be for
          CtxHash,   \* fnv of a context
          BloomBits  \* hash -> the bits of the filter it stands for

ASSUME HashAssumption == CtxHash \in [Contexts -> Nat]

Empty == 0

(***************************************************************************)
(* Linear probing: from its hash on, up to an empty slot or one of the     *)
(* entries in hits, those that match.  It ends only if there is one.       *)
(***************************************************************************)
ProbeEnds(slot, hits) == \E h \in DOMAIN slot : slot[h] \in {Empty} \cup hits

Probe(slot, hash, hits) ==
    LET n == Cardinality(DOMAIN slot)
        stop[h \in 0 .. n - 1] ==
            IF slot[h] \in {Empty} \cup hits THEN h ELSE stop[(h + 1) % n]
    IN  stop[hash % n]

\* the pool entries met from `first` on
Chain(pool, first) ==
    LET after == [i \in {Empty} \cup DOMAIN pool |->
                     IF i = Empty THEN Empty ELSE pool[i].link]
        at[k \in 0 .. Len(pool)] == IF k = 0 THEN first ELSE after[at[k - 1]]
    IN  {at[k] : k \in 0 .. Len(pool)} \ {Empty}

(***************************************************************************)
(* What a reader finds of a context: its entry, if the filter and the      *)
(* probe lead to one, and how often the entries of its chain say a byte    *)
(* was seen after it.                                                      *)
(***************************************************************************)
Found(s, ctx) ==
    LET hits == {i \in DOMAIN s.ctxPool : s.ctxPool[i].ctx = ctx}
    IN  IF /\ BloomBits[CtxHash[ctx]] \subseteq s.bloom
           /\ ProbeEnds(s.ctxSlot, hits)
        THEN s.ctxSlot[Probe(s.ctxSlot, CtxHash[ctx], hits)]
        ELSE Empty

\* of two entries for a byte, the reader would keep the one met last
FreqOn(pool, chain, b) ==
    LET met == {i \in chain : pool[i].next = b}
    IN  IF met = {} THEN 0
        ELSE pool[CHOOSE i \in met : \A j \in met \ {i} : i \in Chain(pool, j)].freq
-----------------------------------------------------------------------------
(***************************************************************************)
(* bt_v3_validate: indices in range, a slot left empty, contexts not too   *)
(* long, and no entry met twice while all chains are walked, that is, each *)
(* entry met has one predecessor.  The build signature is taken to match.  *)
(***************************************************************************)
\* slip: the index after the last one passes
SlotsNearRange(s) ==
    \A h \in DOMAIN s.ctxSlot :
        s.ctxSlot[h] \in {Empty} \cup 1 .. Len(s.ctxPool) + 1

TwoTo[k \in Nat] == IF k = 0 THEN 1 ELSE 2 * TwoTo[k - 1]
IsPowerOfTwo(n) == \E k \in 0 .. n : n = TwoTo[k]

SlotsInRange(s) ==
    /\ IsPowerOfTwo(Cardinality(DOMAIN s.ctxSlot))
    /\ \A h \in DOMAIN s.ctxSlot :
          s.ctxSlot[h] \in {Empty} \cup DOMAIN s.ctxPool

\* slip: the slots may be full as long as one is used
SlotUsed(s) == \E h \in DOMAIN s.ctxSlot : s.ctxSlot[h] # Empty

SlotLeftEmpty(s) == \E h \in DOMAIN s.ctxSlot : s.ctxSlot[h] = Empty

EntriesInRange(s) ==
    /\ \A c \in DOMAIN s.ctxPool :
          /\ s.ctxPool[c].ctx \in Contexts
          /\ s.ctxPool[c].first \in {Empty} \cup DOMAIN s.pool
    /\ \A i \in DOMAIN s.pool :
          /\ s.pool[i].ctx \in Contexts
          /\ s.pool[i].link \in {Empty} \cup DOMAIN s.pool

MetOnce(s) ==
    LET met == UNION {Chain(s.pool, s.ctxPool[c].first) : c \in DOMAIN s.ctxPool}
    IN  \A i \in met :
          Cardinality({c \in DOMAIN s.ctxPool : s.ctxPool[c].first = i})
            + Cardinality({j \in met : s.pool[j].link = i}) = 1

Valid(s) == SlotsInRange(s) /\ SlotLeftEmpty(s) /\ EntriesInRange(s) /\ MetOnce(s)
=============================================================================
