------------------------------ MODULE BtTable -------------------------------
(***************************************************************************)
(* The context model of btv3.c: two pools of entries, each with an         *)
(* open-addressing slot array that doubles when the pool is full, chains   *)
(* from a context's entry through the pool, a Bloom filter, the window of  *)
(* the last bytes, and what training, saving and attaching do to them.     *)
(* The process-wide globals are used by one thread.                        *)
(***************************************************************************)
EXTENDS BtSnapshot

CONSTANTS Byte, Depth,          \* byte values; BT_MAX_DEPTH
          KeyHash,              \* hash of a context and the byte after it
          Builds,               \* the builds of the library, see BuildType
          WindowsSet,           \* what bt_v3_set_window is given, <<>> for reset
          MaxTrained            \* bound of the model: bytes ever trained

BuildType == [dynamic : BOOLEAN,       \* BTV3_DYNAMIC
              reallocFails : BOOLEAN,  \* realloc may return NULL while growing
              poolCap : Nat, btSlots : Nat,   \* POOL_CAP0, BT_NSLOTS0
              ctxCap : Nat, ctxSlots : Nat]   \* CTX_CAP0, CTX_NSLOTS0

\* each array of slots is larger than its pool, and a power of two
SizesFit(b) == /\ 0 < b.poolCap /\ b.poolCap < b.btSlots
               /\ 0 < b.ctxCap /\ b.ctxCap < b.ctxSlots
               /\ IsPowerOfTwo(b.ctxSlots)

ASSUME BuildsAssumption == Builds \subseteq {b \in BuildType : SizesFit(b)}

VARIABLES build,   \* how the library was built; never changes
          bt,      \* g_pool, g_pool_cap, g_bt_slot
          ctxs,    \* g_ctx_pool, g_ctx_cap, g_ctx_slot
          bloom,   \* the bits set in g_bloom
          window,  \* g_window up to g_win_len
          call,    \* the running bt_v3_train: its byte, its n (0: none runs)
          frozen,  \* g_frozen
          live,    \* what the globals point at: "none", "own", "attached"
          file,    \* the prior saved last, if any
          trained  \* bytes trained so far, for MaxTrained only

vars == <<build, bt, ctxs, bloom, window, call, frozen, live, file, trained>>

Snap == [pool |-> bt.pool, ctxPool |-> ctxs.pool, ctxSlot |-> ctxs.slot,
         bloom |-> bloom]

Unseen   == [b \in Byte |-> 0]
NoCounts == [ctx \in Contexts |-> Unseen]

Freqs(s, ctx) ==
    LET c     == Found(s, ctx)
        chain == Chain(s.pool, s.ctxPool[c].first)
    IN  IF c = Empty THEN Unseen
        ELSE [b \in Byte |-> FreqOn(s.pool, chain, b)]

CountOf(s) == [ctx \in Contexts |-> Freqs(s, ctx)]

Model == INSTANCE FreqTable
            WITH lossy <- ~build.dynamic \/ build.reallocFails,
                 count <- IF live = "none" THEN NoCounts
                          ELSE CountOf(Snap),
                 saved <- {[count |-> CountOf(s), window |-> s.window] : s \in file}

ASSUME ContextsAssumption ==
    /\ Byte # {} /\ Depth \in Nat \ {0}
    /\ Contexts = Model!Strings
    /\ KeyHash \in [Contexts \X Byte -> Nat]
    /\ WindowsSet \subseteq Model!Windows

NoSlots(n) == [i \in 0 .. n - 1 |-> Empty]
NewTable(cap, n) == [pool |-> <<>>, cap |-> cap, slot |-> NoSlots(n)]

Init == /\ build \in Builds
        /\ bt = NewTable(0, 0) /\ ctxs = NewTable(0, 0) /\ bloom = {}
        /\ window = <<>> /\ call = Model!Idle /\ frozen = FALSE
        /\ live = "none" /\ file = {} /\ trained = 0

\* slip: the window forgets to drop its oldest byte
PushUnbounded(w, b) == Append(w, b)

Suffix(w, n) == SubSeq(w, Len(w) - n + 1, Len(w))
Push(w, b) == IF Len(w) < Depth THEN Append(w, b) ELSE Append(Tail(w), b)

\* the hashes of the entries, recomputed when the slots are filled again
BtHashes  == [i \in DOMAIN bt.pool |-> KeyHash[<<bt.pool[i].ctx, bt.pool[i].next>>]]
CtxHashes == [i \in DOMAIN ctxs.pool |-> CtxHash[ctxs.pool[i].ctx]]
-----------------------------------------------------------------------------
(***************************************************************************)
(* bt_grow and ctx_grow: the pool is reallocated, then the slots, and the  *)
(* entries are put back one by one.  A failure of the second realloc       *)
(* leaves the doubled capacity behind.                                     *)
(***************************************************************************)
Rehash(hashes, n) ==
    LET Placed[i \in 0 .. Len(hashes)] ==
            IF i = 0 THEN NoSlots(n)
            ELSE [Placed[i - 1] EXCEPT ![Probe(Placed[i - 1], hashes[i], {})] = i]
    IN  Placed[Len(hashes)]

\* slip: the slots are doubled but the entries are left where they were
GrowStale(t, hashes) ==
    LET n == Cardinality(DOMAIN t.slot)
    IN  {[ok |-> TRUE,
          table |-> [pool |-> t.pool, cap |-> 2 * t.cap,
                     slot |-> [i \in 0 .. 2 * n - 1 |->
                                  IF i < n THEN t.slot[i] ELSE Empty]]]}

\* slip: the pool is doubled and the slots are not
GrowPoolOnly(t, hashes) ==
    {[ok |-> TRUE, table |-> [t EXCEPT !.cap = 2 * @]]}

Grow(t, hashes) ==
    LET doubled == [t EXCEPT !.cap = 2 * @]
        grown   == [doubled EXCEPT !.slot =
                       Rehash(hashes, 2 * Cardinality(DOMAIN t.slot))]
    IN  IF ~build.dynamic THEN {[ok |-> FALSE, table |-> t]}
        ELSE {[ok |-> TRUE, table |-> grown]}
             \cup {[ok |-> FALSE, table |-> u] :
                      u \in IF build.reallocFails THEN {t, doubled} ELSE {}}

(***************************************************************************)
(* The loops of bt_update and ctx_get_h: the entry that matches, or a new  *)
(* one, after growing if need be; index is Empty if there was no room.     *)
(* There is no outcome if the probe never ends.                            *)
(***************************************************************************)
Added(t, hash, hits, entry) ==
    [t EXCEPT !.pool = Append(@, entry),
              !.slot[Probe(t.slot, hash, hits)] = Len(t.pool) + 1]

Enter(t, hash, hits, hashes, entry) ==
    LET at  == t.slot[Probe(t.slot, hash, hits)]
        new == Len(t.pool) + 1
    IN  IF ~ProbeEnds(t.slot, hits) THEN {}
        ELSE IF at # Empty THEN {[index |-> at, table |-> t]}
        ELSE IF Len(t.pool) < t.cap
             THEN {[index |-> new, table |-> Added(t, hash, hits, entry)]}
        ELSE {IF g.ok THEN [index |-> new, table |-> Added(g.table, hash, hits, entry)]
              ELSE [index |-> Empty, table |-> g.table] : g \in Grow(t, hashes)}
-----------------------------------------------------------------------------
(***************************************************************************)
(* bt_v3_train: every suffix of the window is counted, then the window     *)
(* moves on.  bt_update is one step of it.                                 *)
(***************************************************************************)
Train(b) ==
    /\ live # "none" /\ call.n = 0
    /\ IF frozen
       THEN window' = Push(window, b) /\ UNCHANGED <<call, trained>>
       ELSE /\ trained < MaxTrained
            /\ trained' = trained + 1
            /\ call' = [byte |-> b, n |-> 1] /\ UNCHANGED window
    /\ UNCHANGED <<bt, ctxs, bloom, frozen, live, file>>

\* the context entry of an update, or none when the pool had no room
EnterCtx(index, ctx) ==
    LET hits == {i \in DOMAIN ctxs.pool : ctxs.pool[i].ctx = ctx}
    IN  IF index = Empty THEN {[index |-> Empty, table |-> ctxs]}
        ELSE Enter(ctxs, CtxHash[ctx], hits, CtxHashes,
                   [ctx |-> ctx, total |-> 0, unique |-> 0, first |-> Empty])

\* slip: a context met again loses the chain it had
LinkedAlone(e, c) ==
    LET isNew == Len(e.table.pool) > Len(bt.pool)
    IN  IF c.index = Empty THEN ctxs' = c.table /\ bt' = e.table
        ELSE /\ ctxs' = [c.table EXCEPT !.pool[c.index] =
                  [@ EXCEPT !.total = @ + 1,
                            !.unique = IF isNew THEN @ + 1 ELSE @,
                            !.first = IF isNew THEN e.index ELSE @]]
             /\ bt' = e.table

\* slip: only new pairs count towards the context's total
LinkedUncounted(e, c) ==
    LET isNew == Len(e.table.pool) > Len(bt.pool)
        entry == c.table.pool[c.index]
    IN  IF c.index = Empty \/ ~isNew THEN ctxs' = c.table /\ bt' = e.table
        ELSE /\ ctxs' = [c.table EXCEPT !.pool[c.index] =
                  [@ EXCEPT !.total = @ + 1, !.unique = @ + 1, !.first = e.index]]
             /\ bt' = [e.table EXCEPT !.pool[e.index].link = entry.first]

Linked(e, c) ==
    LET isNew == Len(e.table.pool) > Len(bt.pool)
        entry == c.table.pool[c.index]
        raised == [entry EXCEPT !.total = @ + 1,
                                !.unique = IF isNew THEN @ + 1 ELSE @,
                                !.first = IF isNew THEN e.index ELSE @]
    IN  IF c.index = Empty THEN ctxs' = c.table /\ bt' = e.table
        ELSE /\ ctxs' = [c.table EXCEPT !.pool[c.index] = raised]
             /\ bt' = IF isNew THEN [e.table EXCEPT !.pool[e.index].link = entry.first]
                      ELSE e.table

Update ==
    /\ call.n \in 1 .. Len(window)
    /\ LET ctx == Suffix(window, call.n)
           hits == {i \in DOMAIN bt.pool :
                       bt.pool[i].ctx = ctx /\ bt.pool[i].next = call.byte}
           Counted(e) == IF e.index = Empty THEN e
                         ELSE [e EXCEPT !.table.pool[e.index].freq = @ + 1]
       IN  /\ bloom' = bloom \cup BloomBits[CtxHash[ctx]]
           /\ \E e \in Enter(bt, KeyHash[<<ctx, call.byte>>], hits, BtHashes,
                             [ctx |-> ctx, next |-> call.byte, freq |-> 0,
                              link |-> Empty]) :
                 \E c \in EnterCtx(e.index, ctx) : Linked(Counted(e), c)
    /\ call' = [call EXCEPT !.n = @ + 1]
    /\ UNCHANGED <<window, frozen, live, file, trained>>

TrainEnd ==
    /\ call.n > Len(window)
    /\ window' = Push(window, call.byte)
    /\ call' = Model!Idle
    /\ UNCHANGED <<bt, ctxs, bloom, frozen, live, file, trained>>
-----------------------------------------------------------------------------
(***************************************************************************)
(* bt_v3_init, bt_v3_freeze, bt_v3_set_window and bt_v3_reset_window.  All *)
(* callers freeze, none thaws; a window is set only where no training      *)
(* follows, or put back before it does.                                    *)
(***************************************************************************)
BtInit ==
    /\ call.n = 0
    /\ bt' = NewTable(build.poolCap, build.btSlots)
    /\ ctxs' = NewTable(build.ctxCap, build.ctxSlots)
    /\ bloom' = {} /\ window' = <<>> /\ frozen' = FALSE /\ live' = "own"
    /\ UNCHANGED <<call, file, trained>>

Freeze ==
    /\ call.n = 0
    /\ frozen' = TRUE
    /\ UNCHANGED <<bt, ctxs, bloom, window, call, live, file, trained>>

SetWindow(w) ==
    /\ call.n = 0
    /\ w = <<>> \/ frozen
    /\ window' = w
    /\ UNCHANGED <<bt, ctxs, bloom, call, frozen, live, file, trained>>

(***************************************************************************)
(* bt_v3_export, as the save functions of bcb_prior.c write it to a file;  *)
(* bt_v3_attach to a file prior_parse has accepted; bt_v3_detach and       *)
(* bt_v3_free.                                                             *)
(***************************************************************************)
Save ==
    /\ call.n = 0 /\ live # "none"
    /\ file' = {[pool |-> bt.pool, ctxPool |-> ctxs.pool, ctxSlot |-> ctxs.slot,
                 bloom |-> bloom, window |-> window]}
    /\ UNCHANGED <<bt, ctxs, bloom, window, call, frozen, live, trained>>

Attach ==
    /\ call.n = 0
    /\ \E s \in file :
          /\ Valid(s)
          /\ bt' = [pool |-> s.pool, cap |-> Len(s.pool), slot |-> NoSlots(0)]
          /\ ctxs' = [pool |-> s.ctxPool, cap |-> Len(s.ctxPool), slot |-> s.ctxSlot]
          /\ bloom' = s.bloom /\ window' = s.window
    /\ frozen' = TRUE /\ live' = "attached"
    /\ UNCHANGED <<call, file, trained>>

Detach ==
    /\ call.n = 0
    /\ bt' = NewTable(0, 0) /\ ctxs' = NewTable(0, 0) /\ bloom' = {}
    /\ frozen' = FALSE /\ live' = "none"
    /\ UNCHANGED <<window, call, file, trained>>

Training == (\E b \in Byte : Train(b)) \/ Update \/ TrainEnd \/ BtInit

Next == /\ \/ Training \/ Freeze
           \/ \E w \in WindowsSet : SetWindow(w)
           \/ Save \/ Attach \/ Detach
        /\ UNCHANGED build

Spec == Init /\ [][Next]_vars
-----------------------------------------------------------------------------
BtTypeOK ==
    /\ \A i \in DOMAIN bt.pool :
          bt.pool[i] \in [ctx : Contexts, next : Byte, freq : Nat, link : Nat]
    /\ \A c \in DOMAIN ctxs.pool :
          ctxs.pool[c] \in [ctx : Contexts, total : Nat, unique : Nat, first : Nat]
    /\ window \in Model!Windows
    /\ call \in [byte : Byte, n : 0 .. Depth + 1]
    /\ frozen \in BOOLEAN /\ live \in {"none", "own", "attached"}
    /\ Cardinality(file) <= 1

(***************************************************************************)
(* What bt_v3_distribution_r can read of the tables - through the filter,  *)
(* the probe and the chain - is a frequency table: no growth, collision,   *)
(* full pool, save or attach loses a count or invents one.                 *)
(***************************************************************************)
CountsKept == Model!Spec

\* the frequencies on a chain, added up
Summed(pool, first) ==
    LET on == Chain(pool, first)
        UpTo[i \in 0 .. Len(pool)] ==
            IF i = 0 THEN 0
            ELSE UpTo[i - 1] + IF i \in on THEN pool[i].freq ELSE 0
    IN  UpTo[Len(pool)]

(***************************************************************************)
(* Unless realloc fails, total_freq is the sum of the frequencies on the   *)
(* chain and unique_next its length.  bt_v3_distribution_r divides the one *)
(* by the other.                                                           *)
(***************************************************************************)
TotalsExact ==
    ~build.reallocFails =>
    \A i \in DOMAIN ctxs.pool :
        LET c == ctxs.pool[i]
        IN  c.total = Summed(bt.pool, c.first) /\ c.unique = Cardinality(Chain(bt.pool, c.first))

(***************************************************************************)
(* Also when memory runs out a context is never seen less often than the   *)
(* bytes after it together: no probability exceeds one.                    *)
(***************************************************************************)
TotalsBound ==
    \A i \in DOMAIN ctxs.pool : Summed(bt.pool, ctxs.pool[i].first) <= ctxs.pool[i].total

(***************************************************************************)
(* A probe always ends: while a model is trained or attached its slot      *)
(* arrays have an empty slot.                                              *)
(***************************************************************************)
SlotsNeverFull ==
    /\ live = "own" => \E h \in DOMAIN bt.slot : bt.slot[h] = Empty
    /\ live # "none" => \E h \in DOMAIN ctxs.slot : ctxs.slot[h] = Empty

\* The same where no reallocation fails.
SlotsFree == ~build.reallocFails => SlotsNeverFull

(***************************************************************************)
(* What the library saves, it opens, unless realloc fails:                 *)
(* bt_v3_validate accepts it.                                              *)
(***************************************************************************)
SavedOpens == ~build.reallocFails => \A s \in file : Valid(s)

(***************************************************************************)
(* Where the pools can grow each pool entry is on the chain of exactly one *)
(* context, as the comment in bt_v3_validate says of a valid prior.        *)
(***************************************************************************)
OnOneChain ==
    call.n = 0 /\ build.dynamic /\ ~build.reallocFails =>
      \A i \in DOMAIN bt.pool :
        Cardinality({c \in DOMAIN ctxs.pool :
                        i \in Chain(bt.pool, ctxs.pool[c].first)}) = 1
=============================================================================
