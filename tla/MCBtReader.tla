----------------------------- MODULE MCBtReader -----------------------------
(***************************************************************************)
(* Files with one to four slots, two context entries and two pool entries, *)
(* with indices in and out of range and contexts that collide.             *)
(***************************************************************************)
EXTENDS BtReader

CONSTANTS a, b, long  \* two contexts; the context of an overlong entry

MCContexts  == {a, b}
MCCtxHash   == [ctx \in MCContexts |-> IF ctx = a THEN 5 ELSE 3]
MCBloomBits == [x \in {3, 5} |-> {x}]

CtxEntries == {[ctx |-> ctx, total |-> t, first |-> f] :
                   ctx \in {a, b, long}, t \in {0, 1}, f \in 0 .. 2}
Plain(c) == c.total = 1 /\ c.ctx # long
Pools == {<<[ctx |-> a, next |-> 1, freq |-> 1, link |-> l],
            [ctx |-> c, next |-> 2, freq |-> 1, link |-> m]>> :
              c \in {a, long}, l \in 0 .. 3, m \in 0 .. 2}

MCSnapshots ==
    [pool : Pools,
     ctxPool : {<<c, d>> : c \in CtxEntries, d \in {x \in CtxEntries : Plain(x)}},
     ctxSlot : [0 .. 1 -> 0 .. 3] \cup [{0} -> {0, 1}]
                 \cup [0 .. 2 -> {0}]
                 \cup {f \in [0 .. 3 -> 0 .. 2] : f[0] = 1 /\ f[1] = 2},
     bloom : {{3, 5}}]
=============================================================================
