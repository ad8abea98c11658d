----------------------------- MODULE MCBtTable ------------------------------
(***************************************************************************)
(* Two byte values and contexts of one and two bytes.  The hashes collide  *)
(* and pile up; two of the filter's bits are shared.                       *)
(***************************************************************************)
EXTENDS BtTable

MCByte     == {0, 1}
MCContexts == [1 .. 1 -> MCByte] \cup [1 .. 2 -> MCByte]

Weight(ctx) == IF Len(ctx) = 1 THEN ctx[1] ELSE 2 + ctx[1] + ctx[2]

MCCtxHash   == [ctx \in MCContexts |-> Weight(ctx)]
MCKeyHash   == [k \in MCContexts \X MCByte |-> Weight(k[1]) + 2 * k[2]]
MCBloomBits == [x \in 0 .. 4 |-> {x % 4, (x + 1) % 5}]

MCWindowsSet == {<<>>, <<1, 0>>}

Build(dynamic, fails, poolCap, btSlots) ==
    [dynamic |-> dynamic, reallocFails |-> fails, poolCap |-> poolCap,
     btSlots |-> btSlots, ctxCap |-> 1, ctxSlots |-> 2]

\* the build that grows, with and without failures, and the fixed pools
Failing  == Build(TRUE, TRUE, 1, 2)
MCBuilds == {Build(TRUE, FALSE, 1, 2), Build(FALSE, FALSE, 2, 4), Failing}
MCFailing == {Failing}

\* where allocations fail the process only trains, one byte more
MCNext == \/ build = Failing /\ Training /\ UNCHANGED build
          \/ build # Failing /\ Next /\ trained' < MaxTrained
MCSpec == Init /\ [][MCNext]_vars
=============================================================================
