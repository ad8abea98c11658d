---------------------------- MODULE MCRangeCodec ----------------------------
(***************************************************************************)
(* Encoder and decoder on a 6-bit register (Quarter = 16), messages of at  *)
(* most three symbols, tables with totals up to the largest, and three     *)
(* kinds of bytes after the payload; or foreign payloads: none, and a byte *)
(* with every first value of the code register.                            *)
(***************************************************************************)
EXTENDS NoDiv, ExactInterval, TLC

Cum(a, b, c) == (0 :> 0) @@ (1 :> a) @@ (2 :> a + b) @@ (3 :> a + b + c)

MCTables == {Cum(1, 5, 1), Cum(14, 1, 1), Cum(1, 1, 8)}
MCPayloads == {bits \in [1 .. 8 -> {0, 1}] : bits[7] = 1 /\ bits[8] = 1} \cup {<<>>}

MCTails  == {<<>>, [i \in 1 .. 8 |-> 1], [i \in 1 .. 8 |-> i % 2]}
=============================================================================
