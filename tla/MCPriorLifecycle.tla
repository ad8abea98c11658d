-------------------------- MODULE MCPriorLifecycle --------------------------
(***************************************************************************)
(* Two workers share the library with the main thread; three blocks are    *)
(* one more than the two tables need.                                      *)
(***************************************************************************)
EXTENDS PriorLifecycle, TLC

Symmetry == Permutations(Workers) \cup Permutations(Buffers)
=============================================================================
