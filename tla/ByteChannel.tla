---------------------------- MODULE ByteChannel -----------------------------
(***************************************************************************)
(* What a compressor and a decompressor promise together: a channel that   *)
(* takes a message byte by byte, is closed, and then delivers the same     *)
(* bytes in the same order, all of them.                                   *)
(***************************************************************************)
EXTENDS Naturals, Sequences

CONSTANT Byte

VARIABLES sent, received, closed

vars == <<sent, received, closed>>

Init == sent = <<>> /\ received = <<>> /\ closed = FALSE

Put(b) == /\ ~closed
          /\ sent' = Append(sent, b)
          /\ UNCHANGED <<received, closed>>

Close == /\ ~closed
         /\ closed' = TRUE
         /\ UNCHANGED <<sent, received>>

Get == /\ closed
       /\ Len(received) < Len(sent)
       /\ received' = Append(received, sent[Len(received) + 1])
       /\ UNCHANGED <<sent, closed>>

Next == (\E b \in Byte : Put(b)) \/ Close \/ Get

Safety == Init /\ [][Next]_vars

Spec == Safety /\ WF_vars(Get)
=============================================================================
