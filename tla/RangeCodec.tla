----------------------------- MODULE RangeCodec -----------------------------
(***************************************************************************)
(* The two halves put together as the public API does it: the whole        *)
(* message is encoded, then a decoder that starts from an equal model      *)
(* reads the payload.  The blob format stores no payload length, so the    *)
(* decoder is given everything that follows the header, which may be more  *)
(* than the payload.                                                       *)
(*                                                                         *)
(* Instead a decoder may be given bytes that need not come from an         *)
(* encoder: a damaged blob, one made with another prior, or noise.         *)
(***************************************************************************)
EXTENDS RangeEncoder, RangeDecoder

CONSTANTS Tails,     \* bits that may follow the payload in the caller's buffer
          Payloads,  \* foreign payloads, as bits
          Wants      \* and the lengths a decoder may be asked for

ASSUME TailsAssumption    == Tails \subseteq Seq({0, 1})
ASSUME PayloadsAssumption == Payloads \subseteq Seq({0, 1})
ASSUME WantsAssumption    == Wants \subseteq Nat

codecVars == <<dist, encVars, decVars>>

Init == dist \in [Context -> Tables] /\ EncInit /\ DecInit

\* nothing is encoded once a decoder has a foreign payload
Foreign == epc = "byte" /\ dpc # "idle"

Encode == ~Foreign /\ EncNext /\ UNCHANGED <<dist, decVars>>

StartDecoder(tail) ==
    epc = "done" /\ DecNew(out \o tail, Len(sent)) /\ UNCHANGED <<dist, encVars>>

StartForeign(bits, n) ==
    epc = "byte" /\ sent = <<>> /\ DecNew(bits, n) /\ UNCHANGED <<dist, encVars>>

Decode == DecRun /\ UNCHANGED <<dist, encVars>>

Next == \/ Encode \/ Decode
        \/ \E tail \in Tails : StartDecoder(tail)
        \/ \E bits \in Payloads, n \in Wants : StartForeign(bits, n)

Spec == /\ Init /\ [][Next]_codecVars
        /\ WF_codecVars(EncRun /\ UNCHANGED <<dist, decVars>>)
        /\ WF_codecVars(\E tail \in Tails : StartDecoder(tail))
        /\ WF_codecVars(Decode)
-----------------------------------------------------------------------------
(***************************************************************************)
(* The codec implements the byte channel: the decoder returns exactly the  *)
(* bytes that were encoded, in order, and gets to the end of the message,  *)
(* whatever follows the payload.                                           *)
(***************************************************************************)
Channel == INSTANCE ByteChannel
           WITH Byte <- Symbols, closed <- (epc = "done"),
                received <- IF Foreign THEN <<>> ELSE recv
ChannelSpec == Channel!Spec

(***************************************************************************)
(* Decoding ends on every payload, with exactly the bytes asked for: no    *)
(* payload can keep the renormalisation or the search going.               *)
(***************************************************************************)
DecFinishes == (dpc # "idle") ~> (dpc = "done" /\ Len(recv) = want)
=============================================================================
