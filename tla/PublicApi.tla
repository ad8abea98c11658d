----------------------------- MODULE PublicApi ------------------------------
(***************************************************************************)
(* bcb_encode and bcb_decode (compress_core and decompress_core of         *)
(* bcb_api.c) on one encoder and one decoder handle.  A call goes byte by  *)
(* byte, and calls on the two handles are taken one after the other, in    *)
(* any order: a codec is all the state a call changes, and each handle has *)
(* its own.  Blobs travel over a medium that may lose, repeat, reorder or  *)
(* damage them.                                                            *)
(*                                                                         *)
(* The range coder is used through what RangeCodec establishes about it:   *)
(* as long as the decoder has asked for symbols with the distributions the *)
(* encoder coded them with, it gets them back; from the first difference   *)
(* on, it may get anything.  So a payload is the sequence of the symbols   *)
(* coded, each with its distribution.                                      *)
(***************************************************************************)
EXTENDS Codec, FiniteSets

CONSTANTS Priors,       \* the priors handles may be created with
          Messages,     \* the messages the application encodes
          Crc(_),       \* crc32_
          Switches,     \* the encoder flags the application changes
          MaxBlobs      \* bound on the blobs made, for model checking

ASSUME ApiAssumption ==
    /\ \A p \in Priors : p.rec \in Nat /\ p.lmN \in Nat
    /\ Messages \subseteq Seq(Bytes)

VARIABLES enc, dec,     \* the codecs of the two handles
          crcOn, idOn,  \* the encoder's flags
          ecall, dcall, \* the running bcb_encode and bcb_decode
          wire,         \* the blobs made so far
          result        \* what bcb_decode has just returned, for which blob

vars == <<enc, dec, crcOn, idOn, ecall, dcall, wire, result>>

Idle == [pc |-> "idle"]
NoResult == [status |-> "none"]

Init == /\ enc \in UNION {CodecNew(p) : p \in Priors}
        /\ dec \in UNION {CodecNew(p) : p \in Priors}
        /\ crcOn = TRUE /\ idOn = FALSE
        /\ ecall = Idle /\ dcall = Idle
        /\ wire = {}
        /\ result = NoResult

Quiet == ecall = Idle /\ dcall = Idle

SetChecksum(on) == /\ Quiet /\ "checksum" \in Switches
                   /\ crcOn' = on
                   /\ UNCHANGED <<enc, dec, idOn, ecall, dcall, wire, result>>

SetPriorId(on) == /\ Quiet /\ "prior_id" \in Switches
                  /\ idOn' = on
                  /\ UNCHANGED <<enc, dec, crcOn, ecall, dcall, wire, result>>
-----------------------------------------------------------------------------
(***************************************************************************)
(* compress_core.  `legacy' is an encoder of a release before the          *)
(* delta-symbol format, whose blobs decompress_core still reads.           *)
(***************************************************************************)
EncodeBegin(msg, legacy) ==
    /\ Quiet
    /\ Cardinality(wire) < MaxBlobs
    /\ enc' = SetSdelta(Begin(enc), ~legacy)
    /\ ecall' = [pc |-> "coding", msg |-> msg, payload |-> <<>>]
    /\ result' = NoResult
    /\ UNCHANGED <<dec, crcOn, idOn, dcall, wire>>

EncodeByte ==
    /\ ecall.pc = "coding"
    /\ Len(ecall.payload) < Len(ecall.msg)
    /\ LET sym == EncXform(enc, ecall.msg[Len(ecall.payload) + 1])
       IN  /\ enc' = CodecTrain(Memoized(enc), sym)
           /\ ecall' = [ecall EXCEPT !.payload =
                          Append(@, [sym |-> sym, cum |-> CodecDist(enc)])]
    /\ UNCHANGED <<dec, crcOn, idOn, dcall, wire, result>>

Coded == ecall.pc = "coding" /\ Len(ecall.payload) = Len(ecall.msg)

Blob == [hasCrc |-> crcOn, hasId |-> idOn, sdelta |-> Structural(enc.p) /\ enc.sdelta,
         len |-> Len(ecall.msg), crc |-> Crc(ecall.msg), id |-> enc.p.id,
         payload |-> ecall.payload, whole |-> TRUE,
         \* not in the blob: where it comes from
         from |-> enc.p, orig |-> ecall.msg, genuine |-> TRUE]

EncodeDone ==
    /\ Coded
    /\ wire' = wire \cup {Blob}
    /\ ecall' = Idle
    /\ UNCHANGED <<enc, dec, crcOn, idOn, dcall, result>>

\* header and payload exceed the capacity: BCB_ERR_OUTPUT_TOO_SMALL; or
\* cec_enc_new finds no memory: BCB_ERR_INVALID_PRIOR
EncodeFails ==
    /\ ecall.pc = "coding"
    /\ Coded \/ ecall.payload = <<>>
    /\ ecall' = Idle
    /\ UNCHANGED <<enc, dec, crcOn, idOn, dcall, wire, result>>
-----------------------------------------------------------------------------
(***************************************************************************)
(* What may arrive: a blob as it was made, or with its payload, its length *)
(* field or its end destroyed.                                             *)
(***************************************************************************)
Damaged(b) == {[b EXCEPT !.genuine = FALSE, !.payload = <<>>],
               [b EXCEPT !.genuine = FALSE, !.len = 0],
               [b EXCEPT !.genuine = FALSE, !.len = b.len + 1],
               [b EXCEPT !.genuine = FALSE, !.whole = FALSE]}

Arrivals == UNION {{b} \cup Damaged(b) : b \in wire}

(***************************************************************************)
(* decompress_core up to the first symbol: the checks in their order.      *)
(* None of them touches the codec.                                         *)
(***************************************************************************)
Refusal(b, cap) ==
    IF ~b.whole THEN "corrupted"
    ELSE IF b.hasId /\ b.id # dec.p.id THEN "id_mismatch"
    ELSE IF b.len > cap THEN "too_small"
    ELSE IF b.len = 0 THEN "ok"
    ELSE "none"

\* `fault' is not in the code: it tells that there was no memory
Return(b, status, out, fault) ==
    /\ result' = [status |-> status, out |-> out, blob |-> b, by |-> dec.p,
                  fault |-> fault]
    /\ dcall' = Idle

DecodeReturnEarly(b, cap) ==
    /\ Quiet
    /\ Refusal(b, cap) # "none"
    /\ Return(b, Refusal(b, cap), <<>>, FALSE)
    /\ UNCHANGED <<enc, dec, crcOn, idOn, ecall, wire>>

DecodeBegin(b, cap) ==
    /\ Quiet
    /\ Refusal(b, cap) = "none"
    /\ dec' = SetSdelta(Begin(dec), b.sdelta)
    /\ dcall' = [pc |-> "decoding", blob |-> b, out |-> <<>>, inStep |-> TRUE]
    /\ result' = NoResult
    /\ UNCHANGED <<enc, crcOn, idOn, ecall, wire>>

DecodeByte ==
    /\ dcall.pc = "decoding"
    /\ Len(dcall.out) < dcall.blob.len
    /\ LET b      == dcall.blob
           i      == Len(dcall.out) + 1
           inStep == /\ dcall.inStep /\ i <= Len(b.payload)
                     /\ b.payload[i].cum = CodecDist(dec)
       IN  \E sym \in IF inStep THEN {b.payload[i].sym} ELSE Bytes :
             /\ dec' = CodecTrain(Memoized(dec), sym)
             /\ dcall' = [dcall EXCEPT !.inStep = inStep,
                            !.out = Append(@, IF dec.sdelta THEN dec'.last
                                                            ELSE sym)]
    /\ UNCHANGED <<enc, crcOn, idOn, ecall, wire, result>>

\* malloc or cec_dec_new finds no memory: BCB_ERR_CORRUPTED
DecodeFails ==
    /\ dcall.pc = "decoding"
    /\ dcall.out = <<>>
    /\ Return(dcall.blob, "corrupted", <<>>, TRUE)
    /\ UNCHANGED <<enc, dec, crcOn, idOn, ecall, wire>>

DecodeEnd ==
    /\ dcall.pc = "decoding"
    /\ Len(dcall.out) = dcall.blob.len
    /\ LET b == dcall.blob
           bad == b.hasCrc /\ Crc(dcall.out) # b.crc
       IN  Return(b, IF bad THEN "corrupted" ELSE "ok",
                     IF bad THEN <<>> ELSE dcall.out, FALSE)
    /\ UNCHANGED <<enc, dec, crcOn, idOn, ecall, wire>>
-----------------------------------------------------------------------------
Caps == {1, 10}     \* a buffer that is too small for most messages; one that is not

EncodeCall == EncodeByte \/ EncodeDone \/ EncodeFails
DecodeCall == DecodeByte \/ DecodeFails \/ DecodeEnd

Next == \/ \E on \in BOOLEAN : SetChecksum(on) \/ SetPriorId(on)
        \/ \E msg \in Messages, legacy \in BOOLEAN : EncodeBegin(msg, legacy)
        \/ EncodeCall
        \/ \E b \in Arrivals, cap \in Caps :
               DecodeReturnEarly(b, cap) \/ DecodeBegin(b, cap)
        \/ DecodeCall

Spec == Init /\ [][Next]_vars
-----------------------------------------------------------------------------
TypeOK == /\ CodecOK(enc) /\ CodecOK(dec)
          /\ crcOn \in BOOLEAN /\ idOn \in BOOLEAN
          /\ ecall.pc \in {"idle", "coding"}
          /\ dcall.pc \in {"idle", "decoding"}
          /\ result.status \in {"none", "ok", "corrupted", "id_mismatch", "too_small"}

(***************************************************************************)
(* Lossless, per message and whatever happened on the two handles before:  *)
(* an undamaged blob made with the same prior is delivered as it was, or   *)
(* refused only because the caller's buffer is too small for it, or there  *)
(* was no memory to decode it.                                             *)
(***************************************************************************)
Lossless ==
    (result.status # "none" /\ result.blob.genuine /\ result.by = result.blob.from)
    => \/ result.status = "ok" /\ result.out = result.blob.orig
       \/ result.status = "too_small" \/ result.fault

(***************************************************************************)
(* The decoder's distributions follow the encoder's, symbol by symbol.     *)
(***************************************************************************)
InStep ==
    (dcall.pc = "decoding" /\ dcall.blob.genuine /\ dcall.blob.from = dec.p)
    => dcall.inStep

(***************************************************************************)
(* Memoization is exact: a warm cache, kept across messages, holds what a  *)
(* recomputation would give, under its own key and in its own slot.        *)
(***************************************************************************)
CacheCoherent == Coherent(enc) /\ Coherent(dec)

(***************************************************************************)
(* The per-message clear is complete, also when the generation wraps.      *)
(***************************************************************************)
CacheCleared == Cleared(enc) /\ Cleared(dec)
=============================================================================
