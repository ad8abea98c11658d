------------------------------ MODULE BtReader ------------------------------
(***************************************************************************)
(* bt_v3_distribution_r reading a prior of any origin that bt_v3_validate  *)
(* has accepted: for a context it probes the slots and walks the chain,    *)
(* one memory access a step.                                               *)
(***************************************************************************)
EXTENDS BtSnapshot

CONSTANT Snapshots  \* what the file may contain

\* the slots of a file are an array
ASSUME SnapshotsAssumption ==
    \A s \in Snapshots :
        /\ IsFiniteSet(DOMAIN s.ctxSlot)
        /\ DOMAIN s.ctxSlot = 0 .. Cardinality(DOMAIN s.ctxSlot) - 1

VARIABLES snap,    \* the regions of the file
          rpc,     \* "parse", "refused", "idle", "probe" or "walk"
          want,    \* the context looked up
          rslot, rentry  \* the slot probed; the pool entry reached

readerVars == <<snap, rpc, want, rslot, rentry>>

ReaderInit == /\ snap \in Snapshots
              /\ rpc = "parse" /\ want \in Contexts /\ rslot = 0 /\ rentry = Empty

Validate ==
    /\ rpc = "parse"
    /\ rpc' = IF Valid(snap) THEN "idle" ELSE "refused"
    /\ UNCHANGED <<snap, want, rslot, rentry>>

Lookup(ctx) ==
    /\ rpc = "idle"
    /\ BloomBits[CtxHash[ctx]] \subseteq snap.bloom
    /\ rpc' = "probe" /\ want' = ctx
    /\ rslot' = CtxHash[ctx] % Cardinality(DOMAIN snap.ctxSlot)
    /\ UNCHANGED <<snap, rentry>>

Matches == snap.ctxPool[snap.ctxSlot[rslot]].ctx = want

Absent == /\ rpc = "probe" /\ snap.ctxSlot[rslot] = Empty
          /\ rpc' = "idle"
          /\ UNCHANGED <<snap, want, rslot, rentry>>

NextSlot == /\ rpc = "probe" /\ snap.ctxSlot[rslot] # Empty /\ ~Matches
            /\ rslot' = (rslot + 1) % Cardinality(DOMAIN snap.ctxSlot)
            /\ UNCHANGED <<snap, rpc, want, rentry>>

Hit == /\ rpc = "probe" /\ snap.ctxSlot[rslot] # Empty /\ Matches
       /\ LET c == snap.ctxPool[snap.ctxSlot[rslot]]
          IN  IF c.total = 0 THEN rpc' = "idle" /\ rentry' = rentry
              ELSE rpc' = "walk" /\ rentry' = c.first
       /\ UNCHANGED <<snap, want, rslot>>

FollowLink == /\ rpc = "walk" /\ rentry # Empty
              /\ rentry' = snap.pool[rentry].link
              /\ UNCHANGED <<snap, rpc, want, rslot>>

ChainEnd == /\ rpc = "walk" /\ rentry = Empty
            /\ rpc' = "idle"
            /\ UNCHANGED <<snap, want, rslot, rentry>>

ReaderStep == Absent \/ NextSlot \/ Hit \/ FollowLink \/ ChainEnd

ReaderNext == Validate \/ (\E ctx \in Contexts : Lookup(ctx)) \/ ReaderStep

ReaderSpec == ReaderInit /\ [][ReaderNext]_readerVars /\ WF_readerVars(ReaderStep)
-----------------------------------------------------------------------------
(***************************************************************************)
(* Whatever the file contains, once bt_v3_validate has accepted it each    *)
(* index the reader follows lies in the region it points into.             *)
(***************************************************************************)
ReaderInside ==
    /\ rpc = "probe" => /\ rslot \in DOMAIN snap.ctxSlot
                        /\ snap.ctxSlot[rslot] # Empty
                             => snap.ctxSlot[rslot] \in DOMAIN snap.ctxPool
    /\ rpc = "walk" /\ rentry # Empty => rentry \in DOMAIN snap.pool

(***************************************************************************)
(* Every lookup ends: no probe goes round and round a full slot array, no  *)
(* walk round a cyclic chain.                                              *)
(***************************************************************************)
LookupEnds == rpc \in {"probe", "walk"} ~> rpc = "idle"
=============================================================================
