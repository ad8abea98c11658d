----------------------------- MODULE PriorFile ------------------------------
(***************************************************************************)
(* The prior file of bcb_prior.c: a process that trains models and saves   *)
(* them to one path, plainly, with landmarks or with a record schema, and  *)
(* what prior_parse makes of the file.  The tables of a save reach         *)
(* bcb_prior_save through static variables, which stay set until some save *)
(* gets as far as closing its file.  The process may die at any step; the  *)
(* file, written in place region by region, is then cut short.             *)
(*                                                                         *)
(* A table is named by the save that allocated it.                         *)
(***************************************************************************)
EXTENDS Integers, FiniteSets

CONSTANTS Models,     \* what can have been trained
          MaxSaves,   \* bounds of the model: saves begun,
          MaxFaults   \* and writes, opens and closes that fail

ASSUME MaxSavesAssumption  == MaxSaves \in Nat
ASSUME MaxFaultsAssumption == MaxFaults \in Nat

NoTable == 0
SaveIds == 1 .. MaxSaves

\* the regions of a file in the order they are written
Regions  == 1 .. 10
Header   == 1
Indices  == {3, 4, 5}   \* pool, ctx_pool, ctx_slot
Landmark == {7, 8}      \* lm_ctx, lm_cum
Schema   == {9, 10}     \* schema_modes, schema_cum

VARIABLES model,     \* the model trained last
          heap,      \* the tables allocated and not freed
          s_lm,      \* the landmark table registered, if it has any rows
          s_sc,      \* the schema table registered
          call,      \* the save that runs: pc, id, ok
          file,      \* the file at the path
          last,      \* how the last save returned, until the next begins
          refused,   \* the saves of this process whose fopen failed
          saves,     \* counters for the bounds
          faults

fileVars == <<model, heap, s_lm, s_sc, call, file, last, refused, saves, faults>>

NotSaving == [pc |-> "idle", id |-> 0, ok |-> TRUE]
NoFile    == [model |-> CHOOSE m \in Models : TRUE, of |-> 0, lm |-> NoTable,
              sc |-> NoTable, upto |-> 0, holes |-> {}, short |-> FALSE]
NoResult  == [rc |-> 1, id |-> 0, model |-> CHOOSE m \in Models : TRUE]

FileInit == /\ model \in Models
            /\ heap = {} /\ s_lm = NoTable /\ s_sc = NoTable
            /\ call = NotSaving /\ file = NoFile /\ last = NoResult
            /\ refused = {} /\ saves = 0 /\ faults = 0

\* a region without bytes
Vacant(f, r) == \/ r \in Landmark /\ f.lm = NoTable
                \/ r \in Schema /\ f.sc = NoTable

\* every byte the header's file_size counts is there
Complete(f) == ~f.short /\ \A r \in Regions : r <= f.upto \/ Vacant(f, r)
Whole(f)    == Complete(f) /\ f.holes = {}

\* what is on the disk of a file that is being written: all, or a first part
Cut(f, n)  == [f EXCEPT !.upto = n, !.holes = @ \cap 1 .. n, !.short = TRUE]
Visible(f) == {f} \cup {Cut(f, n) : n \in 0 .. f.upto}
OnDisk     == IF call.pc \in {"write", "close"} THEN Visible(file) ELSE {file}
-----------------------------------------------------------------------------
\* bt_v3_init and training, before a save
Train(m) ==
    /\ call.pc = "idle"
    /\ model' = m
    /\ UNCHANGED <<heap, s_lm, s_sc, call, file, last, refused, saves, faults>>

Begin ==
    /\ call.pc = "idle" /\ saves < MaxSaves
    /\ saves' = saves + 1
    /\ call' = [pc |-> "fopen", id |-> saves + 1, ok |-> TRUE]
    /\ last' = NoResult
    /\ UNCHANGED <<model, file, refused, faults>>

SavePlain == Begin /\ UNCHANGED <<heap, s_lm, s_sc>>

\* bcb_prior_save_with_landmarks: `found' contexts of the length asked for
SaveWithLandmarks(found) ==
    /\ Begin
    /\ heap' = heap \cup {saves + 1}
    /\ s_lm' = IF found = 0 THEN NoTable ELSE saves + 1
    /\ UNCHANGED s_sc

SaveWithSchema ==
    /\ Begin
    /\ heap' = heap \cup {saves + 1}
    /\ s_sc' = saves + 1
    /\ UNCHANGED s_lm

\* a record size out of range
RefuseSchema ==
    /\ call.pc = "idle" /\ saves < MaxSaves
    /\ saves' = saves + 1
    /\ last' = [rc |-> -1, id |-> saves + 1, model |-> model]
    /\ UNCHANGED <<model, heap, s_lm, s_sc, call, file, refused, faults>>

\* one of the three, as the arguments say; main of bcb-prior-build picks by
\* whether a record size or a number of landmarks was given
BeginSave == \/ SavePlain \/ SaveWithSchema \/ RefuseSchema
             \/ \E found \in {0, 1} : SaveWithLandmarks(found)
-----------------------------------------------------------------------------
\* bcb_prior_save.  A failed fopen returns at once.
FopenFails ==
    /\ call.pc = "fopen" /\ faults < MaxFaults
    /\ faults' = faults + 1
    /\ call' = [call EXCEPT !.pc = "free", !.ok = FALSE]
    /\ refused' = refused \cup {call.id}
    /\ UNCHANGED <<model, heap, s_lm, s_sc, file, last, saves>>

Fopen ==
    /\ call.pc = "fopen"
    /\ file' = [model |-> model, of |-> call.id, lm |-> s_lm, sc |-> s_sc,
                upto |-> 0, holes |-> {}, short |-> FALSE]
    /\ call' = [call EXCEPT !.pc = "write"]
    /\ UNCHANGED <<model, heap, s_lm, s_sc, last, refused, saves, faults>>

\* slip: the tenth region is not the last
WriteRegionTooFar ==
    /\ call.pc = "write"
    /\ file' = [file EXCEPT !.upto = @ + 1, !.short = FALSE]
    /\ call' = [call EXCEPT !.pc = IF file.upto = 10 THEN "close" ELSE "write"]
    /\ UNCHANGED <<model, heap, s_lm, s_sc, last, refused, saves, faults>>

\* pad_to, which fills what a failed write left out, and the region's fwrite
WriteRegion ==
    /\ call.pc = "write"
    /\ file' = [file EXCEPT !.upto = @ + 1, !.short = FALSE]
    /\ call' = [call EXCEPT !.pc = IF file.upto + 1 = 10 THEN "close" ELSE "write"]
    /\ UNCHANGED <<model, heap, s_lm, s_sc, last, refused, saves, faults>>

\* slip: only the last write decides
WriteFailsUnnoticed ==
    /\ call.pc = "write" /\ faults < MaxFaults
    /\ LET r == file.upto + 1
       IN  /\ ~Vacant(file, r)
           /\ file' = [file EXCEPT !.upto = r, !.holes = @ \cup {r}, !.short = TRUE]
           /\ call' = [call EXCEPT !.pc = IF r = 10 THEN "close" ELSE "write",
                                   !.ok = r # 10]
    /\ faults' = faults + 1
    /\ UNCHANGED <<model, heap, s_lm, s_sc, last, refused, saves>>

\* either of them fails: the region is not all there
WriteFails ==
    /\ call.pc = "write" /\ faults < MaxFaults
    /\ LET r == file.upto + 1
       IN  /\ ~Vacant(file, r)
           /\ file' = [file EXCEPT !.upto = r, !.holes = @ \cup {r}, !.short = TRUE]
           /\ call' = [call EXCEPT !.pc = IF r = 10 THEN "close" ELSE "write",
                                   !.ok = FALSE]
    /\ faults' = faults + 1
    /\ UNCHANGED <<model, heap, s_lm, s_sc, last, refused, saves>>

\* nothing to write, and the padding for the region before it fails
PadFails ==
    /\ call.pc = "write" /\ faults < MaxFaults
    /\ LET r == file.upto + 1
       IN  /\ Vacant(file, r) /\ file.short
           /\ file' = [file EXCEPT !.upto = r]
           /\ call' = [call EXCEPT !.pc = IF r = 10 THEN "close" ELSE "write",
                                   !.ok = FALSE]
    /\ faults' = faults + 1
    /\ UNCHANGED <<model, heap, s_lm, s_sc, last, refused, saves>>

\* slip: a clean fclose leaves the landmarks registered
FcloseKeepsLandmarks ==
    /\ call.pc = "close"
    /\ call' = [call EXCEPT !.pc = "free"]
    /\ s_sc' = NoTable
    /\ UNCHANGED <<model, heap, s_lm, file, last, refused, saves, faults>>

\* the registrations are cleared, whatever became of the writes
Fclose ==
    /\ call.pc = "close"
    /\ \/ call' = [call EXCEPT !.pc = "free"] /\ UNCHANGED <<file, faults>>
       \/ /\ faults < MaxFaults
          /\ file' \in Visible(file)
          /\ call' = [call EXCEPT !.pc = "free", !.ok = FALSE]
          /\ faults' = faults + 1
    /\ s_lm' = NoTable /\ s_sc' = NoTable
    /\ UNCHANGED <<model, heap, last, refused, saves>>

\* the caller frees its tables and returns bcb_prior_save's result
Return ==
    /\ call.pc = "free"
    /\ heap' = heap \ {call.id}
    /\ call' = NotSaving
    /\ last' = [rc |-> IF call.ok THEN 0 ELSE -1, id |-> call.id, model |-> model]
    /\ UNCHANGED <<model, s_lm, s_sc, file, refused, saves, faults>>

\* the process dies; another one starts with nothing registered
Crash ==
    /\ file' \in OnDisk
    /\ model' \in Models
    /\ heap' = {} /\ s_lm' = NoTable /\ s_sc' = NoTable
    /\ call' = NotSaving /\ last' = NoResult /\ refused' = {}
    /\ UNCHANGED <<saves, faults>>

Saving == \/ FopenFails \/ Fopen \/ WriteRegion \/ WriteFails \/ PadFails
          \/ Fclose \/ Return

FileNext == (\E m \in Models : Train(m)) \/ BeginSave \/ Saving \/ Crash

FileSpec == FileInit /\ [][FileNext]_fileVars
-----------------------------------------------------------------------------
(***************************************************************************)
(* What prior_parse can answer.  It trusts the sizes of the header and     *)
(* looks at the indices only: zeros anywhere else are taken for data.      *)
(***************************************************************************)
\* slip: file_size is not compared with the length
ParseUnsized(f) == IF f.holes \cap ({Header} \cup Indices) # {} THEN BOOLEAN
                   ELSE {f.upto >= Header}

Parse(f) == IF ~Complete(f) THEN {FALSE}
            ELSE IF f.holes \cap ({Header} \cup Indices) # {} THEN BOOLEAN
            ELSE {TRUE}
-----------------------------------------------------------------------------
Calls   == [pc : {"idle", "fopen", "write", "close", "free"},
            id : 0 .. MaxSaves, ok : BOOLEAN]
Files   == [model : Models, of : 0 .. MaxSaves, lm : 0 .. MaxSaves,
            sc : 0 .. MaxSaves, upto : 0 .. 10, holes : SUBSET Regions,
            short : BOOLEAN]
Results == [rc : {-1, 0, 1}, id : 0 .. MaxSaves, model : Models]

FileTypeOK ==
    /\ model \in Models
    /\ heap \subseteq SaveIds /\ refused \subseteq SaveIds
    /\ s_lm \in 0 .. MaxSaves /\ s_sc \in 0 .. MaxSaves
    /\ call \in Calls /\ file \in Files /\ last \in Results
    /\ saves \in 0 .. MaxSaves /\ faults \in 0 .. MaxFaults

(***************************************************************************)
(* A save that returned 0 left the whole file of the model: no write, no   *)
(* padding and no close went wrong unnoticed, also where a later write     *)
(* filled the place of an earlier one.                                     *)
(***************************************************************************)
Reported ==
    last.rc = 0 => Whole(file) /\ file.of = last.id /\ file.model = last.model

(***************************************************************************)
(* bcb_prior.c calls the registration a one-time one, and bcb_prior.h says *)
(* that it is for the next save: the tables a save writes are allocated.   *)
(***************************************************************************)
TablesOwn ==
    call.pc \in {"fopen", "write"} => {s_lm, s_sc} \subseteq heap \cup {NoTable}

(***************************************************************************)
(* Of the tables the save functions register, only those of a save that    *)
(* could not open its file can turn up in a later one.                     *)
(***************************************************************************)
TablesOwnUnlessRefused ==
    call.pc \in {"fopen", "write"} =>
        {s_lm, s_sc} \subseteq {NoTable, call.id} \cup refused
=============================================================================
