-------------------------- MODULE DeploymentProofs --------------------------
(***************************************************************************)
(* A save that returned 0 left a whole file, and tables are left behind    *)
(* only by saves that could not open theirs; the Python binding leaves no  *)
(* object behind, and uses none that is freed but in the two cases that    *)
(* CallsLive names; and what is opened is the complete file of a save: for *)
(* any number of threads, Encoders, saves, faults and crashes.             *)
(***************************************************************************)
EXTENDS Deployment, TLAPS

-----------------------------------------------------------------------------
(***************************************************************************)
(* The saves of bcb_prior.c.                                               *)
(***************************************************************************)
\* the file as the running save has left it, while nothing has gone wrong
SaveSound ==
    /\ call.pc # "idle" => call.id = saves /\ call.id # 0 /\ last.rc = 1
    /\ call.pc = "fopen" => call.ok /\ file.of < call.id
    /\ call.pc = "write" => file.upto < 10
    /\ call.pc = "close" => file.upto = 10
    /\ call.pc \in {"write", "close"} =>
          file.of = call.id /\ file.model = model
    /\ call.pc \in {"write", "close"} /\ call.ok =>
          file.holes = {} /\ ~file.short
    /\ call.pc = "free" /\ call.ok =>
          Whole(file) /\ file.of = call.id /\ file.model = model
    /\ file.of <= saves
    /\ last.rc # 1 => last.id <= saves

\* whose tables can be registered
TablesKnown ==
    {s_lm, s_sc} \subseteq
        {NoTable} \cup refused
        \cup IF call.pc \in {"fopen", "write", "close"} THEN {call.id} ELSE {}

FileInv == FileTypeOK /\ SaveSound /\ TablesKnown /\ Reported

USE MaxSavesAssumption, MaxFaultsAssumption DEF SaveIds, NoTable, Regions, Calls, Files, Results

\* A file with all ten regions, none short, is complete.
LEMMA AllWritten ==
    ASSUME NEW f, f.upto = 10, ~f.short
    PROVE  Complete(f)
  BY DEF Complete

\* Before the first save there is nothing to be wrong.
LEMMA FileInitInv == ASSUME FileInit PROVE FileInv
<1>1. FileTypeOK
  BY DEF FileInit, FileTypeOK, NotSaving, NoFile, NoResult
<1>2. SaveSound /\ TablesKnown /\ Reported
  BY DEF FileInit, SaveSound, TablesKnown, Reported, NotSaving, NoFile, NoResult
<1> QED
  BY <1>1, <1>2 DEF FileInv

\* A call of a save function starts with nothing written.
LEMMA BeginInv == ASSUME FileInv, BeginSave PROVE FileInv'
<1> USE DEF FileInv
<1>1. FileTypeOK'
  <2>0. saves \in Nat /\ saves < MaxSaves /\ saves + 1 \in 1 .. MaxSaves
    BY DEF FileTypeOK, BeginSave, SavePlain, SaveWithSchema, RefuseSchema,
           SaveWithLandmarks, Begin
  <2>1. CASE RefuseSchema
    BY <2>0, <2>1 DEF FileTypeOK, RefuseSchema
  <2>2. CASE SavePlain
    BY <2>0, <2>2 DEF FileTypeOK, SavePlain, Begin, NoResult
  <2>3. CASE SaveWithSchema
    BY <2>0, <2>3 DEF FileTypeOK, SaveWithSchema, Begin, NoResult
  <2>4. CASE \E found \in {0, 1} : SaveWithLandmarks(found)
    BY <2>0, <2>4 DEF FileTypeOK, SaveWithLandmarks, Begin, NoResult
  <2> QED
    BY <2>1, <2>2, <2>3, <2>4 DEF BeginSave
<1>2. SaveSound'
  BY DEF BeginSave, SavePlain, SaveWithSchema, RefuseSchema, SaveWithLandmarks,
         Begin, FileTypeOK, NoResult, SaveSound, Whole, Complete, Vacant
<1>3. TablesKnown' /\ Reported'
  BY DEF BeginSave, SavePlain, SaveWithSchema, RefuseSchema, SaveWithLandmarks,
         Begin, FileTypeOK, NoResult, SaveSound, TablesKnown, Reported
<1> QED
  BY <1>1, <1>2, <1>3

\* fopen truncates the file or fails.
LEMMA OpenInv ==
    ASSUME FileInv, Fopen \/ FopenFails
    PROVE  FileInv'
<1> USE DEF FileInv
<1>1. FileTypeOK'
  <2>1. CASE Fopen
    BY <2>1 DEF FileTypeOK, Fopen
  <2>2. CASE FopenFails
    <3>1. call.id \in SaveIds
      BY <2>2 DEF FopenFails, FileTypeOK, SaveSound
    <3>2. call' \in Calls
      BY <2>2 DEF FileTypeOK, FopenFails
    <3> QED
      BY <3>1, <3>2, <2>2 DEF FileTypeOK, FopenFails
  <2> QED
    BY <2>1, <2>2
<1>2. SaveSound'
  <2>1. CASE Fopen
    BY <2>1 DEF FileTypeOK, Fopen, SaveSound
  <2>2. CASE FopenFails
    BY <2>2 DEF FileTypeOK, FopenFails, SaveSound
  <2> QED
    BY <2>1, <2>2
<1>3. TablesKnown' /\ Reported'
  BY DEF FileTypeOK, SaveSound, TablesKnown, Reported, Fopen, FopenFails
<1> QED
  BY <1>1, <1>2, <1>3

\* A call goes on to another step, its flag as it is or lowered.
LEMMA CallStep ==
    ASSUME call \in Calls, NEW p \in {"idle", "fopen", "write", "close", "free"}
    PROVE  /\ [call EXCEPT !.pc = p] \in Calls
           /\ [call EXCEPT !.pc = p].id = call.id
           /\ [call EXCEPT !.pc = p].pc = p
           /\ [call EXCEPT !.pc = p, !.ok = FALSE] \in Calls
           /\ [call EXCEPT !.pc = p, !.ok = FALSE].id = call.id
           /\ [call EXCEPT !.pc = p, !.ok = FALSE].pc = p
  OBVIOUS

\* A file grows by a region, whole or with a hole.
LEMMA FileStep ==
    ASSUME file \in Files, NEW u \in 0 .. 10, NEW r \in 1 .. 10
    PROVE  /\ [file EXCEPT !.upto = u] \in Files
           /\ [file EXCEPT !.upto = u, !.short = FALSE] \in Files
           /\ [file EXCEPT !.upto = u, !.holes = @ \cup {r}, !.short = TRUE] \in Files
<1>1. file.holes \cup {r} \in SUBSET Regions
  OBVIOUS
<1> QED
  BY <1>1

\* An fwrite that succeeds leaves a longer part of the image, and one that
\* fails makes the save report it.
LEMMA WriteInv ==
    ASSUME FileInv, WriteRegion \/ WriteFails \/ PadFails
    PROVE  FileInv'
<1> USE DEF FileInv
<1>1. call.pc = "write" /\ file.upto \in 0 .. 9 /\ file.upto + 1 \in 1 .. 10
  BY DEF FileTypeOK, SaveSound, WriteRegion, WriteFails, PadFails
<1>2. /\ call' \in Calls
      /\ call'.id = call.id /\ call'.pc \in {"write", "close"}
  <2> DEFINE p == IF file.upto + 1 = 10 THEN "close" ELSE "write"
  <2>1. p \in {"write", "close"}
    OBVIOUS
  <2>2. call' = [call EXCEPT !.pc = p] \/ call' = [call EXCEPT !.pc = p, !.ok = FALSE]
    BY DEF WriteRegion, WriteFails, PadFails
  <2>3. call \in Calls
    BY DEF FileTypeOK
  <2> HIDE DEF p
  <2> QED
    BY <2>1, <2>2, <2>3, CallStep
<1>3. file' \in Files
  <2> DEFINE u == file.upto + 1
  <2>1. file \in Files /\ u \in 0 .. 10 /\ u \in 1 .. 10
    BY <1>1 DEF FileTypeOK
  <2>2. \/ file' = [file EXCEPT !.upto = u]
        \/ file' = [file EXCEPT !.upto = u, !.short = FALSE]
        \/ file' = [file EXCEPT !.upto = u, !.holes = @ \cup {u}, !.short = TRUE]
    BY DEF WriteRegion, WriteFails, PadFails
  <2> HIDE DEF u
  <2>3. /\ [file EXCEPT !.upto = u] \in Files
        /\ [file EXCEPT !.upto = u, !.short = FALSE] \in Files
        /\ [file EXCEPT !.upto = u, !.holes = @ \cup {u}, !.short = TRUE] \in Files
    <3> HIDE DEF Files
    <3> QED
      BY <2>1, FileStep
  <2> HIDE DEF Files
  <2> QED
    BY <2>2, <2>3
<1>4. /\ UNCHANGED <<model, heap, s_lm, s_sc, last, refused, saves>>
      /\ faults' \in 0 .. MaxFaults
  <2>1. UNCHANGED <<model, heap, s_lm, s_sc, last, refused, saves>>
    BY DEF WriteRegion, WriteFails, PadFails
  <2>2. faults' = faults \/ (faults < MaxFaults /\ faults' = faults + 1)
    BY DEF WriteRegion, WriteFails, PadFails
  <2>3. faults \in 0 .. MaxFaults
    BY DEF FileTypeOK
  <2>4. faults' \in 0 .. MaxFaults
    BY <2>2, <2>3
  <2> QED
    BY <2>1, <2>4
<1>5. FileTypeOK'
  BY <1>2, <1>3, <1>4 DEF FileTypeOK
<1>6. SaveSound'
  <2>1. CASE WriteRegion
    BY <1>1, <2>1 DEF FileTypeOK, WriteRegion, SaveSound
  <2>2. CASE WriteFails
    BY <1>1, <2>2 DEF FileTypeOK, WriteFails, SaveSound
  <2>3. CASE PadFails
    BY <1>1, <2>3 DEF FileTypeOK, PadFails, SaveSound
  <2> QED
    BY <2>1, <2>2, <2>3
<1>7. TablesKnown' /\ Reported'
  <2>1. /\ s_lm' = s_lm /\ s_sc' = s_sc /\ refused' = refused /\ last' = last
        /\ last.rc = 1
    BY <1>1 DEF SaveSound, WriteRegion, WriteFails, PadFails
  <2>2. TablesKnown'
    BY <1>1, <1>2, <2>1 DEF TablesKnown
  <2>3. Reported'
    BY <2>1 DEF Reported
  <2> QED
    BY <2>2, <2>3
<1> QED
  BY <1>5, <1>6, <1>7

\* what the disk may hold of a file is one of the same save and model
LEMMA VisibleType ==
    ASSUME FileTypeOK, NEW f \in Visible(file)
    PROVE  /\ f \in Files
           /\ f.of = file.of /\ f.model = file.model
           /\ f # file => f.short
           /\ f.lm = file.lm /\ f.sc = file.sc
<1>1. CASE f = file
  BY <1>1 DEF FileTypeOK
<1>2. ASSUME NEW n \in 0 .. file.upto, f = Cut(file, n)
      PROVE  /\ f \in Files
             /\ f.of = file.of /\ f.model = file.model /\ f.short
             /\ f.lm = file.lm /\ f.sc = file.sc
  <2>1. n \in 0 .. 10
    BY DEF FileTypeOK
  <2>2. (file.holes \cap 1 .. n) \in SUBSET (1 .. 10)
    BY DEF FileTypeOK
  <2> QED
    BY <2>1, <2>2, <1>2 DEF FileTypeOK, Cut
<1> QED
  BY <1>1, <1>2 DEF Visible

\* fclose flushes what is buffered, or the save reports the failure.
LEMMA CloseInv == ASSUME FileInv, Fclose PROVE FileInv'
<1> USE DEF FileInv
<1>1. file' \in Visible(file)
  BY DEF Fclose, Visible
<1>2. FileTypeOK'
  <2>1. call' \in Calls
    BY DEF FileTypeOK, Fclose
  <2>2. file' \in Files /\ faults' \in 0 .. MaxFaults
    BY <1>1, VisibleType DEF FileTypeOK, Fclose
  <2> QED
    BY <2>1, <2>2 DEF FileTypeOK, Fclose
<1>3. ASSUME call'.ok
      PROVE  Whole(file') /\ file' = file
  <2>1. file' = file /\ call.ok
    BY <1>3 DEF Fclose, FileTypeOK
  <2> QED
    BY <2>1, AllWritten DEF Fclose, SaveSound, Whole
<1>4. SaveSound'
  BY <1>1, <1>3, VisibleType DEF FileTypeOK, SaveSound, Fclose
<1>5. TablesKnown' /\ Reported'
  BY DEF FileTypeOK, SaveSound, TablesKnown, Reported, Fclose
<1> QED
  BY <1>2, <1>4, <1>5

\* The result of a save says whether its file is whole.
LEMMA ReturnInv == ASSUME FileInv, Return PROVE FileInv'
<1> USE DEF FileInv, Return
<1>1. FileTypeOK'
  <2>1. call' \in Calls
    BY DEF NotSaving
  <2>2. last' \in Results
    BY DEF FileTypeOK
  <2>3. heap' \subseteq SaveIds
    BY DEF FileTypeOK
  <2> QED
    BY <2>1, <2>2, <2>3 DEF FileTypeOK
<1>2. Whole(file)' <=> Whole(file)
  BY DEF Whole, Complete, Vacant
<1>3. SaveSound' /\ Reported'
  BY <1>2 DEF FileTypeOK, SaveSound, NotSaving, Reported
<1>4. TablesKnown'
  BY DEF FileTypeOK, TablesKnown, NotSaving
<1> QED
  BY <1>1, <1>3, <1>4

\* A crash leaves what has reached the disk.
LEMMA CrashInv == ASSUME FileInv, Crash PROVE FileInv'
<1> USE DEF FileInv
<1>1. file' \in Visible(file)
  BY DEF Crash, OnDisk, Visible
<1>2. FileTypeOK'
  BY <1>1, VisibleType DEF FileTypeOK, Crash, NotSaving, NoResult
<1>3. SaveSound' /\ TablesKnown' /\ Reported'
  BY <1>1, VisibleType
     DEF FileTypeOK, SaveSound, TablesKnown, Reported, Crash, NotSaving, NoResult
<1> QED
  BY <1>2, <1>3

\* Every step of the save functions keeps the invariant.
LEMMA FileNextInv ==
    ASSUME FileInv, [FileNext]_fileVars
    PROVE  FileInv'
<1>1. CASE \E m \in Models : Train(m)
  <2> USE <1>1 DEF Train, FileInv
  <2>1. Whole(file)' <=> Whole(file)
    BY DEF Whole, Complete, Vacant
  <2> QED
    BY <2>1 DEF FileTypeOK, SaveSound, TablesKnown, Reported
<1>2. CASE Saving
  BY <1>2, OpenInv, WriteInv, CloseInv, ReturnInv DEF Saving
<1>3. CASE UNCHANGED fileVars
  <2> USE <1>3 DEF fileVars, FileInv
  <2>1. Whole(file)' <=> Whole(file)
    BY DEF Whole, Complete, Vacant
  <2> QED
    BY <2>1 DEF FileTypeOK, SaveSound, TablesKnown, Reported
<1> QED
  BY <1>1, <1>2, <1>3, BeginInv, CrashInv DEF FileNext

\* The invariant holds in every state of the save functions alone.
LEMMA FileInvariant == FileSpec => []FileInv
  BY FileInitInv, FileNextInv, PTL DEF FileSpec

(***************************************************************************)
(* The statics of bcb_prior.c, the running save and the file keep their    *)
(* types, and no counter of the model passes its bound.                    *)
(***************************************************************************)
THEOREM FileTypeCorrect == FileSpec => []FileTypeOK
<1>1. FileInv => FileTypeOK
  BY DEF FileInv
<1> QED
  BY FileInvariant, <1>1, PTL

(***************************************************************************)
(* bcb_prior_save returns 0 only over the whole file of the trained model, *)
(* whichever writes, paddings and closes failed before, in this save or in *)
(* another, and however often the process died.                            *)
(***************************************************************************)
THEOREM ReportedSafe == FileSpec => []Reported
<1>1. FileInv => Reported
  BY DEF FileInv
<1> QED
  BY FileInvariant, <1>1, PTL

(***************************************************************************)
(* What bcb_prior_save finds registered was registered for it, or for a    *)
(* save that returned early because its fopen failed.                      *)
(***************************************************************************)
THEOREM TablesOwnUnlessRefusedSafe == FileSpec => []TablesOwnUnlessRefused
<1>1. FileInv => TablesOwnUnlessRefused
  BY DEF FileInv, TablesKnown, TablesOwnUnlessRefused
<1> QED
  BY FileInvariant, <1>1, PTL

-----------------------------------------------------------------------------
(***************************************************************************)
(* The binding, and what it holds of the file.                             *)
(***************************************************************************)
\* which objects a step can be about
StepsOn ==
    \A t \in Threads :
        /\ task[t].step \in {"new", "encode", "discard"} => task[t].on = ThePrior
        /\ task[t].step \in {"make", "use"} => task[t].on \in Encoders

\* an Encoder is one thread's
Exclusive ==
    \A t, u \in Threads :
        t # u /\ task[t].step # "idle" /\ task[u].step # "idle" /\ task[t].on \in Encoders
              => task[u].on # task[t].on

\* whoever is in a call on the Prior while another closes it is known to be
Racing ==
    \A t, u \in Threads : t # u /\ Closing(u, ThePrior) /\ OnPrior(t) => t \in raced

\* the C object of a slot
SlotLive ==
    \A x \in PyObjects :
        /\ x \in live => slot[x] = "set"
        /\ slot[x] = "set" => x \in live \/ \E t \in Threads : /\ task[t].step = "clear"
                                                               /\ task[t].on = x
        /\ x \in dropped => /\ slot[x] # "none"
                            /\ slot[x] = "set" => \E t \in Threads : Closing(t, x)

\* the codec of a one-shot call
LocalLive == \A t \in Threads : t \in live <=> task[t].step \in {"encode", "discard"}

\* the slot while its object is made or closed; one of two threads that
\* close the Prior may find it cleared by the other
SlotInStep ==
    \A t \in Threads :
        /\ task[t].step = "make" => slot[task[t].on] = "none"
        /\ task[t].step \in {"free", "clear"} => slot[task[t].on] \in {"set", "null"}
        /\ task[t].step = "clear" => task[t].on \notin live

BindingInv == /\ BindingTypeOK /\ StepsOn /\ Exclusive /\ Racing /\ SlotLive
              /\ LocalLive /\ SlotInStep /\ CallsLive

\* what is held of the file
HeldInv ==
    ThePrior \in live =>
        /\ held \in Files /\ Complete(held) /\ held.of <= saves
        /\ call.pc # "idle" /\ call.id = held.of /\ call.ok => Whole(held)
        /\ last.rc = 0 /\ last.id = held.of => Whole(held)
USE NamesAssumption DEF PyObjects, CObjects

\* Opening a prior: Prior.__init__.
LEMMA NewInv ==
    ASSUME BindingInv, NEW t \in Threads, \E opened \in BOOLEAN : PriorNew(t, opened)
    PROVE  BindingInv'
<1> USE DEF BindingInv
<1>1. BindingTypeOK'
  BY DEF BindingTypeOK, PriorNew
<1>2. StepsOn'
  BY DEF StepsOn, PriorNew
<1>3. Exclusive'
  BY DEF Exclusive, PriorNew
<1>4. Racing'
  BY DEF BindingTypeOK, Racing, Closing, OnPrior, PriorNew
<1>5. SlotLive'
  BY DEF BindingTypeOK, SlotLive, Closing, PriorNew
<1>6. LocalLive'
  BY DEF LocalLive, PriorNew
<1>7. SlotInStep'
  BY DEF StepsOn, SlotInStep, PriorNew
<1>8. CallsLive'
  BY DEF CallsLive, Arguments, PriorNew
<1> QED
  BY <1>1, <1>2, <1>3, <1>4, <1>5, <1>6, <1>7, <1>8

\* A one-shot call begins.
LEMMA CompressInv ==
    ASSUME BindingInv, NEW t \in Threads, Compress(t)
    PROVE  BindingInv'
<1> USE DEF BindingInv
<1>1. BindingTypeOK'
  BY DEF BindingTypeOK, Compress, Enter, Start
<1>2. StepsOn'
  BY DEF StepsOn, Compress, Enter, Start
<1>3. Exclusive'
  BY DEF Exclusive, Compress, Enter, Start, BeingClosed
<1>4. Racing'
  BY DEF BindingTypeOK, Racing, Closing, OnPrior, Compress, Enter, Start, BeingClosed
<1>5. SlotLive'
  BY DEF SlotLive, Closing, Compress, Enter, Start
<1>6. LocalLive'
  BY DEF LocalLive, Compress, Enter, Start
<1>7. SlotInStep'
  BY DEF SlotInStep, Compress, Enter, Start
<1>8. CallsLive'
  BY DEF SlotLive, CallsLive, Closing, Arguments, Compress, Enter, Start, BeingClosed
<1> QED
  BY <1>1, <1>2, <1>3, <1>4, <1>5, <1>6, <1>7, <1>8

\* Its codec is allocated, or is not.
LEMMA AllocatedInv ==
    ASSUME BindingInv, NEW t \in Threads, Allocated(t)
    PROVE  BindingInv'
<1> USE DEF BindingInv
<1>1. BindingTypeOK'
  BY DEF BindingTypeOK, Allocated, Step, Start, Finish, Idle
<1>2. StepsOn'
  BY DEF BindingTypeOK, StepsOn, Allocated, Step, Start, Finish, Idle
<1>3. Exclusive'
  BY DEF BindingTypeOK, Exclusive, Allocated, Step, Start, Finish,
         Idle
<1>4. Racing'
  BY DEF BindingTypeOK, Racing, Closing, OnPrior, Allocated, Step, Start, Finish, Idle
<1>5. SlotLive'
  BY DEF BindingTypeOK, SlotLive, Closing, Allocated, Step, Start, Finish
<1>6. LocalLive'
  BY DEF BindingTypeOK, LocalLive, Allocated, Step, Start, Finish, Idle
<1>7. SlotInStep'
  BY DEF BindingTypeOK, SlotInStep, Allocated, Step, Start, Finish, Idle
<1>8. CallsLive'
  BY DEF BindingTypeOK, CallsLive, Arguments, Allocated, Step, Start, Finish, Idle
<1> QED
  BY <1>1, <1>2, <1>3, <1>4, <1>5, <1>6, <1>7, <1>8

\* It has coded.
LEMMA EncodedInv ==
    ASSUME BindingInv, NEW t \in Threads, Encoded(t)
    PROVE  BindingInv'
<1> USE DEF BindingInv
<1>1. BindingTypeOK'
  BY DEF BindingTypeOK, Encoded, Step, Start
<1>2. StepsOn'
  BY DEF StepsOn, Encoded, Step, Start
<1>3. Exclusive'
  BY DEF Exclusive, Encoded, Step, Start
<1>4. Racing'
  BY DEF BindingTypeOK, Racing, Closing, OnPrior, Encoded, Step, Start
<1>5. SlotLive'
  BY DEF SlotLive, Closing, Encoded, Step, Start
<1>6. LocalLive'
  BY DEF LocalLive, Encoded, Step, Start
<1>7. SlotInStep'
  BY DEF SlotInStep, Encoded, Step, Start
<1>8. CallsLive'
  BY DEF CallsLive, Arguments, Encoded, Step, Start
<1> QED
  BY <1>1, <1>2, <1>3, <1>4, <1>5, <1>6, <1>7, <1>8

\* Its codec is freed.
LEMMA DiscardedInv ==
    ASSUME BindingInv, NEW t \in Threads, Discarded(t)
    PROVE  BindingInv'
<1> USE DEF BindingInv
<1>1. BindingTypeOK'
  BY DEF BindingTypeOK, Discarded, Finish, Idle
<1>2. StepsOn'
  BY DEF StepsOn, Discarded, Finish, Idle
<1>3. Exclusive'
  BY DEF Exclusive, Discarded, Finish, Idle
<1>4. Racing'
  BY DEF BindingTypeOK, Racing, Closing, OnPrior, Discarded, Finish, Idle
<1>5. SlotLive'
  BY DEF SlotLive, Closing, Discarded, Finish
<1>6. LocalLive'
  BY DEF BindingTypeOK, LocalLive, Discarded, Finish, Idle
<1>7. SlotInStep'
  BY DEF SlotInStep, Discarded, Finish, Idle
<1>8. CallsLive'
  BY DEF BindingTypeOK, CallsLive, Arguments, Discarded, Finish, Idle
<1> QED
  BY <1>1, <1>2, <1>3, <1>4, <1>5, <1>6, <1>7, <1>8

\* Encoder.__init__ begins,
LEMMA MakeInv ==
    ASSUME BindingInv, NEW t \in Threads, \E x \in Encoders : Make(t, x)
    PROVE  BindingInv'
<1> USE DEF BindingInv
<1>1. BindingTypeOK'
  BY DEF BindingTypeOK, Make, Enter, Start
<1>2. StepsOn'
  BY DEF StepsOn, Make, Enter, Start
<1>3. Exclusive'
  BY DEF Exclusive, Make, Enter, Start, BeingUsed, BeingClosed
<1>4. Racing'
  BY DEF BindingTypeOK, Racing, Closing, OnPrior, Make, Enter, Start, BeingClosed
<1>5. SlotLive'
  BY DEF SlotLive, Closing, Make, Enter, Start
<1>6. LocalLive'
  BY DEF LocalLive, Make, Enter, Start
<1>7. SlotInStep'
  BY DEF SlotInStep, Make, Enter, Start
<1>8. CallsLive'
  BY DEF SlotLive, CallsLive, Closing, Arguments, Make, Enter, Start, BeingClosed
<1> QED
  BY <1>1, <1>2, <1>3, <1>4, <1>5, <1>6, <1>7, <1>8

\* and has its object.
LEMMA MadeInv ==
    ASSUME BindingInv, NEW t \in Threads, Made(t)
    PROVE  BindingInv'
<1> USE DEF BindingInv
<1>1. BindingTypeOK'
  BY DEF BindingTypeOK, Made, Finish, Idle
<1>2. StepsOn'
  BY DEF StepsOn, Made, Finish, Idle
<1>3. Exclusive'
  BY DEF Exclusive, Made, Finish, Idle
<1>4. Racing'
  BY DEF BindingTypeOK, Racing, Closing, OnPrior, Made, Finish, Idle
<1>5. SlotLive'
  BY DEF BindingTypeOK, SlotLive, SlotInStep, Closing, Made, Finish
<1>6. LocalLive'
  BY DEF StepsOn, LocalLive, Made, Finish, Idle
<1>7. SlotInStep'
  BY DEF BindingTypeOK, StepsOn, Exclusive, SlotInStep, Made, Finish, Idle
<1>8. CallsLive'
  BY DEF BindingTypeOK, CallsLive, Arguments, Made, Finish, Idle
<1> QED
  BY <1>1, <1>2, <1>3, <1>4, <1>5, <1>6, <1>7, <1>8

\* A call on an Encoder begins,
LEMMA UseInv ==
    ASSUME BindingInv, NEW t \in Threads, \E x \in Encoders : Use(t, x)
    PROVE  BindingInv'
<1> USE DEF BindingInv
<1>1. BindingTypeOK'
  BY DEF BindingTypeOK, Use, Start
<1>2. StepsOn'
  BY DEF StepsOn, Use, Start
<1>3. Exclusive'
  BY DEF Exclusive, Use, Start, BeingUsed, BeingClosed
<1>4. Racing'
  BY DEF BindingTypeOK, Racing, Closing, OnPrior, Use, Start
<1>5. SlotLive'
  BY DEF SlotLive, Closing, Use, Start
<1>6. LocalLive'
  BY DEF LocalLive, Use, Start
<1>7. SlotInStep'
  BY DEF SlotInStep, Use, Start
<1>8. CallsLive'
  BY DEF SlotLive, CallsLive, Arguments, Use, Start, BeingUsed, BeingClosed
<1> QED
  BY <1>1, <1>2, <1>3, <1>4, <1>5, <1>6, <1>7, <1>8

\* and ends.
LEMMA UsedInv ==
    ASSUME BindingInv, NEW t \in Threads, Used(t)
    PROVE  BindingInv'
<1> USE DEF BindingInv
<1>1. BindingTypeOK'
  BY DEF BindingTypeOK, Used, Finish, Idle
<1>2. StepsOn'
  BY DEF StepsOn, Used, Finish, Idle
<1>3. Exclusive'
  BY DEF Exclusive, Used, Finish, Idle
<1>4. Racing'
  BY DEF BindingTypeOK, Racing, Closing, OnPrior, Used, Finish, Idle
<1>5. SlotLive'
  BY DEF SlotLive, Closing, Used, Finish
<1>6. LocalLive'
  BY DEF LocalLive, Used, Finish, Idle
<1>7. SlotInStep'
  BY DEF SlotInStep, Used, Finish, Idle
<1>8. CallsLive'
  BY DEF CallsLive, Arguments, Used, Finish, Idle
<1> QED
  BY <1>1, <1>2, <1>3, <1>4, <1>5, <1>6, <1>7, <1>8

\* close, or the finalizer of an object no longer referenced, begins;
LEMMA CloseOrDropInv ==
    ASSUME BindingInv, NEW t \in Threads,
           \E x \in PyObjects : CloseCalled(t, x) \/ Drop(t, x)
    PROVE  BindingInv'
<1> USE DEF BindingInv
<1>1. BindingTypeOK'
  BY DEF BindingTypeOK, CloseCalled, Drop, Close, Start, Overlapped
<1>2. StepsOn'
  BY DEF BindingTypeOK, StepsOn, CloseCalled, Drop, Close, Start
<1>3. Exclusive'
  BY DEF BindingTypeOK, Exclusive, CloseCalled, Drop, Close, Start, BeingUsed
<1>4. Racing'
  BY DEF BindingTypeOK, Racing, Closing, OnPrior, CloseCalled, Drop, Close, Start,
         BeingClosed, Overlapped
<1>5. SlotLive'
  BY DEF BindingTypeOK, SlotLive, Closing, CloseCalled, Drop, Close, Start
<1>6. LocalLive'
  BY DEF BindingTypeOK, LocalLive, CloseCalled, Drop, Close, Start
<1>7. SlotInStep'
  BY DEF BindingTypeOK, SlotInStep, CloseCalled, Drop, Close, Start
<1>8. CallsLive'
  BY DEF BindingTypeOK, SlotLive, CallsLive, Closing, Arguments, CloseCalled, Drop,
         Close, Start, BeingUsed, BeingClosed, Overlapped
<1> QED
  BY <1>1, <1>2, <1>3, <1>4, <1>5, <1>6, <1>7, <1>8

\* it frees the C object,
LEMMA FreedInv ==
    ASSUME BindingInv, NEW t \in Threads, Freed(t)
    PROVE  BindingInv'
<1> USE DEF BindingInv
<1>1. BindingTypeOK'
  BY DEF BindingTypeOK, Freed, Step, Start
<1>2. StepsOn'
  BY DEF StepsOn, Freed, Step, Start
<1>3. Exclusive'
  BY DEF Exclusive, Freed, Step, Start
<1>4. Racing'
  BY DEF BindingTypeOK, Racing, Closing, OnPrior, Freed, Step, Start
<1>5. SlotLive'
  BY DEF BindingTypeOK, SlotLive, Closing, Freed, Step, Start
<1>6. LocalLive'
  BY DEF BindingTypeOK, LocalLive, Freed, Step, Start
<1>7. SlotInStep'
  BY DEF SlotInStep, Freed, Step, Start
<1>8. CallsLive'
  BY DEF BindingTypeOK, StepsOn, Exclusive, Racing, CallsLive, Closing, OnPrior,
         Arguments, Freed, Step, Start
<1> QED
  BY <1>1, <1>2, <1>3, <1>4, <1>5, <1>6, <1>7, <1>8

\* and then clears the pointer to it.
LEMMA ClearedInv ==
    ASSUME BindingInv, NEW t \in Threads, Cleared(t)
    PROVE  BindingInv'
<1> USE DEF BindingInv
<1>1. BindingTypeOK'
  BY DEF BindingTypeOK, Cleared, Finish, Idle
<1>2. StepsOn'
  BY DEF StepsOn, Cleared, Finish, Idle
<1>3. Exclusive'
  BY DEF Exclusive, Cleared, Finish, Idle
<1>4. Racing'
  BY DEF BindingTypeOK, Racing, Closing, OnPrior, Cleared, Finish, Idle
<1>5. SlotLive'
  BY DEF BindingTypeOK, SlotLive, SlotInStep, Closing, Cleared, Finish
<1>6. LocalLive'
  BY DEF LocalLive, Cleared, Finish, Idle
<1>7. SlotInStep'
  BY DEF BindingTypeOK, Exclusive, SlotInStep, Closing, Cleared, Finish, Idle
<1>8. CallsLive'
  BY DEF CallsLive, Arguments, Cleared, Finish, Idle
<1> QED
  BY <1>1, <1>2, <1>3, <1>4, <1>5, <1>6, <1>7, <1>8

\* At first no object exists.
LEMMA BindingInitInv == ASSUME BindingInit PROVE BindingInv
  BY DEF BindingInit, Idle, BindingInv, BindingTypeOK, StepsOn, Exclusive, Racing,
         Closing, OnPrior, SlotLive, LocalLive, SlotInStep, CallsLive, Arguments

\* Steps of the file leave the binding alone.
LEMMA BindingUnchanged ==
    ASSUME BindingInv, UNCHANGED bindingVars
    PROVE  BindingInv'
  BY DEF bindingVars, BindingInv, BindingTypeOK, StepsOn, Exclusive, Racing,
         Closing, OnPrior, SlotLive, LocalLive, SlotInStep, CallsLive, Arguments

\* Every step of a thread keeps the invariant of the binding.
LEMMA ThreadNextInv ==
    ASSUME BindingInv, NEW t \in Threads, ThreadNext(t)
    PROVE  BindingInv'
<1>1. CASE \/ Compress(t) \/ Allocated(t) \/ Encoded(t) \/ Discarded(t)
           \/ Made(t) \/ Used(t) \/ Freed(t) \/ Cleared(t)
  BY <1>1, CompressInv, AllocatedInv, EncodedInv, DiscardedInv, MadeInv, UsedInv,
     FreedInv, ClearedInv
<1>2. CASE \E x \in Encoders : Make(t, x) \/ Use(t, x)
  BY <1>2, MakeInv, UseInv
<1>3. CASE \E x \in PyObjects : CloseCalled(t, x) \/ Drop(t, x)
  BY <1>3, CloseOrDropInv
<1> QED
  BY <1>1, <1>2, <1>3 DEF ThreadNext
-----------------------------------------------------------------------------
\* A thread that does not open the file brings no Prior to life.
LEMMA PriorStays ==
    ASSUME BindingInv, NEW t \in Threads, ThreadNext(t), ThePrior \in live'
    PROVE  ThePrior \in live
<1>1. \/ live' \subseteq live \/ live' = live \cup {t}
      \/ task[t].step = "make" /\ live' = live \cup {task[t].on}
  BY DEF ThreadNext, Compress, Allocated, Encoded, Discarded, Made, Used, Freed,
         Cleared, Make, Use, CloseCalled, Drop, Close, Finish
<1>2. task[t].step = "make" => task[t].on # ThePrior
  BY DEF BindingInv, StepsOn
<1> QED
  BY <1>1, <1>2

\* What can be opened is of this save or of one before, and sound if it is
\* to be reported so.
LEMMA OpenedSound ==
    ASSUME FileInv, NEW f \in OnDisk, TRUE \in Parse(f)
    PROVE  /\ f \in Files /\ Complete(f) /\ f.of <= saves
           /\ call.pc # "idle" /\ call.id = f.of /\ call.ok => Whole(f)
           /\ last.rc = 0 /\ last.id = f.of => Whole(f)
<1> USE DEF FileInv
<1>1. Complete(f)
  BY DEF Parse
<1>2. f = file
  BY <1>1, VisibleType DEF OnDisk, Complete
<1>3. f \in Files /\ f.of <= saves
  BY <1>2 DEF FileTypeOK, SaveSound
<1>4. call.pc # "idle" /\ call.id = f.of /\ call.ok => Whole(f)
  <2>1. /\ call.pc \in {"idle", "fopen", "write", "close", "free"}
        /\ call.id \in Nat /\ file.of \in Nat
    <3>1. call \in Calls /\ file \in Files
      BY DEF FileTypeOK
    <3> QED
      BY <3>1, MaxSavesAssumption DEF Calls, Files
  <2>2. CASE call.pc = "fopen"
    BY <1>2, <2>1, <2>2 DEF SaveSound
  <2>3. CASE call.pc \in {"write", "close"}
    BY <1>1, <1>2, <2>3 DEF SaveSound, Whole
  <2>4. CASE call.pc = "free"
    BY <1>2, <2>4 DEF SaveSound
  <2> QED
    BY <2>1, <2>2, <2>3, <2>4
<1>5. last.rc = 0 /\ last.id = f.of => Whole(f)
  BY <1>2 DEF Reported
<1> QED
  BY <1>1, <1>3, <1>4, <1>5

\* The builder goes on: the save that is held returns as it went, and the
\* saves after it have other names.
LEMMA BuilderHeld ==
    ASSUME FileInv, HeldInv, FileNext, UNCHANGED <<live, held>>
    PROVE  HeldInv'
<1> USE DEF FileInv
<1> SUFFICES ASSUME ThePrior \in live
             PROVE  /\ held \in Files /\ Complete(held) /\ held.of <= saves'
                    /\ call'.pc # "idle" /\ call'.id = held.of /\ call'.ok => Whole(held)
                    /\ last'.rc = 0 /\ last'.id = held.of => Whole(held)
  BY DEF HeldInv, Complete, Whole, Vacant
<1>1. /\ held \in Files /\ Complete(held) /\ held.of <= saves
      /\ call.pc # "idle" /\ call.id = held.of /\ call.ok => Whole(held)
      /\ last.rc = 0 /\ last.id = held.of => Whole(held)
  BY DEF HeldInv
<1> HIDE DEF Files
<1>2. held.of \in Nat
  BY <1>1 DEF Files
<1>3. CASE \E m \in Models : Train(m)
  BY <1>1, <1>3 DEF Train
<1>4. CASE BeginSave
  <2>1. /\ saves' = saves + 1 /\ saves \in Nat
        /\ call'.pc = "idle" \/ call'.id = saves + 1
        /\ last'.rc # 0
    BY <1>4 DEF FileTypeOK, BeginSave, SavePlain, SaveWithSchema, RefuseSchema,
                SaveWithLandmarks, Begin, NoResult
  <2> QED
    BY <1>1, <1>2, <2>1
<1>5. CASE Saving
  <2>1. CASE Return
    BY <1>1, <2>1 DEF Return, NotSaving
  <2>2. CASE Saving /\ ~Return
    <3>1. /\ saves' = saves /\ last' = last /\ call.pc # "idle"
          /\ call'.id = call.id /\ (call'.ok => call.ok)
      <4>1. call \in Calls
        BY DEF FileTypeOK
      <4> HIDE DEF FileInv
      <4>2. \/ Fopen \/ FopenFails \/ WriteRegion \/ WriteFails \/ PadFails \/ Fclose
        BY <2>2 DEF Saving
      <4>3. CASE Fopen
        BY <4>1, <4>3 DEF Fopen, Calls
      <4>4. CASE FopenFails
        BY <4>1, <4>4 DEF FopenFails, Calls
      <4>5. CASE WriteRegion
        BY <4>1, <4>5 DEF WriteRegion, Calls
      <4>6. CASE WriteFails
        BY <4>1, <4>6 DEF WriteFails, Calls
      <4>7. CASE PadFails
        BY <4>1, <4>7 DEF PadFails, Calls
      <4>8. CASE Fclose
        BY <4>1, <4>8 DEF Fclose, Calls
      <4> QED
        BY <4>2, <4>3, <4>4, <4>5, <4>6, <4>7, <4>8
    <3> QED
      BY <1>1, <3>1
  <2> QED
    BY <1>5, <2>1, <2>2
<1>6. CASE Crash
  BY <1>1, <1>6 DEF Crash, NotSaving, NoResult
<1> QED
  BY <1>3, <1>4, <1>5, <1>6 DEF FileNext

DeploymentInv == FileInv /\ BindingInv /\ HeldInv

\* The composition starts in the invariant.
LEMMA DeploymentInitInv == ASSUME Init PROVE DeploymentInv
<1>1. HeldInv
  BY DEF Init, BindingInit, HeldInv
<1> QED
  BY <1>1, FileInitInv, BindingInitInv DEF Init, DeploymentInv

\* Every step of the composition keeps the invariant: a save may replace
\* the file while its earlier contents are held.
LEMMA DeploymentNextInv ==
    ASSUME DeploymentInv, [Next]_vars
    PROVE  DeploymentInv'
<1> USE DEF DeploymentInv
<1>1. CASE Builder
  <2>1. FileInv' /\ BindingInv'
    BY <1>1, FileNextInv, BindingUnchanged DEF Builder
  <2>2. HeldInv'
    BY <1>1, BuilderHeld DEF Builder, bindingVars
  <2> QED
    BY <2>1, <2>2
<1>2. ASSUME NEW t \in Threads, PriorOpen(t)
      PROVE  DeploymentInv'
  <2>1. FileInv'
    BY <1>2, FileNextInv DEF PriorOpen
  <2>2. BindingInv'
    BY <1>2, NewInv DEF PriorOpen
  <2>3. HeldInv'
    <3>1. PICK f \in OnDisk, opened \in BOOLEAN :
             /\ opened \in Parse(f) /\ PriorNew(t, opened)
             /\ held' = IF opened THEN f ELSE held
      BY <1>2 DEF PriorOpen
    <3>2. CASE opened
      BY <1>2, <3>1, <3>2, OpenedSound
         DEF PriorOpen, fileVars, HeldInv, Complete, Whole, Vacant
    <3>3. CASE ~opened
      BY <1>2, <3>1, <3>3
         DEF PriorOpen, PriorNew, fileVars, HeldInv, Complete, Whole, Vacant
    <3> QED
      BY <3>2, <3>3
  <2> QED
    BY <2>1, <2>2, <2>3
<1>3. CASE Python
  <2>1. FileInv'
    BY <1>3, FileNextInv DEF Python
  <2>2. BindingInv'
    BY <1>3, ThreadNextInv DEF Python
  <2>3. HeldInv'
    BY <1>3, PriorStays DEF Python, fileVars, HeldInv, Complete, Whole, Vacant
  <2> QED
    BY <2>1, <2>2, <2>3
<1>4. CASE UNCHANGED vars
  <2>1. FileInv' /\ BindingInv'
    BY <1>4, FileNextInv, BindingUnchanged DEF vars
  <2>2. HeldInv'
    BY <1>4 DEF vars, fileVars, bindingVars, HeldInv, Complete, Whole, Vacant
  <2> QED
    BY <2>1, <2>2
<1> QED
  BY <1>1, <1>2, <1>3, <1>4 DEF Next

\* The invariant holds in every state.
LEMMA DeploymentInvariant == Spec => []DeploymentInv
  BY DeploymentInitInv, DeploymentNextInv, PTL DEF Spec
-----------------------------------------------------------------------------
(***************************************************************************)
(* The builder's state and the slots, objects and calls of the Python      *)
(* binding keep their types.                                               *)
(***************************************************************************)
THEOREM TypeCorrect == Spec => []TypeOK
<1>1. DeploymentInv => TypeOK
  BY DEF DeploymentInv, FileInv, BindingInv, TypeOK
<1> QED
  BY DeploymentInvariant, <1>1, PTL

(***************************************************************************)
(* A call of the binding is given an object that has been freed only when  *)
(* the object is the Prior, and either an Encoder's method makes the call  *)
(* or another thread's close has overlapped it: whatever else threads do   *)
(* with close, __del__ and failed constructors, each C object is used      *)
(* while it lives and freed once.  The one rule assumed is that no Encoder *)
(* is used by two threads at once.                                         *)
(***************************************************************************)
THEOREM CallsLiveSafe == Spec => []CallsLive
<1>1. DeploymentInv => CallsLive
  BY DEF DeploymentInv, BindingInv
<1> QED
  BY DeploymentInvariant, <1>1, PTL

(***************************************************************************)
(* Every C object has one that will free it, on every path through the     *)
(* binding, errors and __del__ included.                                   *)
(***************************************************************************)
THEOREM NothingLeakedSafe == Spec => []NothingLeaked
<1>1. BindingInv => NothingLeaked
  BY DEF BindingInv, BindingTypeOK, SlotLive, LocalLive, Closing, BeingUsed,
         NothingLeaked
<1>2. DeploymentInv => NothingLeaked
  BY <1>1 DEF DeploymentInv
<1> QED
  BY DeploymentInvariant, <1>2, PTL

(***************************************************************************)
(* A prior that opens is the complete file of one save, though the path    *)
(* may hold one half written; and it is whole if that save returned 0.     *)
(***************************************************************************)
THEOREM HeldSoundSafe == Spec => []HeldSound
<1>1. HeldInv => HeldSound
  BY DEF HeldInv, HeldSound
<1>2. DeploymentInv => HeldSound
  BY <1>1 DEF DeploymentInv
<1> QED
  BY DeploymentInvariant, <1>2, PTL
=============================================================================
