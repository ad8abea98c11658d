----------------------------- MODULE Deployment -----------------------------
(***************************************************************************)
(* A process that builds prior files beside a Python process that opens    *)
(* the one at their path: opening meets whatever is on the disk, a file    *)
(* half written or left behind by a crash included.  The application does  *)
(* not write over a file that is mapped.                                   *)
(***************************************************************************)
EXTENDS PriorFile, Binding

VARIABLE held  \* the file the Prior object was opened from

vars == <<fileVars, bindingVars, held>>

Init == FileInit /\ BindingInit /\ held = NoFile

Builder == /\ FileNext
           /\ ThePrior \in live /\ call.pc = "fopen" => file' = file
           /\ UNCHANGED <<bindingVars, held>>

\* bcb_prior_open: prior_parse reads what is there
PriorOpen(t) ==
    /\ \E f \in OnDisk, opened \in BOOLEAN :
          /\ opened \in Parse(f)
          /\ PriorNew(t, opened)
          /\ held' = IF opened THEN f ELSE held
    /\ UNCHANGED fileVars

Python == (\E t \in Threads : ThreadNext(t)) /\ UNCHANGED <<fileVars, held>>

Next == Builder \/ (\E t \in Threads : PriorOpen(t)) \/ Python

Spec == Init /\ [][Next]_vars
-----------------------------------------------------------------------------
TypeOK == FileTypeOK /\ BindingTypeOK

(***************************************************************************)
(* What the Python process opens is the complete file of one save; and if  *)
(* that save returned 0, nothing is missing inside it either.              *)
(***************************************************************************)
HeldSound ==
    ThePrior \in live =>
        /\ Complete(held)
        /\ held.of = last.id /\ last.rc = 0 => Whole(held)
=============================================================================
