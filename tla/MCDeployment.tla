---------------------------- MODULE MCDeployment ----------------------------
(***************************************************************************)
(* Two saves of two models with two faults, two threads, two Encoders.     *)
(* The Python threads share nothing with the builder but the opening of    *)
(* the file, so they do more than open it only after a save without fault, *)
(* and a builder whose file has been held begins nothing new.              *)
(***************************************************************************)
EXTENDS Deployment, TLC

Symmetry == Permutations(Threads) \cup Permutations(Encoders)

MCNext == \/ /\ Builder
             /\ slot[ThePrior] # "null" /\ (slot[ThePrior] = "set" => call.pc # "idle")
          \/ Python /\ last.rc = 0 /\ faults = 0
          \/ \E t \in Threads : PriorOpen(t)
MCSpec == Init /\ [][MCNext]_vars
=============================================================================
