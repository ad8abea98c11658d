----------------------------- MODULE FreqTable ------------------------------
(***************************************************************************)
(* What the context model of btv3.c promises: for each context of at most  *)
(* Depth bytes and each byte, how often the byte came after the context,   *)
(* counting one context length after the other; a saved model is the model *)
(* at that moment, and comes back when it is attached.                     *)
(*                                                                         *)
(* A lossy table may refuse a pair it does not hold yet.  It never loses   *)
(* one it holds.                                                           *)
(***************************************************************************)
EXTENDS Integers, Sequences

CONSTANTS Byte, Depth

Strings == UNION {[1 .. n -> Byte] : n \in 1 .. Depth}
Windows  == Strings \cup {<<>>}

VARIABLES lossy,   \* whether it may refuse; never changes
          count,   \* [Strings -> [Byte -> Nat]]
          window,  \* the last bytes trained, at most Depth
          call,    \* the byte being trained and the length it is counted for
          frozen,  \* training only moves the window
          saved    \* the model saved last, if any

vars == <<lossy, window, call, frozen, saved, count>>

Idle == [byte |-> CHOOSE b \in Byte : TRUE, n |-> 0]
Zero == [ctx \in Strings |-> [b \in Byte |-> 0]]

Suffix(w, n) == SubSeq(w, Len(w) - n + 1, Len(w))
Push(w, b) == LET v == Append(w, b)
              IN  IF Len(v) > Depth THEN Suffix(v, Depth) ELSE v

Init == /\ lossy \in BOOLEAN /\ count = Zero /\ window = <<>> /\ call = Idle
        /\ frozen = FALSE /\ saved = {}

\* these leave the counts alone
Train(b) ==
    /\ call.n = 0
    /\ IF frozen THEN window' = Push(window, b) /\ UNCHANGED call
                 ELSE call' = [byte |-> b, n |-> 1] /\ UNCHANGED window
    /\ UNCHANGED frozen

Trained ==
    /\ call.n > Len(window)
    /\ window' = Push(window, call.byte)
    /\ call' = Idle
    /\ UNCHANGED frozen

Freeze    == call.n = 0 /\ frozen' = TRUE /\ UNCHANGED <<window, call>>

SetWindow == call.n = 0 /\ window' \in Windows /\ UNCHANGED <<call, frozen>>

\* one suffix of the window has been looked at
Count ==
    /\ call.n \in 1 .. Len(window)
    /\ call' = [call EXCEPT !.n = @ + 1]
    /\ UNCHANGED <<window, frozen>>
    /\ LET ctx == Suffix(window, call.n)
       IN  \/ count' = [count EXCEPT ![ctx][call.byte] = @ + 1]
           \/ lossy /\ count[ctx][call.byte] = 0 /\ UNCHANGED count
    /\ UNCHANGED saved

Save == /\ call.n = 0
        /\ UNCHANGED <<window, call, frozen>>
        /\ saved' = {[window |-> window, count |-> count]}
        /\ UNCHANGED count

Attach == /\ call.n = 0 /\ frozen' = TRUE /\ UNCHANGED call
          /\ \E s \in saved : window' = s.window /\ count' = s.count
          /\ UNCHANGED saved

\* an empty model, or none
Drop == /\ call.n = 0 /\ UNCHANGED call
        /\ frozen' = FALSE /\ window' \in {window, <<>>} /\ count' = Zero
        /\ UNCHANGED saved

Next == /\ \/ /\ (\E b \in Byte : Train(b)) \/ Trained \/ Freeze \/ SetWindow
              /\ UNCHANGED <<saved, count>>
           \/ Count \/ Save \/ Attach \/ Drop
        /\ UNCHANGED lossy

Spec == Init /\ [][Next]_vars
=============================================================================
