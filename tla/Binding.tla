------------------------------ MODULE Binding -------------------------------
(***************************************************************************)
(* The Python binding's Prior, Encoder and Decoder objects and the C       *)
(* objects behind them.  A C call runs with the interpreter lock released, *)
(* so other threads run Python code meanwhile.  An Encoder keeps no        *)
(* reference to its Prior, and what is dropped is closed by __del__, in    *)
(* any order.  A Decoder is an Encoder under another name.                 *)
(*                                                                         *)
(* The application keeps the one rule that is documented: no Encoder is    *)
(* used by two threads at once.  A Prior is shared, and closed, by any of  *)
(* them at any time.  A C call that is given a freed object returns here   *)
(* as it would otherwise; or the process dies in it, and takes no further  *)
(* step.                                                                   *)
(***************************************************************************)
EXTENDS FiniteSets

CONSTANTS Threads,   \* they call one-shot compress, and hold its local codec
          Encoders,  \* Encoder and Decoder objects
          ThePrior   \* the Prior object

PyObjects == {ThePrior} \cup Encoders
CObjects  == PyObjects \cup Threads  \* a C object has the name of its holder

ASSUME NamesAssumption == /\ ThePrior \notin Encoders
                          /\ PyObjects \cap Threads = {}

VARIABLES slot,     \* _p or _e: "none" before __init__, "unset", "set", "null"
          dropped,  \* the objects nothing refers to any more
          live,     \* the C objects allocated and not freed
          task,     \* what each thread is doing, and to which object
          raced     \* not in the code: the threads in a call on the Prior that
                    \* another thread's close has overlapped

bindingVars == <<slot, dropped, live, task, raced>>

Idle == [step |-> "idle", on |-> ThePrior]

BindingInit == /\ slot = [x \in PyObjects |-> "none"] /\ dropped = {} /\ live = {}
               /\ task = [t \in Threads |-> Idle]
               /\ raced = {}

(***************************************************************************)
(* The objects that the C call of a thread works on, if it is in one.      *)
(***************************************************************************)
Arguments(t) ==
    CASE task[t].step \in {"new", "make"} -> {ThePrior}
      [] task[t].step = "encode"          -> {ThePrior, t}
      [] task[t].step = "use"             -> {ThePrior, task[t].on}
      [] task[t].step = "discard"         -> {t}
      [] task[t].step = "free"            -> {task[t].on}
      [] OTHER                            -> {}

BeingUsed(x)  == \E t \in Threads : task[t].step # "idle" /\ task[t].on = x
Closing(t, x) == task[t].step \in {"free", "clear"} /\ task[t].on = x
BeingClosed   == \E t \in Threads : Closing(t, ThePrior)

\* a method that refers to the Prior is running; Encoder.encode does not
OnPrior(t) == \/ task[t].step \in {"new", "encode", "discard", "make"}
              \/ Closing(t, ThePrior)

Start(t, to, x)   == task' = [task EXCEPT ![t] = [step |-> to, on |-> x]]
Step(t, from, to) == /\ task[t].step = from
                     /\ Start(t, to, task[t].on)
                     /\ UNCHANGED raced
Finish(t, from)   == /\ task[t].step = from
                     /\ task' = [task EXCEPT ![t] = Idle]
                     /\ raced' = raced \ {t}

\* a call on the Prior begins; it may overlap a close that is running
Enter(t, to, x) == /\ task[t].step = "idle" /\ ThePrior \notin dropped
                   /\ slot[ThePrior] = "set"
                   /\ Start(t, to, x)
                   /\ raced' = IF BeingClosed THEN raced \cup {t} ELSE raced
-----------------------------------------------------------------------------
\* Prior.__init__: the C function opens the file or does not
PriorNew(t, opened) ==
    /\ task[t].step = "idle" /\ slot[ThePrior] \in {"none", "unset"}
    /\ ThePrior \notin dropped
    /\ slot' = [slot EXCEPT ![ThePrior] = IF opened THEN "set" ELSE "unset"]
    /\ live' = IF opened THEN live \cup {ThePrior} ELSE live
    /\ UNCHANGED <<dropped, task, raced>>

\* compress and decompress; a closed Prior raises ValueError
Compress(t) ==
    /\ Enter(t, "new", ThePrior)
    /\ UNCHANGED <<slot, dropped, live>>

Allocated(t) ==
    \/ /\ live' = live \cup {t}
       /\ Step(t, "new", "encode")
       /\ UNCHANGED <<slot, dropped>>
    \/ Finish(t, "new") /\ UNCHANGED <<slot, dropped, live>>

\* slip: an error of bcb_encode skips the finally clause
EncodedUnguarded(t) ==
    /\ Step(t, "encode", "discard") \/ Finish(t, "encode")
    /\ UNCHANGED <<slot, dropped, live>>

\* bcb_encode has returned, with an error or without
Encoded(t) ==
    /\ Step(t, "encode", "discard")
    /\ UNCHANGED <<slot, dropped, live>>

Discarded(t) ==
    /\ live' = live \ {t}
    /\ Finish(t, "discard")
    /\ UNCHANGED <<slot, dropped>>
-----------------------------------------------------------------------------
\* Encoder.__init__, also called by Prior.encoder
Make(t, x) ==
    /\ x \notin dropped /\ slot[x] = "none" /\ ~BeingUsed(x)
    /\ Enter(t, "make", x)
    /\ UNCHANGED <<slot, dropped, live>>

Made(t) ==
    /\ Finish(t, "make")
    /\ LET x == task[t].on
       IN  \/ live' = live \cup {x} /\ slot' = [slot EXCEPT ![x] = "set"]
           \/ live' = live /\ slot' = [slot EXCEPT ![x] = "unset"]
    /\ UNCHANGED dropped

\* Encoder.encode: it tests its own pointer, and does not know the Prior
Use(t, x) ==
    /\ task[t].step = "idle" /\ x \notin dropped /\ ~BeingUsed(x)
    /\ slot[x] = "set"
    /\ Start(t, "use", x)
    /\ UNCHANGED <<slot, dropped, live, raced>>

Used(t) == Finish(t, "use") /\ UNCHANGED <<slot, dropped, live>>

(***************************************************************************)
(* close, from a with block, a caller or __del__: it tests the pointer and *)
(* calls C.  A slot that was never set, or was cleared, frees nothing.     *)
(***************************************************************************)
Overlapped(t, x) ==
    IF x = ThePrior
    THEN {u \in Threads : OnPrior(u)} \cup (IF BeingClosed THEN {t} ELSE {})
    ELSE {}

Close(t, x) ==
    /\ task[t].step = "idle" /\ x \notin dropped
    /\ x \in Encoders => ~BeingUsed(x)
    /\ IF slot[x] = "set"
       THEN /\ Start(t, "free", x)
            /\ raced' = raced \cup Overlapped(t, x)
            /\ UNCHANGED slot
       ELSE /\ slot[x] = "unset"
            /\ slot' = [slot EXCEPT ![x] = "null"]
            /\ UNCHANGED <<task, raced>>
    /\ UNCHANGED live

CloseCalled(t, x) == Close(t, x) /\ UNCHANGED dropped

\* the last reference goes: __del__.  A method that runs has one.
Drop(t, x) ==
    /\ slot[x] \notin {"none", "null"}
    /\ x = ThePrior => \A u \in Threads : ~OnPrior(u)
    /\ Close(t, x)
    /\ dropped' = dropped \cup {x}

Freed(t) ==
    /\ live' = live \ {task[t].on}
    /\ Step(t, "free", "clear")
    /\ UNCHANGED <<slot, dropped>>

\* slip: the slot keeps the pointer
ClearedNot(t) == Finish(t, "clear") /\ UNCHANGED <<slot, dropped, live>>

Cleared(t) ==
    /\ slot' = [slot EXCEPT ![task[t].on] = "null"]
    /\ Finish(t, "clear")
    /\ UNCHANGED <<dropped, live>>

ThreadNext(t) ==
    \/ Compress(t) \/ Allocated(t) \/ Encoded(t) \/ Discarded(t)
    \/ Made(t) \/ Used(t) \/ Freed(t) \/ Cleared(t)
    \/ \E x \in Encoders : Make(t, x) \/ Use(t, x)
    \/ \E x \in PyObjects : CloseCalled(t, x) \/ Drop(t, x)

BindingNext == \E t \in Threads : \/ ThreadNext(t)
                                  \/ \E opened \in BOOLEAN : PriorNew(t, opened)

BindingSpec == BindingInit /\ [][BindingNext]_bindingVars
-----------------------------------------------------------------------------
BindingTypeOK ==
    /\ slot \in [PyObjects -> {"none", "unset", "set", "null"}]
    /\ dropped \subseteq PyObjects /\ live \subseteq CObjects /\ raced \subseteq Threads
    /\ task \in [Threads -> [step : {"idle", "new", "encode", "discard", "make",
                                     "use", "free", "clear"},
                             on : PyObjects]]


(***************************************************************************)
(* Two things can break ArgumentsLive, and nothing else, in whatever order *)
(* close and __del__ come, after errors, and from whichever threads: an    *)
(* Encoder is used when its Prior is gone, and a call on the Prior         *)
(* overlaps a close that another thread has called.                        *)
(***************************************************************************)
CallsLive ==
    \A t \in Threads : \A x \in Arguments(t) \ live :
        x = ThePrior /\ (task[t].step = "use" \/ t \in raced)

(***************************************************************************)
(* Each C object is held by a slot that will free it, or by a compress     *)
(* that is running: no path, an error included, leaves one behind.         *)
(***************************************************************************)
NothingLeaked ==
    /\ \A x \in PyObjects \cap live : slot[x] = "set" /\ (x \in dropped => BeingUsed(x))
    /\ \A t \in Threads \cap live : task[t].step \in {"encode", "discard"}
=============================================================================
