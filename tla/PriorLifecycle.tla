--------------------------- MODULE PriorLifecycle ---------------------------
(***************************************************************************)
(* Priors, handles and the process-wide state behind them: the two lookup  *)
(* tables CONF_LOG2 and EXP2_FRAC of btv3.c, which every prior and every   *)
(* handle share, and the global model that bcb_prior_attach redirects.     *)
(*                                                                         *)
(* The application keeps to the rules of bcb.h and docs/api.md: the main   *)
(* thread opens every prior before the workers start, a worker uses only   *)
(* handles of its own, and a prior is closed when no handle of its is      *)
(* left.  A one-shot call is a worker that makes a handle, uses it and     *)
(* frees it.                                                               *)
(***************************************************************************)
EXTENDS Integers, FiniteSets

CONSTANTS Priors, Workers, Main, \* prior files; worker threads; main thread
          Buffers,               \* heap blocks malloc can return for a table
          NoPrior, OwnModel,     \* what else the globals may point at
          Null                   \* NULL

ASSUME NamesAssumption == /\ Main \notin Workers
                          /\ Null \notin Buffers
                          /\ NoPrior \notin Priors /\ OwnModel \notin Priors
                          /\ NoPrior # OwnModel

Threads == Workers \cup {Main}

VARIABLES conf, exp2,   \* the pointers CONF_LOG2 and EXP2_FRAC
          heap,         \* block -> "free", "raw" (malloced), "filled"
          open,         \* the priors that are open
          handle,       \* worker -> the prior its handle is for
          global,       \* what the globals of btv3.c point at
          pc,           \* thread -> where in the library it is
          task          \* thread -> the call it is in, with its prior

vars == <<conf, exp2, heap, open, handle, global, pc, task>>

Call(op, p) == [op |-> op, prior |-> p]
NoCall == Call("none", NoPrior)

Init == /\ conf = Null /\ exp2 = Null
        /\ heap = [b \in Buffers |-> "free"]
        /\ open = {}
        /\ handle = [w \in Workers |-> NoPrior]
        /\ global = NoPrior
        /\ pc = [t \in Threads |-> "out"]
        /\ task = [t \in Threads |-> NoCall]

Goto(t, where) == pc' = [pc EXCEPT ![t] = where]

Enter(t, op, p, where) ==
    /\ pc[t] = "out"
    /\ task' = [task EXCEPT ![t] = Call(op, p)]
    /\ Goto(t, where)
-----------------------------------------------------------------------------
(***************************************************************************)
(* build_luts, and the test bt_v3_ensure_luts makes before it.  Testing a  *)
(* pointer, assigning it and filling the table are separate steps: nothing *)
(* makes them atomic.                                                      *)
(***************************************************************************)
EnsureLuts(t) ==
    /\ pc[t] = "ensure"
    /\ Goto(t, IF conf = Null \/ exp2 = Null THEN "testConf" ELSE "built")
    /\ UNCHANGED <<conf, exp2, heap, open, handle, global, task>>

TestConf(t) ==
    /\ pc[t] = "testConf"
    /\ Goto(t, IF conf = Null THEN "mallocConf" ELSE "testExp2")
    /\ UNCHANGED <<conf, exp2, heap, open, handle, global, task>>

MallocConf(t) ==
    /\ pc[t] = "mallocConf"
    /\ \E b \in Buffers : /\ heap[b] = "free"
                          /\ heap' = [heap EXCEPT ![b] = "raw"]
                          /\ conf' = b
    /\ Goto(t, "testExp2")
    /\ UNCHANGED <<exp2, open, handle, global, task>>

TestExp2(t) ==
    /\ pc[t] = "testExp2"
    /\ Goto(t, IF exp2 = Null THEN "mallocExp2" ELSE "fillConf")
    /\ UNCHANGED <<conf, exp2, heap, open, handle, global, task>>

MallocExp2(t) ==
    /\ pc[t] = "mallocExp2"
    /\ \E b \in Buffers : /\ heap[b] = "free"
                          /\ heap' = [heap EXCEPT ![b] = "raw"]
                          /\ exp2' = b
    /\ Goto(t, "fillConf")
    /\ UNCHANGED <<conf, open, handle, global, task>>

Filled(table) == [b \in Buffers |-> IF b = table THEN "filled" ELSE heap[b]]

FillConf(t) ==
    /\ pc[t] = "fillConf"
    /\ heap' = Filled(conf)
    /\ Goto(t, "fillExp2")
    /\ UNCHANGED <<conf, exp2, open, handle, global, task>>

FillExp2(t) ==
    /\ pc[t] = "fillExp2"
    /\ heap' = Filled(exp2)
    /\ Goto(t, "built")
    /\ UNCHANGED <<conf, exp2, open, handle, global, task>>

BuildLuts(t) == \/ EnsureLuts(t) \/ TestConf(t) \/ MallocConf(t)
                \/ TestExp2(t) \/ MallocExp2(t) \/ FillConf(t) \/ FillExp2(t)
-----------------------------------------------------------------------------
(***************************************************************************)
(* Calls that end once the tables are there: bcb_prior_open (prior_parse   *)
(* has accepted the file), bcb_encoder_new and bcb_decoder_new,            *)
(* bcb_prior_attach, bt_v3_init.  The last two rebuild without a test.     *)
(***************************************************************************)
WorkersIdle == \A w \in Workers : pc[w] = "out" /\ handle[w] = NoPrior

\* slip: opening a prior leaves the tables to the first handle
PriorOpenLazily(p) ==
    /\ p \notin open
    /\ WorkersIdle
    /\ Enter(Main, "open", p, "built")
    /\ UNCHANGED <<conf, exp2, heap, open, handle, global>>

PriorOpen(p) ==
    /\ p \notin open
    /\ WorkersIdle
    /\ Enter(Main, "open", p, "ensure")
    /\ UNCHANGED <<conf, exp2, heap, open, handle, global>>

HandleNew(w, p) ==
    /\ p \in open
    /\ task[Main].op # "open" /\ task[Main] # Call("close", p)
    /\ handle[w] = NoPrior
    /\ Enter(w, "new", p, "ensure")
    /\ UNCHANGED <<conf, exp2, heap, open, handle, global>>

Attach(p) ==
    /\ p \in open
    /\ Enter(Main, "attach", p, "testConf")
    /\ UNCHANGED <<conf, exp2, heap, open, handle, global>>

ModelInit ==
    /\ Enter(Main, "init", NoPrior, "testConf")
    /\ UNCHANGED <<conf, exp2, heap, open, handle, global>>

Built(t) ==
    /\ pc[t] = "built"
    /\ Goto(t, "out")
    /\ task' = [task EXCEPT ![t] = NoCall]
    /\ open' = IF task[t].op = "open" THEN open \cup {task[t].prior} ELSE open
    /\ handle' = IF task[t].op = "new"
                 THEN [handle EXCEPT ![t] = task[t].prior] ELSE handle
    /\ global' = CASE task[t].op = "attach" -> task[t].prior
                   [] task[t].op = "init"   -> OwnModel
                   [] OTHER                 -> global
    /\ UNCHANGED <<conf, exp2, heap>>
-----------------------------------------------------------------------------
(***************************************************************************)
(* bt_v3_distribution_r for one byte: it reads CONF_LOG2, then EXP2_FRAC.  *)
(* Workers call it through their handle, the main thread through the       *)
(* global model.                                                           *)
(***************************************************************************)
Coding(t) == IF t = Main THEN global # NoPrior ELSE handle[t] # NoPrior

CodeByte(t) ==
    /\ Coding(t)
    /\ Enter(t, "code", IF t = Main THEN global ELSE handle[t], "readConf")
    /\ UNCHANGED <<conf, exp2, heap, open, handle, global>>

ReadConf(t) ==
    /\ pc[t] = "readConf"
    /\ Goto(t, "readExp2")
    /\ UNCHANGED <<conf, exp2, heap, open, handle, global, task>>

ReadExp2(t) ==
    /\ pc[t] = "readExp2"
    /\ Goto(t, "out")
    /\ task' = [task EXCEPT ![t] = NoCall]
    /\ UNCHANGED <<conf, exp2, heap, open, handle, global>>

HandleFree(w) ==
    /\ pc[w] = "out"
    /\ handle[w] # NoPrior
    /\ handle' = [handle EXCEPT ![w] = NoPrior]
    /\ UNCHANGED <<conf, exp2, heap, open, global, pc, task>>
-----------------------------------------------------------------------------
(***************************************************************************)
(* bcb_prior_close: bt_v3_detach drops the globals, frees and clears the   *)
(* two tables one after the other, and then the file is unmapped.          *)
(* bt_v3_free does the same to a model trained in this process.            *)
(***************************************************************************)
Unused(p) == \A w \in Workers : handle[w] # p /\ task[w].prior # p

\* slip: closing leaves the globals attached
PriorCloseAttached(p) ==
    /\ p \in open
    /\ Unused(p)
    /\ Enter(Main, "close", p, "freeConf")
    /\ UNCHANGED <<conf, exp2, heap, open, handle, global>>

\* slip: only the prior the globals point at is detached
PriorCloseOwn(p) ==
    /\ p \in open
    /\ Unused(p)
    /\ Enter(Main, "close", p, IF global = p THEN "freeConf" ELSE "unmap")
    /\ global' = IF global = p THEN NoPrior ELSE global
    /\ UNCHANGED <<conf, exp2, heap, open, handle>>

PriorClose(p) ==
    /\ p \in open
    /\ Unused(p)
    /\ Enter(Main, "close", p, "freeConf")
    /\ global' = NoPrior
    /\ UNCHANGED <<conf, exp2, heap, open, handle>>

\* bt_v3_free; the tools call it before they open the prior they have saved
ModelFree ==
    /\ global # NoPrior /\ open = {}
    /\ Enter(Main, "free", NoPrior, "freeConf")
    /\ global' = NoPrior
    /\ UNCHANGED <<conf, exp2, heap, open, handle>>

Freed(table) == [b \in Buffers |-> IF b = table THEN "free" ELSE heap[b]]

FreeConf(t) ==
    /\ pc[t] = "freeConf"
    /\ heap' = Freed(conf)
    /\ Goto(t, "clearConf")
    /\ UNCHANGED <<conf, exp2, open, handle, global, task>>

ClearConf(t) ==
    /\ pc[t] = "clearConf"
    /\ conf' = Null
    /\ Goto(t, "freeExp2")
    /\ UNCHANGED <<exp2, heap, open, handle, global, task>>

\* slip: the second table is only forgotten
FreeExp2Forgotten(t) ==
    /\ pc[t] = "freeExp2"
    /\ Goto(t, "clearExp2")
    /\ UNCHANGED <<conf, exp2, heap, open, handle, global, task>>

FreeExp2(t) ==
    /\ pc[t] = "freeExp2"
    /\ heap' = Freed(exp2)
    /\ Goto(t, "clearExp2")
    /\ UNCHANGED <<conf, exp2, open, handle, global, task>>

ClearExp2(t) ==
    /\ pc[t] = "clearExp2"
    /\ exp2' = Null
    /\ Goto(t, "unmap")
    /\ UNCHANGED <<conf, heap, open, handle, global, task>>

Unmap(t) ==
    /\ pc[t] = "unmap"
    /\ open' = open \ {task[t].prior}
    /\ task' = [task EXCEPT ![t] = NoCall]
    /\ Goto(t, "out")
    /\ UNCHANGED <<conf, exp2, heap, handle, global>>

CloseSteps(t) == \/ FreeConf(t) \/ ClearConf(t) \/ FreeExp2(t)
                 \/ ClearExp2(t) \/ Unmap(t)
-----------------------------------------------------------------------------
Next == \/ \E p \in Priors : PriorOpen(p) \/ Attach(p) \/ PriorClose(p)
        \/ ModelInit \/ ModelFree
        \/ \E w \in Workers, p \in Priors : HandleNew(w, p)
        \/ \E w \in Workers : HandleFree(w)
        \/ \E t \in Threads : \/ BuildLuts(t) \/ Built(t) \/ CodeByte(t)
                              \/ ReadConf(t) \/ ReadExp2(t) \/ CloseSteps(t)

Spec == Init /\ [][Next]_vars
-----------------------------------------------------------------------------
Places == {"out", "ensure", "testConf", "mallocConf", "testExp2", "mallocExp2",
           "fillConf", "fillExp2", "built", "readConf", "readExp2",
           "freeConf", "clearConf", "freeExp2", "clearExp2", "unmap"}

TypeOK ==
    /\ conf \in Buffers \cup {Null} /\ exp2 \in Buffers \cup {Null}
    /\ heap \in [Buffers -> {"free", "raw", "filled"}]
    /\ open \subseteq Priors
    /\ handle \in [Workers -> Priors \cup {NoPrior}]
    /\ global \in Priors \cup {NoPrior, OwnModel}
    /\ pc \in [Threads -> Places]
    /\ task \in [Threads ->
                   [op : {"none", "open", "new", "attach", "init", "code", "close",
                          "free"},
                    prior : Priors \cup {NoPrior, OwnModel}]]

(***************************************************************************)
(* "The prior and the lookup tables are shared read-only, so different     *)
(* handles may be used by several threads at once" (bcb.h, docs/api.md): a *)
(* thread that reads a table finds it allocated and filled.                *)
(***************************************************************************)
Usable(table) == table \in Buffers /\ heap[table] = "filled"

TablesReady ==
    \A t \in Threads : /\ pc[t] = "readConf" => Usable(conf)
                       /\ pc[t] = "readExp2" => Usable(exp2)

(***************************************************************************)
(* No block is lost or used twice: each one malloced is one of the two     *)
(* tables.                                                                 *)
(***************************************************************************)
NoTableLost ==
    /\ conf # Null => conf # exp2
    /\ \A b \in Buffers : heap[b] # "free" => b \in {conf, exp2}

(***************************************************************************)
(* The last bcb_prior_close, or bt_v3_free, gives everything back: when no *)
(* prior is open and no model is there, whichever of them built the tables *)
(* and was closed last, no block is allocated and no pointer is left set.  *)
(***************************************************************************)
AllReturned ==
    open = {} /\ global = NoPrior /\ pc[Main] = "out" =>
        /\ conf = Null /\ exp2 = Null
        /\ \A b \in Buffers : heap[b] = "free"

(***************************************************************************)
(* The globals never point into a file that is being, or has been,         *)
(* unmapped: bcb_prior_close drops them whichever prior they point at.     *)
(***************************************************************************)
GlobalNotDangling ==
    global \in Priors => global \in open /\ task[Main].op # "close"
=============================================================================
