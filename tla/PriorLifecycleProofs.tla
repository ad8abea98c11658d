------------------------ MODULE PriorLifecycleProofs ------------------------
(***************************************************************************)
(* What keeps the lookup tables safe when a process uses a single prior:   *)
(* the invariant relates what the main thread is doing to the tables, the  *)
(* open priors and the workers.                                            *)
(***************************************************************************)
EXTENDS PriorLifecycle, TLAPS

Single == \A p, q \in Priors : p = q

MainOp    == task[Main].op
MainPrior == task[Main].prior

Building == {"ensure", "testConf", "mallocConf", "testExp2", "mallocExp2",
             "fillConf", "fillExp2", "built"}
Closing  == {"freeConf", "clearConf", "freeExp2", "clearExp2", "unmap"}

\* which call the main thread can be in, and what that call relies on
MainCall ==
    /\ pc[Main] = "out" => MainOp = "none"
    /\ pc[Main] \in {"readConf", "readExp2"} => MainOp = "code"
    /\ pc[Main] \in Building => MainOp \in {"open", "attach", "init"}
    /\ pc[Main] \in Closing => MainOp \in {"close", "free"}
    /\ MainOp = "attach" => MainPrior \in open
    /\ MainOp = "open" => MainPrior \in Priors /\ open = {}
    /\ MainOp = "close" => MainPrior \in Priors
    /\ MainOp = "free" => open = {}
    /\ MainOp = "code" => global # NoPrior
    /\ MainOp \in {"close", "free"} => global = NoPrior

\* a worker never gets as far as building a table
WorkerCall ==
    \A w \in Workers :
        /\ pc[w] \in {"out", "ensure", "built", "readConf", "readExp2"}
        /\ pc[w] # "out" => task[w].prior \in Priors
        /\ pc[w] \in {"ensure", "built"} => task[w].op = "new"

\* nothing but the main thread runs while a prior is being opened or closed
Alone == (open = {} \/ MainOp \in {"open", "close"}) => WorkersIdle

\* whoever may read the tables finds them
InUse == global # NoPrior \/ (open # {} /\ MainOp # "close")
Ready == InUse => Usable(conf) /\ Usable(exp2)

\* how far building and freeing have got
Stage ==
    /\ pc[Main] \notin Building \cup Closing \/ pc[Main] \in {"ensure", "testConf"}
         => (conf # Null => Usable(conf)) /\ (exp2 # Null => Usable(exp2))
    /\ pc[Main] = "mallocConf" => conf = Null /\ (exp2 # Null => Usable(exp2))
    /\ pc[Main] = "testExp2" => conf # Null
    /\ pc[Main] = "mallocExp2" => conf # Null /\ exp2 = Null
    /\ pc[Main] \in {"fillConf", "fillExp2"} => conf # Null /\ exp2 # Null
    /\ pc[Main] = "fillExp2" => Usable(conf)
    /\ pc[Main] = "built" => Usable(conf) /\ Usable(exp2)
    /\ pc[Main] \in {"freeExp2", "clearExp2", "unmap"} => conf = Null
    /\ pc[Main] = "unmap" => exp2 = Null

\* every table is allocated until the step that frees it
Held ==
    /\ conf # Null => (heap[conf] = "free" <=> pc[Main] = "clearConf")
    /\ exp2 # Null => (heap[exp2] = "free" <=> pc[Main] = "clearExp2")

\* while nothing is open, attached or in the making, there are no tables
Returned ==
    open = {} /\ global = NoPrior /\ pc[Main] \notin Building \cup Closing =>
        conf = Null /\ exp2 = Null

Inv == /\ TypeOK /\ MainCall /\ WorkerCall /\ Alone /\ Ready /\ Stage
       /\ Held /\ Returned /\ NoTableLost /\ GlobalNotDangling
-----------------------------------------------------------------------------
(***************************************************************************)
(* Every conjunct of Inv is about where the main thread is, so each step   *)
(* of a thread is checked against all of them at once.                     *)
(***************************************************************************)
USE NamesAssumption
USE DEF Single, Inv, TypeOK, MainCall, WorkerCall, Alone, InUse, Ready, Stage,
        Held, Returned, NoTableLost, GlobalNotDangling, MainOp, MainPrior, Building,
        Closing, Usable, WorkersIdle, Threads, Places, Goto, Enter, Call, NoCall

(***************************************************************************)
(* Nothing is open, allocated or running at first.                         *)
(***************************************************************************)
LEMMA InitInv == Init => Inv
  BY DEF Init

(***************************************************************************)
(* The main thread builds the tables, if they are not there.               *)
(***************************************************************************)
LEMMA BuildInv ==
    ASSUME Single, Inv, BuildLuts(Main) \/ Built(Main)
    PROVE  Inv'
<1>1. CASE EnsureLuts(Main)
  BY <1>1 DEF EnsureLuts
<1>2. CASE TestConf(Main)
  BY <1>2 DEF TestConf
<1>3. CASE MallocConf(Main)
  BY <1>3, SMTT(60) DEF MallocConf
<1>4. CASE TestExp2(Main)
  BY <1>4 DEF TestExp2
<1>5. CASE MallocExp2(Main)
  BY <1>5, SMTT(60) DEF MallocExp2
<1>6. CASE FillConf(Main)
  BY <1>6, SMTT(60) DEF FillConf, Filled
<1>7. CASE FillExp2(Main)
  BY <1>7, SMTT(60) DEF FillExp2, Filled
<1>8. CASE Built(Main)
  BY <1>8, SMTT(60) DEF Built
<1> QED
  BY <1>1, <1>2, <1>3, <1>4, <1>5, <1>6, <1>7, <1>8 DEF BuildLuts

(***************************************************************************)
(* The main thread frees the tables and unmaps the prior; no worker runs.  *)
(***************************************************************************)
LEMMA CloseInv ==
    ASSUME Single, Inv, CloseSteps(Main)
    PROVE  Inv'
<1>1. CASE FreeConf(Main)
  BY <1>1, SMTT(60) DEF FreeConf, Freed
<1>2. CASE ClearConf(Main)
  BY <1>2 DEF ClearConf
<1>3. CASE FreeExp2(Main)
  BY <1>3, SMTT(60) DEF FreeExp2, Freed
<1>4. CASE ClearExp2(Main)
  BY <1>4 DEF ClearExp2
<1>5. CASE Unmap(Main)
  BY <1>5, SMTT(60) DEF Unmap
<1> QED
  BY <1>1, <1>2, <1>3, <1>4, <1>5 DEF CloseSteps

(***************************************************************************)
(* The main thread enters a call, or codes a byte with the global model.   *)
(***************************************************************************)
LEMMA EnterInv ==
    ASSUME Single, Inv,
           \/ \E p \in Priors : PriorOpen(p) \/ Attach(p) \/ PriorClose(p)
           \/ ModelInit \/ ModelFree
           \/ CodeByte(Main) \/ ReadConf(Main) \/ ReadExp2(Main)
    PROVE  Inv'
<1>1. ASSUME NEW p \in Priors, PriorOpen(p)
      PROVE  Inv'
  BY <1>1, SMTT(60) DEF PriorOpen
<1>2. ASSUME NEW p \in Priors, Attach(p)
      PROVE  Inv'
  BY <1>2, SMTT(60) DEF Attach
<1>3. ASSUME NEW p \in Priors, PriorClose(p)
      PROVE  Inv'
  BY <1>3, SMTT(60) DEF PriorClose, Unused
<1>4. CASE ModelInit
  BY <1>4, SMTT(60) DEF ModelInit
<1>5. CASE ModelFree
  BY <1>5, SMTT(60) DEF ModelFree
<1>6. CASE CodeByte(Main)
  BY <1>6, SMTT(60) DEF CodeByte, Coding
<1>7. CASE ReadConf(Main) \/ ReadExp2(Main)
  BY <1>7, SMTT(60) DEF ReadConf, ReadExp2
<1> QED
  BY <1>1, <1>2, <1>3, <1>4, <1>5, <1>6, <1>7

(***************************************************************************)
(* A worker finds the tables built and leaves them alone.                  *)
(***************************************************************************)
LEMMA WorkerInv ==
    ASSUME Single, Inv, NEW w \in Workers,
           \/ \E p \in Priors : HandleNew(w, p)
           \/ HandleFree(w) \/ BuildLuts(w) \/ Built(w) \/ CodeByte(w)
           \/ ReadConf(w) \/ ReadExp2(w) \/ CloseSteps(w)
    PROVE  Inv'
<1>1. ASSUME NEW p \in Priors, HandleNew(w, p)
      PROVE  Inv'
  BY <1>1, SMTT(60) DEF HandleNew
<1>2. CASE HandleFree(w)
  BY <1>2, SMTT(60) DEF HandleFree
<1>3. CASE BuildLuts(w)
  <2>1. EnsureLuts(w)
    BY <1>3 DEF BuildLuts, TestConf, MallocConf, TestExp2, MallocExp2,
                FillConf, FillExp2
  <2> QED
    BY <2>1, SMTT(60) DEF EnsureLuts
<1>4. CASE Built(w)
  BY <1>4, SMTT(60) DEF Built
<1>5. CASE CodeByte(w)
  BY <1>5, SMTT(60) DEF CodeByte, Coding
<1>6. CASE ReadConf(w) \/ ReadExp2(w)
  BY <1>6, SMTT(60) DEF ReadConf, ReadExp2
<1>7. ~CloseSteps(w)
  BY DEF CloseSteps, FreeConf, ClearConf, FreeExp2, ClearExp2, Unmap
<1> QED
  BY <1>1, <1>2, <1>3, <1>4, <1>5, <1>6, <1>7

(***************************************************************************)
(* Inv is an invariant of a process that uses a single prior.              *)
(***************************************************************************)
LEMMA Invariant ==
    ASSUME Single
    PROVE  Spec => []Inv
<1>1. Init => Inv
  BY InitInv
<1>2. ASSUME Inv, [Next]_vars
      PROVE  Inv'
  <2>1. CASE Next
    <3> HIDE DEF Inv, Single
    <3>1. \A t \in Threads : t = Main \/ t \in Workers
      OBVIOUS
    <3> QED
      BY <2>1, <3>1, <1>2, Single, BuildInv, CloseInv, EnterInv, WorkerInv
      DEF Next
  <2>2. CASE UNCHANGED vars
    BY <2>2, <1>2, SMTT(60) DEF vars
  <2> QED
    BY <2>1, <2>2, <1>2
<1> HIDE DEF Inv
<1> QED
  BY <1>1, <1>2, PTL DEF Spec

(***************************************************************************)
(* With a single prior, a thread that reads a lookup table in              *)
(* bt_v3_distribution_r finds it allocated and filled, however many        *)
(* workers make, use and free handles meanwhile.                           *)
(***************************************************************************)
THEOREM TablesReadySafe ==
    ASSUME Single
    PROVE  Spec => []TablesReady
<1>1. Inv => TablesReady
  <2> SUFFICES ASSUME Inv, NEW t \in Threads, pc[t] \in {"readConf", "readExp2"}
               PROVE  Usable(conf) /\ Usable(exp2)
    BY DEF TablesReady
  <2>1. CASE t = Main
    BY <2>1
  <2>2. CASE t \in Workers
    BY <2>2
  <2> QED
    BY <2>1, <2>2
<1> HIDE DEF Inv
<1> QED
  BY <1>1, Invariant, PTL

(***************************************************************************)
(* With a single prior, no table is lost and no block is both tables.      *)
(***************************************************************************)
THEOREM NoTableLostSafe ==
    ASSUME Single
    PROVE  Spec => []NoTableLost
<1>1. Inv => NoTableLost
  OBVIOUS
<1> HIDE DEF Inv, NoTableLost
<1> QED
  BY <1>1, Invariant, PTL

(***************************************************************************)
(* With a single prior, however often it was opened, attached, replaced by *)
(* a model trained in the process and closed, the last close leaves no     *)
(* block allocated and neither pointer set.                                *)
(***************************************************************************)
THEOREM AllReturnedSafe ==
    ASSUME Single
    PROVE  Spec => []AllReturned
<1>1. Inv => AllReturned
  BY DEF AllReturned
<1> HIDE DEF Inv, AllReturned
<1> QED
  BY <1>1, Invariant, PTL

(***************************************************************************)
(* With a single prior, the global model of bcb_prior_attach never reads   *)
(* an unmapped prior: closing one shuts the global model down.             *)
(***************************************************************************)
THEOREM GlobalNotDanglingSafe ==
    ASSUME Single
    PROVE  Spec => []GlobalNotDangling
<1>1. Inv => GlobalNotDangling
  OBVIOUS
<1> HIDE DEF Inv, GlobalNotDangling
<1> QED
  BY <1>1, Invariant, PTL
=============================================================================
