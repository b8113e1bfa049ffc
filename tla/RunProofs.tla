------------------------------ MODULE RunProofs ------------------------------
(***************************************************************************)
(* Proofs about Run for every set of backends, sizes and writer bound.     *)
(*                                                                         *)
(* None of the three properties is inductive alone.  RunInv ties the       *)
(* deferred calls still to run to the state of the database and of its     *)
(* directory: nothing is deferred before the store opens; an open store    *)
(* has Close then RemoveAll pending; a closed one has RemoveAll pending or *)
(* nothing, with the directory removed exactly when nothing is.  It adds   *)
(* that main only waits for or holds the adapter's lock on an open store,  *)
(* that leveldb's Close never runs under the writer's Set, and that a      *)
(* process that returned or panicked has run all of its defers.            *)
(***************************************************************************)
EXTENDS Run, SequenceTheorems, TLAPS

(* Run's TypeOK, split into its numeric and its other conjuncts: the SMT  *)
(* backend proves each part and fails on the whole.                       *)
NumOK ==
  /\ size \in Sizes /\ data \in Sizes /\ payload \in {0} \cup Sizes
  /\ sets \in 0 .. MaxSets
  /\ writer = "inSet" => sets < MaxSets

TagOK ==
  /\ backend \in Backends /\ memory \in BOOLEAN
  /\ mpc \in {"flags", "open", "load", "phases", "getset", "mixed", "del",
              "save", "defers", "lock", "close", "exited"}
  /\ panicking \in BOOLEAN
  /\ defers \in Seq({"close", "remove"})
  /\ db \in {"none", "open", "closed"}
  /\ dir \in {"none", "present", "removed"}
  /\ writer \in {"none", "loop", "inSet", "stopped"}
  /\ chClosed \in BOOLEAN
  /\ exitHow \in {"none", "ok", "panic", "fatal", "crash"}

(* How the deferred calls still to run follow the database's state.       *)
Shape ==
  /\ mpc \in {"flags", "open"} => db = "none"
  /\ db = "none" => defers = <<>> /\ dir = "none"
  /\ db # "none" => ~memory
  /\ db = "open" => defers = <<"close", "remove">> /\ dir = "present"
  /\ db = "closed" => \/ defers = <<"remove">> /\ dir = "present"
                      \/ defers = <<>> /\ dir = "removed"
  /\ mpc \in {"lock", "close"} => db = "open"
  /\ backend \in Locked /\ mpc = "close" => writer # "inSet"
  /\ mpc = "exited" /\ exitHow \in {"ok", "panic"} => defers = <<>>

RunInv == NumOK /\ TagOK /\ Shape

(* The two adapter sets are literals the provers may always see.         *)
USE DEF Locked, FileOnly

(* Open's two defers, as one literal.                                     *)
LEMMA DeferPair == <<"close">> \o <<"remove">> = <<"close", "remove">>
<1>. DEFINE S == {"close", "remove"}
            c == <<"close">> \o <<"remove">>
<1>1. <<"close">> \in Seq(S) /\ <<"remove">> \in Seq(S)
      /\ <<"close", "remove">> \in Seq(S)
  OBVIOUS
<1>2. c \in Seq(S) /\ Len(c) = 2 /\ c[1] = "close" /\ c[2] = "remove"
  BY <1>1, ConcatProperties
<1>3. Len(c) = Len(<<"close", "remove">>)
      /\ \A i \in 1 .. Len(c) : c[i] = <<"close", "remove">>[i]
  BY <1>2
<1>. QED
  BY <1>1, <1>2, <1>3, SeqEqual, Zenon

LEMMA TypeParts == NumOK /\ TagOK => TypeOK
<1> SUFFICES ASSUME NumOK, TagOK PROVE TypeOK
  OBVIOUS
<1>1. size \in Sizes /\ data \in Sizes /\ payload \in {0} \cup Sizes
      /\ sets \in 0 .. MaxSets
  BY DEF NumOK
<1>. QED
  BY <1>1 DEF TagOK, TypeOK

LEMMA InitRunInv == Init => RunInv
<1> SUFFICES ASSUME Init PROVE RunInv
  OBVIOUS
<1>1. NumOK
  BY RunAssumption DEF Init, NumOK
<1>2. TagOK
  <2>1. defers \in Seq({"close", "remove"})
    BY DEF Init
  <2>2. backend \in Backends /\ memory \in BOOLEAN /\ panicking \in BOOLEAN
        /\ chClosed \in BOOLEAN
    BY DEF Init
  <2>3. /\ mpc \in {"flags", "open", "load", "phases", "getset", "mixed", "del",
                   "save", "defers", "lock", "close", "exited"}
        /\ db \in {"none", "open", "closed"}
        /\ dir \in {"none", "present", "removed"}
        /\ writer \in {"none", "loop", "inSet", "stopped"}
        /\ exitHow \in {"none", "ok", "panic", "fatal", "crash"}
    BY DEF Init
  <2>. QED
    BY <2>1, <2>2, <2>3 DEF TagOK
<1>3. Shape
  BY DEF Init, Shape
<1>. QED
  BY <1>1, <1>2, <1>3 DEF RunInv

(* Main's steps and the writer's: the numeric conjuncts.                  *)
LEMMA NextNumOK == RunInv /\ [Next]_vars => NumOK'
<1> SUFFICES ASSUME RunInv, [Next]_vars PROVE NumOK'
  OBVIOUS
<1>. USE RunAssumption
<1>1. CASE WriterBegin
  BY <1>1 DEF WriterBegin, RunInv, NumOK
<1>2. CASE WriterEnd
  BY <1>2 DEF WriterEnd, RunInv, NumOK, TagOK
<1>3. CASE ParseFlags
  BY <1>3 DEF ParseFlags, RunInv, NumOK
<1>4. CASE BulkLoad \/ Phases
  BY <1>4 DEF BulkLoad, Phases, RunInv, NumOK
<1>5. CASE \/ Open \/ StartGetSet \/ EndGetSet \/ Delete \/ Save
           \/ DeferClose \/ LockAcquired \/ CloseDb \/ DeferRemove \/ Exit
           \/ WriterStop \/ Exited \/ UNCHANGED vars
  BY <1>5 DEF Open, StartGetSet, EndGetSet, Delete, Save, DeferClose,
              LockAcquired, CloseDb, DeferRemove, Exit, WriterStop, Exited,
              vars, RunInv, NumOK
<1>. QED
  BY <1>1, <1>2, <1>3, <1>4, <1>5 DEF Next

LEMMA NextTagOK == RunInv /\ [Next]_vars => TagOK'
<1> SUFFICES ASSUME RunInv, [Next]_vars PROVE TagOK'
  OBVIOUS
<1>1. CASE Open
  BY <1>1 DEF Open, DieUnregistered, RunInv, TagOK
<1>2. CASE BulkLoad \/ Phases \/ EndGetSet \/ Delete
  BY <1>2 DEF BulkLoad, Phases, EndGetSet, Delete, ReturnsOr, Panic, RunInv,
              TagOK
<1>3. CASE CloseDb \/ DeferRemove
  <2>1. defers \in Seq({"close", "remove"}) /\ defers # <<>>
    <3>1. defers \in Seq({"close", "remove"})
      BY DEF RunInv, TagOK
    <3>2. CASE CloseDb
      <4>1. db = "open"
        BY <3>2 DEF CloseDb, RunInv, Shape
      <4>2. defers = <<"close", "remove">>
        BY <4>1 DEF RunInv, Shape
      <4>. QED
        BY <3>1, <4>2
    <3>3. CASE DeferRemove
      BY <3>1, <3>3 DEF DeferRemove
    <3>. QED
      BY <1>3, <3>1, <3>2, <3>3
  <2>2. Tail(defers) \in Seq({"close", "remove"})
    BY <2>1
  <2>. QED
    BY <1>3, <2>2 DEF CloseDb, DeferRemove, RunInv, TagOK
<1>4. CASE \/ ParseFlags \/ StartGetSet \/ Save \/ DeferClose \/ LockAcquired
           \/ Exit \/ WriterStop \/ WriterBegin \/ WriterEnd \/ Exited
           \/ UNCHANGED vars
  BY <1>4 DEF ParseFlags, StartGetSet, Save, DeferClose, LockAcquired, Exit,
              WriterStop, WriterBegin, WriterEnd, Exited, vars, RunInv, TagOK
<1>. QED
  BY <1>1, <1>2, <1>3, <1>4 DEF Next

LEMMA NextShape == RunInv /\ [Next]_vars => Shape'
<1> SUFFICES ASSUME RunInv, [Next]_vars PROVE Shape'
  OBVIOUS
<1>1. CASE Open
  <2>1. mpc = "open" /\ db = "none" /\ defers = <<>>
    BY <1>1 DEF Open, RunInv, Shape
  <2>2. CASE DieUnregistered
    BY <1>1, <2>1, <2>2 DEF Open, DieUnregistered, RunInv, Shape
  <2>3. CASE /\ backend \in FileOnly /\ ~memory
             /\ db' = "open" /\ dir' = "present"
             /\ defers' = <<"close">> \o (IF memory THEN <<>> ELSE <<"remove">>)
             /\ mpc' = "load" /\ UNCHANGED exitHow
    <3>1. defers' = <<"close", "remove">>
      <4>1. memory = FALSE
        BY <2>3 DEF RunInv, TagOK
      <4>2. (IF memory THEN <<>> ELSE <<"remove">>) = <<"remove">>
        BY <4>1
      <4>3. <<"close">> \o <<"remove">> = <<"close", "remove">>
        BY DeferPair
      <4>. QED
        BY <2>3, <4>2, <4>3
    <3>2. memory' = FALSE /\ mpc' = "load" /\ db' = "open" /\ dir' = "present"
      BY <1>1, <2>3, <3>1 DEF Open
    <3>. QED
      BY <3>1, <3>2 DEF Shape
  <2>. QED
    BY <1>1, <2>2, <2>3 DEF Open
<1>2. CASE BulkLoad \/ Phases \/ EndGetSet \/ Delete
  BY <1>2 DEF BulkLoad, Phases, EndGetSet, Delete, ReturnsOr, Panic, RunInv,
              Shape
<1>3. CASE ParseFlags \/ StartGetSet \/ Save
  BY <1>3 DEF ParseFlags, StartGetSet, Save, RunInv, Shape
<1>4. CASE DeferClose
  <2>1. db = "open"
    BY <1>4 DEF DeferClose, RunInv, Shape, TagOK
  <2>. QED
    BY <1>4, <2>1 DEF DeferClose, RunInv, Shape
<1>5. CASE LockAcquired
  BY <1>5 DEF LockAcquired, RunInv, Shape
<1>6. CASE CloseDb
  <2>1. db = "open" /\ defers = <<"close", "remove">>
    BY <1>6 DEF CloseDb, RunInv, Shape
  <2>2. defers' = <<"remove">>
    BY <1>6, <2>1 DEF CloseDb
  <2>. QED
    BY <1>6, <2>1, <2>2 DEF CloseDb, RunInv, Shape
<1>7. CASE DeferRemove
  <2>1. db = "closed" /\ defers = <<"remove">>
    BY <1>7 DEF DeferRemove, RunInv, Shape, TagOK
  <2>2. defers' = <<>>
    BY <1>7, <2>1 DEF DeferRemove
  <2>. QED
    BY <1>7, <2>1, <2>2 DEF DeferRemove, RunInv, Shape
<1>8. CASE Exit
  BY <1>8 DEF Exit, RunInv, Shape
<1>9. CASE WriterStop \/ WriterBegin \/ WriterEnd
  BY <1>9 DEF WriterStop, WriterBegin, WriterEnd, RunInv, Shape
<1>10. CASE Exited \/ UNCHANGED vars
  BY <1>10 DEF Exited, vars, RunInv, Shape
<1>. QED
  BY <1>1, <1>2, <1>3, <1>4, <1>5, <1>6, <1>7, <1>8, <1>9, <1>10 DEF Next

LEMMA NextRunInv == RunInv /\ [Next]_vars => RunInv'
BY NextNumOK, NextTagOK, NextShape DEF RunInv

THEOREM RunInvariant == Spec => []RunInv
BY InitRunInv, NextRunInv, PTL DEF Spec

(* Every variable keeps its type, for every backend, size and bound.      *)
THEOREM RunTypeCorrect == Spec => []TypeOK
<1>1. RunInv => TypeOK
  BY TypeParts DEF RunInv
<1>. QED
  BY <1>1, RunInvariant, PTL

(* With leveldb's RWMutex, the deferred store.Close never closes the      *)
(* database while the unjoined testGetSet writer is inside store.Set.     *)
THEOREM LockedCloseIsExclusive == Spec => []LockedCloseExclusive
<1>1. RunInv => LockedCloseExclusive
  BY DEF RunInv, Shape, LockedCloseExclusive, NoCallDuringClose
<1>. QED
  BY <1>1, RunInvariant, PTL

(* os.RemoveAll never deletes the directory of an open database.          *)
THEOREM RemoveAfterClose == Spec => []RemovedOnlyWhenClosed
<1>1. RunInv => RemovedOnlyWhenClosed
  BY DEF RunInv, TagOK, Shape, RemovedOnlyWhenClosed
<1>. QED
  BY <1>1, RunInvariant, PTL

(* A process that returns from main or panics in main's goroutine has     *)
(* closed its store and removed its directory.                            *)
THEOREM DefersRunAtExit == Spec => []CleanExit
<1>1. RunInv => CleanExit
  BY DEF RunInv, TagOK, Shape, CleanExit
<1>. QED
  BY <1>1, RunInvariant, PTL
=============================================================================
