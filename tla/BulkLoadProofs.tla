--------------------------- MODULE BulkLoadProofs ---------------------------
(***************************************************************************)
(* Proofs about BulkLoad for every page size and every non-negative count. *)
(*                                                                         *)
(* LoadCoversCount speaks of total when the load returns; it is not        *)
(* inductive, because nothing in it says that total counts whole pages or  *)
(* that the loop stops at pageCount.  LoadInv says both, and that          *)
(* pageCount is Pages(count) once it is computed; the bound on             *)
(* Pages(count) * batchSize is then a fact about division (PagesBound).    *)
(***************************************************************************)
EXTENDS BulkLoad, TLAPS

(* Division of a natural number by the page size.                         *)
LEMMA DivSplit ==
  ASSUME NEW n \in Nat
  PROVE  /\ n % BatchSize = n - BatchSize * (n \div BatchSize)
         /\ n % BatchSize \in 0 .. BatchSize - 1
         /\ n \div BatchSize \in Nat
BY BatchSizeAssumption

(* On natural numbers Go's / and % are TLA+'s \div and %.                 *)
LEMMA GoDivNat ==
  ASSUME NEW n \in Nat
  PROVE  /\ GoDiv(n, BatchSize) = n \div BatchSize
         /\ GoMod(n, BatchSize) = n - BatchSize * (n \div BatchSize)
BY DEF GoDiv, GoMod

(* Whole pages cover a count with less than one page to spare.            *)
LEMMA PagesBound ==
  ASSUME NEW n \in Nat
  PROVE  /\ Pages(n) \in Nat
         /\ n <= Pages(n) * BatchSize
         /\ Pages(n) * BatchSize < n + BatchSize
<1>. DEFINE q == n \div BatchSize
            r == n - BatchSize * q
<1>1. q \in Nat /\ r \in 0 .. BatchSize - 1
  BY DivSplit
<1>2. n = q * BatchSize + r
  BY <1>1, BatchSizeAssumption
<1>3. CASE r = 0
  <2>1. Pages(n) = q
    BY <1>3, GoDivNat DEF Pages
  <2>. QED
    BY <1>1, <1>2, <1>3, <2>1, BatchSizeAssumption
<1>4. CASE r # 0
  <2>1. Pages(n) = q + 1
    BY <1>4, GoDivNat DEF Pages
  <2>. QED
    BY <1>1, <1>2, <1>4, <2>1, BatchSizeAssumption
<1>. QED
  BY <1>3, <1>4

LEMMA InitLoadInv == Init => LoadInv
BY BatchSizeAssumption, CountsAssumption DEF Init, LoadInv, TypeOK

LEMMA NextLoadInv == LoadInv /\ [Next]_vars => LoadInv'
<1> SUFFICES ASSUME LoadInv, [Next]_vars PROVE LoadInv'
  OBVIOUS
<1>. USE BatchSizeAssumption, CountsAssumption
<1>1. CASE Paginate
  <2>1. count \in Nat
    BY DEF LoadInv, TypeOK
  <2>2. Pages(count) \in Nat
    BY <2>1, PagesBound
  <2>. QED
    BY <1>1, <2>2 DEF Paginate, LoadInv, TypeOK
<1>2. CASE WritePage
  BY <1>2 DEF WritePage, LoadInv, TypeOK
<1>3. CASE PSetFails
  BY <1>3 DEF PSetFails, LoadInv, TypeOK
<1>4. CASE Record
  BY <1>4 DEF Record, LoadInv, TypeOK
<1>5. CASE Stopped \/ UNCHANGED vars
  BY <1>5 DEF Stopped, vars, LoadInv, TypeOK
<1>. QED
  BY <1>1, <1>2, <1>3, <1>4, <1>5 DEF Next

THEOREM LoadInvariant == Spec => []LoadInv
BY InitLoadInv, NextLoadInv, PTL DEF Spec

(* The bulk load's locals keep their types (pc, counts, pages, the total   *)
(* and the appended column) for every page size and count.                *)
THEOREM LoadTypeCorrect == Spec => []TypeOK
BY LoadInvariant, PTL DEF LoadInv

(* For every page size and every non-negative -set count, a bulk load     *)
(* that returns has inserted at least count entries and less than one     *)
(* page more (testBatchWriteFixCount, main.go 164-198).                   *)
THEOREM LoadCovers == Spec => []LoadCoversCount
<1>1. LoadInv => LoadCoversCount
  <2> SUFFICES ASSUME LoadInv, pc = "done"
               PROVE  count <= total /\ total < count + BatchSize
    BY DEF LoadCoversCount
  <2>1. count \in Nat /\ total = Pages(count) * BatchSize
    BY CountsAssumption DEF LoadInv, TypeOK
  <2>. QED
    BY <2>1, PagesBound
<1>. QED
  BY <1>1, LoadInvariant, PTL
=============================================================================
