------------------------------ MODULE BulkLoad ------------------------------
(***************************************************************************)
(* The count-bounded bulk load of cmd/cli/main.go, testBatchWriteFixCount: *)
(* the requested count is cut into pages of batchSize entries, and each     *)
(* page is written by one PSet call, one page after the other.  A PSet      *)
(* error panics; otherwise the load appends its cost column to the record.  *)
(*                                                                         *)
(* The keys and values of a page are random bytes; only how many entries   *)
(* a page carries matters here.                                            *)
(***************************************************************************)
EXTENDS Integers, Sequences

CONSTANTS
  BatchSize,  \* batchSize, 1000 in the code
  Counts      \* the values the -set flag may have

ASSUME BatchSizeAssumption == BatchSize \in Nat \ {0}
ASSUME CountsAssumption == Counts \subseteq Nat /\ Counts # {}

VARIABLES
  pc,         \* "start", "pages" (in the page loop), "done", "panicked"
  count,      \* the count argument, *setCount
  pageCount,  \* pageCount
  page,       \* the loop variable i of the page loop
  total,      \* total: entries PSet accepted, added atomically
  headers     \* record.Headers appended by the load

vars == <<pc, count, pageCount, page, total, headers>>

\* Go's integer / and % truncate toward zero.
GoDiv(a, b) == IF a >= 0 THEN a \div b ELSE -((-a) \div b)
GoMod(a, b) == a - b * GoDiv(a, b)

\* Lines 169-173: the pages a count is cut into, one more for a remainder.
Pages(n) == IF GoMod(n, BatchSize) = 0
            THEN GoDiv(n, BatchSize)
            ELSE GoDiv(n, BatchSize) + 1

TypeOK ==
  /\ pc \in {"start", "pages", "done", "panicked"}
  /\ count \in Counts
  /\ pageCount \in Int
  /\ page \in Nat
  /\ total \in Nat
  /\ headers \in Seq({"BatchWriteCost"})

Init ==
  /\ pc = "start"
  /\ count \in Counts
  /\ pageCount = 0
  /\ page = 0
  /\ total = 0
  /\ headers = <<>>

\* Mutant of Paginate: the remainder test dropped, one extra page always.
PaginateAlwaysPlusOne ==
  /\ pc = "start"
  /\ pageCount' = GoDiv(count, BatchSize) + 1
  /\ pc' = "pages"
  /\ UNCHANGED <<count, page, total, headers>>

\* Lines 165-173: the load starts and computes pageCount.
Paginate ==
  /\ pc = "start"
  /\ pageCount' = Pages(count)
  /\ pc' = "pages"
  /\ UNCHANGED <<count, page, total, headers>>

\* Mutant of WritePage: the page length computed as startIdx - endIdx.
WritePageSwapped ==
  /\ pc = "pages" /\ page < pageCount
  /\ LET startIdx == page * BatchSize
         endIdx == startIdx + BatchSize
     IN  total' = total + (startIdx - endIdx)
  /\ page' = page + 1
  /\ UNCHANGED <<pc, count, pageCount, headers>>

\* Lines 174-193: keyList gets endIdx - startIdx = batchSize entries, PSet
\* succeeds, total grows by len(keyList), the loop goes on.
WritePage ==
  /\ pc = "pages" /\ page < pageCount
  /\ LET startIdx == page * BatchSize
         endIdx == startIdx + BatchSize
     IN  total' = total + (endIdx - startIdx)
  /\ page' = page + 1
  /\ UNCHANGED <<pc, count, pageCount, headers>>

\* Lines 188-191: PSet returns an error; the load panics.
PSetFails ==
  /\ pc = "pages" /\ page < pageCount
  /\ pc' = "panicked"
  /\ UNCHANGED <<count, pageCount, page, total, headers>>

\* Lines 195-197: the loop is over; the cost column is appended.
Record ==
  /\ pc = "pages" /\ page >= pageCount
  /\ headers' = Append(headers, "BatchWriteCost")
  /\ pc' = "done"
  /\ UNCHANGED <<count, pageCount, page, total>>

\* The load has returned or the process has panicked.
Stopped ==
  /\ pc \in {"done", "panicked"}
  /\ UNCHANGED vars

Next == Paginate \/ WritePage \/ PSetFails \/ Record \/ Stopped

Spec == Init /\ [][Next]_vars

-----------------------------------------------------------------------------
(* Properties.                                                            *)

(* A load that returns has written the requested count rounded up to whole *)
(* pages: at least count entries, and less than one page more.            *)
LoadCoversCount ==
  pc = "done" => count <= total /\ total < count + BatchSize

(* The inductive strengthening of LoadCoversCount (see BulkLoadProofs):   *)
(* total counts whole pages, the loop never passes pageCount, and          *)
(* pageCount is the page count of the requested count.                     *)
LoadInv ==
  /\ TypeOK
  /\ total = page * BatchSize
  /\ pc = "start" => page = 0
  /\ pc \in {"pages", "done"} => pageCount = Pages(count) /\ page <= pageCount
  /\ pc = "done" => page = pageCount

=============================================================================
