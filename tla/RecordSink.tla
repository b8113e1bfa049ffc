----------------------------- MODULE RecordSink -----------------------------
(***************************************************************************)
(* The record a run of cmd/cli builds and the CSV ledger saveReorder       *)
(* appends it to, over the sequence of runs test.sh makes against one      *)
(* ledger file (-save).  Runs are sequential: test.sh waits for each.      *)
(*                                                                         *)
(* A run either dies before saveReorder (an unknown store type, a PSet     *)
(* error, a mean that divides by zero) or reaches it with its record: the  *)
(* name column, the bulk-load cost, the memory columns, the disk column    *)
(* when the store's path exists, and the six phase columns.  A ledger row  *)
(* is modelled by the columns its fields stand for; the values themselves  *)
(* are left out.                                                           *)
(*                                                                         *)
(* csv.Writer buffers what Write is given (a row is far below its buffer), *)
(* so Write and Error() report nothing; the deferred Flush writes the      *)
(* buffer to the file, and may fail, unchecked, after saveReorder has      *)
(* returned.                                                               *)
(***************************************************************************)
EXTENDS Integers, Sequences

CONSTANTS
  MaxRuns   \* bound: runs of test.sh's loop made against the ledger

\* A run is of a store on disk, or of a "<store>/memory" store.
Mode == {"disk", "memory"}

\* test.sh, line 5: the STORES it runs, in order, by mode: ten disk stores
\* (nutsdb ... btree), btree/memory, map, map/memory, kv.
TestSh == <<"disk", "disk", "disk", "disk", "disk", "disk", "disk", "disk",
            "disk", "disk", "memory", "disk", "memory", "disk">>

ASSUME MaxRunsAssumption == MaxRuns \in 0 .. Len(TestSh)

VARIABLES
  runs,     \* runs started so far
  rpc,      \* "idle" between runs, "save" when main calls saveReorder
  headers,  \* record.Headers of the current run
  exists,   \* the ledger file exists
  ledger,   \* the rows in the ledger file
  lastExit, \* ghost: how the last run ended: "none", "ok", "failed"
  written   \* ghost: the last run's row reached the file

vars == <<runs, rpc, headers, exists, ledger, lastExit, written>>

Column == {"name", "BatchWriteCost", "MemUsage", "HeapInuse", "DiskUsage",
           "Keys", "Set", "Get", "Setmixed", "Getmixed", "Del"}

\* A row of the file: the header row, or a value row.
Row == [kind : {"header", "values"}, cols : Seq(Column)]

\* main, lines 76-84: the columns a run that survives appends, in order.
\* showDiskUsage appends nothing when os.Stat(path) fails, as it does for
\* the ":memory:" path of a /memory store.
Columns(m) ==
  <<"name", "BatchWriteCost", "MemUsage", "HeapInuse">>
  \o (IF m = "disk" THEN <<"DiskUsage">> ELSE <<>>)
  \o <<"Keys", "Set", "Get", "Setmixed", "Getmixed", "Del">>

TypeOK ==
  /\ runs \in 0 .. MaxRuns
  /\ rpc \in {"idle", "save"}
  /\ headers \in Seq(Column)
  /\ exists \in BOOLEAN
  /\ ledger \in Seq(Row)
  /\ lastExit \in {"none", "ok", "failed"}
  /\ written \in BOOLEAN

\* test.sh starts with no ledger file (it is not removed between runs).
Init ==
  /\ runs = 0
  /\ rpc = "idle"
  /\ headers = <<>>
  /\ exists = FALSE
  /\ ledger = <<>>
  /\ lastExit = "none"
  /\ written = FALSE

\* main up to saveReorder for the next store of test.sh: the run dies on
\* the way (panic), or reaches saveReorder with its record.
RunMain ==
  /\ rpc = "idle" /\ runs < MaxRuns
  /\ runs' = runs + 1
  /\ written' = FALSE
  /\ \/ /\ lastExit' = "failed"
        /\ UNCHANGED <<rpc, headers>>
     \/ /\ headers' = Columns(TestSh[runs + 1])
        /\ rpc' = "save"
        /\ UNCHANGED lastExit
  /\ UNCHANGED <<exists, ledger>>

\* The outcomes of the final deferred writer.Flush(): the buffered rows
\* reach the file, or the write fails and nothing does.
Flushed(rows) ==
  \/ /\ ledger' = ledger \o rows
     /\ written' = TRUE
  \/ /\ UNCHANGED ledger
     /\ written' = FALSE

Values == [kind |-> "values", cols |-> headers]
Header == [kind |-> "header", cols |-> headers]

\* Mutant of SaveReorder: the header row written in the append branch too.
SaveReorderHeaderAlways ==
  /\ rpc = "save"
  /\ rpc' = "idle"
  /\ \/ /\ ~exists
        /\ \/ /\ lastExit' = "failed"
              /\ UNCHANGED <<exists, ledger, written>>
           \/ /\ exists' = TRUE
              /\ lastExit' = "ok"
              /\ Flushed(<<Header, Values>>)
     \/ /\ exists
        /\ \/ /\ lastExit' = "failed"
              /\ UNCHANGED <<ledger, written>>
           \/ /\ lastExit' = "ok"
              /\ Flushed(<<Header, Values>>)
        /\ UNCHANGED exists
  /\ UNCHANGED <<runs, headers>>

\* saveReorder, lines 550-585, and main's return.  A missing file is
\* created (os.Create; log.Fatal if that fails) and given the header row
\* and the value row; an existing one is opened for append (log.Fatal on
\* failure) and given the value row.  The Error() checks see only the
\* buffer and never fail; the deferred Flush may.  Either way the process
\* exits 0 unless log.Fatal ran.
SaveReorder ==
  /\ rpc = "save"
  /\ rpc' = "idle"
  /\ \/ /\ ~exists
        /\ \/ /\ lastExit' = "failed"
              /\ UNCHANGED <<exists, ledger, written>>
           \/ /\ exists' = TRUE
              /\ lastExit' = "ok"
              /\ Flushed(<<Header, Values>>)
     \/ /\ exists
        /\ \/ /\ lastExit' = "failed"
              /\ UNCHANGED <<ledger, written>>
           \/ /\ lastExit' = "ok"
              /\ Flushed(<<Values>>)
        /\ UNCHANGED exists
  /\ UNCHANGED <<runs, headers>>

\* test.sh has made all its runs.
Finished ==
  /\ rpc = "idle" /\ runs = MaxRuns
  /\ UNCHANGED vars

Next == RunMain \/ SaveReorder \/ Finished

Spec == Init /\ [][Next]_vars

-----------------------------------------------------------------------------
(* Properties.                                                            *)

(* Whatever runs fail, and however, the file keeps one header row at most, *)
(* and only as its first row: saveReorder writes the header only into a   *)
(* file its os.Stat found missing.                                        *)
HeaderAtMostFirst ==
  \A k \in 1 .. Len(ledger) : ledger[k].kind = "header" => k = 1

(* The spec's ledger format: every value row is aligned by position with  *)
(* the header row.                                                        *)
LedgerAligned ==
  ledger # <<>> /\ ledger[1].kind = "header" =>
    \A k \in 1 .. Len(ledger) : ledger[k].cols = ledger[1].cols

(* The spec's exit behaviour: a ledger write failure terminates the run   *)
(* with an error, so a run that exits normally has written its row.       *)
NoSilentLoss == lastExit = "ok" /\ rpc = "idle" => written

=============================================================================
