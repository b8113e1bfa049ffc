-------------------------------- MODULE Run --------------------------------
(***************************************************************************)
(* The life of one cmd/cli process against a leveldb or pebble store       *)
(* (src/unnamed/part_000, part_001), from package initialisation to exit.  *)
(*                                                                         *)
(* main parses the flags, opens the store with getStore (a failure         *)
(* panics), defers os.RemoveAll(path) for a store on disk and then         *)
(* store.Close(), runs the bulk load and the phases, and saves the record. *)
(* A panic in main's goroutine (a PSet error, a mean that divides by zero) *)
(* unwinds through the deferred calls; log.Fatal in saveReorder exits at   *)
(* once and runs none.  The writer goroutine of testGetSet is never        *)
(* joined: it may still be inside store.Set when the deferred Close runs.  *)
(*                                                                         *)
(* The phases themselves are modelled in KvBench and BulkLoad; here each   *)
(* is one step that returns or panics.  The leveldb adapter takes its      *)
(* RWMutex for reading in Set and for writing in Close; the pebble adapter *)
(* takes no lock.  Go's RWMutex blocks a new RLock once a Lock is pending. *)
(***************************************************************************)
EXTENDS Integers, Sequences

CONSTANTS
  Backends,     \* the -s values: "leveldb", "pebble", or an unknown name
  Sizes,        \* the values the -size flag may be given
  DefaultSize,  \* the default of -size, 256
  MaxSets       \* bound: Set calls of the testGetSet writer

ASSUME RunAssumption ==
  /\ Backends \subseteq {"leveldb", "pebble", "unknown"} /\ Backends # {}
  /\ DefaultSize \in Sizes /\ Sizes \subseteq Nat
  /\ MaxSets \in Nat

VARIABLES
  size,      \* *size, the parsed -size flag
  data,      \* len(data): the value every Set and PSet writes
  backend,   \* *s without a "/memory" suffix
  memory,    \* *s had the "/memory" suffix
  mpc,       \* where main's goroutine is
  panicking, \* main's goroutine is unwinding a panic
  defers,    \* main's deferred calls still to run, the next one first
  db,        \* the backend database: "none", "open", "closed"
  dir,       \* the store's directory: "none", "present", "removed"
  writer,    \* testGetSet writer: "none", "loop", "inSet", "stopped"
  sets,      \* Set calls the writer has completed
  chClosed,  \* close(ch) has happened
  payload,   \* ghost: len of the last value written, 0 before any write
  exitHow    \* ghost: "none", "ok", "panic", "fatal", "crash"

vars == <<size, data, backend, memory, mpc, panicking, defers, db, dir,
          writer, sets, chClosed, payload, exitHow>>

\* Adapters whose Close takes s.mu.Lock() and whose Set takes s.mu.RLock().
Locked == {"leveldb"}

\* Adapters that return ErrMemoryNotAllowed for the ":memory:" path.
FileOnly == {"leveldb", "pebble"}

TypeOK ==
  /\ size \in Sizes /\ data \in Sizes
  /\ backend \in Backends /\ memory \in BOOLEAN
  /\ mpc \in {"flags", "open", "load", "phases", "getset", "mixed", "del",
              "save", "defers", "lock", "close", "exited"}
  /\ panicking \in BOOLEAN
  /\ defers \in Seq({"close", "remove"})
  /\ db \in {"none", "open", "closed"}
  /\ dir \in {"none", "present", "removed"}
  /\ writer \in {"none", "loop", "inSet", "stopped"}
  /\ sets \in 0 .. MaxSets
  /\ chClosed \in BOOLEAN
  /\ payload \in {0} \cup Sizes
  /\ exitHow \in {"none", "ok", "panic", "fatal", "crash"}

\* Package initialisation: data = make([]byte, *size) runs before main, so
\* it sees the flag's default.
Init ==
  /\ size = DefaultSize
  /\ data = DefaultSize
  /\ backend \in Backends
  /\ memory \in BOOLEAN
  /\ mpc = "flags"
  /\ panicking = FALSE
  /\ defers = <<>>
  /\ db = "none"
  /\ dir = "none"
  /\ writer = "none"
  /\ sets = 0
  /\ chClosed = FALSE
  /\ payload = 0
  /\ exitHow = "none"

-----------------------------------------------------------------------------
(* main's goroutine.                                                      *)

\* flag.Parse(): -size takes the value it is given; data keeps its length.
ParseFlags ==
  /\ mpc = "flags"
  /\ size' \in Sizes
  /\ mpc' = "open"
  /\ UNCHANGED <<data, backend, memory, panicking, defers, db, dir, writer,
                 sets, chClosed, payload, exitHow>>

\* A panic before any defer is registered ends the process at once.
DieUnregistered ==
  /\ mpc' = "exited" /\ exitHow' = "panic"
  /\ UNCHANGED <<defers, db, dir>>

\* Mutant of Open: the two defers registered in the other order, so
\* os.RemoveAll runs before store.Close.
OpenRemoveLast ==
  /\ mpc = "open"
  /\ \/ /\ backend \notin FileOnly \/ memory
        /\ DieUnregistered
     \/ /\ backend \in FileOnly /\ ~memory
        /\ \/ DieUnregistered
           \/ /\ db' = "open" /\ dir' = "present"
              /\ defers' = (IF memory THEN <<>> ELSE <<"remove">>) \o <<"close">>
              /\ mpc' = "load"
              /\ UNCHANGED exitHow
  /\ UNCHANGED <<size, data, backend, memory, panicking, writer, sets,
                 chClosed, payload>>

\* main 46-63 with getStore and NewLevelDBStore / NewPebbleStore: an
\* unknown store type, or ":memory:" for these adapters, is an error and
\* main panics; so does a failed OpenFile.  Otherwise the defers are
\* registered: os.RemoveAll(path) unless memory, then store.Close(), which
\* runs first.
Open ==
  /\ mpc = "open"
  /\ \/ /\ backend \notin FileOnly \/ memory
        /\ DieUnregistered
     \/ /\ backend \in FileOnly /\ ~memory
        /\ \/ DieUnregistered
           \/ /\ db' = "open" /\ dir' = "present"
              /\ defers' = <<"close">> \o (IF memory THEN <<>> ELSE <<"remove">>)
              /\ mpc' = "load"
              /\ UNCHANGED exitHow
  /\ UNCHANGED <<size, data, backend, memory, panicking, writer, sets,
                 chClosed, payload>>

\* A panic in main's goroutine: the deferred calls run, then the process
\* dies.
Panic == mpc' = "defers" /\ panicking' = TRUE

\* A step of main that returns normally (to next) or panics.
ReturnsOr(next) == \/ mpc' = next /\ UNCHANGED panicking
                   \/ Panic

\* testBatchWriteFixCount (main 77, 164-198): every value is a fresh
\* make([]byte, *size) (line 180), made after flag.Parse, so it has the
\* -size length; with -set 0 no page is written.  A PSet error panics.
BulkLoad ==
  /\ mpc = "load"
  /\ payload' \in {payload, size}
  /\ ReturnsOr("phases")
  /\ UNCHANGED <<size, data, backend, memory, defers, db, dir, writer, sets,
                 chClosed, exitHow>>

\* showMemUsage, showDiskUsage, testKeys, testSet, testGet (main 78-82):
\* testSet writes data, the slice of line 32.  A phase whose mean divides
\* by zero panics, testSet's only when it counted no Set.
Phases ==
  /\ mpc = "phases"
  /\ \/ payload' = data /\ mpc' = "getset" /\ UNCHANGED panicking
     \/ payload' \in {payload, data} /\ Panic
  /\ UNCHANGED <<size, data, backend, memory, defers, db, dir, writer, sets,
                 chClosed, exitHow>>

\* testGetSet, lines 302-318: the writer goroutine is started.
StartGetSet ==
  /\ mpc = "getset"
  /\ writer' = "loop"
  /\ mpc' = "mixed"
  /\ UNCHANGED <<size, data, backend, memory, panicking, defers, db, dir, sets,
                 chClosed, payload, exitHow>>

\* testGetSet after wg.Wait, lines 344-363: close(ch), then the means,
\* which may divide by zero.
EndGetSet ==
  /\ mpc = "mixed"
  /\ chClosed' = TRUE
  /\ ReturnsOr("del")
  /\ UNCHANGED <<size, data, backend, memory, defers, db, dir, writer, sets,
                 payload, exitHow>>

\* testDelete (main 85): returns, or panics in its mean.
Delete ==
  /\ mpc = "del"
  /\ ReturnsOr("save")
  /\ UNCHANGED <<size, data, backend, memory, defers, db, dir, writer, sets,
                 chClosed, payload, exitHow>>

\* saveReorder (main 86): log.Fatal on a failed Create or OpenFile calls
\* os.Exit(1), which runs no deferred call; otherwise main returns.
Save ==
  /\ mpc = "save"
  /\ \/ mpc' = "exited" /\ exitHow' = "fatal"
     \/ mpc' = "defers" /\ UNCHANGED exitHow
  /\ UNCHANGED <<size, data, backend, memory, panicking, defers, db, dir,
                 writer, sets, chClosed, payload>>

-----------------------------------------------------------------------------
(* The deferred calls, last registered first.                             *)

\* Mutant of DeferClose: the adapter's Close takes no lock (as pebble's).
DeferCloseNoLock ==
  /\ mpc = "defers" /\ defers # <<>> /\ Head(defers) = "close"
  /\ mpc' = "close"
  /\ UNCHANGED <<size, data, backend, memory, panicking, defers, db, dir,
                 writer, sets, chClosed, payload, exitHow>>

\* store.Close(): leveldbStore.Close calls s.mu.Lock(), which waits for
\* the readers (part_000 37-39); pebbleStore.Close goes straight to
\* s.db.Close() (part_001 48-49).
DeferClose ==
  /\ mpc = "defers" /\ defers # <<>> /\ Head(defers) = "close"
  /\ mpc' = IF backend \in Locked THEN "lock" ELSE "close"
  /\ UNCHANGED <<size, data, backend, memory, panicking, defers, db, dir,
                 writer, sets, chClosed, payload, exitHow>>

\* s.mu.Lock() returns once no goroutine holds the read lock.
LockAcquired ==
  /\ mpc = "lock" /\ writer # "inSet"
  /\ mpc' = "close"
  /\ UNCHANGED <<size, data, backend, memory, panicking, defers, db, dir,
                 writer, sets, chClosed, payload, exitHow>>

\* s.db.Close() (and the deferred s.mu.Unlock() of leveldb).
CloseDb ==
  /\ mpc = "close"
  /\ db' = "closed"
  /\ defers' = Tail(defers)
  /\ mpc' = "defers"
  /\ UNCHANGED <<size, data, backend, memory, panicking, dir, writer, sets,
                 chClosed, payload, exitHow>>

\* os.RemoveAll(path).
DeferRemove ==
  /\ mpc = "defers" /\ defers # <<>> /\ Head(defers) = "remove"
  /\ dir' = "removed"
  /\ defers' = Tail(defers)
  /\ UNCHANGED <<size, data, backend, memory, mpc, panicking, db, writer, sets,
                 chClosed, payload, exitHow>>

\* Mutant of Exit: main ends with os.Exit(0), which skips what is left of
\* its deferred calls.
ExitSkippingDefers ==
  /\ mpc = "defers"
  /\ mpc' = "exited"
  /\ exitHow' = IF panicking THEN "panic" ELSE "ok"
  /\ UNCHANGED <<size, data, backend, memory, panicking, defers, db, dir,
                 writer, sets, chClosed, payload>>

\* The last deferred call has run: main returns (exit 0) or the panic
\* reaches the top of the goroutine (exit 2).  Every goroutine dies.
Exit ==
  /\ mpc = "defers" /\ defers = <<>>
  /\ mpc' = "exited"
  /\ exitHow' = IF panicking THEN "panic" ELSE "ok"
  /\ UNCHANGED <<size, data, backend, memory, panicking, defers, db, dir,
                 writer, sets, chClosed, payload>>

-----------------------------------------------------------------------------
(* The writer goroutine of testGetSet, lines 306-318, while the process   *)
(* lives.                                                                 *)

\* select: ch is closed, return.
WriterStop ==
  /\ mpc # "exited" /\ writer = "loop" /\ chClosed
  /\ writer' = "stopped"
  /\ UNCHANGED <<size, data, backend, memory, mpc, panicking, defers, db, dir,
                 sets, chClosed, payload, exitHow>>

\* default: store.Set begins; leveldb's s.mu.RLock() blocks while a Lock
\* is pending or held.
WriterBegin ==
  /\ mpc # "exited" /\ writer = "loop" /\ ~chClosed
  /\ sets < MaxSets
  /\ backend \in Locked => mpc \notin {"lock", "close"}
  /\ writer' = "inSet"
  /\ UNCHANGED <<size, data, backend, memory, mpc, panicking, defers, db, dir,
                 sets, chClosed, payload, exitHow>>

\* store.Set returns (its error is ignored); setCount++; i++.  leveldb's
\* Put on a closed DB returns ErrClosed.  A pebble Set that Close ran
\* under is undefined behaviour; it may return or crash the process.
WriterEnd ==
  /\ mpc # "exited" /\ writer = "inSet"
  /\ payload' = data
  /\ \/ /\ writer' = "loop" /\ sets' = sets + 1
        /\ UNCHANGED <<mpc, exitHow>>
     \/ /\ backend \notin Locked /\ db = "closed"
        /\ mpc' = "exited" /\ exitHow' = "crash"
        /\ UNCHANGED <<writer, sets>>
  /\ UNCHANGED <<size, data, backend, memory, panicking, defers, db, dir,
                 chClosed>>

\* The process has exited.
Exited ==
  /\ mpc = "exited"
  /\ UNCHANGED vars

Next ==
  \/ ParseFlags \/ Open \/ BulkLoad \/ Phases \/ StartGetSet \/ EndGetSet
  \/ Delete \/ Save
  \/ DeferClose \/ LockAcquired \/ CloseDb \/ DeferRemove \/ Exit
  \/ WriterStop \/ WriterBegin \/ WriterEnd
  \/ Exited

Spec == Init /\ [][Next]_vars

-----------------------------------------------------------------------------
(* Properties.                                                            *)

(* The unjoined testGetSet writer is never inside store.Set while the     *)
(* deferred store.Close is closing the database.                          *)
NoCallDuringClose == ~(mpc = "close" /\ writer = "inSet")

(* With an adapter that guards its database with its RWMutex (leveldb),   *)
(* the unjoined writer is never inside store.Set while store.Close closes *)
(* the database, however the writer and the unwinding of main interleave. *)
LockedCloseExclusive == backend \in Locked => NoCallDuringClose

(* The deferred os.RemoveAll only deletes the directory of a database     *)
(* that is closed: store.Close, deferred last, runs first.                *)
RemovedOnlyWhenClosed == dir = "removed" => db = "closed"

(* A process that returns from main or dies of a panic in main's         *)
(* goroutine after opening its store has closed it and removed its       *)
(* directory (memory stores have none).                                   *)
CleanExit ==
  mpc = "exited" /\ exitHow \in {"ok", "panic"} /\ db # "none" =>
    db = "closed" /\ (memory \/ dir = "removed")

(* The spec: the store is closed exactly once at run end, regardless of   *)
(* phase outcomes.                                                        *)
StoreClosedAtExit == mpc = "exited" /\ db # "none" => db = "closed"

(* The spec's payloadSize: every value written has the -size length.      *)
PayloadSize == payload # 0 => payload = size

=============================================================================
