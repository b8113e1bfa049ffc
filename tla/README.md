# TLA+ models of go-kvbench

This directory holds TLA+ models of the `kvbench` command-line benchmark
(`src/cmd/cli/main.go`) and of its storage adapters (`src/unnamed/part_000` for
leveldb and `part_001` for pebble). It also holds the TLC configurations that
model-check them and the TLAPS proofs about them.

## The system

`main` does the following, in order:

1. It parses the flags.
2. It opens one store with `getStore`.
3. It bulk-loads `-set` entries in pages of 1000 (`testBatchWriteFixCount`).
4. It records the memory and disk usage.
5. It runs five **time-bounded phases** against the same store: `testKeys`, `testSet`, `testGet`, `testGetSet` and `testDelete`.
6. It appends the run as one row to a CSV ledger (`saveReorder`).

`test.sh` runs the binary once per store and appends every run to one ledger.

Every time-bounded phase follows the same pattern:

- It creates a deadline context.
- It spawns `c` goroutines.
- Worker `j` starts at index `j` and loops: "if the context is done, write `counts[j]` and exit; else make one storage call on `genKey(i)`, advance `i` by `c`, count the call".
- `main` waits on a WaitGroup, sums `counts`, prints the rate and the mean latency, and appends a column to the record.

The phases differ in a few places:

- **testGet:** a worker that misses goes back to its start index.
- **testKeys:** a failed scan does the same. This phase is also skipped, recording `-1`, when a probe scan returns `ErrNotSupported`.
- **testGetSet:** also starts one writer goroutine. It calls `Set` on indices 0, 1, 2, … and counts the calls in an unsynchronised `setCount`. `main` closes the writer's channel after the readers have joined, and never waits for the writer.

The storage adapters serialise nothing themselves, except leveldb's `RWMutex` around `Close`.

## Inventory (survey)

| part | source | status | module |
|---|---|---|---|
| time-bounded phases and the mixed-phase writer | main.go 200-447 | modelled | `KvBench` |
| key generation | main.go 449-463 | partly: a key is `<<lead, i>>` | `KvBench` |
| bulk load | main.go 164-198 | modelled | `BulkLoad` |
| record columns and CSV ledger, across the runs of test.sh | main.go 41-118, 549-585; test.sh | modelled (values abstracted) | `RecordSink` |
| main lifecycle: getStore, defers, panic and log.Fatal | main.go 24-86, 465-535 | modelled (phases as one step each) | `Run` |
| leveldb and pebble adapters | part_000, part_001 | partly: open errors, Set/Close locking; Get, Del, PSet, Keys abstracted in `KvBench`/`BulkLoad`; `FlushDB` and `PGet` are never called | `Run` |
| `testBatchWrite` | main.go 121-161 | not modelled | dead code: nothing calls it |
| printing (`fmt.Printf`) and `runtime.ReadMemStats` | | not modelled | output and measurement only |

`PROJECT.json` lists the hazards of this code, each at the line where it
bites, with the properties that cover it or the module planned to cover it.

## Module KvBench: the five phases

**Constants.**

- `C` is `*c`.
- `Lead` is the set of first bytes `genKey` may draw.
- `Elapsed` is the phase durations in microseconds.
- `MaxOps` bounds the calls of one worker in one phase.
- `MaxWrites` bounds the writer's Sets.

The assumptions are `C \in Nat \ {0}`, `Elapsed` being a non-empty set of positive numbers, and `Lead` being non-empty.

**State.**

| variable | code |
|---|---|
| `phase` | which test function `main` is in |
| `stage` | `start` before spawning, `wait` inside `wg.Wait`, `panicked` after a runtime panic |
| `wpc` | for each worker: idle, in its LOOP, or exited |
| `i`, `count` | each worker's local variables |
| `counts` | the shared slice |
| `ctxDone` | the context's deadline |
| `store` | the genKey keys present in the store |
| `headers`, `values` | the record |
| `writer`, `wi`, `setCount`, `chClosed` | the mixed-phase writer: its control point, its local `i`, the shared counter, and whether `close(ch)` has happened |
| `touched`, `calls` | ghost state: the indices each worker used, and the calls made in the current phase |

**Actions.** Each action is one handler or one loop iteration of the code:

| action | what it models |
|---|---|
| `KeysNotSupported` | the probe at the start of testKeys |
| `StartPhase`, `StartGetSet` | the function up to the spawn loop; StartGetSet also starts the writer |
| `KeysOnce`, `SetOnce`, `GetOnce`, `MixedGetOnce`, `DelOnce` | one default-branch iteration of a worker, its reset included |
| `WorkerExit` | the `ctx.Done()` branch |
| `Deadline` | the timer fires |
| `Finish`, `FinishGetSet` | the code after `wg.Wait` up to the function's return; `FinishGetSet` includes `close(ch)` |
| `WriterStop`, `WriterBegin`, `WriterSet` | the writer's `select`: returning, or starting a `Set` and completing it |

Three points about the actions:

- **Finish.** `Finish` panics (`stage = "panicked"`) exactly when the code's `d/int64(n*c)` divides by zero. Otherwise it appends the column and moves to the next phase.
- **FinishGetSet.** The unsynchronised read of `setCount` is modelled as any value the counter has held.
- **The writer.** The writer's `Set` is split into begin and completion, because the code never joins it: a `Set` in flight can complete after `testGetSet` has returned.

The model abstracts the data, not the control:

- A key is a pair of a lead byte and an index.
- The bulk-loaded keys are random 9-byte strings that no small genKey index can equal, so the part of the store the phases observe starts empty.
- The column names drop the ` op/s` suffix the code prints.

## Module PhaseAbstract: what the phases promise main

`PhaseAbstract` hides the workers, the counts, the store and the writer and
keeps what `main` sees of the five phases: `phase`, whether the run
`aborted` in a panic, and the `headers` the phases appended. `Complete`
appends the phase's `Columns` and moves to `NextPhase` (main.go 80-84);
`Abort` appends a strict prefix of them (testGetSet appends `Setmixed`
before the mean that can divide by zero, the other phases nothing) and
ends the run. `ASpec` has weak fairness on `ANext`: every phase ends.

`KvBench` instantiates it as `Abs == INSTANCE PhaseAbstract WITH aborted <-
(stage = "panicked")` (phase and headers map to themselves) and checks
`PhaseRefinement == Abs!ASpec` in `kvbench_core`. The mutant drops the
column testKeys appends when `Keys` is not supported (main.go 250).

## Module BulkLoad: the bulk load

`BulkLoad` models `testBatchWriteFixCount`.

**Constants.**

- `BatchSize` is the page size, 1000 in the code.
- `Counts` is the set of values `-set` may have. They are non-negative.

**State.**

| variable | code |
|---|---|
| `pc` | before the loop, in the page loop, returned, or panicked |
| `count` | the count argument |
| `pageCount`, `page`, `total` | the function's locals |
| `headers` | the column it appends |

**Actions.**

| action | what it models |
|---|---|
| `Paginate` | lines 165-173; uses Go's truncating `/` and `%` (`GoDiv`, `GoMod`) |
| `WritePage` | one page whose `PSet` succeeds; adds `len(keyList) = endIdx - startIdx` to `total` |
| `PSetFails` | the `panic` |
| `Record` | the cost column after the loop |

A count that is not a multiple of 1000 is rounded up to whole pages (`-set 1500` writes 2000 entries); `LoadCoversCount` bounds the overshoot by one page.

## Module RecordSink: the record and the ledger across runs

`RecordSink` models what reaches the CSV ledger over the runs `test.sh`
makes against one `-save` file. The script runs one CLI process at a time
and never removes the ledger. A first run whose deferred Flush fails leaves an empty file behind, and every later run then appends value rows with no header row; `HeaderAtMostFirst` is what still holds (a header, if any, is row 1).

**Constants.** `MaxRuns` bounds the runs; `TestSh` is the store order of `test.sh`'s `STORES` (line 5), `disk` or `memory` for each, and run k uses entry k.

**State.**

| variable | code |
|---|---|
| `runs` | the runs of the script's loop started so far |
| `rpc` | between runs, or in `saveReorder` |
| `headers` | `record.Headers` of the current run |
| `exists`, `ledger` | whether the file exists, and its rows |
| `lastExit`, `written` | ghosts: how the last run ended, and whether its row reached the file |

A row is modelled by the columns it stands for (`kind` header or values,
and the list of column names); the numbers are left out.

**Actions.**

| action | what it models |
|---|---|
| `RunMain` | `main` up to `saveReorder`: the run dies (an unknown store, a `PSet` error, a zero mean), or arrives with `Columns(m)`; `showDiskUsage` adds `DiskUsage` only when `os.Stat(path)` succeeds, which it never does for the `:memory:` path |
| `SaveReorder` | all of `saveReorder`: `os.Stat`; `os.Create` or `os.OpenFile(O_APPEND)` and their `log.Fatal`; header and value rows for a new file, the value row otherwise |
| `Flushed` | the deferred `writer.Flush()`: the buffered rows reach the file, or the write fails and nothing is reported. `writer.Error()` runs before it and sees only the buffer |
| `Finished` | the script is done |

## Module Run: the run from flag parsing to exit

`Run` follows `main` and the two adapters from package initialisation to the
process exit. The phases are one step each here (their inside is `KvBench`
and `BulkLoad`); what `Run` keeps is everything that can stop the run, the
deferred calls, and the testGetSet writer that `main` never joins.

**Constants.** `Backends` is the value of `-s` (`"leveldb"`, `"pebble"`, or
`"unknown"` for every selector whose adapter is not in the repository);
`Sizes` the values `-size` may take and `DefaultSize` its default (256);
`MaxSets` bounds the writer's Sets. `RunAssumption` states them.

**State.**

- `size`, `data`: the flag and the length of `data`. `data` is a package-level initialiser, so it is computed from the default before `flag.Parse` (main.go:32).
- `backend`, `memory`: the store selector and the `/memory` suffix.
- `mpc`: where `main`'s goroutine is; `panicking` whether it is unwinding.
- `defers`: the deferred calls still to run, the next one first (`close` then `remove`: registered in the other order, run LIFO).
- `db` (`none`, `open`, `closed`) and `dir` (`none`, `present`, `removed`).
- `writer` (`none`, `loop`, `inSet`, `stopped`), `sets`, `chClosed`: the unjoined writer of testGetSet.
- `payload`: the length of the last value handed to the store; `exitHow`: how the process ended (`ok`, `panic`, `fatal`, `crash`).

**Actions.**

| action | code |
|---|---|
| `ParseFlags` | `flag.Parse` and the `/memory` suffix (main.go 42-52); `data` is left alone |
| `Open`, `DieUnregistered` | `getStore` and the adapters' constructors: an unknown selector or `:memory:` (`ErrMemoryNotAllowed`) or a failed `OpenFile` returns an error and main panics with no defer registered; otherwise `defer os.RemoveAll` (unless memory) and `defer store.Close` |
| `BulkLoad`, `Phases`, `Delete` | each later call of `main` returns or panics (`Panic`, `ReturnsOr`); a panic starts running the defers. The bulk load's values are `make([]byte, *size)` (main.go:180), so `payload` becomes `size` (or stays, with no page); testSet writes `data` (main.go:313) |
| `StartGetSet`, `EndGetSet` | testGetSet starts the writer, then `close(ch)` after `wg.Wait` and returns or panics (the mean divides by `n*c`) |
| `Save` | `saveReorder` returns or calls `log.Fatal`, which exits without running any defer |
| `DeferClose`, `LockAcquired`, `CloseDb` | the deferred `store.Close()`: leveldb's `s.mu.Lock()` waits for a Set holding `RLock`; pebble closes at once |
| `DeferRemove`, `Exit` | the deferred `os.RemoveAll(path)`, then the process ends (status 0, or the panic's 2) |
| `WriterStop`, `WriterBegin`, `WriterEnd` | the writer's `select`: return once `ch` is closed, else `store.Set(genKey(i), data)`. leveldb's `RLock` blocks while `Lock` is pending or held (Go's RWMutex prefers writers). A pebble Set that `Close` ran under is undefined behaviour: it returns or crashes the process |

**Runs.**

| run | expect | what it shows |
|---|---|---|
| `run_shutdown` | pass | `LockedCloseExclusive`: leveldb never closes its database while the writer is inside Set; `RemovedOnlyWhenClosed`: the directory is removed only after the database is closed; `CleanExit`: a run that returns or panics in main after opening its store has closed it and removed its directory |
| `pebble_close_races_set` | violation of `NoCallDuringClose` | pebble's Close takes no lock, so it closes the database under the writer's Set |
| `fatal_skips_close` | violation of `StoreClosedAtExit` | `log.Fatal` in saveReorder exits with the store open and its directory left behind; the spec says the store is closed at run end regardless of outcome |
| `payload_size_ignored` | violation of `PayloadSize` | with `-size 512` the bulk load writes 512-byte values (main.go:180 allocates them after `flag.Parse`), then testSet writes the 256-byte `data` |

`MaxSets = 2` lets the writer have a Set in flight at any of `main`'s later
steps, including the deferred Close; more Sets only repeat states. The
mutants register `RemoveAll` after `Close`, drop leveldb's lock from Close,
and exit without running the defers.

**Proofs (RunProofs).** For every set of backends and sizes and every bound:
`RunTypeCorrect`, `LockedCloseIsExclusive`, `RemoveAfterClose` and
`DefersRunAtExit`. None of the three properties is inductive alone. The
strengthening `RunInv` is a numeric part, a tag part and `Shape`, which ties
`mpc` to `db`, `db` to the defer stack and to `dir` (an open database has
`<<"close","remove">>` pending and its directory present; a closed one has
`remove` pending or its directory removed), and says that a leveldb Close
holds the lock, so the writer is not in Set. The properties follow from
`Shape` directly.

## Runs

The `MC_KvBench` runs use these bounds:

- `C = 2`, `Lead = {l1, l2}` with symmetry, `MaxOps = 3`, `MaxWrites = 2` and `Elapsed = {10^6}`.
- `VIEW` leaves out `record.Values`, which no guard or property reads.

| run | expect | what it shows |
|---|---|---|
| `kvbench_core` | pass (about 580k states, 1.5 min) | `TypeOK`; `IInv`; `StrideDisjoint`, so no two workers of a phase ever use the same key index; `WarmReads`, so a testGet worker beyond its first two indices only reads index k after a hit on k-c; `AggregateExact`, so the sum taken after `wg.Wait` equals the calls made; `WriterStops`, so the writer eventually returns; `PhaseRefinement`, so the phases implement `PhaseAbstract` |
| `mixed_reads_cold` | violation of `MixedWarmReads` | the testGetSet readers do not reset on a miss; spec §4.3 says they follow the point-get pattern |
| `mean_divide_by_zero` | violation of `NoDivideByZero` | a phase whose deadline comes before any counted call panics in the mean `d/int64(n*c)` (main.go:240, and likewise 292, 361, 402, 444) |
| `writer_outlives_phase` | violation of `WriterConfinedToMixedPhase` | the writer is never joined, so a Set can complete during testDelete; spec §5 says phases never overlap |

The `MC_BulkLoad` runs use pages of 3 entries and every count from 0 to 20:

| run | expect | what it shows |
|---|---|---|
| `bulkload_core` | pass | `TypeOK`; `LoadCoversCount`, so a load that returns has inserted at least `count` entries and less than one page more |

The `RecordSink` runs use `MaxRuns = 14`, one `test.sh` loop over `STORES` (`TestSh`):

| run | expect | what it shows |
|---|---|---|
| `recordsink_core` | pass | `HeaderAtMostFirst`: whatever runs die or lose their flush, a header row appears only as row 1 |
| `ledger_misaligned` | violation of `LedgerAligned` | in `test.sh`'s order, ten disk runs and then `btree/memory` (run 11): its row lacks `DiskUsage`, so its later values sit one column left (as in the repository README's `btree/memory` rows) |
| `ledger_row_lost` | violation of `NoSilentLoss` | a failed deferred Flush is discarded; the run exits 0 without its row, whereas the spec says a ledger write failure terminates with an error |

Fourteen runs are one pass of `test.sh`'s loop in its own store order,
so the first `/memory` run comes after ten disk runs, as it does when the
script runs; any run may die or lose its flush. The theorems cover any
number of runs up to `Len(TestSh)`.

**Why these bounds are enough.** Two workers are the fewest for which stride
disjointness says anything. Three calls per worker let a testGet worker hit,
miss and reset, and reach index `w + 2c`, where `WarmReads` starts to
constrain. Two writer Sets let the writer have a Set in flight when
`close(ch)` happens, and let keys written by it or by testSet be read in
the mixed phase. Two lead bytes give both hits and misses. For `BulkLoad`,
counts 0..20 with pages of 3 cover:
- the empty load;
- exact multiples;
- both non-zero remainders;
- loads of up to 7 pages.

The theorem covers every page size and every count.

**Mutants.** Each property of the passing run is broken by a plausible bug,
listed in `PROJECT.json` under "mutants":

- subtracting the stride;
- resetting to 0 instead of `index`;
- dropping the miss reset;
- summing without `wg.Wait`;
- forgetting `close(ch)`;
- forgetting `setCount++`;
- in `BulkLoad`: dropping the remainder test and a swapped page-length subtraction;
- in `RecordSink`: writing the header in the append branch too;
- in `KvBench`'s refinement: dropping the column testKeys appends when `Keys` is unsupported.

## Fairness

`Spec` has weak fairness on every action. The justification:

- Go's scheduler eventually runs every runnable goroutine.
- The context's timer eventually fires.
- `main` leaves `wg.Wait` once every worker has exited.

Only `WriterStops` uses this fairness: once `close(ch)` has happened, the writer's `select` takes the closed-channel case.

## Proofs (KvBenchProofs)

The theorems hold for every `C >= 1`, every `Lead`, every `Elapsed`, and all bounds:

- `InductiveInvariant`: `Spec => []IInv`.
- `TypeCorrect`: `Spec => []TypeOK`.
- `StrideDisjointness`: `Spec => []StrideDisjoint`.
- `WarmReadsHold`: `Spec => []WarmReads`. `WarmReads` is not inductive: a testGet call adds `i[w]` to `touched[w]`, and `WarmReads` says nothing about `i[w]`. The strengthening `WarmIdx` says that during testGet a spawned worker's next index is `j` or `j + c` (its start, or the reset after a miss), or lies one stride above an index whose key is in the store (after a hit). The store only grows during testGet: the worker reads it, and only the writer's Sets change it. The lemmas are `GetOnceWarm` (hit and miss), `SpawnWarm`, `ResetWarm` (a phase returning or panicking) and `FrameWarm` (steps that move no index).
- `PhasesRefineAbstract`: `Spec => Abs!AInit /\ [][Abs!ANext]_AbsVars`, the safety part of `PhaseRefinement`. `Init` maps to `AInit`; `KeysNotSupported`, `Finish` and `FinishGetSet` are `Complete` or `Abort` steps (lemmas `KeysNotSupportedRefines`, `FinishRefines`, `FinishGetSetRefines`, with `HeaderSteps` and `MixedPrefix` for the sequence facts); every other action leaves `phase`, `headers` and the panicked flag alone. Only `TypeOK` from `IInv` is needed.

`StrideDisjoint` is not inductive. A step adds `i[w]` to `touched[w]`, and the property says nothing about where `i[w]` is. The strengthening `IInv` adds two things:

- `ResidueInv`: every non-idle worker's index, and every index it used, is congruent to its id modulo `c`. This holds because a worker is spawned at `j` and is only ever advanced by `c`, either from `i` or from its reset value `j`.
- `WriterInv`: `setCount` equals the writer's index, and a Set in flight is below the bound.

From `ResidueInv`, disjointness follows: different residues give different indices.

The proof has this structure:

- One step per action.
- The arithmetic facts about `%` with a symbolic divisor are lemmas: `ModUnique`, `ModSplit`, `StrideResidue`.
- Each worker step is reduced to `StepResidue`, which covers a move to `r + c` with `r` either `i[w]` or `w`.

`record.Values` is left out of `TypeOK`. Its elements are rates of a fold (`SumFunction`) over `counts`, and typing a fold needs induction over the fold, which these provers cannot do.

## Proofs (BulkLoadProofs)

The theorems hold for every page size and every non-negative count:

- `LoadInvariant`: `Spec => []LoadInv`, the lemma the other two rest on.
- `LoadCovers`: `Spec => []LoadCoversCount`.
- `LoadTypeCorrect`: `Spec => []TypeOK`, a corollary of `LoadInv`.

`LoadInv` is the inductive strengthening. It says three things:

- `total = page * BatchSize`.
- The loop never passes `pageCount`.
- Once computed, `pageCount = Pages(count)`.

When the load returns, `total = Pages(count) * BatchSize`. The lemma `PagesBound` then shows `count <= total < count + BatchSize`. Its argument is `count = q*B + r` with `0 <= r < B`, and a case split on `r = 0`.

Negative counts are left out by `CountsAssumption`: Go's truncating `%` loads one page for `-999..-1`, and no property is stated for that case.

## Proofs (RecordSinkProofs)

For every `MaxRuns`:

- `SinkTypeCorrect`: `Spec => []TypeOK`.
- `HeaderOnlyFirst`: `Spec => []HeaderAtMostFirst`.

`HeaderAtMostFirst` is not inductive: `saveReorder` writes a header into
any file `os.Stat` reports missing, and the property says nothing of what
such a file holds. `SinkInv` adds that a missing file has no rows; the
header then lands at position 1. Appending value rows keeps the property
(lemma `AppendValues`).

## What is left to TLC

- **Liveness.** The fairness part of `PhaseRefinement` and `WriterStops` rest on fairness and `ENABLED`, which TLAPS cannot handle.
- **`AggregateExact`.** It relates `SumFunction(counts)` to the ghost call count. Proving it needs induction over the fold, which the installed provers cannot instantiate.
- **The violation runs.** These are counterexamples, and TLC's traces are their evidence.

## Not modelled

- `testBatchWrite` (main.go 121-161): nothing calls it.
- `FlushDB` and `PGet` of both adapters: cmd/cli never calls them.
- Printing, `showMemUsage`'s `runtime.ReadMemStats` and the byte values of keys: output and measurement only; a key is `<<lead, i>>`.
- The other backends' adapters: they are not in the repository.
