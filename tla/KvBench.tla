------------------------------ MODULE KvBench ------------------------------
(***************************************************************************)
(* The time-bounded benchmark phases of cmd/cli/main.go, run by main in    *)
(* the order testKeys, testSet, testGet, testGetSet, testDelete against    *)
(* one shared store.                                                       *)
(*                                                                         *)
(* Each phase creates a deadline context, spawns C worker goroutines that  *)
(* loop "if ctx is done then exit else do one storage call and count it", *)
(* waits for all of them (wg.Wait), sums their counts, prints the rate and *)
(* the mean latency and appends one column to the record.  testGetSet also *)
(* starts a writer goroutine that calls Set until a channel is closed;     *)
(* main closes the channel after the readers have joined and never waits   *)
(* for the writer.                                                         *)
(*                                                                         *)
(* A key genKey(i) is a random printable byte followed by the 8 byte       *)
(* big-endian index i; it is modelled as the pair <<lead, i>> with lead    *)
(* drawn from the small set Lead.  Keys written by the bulk load are       *)
(* random 9 byte strings that no genKey(i) of a small i can equal, so the  *)
(* part of the store these phases can observe starts empty.                *)
(***************************************************************************)
EXTENDS Integers, Sequences, Functions

CONSTANTS
  C,          \* *c, the number of worker goroutines of a phase
  Lead,       \* the leading bytes genKey may draw (32 + rand.Intn(95))
  MaxOps,     \* bound: storage calls of one worker in one phase
  MaxWrites,  \* bound: Set calls of the writer of testGetSet
  Elapsed     \* the durations d/1e3 (microseconds) a phase may measure

ASSUME CAssumption == C \in Nat \ {0}
ASSUME BoundsAssumption == MaxOps \in Nat /\ MaxWrites \in Nat
ASSUME ElapsedAssumption == Elapsed \subseteq Nat \ {0} /\ Elapsed # {}
ASSUME LeadAssumption == Lead # {}

VARIABLES
  phase,          \* the test function main is in
  stage,          \* "start": about to spawn; "wait": in wg.Wait; "panicked"
  keysSupported,  \* FALSE when the backend's Keys returns ErrNotSupported
  wpc,            \* per worker: "idle", "run" (in its LOOP) or "exited"
  i,              \* per worker: its local key index
  count,          \* per worker: its local operation count
  counts,         \* the shared slice counts[index], written on exit
  ctxDone,        \* the phase's deadline context is done
  store,          \* the genKey keys present in the store
  headers,        \* record.Headers appended by these phases
  values,         \* record.Values appended by these phases
  writer,         \* testGetSet writer: "none", "loop", "set", "stopped"
  wi,             \* the writer's local index i
  setCount,       \* the writer's (unsynchronised) counter
  chClosed,       \* close(ch) has happened
  touched,        \* ghost: per worker, the key indices used in this phase
  calls           \* ghost: storage calls the workers made in this phase

vars == <<phase, stage, keysSupported, wpc, i, count, counts, ctxDone, store,
          headers, values, writer, wi, setCount, chClosed, touched, calls>>

Worker == 0 .. C - 1
Key == Lead \X Nat
PhaseName == {"keys", "set", "get", "getset", "del", "done"}

\* main.go 80-84: the phase main calls after each one returns.
Following == [keys |-> "set", set |-> "get", get |-> "getset",
              getset |-> "del", del |-> "done"]

\* The column each single-rate phase appends (lines 250, 293, 403, 241, 445).
RateHeader == [keys |-> "Keys", set |-> "Set",
               get |-> "Get", del |-> "Del"]

\* The columns these phases append to record.Headers, named without the
\* " op/s" suffix the code prints after each.
ColumnName == {"Keys", "Set", "Get", "Setmixed",
               "Getmixed", "Del"}

\* int64(n)*1e6/(d/1e3): operations per second, truncated.
Rate(n, d) == (n * 1000000) \div d

\* The printed mean d/int64(n*c) divides by zero when no call was counted.
MeanDividesByZero(n) == n * C = 0

\* The type of every variable but record.Values, whose elements are rates
\* of sums of counts.
TypeOK ==
  /\ phase \in PhaseName
  /\ stage \in {"start", "wait", "panicked"}
  /\ keysSupported \in BOOLEAN
  /\ wpc \in [Worker -> {"idle", "run", "exited"}]
  /\ i \in [Worker -> Nat]
  /\ count \in [Worker -> 0 .. MaxOps]
  /\ counts \in [Worker -> 0 .. MaxOps]
  /\ ctxDone \in BOOLEAN
  /\ store \subseteq Key
  /\ headers \in Seq(ColumnName)
  /\ writer \in {"none", "loop", "set", "stopped"}
  /\ wi \in 0 .. MaxWrites
  /\ setCount \in 0 .. MaxWrites
  /\ chClosed \in BOOLEAN
  /\ touched \in [Worker -> SUBSET Nat]
  /\ calls \in Nat

Init ==
  /\ phase = "keys"
  /\ stage = "start"
  /\ keysSupported \in BOOLEAN
  /\ wpc = [w \in Worker |-> "idle"]
  /\ i = [w \in Worker |-> 0]
  /\ count = [w \in Worker |-> 0]
  /\ counts = [w \in Worker |-> 0]
  /\ ctxDone = FALSE
  /\ store = {}
  /\ headers = <<>>
  /\ values = <<>>
  /\ writer = "none"
  /\ wi = 0
  /\ setCount = 0
  /\ chClosed = FALSE
  /\ touched = [w \in Worker |-> {}]
  /\ calls = 0

-----------------------------------------------------------------------------
(* Starting a phase: context.WithTimeout, counts := make([]int, *c), and   *)
(* the loop that spawns worker j with index := j.                          *)

Spawn ==
  /\ stage' = "wait"
  /\ wpc' = [w \in Worker |-> "run"]
  /\ i' = [w \in Worker |-> w]
  /\ count' = [w \in Worker |-> 0]
  /\ counts' = [w \in Worker |-> 0]
  /\ ctxDone' = FALSE
  /\ touched' = [w \in Worker |-> {}]
  /\ calls' = 0

\* Mutant of KeysNotSupported: the early return forgets the column.
KeysNotSupportedNoColumn ==
  /\ phase = "keys" /\ stage = "start"
  /\ ~keysSupported
  /\ values' = Append(values, -1)
  /\ phase' = "set"
  /\ UNCHANGED <<stage, keysSupported, wpc, i, count, counts, ctxDone, store,
                 headers, writer, wi, setCount, chClosed, touched, calls>>

\* testKeys, lines 247-253: the probe reports ErrNotSupported; record -1.
KeysNotSupported ==
  /\ phase = "keys" /\ stage = "start"
  /\ ~keysSupported
  /\ headers' = Append(headers, "Keys")
  /\ values' = Append(values, -1)
  /\ phase' = "set"
  /\ UNCHANGED <<stage, keysSupported, wpc, i, count, counts, ctxDone, store,
                 writer, wi, setCount, chClosed, touched, calls>>

\* testKeys (probe passed), testSet, testGet, testDelete: spawn the pool.
StartPhase ==
  /\ stage = "start"
  /\ phase \in {"set", "get", "del"} \/ (phase = "keys" /\ keysSupported)
  /\ Spawn
  /\ UNCHANGED <<phase, keysSupported, store, headers, values,
                 writer, wi, setCount, chClosed>>

\* testGetSet, lines 302-340: start the writer, then the readers.
StartGetSet ==
  /\ phase = "getset" /\ stage = "start"
  /\ writer' = "loop"
  /\ wi' = 0
  /\ setCount' = 0
  /\ chClosed' = FALSE
  /\ Spawn
  /\ UNCHANGED <<phase, keysSupported, store, headers, values>>

-----------------------------------------------------------------------------
(* One iteration of a worker's LOOP taking the default branch: one       *)
(* storage call, i advanced, count++.  The cap MaxOps bounds the model.   *)

CanCall(w) ==
  /\ stage = "wait" /\ wpc[w] = "run" /\ ~ctxDone
  /\ count[w] < MaxOps

Counted(w) ==
  /\ count' = [count EXCEPT ![w] = @ + 1]
  /\ calls' = calls + 1

Used(w) == touched' = [touched EXCEPT ![w] = @ \cup {i[w]}]

\* testKeys worker, lines 273-278: a failed scan resets i to index.  The
\* prefix is genKeyPrefix(i), three random bytes: i does not reach the store.
KeysOnce(w) ==
  /\ phase = "keys" /\ CanCall(w)
  /\ \E err \in BOOLEAN :
       i' = [i EXCEPT ![w] = (IF err THEN w ELSE i[w]) + C]
  /\ Counted(w)
  /\ UNCHANGED <<phase, stage, keysSupported, wpc, counts, ctxDone, store,
                 headers, values, writer, wi, setCount, chClosed, touched>>

\* testSet worker, lines 386-388.
SetOnce(w) ==
  /\ phase = "set" /\ CanCall(w)
  /\ \E l \in Lead : store' = store \cup {<<l, i[w]>>}
  /\ i' = [i EXCEPT ![w] = @ + C]
  /\ Counted(w) /\ Used(w)
  /\ UNCHANGED <<phase, stage, keysSupported, wpc, counts, ctxDone,
                 headers, values, writer, wi, setCount, chClosed>>

\* Mutants of GetOnce: the stride subtracted instead of added; a miss
\* resetting i to 0 instead of index; no reset on a miss.
GetOnceStrideDown(w) ==
  /\ phase = "get" /\ CanCall(w)
  /\ \E l \in Lead :
       LET ok == <<l, i[w]>> \in store
       IN  i' = [i EXCEPT ![w] = (IF ok THEN i[w] ELSE w) - C]
  /\ Counted(w) /\ Used(w)
  /\ UNCHANGED <<phase, stage, keysSupported, wpc, counts, ctxDone, store,
                 headers, values, writer, wi, setCount, chClosed>>

GetOnceResetToZero(w) ==
  /\ phase = "get" /\ CanCall(w)
  /\ \E l \in Lead :
       LET ok == <<l, i[w]>> \in store
       IN  i' = [i EXCEPT ![w] = (IF ok THEN i[w] ELSE 0) + C]
  /\ Counted(w) /\ Used(w)
  /\ UNCHANGED <<phase, stage, keysSupported, wpc, counts, ctxDone, store,
                 headers, values, writer, wi, setCount, chClosed>>

GetOnceNoReset(w) ==
  /\ phase = "get" /\ CanCall(w)
  /\ i' = [i EXCEPT ![w] = @ + C]
  /\ Counted(w) /\ Used(w)
  /\ UNCHANGED <<phase, stage, keysSupported, wpc, counts, ctxDone, store,
                 headers, values, writer, wi, setCount, chClosed>>

\* testGet worker, lines 221-226: on a miss i goes back to index.
GetOnce(w) ==
  /\ phase = "get" /\ CanCall(w)
  /\ \E l \in Lead :
       LET ok == <<l, i[w]>> \in store
       IN  i' = [i EXCEPT ![w] = (IF ok THEN i[w] ELSE w) + C]
  /\ Counted(w) /\ Used(w)
  /\ UNCHANGED <<phase, stage, keysSupported, wpc, counts, ctxDone, store,
                 headers, values, writer, wi, setCount, chClosed>>

\* testGetSet reader, lines 336-338: the result of Get is ignored.
MixedGetOnce(w) ==
  /\ phase = "getset" /\ CanCall(w)
  /\ i' = [i EXCEPT ![w] = @ + C]
  /\ Counted(w) /\ Used(w)
  /\ UNCHANGED <<phase, stage, keysSupported, wpc, counts, ctxDone, store,
                 headers, values, writer, wi, setCount, chClosed>>

\* testDelete worker, lines 427-429.
DelOnce(w) ==
  /\ phase = "del" /\ CanCall(w)
  /\ \E l \in Lead : store' = store \ {<<l, i[w]>>}
  /\ i' = [i EXCEPT ![w] = @ + C]
  /\ Counted(w) /\ Used(w)
  /\ UNCHANGED <<phase, stage, keysSupported, wpc, counts, ctxDone,
                 headers, values, writer, wi, setCount, chClosed>>

\* The ctx.Done() branch: counts[index] = count; wg.Done().
WorkerExit(w) ==
  /\ stage = "wait" /\ wpc[w] = "run" /\ ctxDone
  /\ counts' = [counts EXCEPT ![w] = count[w]]
  /\ wpc' = [wpc EXCEPT ![w] = "exited"]
  /\ UNCHANGED <<phase, stage, keysSupported, i, count, ctxDone, store,
                 headers, values, writer, wi, setCount, chClosed, touched,
                 calls>>

\* The timer of context.WithTimeout(ctx, *duration) fires.
Deadline ==
  /\ stage = "wait" /\ ~ctxDone
  /\ ctxDone' = TRUE
  /\ UNCHANGED <<phase, stage, keysSupported, wpc, i, count, counts, store,
                 headers, values, writer, wi, setCount, chClosed, touched,
                 calls>>

-----------------------------------------------------------------------------
(* wg.Wait() returns: sum the counts, print, append the column.           *)

AllExited == \A w \in Worker : wpc[w] = "exited"

\* The test function returns: its context, its counts slice and its
\* goroutines' locals are gone.
Return ==
  /\ wpc' = [w \in Worker |-> "idle"]
  /\ i' = [w \in Worker |-> 0]
  /\ count' = [w \in Worker |-> 0]
  /\ counts' = [w \in Worker |-> 0]
  /\ ctxDone' = FALSE
  /\ touched' = [w \in Worker |-> {}]
  /\ calls' = 0

\* Mutant of Finish: the counts are summed without wg.Wait().
FinishNoJoin ==
  /\ phase \in {"keys", "set", "get", "del"} /\ stage = "wait"
  /\ LET n == SumFunction(counts) IN
       IF MeanDividesByZero(n)
       THEN /\ stage' = "panicked"
            /\ UNCHANGED <<phase, headers, values>>
       ELSE \E d \in Elapsed :
              /\ headers' = Append(headers, RateHeader[phase])
              /\ values' = Append(values, Rate(n, d))
              /\ phase' = Following[phase]
              /\ stage' = "start"
  /\ Return
  /\ UNCHANGED <<keysSupported, store, writer, wi, setCount, chClosed>>

\* testKeys, testSet, testGet, testDelete after wg.Wait (e.g. 233-242).
Finish ==
  /\ phase \in {"keys", "set", "get", "del"} /\ stage = "wait"
  /\ AllExited
  /\ LET n == SumFunction(counts) IN
       IF MeanDividesByZero(n)
       THEN /\ stage' = "panicked"
            /\ UNCHANGED <<phase, headers, values>>
       ELSE \E d \in Elapsed :
              /\ headers' = Append(headers, RateHeader[phase])
              /\ values' = Append(values, Rate(n, d))
              /\ phase' = Following[phase]
              /\ stage' = "start"
  /\ Return
  /\ UNCHANGED <<keysSupported, store, writer, wi, setCount, chClosed>>

\* Mutant of FinishGetSet: close(ch) forgotten.
FinishGetSetNoClose ==
  /\ phase = "getset" /\ stage = "wait"
  /\ AllExited
  /\ UNCHANGED chClosed
  /\ \E seen \in 0 .. setCount, d \in Elapsed :
       LET n == SumFunction(counts)
           setCol == IF seen = 0 THEN -1 ELSE Rate(seen, d)
       IN  IF MeanDividesByZero(n)
           THEN /\ headers' = Append(headers, "Setmixed")
                /\ values' = Append(values, setCol)
                /\ stage' = "panicked"
                /\ UNCHANGED phase
           ELSE /\ headers' = headers \o <<"Setmixed", "Getmixed">>
                /\ values' = values \o <<setCol, Rate(n, d)>>
                /\ phase' = "del"
                /\ stage' = "start"
  /\ Return
  /\ UNCHANGED <<keysSupported, store, writer, wi, setCount>>

\* testGetSet, lines 345-363: close(ch) without waiting for the writer,
\* then read setCount, which the writer updates without synchronisation:
\* the racy read may return any value the counter has held.
FinishGetSet ==
  /\ phase = "getset" /\ stage = "wait"
  /\ AllExited
  /\ chClosed' = TRUE
  /\ \E seen \in 0 .. setCount, d \in Elapsed :
       LET n == SumFunction(counts)
           setCol == IF seen = 0 THEN -1 ELSE Rate(seen, d)
       IN  IF MeanDividesByZero(n)
           THEN /\ headers' = Append(headers, "Setmixed")
                /\ values' = Append(values, setCol)
                /\ stage' = "panicked"
                /\ UNCHANGED phase
           ELSE /\ headers' = headers \o <<"Setmixed", "Getmixed">>
                /\ values' = values \o <<setCol, Rate(n, d)>>
                /\ phase' = "del"
                /\ stage' = "start"
  /\ Return
  /\ UNCHANGED <<keysSupported, store, writer, wi, setCount>>

-----------------------------------------------------------------------------
(* The writer goroutine of testGetSet, lines 306-318.  It dies only with  *)
(* the process (a panic).                                                 *)

Alive == stage # "panicked"

\* select: ch is closed, return.
WriterStop ==
  /\ Alive /\ writer = "loop" /\ chClosed
  /\ writer' = "stopped"
  /\ UNCHANGED <<phase, stage, keysSupported, wpc, i, count, counts, ctxDone,
                 store, headers, values, wi, setCount, chClosed, touched,
                 calls>>

\* select: default branch taken; the Set call begins.
WriterBegin ==
  /\ Alive /\ writer = "loop" /\ ~chClosed
  /\ wi < MaxWrites
  /\ writer' = "set"
  /\ UNCHANGED <<phase, stage, keysSupported, wpc, i, count, counts, ctxDone,
                 store, headers, values, wi, setCount, chClosed, touched,
                 calls>>

\* Mutant of WriterSet: setCount++ forgotten.
WriterSetNoCount ==
  /\ Alive /\ writer = "set"
  /\ \E l \in Lead : store' = store \cup {<<l, wi>>}
  /\ wi' = wi + 1
  /\ writer' = "loop"
  /\ UNCHANGED <<phase, stage, keysSupported, wpc, i, count, counts, ctxDone,
                 headers, values, setCount, chClosed, touched, calls>>

\* store.Set(genKey(i), data); setCount++; i++.
WriterSet ==
  /\ Alive /\ writer = "set"
  /\ \E l \in Lead : store' = store \cup {<<l, wi>>}
  /\ setCount' = setCount + 1
  /\ wi' = wi + 1
  /\ writer' = "loop"
  /\ UNCHANGED <<phase, stage, keysSupported, wpc, i, count, counts, ctxDone,
                 headers, values, chClosed, touched, calls>>

\* testDelete has returned, or the process has panicked: nothing of these
\* phases is left to do (the writer may still be running).
Terminated ==
  /\ phase = "done" \/ stage = "panicked"
  /\ UNCHANGED vars

Next ==
  \/ KeysNotSupported \/ StartPhase \/ StartGetSet
  \/ \E w \in Worker :
       \/ KeysOnce(w) \/ SetOnce(w) \/ GetOnce(w) \/ MixedGetOnce(w)
       \/ DelOnce(w) \/ WorkerExit(w)
  \/ Deadline \/ Finish \/ FinishGetSet
  \/ WriterStop \/ WriterBegin \/ WriterSet
  \/ Terminated

(* Go's scheduler runs every runnable goroutine eventually and the timer  *)
(* of the context fires: every step that stays enabled is taken.          *)
Fairness ==
  /\ WF_vars(KeysNotSupported) /\ WF_vars(StartPhase) /\ WF_vars(StartGetSet)
  /\ \A w \in Worker :
       /\ WF_vars(KeysOnce(w)) /\ WF_vars(SetOnce(w)) /\ WF_vars(GetOnce(w))
       /\ WF_vars(MixedGetOnce(w)) /\ WF_vars(DelOnce(w))
       /\ WF_vars(WorkerExit(w))
  /\ WF_vars(Deadline) /\ WF_vars(Finish) /\ WF_vars(FinishGetSet)
  /\ WF_vars(WriterStop) /\ WF_vars(WriterBegin) /\ WF_vars(WriterSet)

Spec == Init /\ [][Next]_vars /\ Fairness

-----------------------------------------------------------------------------
(* Properties.                                                            *)

(* Worker j of a phase only uses indices j, j+c, j+2c, ... (testGet after *)
(* a miss as well), so no two workers of a phase touch the same key index. *)
StrideDisjoint ==
  \A w1, w2 \in Worker : w1 # w2 => touched[w1] \cap touched[w2] = {}

(* The inductive strengthening of StrideDisjoint (see KvBenchProofs): a   *)
(* running worker's index stays in its residue class modulo c, and so do  *)
(* the indices it used; the writer's counter is its index.                *)
ResidueInv ==
  \A w \in Worker :
    /\ wpc[w] # "idle" => i[w] % C = w
    /\ \A k \in touched[w] : k % C = w

WriterInv ==
  /\ setCount = wi
  /\ writer = "set" => wi < MaxWrites

IInv == TypeOK /\ ResidueInv /\ WriterInv

(* The miss-reset of testGet keeps its readers in the written key space:  *)
(* beyond its first two indices, a worker only reads index k after a hit  *)
(* on k - c, so some key with index k - c is in the store.                *)
WarmReadsIn(p) ==
  phase = p =>
    \A w \in Worker : \A k \in touched[w] :
      k < w + 2 * C \/ \E l \in Lead : <<l, k - C>> \in store

WarmReads == WarmReadsIn("get")

(* The inductive strengthening of WarmReads (see KvBenchProofs): during   *)
(* testGet a spawned worker's next index is one of its first two, or it   *)
(* follows a hit on the index one stride below.                           *)
WarmIdx ==
  phase = "get" =>
    \A w \in Worker : wpc[w] # "idle" =>
      i[w] < w + 2 * C \/ \E l \in Lead : <<l, i[w] - C>> \in store

(* The spec says the readers of testGetSet follow the point-get pattern;  *)
(* the same claim for them.                                               *)
MixedWarmReads == WarmReadsIn("getset")

(* When main leaves wg.Wait, the per-worker counts it sums add up to      *)
(* exactly the storage calls the workers made: none lost, none counted    *)
(* twice.                                                                 *)
AggregateExact ==
  [][stage = "wait" /\ stage' # "wait" => SumFunction(counts) = calls]_vars

(* The writer of testGetSet eventually returns (or the process dies):     *)
(* close(ch) is not forgotten.                                            *)
WriterStops == <>(writer = "stopped" \/ stage = "panicked")

(* Phases never overlap: every Set of the testGetSet writer happens while *)
(* testGetSet is running.                                                 *)
WriterConfinedToMixedPhase ==
  [][writer = "set" /\ writer' = "loop" => phase = "getset"]_vars

(* The printed mean latency d/(n*c) never divides by zero.                *)
NoDivideByZero == stage # "panicked"

-----------------------------------------------------------------------------
(* Refinement: the phases as main sees them.  The abstract phase is the    *)
(* phase, the run is aborted when the phase panicked, and the headers are  *)
(* the record's headers; everything else is hidden.                        *)
Abs == INSTANCE PhaseAbstract WITH aborted <- (stage = "panicked")

(* The phases implement PhaseAbstract: main runs them in the order of      *)
(* main.go 80-84, each phase that returns appends exactly its columns,     *)
(* one that panics appends a strict prefix of them and ends the run, and  *)
(* under the scheduler's fairness every phase ends.                       *)
PhaseRefinement == Abs!ASpec

=============================================================================
