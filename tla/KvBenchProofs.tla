---------------------------- MODULE KvBenchProofs ---------------------------
(***************************************************************************)
(* Proofs about KvBench for every worker count c >= 1 and every bound.     *)
(*                                                                         *)
(* StrideDisjoint is not inductive: a step adds i[w] to touched[w], and    *)
(* nothing in StrideDisjoint says where i[w] is.  IInv says it: while a    *)
(* worker runs, its index is congruent to its id modulo c (spawned at j,   *)
(* advanced by c, reset to j + c), so every index it uses is too, and      *)
(* two workers with different ids never share one.  IInv also carries the *)
(* writer facts TypeOK needs: setCount equals the writer's index, and a    *)
(* Set in flight is below the bound.                                       *)
(***************************************************************************)
EXTENDS KvBench, SequenceTheorems, TLAPS

(* x % c is the r of any decomposition x = q * c + r with 0 <= r < c.    *)
LEMMA ModUnique ==
  ASSUME NEW x \in Int, NEW q \in Int, NEW r \in 0 .. C - 1,
         x = q * C + r
  PROVE  x % C = r
BY CAssumption

(* The decomposition of a natural number by c.                            *)
LEMMA ModSplit ==
  ASSUME NEW a \in Nat
  PROVE  /\ a % C = a - C * (a \div C)
         /\ a % C \in 0 .. C - 1
         /\ a \div C \in Int
BY CAssumption

(* Adding the stride c keeps an index in its residue class modulo c.      *)
LEMMA StrideResidue ==
  ASSUME NEW a \in Nat
  PROVE  (a + C) % C = a % C
<1>1. PICK q \in Int, r \in 0 .. C - 1 : r = a - C * q /\ r = a % C
  BY ModSplit
<1>2. a + C = (q + 1) * C + r
  BY <1>1, CAssumption
<1>. QED
  BY <1>1, <1>2, ModUnique, CAssumption

(* A worker id is its own residue.                                        *)
LEMMA WorkerResidue ==
  ASSUME NEW w \in Worker
  PROVE  /\ w \in Nat
         /\ w % C = w
         /\ (w + C) % C = w
BY CAssumption DEF Worker

LEMMA InitIInv == Init => IInv
BY CAssumption, BoundsAssumption
DEF Init, IInv, TypeOK, ResidueInv, WriterInv, Worker, PhaseName

(* Spawning a pool puts every worker at its own id.                       *)
LEMMA SpawnResidue ==
  ASSUME Spawn
  PROVE  ResidueInv'
BY WorkerResidue DEF Spawn, ResidueInv

(* A worker step of worker w moves i[w] to r + c where r is i[w] or w,    *)
(* and may add i[w] to touched[w]; no other worker's state changes.       *)
LEMMA StepResidue ==
  ASSUME TypeOK, ResidueInv,
         NEW w \in Worker,
         wpc[w] = "run",
         NEW r \in {i[w], w},
         i' = [i EXCEPT ![w] = r + C],
         \/ touched' = [touched EXCEPT ![w] = @ \cup {i[w]}]
         \/ touched' = touched,
         UNCHANGED wpc
  PROVE  ResidueInv'
<1>1. i[w] % C = w /\ i[w] \in Nat
  BY DEF TypeOK, ResidueInv
<1>2. (r + C) % C = w
  <2>1. CASE r = i[w]
    BY <1>1, <2>1, StrideResidue
  <2>2. CASE r = w
    BY <2>2, WorkerResidue
  <2>. QED
    BY <2>1, <2>2
<1>3. i[w] % C = w
  BY DEF TypeOK, ResidueInv
<1>. SUFFICES ASSUME NEW v \in Worker
              PROVE  /\ wpc'[v] # "idle" => i'[v] % C = v
                     /\ \A k \in touched'[v] : k % C = v
  BY DEF ResidueInv
<1>4. CASE v = w
  <2>1. wpc'[v] # "idle" => i'[v] % C = v
    BY <1>2, <1>4 DEF TypeOK
  <2>2. \A k \in touched'[v] : k % C = v
    <3>1. \A k \in touched[w] : k % C = w
      BY DEF ResidueInv
    <3>2. CASE touched' = [touched EXCEPT ![w] = @ \cup {i[w]}]
      <4>1. touched'[v] = touched[w] \cup {i[w]}
        BY <1>4, <3>2 DEF TypeOK
      <4>. QED
        BY <1>3, <1>4, <3>1, <4>1
    <3>3. CASE touched' = touched
      BY <1>4, <3>1, <3>3
    <3>. QED
      BY <3>2, <3>3
  <2>. QED
    BY <2>1, <2>2
<1>5. CASE v # w
  BY <1>5 DEF TypeOK, ResidueInv
<1>. QED
  BY <1>4, <1>5

(* Spawning a pool gives the pool's variables their types.               *)
LEMMA SpawnType ==
  ASSUME Spawn
  PROVE  /\ stage' \in {"start", "wait", "panicked"}
         /\ wpc' \in [Worker -> {"idle", "run", "exited"}]
         /\ i' \in [Worker -> Nat]
         /\ count' \in [Worker -> 0 .. MaxOps]
         /\ counts' \in [Worker -> 0 .. MaxOps]
         /\ ctxDone' \in BOOLEAN
         /\ touched' \in [Worker -> SUBSET Nat]
         /\ calls' \in Nat
<1>1. i' \in [Worker -> Nat]
  BY CAssumption DEF Spawn, Worker
<1>2. 0 \in 0 .. MaxOps
  BY BoundsAssumption
<1>. QED
  BY <1>1, <1>2 DEF Spawn

(* One counted storage call of worker w keeps the worker variables typed. *)
LEMMA CallType ==
  ASSUME TypeOK, NEW w \in Worker, CanCall(w), Counted(w),
         NEW r \in Nat, i' = [i EXCEPT ![w] = r + C],
         \/ touched' = [touched EXCEPT ![w] = @ \cup {i[w]}]
         \/ touched' = touched
  PROVE  /\ i' \in [Worker -> Nat]
         /\ count' \in [Worker -> 0 .. MaxOps]
         /\ touched' \in [Worker -> SUBSET Nat]
         /\ calls' \in Nat
<1>1. i' \in [Worker -> Nat]
  BY CAssumption DEF TypeOK
<1>2. count' \in [Worker -> 0 .. MaxOps]
  <2>1. count[w] + 1 \in 0 .. MaxOps
    BY BoundsAssumption DEF TypeOK, CanCall
  <2>. QED
    BY <2>1 DEF TypeOK, Counted
<1>3. touched' \in [Worker -> SUBSET Nat]
  <2>1. touched[w] \cup {i[w]} \in SUBSET Nat
    BY DEF TypeOK
  <2>. QED
    BY <2>1 DEF TypeOK
<1>4. calls' \in Nat
  BY DEF TypeOK, Counted
<1>. QED
  BY <1>1, <1>2, <1>3, <1>4

(* A test function returning leaves its pool's variables typed.          *)
LEMMA ReturnType ==
  ASSUME Return
  PROVE  /\ wpc' \in [Worker -> {"idle", "run", "exited"}]
         /\ i' \in [Worker -> Nat]
         /\ count' \in [Worker -> 0 .. MaxOps]
         /\ counts' \in [Worker -> 0 .. MaxOps]
         /\ ctxDone' \in BOOLEAN
         /\ touched' \in [Worker -> SUBSET Nat]
         /\ calls' \in Nat
<1>1. 0 \in 0 .. MaxOps
  BY BoundsAssumption
<1>. QED
  BY <1>1 DEF Return

(* The steps that change none of wpc, i, touched.                         *)
LEMMA FrameResidue ==
  ASSUME ResidueInv, UNCHANGED <<wpc, i, touched>>
  PROVE  ResidueInv'
BY DEF ResidueInv

LEMMA NextIInv == IInv /\ [Next]_vars => IInv'
<1> SUFFICES ASSUME TypeOK, ResidueInv, WriterInv, [Next]_vars
             PROVE  TypeOK' /\ ResidueInv' /\ WriterInv'
  BY DEF IInv
<1>. USE CAssumption, BoundsAssumption, ElapsedAssumption, LeadAssumption
<1>1. CASE KeysNotSupported
  <2>1. headers' \in Seq(ColumnName)
    BY <1>1 DEF KeysNotSupported, TypeOK, ColumnName
  <2>2. phase' \in PhaseName
    BY <1>1 DEF KeysNotSupported, PhaseName
  <2>. QED
    BY <1>1, <2>1, <2>2, FrameResidue DEF KeysNotSupported, TypeOK, WriterInv
<1>2. CASE StartPhase
  <2>1. TypeOK'
    BY <1>2, SpawnType DEF StartPhase, TypeOK
  <2>. QED
    BY <1>2, <2>1, SpawnResidue DEF StartPhase, WriterInv
<1>3. CASE StartGetSet
  <2>0. Spawn /\ 0 \in 0 .. MaxWrites
    BY <1>3 DEF StartGetSet
  <2>1. TypeOK'
    BY <1>3, <2>0, SpawnType DEF StartGetSet, TypeOK
  <2>2. WriterInv'
    BY <1>3 DEF StartGetSet, WriterInv
  <2>. QED
    BY <1>3, <2>1, <2>2, SpawnResidue DEF StartGetSet
<1>4. ASSUME NEW w \in Worker, KeysOnce(w) PROVE TypeOK' /\ ResidueInv' /\ WriterInv'
  <2>1. PICK err \in BOOLEAN :
          i' = [i EXCEPT ![w] = (IF err THEN w ELSE i[w]) + C]
    BY <1>4 DEF KeysOnce
  <2>2. PICK r \in {i[w], w} : i' = [i EXCEPT ![w] = r + C]
    BY <2>1
  <2>3. ResidueInv'
    BY <1>4, <2>2, StepResidue DEF KeysOnce, CanCall
  <2>4. TypeOK'
    <3>1. r \in Nat
      BY DEF TypeOK, Worker
    <3>. QED
      BY <1>4, <2>2, <3>1, CallType DEF KeysOnce, TypeOK
  <2>. QED
    BY <1>4, <2>3, <2>4 DEF KeysOnce, WriterInv
<1>5. ASSUME NEW w \in Worker, SetOnce(w) PROVE TypeOK' /\ ResidueInv' /\ WriterInv'
  <2>1. ResidueInv'
    BY <1>5, StepResidue DEF SetOnce, CanCall, Used
  <2>2. TypeOK'
    <3>1. store' \subseteq Key
      BY <1>5 DEF SetOnce, TypeOK, Key
    <3>. QED
      BY <1>5, <3>1, CallType DEF SetOnce, Used, TypeOK
  <2>. QED
    BY <1>5, <2>1, <2>2 DEF SetOnce, WriterInv
<1>6. ASSUME NEW w \in Worker, GetOnce(w) PROVE TypeOK' /\ ResidueInv' /\ WriterInv'
  <2>1. PICK l \in Lead :
          i' = [i EXCEPT ![w] = (IF <<l, i[w]>> \in store THEN i[w] ELSE w) + C]
    BY <1>6 DEF GetOnce
  <2>2. PICK r \in {i[w], w} : i' = [i EXCEPT ![w] = r + C]
    BY <2>1
  <2>3. ResidueInv'
    BY <1>6, <2>2, StepResidue DEF GetOnce, CanCall, Used
  <2>4. TypeOK'
    <3>1. r \in Nat
      BY DEF TypeOK, Worker
    <3>. QED
      BY <1>6, <2>2, <3>1, CallType DEF GetOnce, Used, TypeOK
  <2>. QED
    BY <1>6, <2>3, <2>4 DEF GetOnce, WriterInv
<1>7. ASSUME NEW w \in Worker, MixedGetOnce(w) PROVE TypeOK' /\ ResidueInv' /\ WriterInv'
  <2>1. ResidueInv'
    BY <1>7, StepResidue DEF MixedGetOnce, CanCall, Used
  <2>2. TypeOK'
    BY <1>7, CallType DEF MixedGetOnce, Used, TypeOK
  <2>. QED
    BY <1>7, <2>1, <2>2 DEF MixedGetOnce, WriterInv
<1>8. ASSUME NEW w \in Worker, DelOnce(w) PROVE TypeOK' /\ ResidueInv' /\ WriterInv'
  <2>1. ResidueInv'
    BY <1>8, StepResidue DEF DelOnce, CanCall, Used
  <2>2. TypeOK'
    <3>1. store' \subseteq Key
      BY <1>8 DEF DelOnce, TypeOK
    <3>. QED
      BY <1>8, <3>1, CallType DEF DelOnce, Used, TypeOK
  <2>. QED
    BY <1>8, <2>1, <2>2 DEF DelOnce, WriterInv
<1>9. ASSUME NEW w \in Worker, WorkerExit(w) PROVE TypeOK' /\ ResidueInv' /\ WriterInv'
  \* an exited worker is not idle: its residue fact is kept
  BY <1>9 DEF WorkerExit, TypeOK, ResidueInv, WriterInv
<1>10. CASE Deadline
  BY <1>10, FrameResidue DEF Deadline, TypeOK, WriterInv
<1>11. CASE Finish
  <2>1. ResidueInv'
    BY <1>11 DEF Finish, Return, ResidueInv
  <2>2. TypeOK'
    <3>1. Return
      BY <1>11 DEF Finish
    <3>2. /\ phase' \in PhaseName
          /\ stage' \in {"start", "wait", "panicked"}
          /\ headers' \in Seq(ColumnName)
      <4>1. CASE MeanDividesByZero(SumFunction(counts))
        BY <1>11, <4>1 DEF Finish, TypeOK
      <4>2. CASE ~MeanDividesByZero(SumFunction(counts))
        <5>1. RateHeader[phase] \in ColumnName /\ Following[phase] \in PhaseName
          BY <1>11 DEF Finish, RateHeader, ColumnName, Following, PhaseName
        <5>2. /\ headers' = Append(headers, RateHeader[phase])
              /\ phase' = Following[phase]
              /\ stage' = "start"
          BY <1>11, <4>2 DEF Finish
        <5>. QED
          BY <5>1, <5>2 DEF TypeOK
      <4>. QED
        BY <4>1, <4>2
    <3>. QED
      BY <1>11, <3>1, <3>2, ReturnType DEF Finish, TypeOK
  <2>. QED
    BY <1>11, <2>1, <2>2 DEF Finish, WriterInv
<1>12. CASE FinishGetSet
  <2>1. ResidueInv'
    BY <1>12 DEF FinishGetSet, Return, ResidueInv
  <2>2. TypeOK'
    <3>1. Return
      BY <1>12 DEF FinishGetSet
    <3>2. /\ phase' \in PhaseName
          /\ stage' \in {"start", "wait", "panicked"}
          /\ headers' \in Seq(ColumnName)
      <4>1. CASE MeanDividesByZero(SumFunction(counts))
        <5>1. /\ headers' = Append(headers, "Setmixed")
              /\ stage' = "panicked"
              /\ phase' = phase
          BY <1>12, <4>1 DEF FinishGetSet
        <5>. QED
          BY <5>1 DEF TypeOK, ColumnName
      <4>2. CASE ~MeanDividesByZero(SumFunction(counts))
        <5>1. /\ headers' = headers \o <<"Setmixed", "Getmixed">>
              /\ stage' = "start"
              /\ phase' = "del"
          BY <1>12, <4>2 DEF FinishGetSet
        <5>. QED
          BY <5>1 DEF TypeOK, ColumnName, PhaseName
      <4>. QED
        BY <4>1, <4>2
    <3>. QED
      BY <1>12, <3>1, <3>2, ReturnType DEF FinishGetSet, TypeOK
  <2>. QED
    BY <1>12, <2>1, <2>2 DEF FinishGetSet, WriterInv
<1>13. CASE WriterStop
  BY <1>13, FrameResidue DEF WriterStop, TypeOK, WriterInv
<1>14. CASE WriterBegin
  BY <1>14, FrameResidue DEF WriterBegin, TypeOK, WriterInv
<1>15. CASE WriterSet
  BY <1>15, FrameResidue DEF WriterSet, TypeOK, WriterInv, Key
<1>16. CASE Terminated \/ UNCHANGED vars
  BY <1>16, FrameResidue DEF Terminated, vars, TypeOK, WriterInv
<1>. QED
  BY <1>1, <1>2, <1>3, <1>4, <1>5, <1>6, <1>7, <1>8, <1>9, <1>10, <1>11,
     <1>12, <1>13, <1>14, <1>15, <1>16 DEF Next

THEOREM InductiveInvariant == Spec => []IInv
BY InitIInv, NextIInv, PTL DEF Spec

(* Every variable but record.Values keeps its type in every run.          *)
THEOREM TypeCorrect == Spec => []TypeOK
BY InductiveInvariant, PTL DEF IInv

(* No two workers of a phase ever use the same key index, whatever c.     *)
THEOREM StrideDisjointness == Spec => []StrideDisjoint
<1>1. IInv => StrideDisjoint
  <2> SUFFICES ASSUME IInv, NEW w1 \in Worker, NEW w2 \in Worker, w1 # w2,
                      NEW k \in touched[w1] \cap touched[w2]
               PROVE  FALSE
    BY DEF StrideDisjoint
  <2>. QED
    BY DEF IInv, ResidueInv
<1>. QED
  BY <1>1, InductiveInvariant, PTL
-----------------------------------------------------------------------------
(* WarmReads.  It is not inductive: a testGet worker adds i[w] to touched  *)
(* and nothing in WarmReads says where i[w] is.  WarmIdx says it: a        *)
(* spawned worker's next index is one of its first two (j or j + c after a *)
(* miss) or one stride above an index it hit.  During testGet only Sets of *)
(* the writer change the store, and they only add keys.                    *)

WarmInv == IInv /\ WarmIdx /\ WarmReads

(* A step that resets the pool (a phase returning or panicking) keeps both. *)
LEMMA ResetWarm ==
  ASSUME wpc' = [w \in Worker |-> "idle"], touched' = [w \in Worker |-> {}]
  PROVE  WarmIdx' /\ WarmReads'
BY DEF WarmIdx, WarmReads, WarmReadsIn

(* Spawning the pool keeps both: worker j starts at j < j + 2c.            *)
LEMMA SpawnWarm ==
  ASSUME Spawn PROVE WarmIdx' /\ WarmReads'
<1>1. \A w \in Worker : w \in Nat
  BY CAssumption DEF Worker
<1>2. \A w \in Worker : w < w + 2 * C
  BY <1>1, CAssumption
<1>. QED
  BY <1>2 DEF Spawn, WarmIdx, WarmReads, WarmReadsIn

(* A step that moves no index, uses no index, spawns no worker and only    *)
(* adds keys keeps both.                                                   *)
LEMMA FrameWarm ==
  ASSUME WarmIdx, WarmReads, UNCHANGED <<phase, i, touched>>,
         store \subseteq store',
         \A w \in Worker : wpc'[w] # "idle" => wpc[w] # "idle"
  PROVE  WarmIdx' /\ WarmReads'
<1>1. WarmIdx'
  BY DEF WarmIdx
<1>2. WarmReads'
  BY DEF WarmReads, WarmReadsIn
<1>. QED
  BY <1>1, <1>2

(* One testGet call: the index used satisfies WarmReads by WarmIdx; after  *)
(* a hit the next index is one stride above a present key, after a miss it *)
(* is j + c.                                                               *)
LEMMA GetOnceWarm ==
  ASSUME TypeOK, WarmIdx, WarmReads, NEW w \in Worker, GetOnce(w)
  PROVE  WarmIdx' /\ WarmReads'
<1>1. PICK l \in Lead :
        i' = [i EXCEPT ![w] = (IF <<l, i[w]>> \in store THEN i[w] ELSE w) + C]
  BY DEF GetOnce
<1>2. /\ phase = "get" /\ phase' = "get" /\ wpc[w] = "run"
      /\ store' = store /\ wpc' = wpc
      /\ touched' = [touched EXCEPT ![w] = @ \cup {i[w]}]
  BY DEF GetOnce, CanCall, Used
<1>3. /\ i \in [Worker -> Nat] /\ touched \in [Worker -> SUBSET Nat]
      /\ w \in Nat /\ C \in Nat \ {0}
  BY CAssumption DEF TypeOK, Worker
<1>4. i[w] < w + 2 * C \/ \E m \in Lead : <<m, i[w] - C>> \in store
  BY <1>2 DEF WarmIdx
<1>5. WarmIdx'
  <2> SUFFICES ASSUME NEW v \in Worker, wpc'[v] # "idle"
               PROVE  i'[v] < v + 2 * C \/ \E m \in Lead : <<m, i'[v] - C>> \in store'
    BY <1>2 DEF WarmIdx
  <2>1. CASE v = w /\ <<l, i[w]>> \in store
    <3>1. i'[v] - C = i[w]
      BY <1>1, <1>3, <2>1
    <3>. QED
      BY <1>2, <2>1, <3>1
  <2>2. CASE v = w /\ <<l, i[w]>> \notin store
    <3>1. i'[v] = w + C
      BY <1>1, <1>3, <2>2
    <3>. QED
      BY <1>3, <2>2, <3>1
  <2>3. CASE v # w
    BY <1>1, <1>2, <2>3 DEF WarmIdx
  <2>. QED
    BY <2>1, <2>2, <2>3
<1>6. WarmReads'
  <2> SUFFICES ASSUME NEW v \in Worker, NEW k \in touched'[v]
               PROVE  k < v + 2 * C \/ \E m \in Lead : <<m, k - C>> \in store'
    BY <1>2 DEF WarmReads, WarmReadsIn
  <2>1. CASE v = w /\ k = i[w]
    BY <1>2, <1>4, <2>1
  <2>2. CASE ~(v = w /\ k = i[w])
    <3>1. k \in touched[v]
      BY <1>2, <1>3, <2>2
    <3>. QED
      BY <1>2, <3>1 DEF WarmReads, WarmReadsIn
  <2>. QED
    BY <2>1, <2>2
<1>. QED
  BY <1>5, <1>6

LEMMA NextWarm == WarmInv /\ [Next]_vars => WarmInv'
<1> SUFFICES ASSUME WarmInv, [Next]_vars PROVE WarmIdx' /\ WarmReads'
  BY NextIInv DEF WarmInv
<1> USE DEF WarmInv
<1>1. TypeOK
  BY DEF IInv
<1>2. CASE KeysNotSupported \/ StartGetSet
  BY <1>2 DEF KeysNotSupported, StartGetSet, WarmIdx, WarmReads, WarmReadsIn
<1>3. CASE StartPhase
  BY <1>3, SpawnWarm DEF StartPhase
<1>4. ASSUME NEW w \in Worker,
             KeysOnce(w) \/ SetOnce(w) \/ MixedGetOnce(w) \/ DelOnce(w)
      PROVE  WarmIdx' /\ WarmReads'
  BY <1>4 DEF KeysOnce, SetOnce, MixedGetOnce, DelOnce, CanCall,
              WarmIdx, WarmReads, WarmReadsIn
<1>5. ASSUME NEW w \in Worker, GetOnce(w) PROVE WarmIdx' /\ WarmReads'
  BY <1>1, <1>5, GetOnceWarm
<1>6. ASSUME NEW w \in Worker, WorkerExit(w) PROVE WarmIdx' /\ WarmReads'
  BY <1>6, FrameWarm DEF WorkerExit
<1>7. CASE Finish \/ FinishGetSet
  BY <1>7, ResetWarm DEF Finish, FinishGetSet, Return
<1>8. CASE Deadline \/ WriterStop \/ WriterBegin
  BY <1>8, FrameWarm DEF Deadline, WriterStop, WriterBegin
<1>9. CASE WriterSet
  BY <1>9, FrameWarm DEF WriterSet
<1>10. CASE Terminated \/ UNCHANGED vars
  BY <1>10 DEF Terminated, vars, WarmIdx, WarmReads, WarmReadsIn
<1>. QED
  BY <1>2, <1>3, <1>4, <1>5, <1>6, <1>7, <1>8, <1>9, <1>10 DEF Next

LEMMA InitWarm == Init => WarmInv
BY InitIInv DEF Init, WarmInv, WarmIdx, WarmReads, WarmReadsIn

(* Beyond its first two indices, a testGet worker only reads index k after *)
(* a hit on k - c (the miss-reset of main.go 224), for every c and bound.   *)
THEOREM WarmReadsHold == Spec => []WarmReads
<1>1. Spec => []WarmInv
  BY InitWarm, NextWarm, PTL DEF Spec
<1>. QED
  BY <1>1, PTL DEF WarmInv

-----------------------------------------------------------------------------
(* The refinement of PhaseAbstract, its safety part.  Only the phase ends  *)
(* change the abstract state, and each one is an abstract Complete or      *)
(* Abort; the worker, writer, deadline and spawn steps leave phase,        *)
(* headers and the panicked flag alone and are abstract stutters.          *)

AbsVars == <<phase, stage = "panicked", headers>>

LEMMA PhaseInit == Init => Abs!AInit
BY DEF Init, Abs!AInit

(* A single-rate phase appends the one column PhaseAbstract gives it, and  *)
(* main calls the phase PhaseAbstract puts next.                           *)
LEMMA RateColumns ==
  ASSUME NEW p \in {"keys", "set", "get", "del"}
  PROVE  /\ Abs!Columns[p] = <<RateHeader[p]>>
         /\ Abs!NextPhase[p] = Following[p]
         /\ Len(Abs!Columns[p]) = 1
BY DEF Abs!Columns, Abs!NextPhase, RateHeader, Following

(* Appending x is concatenating <<x>>, and an empty prefix changes nothing. *)
LEMMA HeaderSteps ==
  ASSUME NEW s \in Seq(ColumnName), NEW x \in ColumnName
  PROVE  /\ Append(s, x) = s \o <<x>>
         /\ s \o SubSeq(<<x>>, 1, 0) = s
<1>1. Append(s, x) = s \o <<x>>
  BY AppendIsConcat
<1>2. SubSeq(<<x>>, 1, 0) = <<>>
  OBVIOUS
<1>. QED
  BY <1>1, <1>2, ConcatEmptySeq

(* The panic of testGetSet leaves the first of its two columns.          *)
LEMMA MixedPrefix == SubSeq(<<"Setmixed", "Getmixed">>, 1, 1) = <<"Setmixed">>
<1> DEFINE s == SubSeq(<<"Setmixed", "Getmixed">>, 1, 1)
<1>1. /\ s \in Seq({"Setmixed", "Getmixed"})
      /\ <<"Setmixed">> \in Seq({"Setmixed", "Getmixed"})
  OBVIOUS
<1>2. /\ Len(s) = Len(<<"Setmixed">>)
      /\ \A j \in 1 .. Len(s) : s[j] = <<"Setmixed">>[j]
  OBVIOUS
<1>. QED
  BY <1>1, <1>2, SeqEqual

(* testKeys' early return is the abstract Complete of "keys".             *)
LEMMA KeysNotSupportedRefines ==
  TypeOK /\ KeysNotSupported => Abs!ANext
<1> SUFFICES ASSUME TypeOK, KeysNotSupported PROVE Abs!Complete
  BY DEF Abs!ANext
<1>1. headers \in Seq(ColumnName) /\ "Keys" \in ColumnName
  BY DEF TypeOK, ColumnName
<1>2. headers' = headers \o <<"Keys">>
  BY <1>1, HeaderSteps DEF KeysNotSupported
<1>3. Abs!Columns["keys"] = <<"Keys">> /\ Abs!NextPhase["keys"] = "set"
  BY DEF Abs!Columns, Abs!NextPhase
<1>. QED
  BY <1>2, <1>3 DEF KeysNotSupported, Abs!Complete, Abs!Running

(* The end of a single-rate phase: the panic of a zero mean is an Abort   *)
(* that appended nothing, the return a Complete.                           *)
LEMMA FinishRefines ==
  TypeOK /\ Finish => Abs!ANext
<1> SUFFICES ASSUME TypeOK, Finish PROVE Abs!ANext
  OBVIOUS
<1>1. phase \in {"keys", "set", "get", "del"} /\ stage = "wait"
  BY DEF Finish
<1>2. /\ headers \in Seq(ColumnName)
      /\ RateHeader[phase] \in ColumnName
      /\ Abs!Columns[phase] = <<RateHeader[phase]>>
      /\ Abs!NextPhase[phase] = Following[phase]
      /\ Len(Abs!Columns[phase]) = 1
  BY <1>1 DEF TypeOK, ColumnName, RateHeader, Abs!Columns, Abs!NextPhase,
              Following
<1> DEFINE n == SumFunction(counts)
<1>3. CASE MeanDividesByZero(n)
  <2>1. stage' = "panicked" /\ headers' = headers /\ phase' = phase
    BY <1>3 DEF Finish
  <2>2. headers' = headers \o SubSeq(Abs!Columns[phase], 1, 0)
    BY <1>2, <2>1, HeaderSteps
  <2>3. 0 \in 0 .. Len(Abs!Columns[phase]) - 1
    BY <1>2
  <2>4. Abs!Abort
    BY <1>1, <2>1, <2>2, <2>3 DEF Abs!Abort, Abs!Running
  <2>. QED
    BY <2>4 DEF Abs!ANext
<1>4. CASE ~MeanDividesByZero(n)
  <2>1. headers' = Append(headers, RateHeader[phase])
        /\ phase' = Following[phase] /\ stage' = "start"
    BY <1>4 DEF Finish
  <2>2. headers' = headers \o Abs!Columns[phase]
    BY <1>2, <2>1, HeaderSteps
  <2>3. Abs!Complete
    BY <1>1, <1>2, <2>1, <2>2 DEF Abs!Complete, Abs!Running
  <2>. QED
    BY <2>3 DEF Abs!ANext
<1>. QED
  BY <1>3, <1>4

(* The end of testGetSet: a panic after the Setmixed column is an Abort   *)
(* with a one-column prefix, the return a Complete with both columns.      *)
LEMMA FinishGetSetRefines ==
  TypeOK /\ FinishGetSet => Abs!ANext
<1> SUFFICES ASSUME TypeOK, FinishGetSet PROVE Abs!ANext
  OBVIOUS
<1>1. /\ Abs!Columns["getset"] = <<"Setmixed", "Getmixed">>
      /\ Abs!NextPhase["getset"] = "del"
      /\ Len(Abs!Columns["getset"]) = 2
  BY DEF Abs!Columns, Abs!NextPhase
<1>2. phase = "getset" /\ stage = "wait"
  BY DEF FinishGetSet
<1>3. headers \in Seq(ColumnName) /\ "Setmixed" \in ColumnName
  BY DEF TypeOK, ColumnName
<1> DEFINE n == SumFunction(counts)
<1>4. CASE MeanDividesByZero(n)
  <2>1. headers' = Append(headers, "Setmixed") /\ stage' = "panicked"
        /\ phase' = phase
    BY <1>4 DEF FinishGetSet
  <2>2. headers' = headers \o SubSeq(Abs!Columns[phase], 1, 1)
    BY <1>1, <1>2, <1>3, <2>1, HeaderSteps, MixedPrefix
  <2>3. 1 \in 0 .. Len(Abs!Columns[phase]) - 1
    BY <1>1, <1>2
  <2>4. Abs!Abort
    BY <1>2, <2>1, <2>2, <2>3 DEF Abs!Abort, Abs!Running
  <2>. QED
    BY <2>4 DEF Abs!ANext
<1>5. CASE ~MeanDividesByZero(n)
  <2>1. headers' = headers \o <<"Setmixed", "Getmixed">> /\ phase' = "del"
        /\ stage' = "start"
    BY <1>5 DEF FinishGetSet
  <2>2. Abs!Complete
    BY <1>1, <1>2, <2>1 DEF Abs!Complete, Abs!Running
  <2>. QED
    BY <2>2 DEF Abs!ANext
<1>. QED
  BY <1>4, <1>5

(* Every other step leaves the abstract state unchanged.                   *)
LEMMA PhaseStep == TypeOK /\ [Next]_vars => [Abs!ANext]_AbsVars
<1> SUFFICES ASSUME TypeOK, [Next]_vars PROVE [Abs!ANext]_AbsVars
  OBVIOUS
<1>1. CASE KeysNotSupported
  BY <1>1, KeysNotSupportedRefines
<1>2. CASE Finish
  BY <1>2, FinishRefines
<1>3. CASE FinishGetSet
  BY <1>3, FinishGetSetRefines
<1>4. CASE StartPhase \/ StartGetSet
  BY <1>4 DEF StartPhase, StartGetSet, Spawn, AbsVars
<1>5. CASE \E w \in Worker :
             \/ KeysOnce(w) \/ SetOnce(w) \/ GetOnce(w) \/ MixedGetOnce(w)
             \/ DelOnce(w) \/ WorkerExit(w)
  BY <1>5 DEF KeysOnce, SetOnce, GetOnce, MixedGetOnce, DelOnce, WorkerExit,
              CanCall, AbsVars
<1>6. CASE Deadline \/ WriterStop \/ WriterBegin \/ WriterSet
  BY <1>6 DEF Deadline, WriterStop, WriterBegin, WriterSet, AbsVars
<1>7. CASE Terminated \/ UNCHANGED vars
  BY <1>7 DEF Terminated, vars, AbsVars
<1>. QED
  BY <1>1, <1>2, <1>3, <1>4, <1>5, <1>6, <1>7 DEF Next

(* The phases, as main sees them, follow PhaseAbstract step for step: in   *)
(* the order of main.go 80-84, each appending its columns or, on a panic,  *)
(* a strict prefix of them (the fairness part of PhaseRefinement is left   *)
(* to TLC).                                                                *)
THEOREM PhasesRefineAbstract == Spec => Abs!AInit /\ [][Abs!ANext]_AbsVars
<1>1. IInv /\ [Next]_vars => [Abs!ANext]_AbsVars
  BY PhaseStep DEF IInv
<1>. QED
  BY <1>1, PhaseInit, InductiveInvariant, PTL DEF Spec

=============================================================================
