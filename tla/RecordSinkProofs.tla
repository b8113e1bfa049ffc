-------------------------- MODULE RecordSinkProofs --------------------------
(***************************************************************************)
(* Proofs about RecordSink for any number of runs against one ledger.      *)
(*                                                                         *)
(* HeaderAtMostFirst is not inductive: saveReorder appends a header to a   *)
(* file os.Stat finds missing, and nothing in the property says that such  *)
(* a file is empty.  SinkInv adds that a missing file has no rows, so the  *)
(* header it gets lands at position 1.                                     *)
(***************************************************************************)
EXTENDS RecordSink, TLAPS

SinkInv ==
  /\ TypeOK
  /\ ~exists => ledger = <<>>
  /\ HeaderAtMostFirst

(* Every record a surviving run builds is a sequence of columns.         *)
LEMMA ColumnsType == \A m \in Mode : Columns(m) \in Seq(Column)
BY DEF Columns, Column, Mode

(* The rows a flush can append are rows of the file's type.               *)
LEMMA RowsType ==
  ASSUME headers \in Seq(Column)
  PROVE  /\ Header \in Row
         /\ Values \in Row
BY DEF Header, Values, Row

(* Appending rows that hold no header keeps HeaderAtMostFirst.            *)
LEMMA AppendValues ==
  ASSUME NEW L \in Seq(Row), NEW R \in Seq(Row),
         \A k \in 1 .. Len(L) : L[k].kind = "header" => k = 1,
         \A k \in 1 .. Len(R) : R[k].kind = "values"
  PROVE  \A k \in 1 .. Len(L \o R) : (L \o R)[k].kind = "header" => k = 1
<1> SUFFICES ASSUME NEW k \in 1 .. Len(L \o R), (L \o R)[k].kind = "header"
             PROVE  k = 1
  OBVIOUS
<1>1. CASE k \in 1 .. Len(L)
  <2>1. (L \o R)[k] = L[k]
    BY <1>1
  <2>. QED
    BY <1>1, <2>1
<1>2. CASE k \notin 1 .. Len(L)
  <2>1. k - Len(L) \in 1 .. Len(R) /\ (L \o R)[k] = R[k - Len(L)]
    BY <1>2
  <2>2. R[k - Len(L)].kind = "values"
    BY <2>1
  <2>. QED
    BY <2>1, <2>2
<1>. QED
  BY <1>1, <1>2

LEMMA InitSinkInv == Init => SinkInv
<1> SUFFICES ASSUME Init PROVE SinkInv
  OBVIOUS
<1>1. TypeOK
  <2>1. runs \in 0 .. MaxRuns /\ headers \in Seq(Column) /\ ledger \in Seq(Row)
    BY MaxRunsAssumption DEF Init
  <2>2. /\ rpc \in {"idle", "save"} /\ exists \in BOOLEAN
        /\ lastExit \in {"none", "ok", "failed"} /\ written \in BOOLEAN
    BY DEF Init
  <2>. QED
    BY <2>1, <2>2 DEF TypeOK
<1>2. ~exists => ledger = <<>>
  BY DEF Init
<1>3. HeaderAtMostFirst
  BY DEF Init, HeaderAtMostFirst
<1>. QED
  BY <1>1, <1>2, <1>3 DEF SinkInv

LEMMA NextSinkInv == SinkInv /\ [Next]_vars => SinkInv'
<1> SUFFICES ASSUME SinkInv, [Next]_vars PROVE SinkInv'
  OBVIOUS
<1>. USE MaxRunsAssumption
<1>1. CASE RunMain
  <2>0. runs \in 0 .. MaxRuns - 1 /\ TestSh[runs + 1] \in Mode
    BY <1>1 DEF RunMain, SinkInv, TypeOK, TestSh, Mode
  <2>1. headers' \in Seq(Column)
    BY <1>1, <2>0, ColumnsType DEF RunMain, SinkInv, TypeOK
  <2>2. TypeOK'
    <3>1. runs' \in 0 .. MaxRuns
      BY <1>1 DEF RunMain, SinkInv, TypeOK
    <3>2. /\ rpc' \in {"idle", "save"} /\ exists' \in BOOLEAN
          /\ lastExit' \in {"none", "ok", "failed"} /\ written' \in BOOLEAN
          /\ ledger' \in Seq(Row)
      BY <1>1 DEF RunMain, SinkInv, TypeOK
    <3>. QED
      BY <2>1, <3>1, <3>2 DEF TypeOK
  <2>3. (~exists => ledger = <<>>)' /\ HeaderAtMostFirst'
    BY <1>1 DEF RunMain, SinkInv, HeaderAtMostFirst
  <2>. QED
    BY <2>2, <2>3 DEF SinkInv
<1>2. CASE SaveReorder
  <2>1. headers \in Seq(Column) /\ ledger \in Seq(Row)
    BY DEF SinkInv, TypeOK
  <2>2. Header \in Row /\ Values \in Row
    BY <2>1, RowsType
  <2>3. CASE ~exists
    <3>1. ledger = <<>>
      BY <2>3 DEF SinkInv
    <3>2. \A k \in 1 .. Len(<<Header, Values>>) :
            <<Header, Values>>[k].kind = "header" => k = 1
      BY DEF Header, Values
    <3>3. /\ rpc' = "idle" /\ UNCHANGED <<runs, headers>>
          /\ \/ lastExit' = "failed" /\ UNCHANGED <<exists, ledger, written>>
             \/ exists' = TRUE /\ lastExit' = "ok" /\ Flushed(<<Header, Values>>)
      BY <1>2, <2>3 DEF SaveReorder
    <3>4. CASE lastExit' = "failed" /\ UNCHANGED <<exists, ledger, written>>
      BY <2>3, <3>1, <3>3, <3>4
      DEF SinkInv, TypeOK, HeaderAtMostFirst
    <3>5. CASE exists' = TRUE /\ lastExit' = "ok" /\ ledger' = ledger \o <<Header, Values>>
                /\ written' = TRUE
      <4>1. ledger' = <<Header, Values>>
        BY <3>1, <3>5, <2>2
      <4>2. ledger' \in Seq(Row) /\ HeaderAtMostFirst'
        BY <2>2, <3>2, <4>1 DEF HeaderAtMostFirst
      <4>. QED
        BY <3>3, <3>5, <4>2 DEF SinkInv, TypeOK
    <3>6. CASE exists' = TRUE /\ lastExit' = "ok" /\ UNCHANGED ledger
                /\ written' = FALSE
      BY <3>1, <3>3, <3>6 DEF SinkInv, TypeOK, HeaderAtMostFirst
    <3>. QED
      BY <3>3, <3>4, <3>5, <3>6 DEF Flushed
  <2>4. CASE exists
    <3>1. CASE ledger' = ledger \o <<Values>>
      <4>1. \A k \in 1 .. Len(ledger') : ledger'[k].kind = "header" => k = 1
        <5>1. \A k \in 1 .. Len(<<Values>>) : <<Values>>[k].kind = "values"
          BY DEF Values
        <5>. QED
          BY <2>1, <2>2, <3>1, <5>1, AppendValues DEF SinkInv, HeaderAtMostFirst
      <4>2. ledger' \in Seq(Row)
        BY <2>1, <2>2, <3>1
      <4>. QED
        BY <1>2, <2>4, <4>1, <4>2 DEF SaveReorder, Flushed, SinkInv, TypeOK,
           HeaderAtMostFirst
    <3>2. CASE UNCHANGED ledger
      BY <1>2, <2>4, <3>2
      DEF SaveReorder, Flushed, SinkInv, TypeOK, HeaderAtMostFirst
    <3>. QED
      BY <1>2, <2>4, <3>1, <3>2 DEF SaveReorder, Flushed
  <2>. QED
    BY <2>3, <2>4
<1>3. CASE Finished \/ UNCHANGED vars
  BY <1>3 DEF Finished, vars, SinkInv, TypeOK, HeaderAtMostFirst
<1>. QED
  BY <1>1, <1>2, <1>3 DEF Next

THEOREM SinkInvariant == Spec => []SinkInv
BY InitSinkInv, NextSinkInv, PTL DEF Spec

(* Every variable keeps its type over any sequence of runs.               *)
THEOREM SinkTypeCorrect == Spec => []TypeOK
BY SinkInvariant, PTL DEF SinkInv

(* However runs fail, and whichever flushes are lost, the ledger holds at *)
(* most one header row, and only as its first row (saveReorder's os.Stat  *)
(* test, main.go 559).                                                    *)
THEOREM HeaderOnlyFirst == Spec => []HeaderAtMostFirst
BY SinkInvariant, PTL DEF SinkInv

=============================================================================
