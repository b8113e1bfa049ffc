--------------------------- MODULE PhaseAbstract ---------------------------
(***************************************************************************)
(* What the five time-bounded phases of cmd/cli/main.go promise the rest   *)
(* of main: they run one after the other in the order main calls them      *)
(* (main.go 80-84), each one that returns adds its columns to              *)
(* record.Headers, and a phase that panics ends the run after adding at    *)
(* most a strict prefix of its columns.  Workers, counts, the store and    *)
(* the writer are all hidden: KvBench implements this specification        *)
(* (KvBench!PhaseRefinement).                                              *)
(***************************************************************************)
EXTENDS Naturals, Sequences

VARIABLES
  phase,    \* the test function main is in, or "done"
  aborted,  \* the run has panicked inside a phase
  headers   \* the columns these phases have appended to record.Headers

avars == <<phase, aborted, headers>>

\* The order of main.go 80-84.
NextPhase == [keys |-> "set", set |-> "get", get |-> "getset",
              getset |-> "del", del |-> "done"]

\* The columns each phase appends, in the order it appends them.
Columns == [keys |-> <<"Keys">>, set |-> <<"Set">>, get |-> <<"Get">>,
            getset |-> <<"Setmixed", "Getmixed">>, del |-> <<"Del">>]

Running == {"keys", "set", "get", "getset", "del"}

AInit ==
  /\ phase = "keys"
  /\ aborted = FALSE
  /\ headers = <<>>

\* The running phase returns: its columns are appended, the next starts.
Complete ==
  /\ phase \in Running /\ ~aborted
  /\ headers' = headers \o Columns[phase]
  /\ phase' = NextPhase[phase]
  /\ UNCHANGED aborted

\* The running phase panics after appending fewer than all its columns.
Abort ==
  /\ phase \in Running /\ ~aborted
  /\ \E k \in 0 .. Len(Columns[phase]) - 1 :
       headers' = headers \o SubSeq(Columns[phase], 1, k)
  /\ aborted' = TRUE
  /\ UNCHANGED phase

ANext == Complete \/ Abort

\* Each phase ends: its deadline fires and its workers exit.
ASpec == AInit /\ [][ANext]_avars /\ WF_avars(ANext)

=============================================================================
