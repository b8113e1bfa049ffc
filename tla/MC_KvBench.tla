---------------------------- MODULE MC_KvBench -----------------------------
(* Model-checking instance of KvBench: two workers, two lead bytes.       *)
EXTENDS KvBench, TLC

CONSTANTS l1, l2

MCLead == {l1, l2}

\* Lead bytes are only compared for equality.
LeadSymmetry == Permutations(MCLead)

\* record.Values is written and never read by a guard or a property of
\* KvBench, so two states that differ only in it have the same futures:
\* TLC identifies them.
View == <<phase, stage, keysSupported, wpc, i, count, counts, ctxDone, store,
          headers, writer, wi, setCount, chClosed, touched, calls>>

=============================================================================
