--------------------------- MODULE MCSourceStatus ---------------------------
(* Small instances of SourceStatus for TLC: one source with one document.  *)
EXTENDS SourceStatus, TLC

CONSTANTS w1, w2, s1

OneProcess == {w1}
TwoProcesses == {w1, w2}
OneSource == {s1}
NoneTested == {}

WorkerKinds == [w \in TwoProcesses |-> "WORKER"]
LoneKind == [w \in OneProcess |-> "WORKER"]
MixedKinds == [w \in TwoProcesses |-> IF w = w1 THEN "WORKER" ELSE "INDEXER"]

SyncRequests == {[type |-> "SOURCE_SYNC", target |-> s1]}
SyncTargets == [t \in {s1} |-> t]

MixedRequests == SyncRequests \cup {[type |-> "DOCUMENT_REINDEX", target |-> "d1"]}
MixedTargets == [t \in {s1, "d1"} |-> s1]

NoDelay == {0}

Symmetry == Permutations(TwoProcesses)

=============================================================================
