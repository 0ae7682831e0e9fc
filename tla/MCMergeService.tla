--------------------------- MODULE MCMergeService ---------------------------
(* Instances of MergeService for TLC. *)
EXTENDS MergeService

CONSTANTS w1, w2, p1, s1

OneWorker == {w1}
TwoWorkers == {w1, w2}
OneProject == {p1}
OneScenario == {s1}
InP1 == [s \in Scenarios |-> p1]
OneBlock == {1}
TwoBlocks == {1, 2}
=============================================================================
