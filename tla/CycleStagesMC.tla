--------------------------- MODULE CycleStagesMC ---------------------------
(* Small instances of CycleStages for TLC.                                 *)
EXTENDS CycleStages, TLC

(* Requests differ in nothing.                                             *)
Interchangeable == Permutations(Requests)
=============================================================================
