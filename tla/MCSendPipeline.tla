--------------------------- MODULE MCSendPipeline ---------------------------
(* Small instances of SendPipeline for TLC.                                 *)
EXTENDS SendPipeline, TLC

CONSTANTS j1, w1, w2

OneJob == {j1}
OneWorker == {w1}
TwoWorkers == {w1, w2}
NoTask == {}

AllFaults ==
  {"crash", "overrun", "record", "dequeue", "reap", "stop", "timeout", "commit"}
RecoverableFaults == AllFaults \ {"reap"}

WorkerSymmetry == Permutations(TwoWorkers)
=============================================================================
