--------------------------- MODULE MCDurableQueue ---------------------------
(* Small instances of DurableQueue for TLC.                                 *)
EXTENDS DurableQueue, TLC

CONSTANTS t1, t2, w1, w2

TwoTasks == {t1, t2}
OneTask == {t1}
TwoWorkers == {w1, w2}
OneWorker == {w1}
SecondTask == {t2}
NoTask == {}

AllFaults == {"crash", "overrun", "record", "dequeue", "reap", "stop"}
OverrunOnly == {"overrun"}

WorkerSymmetry == Permutations(TwoWorkers)
=============================================================================
