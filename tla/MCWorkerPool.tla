---------------------------- MODULE MCWorkerPool ----------------------------
(* Small instances of the worker pool.                                      *)
EXTENDS WorkerPool, TLC

CONSTANTS w1, w2

OneWorker  == {w1}
TwoWorkers == {w1, w2}
NoRate     == <<>>
BothRates(queue, consumer) == ("queue" :> queue) @@ ("consumer" :> consumer)
FlowCapacities   == BothRates(2, 1)
FlowRefills      == BothRates(1, 1)
WorkerCapacities == BothRates(2, 2)
WorkerRefills    == BothRates(2, 1)
=============================================================================
