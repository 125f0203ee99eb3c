---------------------------- MODULE MCWorkerPool ----------------------------
(* Four workers, for TLC. *)
EXTENDS WorkerPool

CONSTANTS w1, w2, w3, w4

MCWorkers == {w1, w2, w3, w4}
=============================================================================
