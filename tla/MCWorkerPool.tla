---------------------------- MODULE MCWorkerPool ----------------------------
(* Pools of two and three workers for the runs of WorkerPool. *)
EXTENDS WorkerPool, TLC

CONSTANTS w1, w2, w3

ThreeWorkers == {w1, w2, w3}
TwoWorkers   == {w1, w2}

\* No definition of WorkerPool tells one worker from another; sound for the run
\* of safety properties, not for the run with liveness.
WorkerSymmetry == Permutations(ThreeWorkers)
=============================================================================
