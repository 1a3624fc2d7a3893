----------------------------- MODULE MCWorkerPool -----------------------------
(***************************************************************************)
(* A small instance of WorkerPool: more jobs than workers, so that jobs    *)
(* wait in the channel, and not all of them need content.                  *)
(***************************************************************************)
EXTENDS WorkerPool

CONSTANTS w1, w2, j1, j2, j3

MCWorkers == {w1, w2}
MCJobs == {j1, j2, j3}
MCContentJobs == {j1, j2}
===============================================================================
