---------------------------- MODULE MCWorkerRun ----------------------------
(* WorkerRun on a small instance: model values for recipients. *)
EXTENDS WorkerRun, TLC

Symmetry == Permutations(Rows)
=============================================================================
