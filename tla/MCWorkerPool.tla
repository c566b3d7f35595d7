---------------------------- MODULE MCWorkerPool ----------------------------
(* Instances of WorkerPool for TLC. *)
EXTENDS WorkerPool, TLC

\* Callers and addresses are interchangeable; only for runs with no liveness property.
Symmetry == Permutations(Requests) \cup Permutations(Workers)
=============================================================================
