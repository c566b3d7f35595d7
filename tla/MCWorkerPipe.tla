---------------------------- MODULE MCWorkerPipe ----------------------------
(***************************************************************************)
(* Instances of WorkerPipe for TLC: three runs are enough for a run to be  *)
(* answered with the output of one that is not the run before it.          *)
(***************************************************************************)
EXTENDS WorkerPipe, TLC

CONSTANTS r1, r2, r3
=============================================================================
