--------------------------- MODULE MCFunctionUnit ---------------------------
(* Instances of FunctionUnit for TLC. *)
EXTENDS FunctionUnit, TLC

CONSTANTS r1, r2, r3, r4, r5

ThreePorts == <<30000, 30001, 30002>>
FivePorts == <<30000, 30001, 30002, 30003, 30004>>

\* All requests call the same unit.
Symmetry == Permutations(Requests)
=============================================================================
