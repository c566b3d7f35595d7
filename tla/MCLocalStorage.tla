--------------------------- MODULE MCLocalStorage ---------------------------
(* Instances of LocalStorage for TLC. *)
EXTENDS LocalStorage, TLC

CONSTANTS r1, r2, r3, r4, k1, k2

\* All requests on one key.
OneKey == [r \in Requests |-> k1]

\* r4 updates a key of its own.
TwoKeys == [r \in Requests |-> IF r = r4 THEN k2 ELSE k1]

\* r1 and r2 both run in the main container and use the same key in the same mode.
Locals == Permutations({r1, r2})

\* A bound for LocalStorage_safety: at most three of its four requests start.
ThreeStart == Cardinality({r \in Requests : client[r] # "new"}) <= 3
=============================================================================
