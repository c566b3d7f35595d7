------------------------------ MODULE MCCgroups -----------------------------
(***************************************************************************)
(* Instances of Cgroups for TLC.  Two helpers are listed before the proxy: *)
(* the loop of init skips the second when both have ended.                 *)
(***************************************************************************)
EXTENDS Cgroups, TLC

CONSTANTS r1, r2, w1, w2, w3, h1, h2, proxy

Listed == <<h1, h2, proxy>>
Callers == Permutations({r1, r2})
=============================================================================
