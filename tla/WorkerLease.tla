---------------------------- MODULE WorkerLease -----------------------------
(***************************************************************************)
(* What the worker pool promises its callers, with no mutex, no scan, no   *)
(* ids and no second call: a worker process is leased to one request at a  *)
(* time, from the answer that names it until its run is over, and only a   *)
(* worker nobody has leased is retired.  A request that fails keeps its    *)
(* lease for ever.                                                         *)
(***************************************************************************)
CONSTANTS Requests, Workers, Nobody

VARIABLES
  workers,    \* the worker processes a request can be given
  lease       \* the worker each request holds, or Nobody

vars == <<workers, lease>>

Leased == {lease[r] : r \in Requests}

Init ==
  /\ workers = {}
  /\ lease = [r \in Requests |-> Nobody]

Start(w) ==
  /\ w \notin workers
  /\ workers' = workers \cup {w}
  /\ UNCHANGED lease

Grant(r, w) ==
  /\ lease[r] = Nobody
  /\ w \in workers \ Leased
  /\ lease' = [lease EXCEPT ![r] = w]
  /\ UNCHANGED workers

StartFor(r, w) ==
  /\ lease[r] = Nobody
  /\ w \notin workers
  /\ workers' = workers \cup {w}
  /\ lease' = [lease EXCEPT ![r] = w]

Return(r) ==
  /\ lease[r] # Nobody
  /\ lease' = [lease EXCEPT ![r] = Nobody]
  /\ UNCHANGED workers

Retire(w) ==
  /\ w \in workers \ Leased
  /\ workers' = workers \ {w}
  /\ UNCHANGED lease

Next ==
  \/ \E w \in Workers : Start(w) \/ Retire(w)
  \/ \E r \in Requests : Return(r) \/ \E w \in Workers : Grant(r, w) \/ StartFor(r, w)

Spec == Init /\ [][Next]_vars
=============================================================================
