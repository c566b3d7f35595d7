----------------------------- MODULE WorkerPool -----------------------------
(***************************************************************************)
(* The worker pool of one proxy process (vFaaS/proxy/WorkerPool.hpp), the  *)
(* idle flag, id and time stamp of its workers (WorkerUnit.hpp), the       *)
(* /init and /run handlers and the status string of proxy.cpp, and the     *)
(* two-call protocol of the client (function/container.py).                *)
(*                                                                         *)
(* A /run call with echo = -1 (the first pass) scans the pool under the    *)
(* pool mutex for an idle worker and runs the function on it.  When it     *)
(* finds none it adds a worker that is born occupied and returns at once   *)
(* with the worker's id, so that the client can put the new process into   *)
(* its cgroup; the client then calls /run again with echo = id (the second *)
(* pass), which finds the worker as pool[id] WITHOUT taking the mutex.     *)
(* A daemon thread removes the last worker of the pool when it is idle and *)
(* its time stamp is old.                                                  *)
(*                                                                         *)
(* A request is one caller: a greenlet of the scheduler, which has at most *)
(* one call in flight.  Time is abstract: `fresh` is the value checkValid  *)
(* would return and Expire makes it false.                                 *)
(***************************************************************************)
EXTENDS Naturals, Sequences, FiniteSets

CONSTANTS
  Requests,   \* the concurrent callers of this proxy
  Workers,    \* addresses `new WorkerUnit` can return; a freed one is reused
  Cleaner,    \* the daemon_cleaner thread, as an owner of the pool mutex
  Nobody      \* the owner of a free mutex; no candidate

ASSUME PoolAssumption ==
  /\ Cleaner \notin Requests
  /\ Nobody \notin Requests \cup Workers \cup {Cleaner}

VARIABLES
  pool,       \* WorkerPool::pool as a sequence: pool[k] is the code's pool[k-1]
  capacity,   \* the vector's capacity: push_back into a full vector moves the elements
  mutex,      \* the owner of WorkerPool::mutex
  status,     \* the proxy's status string
  live,       \* the WorkerUnit objects that exist
  idle, id,   \* of each WorkerUnit; ids count from 1 here, as positions in pool do
  fresh,      \* what checkValid() returns: the time stamp is younger than expireTime
  pc,         \* per request: where its call is
  at,         \* per request: the scan's position i, later the id the client was given
  cand,       \* per request: the candidate; between the passes, the worker of that id
  seen,       \* per request: the capacity when the second pass began to read
  daemon,     \* where daemon_cleaner is
  ptr,        \* ptr of try_remove
  initPc,     \* where the /init call is
  crash       \* "none", or which unlocked access brought the process down

unitVars == <<idle, id, fresh>>
callVars == <<pc, at, cand, seen>>
vars == <<pool, capacity, mutex, status, live, unitVars, callVars, daemon, ptr, initPc, crash>>

InPool == {pool[k] : k \in 1..Len(pool)}
Last == pool[Len(pool)]

(***************************************************************************)
(* Operators named for one line of the code each, with the fault the       *)
(* properties below are tried on.                                          *)
(***************************************************************************)
FirstIndexFault == 0                 \* the scan starts before the pool
\* for(int i = 0; ...
FirstIndex == 1

ScanBoundFault == Len(pool) - 1      \* the scan leaves out the last worker
\* i < getAliveWorker()
ScanBound == Len(pool)

TryOccupyFault(w) == TRUE            \* the old value of the flag is not looked at
\* tryOccupy() of a scan: the old value of idle; the flag is false afterwards.
TryOccupy(w) == idle[w]

DaemonOccupiesFault(w) == TRUE       \* the daemon takes a worker that is running
\* tryOccupy() of the daemon.
DaemonOccupies(w) == idle[w]

BornIdleFault == TRUE                \* the new worker is published unoccupied
\* addWorker: idle = true of the constructor, then tryOccupy, before push_back.
BornIdle == FALSE

IdleAfterRunFault == FALSE           \* the worker is not given back
\* candidate->setIdle(true) after runCode.
IdleAfterRun == TRUE

PopFault == Tail(pool)               \* the oldest worker is erased
\* pool.pop_back()
Pop == SubSeq(pool, 1, Len(pool) - 1)

StatusAfterPopFault == status        \* an emptied pool keeps its status
\* if(getAliveWorker() == 0) status = "idle";
StatusAfterPop == IF Len(pool) = 1 THEN "idle" ELSE status

UnlockAfterScanFault == UNCHANGED mutex    \* a failed scan keeps the mutex
\* pthread_mutex_unlock after the scan.
UnlockAfterScan == mutex' = Nobody

\* new WorkerUnit at a free address, setId and push_back; moves a full vector.
Push(w, n, free) ==
  /\ w \in Workers \ live
  /\ live' = live \cup {w}
  /\ idle' = [idle EXCEPT ![w] = free]
  /\ id' = [id EXCEPT ![w] = n]
  /\ fresh' = [fresh EXCEPT ![w] = TRUE]
  /\ pool' = Append(pool, w)
  /\ capacity' = IF Len(pool) < capacity THEN capacity
                 ELSE IF capacity = 0 THEN 1 ELSE 2 * capacity

Abort(why) ==
  /\ crash' = why
  /\ UNCHANGED <<pool, capacity, mutex, status, live, unitVars, callVars, daemon, ptr, initPc>>

\* The call of r goes on from one place to another.
Goes(r, from, to) ==
  /\ pc[r] = from
  /\ pc' = [pc EXCEPT ![r] = to]

\* Nothing but the call changes.
OnlyCalls == UNCHANGED <<pool, capacity, mutex, status, live, unitVars, daemon, ptr, initPc, crash>>

-----------------------------------------------------------------------------
Init ==
  /\ pool = <<>>
  /\ capacity = 0
  /\ mutex = Nobody
  /\ status = "idle"
  /\ live = {}
  /\ idle = [w \in Workers |-> FALSE]
  /\ id = [w \in Workers |-> 0]
  /\ fresh = [w \in Workers |-> FALSE]
  /\ pc = [r \in Requests |-> "ready"]
  /\ at = [r \in Requests |-> FirstIndex]
  /\ cand = [r \in Requests |-> Nobody]
  /\ seen = [r \in Requests |-> 0]
  /\ daemon = "asleep"
  /\ ptr = Nobody
  /\ initPc = "todo"
  /\ crash = "none"

(***************************************************************************)
(* POST /init.  The first worker is pushed without the mutex; only the     *)
(* daemon can run beside it, since the client calls /run after /init.      *)
(***************************************************************************)
InitStart ==
  /\ initPc = "todo"
  /\ initPc' = "pushing"
  /\ status' = "init"
  /\ UNCHANGED <<pool, capacity, mutex, live, unitVars, callVars, daemon, ptr, crash>>

InitPush ==
  /\ initPc = "pushing"
  /\ initPc' = "pushed"
  /\ \E w \in Workers : Push(w, 1, TRUE)
  /\ UNCHANGED <<mutex, status, callVars, daemon, ptr, crash>>

\* The constructor throws: /init ends with a 500, which its caller ignores.
InitFails ==
  /\ initPc = "pushing"
  /\ initPc' = "done"
  /\ UNCHANGED <<pool, capacity, mutex, status, live, unitVars, callVars, daemon, ptr, crash>>

InitOk ==
  /\ initPc = "pushed"
  /\ initPc' = "done"
  /\ status' = "ok"
  /\ UNCHANGED <<pool, capacity, mutex, live, unitVars, callVars, daemon, ptr, crash>>

(***************************************************************************)
(* POST /run, first pass (Container.send_request sends echo = -1).         *)
(***************************************************************************)
Send(r) ==
  /\ initPc = "done"
  /\ Goes(r, "ready", "pass1")
  /\ UNCHANGED <<at, cand, seen>> /\ OnlyCalls

LockPool(r) ==
  /\ mutex = Nobody
  /\ mutex' = r
  /\ Goes(r, "pass1", "scan")
  /\ at' = [at EXCEPT ![r] = FirstIndex]
  /\ UNCHANGED <<pool, capacity, status, live, unitVars, cand, seen, daemon, ptr, initPc, crash>>

\* tryOccupy succeeds: the loop is left with a candidate and the mutex released.
OccupyIdle(r) ==
  /\ at[r] <= ScanBound
  /\ TryOccupy(pool[at[r]])
  /\ Goes(r, "scan", "run")
  /\ idle' = [idle EXCEPT ![pool[at[r]]] = FALSE]
  /\ cand' = [cand EXCEPT ![r] = pool[at[r]]]
  /\ at' = [at EXCEPT ![r] = FirstIndex]
  /\ mutex' = Nobody
  /\ UNCHANGED <<pool, capacity, status, live, id, fresh, seen, daemon, ptr, initPc, crash>>

SkipBusy(r) ==
  /\ pc[r] = "scan"
  /\ at[r] <= ScanBound
  /\ ~TryOccupy(pool[at[r]])
  /\ at' = [at EXCEPT ![r] = @ + 1]
  /\ UNCHANGED <<pc, cand, seen>> /\ OnlyCalls

EndScan(r) ==
  /\ at[r] > ScanBound
  /\ Goes(r, "scan", "spawn")
  /\ at' = [at EXCEPT ![r] = FirstIndex]
  /\ UnlockAfterScan
  /\ UNCHANGED <<pool, capacity, status, live, unitVars, cand, seen, daemon, ptr, initPc, crash>>

\* addWorker: what comes before its lock touches only the new object.
AddWorker(r) ==
  /\ mutex = Nobody
  /\ Goes(r, "spawn", "added")
  /\ \E w \in Workers :
       /\ Push(w, Len(pool) + 1, BornIdle)
       /\ cand' = [cand EXCEPT ![r] = w]
  /\ UNCHANGED <<mutex, status, at, seen, daemon, ptr, initPc, crash>>

\* util::startWorker fails and the constructor throws: the call ends with a 500, and
\* the greenlet of the client with it.
SpawnFails(r) == Goes(r, "spawn", "failed") /\ UNCHANGED <<at, cand, seen>> /\ OnlyCalls

\* status = "run" without the mutex, then the answer new_worker = false and the id.
SetRun(r) ==
  /\ Goes(r, "added", "limits")
  /\ status' = "run"
  /\ at' = [at EXCEPT ![r] = id[cand[r]]]
  /\ UNCHANGED <<pool, capacity, mutex, live, unitVars, cand, seen, daemon, ptr, initPc, crash>>

(***************************************************************************)
(* The client between the passes: get_pids, recycle_limits, add_limits.    *)
(* When one of them raises no second call is sent.                         *)
(***************************************************************************)
AddLimits(r) == Goes(r, "limits", "pass2") /\ UNCHANGED <<at, cand, seen>> /\ OnlyCalls

LimitsFail(r) ==
  /\ Goes(r, "limits", "failed")
  /\ at' = [at EXCEPT ![r] = FirstIndex]
  /\ UNCHANGED <<cand, seen>> /\ OnlyCalls

(***************************************************************************)
(* POST /run, second pass.  getAliveWorker() and pool[*echo] are read with *)
(* no lock.  A push_back that moves the elements between the first and the *)
(* last of these reads is a data race: the old buffer may still hold the   *)
(* right pointer, or the process aborts (a torn size fails the first       *)
(* assertion, a freed slot gives a wild pointer).                          *)
(***************************************************************************)
SecondPass(r) ==
  /\ Goes(r, "pass2", "lookup")
  /\ seen' = [seen EXCEPT ![r] = capacity]
  /\ UNCHANGED <<at, cand>> /\ OnlyCalls

\* What the two assertions test.
EchoNamesBusyWorker(r) == at[r] <= Len(pool) /\ ~idle[pool[at[r]]]

SecondPassFinds(r) ==
  /\ EchoNamesBusyWorker(r)
  /\ Goes(r, "lookup", "run")
  /\ cand' = [cand EXCEPT ![r] = pool[at[r]]]
  /\ at' = [at EXCEPT ![r] = FirstIndex]
  /\ seen' = [seen EXCEPT ![r] = 0]
  /\ OnlyCalls

SecondPassAborts(r) ==
  /\ pc[r] = "lookup"
  /\ ~EchoNamesBusyWorker(r) \/ seen[r] # capacity
  /\ Abort("lookup")

(***************************************************************************)
(* runCode and what follows it.  When runCode throws, setIdle is not       *)
(* reached and the call ends with a 500.                                   *)
(***************************************************************************)
\* PIPE_COMMAND_RETURN: the time stamp is renewed.
Finish(r) ==
  /\ Goes(r, "run", "release")
  /\ fresh' = [fresh EXCEPT ![cand[r]] = TRUE]
  /\ UNCHANGED <<pool, capacity, mutex, status, live, idle, id, at, cand, seen,
                 daemon, ptr, initPc, crash>>

RunFails(r) == Goes(r, "run", "failed") /\ UNCHANGED <<at, cand, seen>> /\ OnlyCalls

Release(r) ==
  /\ Goes(r, "release", "ready")
  /\ idle' = [idle EXCEPT ![cand[r]] = IdleAfterRun]
  /\ cand' = [cand EXCEPT ![r] = Nobody]
  /\ UNCHANGED <<pool, capacity, mutex, status, live, id, fresh, at, seen,
                 daemon, ptr, initPc, crash>>

(***************************************************************************)
(* daemon_cleaner: sleep(10), then try_remove.                             *)
(***************************************************************************)
\* The unlocked test for an empty pool: try_remove returns and the daemon sleeps again.
CleanerIdle ==
  /\ daemon = "asleep"
  /\ pool = <<>>
  /\ UNCHANGED vars

CleanerWake ==
  /\ daemon = "asleep"
  /\ pool # <<>>
  /\ daemon' = "awake"
  /\ UNCHANGED <<pool, capacity, mutex, status, live, unitVars, callVars, ptr, initPc, crash>>

\* The test overlaps the unlocked push_back of /init: a torn size becomes an index.
CleanerRacesInit ==
  /\ daemon = "asleep"
  /\ initPc = "pushing"
  /\ Abort("cleaner")

CleanerOccupy ==
  /\ daemon = "awake"
  /\ mutex = Nobody
  /\ DaemonOccupies(Last)
  /\ mutex' = Cleaner
  /\ idle' = [idle EXCEPT ![Last] = FALSE]
  /\ daemon' = "check"
  /\ ptr' = Last
  /\ UNCHANGED <<pool, capacity, status, live, id, fresh, callVars, initPc, crash>>

CleanerBusy ==
  /\ daemon = "awake"
  /\ mutex = Nobody
  /\ ~DaemonOccupies(Last)
  /\ daemon' = "asleep"
  /\ UNCHANGED <<pool, capacity, mutex, status, live, unitVars, callVars, ptr, initPc, crash>>

CleanerKeep ==
  /\ daemon = "check"
  /\ fresh[ptr]
  /\ idle' = [idle EXCEPT ![ptr] = TRUE]
  /\ mutex' = Nobody
  /\ daemon' = "asleep"
  /\ ptr' = Nobody
  /\ UNCHANGED <<pool, capacity, status, live, id, fresh, callVars, initPc, crash>>

CleanerPop ==
  /\ daemon = "check"
  /\ ~fresh[ptr]
  /\ pool' = Pop
  /\ status' = StatusAfterPop
  /\ mutex' = Nobody
  /\ daemon' = "delete"
  /\ UNCHANGED <<capacity, live, unitVars, callVars, ptr, initPc, crash>>

\* delete ptr, outside the mutex.
CleanerDelete ==
  /\ daemon = "delete"
  /\ live' = live \ {ptr}
  /\ id' = [id EXCEPT ![ptr] = 0]
  /\ daemon' = "asleep"
  /\ ptr' = Nobody
  /\ UNCHANGED <<pool, capacity, mutex, status, idle, fresh, callVars, initPc, crash>>

\* Time passes.  The first worker lives 30 s, so it does not expire inside /init.
Expire(w) ==
  /\ initPc = "done"
  /\ w \in live
  /\ fresh[w]
  /\ fresh' = [fresh EXCEPT ![w] = FALSE]
  /\ UNCHANGED <<pool, capacity, mutex, status, live, idle, id, callVars, daemon, ptr,
                 initPc, crash>>

-----------------------------------------------------------------------------
InitHandler == InitStart \/ InitPush \/ InitFails \/ InitOk

Client(r) == AddLimits(r) \/ LimitsFail(r)

RunHandler(r) ==
  \/ LockPool(r) \/ OccupyIdle(r) \/ SkipBusy(r) \/ EndScan(r)
  \/ AddWorker(r) \/ SpawnFails(r) \/ SetRun(r)
  \/ SecondPass(r) \/ SecondPassFinds(r) \/ SecondPassAborts(r)
  \/ Finish(r) \/ RunFails(r) \/ Release(r)

DaemonCleaner ==
  \/ CleanerIdle \/ CleanerWake \/ CleanerRacesInit
  \/ CleanerOccupy \/ CleanerBusy \/ CleanerKeep \/ CleanerPop \/ CleanerDelete

Running ==
  \/ InitHandler
  \/ \E r \in Requests : Send(r) \/ Client(r) \/ RunHandler(r)
  \/ DaemonCleaner
  \/ \E w \in Workers : Expire(w)

\* An aborted process takes no step.
Next == \/ crash = "none" /\ Running
        \/ crash # "none" /\ UNCHANGED vars

Spec == Init /\ [][Next]_vars

(***************************************************************************)
(* Fairness: a thread of the proxy that can run does run, functions return *)
(* or fail, clients answer, time passes.  The mutex is taken under strong  *)
(* fairness: unlock wakes a waiter, and the only thread that comes back    *)
(* for ever, the daemon, sleeps 10 s between two locks.  New requests are  *)
(* not forced.                                                             *)
(***************************************************************************)
Alive(A) == crash = "none" /\ A

Fairness ==
  /\ WF_vars(Alive(InitHandler))
  /\ \A r \in Requests :
       /\ WF_vars(Alive(RunHandler(r)))
       /\ WF_vars(Alive(Client(r)))
       /\ SF_vars(Alive(LockPool(r)))
       /\ SF_vars(Alive(AddWorker(r)))
  /\ WF_vars(Alive(DaemonCleaner))
  /\ \A w \in Workers : WF_vars(Alive(Expire(w)))

FairSpec == Spec /\ Fairness

-----------------------------------------------------------------------------
CallPc == {"ready", "pass1", "scan", "spawn", "added", "limits", "pass2", "lookup",
           "run", "release", "failed"}

TypeOK ==
  /\ pool \in Seq(Workers)
  /\ capacity \in Nat
  /\ mutex \in Requests \cup {Cleaner, Nobody}
  /\ status \in {"idle", "init", "ok", "run"}
  /\ live \in SUBSET Workers
  /\ idle \in [Workers -> BOOLEAN]
  /\ id \in [Workers -> Nat]
  /\ fresh \in [Workers -> BOOLEAN]
  /\ pc \in [Requests -> CallPc]
  /\ at \in [Requests -> Nat \ {0}]
  /\ cand \in [Requests -> Workers \cup {Nobody}]
  /\ seen \in [Requests -> Nat]
  /\ daemon \in {"asleep", "awake", "check", "delete"}
  /\ ptr \in Workers \cup {Nobody}
  /\ initPc \in {"todo", "pushing", "pushed", "done"}
  /\ crash \in {"none", "lookup", "cleaner"}

\* Two concurrent calls never run their functions on the same worker process, also
\* when one of them failed and left its worker occupied (tryOccupy, addWorker).
OneRequestPerWorker ==
  \A r, s \in Requests : r # s /\ cand[r] = cand[s] => cand[r] = Nobody

\* The worker a call points to is in the pool: the daemon never deletes a worker that
\* runs, or one that waits for the second pass of the call that made it (try_remove).
HeldWorkerInPool ==
  \A r \in Requests : cand[r] # Nobody => cand[r] \in InPool /\ ~idle[cand[r]]

\* No call and no pool slot points to a deleted WorkerUnit, whatever the daemon does
\* between the pop and the delete (WorkerPool.hpp:106-109).
NoDanglingPointer ==
  /\ InPool \subseteq live
  /\ \A r \in Requests : cand[r] # Nobody => cand[r] \in live \ {ptr}

\* From the answer of the first pass to the use of its id in the second pass, the id
\* still names the worker the first pass made, and that worker is still occupied: the
\* two assertions of WorkerPool.hpp:76-78 hold on any consistent view of the pool.
SecondPassFindsOwnWorker ==
  \A r \in Requests :
    pc[r] \in {"limits", "pass2", "lookup"} =>
      /\ at[r] <= Len(pool)
      /\ pool[at[r]] = cand[r]
      /\ ~idle[cand[r]]

\* A second pass brings the process down only when a push_back moved the vector under
\* its unlocked reads; the assertions are never false by the protocol itself.
AbortOnlyByRace ==
  [][crash' = "lookup" =>
       \E r \in Requests : pc[r] = "lookup" /\ seen[r] # capacity]_vars

\* A worker that is not idle is held by a call, or by the daemon under the mutex: a
\* worker is lost only with a call that failed (setIdle at WorkerPool.hpp:85, 102).
BusyWorkerIsHeld ==
  \A w \in InPool :
    ~idle[w] => \/ \E r \in Requests : cand[r] = w
                \/ daemon = "check" /\ ptr = w

\* The status the scheduler's container_cleaner reads says "idle" exactly when the
\* pool is empty, but for the moment between push_back and status = "run", and after an
\* /init that has not, or will not, come to its end.
StatusTracksPool ==
  status # "init" /\ (\A r \in Requests : pc[r] # "added") =>
    (status = "idle" <=> pool = <<>>)

\* dispatch_request has no limit on the workers it makes; there are still never more of
\* them than concurrent callers.
PoolBounded == Len(pool) <= Cardinality(Requests)

\* Every call is answered or fails, unless the process dies.
CallReturns ==
  \A r \in Requests :
    pc[r] = "pass1" ~> (pc[r] \in {"ready", "failed"} \/ crash # "none")

\* When the calls stop and none has failed, the daemon empties the pool and reports it;
\* only after an /init that failed may the status still be "init".
PoolDrains ==
  <>[](\A r \in Requests : pc[r] = "ready") =>
    <>[](crash # "none" \/ (pool = <<>> /\ status \in {"idle", "init"}))

\* The assertions of the second pass, assert(getAliveWorker() > (*echo)) and
\* assert(candidate->getStatus() == false), as WorkerPool.hpp:76-78 states them: they
\* are reached with a pool they can be evaluated on.
SecondPassAssertions == crash # "lookup"

-----------------------------------------------------------------------------
(***************************************************************************)
(* The pool implements WorkerLease: the workers are those in the pool, and *)
(* a request's lease is its candidate, from addWorker or tryOccupy to      *)
(* setIdle.  Between the two passes the code keeps only the worker's id;   *)
(* cand is there the worker that id stands for.                            *)
(***************************************************************************)
Lease == INSTANCE WorkerLease WITH
           workers <- InPool, lease <- cand

\* Every step of dispatch_request and try_remove starts, grants, gives back or retires
\* one worker as WorkerLease allows, or leaves all leases as they are.
ImplementsLease == Lease!Spec

(***************************************************************************)
(* The inductive invariant.                                                *)
(***************************************************************************)
\* The pool mutex belongs to the call that scans or to the daemon that checks.
MutexIsOwned ==
  /\ \A r \in Requests : mutex = r <=> pc[r] = "scan"
  /\ mutex = Cleaner <=> daemon = "check"

\* The id of a worker is its index in the pool, so the slots hold different workers.
IdIsIndex ==
  /\ \A k \in 1..Len(pool) : id[pool[k]] = k
  /\ InPool \subseteq live

\* Which calls have a worker, and that the id a client holds is its worker's.
CandidateOfCall ==
  \A r \in Requests :
    /\ pc[r] \in {"ready", "pass1", "scan", "spawn"} => cand[r] = Nobody
    /\ pc[r] \in {"added", "limits", "pass2", "lookup", "run", "release"} => cand[r] # Nobody
    /\ pc[r] \in {"limits", "pass2", "lookup"} => at[r] = id[cand[r]]

\* What the daemon points to: nothing, the last worker it has occupied, or a worker
\* that has left the pool.
PtrOfDaemon ==
  /\ daemon \in {"asleep", "awake"} => ptr = Nobody
  /\ daemon \in {"awake", "check"} => pool # <<>>
  /\ daemon = "check" =>
       /\ ptr = Last
       /\ ~idle[ptr]
       /\ \A r \in Requests : cand[r] # ptr
  /\ daemon = "delete" => ptr \in live \ InPool

\* Before the first worker is in the pool, and until /init has answered.
InitShape ==
  /\ initPc \in {"todo", "pushing"} => pool = <<>> /\ live = {}
  /\ initPc = "pushed" => Len(pool) = 1 /\ fresh[pool[1]]
  /\ initPc \in {"pushing", "pushed"} => status = "init"
  /\ initPc # "done" => \A r \in Requests : pc[r] = "ready"

\* The invariant the theorems of WorkerPoolProofs rest on.
IInv ==
  /\ TypeOK
  /\ MutexIsOwned
  /\ IdIsIndex
  /\ CandidateOfCall
  /\ OneRequestPerWorker
  /\ HeldWorkerInPool
  /\ PtrOfDaemon
  /\ InitShape
  /\ BusyWorkerIsHeld
  /\ StatusTracksPool

(***************************************************************************)
(* The invariant for PoolBounded, with the number of callers or any other  *)
(* bound on the calls that are under way at once.                          *)
(***************************************************************************)
\* The calls under way, and those that failed and left their worker occupied.
Active == {r \in Requests : pc[r] # "ready"}

\* The calls that are about to add a worker.
Adding == {r \in Requests : pc[r] = "spawn"}

\* The calls that hold a worker the scan has still to look at.
HoldersFrom(n) == {r \in Requests : cand[r] # Nobody /\ id[cand[r]] >= n}

\* A call may add a worker only after it has seen another holder for each one there
\* is: it counts the workers behind it, the holders of those in front, the calls that
\* add a worker already, and itself.
BoundInv(limit) ==
  /\ Len(pool) + Cardinality(Adding) <= limit
  /\ \A r \in Requests :
       pc[r] = "scan" => at[r] + Cardinality(HoldersFrom(at[r])) + Cardinality(Adding) <= limit
=============================================================================
