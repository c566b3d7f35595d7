------------------------------ MODULE Cgroups -------------------------------
(***************************************************************************)
(* The resource limits of one container: the cgroup directories that the   *)
(* wrapper (function/container.py) makes under docker-<id>.scope/xfaas,    *)
(* one per process, from the process lists docker gives it, while the      *)
(* processes of the container come and go.  The worker pool inside the     *)
(* container is the abstract one (WorkerLease, which WorkerPool            *)
(* implements): a call that gets a new worker limits it between its two    *)
(* passes.                                                                 *)
(*                                                                         *)
(* The greenlets of the client switch only where they wait for an HTTP     *)
(* answer, of the proxy or of container.top(): the file operations of      *)
(* wait_start, recycle_limits and add_limits after it are one step, which  *)
(* may end half way by an exception.                                       *)
(*                                                                         *)
(* External (cgroup v2): a process is born in the directory of its parent; *)
(* a worker that was killed is never waited for (WorkerUnit.hpp:66), so it *)
(* stays a zombie, is still listed, cannot be moved and does not count as  *)
(* a member of a directory; a helper that ended is gone and moving it is   *)
(* an error; subtree_control is refused while a process is directly in     *)
(* the directory; rmdir is refused while the directory has members, which  *)
(* recycle_limits never meets.                                             *)
(***************************************************************************)
EXTENDS Naturals, Sequences

CONSTANTS
  Requests,   \* the greenlets that call send_request of this container
  Workers,    \* the worker processes, by pid
  First,      \* the pids of the first processes, in the order of container.top()
  Proxy,      \* the one of them that is the proxy; the others are helpers, which may end
  Nobody      \* no worker

ASSUME CgroupAssumption ==
  /\ First \in Seq({First[i] : i \in 1..Len(First)})
  /\ Proxy \in {First[i] : i \in 1..Len(First)}
  /\ Workers \cap {First[i] : i \in 1..Len(First)} = {}
  /\ Nobody \notin Workers
  /\ "top" \notin Workers \cup {First[i] : i \in 1..Len(First)}   \* not a pid

VARIABLES
  proc,       \* per process: "unborn", "live", "zombie" or "gone"
  cgroup,     \* per process: "top", or the directory under xfaas it is in
  limit,      \* per directory: "none", "proxy", "worker" or, after adapt_proxy_cpu, "more"
  dirs,       \* the directories under xfaas
  proxyPid,   \* Container.proxyPid as a set; its order is the one of First
  phase,      \* where create and init are
  adapted,    \* what adapt_proxy_cpu did last: "no", "yes", "raised"
  pids,       \* per caller (and "init"): the answer of container.top() it goes on with
  pc,         \* per request: where its call of send_request is
  workers, lease   \* WorkerLease

leaseVars == <<workers, lease>>
vars == <<proc, cgroup, limit, dirs, proxyPid, phase, adapted, pids, pc, leaseVars>>

Lease == INSTANCE WorkerLease

FirstPids == {First[i] : i \in 1..Len(First)}
Helpers == FirstPids \ {Proxy}
Pids == FirstPids \cup Workers
Caller == Requests \cup {"init"}

\* container.top(): all processes that have not been waited for.
Top == {p \in Pids : proc[p] \in {"live", "zombie"}}

\* The lines of a directory's cgroup.procs.
Members(d) == {p \in Pids : proc[p] = "live" /\ cgroup[p] = d}

-----------------------------------------------------------------------------
LimitForFault(p) == "proxy"                        \* every process gets the proxy's share
\* add_limits: memory.max and cpu.max of a new directory.
LimitFor(p) == IF p \in proxyPid THEN "proxy" ELSE "worker"

\* recycle_limits: the directories that are removed.
Empty(d) == Members(d) = {}

AfterTopFault == "run"                             \* the second pass does not wait for the limits
\* send_request: get_pids, then the limits, then the second pass.
AfterTop == "limit"

AfterKillFault == "gone"                           \* the proxy waits for the worker it killed
\* ~WorkerUnit: kill(workerPid, SIGKILL), and no wait.
AfterKill == "zombie"

StillListedFault(list) == list                     \* the workers count as the proxy
\* init: `for e in proxyPid: if not e in pidList: proxyPid.remove(e)`.  A removal
\* moves the entries behind it, so the loop skips the one after a removed one.
StillListed(list) ==
  LET removed[i \in 0..Len(First)] ==   \* the last entry of proxyPid in First[1..i] was
        /\ i > 0
        /\ IF First[i] \in proxyPid THEN First[i] \notin list /\ ~ removed[i - 1]
                                   ELSE removed[i - 1]
  IN  {p \in proxyPid : \E i \in 1..Len(First) : First[i] = p /\ ~ removed[i]}

\* The directories, limits and members after `made` were given one.
Made(left, made, as) ==
  /\ dirs' = left \cup made
  /\ limit' = [d \in Pids |-> IF d \in made THEN as[d] ELSE limit[d]]
  /\ cgroup' = [p \in Pids |-> IF p \in made /\ proc[p] = "live" THEN p ELSE cgroup[p]]

\* recycle_limits, then add_limits for the processes of `list` ...
Left == {d \in dirs : ~ Empty(d)}
Gone(list) == {p \in list \ Left : proc[p] = "gone"}

Limit(list) ==
  /\ Gone(list) = {}
  /\ Made(Left, list \ Left, [p \in list |-> LimitFor(p)])

\* ... which ends by an exception at a process that is gone, with its directory made
\* and those of the processes before it.
LimitFails(list) ==
  \E p \in Gone(list) : \E before \in SUBSET (list \ (Left \cup Gone(list))) :
     Made(Left, before \cup {p}, [q \in list |-> LimitFor(q)])

-----------------------------------------------------------------------------
Init ==
  /\ proc = [p \in Pids |-> IF p \in FirstPids THEN "live" ELSE "unborn"]
  /\ cgroup = [p \in Pids |-> "top"]
  /\ limit = [p \in Pids |-> "none"]
  /\ dirs = {} /\ proxyPid = {} /\ phase = "starting" /\ adapted = "no"
  /\ pids = [c \in Caller |-> {}]
  /\ pc = [r \in Requests |-> "idle"]
  /\ Lease!Init

\* wait_start: the proxy has answered /status; get_pids.
WaitTop ==
  /\ phase = "starting"
  /\ proxyPid' = Top
  /\ phase' = "setup"
  /\ UNCHANGED <<proc, cgroup, limit, dirs, adapted, pids, pc, leaseVars>>

\* The rest of the round: a directory for every process, the two subtree_control
\* files, the limits.
WaitSetUp ==
  /\ phase = "setup"
  /\ dirs \cap proxyPid = {} /\ \A p \in proxyPid : proc[p] = "live"
  /\ \A p \in Top : cgroup[p] = "top" => p \in proxyPid
  /\ Made(dirs, proxyPid, [p \in proxyPid |-> "proxy"])
  /\ phase' = "created"
  /\ UNCHANGED <<proc, proxyPid, adapted, pids, pc, leaseVars>>

\* The round fails: at a directory that is already there, at a process that is
\* gone, or at the subtree_control of the top directory.  It is tried again.
WaitFails ==
  /\ phase = "setup"
  /\ \/ \E i \in 1..Len(First) :
          LET p == First[i]
              before == {First[j] : j \in 1..i - 1} \cap proxyPid
              made == IF p \in dirs THEN before ELSE before \cup {p}
          IN  /\ p \in proxyPid
              /\ p \in dirs \/ proc[p] = "gone"
              /\ \A q \in before : q \notin dirs /\ proc[q] = "live"
              /\ Made(dirs, made, [q \in made |-> "none"])
     \/ /\ dirs \cap proxyPid = {} /\ \A p \in proxyPid : proc[p] = "live"
        /\ \E p \in Top : cgroup[p] = "top" /\ p \notin proxyPid
        /\ Made(dirs, proxyPid, [p \in proxyPid |-> "none"])
  /\ phase' = "starting"
  /\ UNCHANGED <<proc, proxyPid, adapted, pids, pc, leaseVars>>

\* A worker is a child of the proxy.
Born(w) ==
  /\ proc[w] = "unborn"
  /\ proc' = [proc EXCEPT ![w] = "live"]
  /\ cgroup' = [cgroup EXCEPT ![w] = cgroup[Proxy]]

\* init: the post of /init, which makes the first worker.
PostInit(w) ==
  /\ phase = "created"
  /\ Lease!Start(w) /\ Born(w)
  /\ phase' = "inited"
  /\ UNCHANGED <<limit, dirs, proxyPid, adapted, pids, pc>>

InitTop ==
  /\ phase = "inited"
  /\ pids' = [pids EXCEPT !["init"] = Top]
  /\ phase' = "listed"
  /\ UNCHANGED <<proc, cgroup, limit, dirs, proxyPid, adapted, pc, leaseVars>>

InitLimits ==
  /\ phase = "listed"
  /\ proxyPid' = StillListed(pids["init"])
  /\ \/ Limit(pids["init"]) /\ phase' = "up"
     \/ LimitFails(pids["init"]) /\ phase' = "failed"
  /\ UNCHANGED <<proc, adapted, pids, pc, leaseVars>>

\* adapt_proxy_cpu: opening a file of a directory that was removed raises.
AdaptProxyCpu ==
  /\ phase = "up" /\ adapted # "raised"
  /\ IF proxyPid \subseteq dirs
       THEN /\ limit' = [d \in Pids |-> IF d \in proxyPid THEN "more" ELSE limit[d]]
            /\ adapted' = "yes"
       ELSE UNCHANGED limit /\ adapted' = "raised"
  /\ UNCHANGED <<proc, cgroup, dirs, proxyPid, phase, pids, pc, leaseVars>>

-----------------------------------------------------------------------------
\* The first pass finds an idle worker and runs the function, ...
SendIdle(r) ==
  /\ phase = "up" /\ pc[r] = "idle"
  /\ \E w \in workers : Lease!Grant(r, w)
  /\ pc' = [pc EXCEPT ![r] = "run"]
  /\ UNCHANGED <<proc, cgroup, limit, dirs, proxyPid, phase, adapted, pids>>

\* ... or makes one.
SendNew(r) ==
  /\ phase = "up" /\ pc[r] = "idle"
  /\ workers \subseteq Lease!Leased
  /\ \E w \in Workers : Lease!StartFor(r, w) /\ Born(w)
  /\ pc' = [pc EXCEPT ![r] = "top"]
  /\ UNCHANGED <<limit, dirs, proxyPid, phase, adapted, pids>>

\* container.top() looks at the processes; its answer comes later.
GetPids(r) ==
  /\ pc[r] = "top"
  /\ pids' = [pids EXCEPT ![r] = Top]
  /\ pc' = [pc EXCEPT ![r] = AfterTop]
  /\ UNCHANGED <<proc, cgroup, limit, dirs, proxyPid, phase, adapted, leaseVars>>

\* The limits, then the second pass.  An exception ends the request and nobody
\* runs its worker.
LimitAndRun(r) ==
  /\ pc[r] = "limit"
  /\ \/ Limit(pids[r]) /\ pc' = [pc EXCEPT ![r] = "run"]
     \/ LimitFails(pids[r]) /\ pc' = [pc EXCEPT ![r] = "failed"]
  /\ UNCHANGED <<proc, proxyPid, phase, adapted, pids, leaseVars>>

EndRun(r) ==
  /\ pc[r] = "run"
  /\ Lease!Return(r)
  /\ pc' = [pc EXCEPT ![r] = "idle"]
  /\ UNCHANGED <<proc, cgroup, limit, dirs, proxyPid, phase, adapted, pids>>

\* The pool's cleaner deletes the unit: the process is killed and not waited for.
Killed(w) ==
  /\ Lease!Retire(w)
  /\ phase = "up"
  /\ proc' = [proc EXCEPT ![w] = AfterKill]
  /\ UNCHANGED <<cgroup, limit, dirs, proxyPid, phase, adapted, pids, pc>>

HelperEnds(h) ==
  /\ proc[h] = "live"
  /\ proc' = [proc EXCEPT ![h] = "gone"]
  /\ UNCHANGED <<cgroup, limit, dirs, proxyPid, phase, adapted, pids, pc, leaseVars>>

Create == WaitTop \/ WaitSetUp \/ WaitFails

Next ==
  \/ Create
  \/ InitTop \/ InitLimits \/ AdaptProxyCpu
  \/ \E w \in Workers : PostInit(w) \/ Killed(w)
  \/ \E h \in Helpers : HelperEnds(h)
  \/ \E r \in Requests :
       SendIdle(r) \/ SendNew(r) \/ GetPids(r) \/ LimitAndRun(r) \/ EndRun(r)

Spec == Init /\ [][Next]_vars

\* The loop of wait_start goes on.
FairSpec == Spec /\ WF_vars(WaitTop) /\ WF_vars(WaitSetUp \/ WaitFails)

-----------------------------------------------------------------------------
TypeOK ==
  /\ proc \in [Pids -> {"unborn", "live", "zombie", "gone"}]
  /\ cgroup \in [Pids -> Pids \cup {"top"}]
  /\ limit \in [Pids -> {"none", "proxy", "worker", "more"}]
  /\ dirs \subseteq Pids
  /\ proxyPid \subseteq FirstPids
  /\ phase \in {"starting", "setup", "created", "inited", "listed", "up", "failed"}
  /\ adapted \in {"no", "yes", "raised"}
  /\ pids \in [Caller -> SUBSET Pids]
  /\ pc \in [Requests -> {"idle", "top", "limit", "run", "failed"}]
  /\ workers \subseteq Workers
  /\ lease \in [Requests -> Workers \cup {Nobody}]

\* A worker runs functions only in a directory of its own with a worker's limits,
\* whoever made it and whatever other calls, deaths and failed calls came between
\* its birth in the proxy's directory, the list its caller got and the run.
LimitedWhenRun ==
  \A r \in Requests : pc[r] = "run" =>
    LET w == lease[r] IN cgroup[w] = w /\ w \in dirs /\ limit[w] = "worker"

\* Once limited, a worker stays in its directory and keeps its share while it lives, and
\* the proxy never loses the share that adapt_proxy_cpu gave it: not to a call that sets
\* limits by an older list, to a recycle_limits between a birth and a death, or to
\* adapt_proxy_cpu, whose proxyPid the loop of init has left with the wrong entries.
LimitsStay ==
  [][/\ \A w \in Workers :
          w \in dirs /\ proc'[w] = "live" => cgroup'[w] = w /\ limit'[w] = limit[w]
     /\ phase = "up" => limit'[Proxy] \in {limit[Proxy], "more"}]_vars

\* A worker that is killed while a call holds an older list makes no call fail: only a
\* helper that ends does, and then calls that have nothing to do with it: of requests,
\* of init, and of adapt_proxy_cpu, which opens the files of a proxyPid that is stale
\* (recycle_limits removed them, or the loop of init skipped the entry).
OnlyHelpersBreakCalls ==
  (phase = "failed" \/ adapted = "raised" \/ \E r \in Requests : pc[r] = "failed") =>
    \E h \in Helpers : proc[h] = "gone"

-----------------------------------------------------------------------------
\* The inductive invariant: OnlyHelpersBreakCalls and what the three properties rest on.

\* Only a helper is waited for, and the pool keeps no worker it has killed.
KindsOfProc ==
  /\ proc[Proxy] = "live"
  /\ \A h \in Helpers : proc[h] \in {"live", "gone"}
  /\ \A w \in Workers : proc[w] # "gone"
  /\ \A w \in workers : proc[w] = "live"

\* A process that is not there yet is in no list and has no directory.
UnbornUnknown ==
  \A w \in Workers :
    /\ phase \in {"starting", "setup", "created"} => proc[w] = "unborn"
    /\ proc[w] = "unborn" => w \notin dirs /\ \A c \in Caller : w \notin pids[c]

\* A worker is in the proxy's directory until it gets its own, which has its limits.
DirOfWorker ==
  \A w \in Workers :
    /\ proc[w] = "live" => (w \in dirs <=> cgroup[w] = w)
    /\ w \in dirs => limit[w] = "worker"

\* A directory is removed only when it has no members.
MembersInDirs == \A p \in Pids : proc[p] = "live" /\ cgroup[p] # "top" => cgroup[p] \in dirs

\* From the end of wait_start on the processes of proxyPid are in their directories.
ProxyAtHome ==
  /\ phase = "setup" => Proxy \in proxyPid
  /\ phase \notin {"starting", "setup"} =>
       /\ cgroup[Proxy] = Proxy /\ limit[Proxy] \in {"proxy", "more"}
       /\ \A p \in proxyPid : proc[p] = "live" => cgroup[p] = p

\* The worker a call waits to limit is in the list the call goes on with.
ListsOfCalls ==
  /\ phase = "listed" => workers \subseteq pids["init"]
  /\ \A r \in Requests :
       /\ pc[r] # "idle" => phase = "up"
       /\ pc[r] \in {"top", "limit", "run"} => lease[r] \in workers
       /\ pc[r] = "limit" => lease[r] \in pids[r]

\* A worker that can be given to a call has its directory.
FreeWorkersLimited ==
  /\ phase = "up" => \A w \in workers \ Lease!Leased : cgroup[w] = w
  /\ \A r \in Requests : pc[r] = "run" => cgroup[lease[r]] = lease[r]

IInv ==
  /\ TypeOK /\ KindsOfProc /\ UnbornUnknown /\ DirOfWorker /\ ProxyAtHome
  /\ MembersInDirs /\ ListsOfCalls /\ FreeWorkersLimited /\ OnlyHelpersBreakCalls

\* "# wait for the container cold start": once no process comes or goes, the wait ends.
ColdStartEnds == <>(phase \notin {"starting", "setup"})
=============================================================================
