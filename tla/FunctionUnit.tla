---------------------------- MODULE FunctionUnit ----------------------------
(***************************************************************************)
(* The session scheduler (function/functionUnit.py): one user's one        *)
(* function, its containers and the greenlets that send requests to them.  *)
(*                                                                         *)
(* Greenlets switch only where they block: in the calls to docker and to   *)
(* the proxies, and in gevent.sleep.  The sections of self.lock and        *)
(* self.shortLock hold no such call, so no greenlet ever waits for either, *)
(* and the code from one blocking call to the next is one step here.  The  *)
(* daemon cleaner is never started (its spawn in init is commented out),   *)
(* so container_cleaner is left out.                                       *)
(*                                                                         *)
(* A container stands for its host port, which the port controller hands   *)
(* out once.  Containers are counted from 1, where the code counts from 0. *)
(***************************************************************************)
EXTENDS Naturals, Sequences, FiniteSets, SequencesExt

CONSTANTS
  Requests,      \* the greenlets, one request each
  PortList,      \* the range of the port controller
  MaxWorker,     \* funcInfo.max_containers
  ParrelWorker,  \* parrelWorker, the tasks a container may have
  Fails,         \* calls to docker and to a proxy may raise
  NoPort

ASSUME UnitAssumption ==
  /\ IsFiniteSet(Requests)
  /\ PortList \in Seq(Nat) /\ IsInjective(PortList)
  /\ MaxWorker \in Nat \ {0}
  /\ ParrelWorker \in Nat \ {0}
  /\ Fails \in BOOLEAN
  /\ NoPort \notin Nat

Port == ToSet(PortList)

VARIABLES
  port_resource,   \* the free ports
  workers,         \* the containers of the unit
  workerCount,
  maxTaskLimits,
  nowTasks,
  scaleFlag,
  mainPort,
  mainOf,          \* the mainPort each port's container is to be told, or its own
  initialized,     \* the containers whose proxy has run /init to its end
  refused,         \* those whose proxy has answered it 500
  running,         \* the containers docker runs, from the end of Container.create on
  unit,            \* where FunctionUnit.init is
  pc,              \* where the send_request of a request is
  cand,            \* its candidateWorker, 0 for None
  at,              \* the workerCount it evaluated for workers.insert
  new              \* the port of the container it or the unit is creating

vars == <<port_resource, workers, workerCount, maxTaskLimits, nowTasks, scaleFlag,
          mainPort, mainOf, initialized, refused, running, unit, pc, cand, at, new>>
lists == <<workerCount, maxTaskLimits, nowTasks>>
proxies == <<initialized, refused>>
containers == <<workers, mainOf, proxies, running>>

(***************************************************************************)
(* Operators named for one line of the code each, and before each one the  *)
(* fault that the properties below are tried on.                           *)
(***************************************************************************)
HasRoomFault(i) == nowTasks[i] <= maxTaskLimits[i]      \* one task too many
\* send_request: if self.nowTasks[i] < self.maxTaskLimits[i]
HasRoom(i) == nowTasks[i] < maxTaskLimits[i]

MayGrowFault == workerCount <= MaxWorker                \* one container too many
\* horizontal_scale: if self.workerCount < self.maxWorker
MayGrow == workerCount < MaxWorker

FlagTakenFault == FALSE                                 \* the flag is only tested
\* horizontal_scale: self.scaleFlag = True
FlagTaken == TRUE

FlagGivenBackFault == TRUE                              \* the flag is not reset
\* horizontal_scale: self.scaleFlag = False
FlagGivenBack == FALSE

FirstTasksFault == 0                                    \* the task is not counted
\* "Directly assigned one task"
FirstTasks == 1

InitTargetFault == workers[1]                           \* as in FunctionUnit.init
\* horizontal_scale: self.workers[self.workerCount].init(...); the index is read before init
\* blocks, and does not move meanwhile: the flag keeps other scalers out.
InitTarget == workers[workerCount + 1]

RemovedFault == {workers[i] : i \in 1..(workerCount - 1)}    \* one container too few
\* destroy: for i in range(0, self.workerCount)
Removed == {workers[i] : i \in 1..workerCount}

MainForFault(p) == NoPort                               \* the defaults of Container.create
\* The mainPort in the /init of a new container; a main container is its own.
MainFor(p) == IF workerCount = 0 THEN p ELSE mainPort

-----------------------------------------------------------------------------
Init ==
  /\ port_resource = PortList
  /\ workers = <<>> /\ workerCount = 0
  /\ maxTaskLimits = <<>> /\ nowTasks = <<>>
  /\ scaleFlag = FALSE
  /\ mainPort = NoPort
  /\ mainOf = [p \in Port |-> NoPort]
  /\ initialized = {} /\ refused = {}
  /\ running = {}
  /\ unit = "off"
  /\ pc = [r \in Requests |-> "new"]
  /\ cand = [r \in Requests |-> 0]
  /\ at = [r \in Requests |-> 0]
  /\ new = [r \in Requests |-> NoPort]

(***************************************************************************)
(* /init of the proxy in container p.  When the first worker cannot be     *)
(* started it answers 500, before it has read isMain and mainPort, and     *)
(* nobody looks at what Container.init returns.                            *)
(***************************************************************************)
InitPosted(p) ==
  \/ initialized' = initialized \cup {p} /\ UNCHANGED refused
  \/ Fails /\ refused' = refused \cup {p} /\ UNCHANGED initialized

\* The container the proxy of p sends its state calls to.
StoreOf(p) == IF p \in initialized THEN mainOf[p] ELSE NoPort

(***************************************************************************)
(* FunctionUnit.init.  Its caller starts no request before it is over.     *)
(***************************************************************************)
UnitGoes(from, to) ==
  /\ unit = from
  /\ unit' = to
  /\ UNCHANGED <<pc, cand, at, new, scaleFlag>>

\* portMan.get() and Container.create(..., True, ...), up to its answer.
UnitCreates ==
  /\ UnitGoes("off", "created")
  /\ port_resource # <<>>
  /\ port_resource' = Tail(port_resource)
  /\ workers' = Append(workers, Head(port_resource))
  /\ running' = running \cup {Head(port_resource)}
  /\ mainOf' = [mainOf EXCEPT ![Head(port_resource)] = Head(port_resource)]
  /\ UNCHANGED <<lists, mainPort, proxies>>

UnitInits ==
  /\ UnitGoes("created", "initialized")
  /\ InitPosted(workers[1])
  /\ UNCHANGED <<port_resource, workers, mainOf, running, lists, mainPort>>

\* get_main_ip and the rest.
UnitComesUp ==
  /\ UnitGoes("initialized", "up")
  /\ mainPort' = workers[1]
  /\ maxTaskLimits' = Append(maxTaskLimits, ParrelWorker)
  /\ nowTasks' = Append(nowTasks, 0)
  /\ workerCount' = 1
  /\ UNCHANGED <<port_resource, containers>>

\* A call raises: the one of Container.init before or after the proxy has served it.
UnitFails ==
  /\ Fails \/ (unit = "off" /\ port_resource = <<>>)
  /\ unit \in {"off", "created", "initialized"}
  /\ UnitGoes(unit, "failed")
  /\ UNCHANGED proxies \/ (unit = "created" /\ InitPosted(workers[1]))
  /\ UNCHANGED <<port_resource, workers, mainOf, running, lists, mainPort>>

(***************************************************************************)
(* send_request and horizontal_scale.                                      *)
(***************************************************************************)
Goes(r, from, to) ==
  /\ pc[r] = from
  /\ pc' = [pc EXCEPT ![r] = to]
  /\ UNCHANGED unit

\* Scheduling is left to the steps below.
Call(r) ==
  /\ unit = "up"
  /\ Goes(r, "new", "scan")
  /\ UNCHANGED <<port_resource, containers, lists, mainPort, scaleFlag, cand, at, new>>

\* The lowest container with room gets the request.
Assign(r) ==
  \E i \in 1..workerCount :
    /\ HasRoom(i) /\ \A j \in 1..(i - 1) : ~HasRoom(j)
    /\ nowTasks' = [nowTasks EXCEPT ![i] = @ + 1]
    /\ cand' = [cand EXCEPT ![r] = i]
    /\ Goes(r, "scan", "send")
    /\ UNCHANGED <<port_resource, containers, workerCount, maxTaskLimits, mainPort,
                   scaleFlag, at, new>>

AllFull == \A i \in 1..workerCount : ~HasRoom(i)

\* All containers are full, and somebody else is adding one or there may be no more:
\* gevent.sleep(0.001).
Sleep(r) ==
  /\ AllFull
  /\ scaleFlag \/ ~MayGrow
  /\ Goes(r, "scan", "sleep")
  /\ UNCHANGED <<port_resource, containers, lists, mainPort, scaleFlag, cand, at, new>>

Wake(r) ==
  /\ Goes(r, "sleep", "scan")
  /\ UNCHANGED <<port_resource, containers, lists, mainPort, scaleFlag, cand, at, new>>

\* The arguments of workers.insert are evaluated, and Container.create blocks.
StartCreate(r) ==
  /\ AllFull /\ ~scaleFlag /\ MayGrow
  /\ port_resource # <<>>
  /\ Goes(r, "scan", "create")
  /\ scaleFlag' = FlagTaken
  /\ port_resource' = Tail(port_resource)
  /\ at' = [at EXCEPT ![r] = workerCount]
  /\ new' = [new EXCEPT ![r] = Head(port_resource)]
  /\ mainOf' = [mainOf EXCEPT ![Head(port_resource)] = MainFor(Head(port_resource))]
  /\ UNCHANGED <<workers, proxies, running, lists, mainPort, cand>>

\* "no idle port": the flag stays.
NoIdlePort(r) ==
  /\ AllFull /\ ~scaleFlag /\ MayGrow
  /\ port_resource = <<>>
  /\ Goes(r, "scan", "scalefailed")
  /\ scaleFlag' = FlagTaken
  /\ UNCHANGED <<port_resource, containers, lists, mainPort, cand, at, new>>

EndCreate(r) ==
  /\ Goes(r, "create", IF workerCount = 0 THEN "mainip" ELSE "init")
  /\ workers' = InsertAt(workers, at[r] + 1, new[r])
  /\ running' = running \cup {new[r]}
  /\ UNCHANGED <<port_resource, mainOf, proxies, lists, mainPort, scaleFlag,
                 cand, at, new>>

\* get_main_ip and get_main_port, when the new container is the only one.
SetMain(r) ==
  /\ Goes(r, "mainip", "init")
  /\ mainPort' = workers[1]
  /\ UNCHANGED <<port_resource, containers, lists, scaleFlag, cand, at, new>>

AddContainer(r) ==
  /\ InitPosted(InitTarget)
  /\ maxTaskLimits' = InsertAt(maxTaskLimits, workerCount + 1, ParrelWorker)
  /\ nowTasks' = InsertAt(nowTasks, workerCount + 1, FirstTasks)
  /\ workerCount' = workerCount + 1
  /\ cand' = [cand EXCEPT ![r] = workerCount + 1]
  /\ UNCHANGED <<port_resource, workers, mainOf, running, mainPort, at, new>>

\* Container.init is answered, with whatever status.
EndScale(r) ==
  /\ Goes(r, "init", "send")
  /\ AddContainer(r)
  /\ scaleFlag' = FlagGivenBack

\* adapt_proxy_cpu raises.
AdaptFails(r) ==
  /\ Fails
  /\ Goes(r, "init", "scalefailed")
  /\ AddContainer(r)
  /\ UNCHANGED scaleFlag

\* Container.create, get_main_ip or Container.init raises, the last one before or after the
\* proxy has served it.
ScaleFails(r) ==
  /\ Fails
  /\ pc[r] \in {"create", "mainip", "init"}
  /\ Goes(r, pc[r], "scalefailed")
  /\ UNCHANGED proxies \/ (pc[r] = "init" /\ InitPosted(InitTarget))
  /\ UNCHANGED <<port_resource, workers, mainOf, running, lists, mainPort, scaleFlag,
                 cand, at, new>>

\* The container answers.
Finish(r) ==
  /\ Goes(r, "send", "done")
  /\ workers[cand[r]] \in running
  /\ nowTasks' = [nowTasks EXCEPT ![cand[r]] = @ - 1]
  /\ cand' = [cand EXCEPT ![r] = 0]
  /\ UNCHANGED <<port_resource, containers, workerCount, maxTaskLimits, mainPort,
                 scaleFlag, at, new>>

\* Container.send_request raises: the task is never taken off.
SendFails(r) ==
  /\ Fails
  /\ Goes(r, "send", "failed")
  /\ UNCHANGED <<port_resource, containers, lists, mainPort, scaleFlag, cand, at, new>>

(***************************************************************************)
(* destroy, once its caller has joined the greenlets.                      *)
(***************************************************************************)
Joined ==
  /\ unit = "up"
  /\ \A r \in Requests : pc[r] \in {"new", "done", "failed", "scalefailed"}

\* Docker refuses to remove a container that it does not have.
Destroy ==
  /\ Joined
  /\ \A i \in 1..workerCount : workers[i] \in running
  /\ running' = running \ Removed
  /\ workers' = <<>> /\ workerCount' = 0
  /\ maxTaskLimits' = <<>> /\ nowTasks' = <<>>
  /\ cand' = [r \in Requests |-> 0]
  /\ UNCHANGED <<port_resource, mainOf, proxies, scaleFlag, mainPort, unit, pc,
                 at, new>>

\* The removal of container i + 1 raises: those before it are gone, and stay in the lists.
DestroyFails ==
  /\ Joined
  /\ \E i \in 0..(workerCount - 1) :
       /\ Fails \/ workers[i + 1] \notin running
       /\ \A j \in 1..i : workers[j] \in running
       /\ running' = running \ {workers[j] : j \in 1..i}
  /\ UNCHANGED <<port_resource, workers, mainOf, proxies, lists, mainPort, scaleFlag,
                 unit, pc, cand, at, new>>

-----------------------------------------------------------------------------
UnitInit == UnitCreates \/ UnitInits \/ UnitComesUp \/ UnitFails

SendRequest(r) ==
  \/ Assign(r) \/ Sleep(r) \/ Wake(r) \/ Finish(r)
  \/ StartCreate(r) \/ NoIdlePort(r) \/ EndCreate(r) \/ SetMain(r) \/ EndScale(r)

Fail(r) == AdaptFails(r) \/ ScaleFails(r) \/ SendFails(r)

Next ==
  \/ UnitInit \/ Destroy \/ DestroyFails
  \/ \E r \in Requests : Call(r) \/ SendRequest(r) \/ Fail(r)

Spec == Init /\ [][Next]_vars

\* gevent runs every greenlet whose call has returned, and calls return.
FairSpec == Spec /\ \A r \in Requests : WF_vars(SendRequest(r))

-----------------------------------------------------------------------------
Pc == {"new", "scan", "sleep", "create", "mainip", "init", "send", "done", "failed",
       "scalefailed"}

\* Types; and the three lists of the unit keep in step with workerCount, which stays
\* within maxWorker.  workers may be one ahead, by a container that is being added.
TypeOK ==
  /\ port_resource \in Seq(Port)
  /\ workers \in Seq(Port)
  /\ workerCount \in 0..MaxWorker
  /\ maxTaskLimits \in Seq({ParrelWorker}) /\ Len(maxTaskLimits) = workerCount
  /\ nowTasks \in Seq(Nat) /\ Len(nowTasks) = workerCount
  /\ scaleFlag \in BOOLEAN
  /\ mainPort \in Port \cup {NoPort}
  /\ mainOf \in [Port -> Port \cup {NoPort}]
  /\ initialized \in SUBSET Port /\ refused \in SUBSET Port
  /\ running \in SUBSET Port
  /\ unit \in {"off", "created", "initialized", "up", "failed"}
  /\ pc \in [Requests -> Pc]
  /\ cand \in [Requests -> 0..workerCount]
  /\ at \in [Requests -> 0..MaxWorker]
  /\ new \in [Requests -> Port \cup {NoPort}]
  /\ unit = "up" => Len(workers) \in {workerCount, workerCount + 1}

Scaling(r) == pc[r] \in {"create", "mainip", "init"}

\* "Only executed once", on which the rest of horizontal_scale relies: one greenlet at a
\* time creates a container, and the workerCount it passed to workers.insert before
\* Container.create blocked is still the workerCount it uses afterwards.
ExecutedOnce ==
  /\ \A r, s \in Requests : Scaling(r) /\ Scaling(s) => r = s
  /\ \A r \in Requests : Scaling(r) => at[r] = workerCount

\* scaleFlag stays set only for a greenlet that is adding a container, or that has died
\* of an exception while it was: no other path leaves the flag behind.
FlagHasScaler ==
  scaleFlag => \E r \in Requests : Scaling(r) \/ pc[r] = "scalefailed"

TasksOf(i) == {r \in Requests : cand[r] = i}

\* nowTasks counts the requests assigned to each container, those included that were
\* assigned while it was being added and those that failed and keep their slot.
TasksCounted ==
  \A i \in 1..workerCount : nowTasks[i] = Cardinality(TasksOf(i))

\* No container is given more tasks than its limit, although the check of the limit, the
\* count of a new container's first task and the end of a task are steps apart.
TasksWithinLimit == \A i \in 1..workerCount : nowTasks[i] <= maxTaskLimits[i]

Answered == initialized \cup refused

\* A request is sent only to a container whose /init has been answered, with whatever
\* status, although a container enters workers before its /init is sent.
SentToInitialized ==
  \A r \in Requests : pc[r] = "send" =>
    cand[r] \in 1..workerCount /\ workers[cand[r]] \in Answered

\* No two containers of a unit send their state calls to different stores: they use that
\* of the first one, also when the unit has been destroyed and grows again (mainPort), and
\* one that is counted in workerCount and uses none has refused its /init.
OneStateStore ==
  \A i \in 1..Len(workers) :
    /\ StoreOf(workers[i]) \in {workers[1], NoPort}
    /\ i <= workerCount /\ StoreOf(workers[i]) = NoPort => workers[i] \in refused

Died(r) == pc[r] = "scalefailed"

\* A container that docker runs is one of the unit's, or one that a greenlet was adding
\* when it died of an exception: destroy forgets no other (destroy, horizontal_scale).
OnlyErrorsOrphan ==
  \A p \in running :
    \/ \E i \in 1..Len(workers) : workers[i] = p
    \/ \E r \in Requests : Died(r) /\ new[r] = p

\* While no call raises and ports last, every request is answered, however many
\* find all containers full, or somebody else adding one, and sleep.
Served == \A r \in Requests : pc[r] = "scan" ~> pc[r] = "done"

\* The scheduler keeps the promise of TaskSlots.
Slots == INSTANCE TaskSlots
  WITH MaxSize <- MaxWorker, Limit <- ParrelWorker, size <- workerCount, task <- cand
ImplementsSlots == Slots!Spec

-----------------------------------------------------------------------------
(***************************************************************************)
(* The inductive invariant.                                                *)
(***************************************************************************)
\* FunctionUnit.init is over before the first request.
UnitShape ==
  /\ unit # "up" => workerCount = 0 /\ ~scaleFlag /\ \A r \in Requests : pc[r] = "new"
  /\ unit = "off" => workers = <<>>
  /\ unit \in {"created", "initialized"} => Len(workers) = 1
  /\ unit = "initialized" => workers[1] \in Answered

\* A free port belongs to no container, and is free once.
PortsFresh ==
  /\ \A i, j \in 1..Len(port_resource) : port_resource[i] = port_resource[j] => i = j
  /\ \A i \in 1..Len(port_resource) :
       /\ \A j \in 1..Len(workers) : workers[j] # port_resource[i]
       /\ \A r \in Requests : pc[r] = "create" => new[r] # port_resource[i]

\* How far the greenlet that holds scaleFlag is.
ScaleShape ==
  /\ \A r \in Requests : Scaling(r) => scaleFlag
  /\ unit = "up" /\ ~scaleFlag => Len(workers) = workerCount
  /\ \A r \in Requests : pc[r] = "create" =>
       /\ new[r] \in Port
       /\ Len(workers) = workerCount
       /\ workerCount < MaxWorker
       /\ mainOf[new[r]] = MainFor(new[r])
  /\ \A r \in Requests : pc[r] \in {"mainip", "init"} =>
       /\ Len(workers) = workerCount + 1
       /\ workerCount < MaxWorker
       /\ pc[r] = "mainip" => workerCount = 0

\* mainPort is the port of the first container whenever somebody may read it.
MainIsFirst ==
  /\ workerCount > 0 => mainPort = workers[1]
  /\ \A r \in Requests : pc[r] = "init" => mainPort = workers[1]

\* Every container is to be told the port of the first one.
ToldFirst == \A i \in 1..Len(workers) : mainOf[workers[i]] = workers[1]

\* A container counted in workerCount has answered its /init.
CountedHasAnswered == \A i \in 1..workerCount : workers[i] \in Answered

\* A request has a container while it is sent, and keeps it if it fails.
CandOfCall ==
  \A r \in Requests :
    /\ cand[r] # 0 => pc[r] \in {"send", "failed", "scalefailed"}
    /\ pc[r] = "send" => cand[r] # 0

IInv ==
  /\ TypeOK
  /\ UnitShape
  /\ PortsFresh
  /\ ScaleShape
  /\ ExecutedOnce
  /\ FlagHasScaler
  /\ MainIsFirst
  /\ ToldFirst
  /\ CountedHasAnswered
  /\ CandOfCall
  /\ TasksCounted
  /\ TasksWithinLimit

\* A container that workers is ahead by belongs to the greenlet that adds it, dead or alive.
AddedByScaler ==
  unit = "up" /\ Len(workers) = workerCount + 1 =>
    \E r \in Requests : (Scaling(r) \/ Died(r)) /\ new[r] = workers[workerCount + 1]

\* The invariant for OnlyErrorsOrphan.
RunInv == OnlyErrorsOrphan /\ AddedByScaler
=============================================================================
