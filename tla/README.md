# wFaaS: TLA+ models and proofs

wFaaS runs a user's function in WebAssembly worker processes.  Inside a container a C++
*proxy* (`src/vFaaS/proxy`) keeps a pool of worker processes (`src/vFaaS/worker`) and,
in the first container of a user, the state that functions share.  On the host a Python
*session scheduler* (`src/function`) creates containers, puts worker processes into
cgroups and sends requests to proxies, in gevent greenlets.  This directory holds TLA+
modules translated from that code, TLC configurations that check them on small instances,
and TLAPS proofs that hold for every instance.

To run: `tlc -config WorkerPool_safety.cfg MCWorkerPool` (one line per run is below), and
`tlapm WorkerPoolProofs.tla`.

## 1. Inventory

| Component | State it keeps | Operations | Talks to |
|---|---|---|---|
| Worker pool, `WorkerPool.hpp` | `pool` (vector of units), `mutex` | `dispatch_request` (two passes), `addWorker`, `try_remove` every 10 s | worker units; `status` of the proxy |
| Worker unit, `WorkerUnit.hpp` | `idle`, `id`, `timeStamp`, pipes, pid | `tryOccupy`, `setIdle`, `getStatus`, `checkValid`, `runCode` | the worker process by pipes; the state store by call or HTTP |
| State store, `LocalStorage.hpp` | `dataBase`, `lockBase` of `uniqueLock`s (`request_id`, `realLock`), two rwlocks | `readState`, `writeState`, `readStateLock`, `writeStateLock` | OSS or Redis |
| Proxy, `proxy.cpp` | `status`, configuration, a pool of 128 threads | `/init`, `/run`, `/status`, `/state/read`, `/state/write` | pool and store |
| Session scheduler, `functionUnit.py` | `workers`, `workerCount`, `nowTasks`, `maxTaskLimits`, `scaleFlag`, `mainPort` | `init`, `send_request`, `horizontal_scale`, `destroy` | containers, port controller |
| Container wrapper, `container.py` | `pidList`, `proxyPid`, cgroup files | `create`/`wait_start`, `init`, `send_request`, `add_limits`, `recycle_limits`, `adapt_proxy_cpu` | docker, proxies by HTTP |
| Port controller, `portController.py` | `port_resource` | `get`, `put` | |
| Worker process, `worker/`; pipes, `utils.cpp` | argument and result buffers, the two pipes | `startWorker`, READY / input / RETURN loop, `set_output`, `read_state`, `write_state` | its unit by pipes |
| Function set and manager | request queue, users' units | dispatch loop | cannot run: `functionManager.py:4` imports a function that is commented out, `functionSet.py:27` raises |

How they interact.  A greenlet of the scheduler finds a container with room
(`nowTasks[i] < maxTaskLimits[i]`) or adds one, and posts `/run` to it with `echo = -1`.
The proxy runs the function on an idle worker and answers; or, when it finds none, it makes
a worker that is born occupied and answers at once with the worker's id, so that the client
can put the process into its cgroup and post `/run` again with `echo = id`.  A function may
read and write states.  In the main container its unit calls the store; in another
container it posts to the main proxy.  In mode 1 a read keeps the key's lock until the same
request writes the key.

What is hard in it:

* **threads that share a vector, some of them without the mutex** (second pass, `/init`),
  and a daemon that removes units while calls hold pointers and clients hold indices;
* **a lock that spans two HTTP calls**, taken and released by different threads on behalf of
  a request id that is compared without synchronisation, with callers that give up after
  20 s while their handlers go on;
* **greenlets that block in the middle of an update** (`horizontal_scale`), protected by a
  flag, which an exception leaves behind;
* **two processes that talk over raw pipes**: nothing in the bytes says what they are, a full
  pipe blocks, an exception on one side leaves the other in the middle of a message;
* **processes that come and go** between the list docker gives and the cgroup files that are
  written for it;
* **partial failures**: a call that raises between two steps leaves a worker occupied, a
  slot counted, a flag set, a lock held.

What makes each component correct:

* pool: a worker runs one request; nobody holds a removed worker; the id given out in the
  first pass still names its worker in the second; workers are lost only with failed calls;
  unused workers go away and the status says so;
* store: the lock excludes across calls; a value read under it is current when the update is
  written; a held lock has a user or the id of the request that left it; no update is lost;
* scheduler: one container is added at a time; a container never has more than
  `parrelWorker` tasks; requests go to containers that have answered `/init`; all of them use
  the store of the first, but those that refused `/init`; every request is answered while nothing raises; no container is forgotten
  without an error;
* pipes: both sides always agree on what comes next, a worker that is used again has nothing
  left over, an answer is that of the request's own function, nobody waits for ever;
* cgroups: a worker runs functions only under a worker's limits and keeps them while it lives;
  the death of a worker makes no call fail.

`PROJECT.json` lists the components with what is modelled of each, and the hazards with the
line of each and the properties that cover it.

## 2. Modules

| Module | What it is |
|---|---|
| `WorkerPool` | pool, units and their flags, `/init`, `/run`, `status`, the two-call client |
| `WorkerLease` | what the pool promises: leases of workers to requests |
| `WorkerPoolProofs` | invariant, safety, action property, `WorkerPool` implements `WorkerLease` |
| `PoolBoundProofs` | the pool is never larger than the number of calls under way at once |
| `LocalStorage` | the store, its locks, `/state/*`, thread pool, remote timeouts, Redis exceptions |
| `StateLock` | what the store promises: one holder per key, who alone changes its value |
| `LocalStorageProofs` | invariant, mutual exclusion, fresh reads, no lost update |
| `StateLockProofs` | `LocalStorage` implements `StateLock` |
| `FunctionUnit` | the session scheduler with the port controller |
| `TaskSlots` | what the scheduler promises: requests in slots of containers |
| `FunctionUnitProofs` | invariant, safety, `FunctionUnit` implements `TaskSlots` |
| `WorkerPipe` | `runCode`, the worker process and the pipes between them |
| `FunctionCall` | what a worker promises: calls that are answered with its output buffer |
| `WorkerPipeProofs` | invariant, safety, `WorkerPipe` implements `FunctionCall` |
| `Cgroups` | the cgroup directories of a container; composed with `WorkerLease` for its pool |
| `CgroupsProofs` | invariant, safety, limits that stay |
| `MC...` | instances for TLC: symmetry sets, the keys of requests, port ranges |

`WorkerPool`, `WorkerPipe` and `LocalStorage` are three views of one `/run`: the pool treats
`runCode` as a call that ends or fails, which `WorkerPipe` opens up; `WorkerPipe` treats the
store as a call that is answered or throws, which `LocalStorage` opens up.  `WorkerPipe` has
one run at a time because `WorkerPool` gives a worker to one request at a time.  `Cgroups`
takes the pool's promise, `WorkerLease`, and not its threads.

In each module the operators before `Init` are named for one line of the code each, and the
`...Fault` in front of one is a plausible mistake in that line.  Each checked property
fails when one of these lines is replaced by its fault (the `mutants` of `PROJECT.json`).

### WorkerPool

`pool` is the vector (counted from 1), `capacity` says when `push_back` moves it, `live` the
units that exist; `idle`, `id`, `fresh` are the unit's flag, id and what `checkValid` would
answer.  `pc[r]` is where the call of request `r` is:

    ready -> pass1 -> scan -+-> run -> release -> ready          (an idle worker was found)
                            +-> spawn -> added -> limits -> pass2 -> lookup -> run -> ...

`scan` is the loop under the pool mutex, one step per worker (`SkipBusy`, `OccupyIdle`);
`limits` is the client between its two calls (`AddLimits`); `lookup` is the unlocked access
of the second pass.  The daemon goes `asleep -> awake -> check -> asleep` or
`-> delete -> asleep`.  Abstractions:

* A worker is an address, so a freed one can come back as a new unit (hazard of
  `delete` after `unlock`).
* The vector's unlocked reads race with `push_back` only when the elements move.  The
  result of that race is undefined: the model lets the old buffer give the right pointer or
  the process abort (`SecondPassAborts`).  `assert` is active: `build.sh` and `CMakeLists.txt`
  define no `NDEBUG`.  The unlocked test of the size in `try_remove` can overlap only the
  unlocked `push_back` of `/init` (`CleanerRacesInit`).
* The text between `push_back` and the assignment of `status` is a step of its own, because
  `/run` writes `status` without the mutex.
* A call that fails (500 from the proxy, or an exception in the client) ends its request: the
  greenlet dies (`failed`).  `cand` keeps the worker it occupied.
* Between the passes only the id is kept by the code; `cand` is there the worker the id stood
  for when it was given out (a history value, used by properties and the refinement only).
* An `/init` whose worker cannot be started answers 500, which `container.py` ignores: the
  pool stays empty, `status` stays `init`, and the requests go on (`InitFails`).
* The first unit lives 30 s, which is longer than `/init`; all others 15 s.
  `CleanerIdle` is the daemon's look at an empty pool; it changes nothing.

### LocalStorage

Each request runs one function that reads a key, computes and writes it.  `client[r]` is
where the function is, `rpc[r]` and `wpc[r]` where its read and write are in the store
(`queued`, `lookup` in `lockBase`, `onlock` the comparison of ids, `wait` for `realLock`,
`setid`, `access` to the value, `off` clearing the id, `unlock`, `done`).  A request of
`Remote` may give up (`ReadTimeout`, `WriteTimeout`) while its handler goes on, and a function
may end after its read without the write (`Drop`): it traps, `readFromJson` throws on the value
after FOUND, or it writes nothing.  Such a run leaves the key's lock held, with its id in it.
`broken` has the requests that gave up on a read and those whose call threw; a write that was
given up is stored and unlocks all the same, and is harmless to the lock.
Abstractions:

* The value of a key is the number of updates it has seen; so an update computed from a
  stale value shows.
* The rwlocks cover one access each and are never held while waiting for another lock that
  waits for them, so an access is one step.
* `onLock` compares a `std::string` that others write.  A torn value is equal to no id but
  the one that is being stored, and only the request itself stores its own; so the
  comparison is one step with the value before or after.
* `offLock` clears the id before it unlocks; the model keeps these apart.  The mutex is a
  default one, which any thread may unlock.
* `Stores` are the places where the values may be kept.  A call to OSS may fail; the read
  then finds nothing and the write is lost without a word.  The Redis client may throw
  (`ReadThrows`, `WriteThrows`): the rwlock of the class stays as it is, and so does the key's
  lock; in the main container the `/run` fails, another container is answered 500.  A read
  that threw lets later reads through and no write.  A write that threw lets nothing through
  but a call on its own thread, to which glibc answers EDEADLK and which then unlocks it
  (`SameThread`; the model does not follow which handler gets which thread, and lets any).
* The constructor sets two keys of Redis to "empty" when a proxy starts.  For the main proxy
  that is the initial state; that the proxies of later containers do it again is listed as a
  hazard and left out.
* Modes other than 0 and 1 leave `exists` uninitialised; functions use 0 and 1.

`StateLock` is what a function may rely on.  It has no HTTP calls, no threads and no ids: a
request acquires its key, may change the value, and releases it.  `Holders` maps a request that
is between `onLock` and `offLock`, in one of its calls or between the two; `LostKeys` has the keys
nothing is promised for: those some request uses in mode 0, and those for which a read was given
up or a call threw; `ValueOf` forgets the values of lost keys.

### FunctionUnit

A greenlet switches only where it blocks.  The sections of `lock` and `shortLock` hold no
blocking call, so neither is ever contended and the code between two blocking calls is one
step: `scan` (one pass of the loop of `send_request`), `sleep`, `create`
(`Container.create`), `mainip` (`inspect_container`), `init` (`Container.init`), `send`.
`at[r]` is the `workerCount` that was evaluated as an argument of `workers.insert` before
`create` blocked; `EndCreate` inserts there.  `Fails` lets every docker and proxy call raise:
the greenlet dies where it stands (`scalefailed`, `failed`) and what it had done stays done.
`mainOf[p]` is the main port that the `/init` of the container on port `p` carries.  The proxy
learns it from that body only, after it has started its first worker; when that fails it answers
500 (`refused`, `InitPosted`), which `Container.init`'s callers ignore, and its state calls go to
no store (`StoreOf`).  Abstractions: a
container is its port; `cand[r]` keeps the container of a request that failed, as `nowTasks`
does; `destroy` is called when no request is under way, as in `function/test.py`, and the unit
may be used again after it, the one way to the branch for `workerCount == 0`;
`container_cleaner` is left out since nothing starts it.  `running` has the containers docker
runs: `destroy` removes those that `workerCount` counts, one docker call after the other; when
one raises, those before it are gone and the lists stay as they are (`DestroyFails`), and as
docker refuses to remove what it does not have, a second `destroy` raises at the first.

### WorkerPipe

`up` and `down` are the pipes, of which every `write()` of the code is one cell: the field the
writer means (`field`) and its value.  A reader takes the cell at the head for the field it
reads there; `Framing` says that it is that field.  `usend` and `wsend` are the writes a side has
still to do before it reads again, `uneed` the fields of a state call that `runCode` has still to
read.  `unit` is where `runCode` is (`idle`, `ready`, `loop`, `read`, `write`, `result`, or
`thrown`), `worker` where the process is (`input`, `run`, `readReply`, `writeReply`, `value`).
A function (`worker = "run"`) sets outputs, makes state calls and returns or traps.
Abstractions:

* A value is the request it belongs to, so an answer or a state call made for the wrong request
  shows.  `silent` has the requests whose function set no output: the buffer is not cleared, so
  they are answered with the last output (`OwnAnswer` states just this).
* `Room` counts writes, not bytes; room for one is the least with which each side waits for
  the other as often as it can.
* `AnswerRead` has all ends of a read: found, missing, of another size (`readFromJson` throws
  after FOUND was sent), the store throws.  After an exception the unit is not given back.
* `Die` is the end of the process; `readBytes` then spins, which is a state that nobody leaves.
* A function has input bytes.  For a function with none the worker would not wait for a request.

### Cgroups

`proc` says which processes live, `cgroup` in which directory each is, `dirs` which directories
there are and `limit` what is written in them.  `phase` is where `create` and `init` are, `pc[r]`
where a call is (`top`: it got a new worker and asks for the list of processes; `limit`: it has
the answer, `pids[r]`).  The greenlets of the scheduler switch at HTTP calls only, so
`recycle_limits` and `add_limits` after `container.top()` are one step, which an exception may
end half way (`LimitFails`).  What docker, the kernel and cgroup v2 do is external and written
in the head of the module; a worker that was killed is never waited for and stays a zombie.
`StillListed` is the loop of `init` that removes from the list it iterates over.  `memory.max`
and `cpu.max` are one limit.  The image starts the proxy and some helpers, which may end.

## 3. Runs

| Run (configuration) | Instance | Shows | States |
|---|---|---|---|
| `pool_safety` (`WorkerPool_safety`) | 3 callers, 4 addresses | safety of the pool, `AbortOnlyByRace`, `ImplementsLease`, the inductive invariant | 113,062 |
| `pool_liveness` (`WorkerPool_liveness`) | 2 callers, 3 addresses, fair | calls return, an unused pool drains | 34,428 |
| `pool_assert` (`WorkerPool_assert`) | as safety | *violation*: the second pass aborts under a concurrent `push_back` | |
| `storage_safety` (`LocalStorage_safety`) | 3 locked updates of a new key (one remote, may time out), 1 unlocked of another key, any three of them, in OSS or Redis | exclusion, fresh reads, whose a held lock is, the inductive invariant | 266,039 |
| `storage_liveness` (`LocalStorage_liveness`) | 3 locked updates of a key written before, one remote, in memory or Redis, fair | no lost update, every request ends, `ImplementsLock` | 42,357 |
| `storage_firstuse` (`LocalStorage_firstuse`) | 2 remote locked updates of a new key | *violation*: one update lost | |
| `storage_oss` (`LocalStorage_oss`) | 1 locked update, failing bucket | *violation*: a failed write reported as stored | |
| `unit_safety` (`FunctionUnit_safety`) | 5 greenlets, 2 containers of 2 tasks, 3 ports, calls raise | safety of the scheduler, one store but for refused `/init`s, no forgotten container, `ImplementsSlots`, the inductive invariant | 37,370 |
| `unit_liveness` (`FunctionUnit_liveness`) | 4 greenlets, 2 containers of 1 task, 5 ports, nothing raises, fair | every request is served, also after a destroy | 10,741 |
| `pipe` (`WorkerPipe`) | 3 runs, room for one write, traps, exceptions, deaths, fair | framing, half duplex, nothing left over, own state calls and answers, runs return, `CallSpec` | 7,048 |
| `cgroup_safety` (`Cgroups_safety`) | 2 callers, 3 workers, 2 helpers before the proxy | workers run under their limits and keep them, which deaths break calls, the inductive invariant | 194,529 |
| `cgroup_coldstart` (`Cgroups_coldstart`) | 1 caller, 2 helpers, fair | *violation*: `wait_start` never ends | |

The type invariants of the proved modules are parts of their `IInv`, which the runs check.

**Bounds.**  Three callers are what the races of the pool need: one runs on a worker, one
waits for its second pass, one makes the vector move.  With a fourth address a worker can be
in `delete` while all callers hold one.  The pool mutex, the daemon and a caller are the only
parties of any other race.  For the store, three requests on one key give a holder, a waiter
and a zombie that took over after its caller gave up; the other key shows that keys do not
interfere; `ThreeStart` (`MCLocalStorage`), a constraint of the safety run, lets any three of the
four requests start.  With all four there are 1,550,874 states, and the same invariants hold.
`Threads` is as large as the calls there can be: with fewer, readers that wait for
a key can take every thread and the holder's write is never accepted, so `RequestsEnd` is a
statement about a proxy with a thread for each call (128 in the code).  For the scheduler, two
containers of two tasks and five requests give: full, growing, full again, one left waiting;
three ports let them run out after a destroy.  For the pipes, three runs let one be answered with
the output of one that is not the run before it.  For the cgroups, one worker runs, one waits
for its limits and one has been killed; two helpers let the loop of `init` skip one.  The
theorems below remove the bounds for all safety properties.

**Symmetry** is used in safety runs only: callers and addresses of the pool; local requests on
the same key; requests of the scheduler.

**Deadlock** is checked for the pool, for `FunctionUnit_liveness` and for the pipes, where `Over`
names the states in which nothing more happens: the runs are over, one has thrown, or one waits
for a dead worker.  `LocalStorage_*` (but `LocalStorage_oss`) switch it off, since a timeout, an
exception or a function without its write may leave a lock held for ever;
`FunctionUnit_safety`, since a unit may fail to come up; `Cgroups_*`, since a container whose calls have failed and whose workers are used up stops.

**Fairness.**  Pool: threads that can run do, functions return or fail, clients answer, time
passes; the pool mutex is taken under strong fairness, since unlocking wakes a waiter and the
only thread that comes back for ever, the daemon, sleeps 10 s between two locks.  New requests
are not forced.  Store: functions and handlers go on; a waiter is not passed over for ever at a
lock, or a queued call at the thread pool, which is first in first out; each of the finitely
many requests takes them a bounded number of times.  Timeouts and dropped writes are not
forced.  Scheduler: weak fairness of each greenlet: gevent runs each greenlet whose call has returned or whose sleep is
over.  Pipes: weak fairness of the reads and writes of both processes; `Return` is strongly fair,
as a function returns or traps after finitely many state calls.  Cgroups: the loop of
`wait_start` goes on, and no process need end.  Where liveness fails because of a known weakness,
the property says so in its conclusion: `crash # "none"`, `broken # {}`, `DroppedWithLock`,
`unit = "thrown"`, `~ alive`.

## 4. What the checks found

* **The proxy can die in the second pass** (`WorkerPool.hpp:76-78`).  Its reads of the vector
  are not under the pool mutex.  `AbortOnlyByRace` and `SecondPassFindsOwnWorker` show that
  this is the only reason: the id always names the right, occupied worker.
* **The first locked update of a key is not locked** (`LocalStorage.hpp:167-170`): a lock is
  made by the first write, so two first readers both find nothing and one update is lost.
  For keys written before, `NoLostUpdate` holds.
* **A failed write to OSS is reported as a success** (`LocalStorage.hpp:227-228`).
* **The wait for the cold start may never end** (`container.py:80`).  The loop of `wait_start`
  makes one directory per process; when a round fails after its first `mkdir` (a helper of
  the image has ended since `container.top()`), every later round fails at that `mkdir`, and
  `except Exception: pass` hides it.  `scaleFlag` stays set meanwhile.

Weaknesses that the properties state and that no document denies: the loop of `init` removes
from the list it iterates over (`container.py:131`), so the pid of a helper that has ended may
stay in `proxyPid`; `adapt_proxy_cpu` (`container.py:171`) then raises for the missing directory
(`OnlyHelpersBreakCalls`).  A `destroy` that raises half way cannot be completed.  A trap
answers a request with the output of an earlier one (`OwnAnswer`).  A container that refused its
`/init` is given requests, whose state calls reach no store (`OneStateStore`).  A function that
ends without its write keeps the key's lock for ever (`LockHasUser`, `RequestsEnd`).

Properties that hold, with the limits they state: a worker is lost to the pool only with a call
that failed (`BusyWorkerIsHeld`), a lock only with a request whose id it keeps: its read was
answered late, its call threw, or its function ended without the write (`LockHasUser`),
`scaleFlag` only with a greenlet that died (`FlagHasScaler`), a container likewise
(`OnlyErrorsOrphan`).  Each of these is a leak the code has: no
step of it repairs any.

## 5. Proofs

All are checked by TLAPS to the last leaf, for all values of the constants that satisfy the
modules' assumptions (`PoolAssumption`, `StorageAssumption`, `UnitAssumption`, `PipeAssumption`,
`CgroupAssumption`): the constants have their types, special values are distinct, the set of requests is finite where tasks or
updates are counted, ports are different.

The argument is the same in each module: an invariant `IInv`, whose parts are named definitions
of the component's module and which the safety run checks too; `Init => IInv`; one lemma per
action that a step keeps it, part by part; then `Spec => []IInv` and the properties from it.

*WorkerPool.*  What has to be added to the properties is who owns the mutex (`MutexIsOwned`),
that the id of a unit is its index (`IdIsIndex`), which calls have a worker and that a client's id is
its worker's (`CandidateOfCall`), and what the daemon points to (`PtrOfDaemon`).  The core is:
the daemon pops only the last worker, only after it has occupied it itself, and a worker of a
call is never idle; so the workers of calls stay in the pool, below the last, and indices
stay valid.  `PoolImplementsLease` maps `workers` to the units in the pool and `lease` to `cand`.

*PoolBound.*  `dispatch_request` has no limit of its own, so `PoolBounded` rests on counting:
a call adds a worker only after a scan under the mutex that found every worker occupied.
`BoundInv` says that at place `at` of the scan the workers before it, the calls that hold a worker
from `at` on, and the calls that are adding one are together no more than the callers; a
worker that is skipped is held by a call, by `BusyWorkerIsHeld`, or is occupied by the
daemon, which the mutex keeps away.  The calls that are counted are all under way (`Active`, those
that failed and left their worker occupied included), so the bound need not be the number of
callers there ever are: `PoolWithinCallers` says that if there are never more than `L` calls under
way there are never more than `L` workers, an assumption about the client and a promise of the
pool.  `TasksWithinLimitHolds` below is that assumption, for a pool whose client is the scheduler
and `L` its `parrelWorker`; that the tasks of a container are the calls under way in it is read off
the code (one task is one `Container.send_request`, and a task whose call failed keeps its slot)
and not yet a theorem.  `PoolBoundedHolds` is the case of all callers.

*LocalStorage.*  `LockOfSection` ties `realLock` and `request_id` to the requests that are inside
the lock, for keys no read of which was given up and no call for which threw.  For every key
`HeldById` says whose a held lock is; `LockHasUser` is read off it.  `CallsInOrder` says which
calls a request has made, `CallsOfClient` how far they are while it is not in `broken`;
`IdOfKey` keeps ids to their keys; `WrittenStaysFound` keeps keys written before readable.
A read that is given up or an exception puts the request into `broken`, and its key out of reach
of `LockOfSection`.  `NoLostUpdateHolds` assumes that the values are not in OSS.

`StoreImplementsLock` needs no more than this invariant.  A step of a request moves only that request
(`Frame`).  If it breaks the request its key is lost (`BreakLoses`); on a lost key anything is
a stutter (`LostKeyStutters`); otherwise the step is quiet, or enters its section with the mutex
free, which by `LockOfSection` means that nobody holds the key (`EnterAcquires`), or leaves it
(`LeaveReleases`), or stores inside it (`StoreChanges`).  It holds for OSS and for first uses too:
a first read that takes no lock is outside of the lock and changes nothing, and the update computed
from it is stored under the lock all the same.  What is lost there is the update, not the
exclusion, which is why `NoLostUpdate` is a property of its own.

*FunctionUnit.*  `ScaleShape` says how far the greenlet with `scaleFlag` is; with `ExecutedOnce`
this is why `workers.insert` appends and why the index used after `create` is right.
`PortsFresh` keeps a container's port from being handed out again, so `mainOf` of the others stays.
`OneStateStore` follows from `ToldFirst` (the `/init` of every container carries the port of the
first) and `CountedHasAnswered` (a container is counted once its `/init` is answered, with 200 or
with 500).
`TasksWithinLimit` is a part of the invariant: the test, the count and the end of a task are steps
apart, and the first task of a new container is counted without a test.
`UnitImplementsSlots` uses `TasksCounted`: the counters decide as the sets of tasks would.

`OnlyErrorsOrphan` has an invariant of its own, `RunInv`: the container that `workers` is ahead
by belongs to the greenlet that adds it, dead or alive.

*WorkerPipe.*  `Phase` lists the phases of the conversation; each says what is left to read
on either side, wherever the cells are (`up \o wsend`, `down \o usend`).  A write moves a cell
and keeps the phase; a read takes the first cell and moves to the next phase.  The safety
properties are read off the phases; `Outputs` follows the output buffer.  The theorem
`ImplementsCall` maps `call` to `cur`, `held` to `buffer` and `failed` to `unit = "thrown"`.

*Cgroups.*  A worker is born in the proxy's directory and leaves it once, for one of its own, when
some call (its own or another that asked for the list later) gives limits to the processes of its
list.  So a call that goes on to run its worker has to know only that the worker is in its list
(`ListsOfCalls`): a list is taken after the worker was born, and what is born stays listed, dead or
alive.  `DirOfWorker` says that a live worker has a directory just when it is in it, with a
worker's limits; `recycle_limits` removes no directory with a member (`LeftKeepsMembers`), so it
stays.  `FreeWorkersLimited` hands this on to the next call that is given the worker.
`ProxyAtHome` is the same for the processes of `proxyPid`.  For `OnlyHelpersBreakCalls`,
`KindsOfProc` says that a worker is never `gone`, so moving it never raises.  `LimitsStayHolds` is
the action theorem: no step takes a worker that lives out of its directory or changes its limits,
since `proxyPid`, whose processes `adapt_proxy_cpu` gives more, never gets a worker
(`StillListedSubset`).  That a directory with members is not removed is `MembersInDirs`, a part of
the invariant; cgroup v2 would refuse it too, and the code never tries.
What `StillListed` returns is defined by recursion; the proofs use only that it is a part of
`proxyPid`, and TLC its value.

Every safety property of the passing runs, the two action properties and the four refinements are
proved.
Only model-checked: all liveness (`CallReturns`, `PoolDrains`, `RequestsEnd`, `Served`,
`RunReturns`), which is out of the prover's reach, and the runs that end in a violation.

## 6. Not modelled, and the plan

The pool, the store, the scheduler, the pipes and the cgroups are modelled.  Next:

1. **Composition** of scheduler and pool (`TaskSlots` with one `WorkerLease` per container): the
   tasks of a container bound its workers; what a failed request costs.
2. **Two keys**: two functions that lock two keys in opposite orders.  This deadlocks, and
   nothing in the code excludes it, but the functions are the user's.

Not planned:

* the vendored code, which is nearly all of the lines under `include/`: `json.hpp` (24,596),
  `httplib.h` (8,431, of which only the thread pool's bound and the answer to a handler that
  throws matter here) and `base64.cpp`.  They are not this project's protocols, and a model of
  JSON or HTTP parsing would say nothing about it;
* the function set and the function manager, which cannot run at this commit;
* `functionConfig.hpp`, `functionInfo.py` and the build files, which have no behaviour of their
  own; the destructors of the pool and the store, which run only when the process ends;
* the set up of the WASM runtime (`worker.hpp`); functions without input bytes; malformed
  request bodies; modes other than 0 and 1, which leave `exists` uninitialised;
* `container_cleaner`, `daemon_cleaner`, `PortController.put`, `inherit`, `get_status`: nothing
  calls them.
