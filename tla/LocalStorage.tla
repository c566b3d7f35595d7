---------------------------- MODULE LocalStorage ----------------------------
(***************************************************************************)
(* The state store of the main proxy (vFaaS/proxy/LocalStorage.hpp), the   *)
(* /state/read and /state/write handlers of proxy.cpp, and the functions   *)
(* that use it through WorkerUnit::runCode.                                *)
(*                                                                         *)
(* Each request runs one function, which updates one key: it reads the key *)
(* (read_state), computes, and writes it back (write_state).  In mode 1    *)
(* both calls go through the key's uniqueLock: a read that finds a value   *)
(* keeps the lock under the id of its request, and the write releases it.  *)
(* In mode 0 there is no lock.  A request of the main proxy calls the      *)
(* store itself; a request of another container sends the call over HTTP   *)
(* and gives up after 20 s, while the handler of the main proxy goes on.   *)
(* A function may also end after its read without the write, and keeps the *)
(* lock the read has left it.                                              *)
(*                                                                         *)
(* The value of a key is the number of updates made to it; a read and a    *)
(* write of it are one step each, under the rwlock of the class.  The      *)
(* comparison of a request_id in onLock is unsynchronised; it is one step, *)
(* because a torn value equals no id but the one being stored, and only    *)
(* the request itself stores its own.  realLock is a default mutex, which  *)
(* glibc unlocks for whichever thread asks.                                *)
(*                                                                         *)
(* The values are in memory, in OSS, whose calls may fail, or in Redis,    *)
(* whose client may throw.  An exception leaves the rwlock of the class,   *)
(* and in mode 1 the key's lock, as they are: it ends the /run of the main *)
(* proxy, and is answered with 500 to another container.                   *)
(***************************************************************************)
EXTENDS Naturals, FiniteSets

CONSTANTS
  Requests,       \* the requests, one state call of each in flight
  Keys,
  KeyOf,          \* [Requests -> Keys], the key a request updates
  Locked,         \* the requests that use mode 1
  Remote,         \* the requests that run in another container
  Threads,        \* CPPHTTPLIB_THREAD_POOL_COUNT
  WrittenBefore,  \* the keys that have a value and a lock from earlier requests
  Stores,         \* where the values may be kept: "memory", "oss", "redis"
  NotFound,       \* no value
  NoId            \* the empty request_id

ASSUME StorageAssumption ==
  /\ KeyOf \in [Requests -> Keys]
  /\ Locked \subseteq Requests
  /\ Remote \subseteq Requests
  /\ Threads \in Nat
  /\ IsFiniteSet(Requests)
  /\ WrittenBefore \subseteq Keys
  /\ Stores \subseteq {"memory", "oss", "redis"}
  /\ NotFound \notin Nat
  /\ NoId \notin Requests

VARIABLES
  store,       \* isOss and isRedis
  db,          \* dataBase, the bucket or Redis
  locks,       \* the keys of lockBase
  realLock,    \* is the realLock of a key's uniqueLock locked
  request_id,  \* the request_id of a key's uniqueLock
  rpc, wpc,    \* where the read and the write of a request are in the store
  client,      \* where the function of a request is
  seen,        \* the value the read of a request found, which its function updates
  leaked,      \* how an exception has left the rwlock `mutex' locked
  broken       \* the requests that gave up on their read, or whose call threw (history)

vars == <<store, db, locks, realLock, request_id, rpc, wpc, client, seen, leaked, broken>>
lockVars == <<realLock, request_id>>
rwVars == <<store, leaked>>

key(r) == KeyOf[r]
Finished(r) == client[r] \in {"finished", "failed", "dropped"}

(***************************************************************************)
(* Operators named for one line of the code each, and before each one the  *)
(* fault that the properties below are tried on.                           *)
(***************************************************************************)
OwnsLockFault(r) == TRUE                 \* onLock lets everybody in
\* onLock: if(_request_id == this->request_id) return;
OwnsLock(r) == request_id[key(r)] = r

UnlockFault(k) == UNCHANGED realLock     \* offLock forgets pthread_mutex_unlock
Unlock(k) == realLock' = [realLock EXCEPT ![k] = FALSE]

AfterHitFault == "off"                   \* a read that finds a value releases the lock
\* "Keep holding the lock"
AfterHit == "done"

MakeLockFault(k) == locks                \* the new lock is not entered into lockBase
\* writeStateLock: if(findLockPtr == lockBase.end()) ... lockBase[key] = lockPtr;
MakeLock(k) == locks \cup {k}

\* The update the function makes.
NewValue(r) == IF seen[r] = NotFound THEN 1 ELSE seen[r] + 1

-----------------------------------------------------------------------------
Init ==
  /\ store \in Stores
  /\ leaked = "no"
  /\ db = [k \in Keys |-> IF k \in WrittenBefore THEN 0 ELSE NotFound]
  /\ locks = WrittenBefore
  /\ realLock = [k \in Keys |-> FALSE]
  /\ request_id = [k \in Keys |-> NoId]
  /\ rpc = [r \in Requests |-> "idle"]
  /\ wpc = [r \in Requests |-> "idle"]
  /\ client = [r \in Requests |-> "new"]
  /\ seen = [r \in Requests |-> NotFound]
  /\ broken = {}

(***************************************************************************)
(* The thread pool of the main proxy.  A request of the main proxy has a   *)
(* thread, the one of its /run, until it ends; a state call from another   *)
(* container has one from its start to its answer, also when nobody waits  *)
(* for the answer any more.                                                *)
(***************************************************************************)
InHandler(pc) == {r \in Remote : pc[r] \notin {"idle", "queued", "done", "thrown"}}

Occupied ==
  Cardinality({r \in Requests \ Remote : client[r] # "new" /\ ~Finished(r)})
    + Cardinality(InHandler(rpc)) + Cardinality(InHandler(wpc))

ThreadFor(r) == r \in Remote => Occupied < Threads

(***************************************************************************)
(* The function of a request (read_state_native, write_state_native and    *)
(* their side of runCode).                                                 *)
(***************************************************************************)
ClientGoes(r, from, to) ==
  /\ client[r] = from
  /\ client' = [client EXCEPT ![r] = to]
  /\ UNCHANGED <<db, locks, lockVars, rwVars>>

StartRead(r) ==
  /\ r \notin Remote => Occupied < Threads
  /\ ClientGoes(r, "new", "reading")
  /\ rpc' = [rpc EXCEPT ![r] = "queued"]
  /\ UNCHANGED <<wpc, seen, broken>>

\* After a 500, exists = false.
GetRead(r) ==
  /\ rpc[r] \in {"done", "thrown"}
  /\ ClientGoes(r, "reading", "computing")
  /\ UNCHANGED <<rpc, wpc, seen, broken>>

\* cli.Post returns an error: exists = false.
ReadTimeout(r) ==
  /\ r \in Remote
  /\ ClientGoes(r, "reading", "computing")
  /\ seen' = [seen EXCEPT ![r] = NotFound]
  /\ broken' = broken \cup {r}
  /\ UNCHANGED <<rpc, wpc>>

StartWrite(r) ==
  /\ ClientGoes(r, "computing", "writing")
  /\ wpc' = [wpc EXCEPT ![r] = "queued"]
  /\ UNCHANGED <<rpc, seen, broken>>

GetWritten(r) ==
  /\ wpc[r] \in {"done", "thrown"}
  /\ ClientGoes(r, "writing", IF wpc[r] = "done" THEN "finished" ELSE "failed")
  /\ UNCHANGED <<rpc, wpc, seen, broken>>

\* success = false, and the function is told that nothing was stored; the handler writes
\* all the same, and unlocks.
WriteTimeout(r) ==
  /\ r \in Remote
  /\ ClientGoes(r, "writing", "failed")
  /\ UNCHANGED <<rpc, wpc, seen, broken>>

\* The run ends without the write: the function traps, readFromJson throws on the value
\* after FOUND, or the function writes nothing.
Drop(r) ==
  /\ ClientGoes(r, "computing", "dropped")
  /\ UNCHANGED <<rpc, wpc, seen, broken>>

(***************************************************************************)
(* uniqueLock, for a call that moves from one place to another by Goes.    *)
(***************************************************************************)
OnLockTakes(r) ==
  /\ ~realLock[key(r)]
  /\ realLock' = [realLock EXCEPT ![key(r)] = TRUE]
  /\ UNCHANGED request_id

OnLockSetsId(r) ==
  /\ request_id' = [request_id EXCEPT ![key(r)] = r]
  /\ UNCHANGED realLock

\* offLock clears the id and unlocks whoever its caller is.
OffLockClearsId(r) ==
  /\ request_id' = [request_id EXCEPT ![key(r)] = NoId]
  /\ UNCHANGED realLock

OffLockUnlocks(r) ==
  /\ Unlock(key(r))
  /\ UNCHANGED request_id

(***************************************************************************)
(* The rwlock of the class, which a call holds for its access only, and an *)
(* exception of the Redis client in the access.                            *)
(***************************************************************************)
CanRead == leaked # "write"
CanWrite == leaked = "no"

\* The thread that has left it locked for writing serves a later call: glibc answers
\* EDEADLK, nobody looks, and the unlock of the call unlocks it.
SameThread(r) ==
  /\ leaked = "write"
  /\ rpc[r] = "access" \/ wpc[r] = "access"
  /\ leaked' = "no"
  /\ UNCHANGED <<store, db, locks, lockVars, rpc, wpc, client, seen, broken>>

CallThrows(r) ==
  /\ store = "redis"
  /\ client' = IF r \in Remote THEN client ELSE [client EXCEPT ![r] = "failed"]
  /\ broken' = broken \cup {r}
  /\ UNCHANGED <<store, locks, lockVars, seen>>

(***************************************************************************)
(* readState (mode 0) and readStateLock (mode 1).                          *)
(***************************************************************************)
ReadGoes(r, from, to) ==
  /\ rpc[r] = from
  /\ rpc' = [rpc EXCEPT ![r] = to]
  /\ UNCHANGED <<db, locks, wpc, client, rwVars, broken>>

AcceptRead(r) ==
  /\ ThreadFor(r)
  /\ ReadGoes(r, "queued", IF r \in Locked THEN "lookup" ELSE "access")
  /\ UNCHANGED <<lockVars, seen>>

\* "No lock for": the key has never been written in mode 1.
NoLock(r) ==
  /\ key(r) \notin locks
  /\ ReadGoes(r, "lookup", "done")
  /\ UNCHANGED <<lockVars, seen>>

FindLock(r) ==
  /\ key(r) \in locks
  /\ ReadGoes(r, "lookup", "onlock")
  /\ UNCHANGED <<lockVars, seen>>

ReadOnLock(r) ==
  /\ ReadGoes(r, "onlock", IF OwnsLock(r) THEN "access" ELSE "wait")
  /\ UNCHANGED <<lockVars, seen>>

ReadTakes(r) == ReadGoes(r, "wait", "setid") /\ OnLockTakes(r) /\ UNCHANGED seen
ReadSetsId(r) == ReadGoes(r, "setid", "access") /\ OnLockSetsId(r) /\ UNCHANGED seen

\* The answer of a read that timed out reaches nobody.
ReadHit(r) ==
  /\ CanRead
  /\ db[key(r)] # NotFound
  /\ seen' = IF client[r] = "reading" THEN [seen EXCEPT ![r] = db[key(r)]] ELSE seen
  /\ ReadGoes(r, "access", IF r \in Locked THEN AfterHit ELSE "done")
  /\ UNCHANGED lockVars

ReadMiss(r) ==
  /\ CanRead
  /\ db[key(r)] = NotFound \/ store = "oss"
  /\ ReadGoes(r, "access", IF r \in Locked THEN "off" ELSE "done")
  /\ UNCHANGED <<lockVars, seen>>

ReadThrows(r) ==
  /\ CanRead
  /\ rpc[r] = "access"
  /\ rpc' = [rpc EXCEPT ![r] = "thrown"]
  /\ leaked' = "read"
  /\ CallThrows(r)
  /\ UNCHANGED <<db, wpc>>

ReadClearsId(r) == ReadGoes(r, "off", "unlock") /\ OffLockClearsId(r) /\ UNCHANGED seen
ReadUnlocks(r) == ReadGoes(r, "unlock", "done") /\ OffLockUnlocks(r) /\ UNCHANGED seen

(***************************************************************************)
(* writeState (mode 0) and writeStateLock (mode 1).                        *)
(***************************************************************************)
WriteGoes(r, from, to) ==
  /\ wpc[r] = from
  /\ wpc' = [wpc EXCEPT ![r] = to]
  /\ UNCHANGED <<rpc, client, seen, rwVars, broken>>

AcceptWrite(r) ==
  /\ ThreadFor(r)
  /\ WriteGoes(r, "queued", IF r \in Locked THEN "lookup" ELSE "access")
  /\ UNCHANGED <<db, locks, lockVars>>

FindOrMakeLock(r) ==
  /\ locks' = MakeLock(key(r))
  /\ WriteGoes(r, "lookup", "onlock")
  /\ UNCHANGED <<db, lockVars>>

WriteOnLock(r) ==
  /\ WriteGoes(r, "onlock", IF OwnsLock(r) THEN "access" ELSE "wait")
  /\ UNCHANGED <<db, locks, lockVars>>

WriteTakes(r) ==
  WriteGoes(r, "wait", "setid") /\ OnLockTakes(r) /\ UNCHANGED <<db, locks>>

WriteSetsId(r) ==
  WriteGoes(r, "setid", "access") /\ OnLockSetsId(r) /\ UNCHANGED <<db, locks>>

AfterWrite(r) == IF r \in Locked THEN "off" ELSE "done"

WriteStores(r) ==
  /\ CanWrite
  /\ db' = [db EXCEPT ![key(r)] = NewValue(r)]
  /\ WriteGoes(r, "access", AfterWrite(r))
  /\ UNCHANGED <<locks, lockVars>>

\* ossWrite returns false, and nobody looks.
WriteLost(r) ==
  /\ CanWrite
  /\ store = "oss"
  /\ WriteGoes(r, "access", AfterWrite(r))
  /\ UNCHANGED <<db, locks, lockVars>>

\* Redis has executed the command or not.
WriteThrows(r) ==
  /\ CanWrite
  /\ wpc[r] = "access"
  /\ wpc' = [wpc EXCEPT ![r] = "thrown"]
  /\ db' \in {db, [db EXCEPT ![key(r)] = NewValue(r)]}
  /\ leaked' = "write"
  /\ CallThrows(r)
  /\ UNCHANGED rpc

WriteClearsId(r) ==
  WriteGoes(r, "off", "unlock") /\ OffLockClearsId(r) /\ UNCHANGED <<db, locks>>

WriteUnlocks(r) ==
  WriteGoes(r, "unlock", "done") /\ OffLockUnlocks(r) /\ UNCHANGED <<db, locks>>

-----------------------------------------------------------------------------
Function(r) == StartWrite(r) \/ GetRead(r) \/ GetWritten(r)

Timeout(r) == ReadTimeout(r) \/ WriteTimeout(r)

Read(r) ==
  \/ NoLock(r) \/ FindLock(r) \/ ReadOnLock(r) \/ ReadTakes(r) \/ ReadSetsId(r)
  \/ ReadHit(r) \/ ReadMiss(r) \/ ReadThrows(r) \/ ReadClearsId(r) \/ ReadUnlocks(r)

Write(r) ==
  \/ FindOrMakeLock(r) \/ WriteOnLock(r) \/ WriteTakes(r) \/ WriteSetsId(r)
  \/ WriteStores(r) \/ WriteLost(r) \/ WriteThrows(r) \/ WriteClearsId(r)
  \/ WriteUnlocks(r)

Handlers(r) == AcceptRead(r) \/ Read(r) \/ AcceptWrite(r) \/ Write(r)

Ended ==
  /\ \A r \in Requests : /\ Finished(r)
                         /\ {rpc[r], wpc[r]} \subseteq {"idle", "done", "thrown"}
  /\ UNCHANGED vars

Next ==
  \/ \E r \in Requests :
       \/ StartRead(r) \/ Function(r) \/ Timeout(r) \/ Drop(r)
       \/ Handlers(r) \/ SameThread(r)
  \/ Ended

Spec == Init /\ [][Next]_vars

(***************************************************************************)
(* Fairness: functions and handlers that can go on do, a free thread takes *)
(* a queued call, and a waiter gets a lock that is free again and again:   *)
(* each request takes a thread and a lock a bounded number of times, so    *)
(* strong fairness of its handlers asks no more than that a waiter is not  *)
(* passed over for ever.  Timeouts and dropped writes are not forced, and  *)
(* requests need not start.                                                *)
(***************************************************************************)
Fairness == \A r \in Requests : WF_vars(Function(r)) /\ SF_vars(Handlers(r))

FairSpec == Spec /\ Fairness

-----------------------------------------------------------------------------
LockPc == {"lookup", "onlock", "wait", "setid", "off", "unlock"}
HasLockPtr == {"onlock", "wait", "setid", "access", "off", "unlock"}
CallPc == LockPc \cup {"idle", "queued", "access", "done", "thrown"}
ClientPc == {"new", "reading", "computing", "writing", "finished", "failed", "dropped"}

\* Types; and a uniqueLock is used only once it is in lockBase, where it stays.
TypeOK ==
  /\ store \in Stores
  /\ leaked \in {"no", "read", "write"}
  /\ db \in [Keys -> Nat \cup {NotFound}]
  /\ locks \in SUBSET Keys
  /\ realLock \in [Keys -> BOOLEAN]
  /\ request_id \in [Keys -> Requests \cup {NoId}]
  /\ rpc \in [Requests -> CallPc]
  /\ wpc \in [Requests -> CallPc]
  /\ client \in [Requests -> ClientPc]
  /\ seen \in [Requests -> Nat \cup {NotFound}]
  /\ broken \in SUBSET Requests
  /\ \A r \in Locked :
       rpc[r] \in HasLockPtr \/ wpc[r] \in HasLockPtr => key(r) \in locks

\* Nobody has given up on a read of the key, and no call for it threw.
Patient(k) == \A r \in broken : key(r) # k

\* Moreover, the key is used in mode 1 only.
Calm(k) == Patient(k) /\ \A r \in Requests : key(r) = k => r \in Locked

\* A locked read has found a value and the write that goes with it is not stored yet.
Updating(r) ==
  /\ r \in Locked
  /\ rpc[r] = "done"
  /\ seen[r] # NotFound
  /\ wpc[r] \in {"idle", "queued", "lookup", "onlock", "wait", "setid", "access"}

\* r is between onLock and offLock: in one of its calls, or between them.
InSection(r) ==
  /\ r \in Locked
  /\ \/ rpc[r] \in {"setid", "access", "off", "unlock"}
     \/ wpc[r] \in {"setid", "access", "off", "unlock"}
     \/ Updating(r)

\* Two requests are never inside the lock of one key together, over two HTTP calls each
\* and whichever threads serve them, while no read of the key was given up and no call for
\* it threw (onLock, offLock).
MutualExclusion ==
  \A r, s \in Requests :
    InSection(r) /\ InSection(s) /\ key(r) = key(s) /\ Patient(key(r)) => r = s

\* The value a locked read returned is still the stored value when its function writes
\* the update back: no other request has written between (readStateLock "Keep holding
\* the lock", writeStateLock).
LockedReadIsFresh ==
  \A r \in Requests :
    Updating(r) /\ Calm(key(r)) => db[key(r)] = seen[r]

\* One of the calls of r is between onLock and offLock.
InCall(r) ==
  /\ r \in Locked
  /\ \/ rpc[r] \in {"setid", "access", "off", "unlock"}
     \/ wpc[r] \in {"setid", "access", "off", "unlock"}

\* A call of r has left the lock where nobody gives it back for sure: it threw under the
\* lock, or it is a read that found a value after its function had given it up.
LeftBehind(r) ==
  /\ r \in Locked
  /\ \/ rpc[r] = "thrown" \/ wpc[r] = "thrown"
     \/ rpc[r] = "done" /\ seen[r] = NotFound /\ r \in broken

\* A lock that is held is in use by a call, or carries the id of the one request that is
\* to write under it (or has ended without the write) or has left it behind; whatever was
\* given up, threw, trapped or answered late, no lock is held for a request whose calls
\* are over and answered, and none is held with an empty or a wrong id (onLock, offLock,
\* readStateLock, writeStateLock).
LockHasUser ==
  \A k \in Keys : realLock[k] =>
    \E r \in Requests :
      /\ key(r) = k
      /\ \/ InCall(r)
         \/ request_id[k] = r /\ (Updating(r) \/ LeftBehind(r))

\* The requests whose write of k has been stored.
Stored(k) == {r \in Requests : key(r) = k /\ wpc[r] \in {"off", "unlock", "done"}}

\* No update is lost on a key that has been written before: with no read given up, the
\* stored value is the number of updates stored (readStateLock, writeStateLock).
NoLostUpdate ==
  \A k \in WrittenBefore : Calm(k) => db[k] = Cardinality(Stored(k))

\* s has ended without its write, and keeps the lock.
DroppedWithLock(s) == client[s] = "dropped" /\ Updating(s)

\* Every request that starts comes to its end, unless a read was given up, a call threw or
\* a function ended without the write its lock waits for: no request waits for ever for
\* another one or for a thread, also when writes are given up.
RequestsEnd ==
  \A r \in Requests : client[r] = "reading" ~>
    (Finished(r) \/ broken # {} \/ \E s \in Requests : DroppedWithLock(s))

\* "Pass responsibility for proxy to deal with the uniformity" (WorkerUnit.hpp:123): with
\* mode 1 the main proxy makes the updates of a key uniform, so none of them is lost.
UniformUpdates ==
  \A k \in Keys :
    (Calm(k) /\ \A r \in Requests : key(r) = k => client[r] = "finished")
      => db[k] \in {NotFound, Cardinality({r \in Requests : key(r) = k})}

\* "Successfully write to OSS" (LocalStorage.hpp:228): when writeStateLock says so, the
\* value is in the bucket.
SuccessIsStored ==
  \A r \in Requests : wpc[r] = "off" /\ Calm(key(r)) => db[key(r)] = NewValue(r)

-----------------------------------------------------------------------------
(***************************************************************************)
(* The lock of a key implements StateLock: a request holds its key from    *)
(* onLock to offLock, across its two HTTP calls when its read found a      *)
(* value, and the keys that are not calm are lost.                         *)
(***************************************************************************)
Holders == {r \in Requests : InSection(r) /\ Calm(key(r))}
LostKeys == {k \in Keys : ~Calm(k)}
ValueOf == [k \in Keys |-> IF Calm(k) THEN db[k] ELSE NotFound]

Lock == INSTANCE StateLock
  WITH None <- NotFound, value <- ValueOf, holding <- Holders, lost <- LostKeys

\* Every step takes, gives back, uses or loses the lock of one key as StateLock allows,
\* or does nothing to it: no value changes but under its lock, whatever became of calls
\* for other keys (readStateLock, writeStateLock).
ImplementsLock == Lock!Spec

-----------------------------------------------------------------------------
(***************************************************************************)
(* The inductive invariant.                                                *)
(***************************************************************************)
\* The calls a request has made: a function writes after its read is over for it, and has
\* found no value before its read ends.
CallsInOrder ==
  \A r \in Requests :
    /\ client[r] = "new" => rpc[r] = "idle"
    /\ client[r] \in {"new", "reading", "computing"} => wpc[r] = "idle"
    /\ rpc[r] # "done" => seen[r] = NotFound

\* Moreover, while it has not given its read up and no call of its threw.
CallsOfClient ==
  \A r \in Requests \ broken :
    /\ client[r] = "new" => rpc[r] = "idle" /\ wpc[r] = "idle"
    /\ client[r] = "reading" => rpc[r] # "idle" /\ wpc[r] = "idle"
    /\ client[r] = "computing" => rpc[r] = "done" /\ wpc[r] = "idle"
    /\ client[r] = "writing" => rpc[r] = "done" /\ wpc[r] # "idle"
    /\ client[r] = "finished" => rpc[r] = "done" /\ wpc[r] = "done"
    /\ client[r] = "failed" => rpc[r] = "done" /\ wpc[r] # "idle"
    /\ client[r] = "dropped" => rpc[r] = "done" /\ wpc[r] = "idle"
    /\ rpc[r] # "thrown" /\ wpc[r] # "thrown"

\* r has stored its id in the lock and not cleared it.
HasId(r) ==
  /\ r \in Locked
  /\ rpc[r] \in {"access", "off"} \/ wpc[r] \in {"access", "off"} \/ Updating(r)

\* The lock of a key, seen from the requests that use it.
LockOfSection ==
  \A r \in Requests : Patient(key(r)) =>
    /\ InSection(r) => realLock[key(r)]
    /\ HasId(r) <=> request_id[key(r)] = r
    /\ Updating(r) => wpc[r] \notin {"wait", "setid"}

\* r has taken the lock and not stored its id, or cleared the id and not unlocked.
BetweenIdAndLock(r) == rpc[r] \in {"setid", "unlock"} \/ wpc[r] \in {"setid", "unlock"}

\* r uses a lock that has its id, or has left it behind.
UsesLock(r) ==
  \/ rpc[r] \in {"access", "off"} \/ wpc[r] \in {"access", "off"}
  \/ Updating(r)
  \/ LeftBehind(r)

\* A held lock is about to get an id or to be unlocked, or has the id of its user.
HeldById ==
  \A k \in Keys : realLock[k] =>
    \E r \in Locked : \/ key(r) = k /\ BetweenIdAndLock(r)
                      \/ request_id[k] = r /\ UsesLock(r)

\* The id in a lock is the id of a request for its key, and mode 0 takes no lock.
IdOfKey ==
  /\ \A k \in Keys : request_id[k] # NoId => key(request_id[k]) = k
  /\ \A r \in Requests : rpc[r] \in LockPc \/ wpc[r] \in LockPc => r \in Locked

\* A key written before has a lock and, if the store does not fail, a value, which every
\* read of it finds.
WrittenStaysFound ==
  /\ WrittenBefore \subseteq locks
  /\ store # "oss" => \A k \in WrittenBefore : db[k] # NotFound
  /\ store # "oss" => \A r \in Requests : key(r) \in WrittenBefore /\ r \notin broken =>
       /\ rpc[r] \notin {"off", "unlock"}
       /\ rpc[r] = "done" => seen[r] # NotFound

IInv ==
  /\ TypeOK
  /\ CallsInOrder
  /\ CallsOfClient
  /\ LockOfSection
  /\ IdOfKey
  /\ MutualExclusion
  /\ HeldById
  /\ LockedReadIsFresh
  /\ WrittenStaysFound
  /\ store # "oss" => NoLostUpdate
=============================================================================
