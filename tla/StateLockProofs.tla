-------------------------- MODULE StateLockProofs ---------------------------
(***************************************************************************)
(* The lock of a key implements StateLock, for any number of requests,     *)
(* keys and threads and every store.  A step of a request moves that       *)
(* request only (Frame); what it does to the abstract lock depends on      *)
(* whether it breaks the key, whether the key was calm, and whether it     *)
(* brings the request into its section or out of it.                       *)
(***************************************************************************)
EXTENDS LocalStorageProofs

\* What a step of r leaves alone: the calls of the others and the values of other keys.
Frame(r) ==
  /\ \A s \in Requests \ {r} : rpc'[s] = rpc[s] /\ wpc'[s] = wpc[s] /\ seen'[s] = seen[s]
  /\ \A k \in Keys \ {key(r)} : db'[k] = db[k]

LEMMA OthersInSection ==
  ASSUME NEW r \in Requests, Frame(r)
  PROVE  \A s \in Requests \ {r} : InSection(s)' <=> InSection(s)
BY DEF Frame, InSection, Updating

\* A key is lost when a call for it breaks, and stays so.
LEMMA CalmOfBroken ==
  ASSUME NEW r \in Requests
  PROVE  /\ broken' = broken => \A k \in Keys : Calm(k)' <=> Calm(k)
         /\ broken' = broken \cup {r} =>
              \A k \in Keys : Calm(k)' <=> Calm(k) /\ k # key(r)
BY DEF Calm, Patient, key

LEMMA KeyInKeys == \A r \in Requests : key(r) \in Keys /\ key(r) = KeyOf[r]
BY StorageAssumption DEF key

-----------------------------------------------------------------------------
\* What a step does to the abstract lock, by its effect on the calls.

\* A call that is given up or throws loses its key, if it is not lost yet.
LEMMA BreakLoses ==
  ASSUME NEW r \in Requests, Frame(r), broken' = broken \cup {r}
  PROVE  [Lock!Next]_(Lock!vars)
<1>1. \A k \in Keys : Calm(k)' <=> Calm(k) /\ k # key(r)  BY CalmOfBroken
<1>2. \A s \in Requests \ {r} : InSection(s)' <=> InSection(s)  BY OthersInSection
<1>3. LostKeys' = LostKeys \cup {key(r)}  BY <1>1, KeyInKeys DEF LostKeys
<1>4. Holders' = {s \in Holders : KeyOf[s] # key(r)}
  <2>1. ASSUME NEW s \in Requests
        PROVE  InSection(s)' /\ Calm(key(s))' <=>
                 InSection(s) /\ Calm(key(s)) /\ KeyOf[s] # key(r)
    <3>1. Calm(key(s))' <=> Calm(key(s)) /\ key(s) # key(r)  BY <1>1, KeyInKeys DEF key
    <3>2. CASE s = r  BY <3>1, <3>2, KeyInKeys
    <3>3. CASE s # r  BY <1>2, <3>1, <3>3, KeyInKeys
    <3> QED BY <3>2, <3>3
  <2> QED BY <2>1 DEF Holders, key
<1>5. ValueOf' = [ValueOf EXCEPT ![key(r)] = NotFound]
  BY <1>1, KeyInKeys DEF ValueOf, Frame
<1>6. Lock!Lose(key(r))  BY <1>3, <1>4, <1>5 DEF Lock!Lose
<1> QED BY <1>6, KeyInKeys DEF Lock!Next

\* Nothing is promised for a lost key.
LEMMA LostKeyStutters ==
  ASSUME NEW r \in Requests, Frame(r), broken' = broken, ~Calm(key(r))
  PROVE  UNCHANGED Lock!vars
<1>1. \A k \in Keys : Calm(k)' <=> Calm(k)  BY CalmOfBroken
<1>2. \A s \in Requests \ {r} : InSection(s)' <=> InSection(s)  BY OthersInSection
<1>3. LostKeys' = LostKeys  BY <1>1 DEF LostKeys
<1>4. Holders' = Holders  BY <1>1, <1>2, KeyInKeys DEF Holders, key
<1>5. ValueOf' = ValueOf  BY <1>1 DEF ValueOf, Frame
<1> QED BY <1>3, <1>4, <1>5 DEF Lock!vars

\* A step of a request with a calm key, by where it leaves the request and the value.
LEMMA CalmStep ==
  ASSUME NEW r \in Requests, Frame(r), broken' = broken, Calm(key(r))
  PROVE  /\ LostKeys' = LostKeys
         /\ (InSection(r)' <=> InSection(r)) => Holders' = Holders
         /\ InSection(r)' => Holders' = Holders \cup {r}
         /\ ~InSection(r)' => Holders' = Holders \ {r}
         /\ db'[key(r)] = db[key(r)] => ValueOf' = ValueOf
         /\ ValueOf' = [ValueOf EXCEPT ![key(r)] = db'[key(r)]]
<1>1. \A k \in Keys : Calm(k)' <=> Calm(k)  BY CalmOfBroken
<1>2. \A s \in Requests \ {r} : InSection(s)' <=> InSection(s)  BY OthersInSection
<1>3. \A s \in Requests : Calm(key(s))' <=> Calm(key(s))  BY <1>1, KeyInKeys DEF key
<1>4. LostKeys' = LostKeys  BY <1>1 DEF LostKeys
<1>5. Holders' = {s \in Requests : InSection(s)' /\ Calm(key(s))}
  BY <1>3 DEF Holders, key
<1>6. ValueOf' = [k \in Keys |-> IF Calm(k) THEN db'[k] ELSE NotFound]
  BY <1>1 DEF ValueOf
<1>7. ValueOf' = [ValueOf EXCEPT ![key(r)] = db'[key(r)]]
  BY <1>6, KeyInKeys DEF ValueOf, Frame
<1>8. db'[key(r)] = db[key(r)] => ValueOf' = ValueOf
  BY <1>6, KeyInKeys DEF ValueOf, Frame
<1> QED BY <1>2, <1>4, <1>5, <1>7, <1>8 DEF Holders

\* A step that neither enters nor leaves a section, nor stores a value.
LEMMA QuietStutters ==
  ASSUME NEW r \in Requests, Frame(r), broken' = broken, db'[key(r)] = db[key(r)],
         Calm(key(r)) => (InSection(r)' <=> InSection(r))
  PROVE  UNCHANGED Lock!vars
<1>1. CASE Calm(key(r))  BY <1>1, CalmStep DEF Lock!vars
<1>2. CASE ~Calm(key(r))  BY <1>2, LostKeyStutters
<1> QED BY <1>1, <1>2

\* pthread_mutex_lock succeeds on a free lock, so nobody holds the key.
LEMMA EnterAcquires ==
  ASSUME IInv, NEW r \in Requests, Frame(r), broken' = broken, db'[key(r)] = db[key(r)],
         ~realLock[key(r)], InSection(r)'
  PROVE  [Lock!Next]_(Lock!vars)
<1>1. CASE Calm(key(r))
  <2>1. UNCHANGED <<ValueOf, LostKeys>> /\ Holders' = Holders \cup {r}
    BY <1>1, CalmStep
  <2>2. KeyOf[r] \notin LostKeys  BY <1>1, KeyInKeys DEF LostKeys
  <2>3. \A s \in Holders : KeyOf[s] # KeyOf[r]
    BY KeyInKeys DEF Holders, IInv, LockOfSection, Calm
  <2>4. Lock!Acquire(r)  BY <2>1, <2>2, <2>3 DEF Lock!Acquire
  <2> QED BY <2>4 DEF Lock!Next
<1>2. CASE ~Calm(key(r))  BY <1>2, LostKeyStutters
<1> QED BY <1>1, <1>2

\* pthread_mutex_unlock ends the section.
LEMMA LeaveReleases ==
  ASSUME NEW r \in Requests, Frame(r), broken' = broken, db'[key(r)] = db[key(r)],
         Calm(key(r)) => InSection(r) /\ ~InSection(r)'
  PROVE  [Lock!Next]_(Lock!vars)
<1>1. CASE Calm(key(r))
  <2>1. UNCHANGED <<ValueOf, LostKeys>> /\ Holders' = Holders \ {r} /\ r \in Holders
    BY <1>1, CalmStep DEF Holders
  <2>2. Lock!Release(r)  BY <2>1 DEF Lock!Release
  <2> QED BY <2>2 DEF Lock!Next
<1>2. CASE ~Calm(key(r))  BY <1>2, LostKeyStutters
<1> QED BY <1>1, <1>2

\* writeState, under the lock.
LEMMA StoreChanges ==
  ASSUME NEW r \in Requests, Frame(r), broken' = broken, db'[key(r)] \in Nat,
         Calm(key(r)) => InSection(r) /\ InSection(r)'
  PROVE  [Lock!Next]_(Lock!vars)
<1>1. CASE Calm(key(r))
  <2>1. /\ UNCHANGED <<Holders, LostKeys>> /\ r \in Holders
        /\ ValueOf' = [ValueOf EXCEPT ![key(r)] = db'[key(r)]]
    BY <1>1, CalmStep DEF Holders
  <2>2. ValueOf'[KeyOf[r]] = db'[key(r)]  BY <2>1, KeyInKeys DEF ValueOf
  <2>3. Lock!Change(r)  BY <2>1, <2>2, KeyInKeys DEF Lock!Change
  <2> QED BY <2>3 DEF Lock!Next
<1>2. CASE ~Calm(key(r))  BY <1>2, LostKeyStutters
<1> QED BY <1>1, <1>2

-----------------------------------------------------------------------------
\* The steps of the store.

\* The calls of a request whose key is calm are in the places its function brings them to.
LEMMA CalmRequest ==
  ASSUME IInv, NEW r \in Requests, Calm(key(r))
  PROVE  /\ r \in Locked /\ r \notin broken
         /\ rpc[r] # "done" => seen[r] = NotFound /\ wpc[r] \in {"idle"}
         /\ rpc[r] \notin {"idle", "done"} => client[r] = "reading"
         /\ wpc[r] # "idle" => rpc[r] = "done"
         /\ rpc[r] # "done" => ~Updating(r)
<1>1. r \in Locked /\ r \notin broken  BY KeyInKeys DEF Calm, Patient
<1>2. client[r] \in ClientPc  BY DEF IInv, TypeOK
<1> QED BY <1>1, <1>2 DEF IInv, CallsInOrder, CallsOfClient, ClientPc, Updating

\* The function, its timeouts and its end without a write.
LEMMA ClientStep ==
  ASSUME IInv, NEW r \in Requests, StartRead(r) \/ Function(r) \/ Timeout(r) \/ Drop(r)
  PROVE  [Lock!Next]_(Lock!vars)
<1> USE DEF ClientGoes, lockVars, rwVars, Frame
<1>0. rpc \in [Requests -> CallPc] /\ wpc \in [Requests -> CallPc]
  BY DEF IInv, TypeOK
<1>1. CASE StartRead(r)
  <2>1. Frame(r) /\ broken' = broken /\ db' = db  BY <1>0, <1>1 DEF StartRead
  <2>2. ASSUME Calm(key(r)) PROVE InSection(r)' <=> InSection(r)
    <3>1. rpc[r] = "idle" /\ wpc[r] = "idle" /\ rpc'[r] = "queued" /\ wpc'[r] = "idle"
      BY <1>0, <1>1, <2>2, CalmRequest DEF StartRead, IInv, CallsOfClient
    <3> QED BY <3>1 DEF InSection, Updating
  <2> QED BY <2>1, <2>2, QuietStutters
<1>2. CASE StartWrite(r)
  <2>1. Frame(r) /\ broken' = broken /\ db' = db  BY <1>0, <1>2 DEF StartWrite
  <2>2. ASSUME Calm(key(r)) PROVE InSection(r)' <=> InSection(r)
    <3>1. /\ wpc[r] = "idle" /\ wpc'[r] = "queued" /\ rpc'[r] = rpc[r] /\ seen'[r] = seen[r]
      BY <1>0, <1>2, <2>2, CalmRequest DEF StartWrite, IInv, CallsOfClient
    <3> QED BY <3>1 DEF InSection, Updating
  <2> QED BY <2>1, <2>2, QuietStutters
<1>3. CASE GetRead(r) \/ GetWritten(r) \/ WriteTimeout(r) \/ Drop(r)
  <2>1. Frame(r) /\ broken' = broken /\ db' = db /\ UNCHANGED <<rpc, wpc, seen>>
    BY <1>3 DEF GetRead, GetWritten, WriteTimeout, Drop
  <2>2. InSection(r)' <=> InSection(r)  BY <2>1 DEF InSection, Updating
  <2> QED BY <2>1, <2>2, QuietStutters
<1>4. CASE ReadTimeout(r)
  <2>1. Frame(r) /\ broken' = broken \cup {r}
    BY <1>4 DEF ReadTimeout, IInv, TypeOK
  <2> QED BY <2>1, BreakLoses
<1> QED BY <1>1, <1>2, <1>3, <1>4 DEF Function, Timeout

\* readState and readStateLock.
LEMMA ReadStep ==
  ASSUME IInv, NEW r \in Requests, AcceptRead(r) \/ Read(r)
  PROVE  [Lock!Next]_(Lock!vars)
<1> USE DEF ReadGoes, lockVars, rwVars
<1>0. /\ rpc \in [Requests -> CallPc] /\ wpc \in [Requests -> CallPc]
      /\ seen \in [Requests -> Nat \cup {NotFound}]
  BY DEF IInv, TypeOK
<1>1. CASE ReadThrows(r)
  <2>1. Frame(r) /\ broken' = broken \cup {r}
    BY <1>0, <1>1 DEF ReadThrows, CallThrows, Frame
  <2> QED BY <2>1, BreakLoses
<1>2. ASSUME ~ReadThrows(r)
      PROVE  Frame(r) /\ broken' = broken /\ db' = db /\ wpc' = wpc
  BY <1>0, <1>2 DEF AcceptRead, Read, NoLock, FindLock, ReadOnLock, ReadTakes, ReadSetsId,
     ReadHit, ReadMiss, ReadClearsId, ReadUnlocks, Frame
<1>3. ASSUME AcceptRead(r) \/ NoLock(r) \/ FindLock(r) \/ ReadOnLock(r), Calm(key(r))
      PROVE  InSection(r)' <=> InSection(r)
  <2>1. /\ rpc[r] \in {"queued", "lookup", "onlock"} /\ seen' = seen /\ wpc' = wpc
        /\ \/ rpc'[r] \in {"lookup", "onlock", "wait", "done"}
           \/ rpc'[r] = "access" /\ OwnsLock(r)
    BY <1>0, <1>3, CalmRequest DEF AcceptRead, NoLock, FindLock, ReadOnLock
  <2>2. seen[r] = NotFound /\ wpc[r] = "idle"  BY <1>3, <2>1, CalmRequest
  <2>3. ~OwnsLock(r)
    <3>1. ~HasId(r)  BY <2>1, <2>2 DEF HasId, Updating
    <3> QED BY <1>3, <3>1 DEF OwnsLock, IInv, LockOfSection, Calm
  <2> QED BY <2>1, <2>2, <2>3 DEF InSection, Updating
<1>4. CASE AcceptRead(r) \/ NoLock(r) \/ FindLock(r) \/ ReadOnLock(r)
  <2>1. rpc[r] # "access"  BY <1>4 DEF AcceptRead, NoLock, FindLock, ReadOnLock
  <2>2. Frame(r) /\ broken' = broken /\ db' = db  BY <1>2, <2>1 DEF ReadThrows
  <2> QED BY <1>3, <1>4, <2>2, QuietStutters
<1>5. CASE ReadTakes(r)
  <2>1. rpc[r] = "wait" /\ rpc'[r] = "setid" /\ ~realLock[key(r)]
    BY <1>0, <1>5 DEF ReadTakes, OnLockTakes
  <2>2. Frame(r) /\ broken' = broken /\ db' = db  BY <1>2, <2>1 DEF ReadThrows
  <2>3. r \in Locked  BY <2>1 DEF IInv, IdOfKey, LockPc
  <2>4. InSection(r)'  BY <2>1, <2>3 DEF InSection
  <2> QED BY <2>1, <2>2, <2>4, EnterAcquires
<1>6. CASE ReadSetsId(r) \/ ReadClearsId(r)
  <2>1. rpc[r] \in {"setid", "off"} /\ rpc'[r] \in {"access", "unlock"}
    BY <1>0, <1>6 DEF ReadSetsId, ReadClearsId
  <2>2. Frame(r) /\ broken' = broken /\ db' = db  BY <1>2, <2>1 DEF ReadThrows
  <2>3. ASSUME Calm(key(r)) PROVE InSection(r)' <=> InSection(r)
    BY <2>1, <2>3, CalmRequest DEF InSection
  <2> QED BY <2>2, <2>3, QuietStutters
<1>7. CASE ReadHit(r) \/ ReadMiss(r)
  <2>1. /\ rpc[r] = "access"
        /\ rpc'[r] = IF r \notin Locked THEN "done" ELSE IF ReadHit(r) THEN AfterHit ELSE "off"
    BY <1>0, <1>7 DEF ReadHit, ReadMiss
  <2>2. Frame(r) /\ broken' = broken /\ db' = db /\ wpc' = wpc
    BY <1>0, <1>7 DEF ReadHit, ReadMiss, Frame
  <2>3. ASSUME Calm(key(r)) PROVE InSection(r)' <=> InSection(r)
    <3>1. r \in Locked /\ client[r] = "reading" /\ wpc[r] = "idle"
      BY <2>1, <2>3, CalmRequest
    <3>2. CASE ReadHit(r)
      <4>1. rpc'[r] = "done" /\ seen'[r] # NotFound
        BY <1>0, <2>1, <3>1, <3>2 DEF ReadHit, AfterHit
      <4> QED BY <2>1, <2>2, <3>1, <4>1 DEF InSection, Updating
    <3>3. CASE ~ReadHit(r)
      BY <2>1, <3>1, <3>3 DEF InSection
    <3> QED BY <3>2, <3>3
  <2> QED BY <2>2, <2>3, QuietStutters
<1>8. CASE ReadUnlocks(r)
  <2>1. rpc[r] = "unlock" /\ rpc'[r] = "done" /\ seen' = seen
    BY <1>0, <1>8 DEF ReadUnlocks
  <2>2. Frame(r) /\ broken' = broken /\ db' = db /\ wpc' = wpc
    BY <1>2, <2>1 DEF ReadThrows
  <2>3. ASSUME Calm(key(r)) PROVE InSection(r) /\ ~InSection(r)'
    <3>1. r \in Locked /\ seen[r] = NotFound /\ wpc[r] = "idle"
      BY <2>1, <2>3, CalmRequest
    <3> QED BY <2>1, <2>2, <3>1 DEF InSection, Updating
  <2> QED BY <2>2, <2>3, LeaveReleases
<1> QED BY <1>1, <1>4, <1>5, <1>6, <1>7, <1>8 DEF Read

\* writeState and writeStateLock.
LEMMA WriteStep ==
  ASSUME IInv, NEW r \in Requests, AcceptWrite(r) \/ Write(r)
  PROVE  [Lock!Next]_(Lock!vars)
<1> USE DEF WriteGoes, lockVars, rwVars
<1>0. /\ rpc \in [Requests -> CallPc] /\ wpc \in [Requests -> CallPc]
      /\ seen \in [Requests -> Nat \cup {NotFound}] /\ db \in [Keys -> Nat \cup {NotFound}]
  BY DEF IInv, TypeOK
<1>1. CASE WriteThrows(r)
  <2>1. Frame(r) /\ broken' = broken \cup {r}
    BY <1>0, <1>1 DEF WriteThrows, CallThrows, Frame
  <2> QED BY <2>1, BreakLoses
<1>2. ASSUME ~WriteThrows(r)
      PROVE  Frame(r) /\ broken' = broken /\ rpc' = rpc /\ seen' = seen
  BY <1>0, <1>2 DEF AcceptWrite, Write, FindOrMakeLock, WriteOnLock, WriteTakes, WriteSetsId,
     WriteStores, WriteLost, WriteClearsId, WriteUnlocks, Frame
<1>3. CASE AcceptWrite(r) \/ FindOrMakeLock(r) \/ WriteOnLock(r)
  <2>1. /\ wpc[r] \in {"queued", "lookup", "onlock"} /\ db' = db
        /\ \/ wpc'[r] \in {"lookup", "onlock"}
           \/ wpc'[r] = "wait" /\ ~OwnsLock(r)
           \/ wpc'[r] = "access" /\ (OwnsLock(r) \/ r \notin Locked)
    BY <1>0, <1>3 DEF AcceptWrite, FindOrMakeLock, WriteOnLock
  <2>2. Frame(r) /\ broken' = broken /\ rpc' = rpc /\ seen' = seen
    BY <1>2, <2>1 DEF WriteThrows
  <2>3. ASSUME Calm(key(r)) PROVE InSection(r)' <=> InSection(r)
    <3>1. r \in Locked /\ rpc[r] = "done"  BY <2>1, <2>3, CalmRequest
    <3>2. OwnsLock(r) <=> Updating(r)
      <4>1. OwnsLock(r) <=> HasId(r)  BY <2>3 DEF OwnsLock, IInv, LockOfSection, Calm
      <4> QED BY <2>1, <3>1, <4>1 DEF HasId
    <3> QED BY <2>1, <2>2, <3>1, <3>2 DEF InSection, Updating
  <2> QED BY <2>1, <2>2, <2>3, QuietStutters
<1>4. CASE WriteTakes(r)
  <2>1. wpc[r] = "wait" /\ wpc'[r] = "setid" /\ ~realLock[key(r)] /\ db' = db
    BY <1>0, <1>4 DEF WriteTakes, OnLockTakes
  <2>2. Frame(r) /\ broken' = broken  BY <1>2, <2>1 DEF WriteThrows
  <2>3. r \in Locked  BY <2>1 DEF IInv, IdOfKey, LockPc
  <2>4. InSection(r)'  BY <2>1, <2>3 DEF InSection
  <2> QED BY <2>1, <2>2, <2>4, EnterAcquires
<1>5. CASE WriteSetsId(r) \/ WriteLost(r) \/ WriteClearsId(r)
  <2>1. /\ wpc[r] \in {"setid", "access", "off"} /\ db' = db
        /\ wpc'[r] \in {"access", "off", "unlock"} \/ r \notin Locked
    BY <1>0, <1>5 DEF WriteSetsId, WriteLost, WriteClearsId, AfterWrite
  <2>2. Frame(r) /\ broken' = broken
    BY <1>0, <1>5 DEF WriteSetsId, WriteLost, WriteClearsId, Frame
  <2>3. ASSUME Calm(key(r)) PROVE InSection(r)' <=> InSection(r)
    BY <2>1, <2>3, CalmRequest DEF InSection
  <2> QED BY <2>1, <2>2, <2>3, QuietStutters
<1>6. CASE WriteStores(r)
  <2>1. /\ wpc[r] = "access" /\ wpc'[r] = AfterWrite(r) /\ db'[key(r)] = NewValue(r)
        /\ Frame(r) /\ broken' = broken
    BY <1>0, <1>6, KeyInKeys DEF WriteStores, Frame
  <2>2. NewValue(r) \in Nat  BY <1>0 DEF NewValue
  <2>3. ASSUME Calm(key(r)) PROVE InSection(r) /\ InSection(r)'
    BY <2>1, <2>3, CalmRequest DEF InSection, AfterWrite
  <2> QED BY <2>1, <2>2, <2>3, StoreChanges
<1>7. CASE WriteUnlocks(r)
  <2>1. wpc[r] = "unlock" /\ wpc'[r] = "done" /\ db' = db
    BY <1>0, <1>7 DEF WriteUnlocks
  <2>2. Frame(r) /\ broken' = broken /\ rpc' = rpc  BY <1>2, <2>1 DEF WriteThrows
  <2>3. ASSUME Calm(key(r)) PROVE InSection(r) /\ ~InSection(r)'
    <3>1. r \in Locked /\ rpc[r] = "done"  BY <2>1, <2>3, CalmRequest
    <3> QED BY <2>1, <2>2, <3>1 DEF InSection, Updating
  <2> QED BY <2>1, <2>2, <2>3, LeaveReleases
<1> QED BY <1>1, <1>3, <1>4, <1>5, <1>6, <1>7 DEF Write

\* Every step of the store is a step of the abstract lock of one key, or none.
LEMMA StepLock == ASSUME IInv, [Next]_vars PROVE [Lock!Next]_(Lock!vars)
<1>1. ASSUME UNCHANGED <<db, rpc, wpc, seen, broken>> PROVE UNCHANGED Lock!vars
  <2>1. \A k \in Keys : Calm(k)' <=> Calm(k)  BY <1>1 DEF Calm, Patient
  <2>2. \A r \in Requests : InSection(r)' <=> InSection(r)  BY <1>1 DEF InSection, Updating
  <2>3. \A r \in Requests : Calm(key(r))' <=> Calm(key(r))  BY <2>1, KeyInKeys DEF key
  <2> QED BY <1>1, <2>1, <2>2, <2>3 DEF Lock!vars, Holders, LostKeys, ValueOf, key
<1>2. CASE UNCHANGED vars \/ Ended  BY <1>1, <1>2 DEF Ended, vars
<1>3. ASSUME NEW r \in Requests,
             \/ StartRead(r) \/ Function(r) \/ Timeout(r) \/ Drop(r)
             \/ Handlers(r) \/ SameThread(r)
      PROVE  [Lock!Next]_(Lock!vars)
  <2>1. CASE StartRead(r) \/ Function(r) \/ Timeout(r) \/ Drop(r)  BY <2>1, ClientStep
  <2>2. CASE Handlers(r)  BY <2>2, ReadStep, WriteStep DEF Handlers
  <2>3. CASE SameThread(r)  BY <1>1, <2>3 DEF SameThread
  <2> QED BY <1>3, <2>1, <2>2, <2>3
<1> QED BY <1>2, <1>3 DEF Next

\* Before any call nobody holds a key, and the keys of unlocked requests are lost.
LEMMA InitLock == Init => Lock!Init
<1> SUFFICES ASSUME Init PROVE Lock!Init  OBVIOUS
<1>1. Holders = {}  BY DEF Init, Holders, InSection, Updating
<1>2. LostKeys \in SUBSET Keys  BY DEF LostKeys
<1>3. ValueOf \in [Keys -> {0, NotFound}]  BY DEF Init, ValueOf
<1> QED BY <1>1, <1>2, <1>3 DEF Lock!Init

\* The store keeps the promise of StateLock: from onLock to offLock, over two HTTP calls
\* and whichever threads serve them, one request holds a key, and no value changes but by
\* its holder, for a key that is used in mode 1 only, until a call for it breaks.
THEOREM StoreImplementsLock == Spec => ImplementsLock
<1>1. Init => Lock!Init  BY InitLock
<1>2. IInv /\ [Next]_vars => [Lock!Next]_(Lock!vars)  BY StepLock
<1> QED BY <1>1, <1>2, Invariance, PTL DEF Spec, Lock!Spec, ImplementsLock
=============================================================================
