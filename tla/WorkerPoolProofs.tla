-------------------------- MODULE WorkerPoolProofs --------------------------
(***************************************************************************)
(* Proofs about WorkerPool for any number of callers and workers: the      *)
(* invariant IInv is inductive, the safety properties the runs check       *)
(* follow from it, and the pool implements WorkerLease.                    *)
(***************************************************************************)
EXTENDS WorkerPool, SequenceTheorems, TLAPS

\* A vector is empty when its size is 0 (the two forms of the emptiness test).
LEMMA EmptyHasLengthZero ==
  ASSUME NEW S, NEW s \in Seq(S)
  PROVE  s = <<>> <=> Len(s) = 0
BY EmptySeq

\* pool.pop_back() drops the last element and keeps the others where they are.
LEMMA PopFacts ==
  ASSUME NEW S, NEW s \in Seq(S), s # <<>>
  PROVE  /\ SubSeq(s, 1, Len(s) - 1) \in Seq(S)
         /\ Len(SubSeq(s, 1, Len(s) - 1)) = Len(s) - 1
         /\ \A k \in 1..Len(SubSeq(s, 1, Len(s) - 1)) : SubSeq(s, 1, Len(s) - 1)[k] = s[k]
<1> DEFINE n == Len(s) - 1
           t == SubSeq(s, 1, n)
<1>1. n \in Nat /\ \A k \in 1..n : s[k] \in S  BY EmptySeq
<1> HIDE DEF n
<1>2. /\ t \in Seq(S)
      /\ Len(t) = IF 1 <= n THEN n - 1 + 1 ELSE 0
      /\ \A k \in 1..(n - 1 + 1) : t[k] = s[1 + k - 1]
  BY <1>1, SubSeqProperties
<1> HIDE DEF t
<1>3. Len(t) = n  BY <1>1, <1>2
<1>4. \A k \in 1..Len(t) : t[k] = s[k]  BY <1>1, <1>2, <1>3
<1> QED BY <1>2, <1>3, <1>4 DEF n, t

\* In a state of the invariant the id a client holds is the index of its own, busy worker.
LEMMA EchoNamesItsWorker == IInv => SecondPassFindsOwnWorker
<1> SUFFICES ASSUME IInv, NEW r \in Requests, pc[r] \in {"limits", "pass2", "lookup"}
             PROVE  at[r] <= Len(pool) /\ pool[at[r]] = cand[r] /\ ~idle[cand[r]]
  BY DEF SecondPassFindsOwnWorker
<1>1. cand[r] \in InPool /\ ~idle[cand[r]] /\ at[r] = id[cand[r]]
  BY DEF IInv, CandidateOfCall, HeldWorkerInPool
<1>2. PICK k \in 1..Len(pool) : pool[k] = cand[r]  BY <1>1 DEF InPool
<1>3. at[r] = k  BY <1>1, <1>2 DEF IInv, IdIsIndex
<1> QED BY <1>1, <1>2, <1>3 DEF IInv, TypeOK

\* One lemma per action: a step of the action keeps the invariant.  /init first.
LEMMA InitStartInv == ASSUME IInv, InitStart PROVE IInv'
<1> USE PoolAssumption DEF IInv, InitStart, unitVars, callVars
<1>1. TypeOK'  BY DEF TypeOK, CallPc
<1>2. InitShape'  BY DEF InitShape
<1>3. StatusTracksPool'  BY DEF StatusTracksPool
<1>4. (MutexIsOwned /\ IdIsIndex /\ CandidateOfCall /\ OneRequestPerWorker /\
       HeldWorkerInPool /\ PtrOfDaemon /\ BusyWorkerIsHeld)'
  BY DEF MutexIsOwned, IdIsIndex, InPool, CandidateOfCall, OneRequestPerWorker,
     HeldWorkerInPool, PtrOfDaemon, Last, BusyWorkerIsHeld
<1> QED BY <1>1, <1>2, <1>3, <1>4

\* The first worker goes into an empty pool, with no call and the daemon asleep.
LEMMA InitPushInv == ASSUME IInv, InitPush PROVE IInv'
<1> USE PoolAssumption DEF IInv, InitPush, Push, unitVars, callVars
<1>1. TypeOK'  BY DEF TypeOK, CallPc
<1>2. IdIsIndex'  BY DEF IdIsIndex, InPool, TypeOK, InitShape
<1>3. CandidateOfCall'  BY DEF CandidateOfCall, TypeOK, InitShape
<1>4. HeldWorkerInPool'  BY DEF HeldWorkerInPool, InPool, TypeOK, InitShape, CandidateOfCall
<1>5. PtrOfDaemon'  BY DEF PtrOfDaemon, InPool, Last, TypeOK, InitShape
<1>6. InitShape'  BY DEF InitShape, TypeOK, CallPc
<1>7. BusyWorkerIsHeld'  BY DEF BusyWorkerIsHeld, InPool, TypeOK, InitShape
<1>8. StatusTracksPool'  BY DEF StatusTracksPool, InitShape
<1>9. (MutexIsOwned /\ OneRequestPerWorker)'  BY DEF MutexIsOwned, OneRequestPerWorker
<1> QED BY <1>1, <1>2, <1>3, <1>4, <1>5, <1>6, <1>7, <1>8, <1>9

\* A failed /init leaves the pool empty.
LEMMA InitFailsInv == ASSUME IInv, InitFails PROVE IInv'
<1> USE PoolAssumption DEF IInv, InitFails, unitVars, callVars
<1>1. TypeOK'  BY DEF TypeOK, CallPc
<1>2. InitShape'  BY DEF InitShape
<1>3. StatusTracksPool'  BY DEF StatusTracksPool, InitShape
<1>4. (MutexIsOwned /\ IdIsIndex /\ CandidateOfCall /\ OneRequestPerWorker /\
       HeldWorkerInPool /\ PtrOfDaemon /\ BusyWorkerIsHeld)'
  BY DEF MutexIsOwned, IdIsIndex, InPool, CandidateOfCall, OneRequestPerWorker,
     HeldWorkerInPool, PtrOfDaemon, Last, BusyWorkerIsHeld
<1> QED BY <1>1, <1>2, <1>3, <1>4

\* /init answers with one worker in the pool.
LEMMA InitOkInv == ASSUME IInv, InitOk PROVE IInv'
<1> USE PoolAssumption DEF IInv, InitOk, unitVars, callVars
<1>1. TypeOK'  BY DEF TypeOK, CallPc
<1>2. InitShape'  BY DEF InitShape
<1>3. StatusTracksPool'
  <2>1. pool # <<>>  BY DEF InitShape
  <2> QED BY <2>1 DEF StatusTracksPool
<1>4. (MutexIsOwned /\ IdIsIndex /\ CandidateOfCall /\ OneRequestPerWorker /\
       HeldWorkerInPool /\ PtrOfDaemon /\ BusyWorkerIsHeld)'
  BY DEF MutexIsOwned, IdIsIndex, InPool, CandidateOfCall, OneRequestPerWorker,
     HeldWorkerInPool, PtrOfDaemon, Last, BusyWorkerIsHeld
<1> QED BY <1>1, <1>2, <1>3, <1>4

\* The first pass of /run.
LEMMA SendInv == ASSUME IInv, NEW r \in Requests, Send(r) PROVE IInv'
<1> USE PoolAssumption DEF IInv, Send, Goes, OnlyCalls, unitVars, callVars
<1>1. TypeOK'  BY DEF TypeOK, CallPc
<1>2. MutexIsOwned'  BY DEF MutexIsOwned
<1>3. CandidateOfCall'  BY DEF CandidateOfCall
<1>4. InitShape'  BY DEF InitShape
<1>5. StatusTracksPool'  BY DEF StatusTracksPool
<1>6. (IdIsIndex /\ OneRequestPerWorker /\ HeldWorkerInPool /\ PtrOfDaemon /\
       BusyWorkerIsHeld)'
  BY DEF IdIsIndex, InPool, OneRequestPerWorker, HeldWorkerInPool, PtrOfDaemon, Last,
     BusyWorkerIsHeld
<1> QED BY <1>1, <1>2, <1>3, <1>4, <1>5, <1>6

\* pthread_mutex_lock of a scan.
LEMMA LockPoolInv == ASSUME IInv, NEW r \in Requests, LockPool(r) PROVE IInv'
<1> USE PoolAssumption DEF IInv, LockPool, Goes, FirstIndex, unitVars, callVars
<1>1. TypeOK'  BY DEF TypeOK, CallPc
<1>2. MutexIsOwned'  BY DEF MutexIsOwned, TypeOK, CallPc
<1>3. CandidateOfCall'  BY DEF CandidateOfCall
<1>4. InitShape'  BY DEF InitShape
<1>5. StatusTracksPool'  BY DEF StatusTracksPool
<1>6. (IdIsIndex /\ OneRequestPerWorker /\ HeldWorkerInPool /\ PtrOfDaemon /\
       BusyWorkerIsHeld)'
  BY DEF IdIsIndex, InPool, OneRequestPerWorker, HeldWorkerInPool, PtrOfDaemon, Last,
     BusyWorkerIsHeld
<1> QED BY <1>1, <1>2, <1>3, <1>4, <1>5, <1>6

\* An idle worker of the pool is held by no call, so the scan may take it.
LEMMA OccupyIdleInv == ASSUME IInv, NEW r \in Requests, OccupyIdle(r) PROVE IInv'
<1> USE PoolAssumption DEF IInv, OccupyIdle, Goes, ScanBound, TryOccupy, FirstIndex,
      unitVars, callVars
<1>1. TypeOK'  BY DEF TypeOK, CallPc
<1>2. MutexIsOwned'  BY DEF MutexIsOwned, TypeOK, CallPc
<1>3. CandidateOfCall'  BY DEF CandidateOfCall, TypeOK, CallPc
<1>4. OneRequestPerWorker'  BY DEF OneRequestPerWorker, TypeOK, HeldWorkerInPool, InPool
<1>5. HeldWorkerInPool'  BY DEF HeldWorkerInPool, InPool, TypeOK, CallPc
<1>6. PtrOfDaemon'  BY DEF PtrOfDaemon, InPool, Last
<1>7. InitShape'  BY DEF InitShape
<1>8. BusyWorkerIsHeld'
  <2> SUFFICES ASSUME NEW w \in InPool, ~idle'[w]
               PROVE  \/ \E s \in Requests : cand'[s] = w
                      \/ daemon' = "check" /\ ptr' = w
    BY DEF BusyWorkerIsHeld, InPool
  <2>1. CASE w = pool[at[r]]  BY <2>1 DEF TypeOK
  <2>2. CASE w # pool[at[r]]
    <3>1. ~idle[w]  BY <2>2 DEF TypeOK, InPool
    <3>2. cand[r] = Nobody  BY DEF CandidateOfCall
    <3>3. CASE daemon = "check" /\ ptr = w  BY <3>3
    <3>4. CASE \E s \in Requests : cand[s] = w
      <4> PICK s \in Requests : cand[s] = w  BY <3>4
      <4>1. s # r /\ cand'[s] = w  BY <3>2 DEF TypeOK, InPool
      <4> QED BY <4>1
    <3> QED BY <3>1, <3>3, <3>4 DEF BusyWorkerIsHeld
  <2> QED BY <2>1, <2>2
<1>9. StatusTracksPool'  BY DEF StatusTracksPool
<1>10. IdIsIndex'  BY DEF IdIsIndex, InPool
<1> QED BY <1>1, <1>2, <1>3, <1>4, <1>5, <1>6, <1>7, <1>8, <1>9, <1>10

\* The scan goes on.
LEMMA SkipBusyInv == ASSUME IInv, NEW r \in Requests, SkipBusy(r) PROVE IInv'
<1> USE PoolAssumption DEF IInv, SkipBusy, ScanBound, TryOccupy, OnlyCalls, unitVars,
      callVars
<1>1. TypeOK'  BY DEF TypeOK, CallPc
<1>2. CandidateOfCall'  BY DEF CandidateOfCall
<1>3. (MutexIsOwned /\ IdIsIndex /\ OneRequestPerWorker /\ HeldWorkerInPool /\ PtrOfDaemon
       /\ InitShape /\ BusyWorkerIsHeld /\ StatusTracksPool)'
  BY DEF MutexIsOwned, IdIsIndex, InPool, OneRequestPerWorker, HeldWorkerInPool,
     PtrOfDaemon, Last, InitShape, BusyWorkerIsHeld, StatusTracksPool
<1> QED BY <1>1, <1>2, <1>3

\* The scan ends without a worker.
LEMMA EndScanInv == ASSUME IInv, NEW r \in Requests, EndScan(r) PROVE IInv'
<1> USE PoolAssumption DEF IInv, EndScan, Goes, ScanBound, FirstIndex, UnlockAfterScan,
      unitVars, callVars
<1>1. TypeOK'  BY DEF TypeOK, CallPc
<1>2. MutexIsOwned'  BY DEF MutexIsOwned, TypeOK, CallPc
<1>3. CandidateOfCall'  BY DEF CandidateOfCall
<1>4. InitShape'  BY DEF InitShape
<1>5. StatusTracksPool'  BY DEF StatusTracksPool
<1>6. (IdIsIndex /\ OneRequestPerWorker /\ HeldWorkerInPool /\ PtrOfDaemon /\
       BusyWorkerIsHeld)'
  BY DEF IdIsIndex, InPool, OneRequestPerWorker, HeldWorkerInPool, PtrOfDaemon, Last,
     BusyWorkerIsHeld
<1> QED BY <1>1, <1>2, <1>3, <1>4, <1>5, <1>6

\* addWorker: the one step that adds a slot and a holder together.
LEMMA AddWorkerInv == ASSUME IInv, NEW r \in Requests, AddWorker(r) PROVE IInv'
<1> USE PoolAssumption DEF IInv, AddWorker
<1> PICK w \in Workers \ live : /\ Push(w, Len(pool) + 1, BornIdle)
                                /\ cand' = [cand EXCEPT ![r] = w]
  BY DEF AddWorker, Push
<1> USE DEF Goes, Push, BornIdle, callVars
<1>1. /\ pool' \in Seq(Workers)
      /\ Len(pool') = Len(pool) + 1
      /\ \A k \in 1..Len(pool) : pool'[k] = pool[k]
      /\ pool'[Len(pool) + 1] = w
  BY DEF TypeOK
<1>2. InPool' = InPool \cup {w} /\ w \notin InPool
  BY <1>1 DEF InPool, IdIsIndex, TypeOK
<1>3. cand[r] = Nobody /\ \A s \in Requests : cand[s] # w
  BY <1>2 DEF CandidateOfCall, HeldWorkerInPool
<1>4. TypeOK'  BY <1>1 DEF TypeOK, CallPc
<1>5. MutexIsOwned'  BY DEF MutexIsOwned, TypeOK
<1>6. IdIsIndex'
  <2>1. \A k \in 1..Len(pool) : pool[k] # w  BY <1>2 DEF InPool
  <2> QED BY <1>1, <1>2, <2>1 DEF IdIsIndex, TypeOK
<1>7. CandidateOfCall'
  <2> SUFFICES ASSUME NEW s \in Requests
               PROVE  /\ pc'[s] \in {"ready", "pass1", "scan", "spawn"} => cand'[s] = Nobody
                      /\ pc'[s] \in {"added", "limits", "pass2", "lookup", "run", "release"}
                           => cand'[s] # Nobody
                      /\ pc'[s] \in {"limits", "pass2", "lookup"} => at'[s] = id'[cand'[s]]
    BY DEF CandidateOfCall
  <2>1. CASE s = r  BY <2>1 DEF TypeOK
  <2>2. CASE s # r
    <3>1. pc'[s] = pc[s] /\ cand'[s] = cand[s] /\ at'[s] = at[s]  BY <2>2 DEF TypeOK
    <3>2. cand[s] \in Workers => id'[cand[s]] = id[cand[s]]  BY <1>3 DEF TypeOK
    <3> QED BY <3>1, <3>2 DEF CandidateOfCall, TypeOK
  <2> QED BY <2>1, <2>2
<1>8. OneRequestPerWorker'  BY <1>3 DEF OneRequestPerWorker, TypeOK
<1>9. HeldWorkerInPool'
  <2> SUFFICES ASSUME NEW s \in Requests, cand'[s] # Nobody
               PROVE  cand'[s] \in InPool' /\ ~idle'[cand'[s]]
    BY DEF HeldWorkerInPool
  <2>1. CASE s = r  BY <1>2, <2>1 DEF TypeOK
  <2>2. CASE s # r  BY <1>2, <1>3, <2>2 DEF HeldWorkerInPool, TypeOK
  <2> QED BY <2>1, <2>2
<1>10. PtrOfDaemon'
  <2>1. daemon # "check"  BY DEF MutexIsOwned
  <2>2. pool' # <<>>  BY <1>1 DEF TypeOK
  <2>3. ptr \in live \ InPool => ptr \in live' \ InPool'  BY <1>2
  <2> QED BY <2>1, <2>2, <2>3 DEF PtrOfDaemon, TypeOK
<1>11. InitShape'  BY DEF InitShape, TypeOK
<1>12. BusyWorkerIsHeld'
  <2> SUFFICES ASSUME NEW v \in InPool', ~idle'[v]
               PROVE  \/ \E s \in Requests : cand'[s] = v
                      \/ daemon' = "check" /\ ptr' = v
    BY DEF BusyWorkerIsHeld
  <2>1. CASE v = w  BY <2>1 DEF TypeOK
  <2>2. CASE v # w
    <3>1. v \in InPool /\ ~idle[v]  BY <1>2, <2>2 DEF TypeOK, InPool
    <3>2. CASE daemon = "check" /\ ptr = v  BY <3>2
    <3>3. CASE \E s \in Requests : cand[s] = v
      <4> PICK s \in Requests : cand[s] = v  BY <3>3
      <4>1. s # r /\ cand'[s] = v  BY <1>3, <3>1 DEF TypeOK, InPool
      <4> QED BY <4>1
    <3> QED BY <3>1, <3>2, <3>3 DEF BusyWorkerIsHeld
  <2> QED BY <2>1, <2>2
<1>13. StatusTracksPool'
  <2>1. pc'[r] = "added"  BY DEF TypeOK
  <2> QED BY <2>1 DEF StatusTracksPool
<1> QED BY <1>4, <1>5, <1>6, <1>7, <1>8, <1>9, <1>10, <1>11, <1>12, <1>13

\* startWorker fails.
LEMMA SpawnFailsInv == ASSUME IInv, NEW r \in Requests, SpawnFails(r) PROVE IInv'
<1> USE PoolAssumption DEF IInv, SpawnFails, Goes, OnlyCalls, unitVars, callVars
<1>1. TypeOK'  BY DEF TypeOK, CallPc
<1>2. MutexIsOwned'  BY DEF MutexIsOwned
<1>3. CandidateOfCall'  BY DEF CandidateOfCall
<1>4. InitShape'  BY DEF InitShape
<1>5. StatusTracksPool'  BY DEF StatusTracksPool
<1>6. (IdIsIndex /\ OneRequestPerWorker /\ HeldWorkerInPool /\ PtrOfDaemon /\
       BusyWorkerIsHeld)'
  BY DEF IdIsIndex, InPool, OneRequestPerWorker, HeldWorkerInPool, PtrOfDaemon, Last,
     BusyWorkerIsHeld
<1> QED BY <1>1, <1>2, <1>3, <1>4, <1>5, <1>6

\* The end of the first pass, and the client between the passes.
LEMMA SetRunInv == ASSUME IInv, NEW r \in Requests, SetRun(r) PROVE IInv'
<1> USE PoolAssumption DEF IInv, SetRun, Goes, unitVars, callVars
<1>1. TypeOK'
  <2>1. cand[r] \in InPool /\ cand[r] \in Workers
    BY DEF TypeOK, CandidateOfCall, HeldWorkerInPool, InPool
  <2>2. id[cand[r]] \in Nat \ {0}  BY <2>1 DEF IdIsIndex, InPool, TypeOK
  <2> QED BY <2>2 DEF TypeOK, CallPc
<1>2. MutexIsOwned'  BY DEF MutexIsOwned
<1>3. CandidateOfCall'  BY DEF CandidateOfCall, TypeOK, CallPc
<1>4. InitShape'  BY DEF InitShape
<1>5. StatusTracksPool'
  BY DEF StatusTracksPool, TypeOK, CandidateOfCall, HeldWorkerInPool, InPool, InitShape
<1>6. (IdIsIndex /\ OneRequestPerWorker /\ HeldWorkerInPool /\ PtrOfDaemon /\
       BusyWorkerIsHeld)'
  BY DEF IdIsIndex, InPool, OneRequestPerWorker, HeldWorkerInPool, PtrOfDaemon, Last,
     BusyWorkerIsHeld
<1> QED BY <1>1, <1>2, <1>3, <1>4, <1>5, <1>6

\* The client has put the new process into its cgroup.
LEMMA AddLimitsInv == ASSUME IInv, NEW r \in Requests, AddLimits(r) PROVE IInv'
<1> USE PoolAssumption DEF IInv, AddLimits, Goes, OnlyCalls, unitVars, callVars
<1>1. TypeOK'  BY DEF TypeOK, CallPc
<1>2. MutexIsOwned'  BY DEF MutexIsOwned
<1>3. CandidateOfCall'  BY DEF CandidateOfCall
<1>4. InitShape'  BY DEF InitShape
<1>5. StatusTracksPool'  BY DEF StatusTracksPool
<1>6. (IdIsIndex /\ OneRequestPerWorker /\ HeldWorkerInPool /\ PtrOfDaemon /\
       BusyWorkerIsHeld)'
  BY DEF IdIsIndex, InPool, OneRequestPerWorker, HeldWorkerInPool, PtrOfDaemon, Last,
     BusyWorkerIsHeld
<1> QED BY <1>1, <1>2, <1>3, <1>4, <1>5, <1>6

\* The client gives up; its worker stays occupied.
LEMMA LimitsFailInv == ASSUME IInv, NEW r \in Requests, LimitsFail(r) PROVE IInv'
<1> USE PoolAssumption DEF IInv, LimitsFail, Goes, OnlyCalls, FirstIndex, unitVars, callVars
<1>1. TypeOK'  BY DEF TypeOK, CallPc
<1>2. MutexIsOwned'  BY DEF MutexIsOwned
<1>3. CandidateOfCall'  BY DEF CandidateOfCall, TypeOK, CallPc
<1>4. InitShape'  BY DEF InitShape
<1>5. StatusTracksPool'  BY DEF StatusTracksPool
<1>6. (IdIsIndex /\ OneRequestPerWorker /\ HeldWorkerInPool /\ PtrOfDaemon /\
       BusyWorkerIsHeld)'
  BY DEF IdIsIndex, InPool, OneRequestPerWorker, HeldWorkerInPool, PtrOfDaemon, Last,
     BusyWorkerIsHeld
<1> QED BY <1>1, <1>2, <1>3, <1>4, <1>5, <1>6

\* The second pass: it finds the worker its call already has (EchoNamesItsWorker).
LEMMA SecondPassInv == ASSUME IInv, NEW r \in Requests, SecondPass(r) PROVE IInv'
<1> USE PoolAssumption DEF IInv, SecondPass, Goes, OnlyCalls, unitVars, callVars
<1>1. TypeOK'  BY DEF TypeOK, CallPc
<1>2. MutexIsOwned'  BY DEF MutexIsOwned
<1>3. CandidateOfCall'  BY DEF CandidateOfCall
<1>4. InitShape'  BY DEF InitShape
<1>5. StatusTracksPool'  BY DEF StatusTracksPool
<1>6. (IdIsIndex /\ OneRequestPerWorker /\ HeldWorkerInPool /\ PtrOfDaemon /\
       BusyWorkerIsHeld)'
  BY DEF IdIsIndex, InPool, OneRequestPerWorker, HeldWorkerInPool, PtrOfDaemon, Last,
     BusyWorkerIsHeld
<1> QED BY <1>1, <1>2, <1>3, <1>4, <1>5, <1>6

\* The candidate does not change (EchoNamesItsWorker).
LEMMA SecondPassFindsInv == ASSUME IInv, NEW r \in Requests, SecondPassFinds(r) PROVE IInv'
<1> USE PoolAssumption DEF IInv, SecondPassFinds, Goes, OnlyCalls, EchoNamesBusyWorker,
      FirstIndex, unitVars, callVars
<1>1. cand' = cand
  <2>1. pool[at[r]] = cand[r]  BY EchoNamesItsWorker DEF SecondPassFindsOwnWorker
  <2> QED BY <2>1 DEF TypeOK
<1>2. TypeOK'  BY <1>1 DEF TypeOK, CallPc
<1>3. MutexIsOwned'  BY <1>1 DEF MutexIsOwned
<1>4. CandidateOfCall'  BY <1>1 DEF CandidateOfCall, TypeOK, CallPc
<1>5. OneRequestPerWorker'  BY <1>1 DEF OneRequestPerWorker, TypeOK, CallPc
<1>6. HeldWorkerInPool'  BY <1>1 DEF HeldWorkerInPool, InPool, TypeOK, CallPc
<1>7. PtrOfDaemon'  BY <1>1 DEF PtrOfDaemon, InPool, Last, TypeOK, CallPc
<1>8. InitShape'  BY <1>1 DEF InitShape
<1>9. BusyWorkerIsHeld'  BY <1>1 DEF BusyWorkerIsHeld, InPool
<1>10. StatusTracksPool'  BY <1>1 DEF StatusTracksPool
<1>11. IdIsIndex'  BY <1>1 DEF IdIsIndex, InPool
<1> QED BY <1>2, <1>3, <1>4, <1>5, <1>6, <1>7, <1>8, <1>9, <1>10, <1>11

\* The process dies.
LEMMA SecondPassAbortsInv == ASSUME IInv, NEW r \in Requests, SecondPassAborts(r)
                             PROVE  IInv'
<1> USE PoolAssumption DEF IInv, SecondPassAborts, Abort, unitVars, callVars
<1>1. TypeOK'  BY DEF TypeOK, CallPc
<1>2. (MutexIsOwned /\ IdIsIndex /\ CandidateOfCall /\ OneRequestPerWorker /\
       HeldWorkerInPool /\ PtrOfDaemon /\ InitShape /\ BusyWorkerIsHeld /\
       StatusTracksPool)'
  BY DEF MutexIsOwned, IdIsIndex, InPool, CandidateOfCall, OneRequestPerWorker,
     HeldWorkerInPool, PtrOfDaemon, Last, InitShape, BusyWorkerIsHeld, StatusTracksPool
<1> QED BY <1>1, <1>2

\* runCode and setIdle.
LEMMA FinishInv == ASSUME IInv, NEW r \in Requests, Finish(r) PROVE IInv'
<1> USE PoolAssumption DEF IInv, Finish, Goes, unitVars, callVars
<1>1. TypeOK'  BY DEF TypeOK, CallPc
<1>2. MutexIsOwned'  BY DEF MutexIsOwned
<1>3. CandidateOfCall'  BY DEF CandidateOfCall
<1>4. InitShape'  BY DEF InitShape
<1>5. StatusTracksPool'  BY DEF StatusTracksPool
<1>6. (IdIsIndex /\ OneRequestPerWorker /\ HeldWorkerInPool /\ PtrOfDaemon /\
       BusyWorkerIsHeld)'
  BY DEF IdIsIndex, InPool, OneRequestPerWorker, HeldWorkerInPool, PtrOfDaemon, Last,
     BusyWorkerIsHeld
<1> QED BY <1>1, <1>2, <1>3, <1>4, <1>5, <1>6

\* runCode throws; the worker stays occupied.
LEMMA RunFailsInv == ASSUME IInv, NEW r \in Requests, RunFails(r) PROVE IInv'
<1> USE PoolAssumption DEF IInv, RunFails, Goes, OnlyCalls, unitVars, callVars
<1>1. TypeOK'  BY DEF TypeOK, CallPc
<1>2. MutexIsOwned'  BY DEF MutexIsOwned
<1>3. CandidateOfCall'  BY DEF CandidateOfCall
<1>4. InitShape'  BY DEF InitShape
<1>5. StatusTracksPool'  BY DEF StatusTracksPool
<1>6. (IdIsIndex /\ OneRequestPerWorker /\ HeldWorkerInPool /\ PtrOfDaemon /\
       BusyWorkerIsHeld)'
  BY DEF IdIsIndex, InPool, OneRequestPerWorker, HeldWorkerInPool, PtrOfDaemon, Last,
     BusyWorkerIsHeld
<1> QED BY <1>1, <1>2, <1>3, <1>4, <1>5, <1>6

\* The worker is idle again and nobody else held it.
LEMMA ReleaseInv == ASSUME IInv, NEW r \in Requests, Release(r) PROVE IInv'
<1> USE PoolAssumption DEF IInv, Release, Goes, IdleAfterRun, unitVars, callVars
<1>1. TypeOK'  BY DEF TypeOK, CallPc
<1>2. MutexIsOwned'  BY DEF MutexIsOwned
<1>3. CandidateOfCall'  BY DEF CandidateOfCall, TypeOK, CallPc
<1>4. OneRequestPerWorker'  BY DEF OneRequestPerWorker
<1>5. HeldWorkerInPool'
  BY DEF HeldWorkerInPool, InPool, TypeOK, OneRequestPerWorker, CandidateOfCall
<1>6. PtrOfDaemon'  BY DEF PtrOfDaemon, InPool, Last, TypeOK, CallPc
<1>7. InitShape'  BY DEF InitShape
<1>8. BusyWorkerIsHeld'
  <2> SUFFICES ASSUME NEW w \in InPool, ~idle'[w]
               PROVE  \/ \E s \in Requests : cand'[s] = w
                      \/ daemon' = "check" /\ ptr' = w
    BY DEF BusyWorkerIsHeld, InPool
  <2>1. w # cand[r] /\ ~idle[w]  BY DEF TypeOK, InPool
  <2> QED BY <2>1 DEF TypeOK, BusyWorkerIsHeld
<1>9. StatusTracksPool'  BY DEF StatusTracksPool
<1>10. IdIsIndex'  BY DEF IdIsIndex, InPool
<1> QED BY <1>1, <1>2, <1>3, <1>4, <1>5, <1>6, <1>7, <1>8, <1>9, <1>10

\* try_remove.
LEMMA CleanerWakeInv == ASSUME IInv, CleanerWake PROVE IInv'
<1> USE PoolAssumption DEF IInv, CleanerWake, unitVars, callVars
<1>1. TypeOK'  BY DEF TypeOK, CallPc
<1>2. MutexIsOwned'  BY DEF MutexIsOwned
<1>3. PtrOfDaemon'  BY DEF PtrOfDaemon, InPool, Last
<1>4. BusyWorkerIsHeld'  BY DEF BusyWorkerIsHeld, InPool
<1>5. (IdIsIndex /\ CandidateOfCall /\ OneRequestPerWorker /\ HeldWorkerInPool /\ InitShape
       /\ StatusTracksPool)'
  BY DEF IdIsIndex, InPool, CandidateOfCall, OneRequestPerWorker, HeldWorkerInPool,
     InitShape, StatusTracksPool
<1> QED BY <1>1, <1>2, <1>3, <1>4, <1>5

\* The process dies.
LEMMA CleanerRacesInitInv == ASSUME IInv, CleanerRacesInit PROVE IInv'
<1> USE PoolAssumption DEF IInv, CleanerRacesInit, Abort, unitVars, callVars
<1>1. TypeOK'  BY DEF TypeOK, CallPc
<1>2. (MutexIsOwned /\ IdIsIndex /\ CandidateOfCall /\ OneRequestPerWorker /\
       HeldWorkerInPool /\ PtrOfDaemon /\ InitShape /\ BusyWorkerIsHeld /\
       StatusTracksPool)'
  BY DEF MutexIsOwned, IdIsIndex, InPool, CandidateOfCall, OneRequestPerWorker,
     HeldWorkerInPool, PtrOfDaemon, Last, InitShape, BusyWorkerIsHeld, StatusTracksPool
<1> QED BY <1>1, <1>2

\* The daemon takes an idle worker, so one no call holds.
LEMMA CleanerOccupyInv == ASSUME IInv, CleanerOccupy PROVE IInv'
<1> USE PoolAssumption DEF IInv, CleanerOccupy, DaemonOccupies, Last, unitVars, callVars
<1>1. TypeOK'  BY DEF TypeOK, CallPc, PtrOfDaemon
<1>2. MutexIsOwned'  BY DEF MutexIsOwned
<1>3. HeldWorkerInPool'  BY DEF HeldWorkerInPool, InPool
<1>4. PtrOfDaemon'  BY DEF PtrOfDaemon, InPool, TypeOK, HeldWorkerInPool
<1>5. BusyWorkerIsHeld'  BY DEF BusyWorkerIsHeld, InPool
<1>6. (IdIsIndex /\ CandidateOfCall /\ OneRequestPerWorker /\ InitShape /\
       StatusTracksPool)'
  BY DEF IdIsIndex, InPool, CandidateOfCall, OneRequestPerWorker, InitShape,
     StatusTracksPool
<1> QED BY <1>1, <1>2, <1>3, <1>4, <1>5, <1>6

\* The last worker is busy.
LEMMA CleanerBusyInv == ASSUME IInv, CleanerBusy PROVE IInv'
<1> USE PoolAssumption DEF IInv, CleanerBusy, DaemonOccupies, Last, unitVars, callVars
<1>1. TypeOK'  BY DEF TypeOK, CallPc
<1>2. MutexIsOwned'  BY DEF MutexIsOwned
<1>3. PtrOfDaemon'  BY DEF PtrOfDaemon, InPool
<1>4. BusyWorkerIsHeld'  BY DEF BusyWorkerIsHeld, InPool
<1>5. (IdIsIndex /\ CandidateOfCall /\ OneRequestPerWorker /\ HeldWorkerInPool /\ InitShape
       /\ StatusTracksPool)'
  BY DEF IdIsIndex, InPool, CandidateOfCall, OneRequestPerWorker, HeldWorkerInPool,
     InitShape, StatusTracksPool
<1> QED BY <1>1, <1>2, <1>3, <1>4, <1>5

\* The last worker is kept and idle again.
LEMMA CleanerKeepInv == ASSUME IInv, CleanerKeep PROVE IInv'
<1> USE PoolAssumption DEF IInv, CleanerKeep, unitVars, callVars
<1>1. TypeOK'  BY DEF TypeOK, CallPc
<1>2. MutexIsOwned'  BY DEF MutexIsOwned
<1>3. HeldWorkerInPool'  BY DEF HeldWorkerInPool, InPool, TypeOK, PtrOfDaemon
<1>4. PtrOfDaemon'  BY DEF PtrOfDaemon, InPool, Last
<1>5. BusyWorkerIsHeld'
  <2> SUFFICES ASSUME NEW w \in InPool, ~idle'[w]
               PROVE  \E s \in Requests : cand'[s] = w
    BY DEF BusyWorkerIsHeld, InPool
  <2>1. w # ptr /\ ~idle[w]  BY DEF TypeOK, InPool
  <2> QED BY <2>1 DEF BusyWorkerIsHeld
<1>6. (IdIsIndex /\ CandidateOfCall /\ OneRequestPerWorker /\ InitShape /\
       StatusTracksPool)'
  BY DEF IdIsIndex, InPool, CandidateOfCall, OneRequestPerWorker, InitShape,
     StatusTracksPool
<1> QED BY <1>1, <1>2, <1>3, <1>4, <1>5, <1>6

\* pool.pop_back(): the worker that leaves is the last one, which no call holds.
LEMMA CleanerPopInv == ASSUME IInv, CleanerPop PROVE IInv'
<1>p. pool # <<>> /\ Len(pool) \in Nat \ {0}
  BY DEF CleanerPop, IInv, PtrOfDaemon, TypeOK
<1>0. /\ pool' \in Seq(Workers)
      /\ Len(pool') = Len(pool) - 1
      /\ \A k \in 1..Len(pool') : pool'[k] = pool[k]
  BY <1>p, PopFacts DEF CleanerPop, Pop, IInv, TypeOK
<1>q. pool' = <<>> <=> Len(pool) = 1
  <2>1. pool' = <<>> <=> Len(pool') = 0  BY <1>0, EmptyHasLengthZero
  <2> QED BY <1>p, <1>0, <2>1
<1> USE PoolAssumption DEF IInv, CleanerPop, Pop, StatusAfterPop, unitVars, callVars
<1>1. TypeOK'  BY <1>p, <1>0 DEF TypeOK, CallPc
<1>2. MutexIsOwned'  BY <1>p, <1>0 DEF MutexIsOwned
<1>3. IdIsIndex'  BY <1>p, <1>0 DEF IdIsIndex, InPool
<1>4. HeldWorkerInPool'
  <2> SUFFICES ASSUME NEW r \in Requests, cand[r] # Nobody
               PROVE  cand[r] \in InPool'
    BY DEF HeldWorkerInPool
  <2>1. PICK j \in 1..Len(pool) : pool[j] = cand[r]  BY DEF HeldWorkerInPool, InPool
  <2>2. j # Len(pool)  BY <2>1 DEF PtrOfDaemon, Last
  <2>3. j \in 1..Len(pool') /\ pool'[j] = cand[r]  BY <1>p, <1>0, <2>1, <2>2 DEF TypeOK
  <2> QED BY <2>3 DEF InPool
<1>5. PtrOfDaemon'  BY <1>p, <1>0 DEF PtrOfDaemon, InPool, Last, TypeOK, IdIsIndex
<1>6. InitShape'
  <2>1. initPc # "pushed"  BY <1>p, <1>0 DEF InitShape, PtrOfDaemon, Last, TypeOK
  <2>2. initPc \notin {"todo", "pushing"}  BY DEF InitShape, PtrOfDaemon
  <2> QED BY <2>1, <2>2 DEF InitShape, TypeOK
<1>7. BusyWorkerIsHeld'
  <2> SUFFICES ASSUME NEW w \in InPool', ~idle[w]
               PROVE  \E r \in Requests : cand[r] = w
    BY DEF BusyWorkerIsHeld
  <2>1. PICK j \in 1..Len(pool') : pool'[j] = w  BY DEF InPool
  <2>2. j \in 1..Len(pool) /\ pool[j] = w /\ j # Len(pool)  BY <1>p, <1>0, <2>1 DEF TypeOK
  <2>3. w \in InPool  BY <2>2 DEF InPool
  <2>4. ptr = pool[Len(pool)]  BY DEF PtrOfDaemon, Last
  <2>5. w # ptr  BY <1>p, <2>2, <2>4 DEF IdIsIndex
  <2> QED BY <2>3, <2>5 DEF BusyWorkerIsHeld
<1>8. StatusTracksPool'  BY <1>p, <1>q DEF StatusTracksPool
<1>9. (CandidateOfCall /\ OneRequestPerWorker)'  BY DEF CandidateOfCall, OneRequestPerWorker
<1> QED BY <1>1, <1>2, <1>3, <1>4, <1>5, <1>6, <1>7, <1>8, <1>9

\* The deleted worker has left the pool and no call holds it.
LEMMA CleanerDeleteInv == ASSUME IInv, CleanerDelete PROVE IInv'
<1> USE PoolAssumption DEF IInv, CleanerDelete, unitVars, callVars
<1>1. TypeOK'  BY DEF TypeOK, CallPc
<1>2. MutexIsOwned'  BY DEF MutexIsOwned
<1>3. IdIsIndex'  BY DEF IdIsIndex, InPool, TypeOK, PtrOfDaemon
<1>4. CandidateOfCall'
  BY DEF CandidateOfCall, TypeOK, PtrOfDaemon, HeldWorkerInPool, IdIsIndex
<1>5. PtrOfDaemon'  BY DEF PtrOfDaemon, InPool, Last
<1>6. InitShape'  BY DEF InitShape
<1>7. BusyWorkerIsHeld'  BY DEF BusyWorkerIsHeld, InPool
<1>8. (OneRequestPerWorker /\ HeldWorkerInPool /\ StatusTracksPool)'
  BY DEF OneRequestPerWorker, HeldWorkerInPool, InPool, StatusTracksPool
<1> QED BY <1>1, <1>2, <1>3, <1>4, <1>5, <1>6, <1>7, <1>8

\* Time.
LEMMA ExpireInv == ASSUME IInv, NEW w \in Workers, Expire(w) PROVE IInv'
<1> USE PoolAssumption DEF IInv, Expire, unitVars, callVars
<1>1. TypeOK'  BY DEF TypeOK, CallPc
<1>2. InitShape'  BY DEF InitShape
<1>3. (MutexIsOwned /\ IdIsIndex /\ CandidateOfCall /\ OneRequestPerWorker /\
       HeldWorkerInPool /\ PtrOfDaemon /\ BusyWorkerIsHeld /\ StatusTracksPool)'
  BY DEF MutexIsOwned, IdIsIndex, InPool, CandidateOfCall, OneRequestPerWorker,
     HeldWorkerInPool, PtrOfDaemon, Last, BusyWorkerIsHeld, StatusTracksPool
<1> QED BY <1>1, <1>2, <1>3

-----------------------------------------------------------------------------
\* A proxy that has just started satisfies the invariant.
LEMMA InitIInv == Init => IInv
<1> SUFFICES ASSUME Init PROVE IInv  OBVIOUS
<1> USE PoolAssumption DEF Init, FirstIndex
<1>1. Len(pool) = 0 /\ InPool = {}  BY DEF InPool
<1>2. TypeOK  BY DEF TypeOK, CallPc
<1>3. MutexIsOwned  BY DEF MutexIsOwned
<1>4. IdIsIndex  BY <1>1 DEF IdIsIndex
<1>5. CandidateOfCall  BY DEF CandidateOfCall
<1>6. OneRequestPerWorker  BY DEF OneRequestPerWorker
<1>7. HeldWorkerInPool  BY DEF HeldWorkerInPool
<1>8. PtrOfDaemon  BY DEF PtrOfDaemon
<1>9. InitShape  BY DEF InitShape
<1>10. BusyWorkerIsHeld  BY <1>1 DEF BusyWorkerIsHeld
<1>11. StatusTracksPool  BY DEF StatusTracksPool
<1> QED BY <1>2, <1>3, <1>4, <1>5, <1>6, <1>7, <1>8, <1>9, <1>10, <1>11 DEF IInv

\* A step that changes nothing keeps it.
LEMMA StutterInv == IInv /\ UNCHANGED vars => IInv'
<1> SUFFICES ASSUME IInv, UNCHANGED vars PROVE IInv'  OBVIOUS
<1> USE DEF vars, unitVars, callVars
<1>1. InPool' = InPool  BY DEF InPool
<1>2. (TypeOK /\ MutexIsOwned /\ IdIsIndex)'
  BY <1>1 DEF IInv, TypeOK, MutexIsOwned, IdIsIndex
<1>3. (CandidateOfCall /\ OneRequestPerWorker /\ HeldWorkerInPool)'
  BY <1>1 DEF IInv, CandidateOfCall, OneRequestPerWorker, HeldWorkerInPool
<1>4. (PtrOfDaemon /\ InitShape)'  BY <1>1 DEF IInv, PtrOfDaemon, InitShape, Last
<1>5. (BusyWorkerIsHeld /\ StatusTracksPool)'
  BY <1>1 DEF IInv, BusyWorkerIsHeld, StatusTracksPool
<1> QED BY <1>2, <1>3, <1>4, <1>5 DEF IInv

\* Every step of the proxy, its clients and time keeps the invariant.
LEMMA NextIInv == IInv /\ [Next]_vars => IInv'
<1> SUFFICES ASSUME IInv, [Next]_vars PROVE IInv'  OBVIOUS
<1>1. CASE UNCHANGED vars  BY <1>1, StutterInv
<1>2. CASE InitHandler
  BY <1>2, InitStartInv, InitPushInv, InitFailsInv, InitOkInv DEF InitHandler
<1>3. ASSUME NEW r \in Requests, Send(r) \/ Client(r) PROVE IInv'
  BY <1>3, SendInv, AddLimitsInv, LimitsFailInv DEF Client
<1>4. ASSUME NEW r \in Requests, RunHandler(r) PROVE IInv'
  BY <1>4, LockPoolInv, OccupyIdleInv, SkipBusyInv, EndScanInv, AddWorkerInv, SpawnFailsInv,
     SetRunInv, SecondPassInv, SecondPassFindsInv, SecondPassAbortsInv, FinishInv,
     RunFailsInv, ReleaseInv DEF RunHandler
<1>5. CASE DaemonCleaner
  BY <1>5, StutterInv, CleanerWakeInv, CleanerRacesInitInv, CleanerOccupyInv,
      CleanerBusyInv,
     CleanerKeepInv, CleanerPopInv, CleanerDeleteInv DEF DaemonCleaner, CleanerIdle
<1>6. ASSUME NEW w \in Workers, Expire(w) PROVE IInv'  BY <1>6, ExpireInv
<1> QED BY <1>1, <1>2, <1>3, <1>4, <1>5, <1>6 DEF Next, Running

\* The invariant holds in every reachable state of the pool.
THEOREM Invariance == Spec => []IInv
BY InitIInv, NextIInv, PTL DEF Spec

\* The variables keep their types in every reachable state.
THEOREM TypeCorrect == Spec => []TypeOK
BY Invariance, PTL DEF IInv

\* tryOccupy and addWorker never give one worker process to two calls.
THEOREM OneRequestPerWorkerHolds == Spec => []OneRequestPerWorker
BY Invariance, PTL DEF IInv

\* try_remove never takes from the pool a worker a call runs on or will run on.
THEOREM HeldWorkerInPoolHolds == Spec => []HeldWorkerInPool
BY Invariance, PTL DEF IInv

\* `delete ptr` after the unlock leaves no call and no slot with a dangling pointer.
THEOREM NoDanglingPointerHolds == Spec => []NoDanglingPointer
<1>1. IInv => NoDanglingPointer
  BY PoolAssumption
     DEF IInv, TypeOK, IdIsIndex, HeldWorkerInPool, PtrOfDaemon, NoDanglingPointer
<1> QED BY <1>1, Invariance, PTL

\* The id of a first pass still names that call's busy worker at its second pass.
THEOREM SecondPassFindsOwnWorkerHolds == Spec => []SecondPassFindsOwnWorker
BY EchoNamesItsWorker, Invariance, PTL

\* A worker is out of use only while a call, failed ones included, or the daemon has it.
THEOREM BusyWorkerIsHeldHolds == Spec => []BusyWorkerIsHeld
BY Invariance, PTL DEF IInv

\* The status string says "idle" when and only when the pool is empty, but for the two
\* cases StatusTracksPool names: a push_back whose status is not yet written, and "init".
THEOREM StatusTracksPoolHolds == Spec => []StatusTracksPool
BY Invariance, PTL DEF IInv

\* Only a vector moved under the unlocked reads makes a second pass abort the process.
THEOREM AbortOnlyByRaceHolds == Spec => AbortOnlyByRace
<1> DEFINE Race == crash' = "lookup" =>
             \E r \in Requests : pc[r] = "lookup" /\ seen[r] # capacity
<1>1. ASSUME IInv, Next PROVE [Race]_vars
  <2> SUFFICES ASSUME ~UNCHANGED vars, crash' = "lookup"
               PROVE  \E r \in Requests : pc[r] = "lookup" /\ seen[r] # capacity
    OBVIOUS
  <2>1. crash = "none" /\ Running  BY <1>1 DEF Next
  <2>2. ~InitHandler
    BY <2>1 DEF InitHandler, InitStart, InitPush, InitFails, InitOk, Push
  <2>3. ~DaemonCleaner
    BY <2>1 DEF DaemonCleaner, CleanerIdle, CleanerWake, CleanerRacesInit, CleanerOccupy,
       CleanerBusy, CleanerKeep, CleanerPop, CleanerDelete, Abort, vars
  <2>4. \A w \in Workers : ~Expire(w)  BY <2>1 DEF Expire
  <2>5. PICK r \in Requests : Send(r) \/ Client(r) \/ RunHandler(r)
    BY <2>1, <2>2, <2>3, <2>4 DEF Running
  <2>6. SecondPassAborts(r)
    BY <2>1, <2>5 DEF Send, Client, AddLimits, LimitsFail, RunHandler, LockPool, OccupyIdle,
       SkipBusy, EndScan, AddWorker, SpawnFails, SetRun, SecondPass, SecondPassFinds,
      Finish,
       RunFails, Release, OnlyCalls
  <2>7. EchoNamesBusyWorker(r)
    BY <1>1, <2>6, EchoNamesItsWorker
       DEF SecondPassAborts, SecondPassFindsOwnWorker, EchoNamesBusyWorker
  <2> QED BY <2>6, <2>7 DEF SecondPassAborts
<1>2. IInv /\ [Next]_vars => [Race]_vars  BY <1>1
<1> QED BY <1>2, Invariance, PTL DEF Spec, AbortOnlyByRace

-----------------------------------------------------------------------------
\* A new proxy has no workers and no leases.
LEMMA LeaseInit == Init => Lease!Init
BY DEF Init, Lease!Init, InPool

\* A step that leaves the pool and the candidates alone leaves all leases alone.
LEMMA LeaseKept == pool' = pool /\ cand' = cand => UNCHANGED Lease!vars
BY DEF Lease!vars, InPool

\* The first worker of /init is a new process nobody holds.
LEMMA InitPushStarts == ASSUME IInv, InitPush PROVE \E w \in Workers : Lease!Start(w)
<1> PICK w \in Workers : Push(w, 1, TRUE)  BY DEF InitPush
<1>1. pool = <<>> /\ w \notin InPool  BY DEF IInv, InitPush, InitShape, InPool
<1>2. InPool' = InPool \cup {w}  BY <1>1 DEF Push, InPool, IInv, TypeOK
<1>3. cand' = cand  BY DEF InitPush, callVars
<1> QED BY <1>1, <1>2, <1>3 DEF Lease!Start

\* A scan grants a worker of the pool that no other call holds.
LEMMA OccupyIdleGrants ==
  ASSUME IInv, NEW r \in Requests, OccupyIdle(r)
  PROVE  \E w \in Workers : Lease!Grant(r, w)
<1> DEFINE w == pool[at[r]]
<1>1. at[r] \in 1..Len(pool)  BY DEF IInv, TypeOK, OccupyIdle, ScanBound
<1>2. w \in InPool /\ w \in Workers /\ idle[w]
  BY <1>1 DEF InPool, IInv, TypeOK, OccupyIdle, TryOccupy
<1>3. \A s \in Requests : cand[s] # w
  BY <1>2, PoolAssumption DEF IInv, HeldWorkerInPool
<1>4. cand[r] = Nobody  BY DEF IInv, CandidateOfCall, OccupyIdle, Goes
<1>5. InPool' = InPool /\ cand' = [cand EXCEPT ![r] = w]  BY DEF OccupyIdle, InPool
<1> QED BY <1>2, <1>3, <1>4, <1>5 DEF Lease!Grant, Lease!Leased

\* addWorker starts a worker for its caller.
LEMMA AddWorkerStarts ==
  ASSUME IInv, NEW r \in Requests, AddWorker(r)
  PROVE  \E w \in Workers : Lease!StartFor(r, w)
<1> PICK w \in Workers : Push(w, Len(pool) + 1, BornIdle) /\ cand' = [cand EXCEPT ![r] = w]
  BY DEF AddWorker
<1>1. w \notin InPool  BY DEF IInv, IdIsIndex, Push
<1>2. InPool' = InPool \cup {w}
  <2>1. /\ pool \in Seq(Workers) /\ pool' = Append(pool, w)  BY DEF IInv, TypeOK, Push
  <2>2. /\ Len(pool') = Len(pool) + 1 /\ Len(pool) \in Nat
        /\ \A k \in 1..Len(pool) : pool'[k] = pool[k]
        /\ pool'[Len(pool) + 1] = w
    BY <2>1
  <2> QED BY <2>2 DEF InPool
<1>3. cand[r] = Nobody  BY DEF IInv, CandidateOfCall, AddWorker, Goes
<1> QED BY <1>1, <1>2, <1>3 DEF Lease!StartFor

\* setIdle(true) gives the worker back.
LEMMA ReleaseReturns ==
  ASSUME IInv, NEW r \in Requests, Release(r) PROVE Lease!Return(r)
<1>1. cand[r] # Nobody  BY DEF IInv, CandidateOfCall, Release, Goes
<1> QED BY <1>1 DEF Release, Lease!Return, InPool

\* The daemon retires the last worker of the pool, which no call holds.
LEMMA CleanerPopRetires == ASSUME IInv, CleanerPop PROVE Lease!Retire(ptr)
<1>1. /\ pool \in Seq(Workers) /\ pool # <<>>
      /\ ptr = pool[Len(pool)]
      /\ \A r \in Requests : cand[r] # ptr
  BY DEF CleanerPop, IInv, TypeOK, PtrOfDaemon, Last
<1>2. Len(pool) \in Nat \ {0}  BY <1>1, EmptySeq
<1>3. /\ Len(pool') = Len(pool) - 1
      /\ \A k \in 1..Len(pool') : pool'[k] = pool[k]
  BY <1>1, PopFacts DEF CleanerPop, Pop
<1>4. \A k \in 1..Len(pool) : pool[k] = ptr => k = Len(pool)
  BY <1>1, <1>2 DEF IInv, IdIsIndex
<1>5. InPool' = InPool \ {ptr}  BY <1>1, <1>2, <1>3, <1>4 DEF InPool
<1>6. ptr \in InPool  BY <1>1, <1>2 DEF InPool
<1>7. cand' = cand  BY DEF CleanerPop, callVars
<1> QED BY <1>1, <1>5, <1>6, <1>7 DEF Lease!Retire, Lease!Leased

\* Every step of the pool is a step of WorkerLease or leaves the leases alone.
LEMMA LeaseNext == IInv /\ [Next]_vars => [Lease!Next]_(Lease!vars)
<1> SUFFICES ASSUME IInv, [Next]_vars PROVE [Lease!Next]_(Lease!vars)  OBVIOUS
<1> USE DEF unitVars, callVars
<1>1. CASE UNCHANGED vars  BY <1>1, LeaseKept DEF vars
<1>2. CASE InitHandler
  <2>1. CASE InitPush  BY <2>1, InitPushStarts DEF Lease!Next
  <2>2. CASE InitStart \/ InitFails \/ InitOk
    BY <2>2, LeaseKept DEF InitStart, InitFails, InitOk
  <2> QED BY <1>2, <2>1, <2>2 DEF InitHandler
<1>3. ASSUME NEW r \in Requests, Send(r) \/ Client(r)
      PROVE  [Lease!Next]_(Lease!vars)
  BY <1>3, LeaseKept DEF Send, Client, AddLimits, LimitsFail, OnlyCalls
<1>4. ASSUME NEW r \in Requests, RunHandler(r)
      PROVE  [Lease!Next]_(Lease!vars)
  <2>1. CASE OccupyIdle(r)  BY <2>1, OccupyIdleGrants DEF Lease!Next
  <2>2. CASE AddWorker(r)  BY <2>2, AddWorkerStarts DEF Lease!Next
  <2>3. CASE SecondPassFinds(r)
    <3>1. pool[at[r]] = cand[r]
      BY <2>3, EchoNamesItsWorker DEF SecondPassFindsOwnWorker, SecondPassFinds, Goes
    <3>2. cand' = cand  BY <2>3, <3>1 DEF SecondPassFinds, IInv, TypeOK
    <3> QED BY <2>3, <3>2, LeaseKept DEF SecondPassFinds, OnlyCalls
  <2>4. CASE Release(r)  BY <2>4, ReleaseReturns DEF Lease!Next
  <2>5. CASE LockPool(r) \/ SkipBusy(r) \/ EndScan(r) \/ SpawnFails(r) \/ SetRun(r)
    BY <2>5, LeaseKept DEF LockPool, SkipBusy, EndScan, SpawnFails, SetRun, OnlyCalls
  <2>6. CASE SecondPass(r) \/ SecondPassAborts(r) \/ Finish(r) \/ RunFails(r)
    BY <2>6, LeaseKept DEF SecondPass, SecondPassAborts, Finish, RunFails, OnlyCalls, Abort
  <2> QED BY <1>4, <2>1, <2>2, <2>3, <2>4, <2>5, <2>6 DEF RunHandler
<1>5. CASE DaemonCleaner
  <2>1. CASE CleanerPop
    <3>1. ptr \in Workers
      BY <2>1, PoolAssumption DEF CleanerPop, IInv, TypeOK, PtrOfDaemon, Last
    <3> QED BY <2>1, <3>1, CleanerPopRetires DEF Lease!Next
  <2>2. CASE CleanerIdle \/ CleanerWake \/ CleanerRacesInit \/ CleanerOccupy
    BY <2>2, LeaseKept
       DEF CleanerIdle, CleanerWake, CleanerRacesInit, CleanerOccupy, Abort, vars
  <2>3. CASE CleanerBusy \/ CleanerKeep \/ CleanerDelete
    BY <2>3, LeaseKept DEF CleanerBusy, CleanerKeep, CleanerDelete
  <2> QED BY <1>5, <2>1, <2>2, <2>3 DEF DaemonCleaner
<1>6. ASSUME NEW w \in Workers, Expire(w)
      PROVE  [Lease!Next]_(Lease!vars)
  BY <1>6, LeaseKept DEF Expire
<1> QED BY <1>1, <1>2, <1>3, <1>4, <1>5, <1>6 DEF Next, Running

\* dispatch_request and try_remove implement WorkerLease: whatever the interleaving, a
\* worker process is leased to one request at a time and retired only when free.
THEOREM PoolImplementsLease == Spec => ImplementsLease
BY LeaseInit, LeaseNext, Invariance, PTL DEF Spec, ImplementsLease, Lease!Spec
=============================================================================
