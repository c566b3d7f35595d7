--------------------------- MODULE PoolBoundProofs --------------------------
(***************************************************************************)
(* dispatch_request has no limit on the workers it makes; the proof that   *)
(* there are never more of them than callers, for any finite number of     *)
(* callers.  The invariant BoundInv counts; IInv says who holds a worker.  *)
(***************************************************************************)
EXTENDS WorkerPoolProofs, FiniteSetTheorems

\* HoldersFrom and BoundInv as operators of the values they are about, so that the next
\* state can be spoken of.
AddingOf(p) == {r \in Requests : p[r] = "spawn"}
HoldersOf(c, i, n) == {r \in Requests : c[r] # Nobody /\ i[c[r]] >= n}

LEMMA BoundInvIs ==
  ASSUME NEW L
  PROVE  /\ BoundInv(L) <=>
              /\ Len(pool) + Cardinality(AddingOf(pc)) <= L
              /\ \A r \in Requests : pc[r] = "scan" =>
                   at[r] + Cardinality(HoldersOf(cand, id, at[r])) + Cardinality(AddingOf(pc)) <= L
         /\ BoundInv(L)' <=>
              /\ Len(pool') + Cardinality(AddingOf(pc')) <= L
              /\ \A r \in Requests : pc'[r] = "scan" =>
                   at'[r] + Cardinality(HoldersOf(cand', id', at'[r]))
                          + Cardinality(AddingOf(pc')) <= L
BY DEF BoundInv, Adding, HoldersFrom, AddingOf, HoldersOf

\* Sets of callers are finite, and counted.
LEMMA Counted ==
  ASSUME IsFiniteSet(Requests)
  PROVE  /\ \A S \in SUBSET Requests : IsFiniteSet(S) /\ Cardinality(S) \in Nat
         /\ \A S, T \in SUBSET Requests : S \subseteq T => Cardinality(S) <= Cardinality(T)
         /\ \A p : AddingOf(p) \in SUBSET Requests
         /\ \A c, i, n : HoldersOf(c, i, n) \in SUBSET Requests
<1>1. \A S \in SUBSET Requests : IsFiniteSet(S) /\ Cardinality(S) \in Nat
  BY FS_Subset, FS_CardinalityType
<1>2. \A S, T \in SUBSET Requests : S \subseteq T => Cardinality(S) <= Cardinality(T)
  BY <1>1, FS_Subset
<1>3. \A p : AddingOf(p) \in SUBSET Requests  BY DEF AddingOf
<1>4. \A c, i, n : HoldersOf(c, i, n) \in SUBSET Requests  BY DEF HoldersOf
<1> QED BY <1>1, <1>2, <1>3, <1>4

LEMMA PoolLength == TypeOK => Len(pool) \in Nat
BY LenProperties DEF TypeOK

LEMMA PoolLengthPrime == TypeOK' => Len(pool') \in Nat
BY LenProperties DEF TypeOK

\* A step that makes no worker, no call that adds one and no holder keeps the bound.
LEMMA BoundKept ==
  ASSUME IsFiniteSet(Requests), NEW L \in Nat \ {0}, TypeOK, TypeOK', BoundInv(L),
         Len(pool') <= Len(pool),
         AddingOf(pc') \subseteq AddingOf(pc),
         \A r \in Requests : pc'[r] = "scan" =>
            /\ pc[r] = "scan" /\ at'[r] = at[r]
            /\ HoldersOf(cand', id', at[r]) \subseteq HoldersOf(cand, id, at[r])
  PROVE  BoundInv(L)'
<1>1. Cardinality(AddingOf(pc')) <= Cardinality(AddingOf(pc))
  BY Counted
<1>2. Len(pool) \in Nat /\ Len(pool') \in Nat  BY PoolLength, PoolLengthPrime
<1>3. Cardinality(AddingOf(pc')) \in Nat /\ Cardinality(AddingOf(pc)) \in Nat /\ L \in Nat
  BY Counted
<1>4. Len(pool') + Cardinality(AddingOf(pc')) <= L
  BY <1>1, <1>2, <1>3, BoundInvIs
<1>5. ASSUME NEW r \in Requests, pc'[r] = "scan"
      PROVE  at'[r] + Cardinality(HoldersOf(cand', id', at'[r])) + Cardinality(AddingOf(pc')) <= L
  <2>1. /\ pc[r] = "scan" /\ at'[r] = at[r]
        /\ HoldersOf(cand', id', at'[r]) \subseteq HoldersOf(cand, id, at[r])
    BY <1>5
  <2>2. /\ Cardinality(HoldersOf(cand', id', at'[r])) <= Cardinality(HoldersOf(cand, id, at[r]))
        /\ Cardinality(HoldersOf(cand', id', at'[r])) \in Nat
        /\ Cardinality(HoldersOf(cand, id, at[r])) \in Nat
    BY <2>1, Counted
  <2>3. at[r] \in Nat  BY DEF TypeOK
  <2>4. at[r] + Cardinality(HoldersOf(cand, id, at[r])) + Cardinality(AddingOf(pc)) <= L
    BY <2>1, BoundInvIs
  <2> QED BY <1>1, <1>3, <2>1, <2>2, <2>3, <2>4
<1> QED BY <1>4, <1>5, BoundInvIs

\* Only the call that has the mutex scans.
LEMMA OneScans ==
  ASSUME IInv, NEW r \in Requests, NEW s \in Requests, pc[r] = "scan", pc[s] = "scan"
  PROVE  r = s
BY DEF IInv, MutexIsOwned

\* A call that holds a worker is under way, or has failed.
LEMMA HoldersActive ==
  ASSUME IInv, NEW r \in Requests, cand[r] # Nobody
  PROVE  r \in Active
BY DEF IInv, CandidateOfCall, Active

\* A call that waits for the mutex, or scans at the first worker, counts itself, the
\* holders and the calls that add a worker, which are all different calls under way.
LEMMA StartsCounted ==
  ASSUME IsFiniteSet(Requests), NEW L \in Nat \ {0}, Cardinality(Active) <= L, IInv,
         NEW r \in Requests, cand[r] = Nobody, pc[r] \notin {"ready", "spawn"}, NEW n
  PROVE  1 + Cardinality(HoldersOf(cand, id, n)) + Cardinality(AddingOf(pc)) <= L
<1> DEFINE H == HoldersOf(cand, id, n)
           A == AddingOf(pc)
<1>1. \A s \in A : cand[s] = Nobody  BY DEF AddingOf, IInv, CandidateOfCall
<1>2. H \cap A = {} /\ r \notin H \cup A /\ (H \cup A) \cup {r} \subseteq Active
  BY <1>1, HoldersActive DEF HoldersOf, AddingOf, Active
<1>3. /\ IsFiniteSet(H) /\ IsFiniteSet(A) /\ IsFiniteSet(H \cup A) /\ IsFiniteSet(Active)
      /\ Cardinality(Active) \in Nat
  BY <1>2, Counted DEF Active
<1> HIDE DEF H, A
<1>4. Cardinality(H \cup A) = Cardinality(H) + Cardinality(A)
  <2>1. Cardinality(H \cup A) = Cardinality(H) + Cardinality(A) - Cardinality(H \cap A)
    BY <1>3, FS_Union
  <2>2. Cardinality(H \cap A) = 0  BY <1>2, FS_EmptySet
  <2>3. Cardinality(H) \in Nat /\ Cardinality(A) \in Nat  BY <1>3, FS_CardinalityType
  <2> QED BY <2>1, <2>2, <2>3
<1>5. Cardinality((H \cup A) \cup {r}) = Cardinality(H \cup A) + 1
  BY <1>2, <1>3, FS_AddElement
<1>6. Cardinality((H \cup A) \cup {r}) <= Cardinality(Active)
  BY <1>2, <1>3, FS_Subset
<1> QED BY <1>3, <1>4, <1>5, <1>6, FS_CardinalityType, Counted DEF H, A

\* /init pushes the first worker into an empty pool, before any call.
LEMMA InitPushBound ==
  ASSUME IsFiniteSet(Requests), NEW L \in Nat \ {0}, IInv, InitPush PROVE BoundInv(L)'
<1>1. pool \in Seq(Workers) /\ pool = <<>>  BY DEF IInv, TypeOK, InitPush, InitShape
<1>2. PICK w \in Workers : pool' = Append(pool, w)  BY DEF InitPush, Push
<1>3. Len(pool') = 1  BY <1>1, <1>2
<1>4. \A r \in Requests : pc'[r] = "ready"
  BY DEF IInv, InitShape, InitPush, callVars
<1>5. AddingOf(pc') = {}  BY <1>4 DEF AddingOf
<1>6. L \in Nat /\ L # 0  OBVIOUS
<1>7. Cardinality(AddingOf(pc')) = 0  BY <1>5, FS_EmptySet
<1> QED BY <1>3, <1>4, <1>6, <1>7, BoundInvIs

\* The scan begins.
LEMMA LockPoolBound ==
  ASSUME IsFiniteSet(Requests), NEW L \in Nat \ {0}, Cardinality(Active) <= L, IInv, IInv',
         BoundInv(L), NEW r \in Requests, LockPool(r)
  PROVE  BoundInv(L)'
<1>1. /\ pc[r] = "pass1" /\ pool' = pool /\ cand' = cand /\ id' = id
      /\ pc' = [pc EXCEPT ![r] = "scan"] /\ at' = [at EXCEPT ![r] = 1]
  BY DEF LockPool, Goes, FirstIndex, unitVars
<1>2. pc \in [Requests -> CallPc] /\ at \in [Requests -> Nat \ {0}]  BY DEF IInv, TypeOK
<1>3. AddingOf(pc') = AddingOf(pc)  BY <1>1, <1>2 DEF AddingOf
<1>4. cand[r] = Nobody  BY <1>1 DEF IInv, CandidateOfCall
<1>5. 1 + Cardinality(HoldersOf(cand, id, 1)) + Cardinality(AddingOf(pc)) <= L
  BY <1>1, <1>4, StartsCounted
<1>6. \A s \in Requests : pc'[s] = "scan" => s = r
  BY DEF IInv, MutexIsOwned, LockPool
<1>7. at'[r] = 1  BY <1>1, <1>2
<1>8. Len(pool') + Cardinality(AddingOf(pc')) <= L  BY <1>1, <1>3, BoundInvIs
<1> QED BY <1>1, <1>3, <1>5, <1>6, <1>7, <1>8, BoundInvIs

\* A busy worker has a holder, which the scan leaves behind with it.
LEMMA SkipBusyBound ==
  ASSUME IsFiniteSet(Requests), NEW L \in Nat \ {0}, IInv, BoundInv(L),
         NEW r \in Requests, SkipBusy(r)
  PROVE  BoundInv(L)'
<1> DEFINE w == pool[at[r]]
           H == HoldersOf(cand, id, at[r])
           K == HoldersOf(cand, id, at[r] + 1)
<1>1. /\ pc[r] = "scan" /\ at[r] <= Len(pool) /\ ~ idle[w]
      /\ at' = [at EXCEPT ![r] = at[r] + 1]
      /\ pc' = pc /\ pool' = pool /\ cand' = cand /\ id' = id
  BY DEF SkipBusy, ScanBound, TryOccupy, OnlyCalls, unitVars
<1>2. /\ pool \in Seq(Workers) /\ at \in [Requests -> Nat \ {0}] /\ id \in [Workers -> Nat]
      /\ cand \in [Requests -> Workers \cup {Nobody}]
  BY DEF IInv, TypeOK
<1>3. at[r] \in 1..Len(pool) /\ at[r] \in Nat  BY <1>1, <1>2, LenProperties
<1>4. w \in InPool /\ w \in Workers /\ id[w] = at[r]
  BY <1>2, <1>3, LenProperties DEF IInv, IdIsIndex, InPool
<1>5. mutex = r /\ mutex # Cleaner
  BY <1>1, PoolAssumption DEF IInv, MutexIsOwned
<1>6. daemon # "check"  BY <1>5 DEF IInv, MutexIsOwned
<1>7. PICK s \in Requests : cand[s] = w
  BY <1>1, <1>4, <1>6 DEF IInv, BusyWorkerIsHeld
<1>8. w # Nobody  BY <1>4, PoolAssumption
<1>9. K \subseteq H \ {s} /\ s \in H
  <2>1. s \in H  BY <1>3, <1>4, <1>7, <1>8 DEF HoldersOf
  <2>2. s \notin K  BY <1>3, <1>4, <1>7 DEF HoldersOf
  <2>3. ASSUME NEW q \in K PROVE q \in H
    <3>1. q \in Requests /\ cand[q] # Nobody /\ id[cand[q]] >= at[r] + 1  BY DEF HoldersOf
    <3>2. cand[q] \in Workers  BY <1>2, <3>1
    <3>3. id[cand[q]] \in Nat  BY <1>2, <3>2
    <3> QED BY <1>3, <3>1, <3>3 DEF HoldersOf
  <2> QED BY <2>1, <2>2, <2>3
<1>10. H \in SUBSET Requests /\ K \in SUBSET Requests  BY Counted
<1> HIDE DEF H, K
<1>11. Cardinality(H \ {s}) = Cardinality(H) - 1 /\ IsFiniteSet(H)
  BY <1>9, <1>10, Counted, FS_RemoveElement
<1>12. Cardinality(K) <= Cardinality(H) - 1
  BY <1>9, <1>10, <1>11, Counted
<1>13. at[r] + Cardinality(H) + Cardinality(AddingOf(pc)) <= L
  BY <1>1, BoundInvIs DEF H
<1>14. /\ Cardinality(H) \in Nat /\ Cardinality(K) \in Nat
       /\ Cardinality(AddingOf(pc)) \in Nat /\ L \in Nat
  BY <1>10, Counted
<1>15. at[r] + 1 + Cardinality(K) + Cardinality(AddingOf(pc)) <= L
  BY <1>3, <1>12, <1>13, <1>14
<1>16. at'[r] = at[r] + 1  BY <1>1, <1>2
<1>17. at'[r] + Cardinality(HoldersOf(cand', id', at'[r])) + Cardinality(AddingOf(pc')) <= L
  BY <1>1, <1>15, <1>16 DEF K
<1>18. \A q \in Requests : pc'[q] = "scan" => q = r  BY <1>1, OneScans
<1>19. Len(pool') + Cardinality(AddingOf(pc')) <= L  BY <1>1, BoundInvIs
<1> QED BY <1>17, <1>18, <1>19, BoundInvIs

\* The scan has passed every worker: the call may add one.
LEMMA EndScanBound ==
  ASSUME IsFiniteSet(Requests), NEW L \in Nat \ {0}, IInv, IInv', BoundInv(L),
         NEW r \in Requests, EndScan(r)
  PROVE  BoundInv(L)'
<1>1. /\ pc[r] = "scan" /\ at[r] > Len(pool)
      /\ pc' = [pc EXCEPT ![r] = "spawn"] /\ pool' = pool
      /\ mutex' = Nobody
  BY DEF EndScan, ScanBound, Goes, UnlockAfterScan
<1>2. pc \in [Requests -> CallPc] /\ at[r] \in Nat /\ Len(pool) \in Nat
  BY PoolLength DEF IInv, TypeOK
<1>3. AddingOf(pc') = AddingOf(pc) \cup {r}  BY <1>1, <1>2 DEF AddingOf
<1>4. Cardinality(AddingOf(pc')) <= Cardinality(AddingOf(pc)) + 1
  BY <1>3, Counted, FS_AddElement
<1>5. at[r] + Cardinality(HoldersOf(cand, id, at[r])) + Cardinality(AddingOf(pc)) <= L
  BY <1>1, BoundInvIs
<1>6. /\ Cardinality(HoldersOf(cand, id, at[r])) \in Nat /\ L \in Nat
      /\ Cardinality(AddingOf(pc)) \in Nat /\ Cardinality(AddingOf(pc')) \in Nat
  BY Counted
<1>7. Len(pool') + Cardinality(AddingOf(pc')) <= L
  BY <1>1, <1>2, <1>4, <1>5, <1>6
<1>8. \A q \in Requests : pc'[q] # "scan"
  BY <1>1, PoolAssumption DEF IInv, MutexIsOwned
<1> QED BY <1>7, <1>8, BoundInvIs

\* addWorker: one worker more, one call less that adds one.
LEMMA AddWorkerBound ==
  ASSUME IsFiniteSet(Requests), NEW L \in Nat \ {0}, IInv, IInv', BoundInv(L),
         NEW r \in Requests, AddWorker(r)
  PROVE  BoundInv(L)'
<1>1. pc[r] = "spawn" /\ pc' = [pc EXCEPT ![r] = "added"] /\ mutex' = Nobody
  BY DEF AddWorker, Goes
<1>2. PICK w \in Workers : pool' = Append(pool, w)  BY DEF AddWorker, Push
<1>3. pool \in Seq(Workers) /\ pc \in [Requests -> CallPc] /\ Len(pool) \in Nat
  BY PoolLength DEF IInv, TypeOK
<1>4. Len(pool') = Len(pool) + 1  BY <1>2, <1>3
<1>5. AddingOf(pc') = AddingOf(pc) \ {r} /\ r \in AddingOf(pc)
  BY <1>1, <1>3 DEF AddingOf
<1>6. Cardinality(AddingOf(pc')) = Cardinality(AddingOf(pc)) - 1
  BY <1>5, Counted, FS_RemoveElement
<1>7. Cardinality(AddingOf(pc)) \in Nat /\ L \in Nat  BY Counted
<1>8. Len(pool') + Cardinality(AddingOf(pc')) <= L
  BY <1>3, <1>4, <1>6, <1>7, BoundInvIs
<1>9. \A q \in Requests : pc'[q] # "scan"
  BY <1>1, PoolAssumption DEF IInv, MutexIsOwned
<1> QED BY <1>8, <1>9, BoundInvIs

\* Steps that change neither pool nor holders, and bring no call to scan or to add.
LEMMA QuietBound ==
  ASSUME IsFiniteSet(Requests), NEW L \in Nat \ {0}, IInv, IInv', BoundInv(L),
         pool' = pool, cand' = cand, id' = id,
         \A r \in Requests : pc'[r] \in {"scan", "spawn"} => pc'[r] = pc[r],
         \A r \in Requests : pc'[r] = "scan" => at'[r] = at[r]
  PROVE  BoundInv(L)'
<1>1. TypeOK /\ TypeOK' /\ Len(pool) \in Nat  BY PoolLength DEF IInv
<1>2. Len(pool') <= Len(pool)  BY <1>1
<1>3. AddingOf(pc') \subseteq AddingOf(pc)  BY DEF AddingOf
<1> QED BY <1>1, <1>2, <1>3, BoundKept

\* tryOccupy ends the only scan there is.
LEMMA OccupyIdleBound ==
  ASSUME IsFiniteSet(Requests), NEW L \in Nat \ {0}, IInv, IInv', BoundInv(L),
         NEW r \in Requests, OccupyIdle(r)
  PROVE  BoundInv(L)'
<1>1. pc[r] = "scan" /\ pc' = [pc EXCEPT ![r] = "run"] /\ pool' = pool
  BY DEF OccupyIdle, Goes
<1>2. TypeOK /\ TypeOK' /\ Len(pool) \in Nat  BY PoolLength DEF IInv
<1>3. \A q \in Requests : pc'[q] # "scan"
  BY <1>1, <1>2, OneScans DEF TypeOK
<1>4. AddingOf(pc') \subseteq AddingOf(pc)  BY <1>1, <1>2 DEF AddingOf, TypeOK
<1>5. Len(pool') <= Len(pool)  BY <1>1, <1>2
<1> QED BY <1>2, <1>3, <1>4, <1>5, BoundKept

\* setIdle(true): one holder less.
LEMMA ReleaseBound ==
  ASSUME IsFiniteSet(Requests), NEW L \in Nat \ {0}, IInv, IInv', BoundInv(L),
         NEW r \in Requests, Release(r)
  PROVE  BoundInv(L)'
<1>1. /\ pc' = [pc EXCEPT ![r] = "ready"] /\ cand' = [cand EXCEPT ![r] = Nobody]
      /\ pool' = pool /\ id' = id /\ at' = at
  BY DEF Release, Goes
<1>2. TypeOK /\ TypeOK' /\ Len(pool) \in Nat  BY PoolLength DEF IInv
<1>3. AddingOf(pc') \subseteq AddingOf(pc)  BY <1>1, <1>2 DEF AddingOf, TypeOK
<1>4. ASSUME NEW q \in Requests, pc'[q] = "scan"
      PROVE  /\ pc[q] = "scan" /\ at'[q] = at[q]
             /\ HoldersOf(cand', id', at[q]) \subseteq HoldersOf(cand, id, at[q])
  BY <1>1, <1>2, <1>4 DEF HoldersOf, TypeOK
<1>5. Len(pool') <= Len(pool)  BY <1>1, <1>2
<1> QED BY <1>2, <1>3, <1>4, <1>5, BoundKept

\* The daemon pops a worker, and later forgets its id; no call holds it.
LEMMA CleanerPopBound ==
  ASSUME IsFiniteSet(Requests), NEW L \in Nat \ {0}, IInv, IInv', BoundInv(L),
         CleanerPop
  PROVE  BoundInv(L)'
<1>1. pool \in Seq(Workers) /\ pool # <<>>  BY DEF IInv, TypeOK, PtrOfDaemon, CleanerPop
<1>2. Len(pool') = Len(pool) - 1 /\ Len(pool) \in Nat
  BY <1>1, PopFacts, LenProperties DEF CleanerPop, Pop
<1>3. UNCHANGED <<pc, at, cand, id>>  BY DEF CleanerPop, callVars, unitVars
<1>4. TypeOK /\ TypeOK' /\ Len(pool') <= Len(pool)  BY <1>2 DEF IInv
<1> QED BY <1>3, <1>4, BoundKept

LEMMA CleanerDeleteBound ==
  ASSUME IsFiniteSet(Requests), NEW L \in Nat \ {0}, IInv, IInv', BoundInv(L),
         CleanerDelete
  PROVE  BoundInv(L)'
<1>1. /\ UNCHANGED <<pool, pc, at, cand>> /\ id' = [id EXCEPT ![ptr] = 0]
      /\ ptr \notin InPool
  BY DEF CleanerDelete, callVars, IInv, PtrOfDaemon
<1>2. \A q \in Requests : cand[q] # Nobody => cand[q] # ptr
  BY <1>1 DEF IInv, HeldWorkerInPool
<1>3. TypeOK /\ TypeOK' /\ Len(pool') <= Len(pool)  BY <1>1, PoolLength DEF IInv
<1>4. \A n : HoldersOf(cand', id', n) = HoldersOf(cand, id, n)
  BY <1>1, <1>2, <1>3 DEF HoldersOf, TypeOK
<1> QED BY <1>1, <1>3, <1>4, BoundKept

\* Every step keeps the bound.
LEMMA NextBound ==
  ASSUME IsFiniteSet(Requests), NEW L \in Nat \ {0}, Cardinality(Active) <= L,
         IInv, IInv', BoundInv(L), [Next]_vars
  PROVE  BoundInv(L)'
<1> USE DEF callVars, unitVars
<1>1. CASE UNCHANGED vars  BY <1>1, QuietBound DEF vars
<1>2. CASE InitHandler
  <2>1. CASE InitPush  BY <2>1, InitPushBound
  <2>2. CASE InitStart \/ InitFails \/ InitOk
    BY <2>2, QuietBound DEF InitStart, InitFails, InitOk
  <2> QED BY <1>2, <2>1, <2>2 DEF InitHandler
<1>3. ASSUME NEW r \in Requests, Send(r) \/ Client(r) \/ RunHandler(r)
      PROVE  BoundInv(L)'
  <2> USE DEF Goes, OnlyCalls
  <2>0. pc \in [Requests -> CallPc] /\ at \in [Requests -> Nat \ {0}]  BY DEF IInv, TypeOK
  <2>1. CASE Send(r) \/ AddLimits(r) \/ LimitsFail(r)
    BY <2>0, <2>1, QuietBound DEF Send, AddLimits, LimitsFail
  <2>2. CASE SpawnFails(r) \/ SetRun(r) \/ SecondPass(r)
    BY <2>0, <2>2, QuietBound DEF SpawnFails, SetRun, SecondPass
  <2>3. CASE SecondPassFinds(r)
    <3>1. pool[at[r]] = cand[r]
      BY <2>3, EchoNamesItsWorker DEF SecondPassFindsOwnWorker, SecondPassFinds
    <3>2. cand' = cand  BY <2>3, <3>1 DEF SecondPassFinds, IInv, TypeOK
    <3> QED BY <2>0, <2>3, <3>2, QuietBound DEF SecondPassFinds
  <2>4. CASE SecondPassAborts(r) \/ Finish(r) \/ RunFails(r)
    BY <2>0, <2>4, QuietBound DEF SecondPassAborts, Abort, Finish, RunFails
  <2>5. CASE LockPool(r)  BY <2>5, LockPoolBound
  <2>6. CASE OccupyIdle(r)  BY <2>6, OccupyIdleBound
  <2>7. CASE SkipBusy(r)  BY <2>7, SkipBusyBound
  <2>8. CASE EndScan(r)  BY <2>8, EndScanBound
  <2>9. CASE AddWorker(r)  BY <2>9, AddWorkerBound
  <2>10. CASE Release(r)  BY <2>10, ReleaseBound
  <2> QED
    BY <1>3, <2>1, <2>2, <2>3, <2>4, <2>5, <2>6, <2>7, <2>8, <2>9, <2>10 DEF Client, RunHandler
<1>4. CASE DaemonCleaner
  <2>1. CASE CleanerPop  BY <2>1, CleanerPopBound
  <2>2. CASE CleanerDelete  BY <2>2, CleanerDeleteBound
  <2>3. CASE CleanerIdle \/ CleanerWake \/ CleanerRacesInit
    BY <2>3, QuietBound DEF CleanerIdle, CleanerWake, CleanerRacesInit, Abort, vars
  <2>4. CASE CleanerOccupy \/ CleanerBusy \/ CleanerKeep
    BY <2>4, QuietBound DEF CleanerOccupy, CleanerBusy, CleanerKeep
  <2> QED BY <1>4, <2>1, <2>2, <2>3, <2>4 DEF DaemonCleaner
<1>5. ASSUME NEW w \in Workers, Expire(w) PROVE BoundInv(L)'
  BY <1>5, QuietBound DEF Expire
<1> QED BY <1>1, <1>2, <1>3, <1>4, <1>5 DEF Next, Running

\* No call is made yet and the pool is empty.
LEMMA InitBound == ASSUME IsFiniteSet(Requests), NEW L \in Nat \ {0}, Init PROVE BoundInv(L)
<1>1. AddingOf(pc) = {} /\ (\A r \in Requests : pc[r] = "ready") /\ Len(pool) = 0
  BY DEF Init, AddingOf
<1>2. Cardinality(AddingOf(pc)) = 0 /\ L \in Nat  BY <1>1, FS_EmptySet, Counted
<1> QED BY <1>1, <1>2, BoundInvIs

LEMMA BoundSuffices ==
  ASSUME IsFiniteSet(Requests), NEW L \in Nat \ {0}, IInv, BoundInv(L) PROVE Len(pool) <= L
<1>1. Len(pool) \in Nat  BY PoolLength DEF IInv
<1>2. Cardinality(AddingOf(pc)) \in Nat  BY Counted
<1>3. Len(pool) + Cardinality(AddingOf(pc)) <= L  BY BoundInvIs
<1> QED BY <1>1, <1>2, <1>3

\* dispatch_request has no limit of its own: the pool is as large as its callers make it.
\* If at most L calls are under way at once, however many come one after the other, there
\* are never more than L workers.  The scheduler is such a caller, with parrelWorker for
\* L (TasksWithinLimit of FunctionUnit).
THEOREM PoolWithinCallers ==
  ASSUME IsFiniteSet(Requests), NEW L \in Nat \ {0}
  PROVE  Spec /\ [](Cardinality(Active) <= L) => [](Len(pool) <= L)
<1>1. Init => BoundInv(L)  BY InitBound
<1>2. IInv /\ IInv' /\ Cardinality(Active) <= L /\ BoundInv(L) /\ [Next]_vars => BoundInv(L)'
  BY NextBound
<1>3. IInv /\ BoundInv(L) => Len(pool) <= L  BY BoundSuffices
<1> QED BY <1>1, <1>2, <1>3, Invariance, PTL DEF Spec

\* dispatch_request never makes more workers than there are concurrent callers, those
\* whose calls failed and left their worker occupied counted in.
THEOREM PoolBoundedHolds ==
  ASSUME IsFiniteSet(Requests), Requests # {} PROVE Spec => []PoolBounded
<1> DEFINE N == Cardinality(Requests)
<1>1. N \in Nat \ {0}  BY FS_CardinalityType, FS_EmptySet
<1>2. Cardinality(Active) <= N  BY FS_Subset DEF Active
<1> HIDE DEF N
<1>3. Init => BoundInv(N)  BY <1>1, InitBound
<1>4. IInv /\ IInv' /\ BoundInv(N) /\ [Next]_vars => BoundInv(N)'
  BY <1>1, <1>2, NextBound
<1>5. IInv /\ BoundInv(N) => PoolBounded
  BY <1>1, BoundSuffices DEF PoolBounded, N
<1> QED BY <1>3, <1>4, <1>5, Invariance, PTL DEF Spec
=============================================================================
