------------------------- MODULE FunctionUnitProofs -------------------------
(***************************************************************************)
(* Proofs about FunctionUnit for any number of requests, containers, tasks *)
(* and ports: the invariant IInv is inductive, the safety properties the   *)
(* runs check follow from it, and the unit implements TaskSlots.           *)
(***************************************************************************)
EXTENDS FunctionUnit, SequenceTheorems, FiniteSetTheorems, TLAPS

\* list.insert at the end of a list appends.
LEMMA InsertAtEnd ==
  ASSUME NEW S, NEW s \in Seq(S), NEW e, NEW n \in Nat, Len(s) = n
  PROVE  InsertAt(s, n + 1, e) = Append(s, e)
<1>1. SubSeq(s, 1, (n + 1) - 1) = s  OBVIOUS
<1>2. SubSeq(s, n + 1, Len(s)) = <<>>  OBVIOUS
<1>3. s \o <<e>> = Append(s, e)  OBVIOUS
<1>4. (s \o <<e>>) \o <<>> = s \o <<e>>  OBVIOUS
<1> QED BY <1>1, <1>2, <1>3, <1>4 DEF InsertAt

\* portMan.get() takes the first port, and the others move up by one.
LEMMA HeadTail ==
  ASSUME NEW S, NEW s \in Seq(S), s # <<>>
  PROVE  /\ Head(s) \in S /\ Head(s) = s[1]
         /\ Tail(s) \in Seq(S)
         /\ Len(s) \in Nat \ {0}
         /\ Len(Tail(s)) = Len(s) - 1
         /\ \A i \in 1..Len(Tail(s)) : Tail(s)[i] = s[i + 1]
<1>1. Len(s) \in Nat \ {0}  BY EmptySeq
<1> QED BY <1>1

\* The only element of a sequence.
LEMMA FirstOf == ASSUME NEW S, NEW w \in Seq(S), Len(w) = 1 PROVE w[1] \in S
OBVIOUS

\* A container has finitely many tasks.
LEMMA TasksFinite == \A i : IsFiniteSet(TasksOf(i))
<1> SUFFICES ASSUME NEW i PROVE IsFiniteSet(TasksOf(i))  OBVIOUS
<1>1. TasksOf(i) \subseteq Requests  BY DEF TasksOf
<1> QED BY <1>1, UnitAssumption, FS_Subset

\* A new unit has no container and no request.
LEMMA InitIInv == Init => IInv
<1> SUFFICES ASSUME Init PROVE IInv  OBVIOUS
<1> USE UnitAssumption DEF Init
<1>1. PortList \in Seq(Port)
  <2>1. Len(PortList) \in Nat /\ DOMAIN PortList = 1..Len(PortList)  OBVIOUS
  <2>2. \A i \in 1..Len(PortList) : PortList[i] \in Port  BY <2>1 DEF Port, ToSet
  <2> QED BY <2>1, <2>2
<1>2. TypeOK
  <2>1. \A S : <<>> \in Seq(S) /\ Len(<<>>) = 0  BY EmptySeq
  <2>2. /\ port_resource \in Seq(Port) /\ workers \in Seq(Port)
        /\ maxTaskLimits \in Seq({ParrelWorker}) /\ Len(maxTaskLimits) = 0
        /\ nowTasks \in Seq(Nat) /\ Len(nowTasks) = 0
    BY <1>1, <2>1
  <2>3. /\ scaleFlag \in BOOLEAN /\ mainPort \in Port \cup {NoPort}
        /\ mainOf \in [Port -> Port \cup {NoPort}]
        /\ initialized \in SUBSET Port /\ refused \in SUBSET Port
        /\ running \in SUBSET Port /\ unit = "off"
        /\ pc \in [Requests -> Pc] /\ new \in [Requests -> Port \cup {NoPort}]
    BY DEF Pc
  <2>4. /\ workerCount = 0 /\ workerCount \in 0..MaxWorker
        /\ cand \in [Requests -> 0..workerCount] /\ at \in [Requests -> 0..MaxWorker]
    OBVIOUS
  <2> QED BY ONLY <2>2, <2>3, <2>4 DEF TypeOK
<1>3. UnitShape  BY DEF UnitShape
<1>4. PortsFresh
  <2>1. \A i, j \in 1..Len(PortList) : PortList[i] = PortList[j] => i = j
    BY DEF IsInjective
  <2> QED BY <2>1 DEF PortsFresh
<1>5. \A r \in Requests : ~Scaling(r)  BY DEF Scaling
<1>6. ScaleShape  BY <1>5 DEF ScaleShape
<1>7. ExecutedOnce /\ FlagHasScaler  BY <1>5 DEF ExecutedOnce, FlagHasScaler
<1>8. MainIsFirst /\ ToldFirst  BY DEF MainIsFirst, ToldFirst
<1>9. CountedHasAnswered /\ CandOfCall /\ TasksCounted /\ TasksWithinLimit
  BY DEF CountedHasAnswered, Answered, CandOfCall, TasksCounted, TasksWithinLimit
<1> QED BY <1>2, <1>3, <1>4, <1>6, <1>7, <1>8, <1>9 DEF IInv

\* One lemma per action: a step of the action keeps the invariant.
\* The first container enters an empty unit.
LEMMA UnitCreatesInv == ASSUME IInv, UnitCreates PROVE IInv'
<1> USE UnitAssumption DEF IInv, TypeOK, UnitCreates, UnitGoes, lists, containers, proxies, Pc
<1>a. /\ Head(port_resource) \in Port /\ Head(port_resource) = port_resource[1]
      /\ Tail(port_resource) \in Seq(Port)
      /\ Len(Tail(port_resource)) = Len(port_resource) - 1
      /\ \A i \in 1..Len(Tail(port_resource)) : Tail(port_resource)[i] = port_resource[i + 1]
  BY HeadTail
<1>b. workers = <<>> /\ workerCount = 0 /\ \A r \in Requests : pc[r] = "new"
  BY DEF UnitShape
<1>1. TypeOK'  BY <1>a
<1>2. UnitShape'  BY <1>a, <1>b DEF UnitShape, Answered
<1>3. PortsFresh'  BY <1>a, <1>b DEF PortsFresh
<1>4. ScaleShape'  BY <1>b DEF ScaleShape, Scaling, MainFor
<1>5. ExecutedOnce'  BY <1>b DEF ExecutedOnce, Scaling
<1>6. FlagHasScaler'  BY DEF FlagHasScaler, Scaling
<1>7. MainIsFirst'  BY <1>b DEF MainIsFirst
<1>8. ToldFirst'  BY <1>a, <1>b DEF ToldFirst
<1>9. CountedHasAnswered'  BY <1>b DEF CountedHasAnswered, Answered
<1>10. CandOfCall'  BY DEF CandOfCall
<1>11. TasksCounted'
  <2>1. \A i \in 1..workerCount : TasksOf(i)' = TasksOf(i)  BY DEF TasksOf
  <2> QED BY <2>1 DEF TasksCounted
<1>12. TasksWithinLimit'  BY DEF TasksWithinLimit
<1> QED
  BY <1>1, <1>2, <1>3, <1>4, <1>5, <1>6, <1>7, <1>8, <1>9, <1>10, <1>11, <1>12

\* The first container answers /init.
LEMMA UnitInitsInv == ASSUME IInv, UnitInits PROVE IInv'
<1> USE UnitAssumption DEF IInv, TypeOK, UnitInits, UnitGoes, InitPosted, lists, containers,
    proxies, Pc
<1>a. workers[1] \in Port
  <2>1. workers \in Seq(Port) /\ Len(workers) = 1  BY DEF UnitShape
  <2> QED BY ONLY <2>1, FirstOf
<1>1. TypeOK'  BY <1>a
<1>2. UnitShape'  BY DEF UnitShape, Answered
<1>3. PortsFresh'  BY DEF PortsFresh
<1>4. ScaleShape'  BY DEF ScaleShape, Scaling, MainFor
<1>5. ExecutedOnce'  BY DEF ExecutedOnce, Scaling
<1>6. FlagHasScaler'  BY DEF FlagHasScaler, Scaling
<1>7. MainIsFirst'  BY DEF MainIsFirst, UnitShape
<1>8. ToldFirst'  BY DEF ToldFirst
<1>9. CountedHasAnswered'  BY DEF CountedHasAnswered, Answered
<1>10. CandOfCall'  BY DEF CandOfCall
<1>11. TasksCounted'
  <2>1. \A i \in 1..workerCount : TasksOf(i)' = TasksOf(i)  BY DEF TasksOf
  <2> QED BY <2>1 DEF TasksCounted
<1>12. TasksWithinLimit'  BY DEF TasksWithinLimit
<1> QED
  BY <1>1, <1>2, <1>3, <1>4, <1>5, <1>6, <1>7, <1>8, <1>9, <1>10, <1>11, <1>12

\* The unit comes up with one container and no task.
LEMMA UnitComesUpInv == ASSUME IInv, UnitComesUp PROVE IInv'
<1> USE UnitAssumption DEF IInv, TypeOK, UnitComesUp, UnitGoes, lists, containers,
    proxies, Pc
<1>a. /\ Len(workers) = 1 /\ workerCount = 0 /\ workers[1] \in Answered /\ ~scaleFlag
      /\ \A r \in Requests : pc[r] = "new" /\ cand[r] = 0
  BY DEF UnitShape, CandOfCall
<1>b. maxTaskLimits = <<>> /\ nowTasks = <<>>  BY <1>a
<1>1. TypeOK'  BY <1>a, <1>b
<1>2. UnitShape'  BY <1>a DEF UnitShape, Answered
<1>3. PortsFresh'  BY DEF PortsFresh
<1>4. ScaleShape'  BY <1>a DEF ScaleShape, Scaling, MainFor
<1>5. ExecutedOnce'  BY <1>a DEF ExecutedOnce, Scaling
<1>6. FlagHasScaler'  BY <1>a DEF FlagHasScaler, Scaling
<1>7. MainIsFirst'  BY <1>a DEF MainIsFirst
<1>8. ToldFirst'  BY DEF ToldFirst
<1>9. CountedHasAnswered'  BY <1>a DEF CountedHasAnswered, Answered
<1>10. CandOfCall'  BY DEF CandOfCall
<1>11. TasksCounted'
  <2>1. TasksOf(1)' = {}  BY <1>a DEF TasksOf
  <2>2. workerCount' = 1 /\ nowTasks'[1] = 0  BY <1>b
  <2>3. \A i \in 1..1 : i = 1  OBVIOUS
  <2>4. Cardinality({}) = 0  BY FS_EmptySet
  <2> QED BY ONLY <2>1, <2>2, <2>3, <2>4 DEF TasksCounted
<1>12. TasksWithinLimit'
  <2>1. workerCount' = 1 /\ nowTasks'[1] = 0 /\ maxTaskLimits'[1] = ParrelWorker
    BY <1>b
  <2>2. \A i \in 1..1 : i = 1  OBVIOUS
  <2> QED BY <2>1, <2>2 DEF TasksWithinLimit
<1> QED
  BY <1>1, <1>2, <1>3, <1>4, <1>5, <1>6, <1>7, <1>8, <1>9, <1>10, <1>11, <1>12

\* A unit that fails to come up takes no request.
LEMMA UnitFailsInv == ASSUME IInv, UnitFails PROVE IInv'
<1> USE UnitAssumption DEF IInv, TypeOK, UnitFails, UnitGoes, InitPosted, lists, containers,
    proxies, Pc
<1>a. unit = "created" => workers[1] \in Port
  <2>1. unit = "created" => workers \in Seq(Port) /\ Len(workers) = 1  BY DEF UnitShape
  <2> QED BY ONLY <2>1, FirstOf
<1>1. TypeOK'  BY <1>a
<1>2. UnitShape'  BY DEF UnitShape, Answered
<1>3. PortsFresh'  BY DEF PortsFresh
<1>4. ScaleShape'  BY DEF ScaleShape, Scaling, MainFor
<1>5. ExecutedOnce'  BY DEF ExecutedOnce, Scaling
<1>6. FlagHasScaler'  BY DEF FlagHasScaler, Scaling
<1>7. MainIsFirst'  BY DEF MainIsFirst
<1>8. ToldFirst'  BY DEF ToldFirst
<1>9. CountedHasAnswered'  BY DEF CountedHasAnswered, Answered
<1>10. CandOfCall'  BY DEF CandOfCall
<1>11. TasksCounted'
  <2>1. \A i \in 1..workerCount : TasksOf(i)' = TasksOf(i)  BY DEF TasksOf
  <2> QED BY <2>1 DEF TasksCounted
<1>12. TasksWithinLimit'  BY DEF TasksWithinLimit
<1> QED
  BY <1>1, <1>2, <1>3, <1>4, <1>5, <1>6, <1>7, <1>8, <1>9, <1>10, <1>11, <1>12

\* A request is called.
LEMMA CallInv == ASSUME IInv, NEW r \in Requests, Call(r) PROVE IInv'
<1> USE UnitAssumption DEF IInv, TypeOK, Call, Goes, lists, containers, proxies, Pc
<1>1. TypeOK'  OBVIOUS
<1>2. UnitShape'  BY DEF UnitShape, Answered
<1>3. PortsFresh'  BY DEF PortsFresh
<1>4. ScaleShape'  BY DEF ScaleShape, Scaling, MainFor
<1>5. ExecutedOnce'  BY DEF ExecutedOnce, Scaling
<1>6. FlagHasScaler'  BY DEF FlagHasScaler, Scaling
<1>7. MainIsFirst'  BY DEF MainIsFirst
<1>8. ToldFirst'  BY DEF ToldFirst
<1>9. CountedHasAnswered'  BY DEF CountedHasAnswered, Answered
<1>10. CandOfCall'  BY DEF CandOfCall
<1>11. TasksCounted'
  <2>1. \A i \in 1..workerCount : TasksOf(i)' = TasksOf(i)  BY DEF TasksOf
  <2> QED BY <2>1 DEF TasksCounted
<1>12. TasksWithinLimit'  BY DEF TasksWithinLimit
<1> QED
  BY <1>1, <1>2, <1>3, <1>4, <1>5, <1>6, <1>7, <1>8, <1>9, <1>10, <1>11, <1>12

\* A container with room gets one task more, and counts it.
LEMMA AssignInv == ASSUME IInv, NEW r \in Requests, Assign(r) PROVE IInv'
<1> USE UnitAssumption DEF IInv, TypeOK, Assign, Goes, HasRoom, lists, containers,
    proxies, Pc
<1>1. TypeOK'  OBVIOUS
<1>2. UnitShape'  BY DEF UnitShape, Answered
<1>3. PortsFresh'  BY DEF PortsFresh
<1>4. ScaleShape'  BY DEF ScaleShape, Scaling, MainFor
<1>5. ExecutedOnce'  BY DEF ExecutedOnce, Scaling
<1>6. FlagHasScaler'  BY DEF FlagHasScaler, Scaling
<1>7. MainIsFirst'  BY DEF MainIsFirst
<1>8. ToldFirst'  BY DEF ToldFirst
<1>9. CountedHasAnswered'  BY DEF CountedHasAnswered, Answered
<1>10. CandOfCall'  BY DEF CandOfCall
<1>11. TasksCounted'
  <2>1. cand[r] = 0  BY DEF CandOfCall
  <2>2. PICK i \in 1..workerCount :
          /\ nowTasks' = [nowTasks EXCEPT ![i] = @ + 1]
          /\ cand' = [cand EXCEPT ![r] = i]
    OBVIOUS
  <2>3. TasksOf(i)' = TasksOf(i) \cup {r} /\ r \notin TasksOf(i)
    BY <2>1, <2>2 DEF TasksOf
  <2>4. Cardinality(TasksOf(i) \cup {r}) = Cardinality(TasksOf(i)) + 1
    BY <2>3, TasksFinite, FS_AddElement
  <2>5. \A j \in 1..workerCount : j # i => TasksOf(j)' = TasksOf(j)
    BY <2>1, <2>2 DEF TasksOf
  <2>6. /\ nowTasks'[i] = nowTasks[i] + 1
        /\ \A j \in 1..workerCount : j # i => nowTasks'[j] = nowTasks[j]
        /\ workerCount' = workerCount
    BY <2>2
  <2>7. \A j \in 1..workerCount : nowTasks[j] = Cardinality(TasksOf(j))
    BY DEF TasksCounted
  <2> QED BY ONLY <2>3, <2>4, <2>5, <2>6, <2>7 DEF TasksCounted
<1>12. TasksWithinLimit'
  <2>1. PICK i \in 1..workerCount :
          /\ nowTasks[i] < maxTaskLimits[i]
          /\ nowTasks' = [nowTasks EXCEPT ![i] = @ + 1]
          /\ UNCHANGED <<workerCount, maxTaskLimits>>
    OBVIOUS
  <2>2. nowTasks[i] \in Nat /\ maxTaskLimits[i] \in Nat
    <3>1. nowTasks \in Seq(Nat) /\ Len(nowTasks) = workerCount  OBVIOUS
    <3>2. maxTaskLimits \in Seq({ParrelWorker}) /\ Len(maxTaskLimits) = workerCount
      OBVIOUS
    <3> QED BY ONLY <3>1, <3>2, UnitAssumption
  <2>3. /\ nowTasks'[i] = nowTasks[i] + 1
        /\ \A j \in 1..workerCount : j # i => nowTasks'[j] = nowTasks[j]
    <3>1. nowTasks \in Seq(Nat) /\ Len(nowTasks) = workerCount  OBVIOUS
    <3> QED BY ONLY <2>1, <3>1
  <2>4. \A j \in 1..workerCount : nowTasks[j] <= maxTaskLimits[j]
    BY DEF TasksWithinLimit
  <2> QED BY ONLY <2>1, <2>2, <2>3, <2>4 DEF TasksWithinLimit
<1> QED
  BY <1>1, <1>2, <1>3, <1>4, <1>5, <1>6, <1>7, <1>8, <1>9, <1>10, <1>11, <1>12

\* A request that finds no room sleeps.
LEMMA SleepInv == ASSUME IInv, NEW r \in Requests, Sleep(r) PROVE IInv'
<1> USE UnitAssumption DEF IInv, TypeOK, Sleep, Goes, lists, containers, proxies, Pc
<1>1. TypeOK'  OBVIOUS
<1>2. UnitShape'  BY DEF UnitShape, Answered
<1>3. PortsFresh'  BY DEF PortsFresh
<1>4. ScaleShape'  BY DEF ScaleShape, Scaling, MainFor
<1>5. ExecutedOnce'  BY DEF ExecutedOnce, Scaling
<1>6. FlagHasScaler'  BY DEF FlagHasScaler, Scaling
<1>7. MainIsFirst'  BY DEF MainIsFirst
<1>8. ToldFirst'  BY DEF ToldFirst
<1>9. CountedHasAnswered'  BY DEF CountedHasAnswered, Answered
<1>10. CandOfCall'  BY DEF CandOfCall
<1>11. TasksCounted'
  <2>1. \A i \in 1..workerCount : TasksOf(i)' = TasksOf(i)  BY DEF TasksOf
  <2> QED BY <2>1 DEF TasksCounted
<1>12. TasksWithinLimit'  BY DEF TasksWithinLimit
<1> QED
  BY <1>1, <1>2, <1>3, <1>4, <1>5, <1>6, <1>7, <1>8, <1>9, <1>10, <1>11, <1>12

\* And wakes up.
LEMMA WakeInv == ASSUME IInv, NEW r \in Requests, Wake(r) PROVE IInv'
<1> USE UnitAssumption DEF IInv, TypeOK, Wake, Goes, lists, containers, proxies, Pc
<1>1. TypeOK'  OBVIOUS
<1>2. UnitShape'  BY DEF UnitShape, Answered
<1>3. PortsFresh'  BY DEF PortsFresh
<1>4. ScaleShape'  BY DEF ScaleShape, Scaling, MainFor
<1>5. ExecutedOnce'  BY DEF ExecutedOnce, Scaling
<1>6. FlagHasScaler'  BY DEF FlagHasScaler, Scaling
<1>7. MainIsFirst'  BY DEF MainIsFirst
<1>8. ToldFirst'  BY DEF ToldFirst
<1>9. CountedHasAnswered'  BY DEF CountedHasAnswered, Answered
<1>10. CandOfCall'  BY DEF CandOfCall
<1>11. TasksCounted'
  <2>1. \A i \in 1..workerCount : TasksOf(i)' = TasksOf(i)  BY DEF TasksOf
  <2> QED BY <2>1 DEF TasksCounted
<1>12. TasksWithinLimit'  BY DEF TasksWithinLimit
<1> QED
  BY <1>1, <1>2, <1>3, <1>4, <1>5, <1>6, <1>7, <1>8, <1>9, <1>10, <1>11, <1>12

\* With the flag free nobody else is adding a container, and the port is new.
LEMMA StartCreateInv == ASSUME IInv, NEW r \in Requests, StartCreate(r) PROVE IInv'
<1> USE UnitAssumption DEF IInv, TypeOK, StartCreate, Goes, FlagTaken, MayGrow,
      lists, containers, proxies, Pc
<1>a. /\ Head(port_resource) \in Port /\ Head(port_resource) = port_resource[1]
      /\ Tail(port_resource) \in Seq(Port)
      /\ Len(port_resource) \in Nat \ {0}
      /\ Len(Tail(port_resource)) = Len(port_resource) - 1
      /\ \A i \in 1..Len(Tail(port_resource)) : Tail(port_resource)[i] = port_resource[i + 1]
  BY HeadTail
<1>b. unit = "up" /\ Len(workers) = workerCount /\ \A s \in Requests : ~Scaling(s)
  BY DEF UnitShape, ScaleShape
<1>c. MainFor(Head(port_resource)) \in Port \cup {NoPort}  BY <1>a DEF MainFor
<1>1. TypeOK'  BY <1>a, <1>c
<1>2. UnitShape'  BY <1>b DEF UnitShape, Answered
<1>3. PortsFresh'  BY <1>a, <1>b DEF PortsFresh, Scaling
<1>4. ScaleShape'  BY <1>a, <1>b, <1>c DEF ScaleShape, Scaling, MainFor
<1>5. ExecutedOnce'  BY <1>b DEF ExecutedOnce, Scaling
<1>6. FlagHasScaler'  BY DEF FlagHasScaler, Scaling
<1>7. MainIsFirst'  BY DEF MainIsFirst
<1>8. ToldFirst'  BY <1>a, <1>b DEF ToldFirst, PortsFresh
<1>9. CountedHasAnswered'  BY DEF CountedHasAnswered, Answered
<1>10. CandOfCall'  BY DEF CandOfCall
<1>11. TasksCounted'
  <2>1. \A i \in 1..workerCount : TasksOf(i)' = TasksOf(i)  BY DEF TasksOf
  <2> QED BY <2>1 DEF TasksCounted
<1>12. TasksWithinLimit'  BY DEF TasksWithinLimit
<1> QED
  BY <1>1, <1>2, <1>3, <1>4, <1>5, <1>6, <1>7, <1>8, <1>9, <1>10, <1>11, <1>12

\* Without a port the flag is left behind.
LEMMA NoIdlePortInv == ASSUME IInv, NEW r \in Requests, NoIdlePort(r) PROVE IInv'
<1> USE UnitAssumption DEF IInv, TypeOK, NoIdlePort, Goes, FlagTaken,
      lists, containers, proxies, Pc
<1>1. TypeOK'  OBVIOUS
<1>2. UnitShape'  BY DEF UnitShape, Answered
<1>3. PortsFresh'  BY DEF PortsFresh
<1>4. ScaleShape'  BY DEF ScaleShape, Scaling, MainFor
<1>5. ExecutedOnce'  BY DEF ExecutedOnce, Scaling
<1>6. FlagHasScaler'  BY DEF FlagHasScaler, Scaling
<1>7. MainIsFirst'  BY DEF MainIsFirst
<1>8. ToldFirst'  BY DEF ToldFirst
<1>9. CountedHasAnswered'  BY DEF CountedHasAnswered, Answered
<1>10. CandOfCall'  BY DEF CandOfCall
<1>11. TasksCounted'
  <2>1. \A i \in 1..workerCount : TasksOf(i)' = TasksOf(i)  BY DEF TasksOf
  <2> QED BY <2>1 DEF TasksCounted
<1>12. TasksWithinLimit'  BY DEF TasksWithinLimit
<1> QED
  BY <1>1, <1>2, <1>3, <1>4, <1>5, <1>6, <1>7, <1>8, <1>9, <1>10, <1>11, <1>12

\* The new container goes behind the others, as no other has been added or removed.
LEMMA EndCreateInv == ASSUME IInv, NEW r \in Requests, EndCreate(r) PROVE IInv'
<1> USE UnitAssumption DEF IInv, TypeOK, EndCreate, Goes, lists, containers, proxies, Pc
<1>a. /\ at[r] = workerCount /\ Len(workers) = workerCount /\ new[r] \in Port
      /\ workerCount < MaxWorker /\ mainOf[new[r]] = MainFor(new[r]) /\ scaleFlag
      /\ \A s \in Requests : Scaling(s) => s = r
  BY DEF ExecutedOnce, ScaleShape, Scaling
<1>b. /\ workers' \in Seq(Port) /\ Len(workers') = workerCount + 1
      /\ \A i \in 1..workerCount : workers'[i] = workers[i]
      /\ workers'[workerCount + 1] = new[r]
  <2>1. workers' = InsertAt(workers, workerCount + 1, new[r])  BY <1>a
  <2>2. /\ workers \in Seq(Port) /\ Len(workers) = workerCount /\ workerCount \in Nat
        /\ new[r] \in Port
    BY <1>a
  <2>3. workers' = Append(workers, new[r])  BY ONLY <2>1, <2>2, InsertAtEnd
  <2> QED BY ONLY <2>2, <2>3
<1>c. unit = "up"  BY DEF UnitShape
<1> HIDE DEF EndCreate
<1>d. /\ pc[r] = "create" /\ pc' = [pc EXCEPT ![r] = IF workerCount = 0 THEN "mainip" ELSE "init"]
      /\ UNCHANGED <<port_resource, mainOf, proxies, lists, mainPort, scaleFlag,
                     cand, at, new, unit>>
      /\ running' = running \cup {new[r]}
  BY DEF EndCreate
<1>1. TypeOK'  BY <1>b, <1>c, <1>d
<1>2. UnitShape'  BY <1>c, <1>d DEF UnitShape, Answered
<1>3. PortsFresh'
  <2>1. \A j \in 1..Len(workers') : j \in 1..Len(workers) \/ workers'[j] = new[r]
    BY <1>a, <1>b
  <2> QED BY <1>a, <1>b, <1>d, <2>1 DEF PortsFresh
<1>4. ScaleShape'  BY <1>a, <1>b, <1>d DEF ScaleShape, Scaling, MainFor
<1>5. ExecutedOnce'  BY <1>a, <1>d DEF ExecutedOnce, Scaling
<1>6. FlagHasScaler'  BY <1>d DEF FlagHasScaler, Scaling
<1>7. MainIsFirst'  BY <1>a, <1>b, <1>d DEF MainIsFirst, Scaling
<1>8. ToldFirst'  BY <1>a, <1>b, <1>d DEF ToldFirst, MainIsFirst, MainFor
<1>9. CountedHasAnswered'  BY <1>b, <1>d DEF CountedHasAnswered, Answered
<1>10. CandOfCall'  BY <1>d DEF CandOfCall
<1>11. TasksCounted'
  <2>1. \A i \in 1..workerCount : TasksOf(i)' = TasksOf(i)  BY <1>d DEF TasksOf
  <2> QED BY <1>d, <2>1 DEF TasksCounted
<1>12. TasksWithinLimit'  BY <1>d DEF TasksWithinLimit
<1> QED
  BY <1>1, <1>2, <1>3, <1>4, <1>5, <1>6, <1>7, <1>8, <1>9, <1>10, <1>11, <1>12

\* The port of an only container becomes mainPort.
LEMMA SetMainInv == ASSUME IInv, NEW r \in Requests, SetMain(r) PROVE IInv'
<1> USE UnitAssumption DEF IInv, TypeOK, SetMain, Goes, lists, containers, proxies, Pc
<1>p. r \in Requests /\ pc[r] = "mainip" /\ ScaleShape  OBVIOUS
<1>q. Len(workers) = workerCount + 1  BY ONLY <1>p DEF ScaleShape
<1>a. Len(workers) = 1 /\ workerCount = 0
  <2>1. workerCount = 0  BY ONLY <1>p DEF ScaleShape
  <2> QED BY ONLY <1>q, <2>1
<1>b. \A s \in Requests : Scaling(s) => s = r  BY DEF ExecutedOnce, Scaling
<1>c. workers[1] \in Port
  <2>1. workers \in Seq(Port)  OBVIOUS
  <2> QED BY ONLY <1>a, <2>1, FirstOf
<1>1. TypeOK'  BY <1>a, <1>c
<1>2. UnitShape'  BY DEF UnitShape, Answered
<1>3. PortsFresh'  BY DEF PortsFresh
<1>4. ScaleShape'  BY <1>a, <1>b DEF ScaleShape, Scaling, MainFor
<1>5. ExecutedOnce'  BY DEF ExecutedOnce, Scaling
<1>6. FlagHasScaler'  BY DEF FlagHasScaler, Scaling
<1>7. MainIsFirst'  BY <1>a DEF MainIsFirst
<1>8. ToldFirst'  BY DEF ToldFirst
<1>9. CountedHasAnswered'  BY DEF CountedHasAnswered, Answered
<1>10. CandOfCall'  BY DEF CandOfCall
<1>11. TasksCounted'
  <2>1. \A i \in 1..workerCount : TasksOf(i)' = TasksOf(i)  BY DEF TasksOf
  <2> QED BY <2>1 DEF TasksCounted
<1>12. TasksWithinLimit'  BY DEF TasksWithinLimit
<1> QED
  BY <1>1, <1>2, <1>3, <1>4, <1>5, <1>6, <1>7, <1>8, <1>9, <1>10, <1>11, <1>12

\* The new container is counted once it has answered /init, with the task of its greenlet.
LEMMA EndScaleInv == ASSUME IInv, NEW r \in Requests, EndScale(r) PROVE IInv'
<1> USE UnitAssumption DEF IInv, TypeOK, EndScale, Goes, AddContainer, FlagGivenBack,
      InitTarget, FirstTasks,
      lists, containers, proxies, Pc
<1>n. PICK n \in 0..MaxWorker : n = workerCount  OBVIOUS
<1>a. /\ Len(workers) = workerCount + 1 /\ workerCount < MaxWorker /\ scaleFlag
      /\ mainPort = workers[1]
      /\ \A s \in Requests : Scaling(s) => s = r
  BY DEF ScaleShape, ExecutedOnce, MainIsFirst, Scaling
<1>b. cand[r] = 0  BY DEF CandOfCall
<1>c. /\ maxTaskLimits' \in Seq({ParrelWorker}) /\ Len(maxTaskLimits') = n + 1
      /\ nowTasks' \in Seq(Nat) /\ Len(nowTasks') = n + 1
      /\ \A i \in 1..n : nowTasks'[i] = nowTasks[i]
      /\ nowTasks'[n + 1] = 1
  <2>1. /\ maxTaskLimits' = InsertAt(maxTaskLimits, n + 1, ParrelWorker)
        /\ nowTasks' = InsertAt(nowTasks, n + 1, 1)
        /\ workerCount' = n + 1
    BY <1>n
  <2>2. /\ maxTaskLimits \in Seq({ParrelWorker}) /\ Len(maxTaskLimits) = n
        /\ nowTasks \in Seq(Nat) /\ Len(nowTasks) = n /\ n \in Nat
    BY <1>n
  <2>3. /\ maxTaskLimits' = Append(maxTaskLimits, ParrelWorker)
        /\ nowTasks' = Append(nowTasks, 1)
    BY ONLY <2>1, <2>2, InsertAtEnd
  <2> QED BY ONLY <2>2, <2>3
<1>1. TypeOK'
  <2>1. workerCount' = n + 1 /\ workerCount' \in 0..MaxWorker  BY <1>n, <1>a
  <2>2. initialized' \in SUBSET Port /\ refused' \in SUBSET Port
    <3>1. workers[workerCount + 1] \in Port  BY <1>a
    <3> QED BY <3>1 DEF InitPosted
  <2>3. cand' \in [Requests -> 0..workerCount']  BY <1>a
  <2>4. Len(workers') = workerCount'  BY <1>n, <1>a
  <2> QED BY <1>n, <1>c, <2>1, <2>2, <2>3, <2>4
<1>2. UnitShape'  BY DEF UnitShape, Answered, InitPosted
<1>3. PortsFresh'  BY DEF PortsFresh
<1>4. ScaleShape'  BY <1>a DEF ScaleShape, Scaling, MainFor
<1>5. ExecutedOnce'  BY <1>a DEF ExecutedOnce, Scaling
<1>6. FlagHasScaler'  BY DEF FlagHasScaler, Scaling
<1>7. MainIsFirst'  BY <1>a DEF MainIsFirst, Scaling
<1>8. ToldFirst'  BY DEF ToldFirst
<1>9. CountedHasAnswered'  BY <1>a DEF CountedHasAnswered, Answered,
     InitPosted
<1>10. CandOfCall'  BY <1>b DEF CandOfCall
<1>11. TasksCounted'
  <2>1. TasksOf(n + 1)' = {r}  BY <1>n, <1>b DEF TasksOf
  <2>2. \A i \in 1..n : TasksOf(i)' = TasksOf(i)  BY <1>n, <1>b DEF TasksOf
  <2>3. \A i \in 1..n : nowTasks'[i] = Cardinality(TasksOf(i)')
    BY <1>n, <1>c, <2>2 DEF TasksCounted
  <2>4. nowTasks'[n + 1] = Cardinality(TasksOf(n + 1)')  BY <1>c, <2>1, FS_Singleton
  <2>5. workerCount' = n + 1  BY <1>n
  <2>6. \A i \in 1..(n + 1) : i \in 1..n \/ i = n + 1  OBVIOUS
  <2> QED BY <2>3, <2>4, <2>5, <2>6 DEF TasksCounted
<1>12. TasksWithinLimit'
  <2>1. \A i \in 1..(n + 1) : maxTaskLimits'[i] = ParrelWorker
    BY <1>n, <1>c
  <2>2. \A i \in 1..n : nowTasks'[i] <= ParrelWorker
    <3>1. \A i \in 1..n : maxTaskLimits[i] = ParrelWorker  BY <1>n
    <3> QED BY <1>n, <1>c, <3>1 DEF TasksWithinLimit
  <2>3. workerCount' = n + 1 /\ \A i \in 1..(n + 1) : i \in 1..n \/ i = n + 1
    BY <1>n
  <2> QED BY <1>c, <2>1, <2>2, <2>3 DEF TasksWithinLimit
<1> QED
  BY <1>1, <1>2, <1>3, <1>4, <1>5, <1>6, <1>7, <1>8, <1>9, <1>10, <1>11, <1>12

\* The same, when the greenlet then dies: its task and the flag stay.
LEMMA AdaptFailsInv == ASSUME IInv, NEW r \in Requests, AdaptFails(r) PROVE IInv'
<1> USE UnitAssumption DEF IInv, TypeOK, AdaptFails, Goes, AddContainer, InitTarget, FirstTasks,
      lists, containers, proxies, Pc
<1>n. PICK n \in 0..MaxWorker : n = workerCount  OBVIOUS
<1>a. /\ Len(workers) = workerCount + 1 /\ workerCount < MaxWorker /\ scaleFlag
      /\ mainPort = workers[1]
      /\ \A s \in Requests : Scaling(s) => s = r
  BY DEF ScaleShape, ExecutedOnce, MainIsFirst, Scaling
<1>b. cand[r] = 0  BY DEF CandOfCall
<1>c. /\ maxTaskLimits' \in Seq({ParrelWorker}) /\ Len(maxTaskLimits') = n + 1
      /\ nowTasks' \in Seq(Nat) /\ Len(nowTasks') = n + 1
      /\ \A i \in 1..n : nowTasks'[i] = nowTasks[i]
      /\ nowTasks'[n + 1] = 1
  <2>1. /\ maxTaskLimits' = InsertAt(maxTaskLimits, n + 1, ParrelWorker)
        /\ nowTasks' = InsertAt(nowTasks, n + 1, 1)
        /\ workerCount' = n + 1
    BY <1>n
  <2>2. /\ maxTaskLimits \in Seq({ParrelWorker}) /\ Len(maxTaskLimits) = n
        /\ nowTasks \in Seq(Nat) /\ Len(nowTasks) = n /\ n \in Nat
    BY <1>n
  <2>3. /\ maxTaskLimits' = Append(maxTaskLimits, ParrelWorker)
        /\ nowTasks' = Append(nowTasks, 1)
    BY ONLY <2>1, <2>2, InsertAtEnd
  <2> QED BY ONLY <2>2, <2>3
<1>1. TypeOK'
  <2>1. workerCount' = n + 1 /\ workerCount' \in 0..MaxWorker  BY <1>n, <1>a
  <2>2. initialized' \in SUBSET Port /\ refused' \in SUBSET Port
    <3>1. workers[workerCount + 1] \in Port  BY <1>a
    <3> QED BY <3>1 DEF InitPosted
  <2>3. cand' \in [Requests -> 0..workerCount']  BY <1>a
  <2>4. Len(workers') = workerCount'  BY <1>n, <1>a
  <2> QED BY <1>n, <1>c, <2>1, <2>2, <2>3, <2>4
<1>2. UnitShape'  BY DEF UnitShape, Answered, InitPosted
<1>3. PortsFresh'  BY DEF PortsFresh
<1>4. ScaleShape'  BY <1>a DEF ScaleShape, Scaling, MainFor
<1>5. ExecutedOnce'  BY <1>a DEF ExecutedOnce, Scaling
<1>6. FlagHasScaler'  BY <1>a DEF FlagHasScaler, Scaling
<1>7. MainIsFirst'  BY <1>a DEF MainIsFirst, Scaling
<1>8. ToldFirst'  BY DEF ToldFirst
<1>9. CountedHasAnswered'  BY <1>a DEF CountedHasAnswered, Answered,
     InitPosted
<1>10. CandOfCall'  BY <1>b DEF CandOfCall
<1>11. TasksCounted'
  <2>1. TasksOf(n + 1)' = {r}  BY <1>n, <1>b DEF TasksOf
  <2>2. \A i \in 1..n : TasksOf(i)' = TasksOf(i)  BY <1>n, <1>b DEF TasksOf
  <2>3. \A i \in 1..n : nowTasks'[i] = Cardinality(TasksOf(i)')
    BY <1>n, <1>c, <2>2 DEF TasksCounted
  <2>4. nowTasks'[n + 1] = Cardinality(TasksOf(n + 1)')  BY <1>c, <2>1, FS_Singleton
  <2>5. workerCount' = n + 1  BY <1>n
  <2>6. \A i \in 1..(n + 1) : i \in 1..n \/ i = n + 1  OBVIOUS
  <2> QED BY <2>3, <2>4, <2>5, <2>6 DEF TasksCounted
<1>12. TasksWithinLimit'
  <2>1. \A i \in 1..(n + 1) : maxTaskLimits'[i] = ParrelWorker
    BY <1>n, <1>c
  <2>2. \A i \in 1..n : nowTasks'[i] <= ParrelWorker
    <3>1. \A i \in 1..n : maxTaskLimits[i] = ParrelWorker  BY <1>n
    <3> QED BY <1>n, <1>c, <3>1 DEF TasksWithinLimit
  <2>3. workerCount' = n + 1 /\ \A i \in 1..(n + 1) : i \in 1..n \/ i = n + 1
    BY <1>n
  <2> QED BY <1>c, <2>1, <2>2, <2>3 DEF TasksWithinLimit
<1> QED
  BY <1>1, <1>2, <1>3, <1>4, <1>5, <1>6, <1>7, <1>8, <1>9, <1>10, <1>11, <1>12

\* A greenlet that dies while it adds a container leaves the flag behind.
LEMMA ScaleFailsInv == ASSUME IInv, NEW r \in Requests, ScaleFails(r) PROVE IInv'
<1> USE UnitAssumption DEF IInv, TypeOK, ScaleFails, Goes, InitPosted, InitTarget,
      lists, containers, proxies, Pc
<1>a. pc[r] = "init" => workers[workerCount + 1] \in Port
  <2>1. pc[r] = "init" => Len(workers) = workerCount + 1  BY DEF ScaleShape
  <2> QED BY <2>1
<1>1. TypeOK'  BY <1>a
<1>2. UnitShape'  BY DEF UnitShape, Answered
<1>3. PortsFresh'  BY DEF PortsFresh
<1>4. ScaleShape'  BY DEF ScaleShape, Scaling, MainFor
<1>5. ExecutedOnce'  BY DEF ExecutedOnce, Scaling
<1>6. FlagHasScaler'  BY DEF FlagHasScaler, Scaling
<1>7. MainIsFirst'  BY DEF MainIsFirst
<1>8. ToldFirst'  BY DEF ToldFirst
<1>9. CountedHasAnswered'  BY DEF CountedHasAnswered, Answered
<1>10. CandOfCall'  BY DEF CandOfCall
<1>11. TasksCounted'
  <2>1. \A i \in 1..workerCount : TasksOf(i)' = TasksOf(i)  BY DEF TasksOf
  <2> QED BY <2>1 DEF TasksCounted
<1>12. TasksWithinLimit'  BY DEF TasksWithinLimit
<1> QED
  BY <1>1, <1>2, <1>3, <1>4, <1>5, <1>6, <1>7, <1>8, <1>9, <1>10, <1>11, <1>12

\* A task that is over is taken off.
LEMMA FinishInv == ASSUME IInv, NEW r \in Requests, Finish(r) PROVE IInv'
<1> USE UnitAssumption DEF IInv, TypeOK, Finish, Goes, lists, containers, proxies, Pc
<1>a. PICK i \in 1..workerCount : cand[r] = i  BY DEF CandOfCall
<1>b. /\ TasksOf(i)' = TasksOf(i) \ {r} /\ r \in TasksOf(i)
      /\ \A j \in 1..workerCount : j # i => TasksOf(j)' = TasksOf(j)
  BY <1>a DEF TasksOf
<1>c. /\ Cardinality(TasksOf(i) \ {r}) = Cardinality(TasksOf(i)) - 1
      /\ Cardinality(TasksOf(i)) \in Nat \ {0}
  <2>1. IsFiniteSet(TasksOf(i))  BY TasksFinite
  <2>2. Cardinality(TasksOf(i)) \in Nat  BY <2>1, FS_CardinalityType
  <2>3. TasksOf(i) # {}  BY <1>b
  <2>4. Cardinality(TasksOf(i)) # 0  BY <2>1, <2>3, FS_EmptySet
  <2>5. r \in TasksOf(i)  BY <1>b
  <2>6. Cardinality(TasksOf(i) \ {r}) = Cardinality(TasksOf(i)) - 1
    BY ONLY <2>1, <2>5, FS_RemoveElement
  <2> QED BY <2>2, <2>4, <2>6
<1>d. nowTasks[i] \in Nat \ {0}  BY <1>a, <1>c DEF TasksCounted
<1>e. /\ nowTasks'[i] = nowTasks[i] - 1
      /\ \A j \in 1..workerCount : j # i => nowTasks'[j] = nowTasks[j]
  BY <1>a, <1>d
<1>1. TypeOK'
  <2>1. nowTasks' = [nowTasks EXCEPT ![i] = nowTasks[i] - 1]  BY <1>a
  <2>2. nowTasks \in Seq(Nat) /\ Len(nowTasks) = workerCount /\ nowTasks[i] - 1 \in Nat
    BY <1>d
  <2>3. nowTasks' \in Seq(Nat) /\ Len(nowTasks') = workerCount  BY ONLY <2>1, <2>2
  <2>4. /\ pc' \in [Requests -> Pc]
        /\ cand' \in [Requests -> 0..workerCount']
    OBVIOUS
  <2> HIDE DEF Finish, Pc
  <2>5. UNCHANGED <<port_resource, workers, mainOf, proxies, running, workerCount,
                   maxTaskLimits, mainPort, scaleFlag, at, new, unit>>
    BY DEF Finish
  <2> QED BY <2>3, <2>4, <2>5
<1>2. UnitShape'  BY DEF UnitShape, Answered
<1>3. PortsFresh'  BY DEF PortsFresh
<1>4. ScaleShape'  BY DEF ScaleShape, Scaling, MainFor
<1>5. ExecutedOnce'  BY DEF ExecutedOnce, Scaling
<1>6. FlagHasScaler'  BY DEF FlagHasScaler, Scaling
<1>7. MainIsFirst'  BY DEF MainIsFirst
<1>8. ToldFirst'  BY DEF ToldFirst
<1>9. CountedHasAnswered'  BY DEF CountedHasAnswered, Answered
<1>10. CandOfCall'  BY DEF CandOfCall
<1>11. TasksCounted'  BY <1>b, <1>c, <1>e DEF TasksCounted
<1>12. TasksWithinLimit'
  <2>1. \A j \in 1..workerCount : maxTaskLimits[j] \in Nat  OBVIOUS
  <2>2. UNCHANGED <<workerCount, maxTaskLimits>>  OBVIOUS
  <2>3. \A j \in 1..workerCount : nowTasks[j] <= maxTaskLimits[j]
    BY DEF TasksWithinLimit
  <2> QED BY ONLY <1>a, <1>d, <1>e, <2>1, <2>2, <2>3 DEF TasksWithinLimit
<1> QED
  BY <1>1, <1>2, <1>3, <1>4, <1>5, <1>6, <1>7, <1>8, <1>9, <1>10, <1>11, <1>12

\* A task that fails is not taken off.
LEMMA SendFailsInv == ASSUME IInv, NEW r \in Requests, SendFails(r) PROVE IInv'
<1> USE UnitAssumption DEF IInv, TypeOK, SendFails, Goes, lists, containers, proxies, Pc
<1>1. TypeOK'  OBVIOUS
<1>2. UnitShape'  BY DEF UnitShape, Answered
<1>3. PortsFresh'  BY DEF PortsFresh
<1>4. ScaleShape'  BY DEF ScaleShape, Scaling, MainFor
<1>5. ExecutedOnce'  BY DEF ExecutedOnce, Scaling
<1>6. FlagHasScaler'  BY DEF FlagHasScaler, Scaling
<1>7. MainIsFirst'  BY DEF MainIsFirst
<1>8. ToldFirst'  BY DEF ToldFirst
<1>9. CountedHasAnswered'  BY DEF CountedHasAnswered, Answered
<1>10. CandOfCall'  BY DEF CandOfCall
<1>11. TasksCounted'
  <2>1. \A i \in 1..workerCount : TasksOf(i)' = TasksOf(i)  BY DEF TasksOf
  <2> QED BY <2>1 DEF TasksCounted
<1>12. TasksWithinLimit'  BY DEF TasksWithinLimit
<1> QED
  BY <1>1, <1>2, <1>3, <1>4, <1>5, <1>6, <1>7, <1>8, <1>9, <1>10, <1>11, <1>12

\* A destroyed unit has no container and no task.
LEMMA DestroyInv == ASSUME IInv, Destroy PROVE IInv'
<1> USE UnitAssumption DEF IInv, TypeOK, Destroy, Joined, lists, containers, proxies, Pc
<1>a. workerCount' = 0 /\ pc' = pc /\ \A r \in Requests : pc[r] # "init"
  OBVIOUS
<1>1. TypeOK'  OBVIOUS
<1>2. UnitShape'  BY DEF UnitShape, Answered
<1>3. PortsFresh'  BY DEF PortsFresh
<1>4. ScaleShape'  BY DEF ScaleShape, Scaling, MainFor
<1>5. ExecutedOnce'  BY DEF ExecutedOnce, Scaling
<1>6. FlagHasScaler'  BY DEF FlagHasScaler, Scaling
<1>7. MainIsFirst'  BY <1>a DEF MainIsFirst
<1>8. ToldFirst'  BY DEF ToldFirst
<1>9. CountedHasAnswered'  BY DEF CountedHasAnswered, Answered
<1>10. CandOfCall'  BY DEF CandOfCall
<1>11. TasksCounted'  BY DEF TasksCounted
<1>12. TasksWithinLimit'  BY DEF TasksWithinLimit
<1> QED
  BY <1>1, <1>2, <1>3, <1>4, <1>5, <1>6, <1>7, <1>8, <1>9, <1>10, <1>11, <1>12

\* A unit that is not destroyed to the end keeps its containers and tasks.
LEMMA DestroyFailsInv == ASSUME IInv, DestroyFails PROVE IInv'
<1> USE DEF IInv, DestroyFails, lists, proxies
<1>1. TypeOK'  BY DEF TypeOK
<1>2. UnitShape' /\ PortsFresh'  BY DEF UnitShape, Answered, PortsFresh
<1>3. ScaleShape' /\ ExecutedOnce' /\ FlagHasScaler'
  BY DEF ScaleShape, ExecutedOnce, FlagHasScaler, Scaling, MainFor
<1>4. MainIsFirst' /\ ToldFirst'  BY DEF MainIsFirst, ToldFirst
<1>5. CountedHasAnswered' /\ CandOfCall'  BY DEF CountedHasAnswered, Answered, CandOfCall
<1>6. TasksCounted'
  <2>1. \A i \in 1..workerCount : TasksOf(i)' = TasksOf(i)  BY DEF TasksOf
  <2> QED BY <2>1 DEF TasksCounted
<1>7. TasksWithinLimit'  BY DEF TasksWithinLimit
<1> QED BY <1>1, <1>2, <1>3, <1>4, <1>5, <1>6, <1>7

\* Nothing changes in a step that stutters.
LEMMA StutterInv == ASSUME IInv, UNCHANGED vars PROVE IInv'
<1> USE DEF IInv, vars, lists, containers, proxies
<1>1. TypeOK'  BY DEF TypeOK
<1>2. UnitShape' /\ PortsFresh'  BY DEF UnitShape, Answered, PortsFresh
<1>3. ScaleShape' /\ ExecutedOnce' /\ FlagHasScaler'
  BY DEF ScaleShape, ExecutedOnce, FlagHasScaler, Scaling, MainFor
<1>4. MainIsFirst' /\ ToldFirst'  BY DEF MainIsFirst, ToldFirst
<1>5. CountedHasAnswered' /\ CandOfCall'  BY DEF CountedHasAnswered, Answered, CandOfCall
<1>6. TasksCounted'
  <2>1. \A i \in 1..workerCount : TasksOf(i)' = TasksOf(i)  BY DEF TasksOf
  <2> QED BY <2>1 DEF TasksCounted
<1>7. TasksWithinLimit'  BY DEF TasksWithinLimit
<1> QED BY <1>1, <1>2, <1>3, <1>4, <1>5, <1>6, <1>7

\* The invariant is inductive.
LEMMA NextIInv == IInv /\ [Next]_vars => IInv'
<1> SUFFICES ASSUME IInv, [Next]_vars PROVE IInv'  OBVIOUS
<1>1. CASE UnitInit
  BY <1>1, UnitCreatesInv, UnitInitsInv, UnitComesUpInv, UnitFailsInv DEF UnitInit
<1>2. CASE Destroy \/ DestroyFails  BY <1>2, DestroyInv, DestroyFailsInv
<1>3. CASE \E r \in Requests : Call(r) \/ SendRequest(r) \/ Fail(r)
  <2>1. PICK r \in Requests : Call(r) \/ SendRequest(r) \/ Fail(r)  BY <1>3
  <2>2. CASE Call(r)  BY <2>2, CallInv
  <2>3. CASE SendRequest(r)
    <3>1. CASE Assign(r) \/ Sleep(r) \/ Wake(r) \/ Finish(r)
      BY <3>1, AssignInv, SleepInv, WakeInv, FinishInv
    <3>2. CASE StartCreate(r) \/ NoIdlePort(r) \/ EndCreate(r)
      BY <3>2, StartCreateInv, NoIdlePortInv, EndCreateInv
    <3>3. CASE SetMain(r) \/ EndScale(r)  BY <3>3, SetMainInv, EndScaleInv
    <3> QED BY <2>3, <3>1, <3>2, <3>3 DEF SendRequest
  <2>4. CASE Fail(r)
    BY <2>4, AdaptFailsInv, ScaleFailsInv, SendFailsInv DEF Fail
  <2> QED BY <2>1, <2>2, <2>3, <2>4
<1>4. CASE UNCHANGED vars  BY <1>4, StutterInv
<1> QED BY <1>1, <1>2, <1>3, <1>4 DEF Next

\* The invariant holds at every step of the unit.
THEOREM Invariance == Spec => []IInv
<1>1. Init => IInv  BY InitIInv
<1>2. IInv /\ [Next]_vars => IInv'  BY NextIInv
<1> QED BY <1>1, <1>2, PTL DEF Spec

\* Types: the lists of the unit keep in step with workerCount, within maxWorker.
THEOREM TypeCorrect == Spec => []TypeOK
<1>1. IInv => TypeOK  BY DEF IInv
<1> QED BY <1>1, Invariance, PTL

\* "Only executed once": horizontal_scale adds one container at a time, and the
\* workerCount it read before it blocked is the one it uses afterwards.
THEOREM ExecutedOnceHolds == Spec => []ExecutedOnce
<1>1. IInv => ExecutedOnce  BY DEF IInv
<1> QED BY <1>1, Invariance, PTL

\* scaleFlag outlives no greenlet but one that died of an exception.
THEOREM FlagHasScalerHolds == Spec => []FlagHasScaler
<1>1. IInv => FlagHasScaler  BY DEF IInv
<1> QED BY <1>1, Invariance, PTL

\* nowTasks counts the requests of each container.
THEOREM TasksCountedHolds == Spec => []TasksCounted
<1>1. IInv => TasksCounted  BY DEF IInv
<1> QED BY <1>1, Invariance, PTL

\* if self.nowTasks[i] < self.maxTaskLimits[i]: no container is given more tasks than its
\* limit, by the requests that find it with room or by the one that adds it.
THEOREM TasksWithinLimitHolds == Spec => []TasksWithinLimit
<1>1. IInv => TasksWithinLimit  BY DEF IInv
<1> QED BY <1>1, Invariance, PTL

\* The containers of a unit use the state store of the first, or have refused their /init
\* and use none.
THEOREM OneStateStoreHolds == Spec => []OneStateStore
<1>1. NoPort \notin Port
  <2>1. \A i \in DOMAIN PortList : PortList[i] \in Nat  BY UnitAssumption
  <2> QED BY <2>1, UnitAssumption DEF Port, ToSet
<1>2. IInv => OneStateStore
  <2> SUFFICES ASSUME IInv, NEW i \in 1..Len(workers)
               PROVE  /\ StoreOf(workers[i]) \in {workers[1], NoPort}
                      /\ i <= workerCount /\ StoreOf(workers[i]) = NoPort =>
                           workers[i] \in refused
    BY DEF OneStateStore
  <2>1. mainOf[workers[i]] = workers[1]  BY DEF IInv, ToldFirst
  <2>2. workers[1] # NoPort
    <3>1. workers \in Seq(Port) /\ 1 \in 1..Len(workers)  BY DEF IInv, TypeOK
    <3> QED BY <1>1, <3>1
  <2>3. i <= workerCount => workers[i] \in Answered
    <3>1. workerCount \in Nat /\ i \in Nat /\ i >= 1  BY DEF IInv, TypeOK
    <3> QED BY <3>1 DEF IInv, CountedHasAnswered
  <2> QED BY <2>1, <2>2, <2>3 DEF StoreOf, Answered
<1> QED BY <1>2, Invariance, PTL

\* No request is sent to a container before its /init is answered.
THEOREM SentToInitializedHolds == Spec => []SentToInitialized
<1>1. IInv => SentToInitialized
  <2> SUFFICES ASSUME IInv, NEW r \in Requests, pc[r] = "send"
               PROVE  cand[r] \in 1..workerCount /\ workers[cand[r]] \in Answered
    BY DEF SentToInitialized
  <2>1. cand[r] # 0  BY DEF IInv, CandOfCall
  <2>2. cand[r] \in 0..workerCount /\ workerCount \in Nat  BY DEF IInv, TypeOK
  <2>3. cand[r] \in 1..workerCount  BY <2>1, <2>2
  <2> QED BY <2>3 DEF IInv, CountedHasAnswered
<1> QED BY <1>1, Invariance, PTL

-----------------------------------------------------------------------------
(***************************************************************************)
(* The unit implements TaskSlots: nowTasks and maxTaskLimits decide as the *)
(* sets of tasks would.                                                    *)
(***************************************************************************)
\* A container is full for the scheduler just when it has its limit of tasks.
LEMMA RoomIsNotFull ==
  ASSUME IInv
  PROVE  \A i \in 1..workerCount : HasRoom(i) <=> ~Slots!Full(i)
<1> SUFFICES ASSUME NEW i \in 1..workerCount PROVE HasRoom(i) <=> ~Slots!Full(i)
  OBVIOUS
<1>1. maxTaskLimits[i] = ParrelWorker /\ nowTasks[i] \in Nat /\ ParrelWorker \in Nat
  BY UnitAssumption DEF IInv, TypeOK
<1>2. nowTasks[i] = Cardinality(TasksOf(i))  BY DEF IInv, TasksCounted
<1>3. TasksOf(i) = Slots!Tasks(i)  BY DEF TasksOf, Slots!Tasks
<1>4. Slots!Cardinality(TasksOf(i)) = Cardinality(TasksOf(i))
  BY DEF Cardinality, Slots!Cardinality
<1> QED BY <1>1, <1>2, <1>3, <1>4 DEF HasRoom, Slots!Full

\* The steps of the unit are steps of TaskSlots, or leave it alone.
LEMMA StepSlots == ASSUME IInv, [Next]_vars PROVE [Slots!Next]_(Slots!vars)
<1> USE DEF Slots!vars, lists, containers, proxies
<1>1. CASE UnitInit
  <2>1. CASE UnitComesUp
    <3>1. workerCount = 0  BY <2>1 DEF UnitComesUp, UnitGoes, IInv, UnitShape
    <3> QED BY <2>1, <3>1 DEF UnitComesUp, UnitGoes, Slots!Open, Slots!Next
  <2>2. CASE UnitCreates \/ UnitInits \/ UnitFails
    BY <2>2 DEF UnitCreates, UnitInits, UnitFails, UnitGoes
  <2> QED BY <1>1, <2>1, <2>2 DEF UnitInit
<1>2. CASE Destroy \/ DestroyFails
  BY <1>2 DEF Destroy, DestroyFails, Slots!Close, Slots!Next
<1>3. CASE \E r \in Requests : Call(r) \/ SendRequest(r) \/ Fail(r)
  <2>1. PICK r \in Requests : Call(r) \/ SendRequest(r) \/ Fail(r)  BY <1>3
  <2>2. pc[r] = "scan" \/ Scaling(r) => cand[r] = 0
    BY DEF IInv, CandOfCall, Scaling
  <2>3. CASE Assign(r)
    <3>1. PICK i \in 1..workerCount :
            /\ HasRoom(i) /\ \A j \in 1..(i - 1) : ~HasRoom(j)
            /\ cand' = [cand EXCEPT ![r] = i]
            /\ pc[r] = "scan" /\ workerCount' = workerCount
      BY <2>3 DEF Assign, Goes
    <3>2. workerCount \in Nat  BY DEF IInv, TypeOK
    <3>3. ~Slots!Full(i) /\ \A j \in 1..(i - 1) : Slots!Full(j)
      BY <3>1, <3>2, RoomIsNotFull
    <3>4. Slots!Assign(r, i)  BY <2>2, <3>1, <3>3 DEF Slots!Assign
    <3> QED BY <3>4 DEF Slots!Next
  <2>4. CASE EndScale(r) \/ AdaptFails(r)
    <3>1. pc[r] = "init" /\ AddContainer(r)
      BY <2>4 DEF EndScale, AdaptFails, Goes
    <3>2. workerCount < MaxWorker  BY <3>1 DEF IInv, ScaleShape
    <3>3. Slots!GrowFor(r)
      BY <2>2, <3>1, <3>2 DEF Scaling, AddContainer, Slots!GrowFor
    <3> QED BY <3>3 DEF Slots!Next
  <2>5. CASE Finish(r)
    <3>1. cand[r] # 0  BY <2>5 DEF Finish, Goes, IInv, CandOfCall
    <3>2. Slots!Finish(r)  BY <2>5, <3>1 DEF Finish, Slots!Finish
    <3> QED BY <3>2 DEF Slots!Next
  <2>6. CASE Call(r) \/ Sleep(r) \/ Wake(r) \/ StartCreate(r) \/ NoIdlePort(r)
    BY <2>6 DEF Call, Sleep, Wake, StartCreate, NoIdlePort, Goes
  <2>7. CASE EndCreate(r) \/ SetMain(r) \/ ScaleFails(r) \/ SendFails(r)
    BY <2>7 DEF EndCreate, SetMain, ScaleFails, SendFails, Goes
  <2> QED BY <2>1, <2>3, <2>4, <2>5, <2>6, <2>7 DEF SendRequest, Fail
<1>4. CASE UNCHANGED vars  BY <1>4 DEF vars
<1> QED BY <1>1, <1>2, <1>3, <1>4 DEF Next

\* The scheduler keeps the promise of TaskSlots: a request is a task of one container at
\* a time, and no container is given more tasks than parrelWorker.
THEOREM UnitImplementsSlots == Spec => ImplementsSlots
<1>1. Init => Slots!Init  BY DEF Init, Slots!Init
<1>2. IInv /\ [Next]_vars => [Slots!Next]_(Slots!vars)  BY StepSlots
<1> QED BY <1>1, <1>2, Invariance, PTL DEF Spec, Slots!Spec, ImplementsSlots

(***************************************************************************)
(* The containers docker runs.                                             *)
(***************************************************************************)
\* A step that leaves workers and running alone, and keeps dead greenlets dead and scaling
\* ones scaling or dead, keeps the invariant.
LEMMA RunUnmoved ==
  ASSUME RunInv, UNCHANGED <<running, workers, workerCount, unit>>,
         \A r \in Requests :
           /\ Died(r) => Died(r)' /\ new'[r] = new[r]
           /\ Scaling(r) => (Scaling(r) \/ Died(r))' /\ new'[r] = new[r]
  PROVE  RunInv'
BY DEF RunInv, OnlyErrorsOrphan, AddedByScaler

\* FunctionUnit.init: the unit has at most one container, and lists it.
LEMMA UnitInitRuns == ASSUME IInv, RunInv, UnitInit PROVE RunInv'
<1> USE DEF RunInv, UnitGoes
<1>1. \A r \in Requests : pc[r] = "new" /\ pc'[r] = "new"
  BY DEF UnitInit, UnitCreates, UnitInits, UnitComesUp, UnitFails, IInv, UnitShape
<1>2. CASE UnitCreates
  <2>1. workers = <<>> /\ workers' = Append(workers, Head(port_resource))
    BY <1>2 DEF UnitCreates, IInv, UnitShape
  <2>2. Len(workers') = 1 /\ workers'[1] = Head(port_resource)
    BY ONLY <2>1
  <2>3. \A p \in running' : p = Head(port_resource)
    BY <1>1, <1>2, <2>1 DEF UnitCreates, OnlyErrorsOrphan, Died
  <2>4. OnlyErrorsOrphan'  BY <2>2, <2>3 DEF OnlyErrorsOrphan
  <2> QED BY <1>2, <2>4 DEF UnitCreates, AddedByScaler
<1>3. CASE UnitComesUp
  <2>1. /\ Len(workers) = 1 /\ workerCount' = 1 /\ workers' = workers
        /\ UNCHANGED <<running, new>>
    BY <1>3 DEF UnitComesUp, IInv, UnitShape, containers, proxies
  <2> QED BY <1>1, <2>1 DEF OnlyErrorsOrphan, AddedByScaler, Died
<1>4. CASE UnitInits \/ UnitFails
  BY <1>1, <1>4
     DEF UnitInits, UnitFails, OnlyErrorsOrphan, AddedByScaler, Died, containers, proxies
<1> QED BY <1>2, <1>3, <1>4 DEF UnitInit

\* A greenlet lists the container it has created, at the end of workers.
LEMMA EndCreateRuns ==
  ASSUME IInv, RunInv, NEW r \in Requests, EndCreate(r) PROVE RunInv'
<1>1. /\ workers \in Seq(Port) /\ workerCount \in Nat /\ Len(workers) = workerCount
      /\ new[r] \in Port /\ at[r] = workerCount
  BY DEF EndCreate, Goes, IInv, TypeOK, ScaleShape, ExecutedOnce, Scaling
<1>2. workers' = Append(workers, new[r])
  <2>1. workers' = InsertAt(workers, workerCount + 1, new[r])  BY <1>1 DEF EndCreate
  <2> QED BY ONLY <1>1, <2>1, InsertAtEnd
<1>3. /\ Len(workers') = workerCount + 1
      /\ \A i \in 1..Len(workers) : workers'[i] = workers[i]
      /\ workers'[workerCount + 1] = new[r]
  BY ONLY <1>1, <1>2
<1>4. /\ running' = running \cup {new[r]} /\ UNCHANGED <<workerCount, new>>
      /\ pc[r] = "create" /\ pc \in [Requests -> Pc]
      /\ pc' = [pc EXCEPT ![r] = IF workerCount = 0 THEN "mainip" ELSE "init"]
  BY DEF EndCreate, Goes, lists, IInv, TypeOK
<1>5. OnlyErrorsOrphan'
  BY <1>1, <1>3, <1>4 DEF RunInv, OnlyErrorsOrphan, Died
<1>6. AddedByScaler'  BY <1>1, <1>3, <1>4 DEF AddedByScaler, Scaling
<1> QED BY <1>5, <1>6 DEF RunInv

\* A greenlet counts the container it has added, which workers is no longer ahead by.
LEMMA AddContainerRuns ==
  ASSUME IInv, RunInv, NEW r \in Requests, EndScale(r) \/ AdaptFails(r) PROVE RunInv'
<1>1. /\ Len(workers) = workerCount + 1 /\ workerCount' = workerCount + 1
      /\ UNCHANGED <<workers, running, new>> /\ workerCount \in Nat
  BY DEF EndScale, AdaptFails, AddContainer, Goes, IInv, TypeOK, ScaleShape
<1>2. \A s \in Requests : Died(s) => Died(s)'
  BY DEF EndScale, AdaptFails, Goes, Died, IInv, TypeOK
<1> QED BY <1>1, <1>2 DEF RunInv, OnlyErrorsOrphan, AddedByScaler

\* destroy removes the containers that are counted; what is left was being added.
LEMMA DestroyRuns == ASSUME IInv, RunInv, Destroy PROVE RunInv'
<1>1. /\ running' = running \ {workers[i] : i \in 1..workerCount}
      /\ workers' = <<>> /\ workerCount' = 0 /\ unit = "up" /\ UNCHANGED <<pc, new>>
      /\ \A r \in Requests : ~Scaling(r)
  BY DEF Destroy, Joined, Removed, Scaling
<1>2. Len(workers') = 0  BY <1>1, EmptySeq
<1>3. /\ workerCount \in Nat /\ Len(workers) \in {workerCount, workerCount + 1}
  BY <1>1 DEF IInv, TypeOK
<1>4. OnlyErrorsOrphan'
  <2> SUFFICES ASSUME NEW p \in running'
               PROVE  \E r \in Requests : Died(r)' /\ new'[r] = p
    BY DEF OnlyErrorsOrphan
  <2>1. CASE \E i \in 1..Len(workers) : workers[i] = p
    <3>1. PICK i \in 1..Len(workers) : workers[i] = p  BY <2>1
    <3>2. i = workerCount + 1 /\ Len(workers) = workerCount + 1  BY <1>1, <1>3, <3>1
    <3>3. PICK r \in Requests : Died(r) /\ new[r] = workers[workerCount + 1]
      BY <1>1, <3>2 DEF RunInv, AddedByScaler
    <3> QED BY <1>1, <3>1, <3>2, <3>3 DEF Died
  <2>2. CASE \E r \in Requests : Died(r) /\ new[r] = p  BY <1>1, <2>2 DEF Died
  <2> QED BY <1>1, <2>1, <2>2 DEF RunInv, OnlyErrorsOrphan
<1>5. AddedByScaler'  BY <1>1, <1>2 DEF AddedByScaler
<1> QED BY <1>4, <1>5 DEF RunInv

\* Every step keeps it.
LEMMA NextRunInv == ASSUME IInv, RunInv, [Next]_vars PROVE RunInv'
<1> USE DEF IInv, TypeOK, Goes, lists, containers, proxies, Scaling, Died, Pc
<1>1. CASE UnitInit  BY <1>1, UnitInitRuns
<1>2. CASE Destroy  BY <1>2, DestroyRuns
<1>3. CASE DestroyFails
  <2>1. running' \subseteq running /\ UNCHANGED <<workers, workerCount, unit, pc, new>>
    BY <1>3 DEF DestroyFails
  <2> QED BY <2>1 DEF RunInv, OnlyErrorsOrphan, AddedByScaler
<1>4. ASSUME NEW r \in Requests, Call(r) \/ Assign(r) \/ Sleep(r) \/ Wake(r) PROVE RunInv'
  BY <1>4, RunUnmoved DEF Call, Assign, Sleep, Wake
<1>5. ASSUME NEW r \in Requests, Finish(r) \/ SendFails(r) PROVE RunInv'
  BY <1>5, RunUnmoved DEF Finish, SendFails
<1>6. ASSUME NEW r \in Requests, StartCreate(r) \/ NoIdlePort(r) PROVE RunInv'
  BY <1>6, RunUnmoved DEF StartCreate, NoIdlePort
<1>7. ASSUME NEW r \in Requests, SetMain(r) \/ ScaleFails(r) PROVE RunInv'
  BY <1>7, RunUnmoved DEF SetMain, ScaleFails
<1>8. ASSUME NEW r \in Requests, EndCreate(r) \/ EndScale(r) \/ AdaptFails(r) PROVE RunInv'
  BY <1>8, EndCreateRuns, AddContainerRuns
<1>9. CASE UNCHANGED vars  BY <1>9, RunUnmoved DEF vars
<1> QED BY <1>1, <1>2, <1>3, <1>4, <1>5, <1>6, <1>7, <1>8, <1>9
        DEF Next, SendRequest, Fail

\* Only a greenlet that dies while it adds a container leaves one that nobody removes.
THEOREM OnlyErrorsOrphanHolds == Spec => []OnlyErrorsOrphan
<1>1. Init => RunInv
  BY DEF Init, RunInv, OnlyErrorsOrphan, AddedByScaler
<1>2. IInv /\ RunInv /\ [Next]_vars => RunInv'  BY NextRunInv
<1>3. RunInv => OnlyErrorsOrphan  BY DEF RunInv
<1> QED BY <1>1, <1>2, <1>3, Invariance, PTL DEF Spec
=============================================================================
