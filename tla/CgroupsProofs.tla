---------------------------- MODULE CgroupsProofs ---------------------------
(***************************************************************************)
(* Proofs about Cgroups, for any number of calls, workers and helpers.     *)
(*                                                                         *)
(* A worker is born in the proxy's directory.  It leaves it once, for one  *)
(* of its own, when some call -- its own or another that asked for the     *)
(* list later -- gives limits to the processes of its list; and the        *)
(* directory stays as long as the worker lives, because only directories   *)
(* without members are removed.  So what a call has to know when it goes   *)
(* on to run its worker is that the worker is in its list (ListsOfCalls).  *)
(***************************************************************************)
EXTENDS Cgroups, TLAPS

-----------------------------------------------------------------------------
\* Constants and the operators of the model.

LEMMA PidsApart ==
  /\ Proxy \in FirstPids /\ Proxy \in Pids
  /\ FirstPids \subseteq Pids /\ Workers \subseteq Pids
  /\ FirstPids \cap Workers = {}
  /\ Helpers \subseteq FirstPids /\ Proxy \notin Helpers /\ FirstPids = Helpers \cup {Proxy}
  /\ Nobody \notin Workers /\ "top" \notin Pids
  BY CgroupAssumption DEF FirstPids, Helpers, Pids

\* The loop of init only removes entries.
LEMMA StillListedSubset ==
  ASSUME NEW list
  PROVE  StillListed(list) \subseteq proxyPid
  BY DEF StillListed

LEMMA LimitForType ==
  ASSUME NEW p
  PROVE  /\ LimitFor(p) \in {"proxy", "worker"}
         /\ p \notin proxyPid => LimitFor(p) = "worker"
  BY DEF LimitFor

\* A directory with a member is not removed.
LEMMA LeftKeepsMembers ==
  ASSUME TypeOK, NEW p \in Pids, proc[p] = "live", cgroup[p] \in dirs
  PROVE  cgroup[p] \in Left
<1>1. p \in Members(cgroup[p])
  BY DEF Members
<1>2. ~ Empty(cgroup[p])
  BY <1>1 DEF Empty
<1>3. QED
  BY <1>2 DEF Left

\* recycle_limits and add_limits, to the end or to an exception, make some directories
\* that were not left, and to the end they make all.
LEMMA LimitMakes ==
  ASSUME NEW list, Limit(list) \/ LimitFails(list)
  PROVE  \E made \in SUBSET (list \ Left) :
           /\ dirs' = Left \cup made
           /\ limit' = [d \in Pids |-> IF d \in made THEN LimitFor(d) ELSE limit[d]]
           /\ cgroup' = [p \in Pids |-> IF p \in made /\ proc[p] = "live" THEN p
                                                                        ELSE cgroup[p]]
           /\ LimitFails(list) \/ made = list \ Left
<1>1. CASE Limit(list)
  <2>1. Made(Left, list \ Left, [p \in list |-> LimitFor(p)])
    BY <1>1 DEF Limit
  <2>2. \A d \in list \ Left : [p \in list |-> LimitFor(p)][d] = LimitFor(d)
    OBVIOUS
  <2>3. limit' = [d \in Pids |-> IF d \in list \ Left THEN LimitFor(d) ELSE limit[d]]
    BY <2>1, <2>2 DEF Made
  <2>4. QED
    BY <2>1, <2>3 DEF Made
<1>2. CASE LimitFails(list)
  <2>1. PICK p \in Gone(list), before \in SUBSET (list \ (Left \cup Gone(list))) :
           Made(Left, before \cup {p}, [q \in list |-> LimitFor(q)])
    BY <1>2 DEF LimitFails
  <2> DEFINE made == before \cup {p}
  <2>2. made \in SUBSET (list \ Left)
    BY DEF Gone
  <2>3. \A d \in made : [q \in list |-> LimitFor(q)][d] = LimitFor(d)
    BY <2>2
  <2>4. limit' = [d \in Pids |-> IF d \in made THEN LimitFor(d) ELSE limit[d]]
    BY <2>1, <2>3 DEF Made
  <2>5. QED
    BY <1>2, <2>1, <2>2, <2>4 DEF Made
<1>3. QED
  BY <1>1, <1>2

\* Only a helper that has ended makes them stop half way.
LEMMA FailedByHelper ==
  ASSUME TypeOK, KindsOfProc, NEW list \in SUBSET Pids, LimitFails(list)
  PROVE  \E h \in Helpers : proc[h] = "gone"
<1>1. PICK p \in list : proc[p] = "gone"
  BY DEF LimitFails, Gone
<1>2. p \in Helpers
  BY <1>1, PidsApart DEF KindsOfProc, Pids
<1>3. QED
  BY <1>1, <1>2

\* What they do to the directories: everything a step of a call or of init needs.
LEMMA LimitStep ==
  ASSUME TypeOK, KindsOfProc, UnbornUnknown, DirOfWorker, ProxyAtHome, MembersInDirs,
         phase \notin {"starting", "setup"},
         NEW c \in Caller, Limit(pids[c]) \/ LimitFails(pids[c])
  PROVE  /\ dirs' \subseteq Pids
         /\ cgroup' \in [Pids -> Pids \cup {"top"}]
         /\ limit' \in [Pids -> {"none", "proxy", "worker", "more"}]
         /\ \A p \in Pids : cgroup[p] = p => cgroup'[p] = p
         /\ \A w \in Workers :
              /\ proc[w] = "live" => (w \in dirs' <=> cgroup'[w] = w)
              /\ w \in dirs' => limit'[w] = "worker"
              /\ proc[w] = "unborn" => w \notin dirs'
              /\ Limit(pids[c]) /\ w \in pids[c] /\ proc[w] = "live" => cgroup'[w] = w
         /\ \A p \in Pids : proc[p] = "live" /\ cgroup'[p] # "top" => cgroup'[p] \in dirs'
         /\ limit'[Proxy] = limit[Proxy]
<1> DEFINE list == pids[c]
<1>1. list \subseteq Pids
  BY DEF TypeOK
<1>2. PICK made \in SUBSET (list \ Left) :
           /\ dirs' = Left \cup made
           /\ limit' = [d \in Pids |-> IF d \in made THEN LimitFor(d) ELSE limit[d]]
           /\ cgroup' = [p \in Pids |-> IF p \in made /\ proc[p] = "live" THEN p
                                                                        ELSE cgroup[p]]
           /\ LimitFails(list) \/ made = list \ Left
  BY LimitMakes
<1>3. Left \subseteq dirs /\ Left \subseteq Pids /\ made \subseteq Pids
  BY <1>1 DEF Left, TypeOK
<1>4. \A p \in Pids : proc[p] = "live" /\ cgroup[p] # "top" => cgroup[p] \in Left
  BY LeftKeepsMembers DEF MembersInDirs
<1>5. \A w \in Workers : w \in made => LimitFor(w) = "worker"
  BY LimitForType, PidsApart DEF TypeOK
<1>6. dirs' \subseteq Pids
  BY <1>2, <1>3
<1>7. cgroup' \in [Pids -> Pids \cup {"top"}]
  BY <1>2, <1>3 DEF TypeOK
<1>8. limit' \in [Pids -> {"none", "proxy", "worker", "more"}]
  BY <1>2, <1>3, LimitForType DEF TypeOK
<1>9. \A p \in Pids : cgroup[p] = p => cgroup'[p] = p
  BY <1>2
<1>10. ASSUME NEW w \in Workers
       PROVE  /\ proc[w] = "live" => (w \in dirs' <=> cgroup'[w] = w)
              /\ w \in dirs' => limit'[w] = "worker"
              /\ proc[w] = "unborn" => w \notin dirs'
              /\ Limit(list) /\ w \in list /\ proc[w] = "live" => cgroup'[w] = w
  <2>1. w \in Pids /\ w # "top"
    BY PidsApart
  <2>2. ASSUME proc[w] = "live" PROVE w \in dirs' <=> cgroup'[w] = w
    <3>1. CASE w \in made
      BY <1>2, <2>1, <2>2, <3>1
    <3>2. CASE w \notin made
      <4>1. cgroup'[w] = cgroup[w]
        BY <1>2, <2>1, <3>2
      <4>2. w \in dirs' <=> w \in Left
        BY <1>2, <3>2
      <4>3. cgroup[w] = w => w \in Left
        BY <1>4, <2>1, <2>2
      <4>4. w \in Left => cgroup[w] = w
        BY <1>3, <2>2 DEF DirOfWorker
      <4>5. QED
        BY <4>1, <4>2, <4>3, <4>4
    <3>3. QED
      BY <3>1, <3>2
  <2>3. w \in dirs' => limit'[w] = "worker"
    BY <1>2, <1>3, <1>5, <2>1 DEF DirOfWorker
  <2>4. proc[w] = "unborn" => w \notin dirs'
    BY <1>2, <1>3 DEF UnbornUnknown
  <2>5. ASSUME Limit(list), w \in list, proc[w] = "live" PROVE cgroup'[w] = w
    <3>1. CASE w \in made
      BY <1>2, <2>1, <2>5, <3>1
    <3>2. CASE w \notin made
      <4>1. ~ LimitFails(list)
        BY <2>5 DEF Limit, LimitFails
      <4>2. w \in dirs'
        BY <1>2, <2>5, <3>2, <4>1
      <4>3. QED
        BY <2>2, <2>5, <4>2
    <3>3. QED
      BY <3>1, <3>2
  <2>6. QED
    BY <2>2, <2>3, <2>4, <2>5
<1>11. ASSUME NEW p \in Pids, proc[p] = "live", cgroup'[p] # "top"
       PROVE  cgroup'[p] \in dirs'
  <2>1. CASE p \in made
    BY <1>2, <1>11, <2>1
  <2>2. CASE p \notin made
    BY <1>2, <1>4, <1>11, <2>2
  <2>3. QED
    BY <2>1, <2>2
<1>12. limit'[Proxy] = limit[Proxy]
  <2>1. cgroup[Proxy] = Proxy /\ proc[Proxy] = "live" /\ Proxy \in Pids /\ Proxy # "top"
    BY PidsApart DEF ProxyAtHome, KindsOfProc
  <2>2. Proxy \in Left
    BY <1>4, <2>1
  <2>3. QED
    BY <1>2, <2>1, <2>2
<1>13. QED
  BY <1>6, <1>7, <1>8, <1>9, <1>10, <1>11, <1>12

-----------------------------------------------------------------------------
\* The steps.  Of each the parts of the invariant it can disturb come first.

\* wait_start lists the processes: there is no worker yet.
LEMMA WaitTopInv ==
  ASSUME IInv, WaitTop
  PROVE  IInv'
<1> USE DEF WaitTop, leaseVars
<1>1. TypeOK'
  BY PidsApart DEF IInv, TypeOK, KindsOfProc, UnbornUnknown, Top, Pids
<1>2. UnbornUnknown'
  BY PidsApart DEF IInv, UnbornUnknown
<1>3. ProxyAtHome'
  BY PidsApart DEF IInv, TypeOK, KindsOfProc, ProxyAtHome, Top
<1>4. ListsOfCalls'
  BY PidsApart DEF IInv, ListsOfCalls
<1>5. FreeWorkersLimited'
  BY PidsApart DEF IInv, ListsOfCalls, FreeWorkersLimited
<1>6. KindsOfProc' /\ DirOfWorker' /\ MembersInDirs' /\ OnlyHelpersBreakCalls'
  BY DEF IInv, KindsOfProc, DirOfWorker, MembersInDirs, OnlyHelpersBreakCalls
<1>7. QED
  BY <1>1, <1>2, <1>3, <1>4, <1>5, <1>6 DEF IInv

\* All processes of the list get a directory.
LEMMA WaitSetUpInv ==
  ASSUME IInv, WaitSetUp
  PROVE  IInv'
<1> USE DEF WaitSetUp, Made, leaseVars
<1>1. TypeOK'
  BY PidsApart DEF IInv, TypeOK
<1>2. UnbornUnknown'
  BY PidsApart DEF IInv, TypeOK, UnbornUnknown
<1>3. DirOfWorker'
  BY PidsApart DEF IInv, TypeOK, DirOfWorker
<1>4. ProxyAtHome'
  BY PidsApart DEF IInv, TypeOK, KindsOfProc, ProxyAtHome
<1>5. MembersInDirs'
  BY PidsApart DEF IInv, TypeOK, MembersInDirs
<1>6. ListsOfCalls'
  BY PidsApart DEF IInv, ListsOfCalls
<1>7. FreeWorkersLimited'
  BY PidsApart DEF IInv, ListsOfCalls, FreeWorkersLimited
<1>8. KindsOfProc' /\ OnlyHelpersBreakCalls'
  BY DEF IInv, KindsOfProc, OnlyHelpersBreakCalls
<1>9. QED
  BY <1>1, <1>2, <1>3, <1>4, <1>5, <1>6, <1>7, <1>8 DEF IInv

\* Some of them do, and the round is tried again.
LEMMA WaitFailsInv ==
  ASSUME IInv, WaitFails
  PROVE  IInv'
<1>1. /\ phase = "setup" /\ phase' = "starting"
      /\ UNCHANGED <<proc, proxyPid, adapted, pids, pc, workers, lease>>
  BY DEF WaitFails, leaseVars
<1>2. PICK made \in SUBSET proxyPid : Made(dirs, made, [p \in made |-> "none"])
  BY DEF WaitFails
<1>3. /\ dirs' = dirs \cup made
      /\ limit' = [d \in Pids |-> IF d \in made THEN "none" ELSE limit[d]]
      /\ cgroup' = [p \in Pids |-> IF p \in made /\ proc[p] = "live" THEN p ELSE cgroup[p]]
  BY <1>2 DEF Made
<1>4. made \subseteq FirstPids
  BY DEF IInv, TypeOK
<1>5. TypeOK'
  BY <1>1, <1>3, <1>4, PidsApart DEF IInv, TypeOK
<1>6. UnbornUnknown'
  BY <1>1, <1>3, <1>4, PidsApart DEF IInv, TypeOK, UnbornUnknown
<1>7. DirOfWorker'
  BY <1>1, <1>3, <1>4, PidsApart DEF IInv, TypeOK, DirOfWorker
<1>8. ProxyAtHome'
  BY <1>1, <1>3, <1>4, PidsApart DEF IInv, ProxyAtHome
<1>9. MembersInDirs'
  BY <1>1, <1>3, <1>4, PidsApart DEF IInv, TypeOK, MembersInDirs
<1>10. ListsOfCalls'
  BY <1>1, <1>3, <1>4, PidsApart DEF IInv, ListsOfCalls
<1>11. FreeWorkersLimited'
  BY <1>1, <1>3, <1>4, PidsApart DEF IInv, ListsOfCalls, FreeWorkersLimited
<1>12. KindsOfProc' /\ OnlyHelpersBreakCalls'
  BY <1>1 DEF IInv, KindsOfProc, OnlyHelpersBreakCalls
<1>13. QED
  BY <1>5, <1>6, <1>7, <1>8, <1>9, <1>10, <1>11, <1>12 DEF IInv

\* The first worker is born in the proxy's directory.
LEMMA PostInitInv ==
  ASSUME IInv, NEW w \in Workers, PostInit(w)
  PROVE  IInv'
<1> USE DEF PostInit, Born, Lease!Start, leaseVars
<1>1. TypeOK'
  BY PidsApart DEF IInv, TypeOK
<1>2. KindsOfProc'
  BY PidsApart DEF IInv, TypeOK, KindsOfProc
<1>3. UnbornUnknown'
  BY PidsApart DEF IInv, TypeOK, UnbornUnknown
<1>4. DirOfWorker'
  BY PidsApart DEF IInv, TypeOK, UnbornUnknown, DirOfWorker, ProxyAtHome
<1>5. ProxyAtHome'
  BY PidsApart DEF IInv, TypeOK, KindsOfProc, ProxyAtHome
<1>6. MembersInDirs'
  BY PidsApart DEF IInv, TypeOK, KindsOfProc, ProxyAtHome, MembersInDirs
<1>7. ListsOfCalls'
  BY PidsApart DEF IInv, TypeOK, ListsOfCalls
<1>8. FreeWorkersLimited'
  BY PidsApart DEF IInv, TypeOK, ListsOfCalls, FreeWorkersLimited
<1>9. OnlyHelpersBreakCalls'
  BY PidsApart DEF IInv, TypeOK, KindsOfProc, OnlyHelpersBreakCalls
<1>10. QED
  BY <1>1, <1>2, <1>3, <1>4, <1>5, <1>6, <1>7, <1>8, <1>9 DEF IInv

\* init lists the processes, the first worker among them.
LEMMA InitTopInv ==
  ASSUME IInv, InitTop
  PROVE  IInv'
<1> USE DEF InitTop, leaseVars
<1>1. TypeOK'
  BY PidsApart DEF IInv, TypeOK, Top, Caller
<1>2. UnbornUnknown'
  BY PidsApart DEF IInv, TypeOK, UnbornUnknown, Top
<1>3. ProxyAtHome'
  BY PidsApart DEF IInv, ProxyAtHome
<1>4. MembersInDirs'
  BY PidsApart DEF IInv, MembersInDirs
<1>5. ListsOfCalls'
  BY PidsApart DEF IInv, TypeOK, KindsOfProc, ListsOfCalls, Top, Caller
<1>6. FreeWorkersLimited'
  BY PidsApart DEF IInv, ListsOfCalls, FreeWorkersLimited
<1>7. KindsOfProc' /\ DirOfWorker' /\ OnlyHelpersBreakCalls'
  BY DEF IInv, KindsOfProc, DirOfWorker, OnlyHelpersBreakCalls
<1>8. QED
  BY <1>1, <1>2, <1>3, <1>4, <1>5, <1>6, <1>7 DEF IInv

\* init sets the limits, with the loop that removes from proxyPid.
LEMMA InitLimitsInv ==
  ASSUME IInv, InitLimits
  PROVE  IInv'
<1> DEFINE list == pids["init"]
<1>1. phase = "listed" /\ "init" \in Caller /\ (Limit(list) \/ LimitFails(list))
  BY DEF IInv, ListsOfCalls, Caller, InitLimits
<1>2. /\ dirs' \subseteq Pids
      /\ cgroup' \in [Pids -> Pids \cup {"top"}]
      /\ limit' \in [Pids -> {"none", "proxy", "worker", "more"}]
      /\ \A p \in Pids : cgroup[p] = p => cgroup'[p] = p
      /\ \A w \in Workers :
           /\ proc[w] = "live" => (w \in dirs' <=> cgroup'[w] = w)
           /\ w \in dirs' => limit'[w] = "worker"
           /\ proc[w] = "unborn" => w \notin dirs'
           /\ Limit(list) /\ w \in list /\ proc[w] = "live" => cgroup'[w] = w
      /\ \A p \in Pids : proc[p] = "live" /\ cgroup'[p] # "top" => cgroup'[p] \in dirs'
      /\ limit'[Proxy] = limit[Proxy]
  BY <1>1, LimitStep DEF IInv
<1>3. LimitFails(list) => \E h \in Helpers : proc[h] = "gone"
  BY <1>1, FailedByHelper DEF IInv, TypeOK
<1> USE DEF InitLimits, leaseVars
<1>4. TypeOK'
  BY <1>1, <1>2, StillListedSubset, PidsApart DEF IInv, TypeOK
<1>5. UnbornUnknown'
  BY <1>1, <1>2, PidsApart DEF IInv, UnbornUnknown
<1>6. DirOfWorker'
  BY <1>2, PidsApart DEF IInv, DirOfWorker
<1>7. ProxyAtHome'
  BY <1>1, <1>2, StillListedSubset, PidsApart DEF IInv, TypeOK, ProxyAtHome
<1>8. MembersInDirs'
  BY <1>1, <1>2, PidsApart DEF IInv, ProxyAtHome, MembersInDirs
<1>9. ListsOfCalls'
  BY <1>1, <1>2, PidsApart DEF IInv, ListsOfCalls
<1>10. FreeWorkersLimited'
  BY <1>1, <1>2, PidsApart DEF IInv, TypeOK, KindsOfProc, ListsOfCalls,
     FreeWorkersLimited
<1>11. OnlyHelpersBreakCalls'
  BY <1>1, <1>3, PidsApart DEF IInv, OnlyHelpersBreakCalls
<1>12. KindsOfProc'
  BY DEF IInv, KindsOfProc
<1>13. QED
  BY <1>4, <1>5, <1>6, <1>7, <1>8, <1>9, <1>10, <1>11, <1>12 DEF IInv

\* Only the limits of the proxy's processes are changed; it raises for one that has ended.
LEMMA AdaptInv ==
  ASSUME IInv, AdaptProxyCpu
  PROVE  IInv'
<1> USE DEF AdaptProxyCpu, leaseVars
<1>1. TypeOK'
  BY PidsApart DEF IInv, TypeOK
<1>2. DirOfWorker'
  BY PidsApart DEF IInv, TypeOK, DirOfWorker
<1>3. ProxyAtHome'
  BY PidsApart DEF IInv, TypeOK, ProxyAtHome
<1>4. MembersInDirs'
  BY PidsApart DEF IInv, TypeOK, MembersInDirs
<1>5. OnlyHelpersBreakCalls'
  BY PidsApart DEF IInv, TypeOK, KindsOfProc, ProxyAtHome, MembersInDirs,
     OnlyHelpersBreakCalls
<1>6. FreeWorkersLimited'
  BY PidsApart DEF IInv, FreeWorkersLimited, Lease!Leased
<1>7. KindsOfProc' /\ UnbornUnknown' /\ ListsOfCalls'
  BY DEF IInv, KindsOfProc, UnbornUnknown, ListsOfCalls
<1>8. QED
  BY <1>1, <1>2, <1>3, <1>4, <1>5, <1>6, <1>7 DEF IInv

\* A worker that nobody has is given to a call: it has its directory.
LEMMA SendIdleInv ==
  ASSUME IInv, NEW r \in Requests, SendIdle(r)
  PROVE  IInv'
<1> USE DEF SendIdle, Lease!Grant
<1>1. TypeOK'
  BY PidsApart DEF IInv, TypeOK
<1>2. ListsOfCalls'
  BY PidsApart DEF IInv, TypeOK, ListsOfCalls
<1>3. FreeWorkersLimited'
  BY PidsApart DEF IInv, TypeOK, ListsOfCalls, FreeWorkersLimited, Lease!Leased
<1>4. OnlyHelpersBreakCalls'
  BY PidsApart DEF IInv, TypeOK, OnlyHelpersBreakCalls
<1>5. KindsOfProc' /\ UnbornUnknown' /\ DirOfWorker' /\ ProxyAtHome' /\ MembersInDirs'
  BY DEF IInv, KindsOfProc, UnbornUnknown, DirOfWorker, ProxyAtHome, MembersInDirs
<1>6. QED
  BY <1>1, <1>2, <1>3, <1>4, <1>5 DEF IInv

\* A call makes a worker, in the proxy's directory.
LEMMA SendNewInv ==
  ASSUME IInv, NEW r \in Requests, SendNew(r)
  PROVE  IInv'
<1>1. PICK w \in Workers : Lease!StartFor(r, w) /\ Born(w)
  BY DEF SendNew
<1> USE DEF SendNew, Born, Lease!StartFor
<1>2. TypeOK'
  BY <1>1, PidsApart DEF IInv, TypeOK
<1>3. KindsOfProc'
  BY <1>1, PidsApart DEF IInv, TypeOK, KindsOfProc
<1>4. UnbornUnknown'
  BY <1>1, PidsApart DEF IInv, TypeOK, UnbornUnknown
<1>5. DirOfWorker'
  BY <1>1, PidsApart DEF IInv, TypeOK, UnbornUnknown, DirOfWorker, ProxyAtHome
<1>6. ProxyAtHome'
  BY <1>1, PidsApart DEF IInv, TypeOK, KindsOfProc, ProxyAtHome
<1>7. MembersInDirs'
  BY <1>1, PidsApart DEF IInv, TypeOK, KindsOfProc, ProxyAtHome, MembersInDirs
<1>8. ListsOfCalls'
  BY <1>1, PidsApart DEF IInv, TypeOK, ListsOfCalls
<1>9. FreeWorkersLimited'
  BY <1>1, PidsApart DEF IInv, TypeOK, KindsOfProc, ListsOfCalls, FreeWorkersLimited,
     Lease!Leased
<1>10. OnlyHelpersBreakCalls'
  BY <1>1, PidsApart DEF IInv, TypeOK, KindsOfProc, OnlyHelpersBreakCalls
<1>11. QED
  BY <1>2, <1>3, <1>4, <1>5, <1>6, <1>7, <1>8, <1>9, <1>10 DEF IInv

\* The list the call gets has its worker, which is live and stays so.
LEMMA GetPidsInv ==
  ASSUME IInv, NEW r \in Requests, GetPids(r)
  PROVE  IInv'
<1> USE DEF GetPids, AfterTop, leaseVars
<1>1. TypeOK'
  BY PidsApart DEF IInv, TypeOK, Top, Caller
<1>2. UnbornUnknown'
  BY PidsApart DEF IInv, TypeOK, UnbornUnknown, Top, Caller
<1>3. ListsOfCalls'
  BY PidsApart DEF IInv, TypeOK, KindsOfProc, ListsOfCalls, Top, Caller
<1>4. FreeWorkersLimited'
  BY PidsApart DEF IInv, TypeOK, FreeWorkersLimited, Lease!Leased
<1>5. OnlyHelpersBreakCalls'
  BY PidsApart DEF IInv, TypeOK, OnlyHelpersBreakCalls
<1>6. KindsOfProc' /\ DirOfWorker' /\ ProxyAtHome' /\ MembersInDirs'
  BY DEF IInv, KindsOfProc, DirOfWorker, ProxyAtHome, MembersInDirs
<1>7. QED
  BY <1>1, <1>2, <1>3, <1>4, <1>5, <1>6 DEF IInv

\* A call sets the limits of all processes of its list and runs its worker.
LEMMA LimitAndRunInv ==
  ASSUME IInv, NEW r \in Requests, LimitAndRun(r)
  PROVE  IInv'
<1> DEFINE list == pids[r]
<1>1. phase = "up" /\ r \in Caller /\ (Limit(list) \/ LimitFails(list))
  BY DEF IInv, ListsOfCalls, Caller, LimitAndRun
<1>2. /\ dirs' \subseteq Pids
      /\ cgroup' \in [Pids -> Pids \cup {"top"}]
      /\ limit' \in [Pids -> {"none", "proxy", "worker", "more"}]
      /\ \A p \in Pids : cgroup[p] = p => cgroup'[p] = p
      /\ \A w \in Workers :
           /\ proc[w] = "live" => (w \in dirs' <=> cgroup'[w] = w)
           /\ w \in dirs' => limit'[w] = "worker"
           /\ proc[w] = "unborn" => w \notin dirs'
           /\ Limit(list) /\ w \in list /\ proc[w] = "live" => cgroup'[w] = w
      /\ \A p \in Pids : proc[p] = "live" /\ cgroup'[p] # "top" => cgroup'[p] \in dirs'
      /\ limit'[Proxy] = limit[Proxy]
  BY <1>1, LimitStep DEF IInv
<1>3. LimitFails(list) => \E h \in Helpers : proc[h] = "gone"
  BY <1>1, FailedByHelper DEF IInv, TypeOK
<1> USE DEF LimitAndRun, leaseVars
<1>4. TypeOK'
  BY <1>1, <1>2, PidsApart DEF IInv, TypeOK
<1>5. UnbornUnknown'
  BY <1>1, <1>2, PidsApart DEF IInv, UnbornUnknown
<1>6. DirOfWorker'
  BY <1>2, PidsApart DEF IInv, DirOfWorker
<1>7. ProxyAtHome'
  BY <1>1, <1>2, PidsApart DEF IInv, TypeOK, ProxyAtHome
<1>8. MembersInDirs'
  BY <1>1, <1>2, PidsApart DEF IInv, ProxyAtHome, MembersInDirs
<1>9. ListsOfCalls'
  BY <1>1, <1>2, PidsApart DEF IInv, TypeOK, ListsOfCalls
<1>10. FreeWorkersLimited'
  BY <1>1, <1>2, PidsApart DEF IInv, TypeOK, KindsOfProc, ListsOfCalls,
     FreeWorkersLimited, Lease!Leased
<1>11. OnlyHelpersBreakCalls'
  BY <1>1, <1>3, PidsApart DEF IInv, TypeOK, OnlyHelpersBreakCalls
<1>12. KindsOfProc'
  BY DEF IInv, KindsOfProc
<1>13. QED
  BY <1>4, <1>5, <1>6, <1>7, <1>8, <1>9, <1>10, <1>11, <1>12 DEF IInv

\* The worker that is given back has its directory.
LEMMA EndRunInv ==
  ASSUME IInv, NEW r \in Requests, EndRun(r)
  PROVE  IInv'
<1> USE DEF EndRun, Lease!Return
<1>1. TypeOK'
  BY PidsApart DEF IInv, TypeOK
<1>2. ListsOfCalls'
  BY PidsApart DEF IInv, TypeOK, ListsOfCalls
<1>3. FreeWorkersLimited'
  BY PidsApart DEF IInv, TypeOK, ListsOfCalls, FreeWorkersLimited, Lease!Leased
<1>4. OnlyHelpersBreakCalls'
  BY PidsApart DEF IInv, TypeOK, OnlyHelpersBreakCalls
<1>5. KindsOfProc' /\ UnbornUnknown' /\ DirOfWorker' /\ ProxyAtHome' /\ MembersInDirs'
  BY DEF IInv, KindsOfProc, UnbornUnknown, DirOfWorker, ProxyAtHome, MembersInDirs
<1>6. QED
  BY <1>1, <1>2, <1>3, <1>4, <1>5 DEF IInv

\* No call has the worker that is killed.
LEMMA KilledInv ==
  ASSUME IInv, NEW w \in Workers, Killed(w)
  PROVE  IInv'
<1> USE DEF Killed, AfterKill, Lease!Retire
<1>1. TypeOK'
  BY PidsApart DEF IInv, TypeOK
<1>2. KindsOfProc'
  BY PidsApart DEF IInv, TypeOK, KindsOfProc
<1>3. UnbornUnknown'
  BY PidsApart DEF IInv, TypeOK, UnbornUnknown
<1>4. DirOfWorker'
  BY PidsApart DEF IInv, TypeOK, DirOfWorker
<1>5. ProxyAtHome'
  BY PidsApart DEF IInv, TypeOK, ProxyAtHome
<1>6. MembersInDirs'
  BY PidsApart DEF IInv, TypeOK, MembersInDirs
<1>7. ListsOfCalls'
  BY PidsApart DEF IInv, TypeOK, ListsOfCalls, Lease!Leased
<1>8. FreeWorkersLimited'
  BY PidsApart DEF IInv, TypeOK, ListsOfCalls, FreeWorkersLimited, Lease!Leased
<1>9. OnlyHelpersBreakCalls'
  BY PidsApart DEF IInv, TypeOK, KindsOfProc, OnlyHelpersBreakCalls
<1>10. QED
  BY <1>1, <1>2, <1>3, <1>4, <1>5, <1>6, <1>7, <1>8, <1>9 DEF IInv

\* A helper ends; it is no worker and not the proxy.
LEMMA HelperEndsInv ==
  ASSUME IInv, NEW h \in Helpers, HelperEnds(h)
  PROVE  IInv'
<1> USE DEF HelperEnds, leaseVars
<1>1. TypeOK'
  BY PidsApart DEF IInv, TypeOK
<1>2. KindsOfProc'
  BY PidsApart DEF IInv, TypeOK, KindsOfProc
<1>3. UnbornUnknown'
  BY PidsApart DEF IInv, TypeOK, UnbornUnknown
<1>4. DirOfWorker'
  BY PidsApart DEF IInv, TypeOK, DirOfWorker
<1>5. ProxyAtHome'
  BY PidsApart DEF IInv, TypeOK, ProxyAtHome
<1>6. MembersInDirs'
  BY PidsApart DEF IInv, TypeOK, MembersInDirs
<1>7. OnlyHelpersBreakCalls'
  BY PidsApart DEF IInv, TypeOK, OnlyHelpersBreakCalls
<1>8. FreeWorkersLimited'
  BY PidsApart DEF IInv, FreeWorkersLimited, Lease!Leased
<1>9. ListsOfCalls'
  BY DEF IInv, ListsOfCalls
<1>10. QED
  BY <1>1, <1>2, <1>3, <1>4, <1>5, <1>6, <1>7, <1>8, <1>9 DEF IInv

LEMMA InitIInv == Init => IInv
<1> SUFFICES ASSUME Init PROVE IInv
  OBVIOUS
<1> USE DEF Init, Lease!Init
<1>1. TypeOK
  BY PidsApart DEF TypeOK, Caller, Pids
<1>2. KindsOfProc
  BY PidsApart DEF KindsOfProc, Pids
<1>3. UnbornUnknown
  BY PidsApart DEF UnbornUnknown, Caller, Pids
<1>4. DirOfWorker
  BY PidsApart DEF DirOfWorker
<1>5. ProxyAtHome
  BY PidsApart DEF ProxyAtHome
<1>6. MembersInDirs
  BY PidsApart DEF MembersInDirs
<1>7. ListsOfCalls
  BY PidsApart DEF ListsOfCalls
<1>8. FreeWorkersLimited
  BY PidsApart DEF FreeWorkersLimited
<1>9. OnlyHelpersBreakCalls
  BY PidsApart DEF OnlyHelpersBreakCalls
<1>10. QED
  BY <1>1, <1>2, <1>3, <1>4, <1>5, <1>6, <1>7, <1>8, <1>9 DEF IInv

LEMMA StutterIInv ==
  ASSUME IInv, UNCHANGED vars
  PROVE  IInv'
<1> USE DEF vars, leaseVars
<1>1. TypeOK' /\ KindsOfProc' /\ UnbornUnknown' /\ DirOfWorker' /\ ProxyAtHome'
  BY DEF IInv, TypeOK, KindsOfProc, UnbornUnknown, DirOfWorker, ProxyAtHome
<1>2. MembersInDirs' /\ ListsOfCalls' /\ OnlyHelpersBreakCalls'
  BY DEF IInv, MembersInDirs, ListsOfCalls, OnlyHelpersBreakCalls
<1>3. FreeWorkersLimited'
  BY DEF IInv, FreeWorkersLimited, Lease!Leased
<1>4. QED
  BY <1>1, <1>2, <1>3 DEF IInv

LEMMA NextIInv == IInv /\ [Next]_vars => IInv'
<1> SUFFICES ASSUME IInv, [Next]_vars PROVE IInv'
  OBVIOUS
<1>1. CASE Create
  BY <1>1, WaitTopInv, WaitSetUpInv, WaitFailsInv DEF Create
<1>2. CASE InitTop \/ InitLimits \/ AdaptProxyCpu
  BY <1>2, InitTopInv, InitLimitsInv, AdaptInv
<1>3. CASE \E w \in Workers : PostInit(w) \/ Killed(w)
  BY <1>3, PostInitInv, KilledInv
<1>4. CASE \E h \in Helpers : HelperEnds(h)
  BY <1>4, HelperEndsInv
<1>5. CASE \E r \in Requests :
             SendIdle(r) \/ SendNew(r) \/ GetPids(r) \/ LimitAndRun(r) \/ EndRun(r)
  BY <1>5, SendIdleInv, SendNewInv, GetPidsInv, LimitAndRunInv, EndRunInv
<1>6. CASE UNCHANGED vars
  BY <1>6, StutterIInv
<1>7. QED
  BY <1>1, <1>2, <1>3, <1>4, <1>5, <1>6 DEF Next

-----------------------------------------------------------------------------
\* The invariant holds in every reachable state, for any calls, workers and helpers.
THEOREM Invariance == Spec => []IInv
BY InitIInv, NextIInv, PTL DEF Spec

\* The variables keep their types: lists and directories are of processes of the
\* container, and proxyPid never gets a worker.
THEOREM TypeCorrect == Spec => []TypeOK
BY Invariance, PTL DEF IInv

\* send_request: whoever made the directory, when the second pass starts (or the first
\* finds an idle worker) the worker is in a directory of its own with a worker's limits.
THEOREM LimitedWhenRunHolds == Spec => []LimitedWhenRun
<1>1. ASSUME IInv PROVE LimitedWhenRun
  <2> USE <1>1 DEF IInv
  <2>1. SUFFICES ASSUME NEW r \in Requests, pc[r] = "run"
                 PROVE  LET w == lease[r]
                        IN  cgroup[w] = w /\ w \in dirs /\ limit[w] = "worker"
    BY DEF LimitedWhenRun
  <2>2. lease[r] \in workers /\ cgroup[lease[r]] = lease[r]
    BY <2>1 DEF ListsOfCalls, FreeWorkersLimited
  <2>3. lease[r] \in Workers /\ proc[lease[r]] = "live"
    BY <2>2 DEF TypeOK, KindsOfProc
  <2>4. QED
    BY <2>2, <2>3 DEF DirOfWorker
<1>2. QED
  BY <1>1, Invariance, PTL

\* No death of a worker makes a call, init or adapt_proxy_cpu raise: a helper has ended.
THEOREM OnlyHelpersBreakCallsHolds == Spec => []OnlyHelpersBreakCalls
BY Invariance, PTL DEF IInv

\* No step removes a directory that has a member, or brings a process back.
LEMMA StepKeepsDirs ==
  ASSUME IInv, [Next]_vars
  PROVE  /\ Left \subseteq dirs'
         /\ \A w \in Workers : proc'[w] = "live" => proc[w] \in {"unborn", "live"}
<1>1. Left \subseteq dirs
  BY DEF Left
<1>2. proc \in [Pids -> {"unborn", "live", "zombie", "gone"}]
  BY DEF IInv, TypeOK
<1>3. CASE Create
  BY <1>1, <1>2, <1>3, PidsApart DEF Create, WaitTop, WaitSetUp, WaitFails, Made
<1>4. CASE InitTop \/ AdaptProxyCpu
  BY <1>1, <1>2, <1>4, PidsApart DEF InitTop, AdaptProxyCpu
<1>5. CASE InitLimits
  BY <1>2, <1>5, LimitMakes, PidsApart DEF InitLimits
<1>6. CASE \E w \in Workers : PostInit(w) \/ Killed(w)
  BY <1>1, <1>2, <1>6, PidsApart DEF PostInit, Born, Killed, AfterKill
<1>7. CASE \E h \in Helpers : HelperEnds(h)
  BY <1>1, <1>2, <1>7, PidsApart DEF HelperEnds
<1>8. ASSUME NEW r \in Requests,
             SendIdle(r) \/ SendNew(r) \/ GetPids(r) \/ LimitAndRun(r) \/ EndRun(r)
      PROVE  /\ Left \subseteq dirs'
             /\ \A w \in Workers : proc'[w] = "live" => proc[w] \in {"unborn", "live"}
  <2>1. CASE SendIdle(r) \/ GetPids(r) \/ EndRun(r)
    BY <1>1, <1>2, <2>1, PidsApart DEF SendIdle, GetPids, EndRun
  <2>2. CASE SendNew(r)
    BY <1>1, <1>2, <2>2, PidsApart DEF SendNew, Born
  <2>3. CASE LimitAndRun(r)
    BY <1>2, <2>3, LimitMakes, PidsApart DEF LimitAndRun
  <2>4. QED
    BY <1>8, <2>1, <2>2, <2>3
<1>9. CASE UNCHANGED vars
  BY <1>1, <1>2, <1>9, PidsApart DEF vars
<1>10. QED
  BY <1>3, <1>4, <1>5, <1>6, <1>7, <1>8, <1>9 DEF Next

\* Once init is over only adapt_proxy_cpu changes the proxy's share.
LEMMA StepKeepsProxy ==
  ASSUME IInv, [Next]_vars, phase = "up"
  PROVE  limit'[Proxy] \in {limit[Proxy], "more"}
<1>1. CASE Create
  BY <1>1 DEF Create, WaitTop, WaitSetUp, WaitFails
<1>2. CASE InitTop \/ InitLimits
  BY <1>2 DEF InitTop, InitLimits
<1>3. CASE AdaptProxyCpu
  BY <1>3, PidsApart DEF IInv, TypeOK, AdaptProxyCpu
<1>4. ASSUME NEW r \in Requests, LimitAndRun(r)
      PROVE  limit'[Proxy] = limit[Proxy]
  <2>1. r \in Caller /\ (Limit(pids[r]) \/ LimitFails(pids[r]))
    BY <1>4 DEF Caller, LimitAndRun
  <2>2. QED
    BY <2>1, LimitStep DEF IInv
<1>5. CASE \E w \in Workers : PostInit(w) \/ Killed(w)
  BY <1>5 DEF PostInit, Killed
<1>6. CASE \E h \in Helpers : HelperEnds(h)
  BY <1>6 DEF HelperEnds
<1>7. ASSUME NEW r \in Requests, SendIdle(r) \/ SendNew(r) \/ GetPids(r) \/ EndRun(r)
      PROVE  limit'[Proxy] = limit[Proxy]
  BY <1>7 DEF SendIdle, SendNew, GetPids, EndRun
<1>8. CASE UNCHANGED vars
  BY <1>8 DEF vars
<1>9. QED
  BY <1>1, <1>2, <1>3, <1>4, <1>5, <1>6, <1>7, <1>8 DEF Next

\* Once limited, a worker keeps its directory and its share until it is killed, and the
\* proxy what adapt_proxy_cpu gave it: neither a call that sets limits by an older list nor
\* adapt_proxy_cpu takes them away.
THEOREM LimitsStayHolds == Spec => LimitsStay
<1> DEFINE Stay ==
      /\ \A w \in Workers :
           w \in dirs /\ proc'[w] = "live" => cgroup'[w] = w /\ limit'[w] = limit[w]
      /\ phase = "up" => limit'[Proxy] \in {limit[Proxy], "more"}
<1>1. ASSUME IInv, IInv', [Next]_vars PROVE Stay
  <2>1. ASSUME NEW w \in Workers, w \in dirs, proc'[w] = "live"
        PROVE  cgroup'[w] = w /\ limit'[w] = limit[w]
    <3>1. proc[w] = "live"
      BY <1>1, <2>1, StepKeepsDirs DEF IInv, UnbornUnknown
    <3>2. cgroup[w] = w /\ limit[w] = "worker" /\ w \in Pids
      BY <1>1, <2>1, <3>1, PidsApart DEF IInv, DirOfWorker
    <3>3. w \in dirs'
      BY <1>1, <2>1, <3>1, <3>2, LeftKeepsMembers, StepKeepsDirs DEF IInv
    <3>4. QED
      BY <1>1, <2>1, <3>2, <3>3 DEF IInv, DirOfWorker
  <2>2. ASSUME phase = "up" PROVE limit'[Proxy] \in {limit[Proxy], "more"}
    BY <1>1, <2>2, StepKeepsProxy
  <2>3. QED
    BY <2>1, <2>2
<1>2. QED
  BY <1>1, Invariance, PTL DEF Spec, LimitsStay
=============================================================================
