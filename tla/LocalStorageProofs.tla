------------------------- MODULE LocalStorageProofs -------------------------
(***************************************************************************)
(* Proofs about LocalStorage for any number of requests, keys and threads: *)
(* the invariant IInv is inductive, and the safety properties the runs     *)
(* check follow from it.                                                   *)
(***************************************************************************)
EXTENDS LocalStorage, FiniteSetTheorems, TLAPS

\* A new store has no calls and no lock in use.
LEMMA InitIInv == Init => IInv
<1> SUFFICES ASSUME Init PROVE IInv  OBVIOUS
<1> USE StorageAssumption DEF Init, key
<1>1. TypeOK  BY DEF TypeOK, HasLockPtr, LockPc, CallPc, ClientPc
<1>2. CallsInOrder /\ CallsOfClient  BY DEF CallsInOrder, CallsOfClient
<1>3. \A r \in Requests : ~InSection(r) /\ ~HasId(r) /\ ~Updating(r)
  BY DEF InSection, HasId, Updating
<1>4. LockOfSection  BY <1>3 DEF LockOfSection
<1>5. IdOfKey  BY DEF IdOfKey, LockPc
<1>6. MutualExclusion  BY <1>3 DEF MutualExclusion
<1>7. HeldById  BY DEF HeldById
<1>8. LockedReadIsFresh  BY <1>3 DEF LockedReadIsFresh
<1>9. WrittenStaysFound  BY DEF WrittenStaysFound
<1>10. NoLostUpdate
  <2>1. \A k \in WrittenBefore : db[k] = 0 /\ Stored(k) = {}  BY DEF Stored
  <2> QED BY <2>1, FS_EmptySet DEF NoLostUpdate
<1> QED BY <1>1, <1>2, <1>4, <1>5, <1>6, <1>7, <1>8, <1>9, <1>10 DEF IInv

\* A step that changes nothing keeps the invariant.
LEMMA StutterInv == ASSUME IInv, UNCHANGED vars PROVE IInv'
<1>1. \A r \in Requests : /\ InSection(r)' = InSection(r)
                          /\ HasId(r)' = HasId(r)
                          /\ Updating(r)' = Updating(r)
  BY DEF InSection, HasId, Updating, vars
<1>2. \A k \in Keys : /\ Patient(k)' = Patient(k)
                      /\ Calm(k)' = Calm(k)
                      /\ Stored(k)' = Stored(k)
  BY DEF Patient, Calm, Stored, vars
<1>3. \A r \in Requests : key(r) \in Keys  BY StorageAssumption DEF key
<1>4. (TypeOK /\ CallsInOrder /\ CallsOfClient /\ IdOfKey /\ WrittenStaysFound)'
  BY DEF IInv, TypeOK, CallsInOrder, CallsOfClient, IdOfKey, WrittenStaysFound, vars
<1>5. (LockOfSection /\ MutualExclusion /\ HeldById)'
  BY <1>1, <1>2, <1>3, StorageAssumption
     DEF IInv, LockOfSection, MutualExclusion, HeldById, UsesLock, BetweenIdAndLock,
         LeftBehind, vars
<1>6. (LockedReadIsFresh /\ (store # "oss" => NoLostUpdate))'
  BY <1>1, <1>2, <1>3, StorageAssumption
     DEF IInv, LockedReadIsFresh, NoLostUpdate, vars
<1> QED BY <1>4, <1>5, <1>6 DEF IInv

\* What a step of r leaves alone: the calls of the others and the locks of other keys.
LockFrame(r) ==
  /\ \A s \in Requests \ {r} : rpc'[s] = rpc[s] /\ wpc'[s] = wpc[s] /\ seen'[s] = seen[s]
  /\ broken \subseteq broken'
  /\ \A k \in Keys \ {key(r)} :
       realLock'[k] = realLock[k] /\ request_id'[k] = request_id[k]

\* What it does to the lock of its key: it enters or leaves the lock, or is its user
\* afterwards, or lets the user be who it was.
KeyStaysHeld(r) ==
  realLock'[key(r)] =>
    \/ r \in Locked /\ BetweenIdAndLock(r)'
    \/ r \in Locked /\ request_id'[key(r)] = r /\ UsesLock(r)'
    \/ /\ realLock[key(r)]
       /\ request_id'[key(r)] = request_id[key(r)]
       /\ r \in Locked => /\ BetweenIdAndLock(r) => BetweenIdAndLock(r)'
                          /\ UsesLock(r) => UsesLock(r)'

\* A step that does no more than that keeps every held lock accounted for.
LEMMA HeldStep ==
  ASSUME HeldById, IdOfKey, NEW r \in Requests, LockFrame(r), KeyStaysHeld(r)
  PROVE  HeldById'
<1> SUFFICES ASSUME NEW k \in Keys, realLock'[k]
             PROVE  \E s \in Locked :
                      \/ key(s) = k /\ BetweenIdAndLock(s)'
                      \/ request_id'[k] = s /\ UsesLock(s)'
  BY DEF HeldById, key
<1>1. ASSUME NEW s \in Requests \ {r}
      PROVE  /\ BetweenIdAndLock(s) => BetweenIdAndLock(s)'
             /\ UsesLock(s) => UsesLock(s)'
  BY DEF LockFrame, BetweenIdAndLock, UsesLock, Updating, LeftBehind
<1>2. Locked \subseteq Requests  BY StorageAssumption
<1>3. CASE k # key(r)
  <2>1. realLock[k] /\ request_id'[k] = request_id[k]  BY <1>3 DEF LockFrame
  <2>2. request_id[k] # r  BY <1>3, StorageAssumption DEF IdOfKey
  <2>3. PICK s \in Locked : \/ key(s) = k /\ BetweenIdAndLock(s)
                            \/ request_id[k] = s /\ UsesLock(s)
    BY <2>1 DEF HeldById
  <2>4. s \in Requests \ {r}  BY <1>2, <1>3, <2>2, <2>3
  <2>5. \/ key(s) = k /\ BetweenIdAndLock(s)'
        \/ request_id'[k] = s /\ UsesLock(s)'
    BY <1>1, <2>1, <2>3, <2>4
  <2> QED BY <2>5
<1>4. CASE k = key(r)
  <2>1. CASE \/ r \in Locked /\ BetweenIdAndLock(r)'
             \/ r \in Locked /\ request_id'[k] = r /\ UsesLock(r)'
    BY <1>4, <2>1
  <2>2. CASE /\ realLock[k]
             /\ request_id'[k] = request_id[k]
             /\ r \in Locked => /\ BetweenIdAndLock(r) => BetweenIdAndLock(r)'
                                /\ UsesLock(r) => UsesLock(r)'
    <3>1. PICK s \in Locked : \/ key(s) = k /\ BetweenIdAndLock(s)
                              \/ request_id[k] = s /\ UsesLock(s)
      BY <2>2 DEF HeldById
    <3>2. \/ key(s) = k /\ BetweenIdAndLock(s)'
          \/ request_id'[k] = s /\ UsesLock(s)'
      BY <1>1, <1>2, <2>2, <3>1
    <3> QED BY <3>2
  <2> QED BY <1>4, <2>1, <2>2 DEF KeyStaysHeld
<1> QED BY <1>3, <1>4

\* One lemma per action: a step of the action keeps the invariant.
\* A function starts its read.
LEMMA StartReadInv == ASSUME IInv, NEW r \in Requests, StartRead(r) PROVE IInv'
<1> USE StorageAssumption DEF IInv, TypeOK, StartRead, ClientGoes,
      HasLockPtr, LockPc, CallPc, ClientPc, lockVars, rwVars, key
<1>1. TypeOK'  OBVIOUS
<1>2. (CallsInOrder /\ CallsOfClient)'  BY DEF CallsInOrder, CallsOfClient
<1>3. LockOfSection'
  BY DEF LockOfSection, InSection, HasId, Updating, Patient, CallsInOrder, CallsOfClient
<1>4. IdOfKey'  BY DEF IdOfKey
<1>5. MutualExclusion'  BY DEF MutualExclusion, InSection, Updating, Patient
<1>6. HeldById'
  <2>1. LockFrame(r)  BY DEF LockFrame
  <2>2. KeyStaysHeld(r)
    BY DEF KeyStaysHeld, BetweenIdAndLock, UsesLock, Updating, LeftBehind, CallsInOrder,
       CallsOfClient
  <2> QED BY <2>1, <2>2, HeldStep
<1>7. LockedReadIsFresh'  BY DEF LockedReadIsFresh, Updating, Calm, Patient
<1>8. WrittenStaysFound'  BY DEF WrittenStaysFound
<1>9. (store # "oss" => NoLostUpdate)'
  <2>1. \A k \in Keys : Stored(k)' = Stored(k)  BY DEF Stored
  <2> QED BY <2>1 DEF NoLostUpdate, Calm, Patient
<1> QED BY <1>1, <1>2, <1>3, <1>4, <1>5, <1>6, <1>7, <1>8, <1>9

\* The answer of a read reaches its function.
LEMMA GetReadInv == ASSUME IInv, NEW r \in Requests, GetRead(r) PROVE IInv'
<1> USE StorageAssumption DEF IInv, TypeOK, GetRead, ClientGoes,
      HasLockPtr, LockPc, CallPc, ClientPc, lockVars, rwVars, key
<1>1. TypeOK'  OBVIOUS
<1>2. (CallsInOrder /\ CallsOfClient)'  BY DEF CallsInOrder, CallsOfClient
<1>3. LockOfSection'  BY DEF LockOfSection, InSection, HasId, Updating, Patient
<1>4. IdOfKey'  BY DEF IdOfKey
<1>5. MutualExclusion'  BY DEF MutualExclusion, InSection, Updating, Patient
<1>6. HeldById'
  <2>1. LockFrame(r)  BY DEF LockFrame
  <2>2. KeyStaysHeld(r)
    BY DEF KeyStaysHeld, BetweenIdAndLock, UsesLock, Updating, LeftBehind, CallsInOrder,
       CallsOfClient
  <2> QED BY <2>1, <2>2, HeldStep
<1>7. LockedReadIsFresh'  BY DEF LockedReadIsFresh, Updating, Calm, Patient
<1>8. WrittenStaysFound'  BY DEF WrittenStaysFound
<1>9. (store # "oss" => NoLostUpdate)'
  <2>1. \A k \in Keys : Stored(k)' = Stored(k)  BY DEF Stored
  <2> QED BY <2>1 DEF NoLostUpdate, Calm, Patient
<1> QED BY <1>1, <1>2, <1>3, <1>4, <1>5, <1>6, <1>7, <1>8, <1>9

\* A read is given up, and nothing is claimed for its key any more.
LEMMA ReadTimeoutInv == ASSUME IInv, NEW r \in Requests, ReadTimeout(r) PROVE IInv'
<1> USE StorageAssumption DEF IInv, TypeOK, ReadTimeout, ClientGoes,
      HasLockPtr, LockPc, CallPc, ClientPc, lockVars, rwVars, key
<1>1. TypeOK'  OBVIOUS
<1>2. (CallsInOrder /\ CallsOfClient)'  BY DEF CallsInOrder, CallsOfClient
<1>3. LockOfSection'  BY DEF LockOfSection, InSection, HasId, Updating, Patient
<1>4. IdOfKey'  BY DEF IdOfKey
<1>5. MutualExclusion'  BY DEF MutualExclusion, InSection, Updating, Patient
<1>6. HeldById'
  <2>1. LockFrame(r)  BY DEF LockFrame
  <2>2. KeyStaysHeld(r)
    BY DEF KeyStaysHeld, BetweenIdAndLock, UsesLock, Updating, LeftBehind, CallsInOrder,
       CallsOfClient
  <2> QED BY <2>1, <2>2, HeldStep
<1>7. LockedReadIsFresh'  BY DEF LockedReadIsFresh, Updating, Calm, Patient
<1>8. WrittenStaysFound'  BY DEF WrittenStaysFound
<1>9. (store # "oss" => NoLostUpdate)'
  <2>1. \A k \in Keys : Stored(k)' = Stored(k)  BY DEF Stored
  <2> QED BY <2>1 DEF NoLostUpdate, Calm, Patient
<1> QED BY <1>1, <1>2, <1>3, <1>4, <1>5, <1>6, <1>7, <1>8, <1>9

\* A function starts its write.
LEMMA StartWriteInv == ASSUME IInv, NEW r \in Requests, StartWrite(r) PROVE IInv'
<1> USE StorageAssumption DEF IInv, TypeOK, StartWrite, ClientGoes,
      HasLockPtr, LockPc, CallPc, ClientPc, lockVars, rwVars, key
<1>1. TypeOK'  OBVIOUS
<1>2. (CallsInOrder /\ CallsOfClient)'  BY DEF CallsInOrder, CallsOfClient
<1>3. LockOfSection'
  BY DEF LockOfSection, InSection, HasId, Updating, Patient, CallsOfClient
<1>4. IdOfKey'  BY DEF IdOfKey
<1>5. MutualExclusion'
  BY DEF MutualExclusion, InSection, Updating, Patient, CallsOfClient
<1>6. HeldById'
  <2>1. LockFrame(r)  BY DEF LockFrame
  <2>2. KeyStaysHeld(r)
    BY DEF KeyStaysHeld, BetweenIdAndLock, UsesLock, Updating, LeftBehind, CallsInOrder,
       CallsOfClient
  <2> QED BY <2>1, <2>2, HeldStep
<1>7. LockedReadIsFresh'  BY DEF LockedReadIsFresh, Updating, Calm, Patient, CallsOfClient
<1>8. WrittenStaysFound'  BY DEF WrittenStaysFound
<1>9. (store # "oss" => NoLostUpdate)'
  <2>1. \A k \in Keys : Calm(k)' => Stored(k)' = Stored(k)
    BY DEF Stored, Calm, Patient, CallsOfClient
  <2> QED BY <2>1 DEF NoLostUpdate, Calm, Patient
<1> QED BY <1>1, <1>2, <1>3, <1>4, <1>5, <1>6, <1>7, <1>8, <1>9

\* The answer of a write reaches its function.
LEMMA GetWrittenInv == ASSUME IInv, NEW r \in Requests, GetWritten(r) PROVE IInv'
<1> USE StorageAssumption DEF IInv, TypeOK, GetWritten, ClientGoes,
      HasLockPtr, LockPc, CallPc, ClientPc, lockVars, rwVars, key
<1>1. TypeOK'  OBVIOUS
<1>2. (CallsInOrder /\ CallsOfClient)'  BY DEF CallsInOrder, CallsOfClient
<1>3. LockOfSection'  BY DEF LockOfSection, InSection, HasId, Updating, Patient
<1>4. IdOfKey'  BY DEF IdOfKey
<1>5. MutualExclusion'  BY DEF MutualExclusion, InSection, Updating, Patient
<1>6. HeldById'
  <2>1. LockFrame(r)  BY DEF LockFrame
  <2>2. KeyStaysHeld(r)
    BY DEF KeyStaysHeld, BetweenIdAndLock, UsesLock, Updating, LeftBehind, CallsInOrder,
       CallsOfClient
  <2> QED BY <2>1, <2>2, HeldStep
<1>7. LockedReadIsFresh'  BY DEF LockedReadIsFresh, Updating, Calm, Patient
<1>8. WrittenStaysFound'  BY DEF WrittenStaysFound
<1>9. (store # "oss" => NoLostUpdate)'
  <2>1. \A k \in Keys : Stored(k)' = Stored(k)  BY DEF Stored
  <2> QED BY <2>1 DEF NoLostUpdate, Calm, Patient
<1> QED BY <1>1, <1>2, <1>3, <1>4, <1>5, <1>6, <1>7, <1>8, <1>9

\* A write is given up.
LEMMA WriteTimeoutInv == ASSUME IInv, NEW r \in Requests, WriteTimeout(r) PROVE IInv'
<1> USE StorageAssumption DEF IInv, TypeOK, WriteTimeout, ClientGoes,
      HasLockPtr, LockPc, CallPc, ClientPc, lockVars, rwVars, key
<1>1. TypeOK'  OBVIOUS
<1>2. (CallsInOrder /\ CallsOfClient)'  BY DEF CallsInOrder, CallsOfClient
<1>3. LockOfSection'  BY DEF LockOfSection, InSection, HasId, Updating, Patient
<1>4. IdOfKey'  BY DEF IdOfKey
<1>5. MutualExclusion'  BY DEF MutualExclusion, InSection, Updating, Patient
<1>6. HeldById'
  <2>1. LockFrame(r)  BY DEF LockFrame
  <2>2. KeyStaysHeld(r)
    BY DEF KeyStaysHeld, BetweenIdAndLock, UsesLock, Updating, LeftBehind, CallsInOrder,
       CallsOfClient
  <2> QED BY <2>1, <2>2, HeldStep
<1>7. LockedReadIsFresh'  BY DEF LockedReadIsFresh, Updating, Calm, Patient
<1>8. WrittenStaysFound'  BY DEF WrittenStaysFound
<1>9. (store # "oss" => NoLostUpdate)'
  <2>1. \A k \in Keys : Stored(k)' = Stored(k)  BY DEF Stored
  <2> QED BY <2>1 DEF NoLostUpdate, Calm, Patient
<1> QED BY <1>1, <1>2, <1>3, <1>4, <1>5, <1>6, <1>7, <1>8, <1>9

\* A function ends without its write.
LEMMA DropInv == ASSUME IInv, NEW r \in Requests, Drop(r) PROVE IInv'
<1> USE StorageAssumption DEF IInv, TypeOK, Drop, ClientGoes,
      HasLockPtr, LockPc, CallPc, ClientPc, lockVars, rwVars, key
<1>1. TypeOK'  OBVIOUS
<1>2. (CallsInOrder /\ CallsOfClient)'  BY DEF CallsInOrder, CallsOfClient
<1>3. LockOfSection'  BY DEF LockOfSection, InSection, HasId, Updating, Patient
<1>4. IdOfKey'  BY DEF IdOfKey
<1>5. MutualExclusion'  BY DEF MutualExclusion, InSection, Updating, Patient
<1>6. HeldById'
  <2>1. LockFrame(r)  BY DEF LockFrame
  <2>2. KeyStaysHeld(r)
    BY DEF KeyStaysHeld, BetweenIdAndLock, UsesLock, Updating, LeftBehind, CallsInOrder,
       CallsOfClient
  <2> QED BY <2>1, <2>2, HeldStep
<1>7. LockedReadIsFresh'  BY DEF LockedReadIsFresh, Updating, Calm, Patient
<1>8. WrittenStaysFound'  BY DEF WrittenStaysFound
<1>9. (store # "oss" => NoLostUpdate)'
  <2>1. \A k \in Keys : Stored(k)' = Stored(k)  BY DEF Stored
  <2> QED BY <2>1 DEF NoLostUpdate, Calm, Patient
<1> QED BY <1>1, <1>2, <1>3, <1>4, <1>5, <1>6, <1>7, <1>8, <1>9

\* A thread takes a read.
LEMMA AcceptReadInv == ASSUME IInv, NEW r \in Requests, AcceptRead(r) PROVE IInv'
<1> USE StorageAssumption DEF IInv, TypeOK, AcceptRead, ReadGoes,
      HasLockPtr, LockPc, CallPc, ClientPc, lockVars, rwVars, key
<1>1. TypeOK'  OBVIOUS
<1>2. (CallsInOrder /\ CallsOfClient)'  BY DEF CallsInOrder, CallsOfClient
<1>3. LockOfSection'  BY DEF LockOfSection, InSection, HasId, Updating, Patient
<1>4. IdOfKey'  BY DEF IdOfKey
<1>5. MutualExclusion'  BY DEF MutualExclusion, InSection, Updating, Patient
<1>6. HeldById'
  <2>1. LockFrame(r)  BY DEF LockFrame
  <2>2. KeyStaysHeld(r)
    BY DEF KeyStaysHeld, BetweenIdAndLock, UsesLock, Updating, LeftBehind, CallsInOrder,
       CallsOfClient
  <2> QED BY <2>1, <2>2, HeldStep
<1>7. LockedReadIsFresh'  BY DEF LockedReadIsFresh, Updating, Calm, Patient
<1>8. WrittenStaysFound'  BY DEF WrittenStaysFound
<1>9. (store # "oss" => NoLostUpdate)'
  <2>1. \A k \in Keys : Stored(k)' = Stored(k)  BY DEF Stored
  <2> QED BY <2>1 DEF NoLostUpdate, Calm, Patient
<1> QED BY <1>1, <1>2, <1>3, <1>4, <1>5, <1>6, <1>7, <1>8, <1>9

\* A read finds no lock, so it finds no value either and enters no section.
LEMMA NoLockInv == ASSUME IInv, NEW r \in Requests, NoLock(r) PROVE IInv'
<1> USE StorageAssumption DEF IInv, TypeOK, NoLock, ReadGoes,
      HasLockPtr, LockPc, CallPc, ClientPc, lockVars, rwVars, key
<1>1. TypeOK'  OBVIOUS
<1>2. (CallsInOrder /\ CallsOfClient)'  BY DEF CallsInOrder, CallsOfClient
<1>3. LockOfSection'
  BY DEF LockOfSection, InSection, HasId, Updating, Patient, CallsInOrder, CallsOfClient
<1>4. IdOfKey'  BY DEF IdOfKey
<1>5. MutualExclusion'
  BY DEF MutualExclusion, InSection, Updating, Patient, CallsInOrder, CallsOfClient
<1>6. HeldById'
  <2>1. LockFrame(r)  BY DEF LockFrame
  <2>2. KeyStaysHeld(r)
    BY DEF KeyStaysHeld, BetweenIdAndLock, UsesLock, Updating, LeftBehind, CallsInOrder,
       CallsOfClient
  <2> QED BY <2>1, <2>2, HeldStep
<1>7. LockedReadIsFresh'
  BY DEF LockedReadIsFresh, Updating, Calm, Patient, CallsInOrder, CallsOfClient
<1>8. WrittenStaysFound'  BY DEF WrittenStaysFound
<1>9. (store # "oss" => NoLostUpdate)'
  <2>1. \A k \in Keys : Stored(k)' = Stored(k)  BY DEF Stored
  <2> QED BY <2>1 DEF NoLostUpdate, Calm, Patient
<1> QED BY <1>1, <1>2, <1>3, <1>4, <1>5, <1>6, <1>7, <1>8, <1>9

\* A read finds the lock of its key.
LEMMA FindLockInv == ASSUME IInv, NEW r \in Requests, FindLock(r) PROVE IInv'
<1> USE StorageAssumption DEF IInv, TypeOK, FindLock, ReadGoes,
      HasLockPtr, LockPc, CallPc, ClientPc, lockVars, rwVars, key
<1>1. TypeOK'  OBVIOUS
<1>2. (CallsInOrder /\ CallsOfClient)'  BY DEF CallsInOrder, CallsOfClient
<1>3. LockOfSection'  BY DEF LockOfSection, InSection, HasId, Updating, Patient
<1>4. IdOfKey'  BY DEF IdOfKey
<1>5. MutualExclusion'  BY DEF MutualExclusion, InSection, Updating, Patient
<1>6. HeldById'
  <2>1. LockFrame(r)  BY DEF LockFrame
  <2>2. KeyStaysHeld(r)
    BY DEF KeyStaysHeld, BetweenIdAndLock, UsesLock, Updating, LeftBehind, CallsInOrder,
       CallsOfClient
  <2> QED BY <2>1, <2>2, HeldStep
<1>7. LockedReadIsFresh'  BY DEF LockedReadIsFresh, Updating, Calm, Patient
<1>8. WrittenStaysFound'  BY DEF WrittenStaysFound
<1>9. (store # "oss" => NoLostUpdate)'
  <2>1. \A k \in Keys : Stored(k)' = Stored(k)  BY DEF Stored
  <2> QED BY <2>1 DEF NoLostUpdate, Calm, Patient
<1> QED BY <1>1, <1>2, <1>3, <1>4, <1>5, <1>6, <1>7, <1>8, <1>9

\* A read compares its id with the one in the lock.
LEMMA ReadOnLockInv == ASSUME IInv, NEW r \in Requests, ReadOnLock(r) PROVE IInv'
<1> USE StorageAssumption DEF IInv, TypeOK, ReadOnLock, ReadGoes, OwnsLock,
      HasLockPtr, LockPc, CallPc, ClientPc, lockVars, rwVars, key
<1>1. TypeOK'  OBVIOUS
<1>2. (CallsInOrder /\ CallsOfClient)'  BY DEF CallsInOrder, CallsOfClient
<1>3. LockOfSection'  BY DEF LockOfSection, InSection, HasId, Updating, Patient
<1>4. IdOfKey'  BY DEF IdOfKey
<1>5. MutualExclusion'
  BY DEF MutualExclusion, InSection, HasId, Updating, Patient, LockOfSection,
     CallsOfClient
<1>6. HeldById'
  <2>1. LockFrame(r)  BY DEF LockFrame
  <2>2. KeyStaysHeld(r)
    BY DEF KeyStaysHeld, BetweenIdAndLock, UsesLock, Updating, LeftBehind, CallsInOrder,
       CallsOfClient
  <2> QED BY <2>1, <2>2, HeldStep
<1>7. LockedReadIsFresh'  BY DEF LockedReadIsFresh, Updating, Calm, Patient
<1>8. WrittenStaysFound'  BY DEF WrittenStaysFound
<1>9. (store # "oss" => NoLostUpdate)'
  <2>1. \A k \in Keys : Stored(k)' = Stored(k)  BY DEF Stored
  <2> QED BY <2>1 DEF NoLostUpdate, Calm, Patient
<1> QED BY <1>1, <1>2, <1>3, <1>4, <1>5, <1>6, <1>7, <1>8, <1>9

\* A free lock has no section, so a read may enter one.
LEMMA ReadTakesInv == ASSUME IInv, NEW r \in Requests, ReadTakes(r) PROVE IInv'
<1> USE StorageAssumption DEF IInv, TypeOK, ReadTakes, ReadGoes, OnLockTakes,
      HasLockPtr, LockPc, CallPc, ClientPc, lockVars, rwVars, key
<1>1. TypeOK'  OBVIOUS
<1>2. (CallsInOrder /\ CallsOfClient)'  BY DEF CallsInOrder, CallsOfClient
<1>3. LockOfSection'  BY DEF LockOfSection, InSection, HasId, Updating, Patient
<1>4. IdOfKey'  BY DEF IdOfKey
<1>5. MutualExclusion'
  BY DEF MutualExclusion, InSection, Updating, Patient, LockOfSection
<1>6. HeldById'
  <2>1. LockFrame(r)  BY DEF LockFrame
  <2>2. KeyStaysHeld(r)
    BY DEF KeyStaysHeld, BetweenIdAndLock, UsesLock, Updating, LeftBehind, CallsInOrder,
       CallsOfClient, IdOfKey
  <2> QED BY <2>1, <2>2, HeldStep
<1>7. LockedReadIsFresh'  BY DEF LockedReadIsFresh, Updating, Calm, Patient
<1>8. WrittenStaysFound'  BY DEF WrittenStaysFound
<1>9. (store # "oss" => NoLostUpdate)'
  <2>1. \A k \in Keys : Stored(k)' = Stored(k)  BY DEF Stored
  <2> QED BY <2>1 DEF NoLostUpdate, Calm, Patient
<1> QED BY <1>1, <1>2, <1>3, <1>4, <1>5, <1>6, <1>7, <1>8, <1>9

\* A read stores its id in the lock it has taken.
LEMMA ReadSetsIdInv == ASSUME IInv, NEW r \in Requests, ReadSetsId(r) PROVE IInv'
<1> USE StorageAssumption DEF IInv, TypeOK, ReadSetsId, ReadGoes, OnLockSetsId,
      HasLockPtr, LockPc, CallPc, ClientPc, lockVars, rwVars, key
<1>1. TypeOK'  OBVIOUS
<1>2. (CallsInOrder /\ CallsOfClient)'  BY DEF CallsInOrder, CallsOfClient
<1>3. LockOfSection'
  BY DEF LockOfSection, InSection, HasId, Updating, Patient, CallsOfClient, IdOfKey,
     MutualExclusion
<1>4. IdOfKey'  BY DEF IdOfKey
<1>5. MutualExclusion'  BY DEF MutualExclusion, InSection, Updating, Patient
<1>6. HeldById'
  <2>1. LockFrame(r)  BY DEF LockFrame
  <2>2. KeyStaysHeld(r)
    BY DEF KeyStaysHeld, BetweenIdAndLock, UsesLock, Updating, LeftBehind, CallsInOrder,
       CallsOfClient, IdOfKey
  <2> QED BY <2>1, <2>2, HeldStep
<1>7. LockedReadIsFresh'  BY DEF LockedReadIsFresh, Updating, Calm, Patient
<1>8. WrittenStaysFound'  BY DEF WrittenStaysFound
<1>9. (store # "oss" => NoLostUpdate)'
  <2>1. \A k \in Keys : Stored(k)' = Stored(k)  BY DEF Stored
  <2> QED BY <2>1 DEF NoLostUpdate, Calm, Patient
<1> QED BY <1>1, <1>2, <1>3, <1>4, <1>5, <1>6, <1>7, <1>8, <1>9

\* A read that finds a value stays in its section.
LEMMA ReadHitInv == ASSUME IInv, NEW r \in Requests, ReadHit(r) PROVE IInv'
<1> USE StorageAssumption DEF IInv, TypeOK, ReadHit, ReadGoes, AfterHit,
      HasLockPtr, LockPc, CallPc, ClientPc, lockVars, rwVars, key
<1>1. TypeOK'  OBVIOUS
<1>2. (CallsInOrder /\ CallsOfClient)'  BY DEF CallsInOrder, CallsOfClient
<1>3. LockOfSection'
  BY DEF LockOfSection, InSection, HasId, Updating, Patient, CallsInOrder, CallsOfClient
<1>4. IdOfKey'  BY DEF IdOfKey
<1>5. MutualExclusion'  BY DEF MutualExclusion, InSection, Updating, Patient
<1>6. HeldById'
  <2>1. LockFrame(r)  BY DEF LockFrame
  <2>2. KeyStaysHeld(r)
    BY DEF KeyStaysHeld, BetweenIdAndLock, UsesLock, Updating, LeftBehind, CallsInOrder,
       CallsOfClient
  <2> QED BY <2>1, <2>2, HeldStep
<1>7. LockedReadIsFresh'
  BY DEF LockedReadIsFresh, Updating, Calm, Patient, CallsInOrder, CallsOfClient
<1>8. WrittenStaysFound'  BY DEF WrittenStaysFound, CallsOfClient
<1>9. (store # "oss" => NoLostUpdate)'
  <2>1. \A k \in Keys : Stored(k)' = Stored(k)  BY DEF Stored
  <2> QED BY <2>1 DEF NoLostUpdate, Calm, Patient
<1> QED BY <1>1, <1>2, <1>3, <1>4, <1>5, <1>6, <1>7, <1>8, <1>9

\* A read that finds no value is about to leave its section.
LEMMA ReadMissInv == ASSUME IInv, NEW r \in Requests, ReadMiss(r) PROVE IInv'
<1> USE StorageAssumption DEF IInv, TypeOK, ReadMiss, ReadGoes,
      HasLockPtr, LockPc, CallPc, ClientPc, lockVars, rwVars, key
<1>1. TypeOK'  OBVIOUS
<1>2. (CallsInOrder /\ CallsOfClient)'  BY DEF CallsInOrder, CallsOfClient
<1>3. LockOfSection'  BY DEF LockOfSection, InSection, HasId, Updating, Patient
<1>4. IdOfKey'  BY DEF IdOfKey
<1>5. MutualExclusion'  BY DEF MutualExclusion, InSection, Updating, Patient
<1>6. HeldById'
  <2>1. LockFrame(r)  BY DEF LockFrame
  <2>2. KeyStaysHeld(r)
    BY DEF KeyStaysHeld, BetweenIdAndLock, UsesLock, Updating, LeftBehind, CallsInOrder,
       CallsOfClient
  <2> QED BY <2>1, <2>2, HeldStep
<1>7. LockedReadIsFresh'  BY DEF LockedReadIsFresh, Updating, Calm, Patient
<1>8. WrittenStaysFound'  BY DEF WrittenStaysFound
<1>9. (store # "oss" => NoLostUpdate)'
  <2>1. \A k \in Keys : Stored(k)' = Stored(k)  BY DEF Stored
  <2> QED BY <2>1 DEF NoLostUpdate, Calm, Patient
<1> QED BY <1>1, <1>2, <1>3, <1>4, <1>5, <1>6, <1>7, <1>8, <1>9

\* The first half of offLock in a read.
LEMMA ReadClearsIdInv == ASSUME IInv, NEW r \in Requests, ReadClearsId(r) PROVE IInv'
<1> USE StorageAssumption DEF IInv, TypeOK, ReadClearsId, ReadGoes, OffLockClearsId,
      HasLockPtr, LockPc, CallPc, ClientPc, lockVars, rwVars, key
<1>1. TypeOK'  OBVIOUS
<1>2. (CallsInOrder /\ CallsOfClient)'  BY DEF CallsInOrder, CallsOfClient
<1>3. LockOfSection'
  BY DEF LockOfSection, InSection, HasId, Updating, Patient, CallsOfClient, IdOfKey
<1>4. IdOfKey'  BY DEF IdOfKey
<1>5. MutualExclusion'  BY DEF MutualExclusion, InSection, Updating, Patient
<1>6. HeldById'
  <2>1. LockFrame(r)  BY DEF LockFrame
  <2>2. KeyStaysHeld(r)
    BY DEF KeyStaysHeld, BetweenIdAndLock, UsesLock, Updating, LeftBehind, CallsInOrder,
       CallsOfClient, IdOfKey
  <2> QED BY <2>1, <2>2, HeldStep
<1>7. LockedReadIsFresh'  BY DEF LockedReadIsFresh, Updating, Calm, Patient
<1>8. WrittenStaysFound'  BY DEF WrittenStaysFound
<1>9. (store # "oss" => NoLostUpdate)'
  <2>1. \A k \in Keys : Stored(k)' = Stored(k)  BY DEF Stored
  <2> QED BY <2>1 DEF NoLostUpdate, Calm, Patient
<1> QED BY <1>1, <1>2, <1>3, <1>4, <1>5, <1>6, <1>7, <1>8, <1>9

\* The second half of offLock in a read.
LEMMA ReadUnlocksInv == ASSUME IInv, NEW r \in Requests, ReadUnlocks(r) PROVE IInv'
<1> USE StorageAssumption DEF IInv, TypeOK, ReadUnlocks, ReadGoes, OffLockUnlocks, Unlock,
      HasLockPtr, LockPc, CallPc, ClientPc, lockVars, rwVars, key
<1>1. TypeOK'  OBVIOUS
<1>2. (CallsInOrder /\ CallsOfClient)'  BY DEF CallsInOrder, CallsOfClient
<1>3. LockOfSection'
  BY DEF LockOfSection, InSection, HasId, Updating, Patient, CallsInOrder, CallsOfClient,
     IdOfKey, MutualExclusion
<1>4. IdOfKey'  BY DEF IdOfKey
<1>5. MutualExclusion'  BY DEF MutualExclusion, InSection, Updating, Patient
<1>6. HeldById'
  <2>1. LockFrame(r)  BY DEF LockFrame
  <2>2. KeyStaysHeld(r)
    BY DEF KeyStaysHeld, BetweenIdAndLock, UsesLock, Updating, LeftBehind, CallsInOrder,
       CallsOfClient
  <2> QED BY <2>1, <2>2, HeldStep
<1>7. LockedReadIsFresh'
  BY DEF LockedReadIsFresh, Updating, Calm, Patient, CallsInOrder, CallsOfClient
<1>8. WrittenStaysFound'  BY DEF WrittenStaysFound
<1>9. (store # "oss" => NoLostUpdate)'
  <2>1. \A k \in Keys : Stored(k)' = Stored(k)  BY DEF Stored
  <2> QED BY <2>1 DEF NoLostUpdate, Calm, Patient
<1> QED BY <1>1, <1>2, <1>3, <1>4, <1>5, <1>6, <1>7, <1>8, <1>9

\* A thread takes a write.
LEMMA AcceptWriteInv == ASSUME IInv, NEW r \in Requests, AcceptWrite(r) PROVE IInv'
<1> USE StorageAssumption DEF IInv, TypeOK, AcceptWrite, WriteGoes,
      HasLockPtr, LockPc, CallPc, ClientPc, lockVars, rwVars, key
<1>1. TypeOK'  OBVIOUS
<1>2. (CallsInOrder /\ CallsOfClient)'  BY DEF CallsInOrder, CallsOfClient
<1>3. LockOfSection'  BY DEF LockOfSection, InSection, HasId, Updating, Patient
<1>4. IdOfKey'  BY DEF IdOfKey
<1>5. MutualExclusion'  BY DEF MutualExclusion, InSection, Updating, Patient
<1>6. HeldById'
  <2>1. LockFrame(r)  BY DEF LockFrame
  <2>2. KeyStaysHeld(r)
    BY DEF KeyStaysHeld, BetweenIdAndLock, UsesLock, Updating, LeftBehind, CallsInOrder,
       CallsOfClient
  <2> QED BY <2>1, <2>2, HeldStep
<1>7. LockedReadIsFresh'  BY DEF LockedReadIsFresh, Updating, Calm, Patient
<1>8. WrittenStaysFound'  BY DEF WrittenStaysFound
<1>9. (store # "oss" => NoLostUpdate)'
  <2>1. \A k \in Keys : Stored(k)' = Stored(k)  BY DEF Stored
  <2> QED BY <2>1 DEF NoLostUpdate, Calm, Patient
<1> QED BY <1>1, <1>2, <1>3, <1>4, <1>5, <1>6, <1>7, <1>8, <1>9

\* A write finds the lock of its key or makes it.
LEMMA FindOrMakeLockInv == ASSUME IInv, NEW r \in Requests, FindOrMakeLock(r) PROVE IInv'
<1> USE StorageAssumption DEF IInv, TypeOK, FindOrMakeLock, WriteGoes, MakeLock,
      HasLockPtr, LockPc, CallPc, ClientPc, lockVars, rwVars, key
<1>1. TypeOK'  OBVIOUS
<1>2. (CallsInOrder /\ CallsOfClient)'  BY DEF CallsInOrder, CallsOfClient
<1>3. LockOfSection'  BY DEF LockOfSection, InSection, HasId, Updating, Patient
<1>4. IdOfKey'  BY DEF IdOfKey
<1>5. MutualExclusion'  BY DEF MutualExclusion, InSection, Updating, Patient
<1>6. HeldById'
  <2>1. LockFrame(r)  BY DEF LockFrame
  <2>2. KeyStaysHeld(r)
    BY DEF KeyStaysHeld, BetweenIdAndLock, UsesLock, Updating, LeftBehind, CallsInOrder,
       CallsOfClient
  <2> QED BY <2>1, <2>2, HeldStep
<1>7. LockedReadIsFresh'  BY DEF LockedReadIsFresh, Updating, Calm, Patient
<1>8. WrittenStaysFound'  BY DEF WrittenStaysFound
<1>9. (store # "oss" => NoLostUpdate)'
  <2>1. \A k \in Keys : Stored(k)' = Stored(k)  BY DEF Stored
  <2> QED BY <2>1 DEF NoLostUpdate, Calm, Patient
<1> QED BY <1>1, <1>2, <1>3, <1>4, <1>5, <1>6, <1>7, <1>8, <1>9

\* A write of an update finds its own id in the lock, another one does not.
LEMMA WriteOnLockInv == ASSUME IInv, NEW r \in Requests, WriteOnLock(r) PROVE IInv'
<1> USE StorageAssumption DEF IInv, TypeOK, WriteOnLock, WriteGoes, OwnsLock,
      HasLockPtr, LockPc, CallPc, ClientPc, lockVars, rwVars, key
<1>1. TypeOK'  OBVIOUS
<1>2. (CallsInOrder /\ CallsOfClient)'  BY DEF CallsInOrder, CallsOfClient
<1>3. LockOfSection'  BY DEF LockOfSection, InSection, HasId, Updating, Patient
<1>4. IdOfKey'  BY DEF IdOfKey
<1>5. MutualExclusion'
  BY DEF MutualExclusion, InSection, HasId, Updating, Patient, LockOfSection,
     CallsOfClient
<1>6. HeldById'
  <2>1. LockFrame(r)  BY DEF LockFrame
  <2>2. KeyStaysHeld(r)
    BY DEF KeyStaysHeld, BetweenIdAndLock, UsesLock, Updating, LeftBehind, CallsInOrder,
       CallsOfClient
  <2> QED BY <2>1, <2>2, HeldStep
<1>7. LockedReadIsFresh'  BY DEF LockedReadIsFresh, Updating, Calm, Patient
<1>8. WrittenStaysFound'  BY DEF WrittenStaysFound
<1>9. (store # "oss" => NoLostUpdate)'
  <2>1. \A k \in Keys : Stored(k)' = Stored(k)  BY DEF Stored
  <2> QED BY <2>1 DEF NoLostUpdate, Calm, Patient
<1> QED BY <1>1, <1>2, <1>3, <1>4, <1>5, <1>6, <1>7, <1>8, <1>9

\* A free lock has no section, so a write may enter one.
LEMMA WriteTakesInv == ASSUME IInv, NEW r \in Requests, WriteTakes(r) PROVE IInv'
<1> USE StorageAssumption DEF IInv, TypeOK, WriteTakes, WriteGoes, OnLockTakes,
      HasLockPtr, LockPc, CallPc, ClientPc, lockVars, rwVars, key
<1>1. TypeOK'  OBVIOUS
<1>2. (CallsInOrder /\ CallsOfClient)'  BY DEF CallsInOrder, CallsOfClient
<1>3. LockOfSection'  BY DEF LockOfSection, InSection, HasId, Updating, Patient
<1>4. IdOfKey'  BY DEF IdOfKey
<1>5. MutualExclusion'
  BY DEF MutualExclusion, InSection, Updating, Patient, LockOfSection
<1>6. HeldById'
  <2>1. LockFrame(r)  BY DEF LockFrame
  <2>2. KeyStaysHeld(r)
    BY DEF KeyStaysHeld, BetweenIdAndLock, UsesLock, Updating, LeftBehind, CallsInOrder,
       CallsOfClient, IdOfKey
  <2> QED BY <2>1, <2>2, HeldStep
<1>7. LockedReadIsFresh'  BY DEF LockedReadIsFresh, Updating, Calm, Patient
<1>8. WrittenStaysFound'  BY DEF WrittenStaysFound
<1>9. (store # "oss" => NoLostUpdate)'
  <2>1. \A k \in Keys : Stored(k)' = Stored(k)  BY DEF Stored
  <2> QED BY <2>1 DEF NoLostUpdate, Calm, Patient
<1> QED BY <1>1, <1>2, <1>3, <1>4, <1>5, <1>6, <1>7, <1>8, <1>9

\* A write stores its id in the lock it has taken.
LEMMA WriteSetsIdInv == ASSUME IInv, NEW r \in Requests, WriteSetsId(r) PROVE IInv'
<1> USE StorageAssumption DEF IInv, TypeOK, WriteSetsId, WriteGoes, OnLockSetsId,
      HasLockPtr, LockPc, CallPc, ClientPc, lockVars, rwVars, key
<1>1. TypeOK'  OBVIOUS
<1>2. (CallsInOrder /\ CallsOfClient)'  BY DEF CallsInOrder, CallsOfClient
<1>3. LockOfSection'
  BY DEF LockOfSection, InSection, HasId, Updating, Patient, CallsOfClient, IdOfKey,
     MutualExclusion
<1>4. IdOfKey'  BY DEF IdOfKey
<1>5. MutualExclusion'  BY DEF MutualExclusion, InSection, Updating, Patient
<1>6. HeldById'
  <2>1. LockFrame(r)  BY DEF LockFrame
  <2>2. KeyStaysHeld(r)
    BY DEF KeyStaysHeld, BetweenIdAndLock, UsesLock, Updating, LeftBehind, CallsInOrder,
       CallsOfClient, IdOfKey
  <2> QED BY <2>1, <2>2, HeldStep
<1>7. LockedReadIsFresh'  BY DEF LockedReadIsFresh, Updating, Calm, Patient
<1>8. WrittenStaysFound'  BY DEF WrittenStaysFound
<1>9. (store # "oss" => NoLostUpdate)'
  <2>1. \A k \in Keys : Stored(k)' = Stored(k)  BY DEF Stored
  <2> QED BY <2>1 DEF NoLostUpdate, Calm, Patient
<1> QED BY <1>1, <1>2, <1>3, <1>4, <1>5, <1>6, <1>7, <1>8, <1>9

\* A locked write stores in the section of its request, where no other locked read waits
\* for its write; its own update is then no longer under way, and is counted.
LEMMA WriteStoresInv == ASSUME IInv, NEW r \in Requests, WriteStores(r) PROVE IInv'
<1> USE StorageAssumption DEF IInv, TypeOK, WriteStores, WriteGoes, AfterWrite,
      HasLockPtr, LockPc, CallPc, ClientPc, lockVars, rwVars, key
<1>1. NewValue(r) \in Nat  BY DEF NewValue
<1>2. TypeOK'  BY <1>1
<1>3. (CallsInOrder /\ CallsOfClient)'  BY DEF CallsInOrder, CallsOfClient
<1>4. LockOfSection'
  BY DEF LockOfSection, InSection, HasId, Updating, Patient
<1>5. IdOfKey'  BY DEF IdOfKey
<1>6. MutualExclusion'  BY DEF MutualExclusion, InSection, Updating, Patient
<1>7. HeldById'
  <2>1. LockFrame(r)  BY DEF LockFrame
  <2>2. KeyStaysHeld(r)
    BY DEF KeyStaysHeld, BetweenIdAndLock, UsesLock, Updating, LeftBehind, CallsInOrder,
       CallsOfClient
  <2> QED BY <2>1, <2>2, HeldStep
<1>8. LockedReadIsFresh'
  <2> SUFFICES ASSUME NEW s \in Requests, Updating(s)', Calm(key(s))'
               PROVE  db'[key(s)] = seen'[s]
    BY DEF LockedReadIsFresh
  <2>1. s # r /\ Updating(s) /\ Calm(key(s))  BY DEF Updating, Calm, Patient
  <2>2. CASE key(s) = key(r)
    <3>1. InSection(r) /\ InSection(s) /\ Patient(key(r))
      BY <2>1, <2>2 DEF InSection, Calm
    <3> QED BY <2>1, <2>2, <3>1 DEF MutualExclusion
  <2>3. CASE key(s) # key(r)  BY <2>1, <2>3 DEF LockedReadIsFresh
  <2> QED BY <2>2, <2>3
<1>9. WrittenStaysFound'  BY <1>1 DEF WrittenStaysFound
<1>10. (store # "oss" => NoLostUpdate)'
  <2> SUFFICES ASSUME store # "oss", NEW k \in WrittenBefore, Calm(k)'
               PROVE  db'[k] = Cardinality(Stored(k)')
    BY DEF NoLostUpdate
  <2>1. Calm(k) /\ db[k] = Cardinality(Stored(k))  BY DEF NoLostUpdate, Calm, Patient
  <2>2. CASE key(r) = k
    <3>1. r \in Locked /\ r \notin broken  BY <2>1, <2>2 DEF Calm, Patient
    <3>2. rpc[r] = "done" /\ seen[r] # NotFound
      BY <2>2, <3>1 DEF CallsOfClient, WrittenStaysFound
    <3>3. db[k] = seen[r]  BY <2>1, <2>2, <3>1, <3>2 DEF Updating, LockedReadIsFresh
    <3>4. db'[k] = Cardinality(Stored(k)) + 1
      BY <2>1, <2>2, <3>2, <3>3 DEF NewValue
    <3>5. Stored(k)' = Stored(k) \cup {r} /\ r \notin Stored(k)
      BY <2>2 DEF Stored
    <3>6. IsFiniteSet(Stored(k))
      <4>1. Stored(k) \subseteq Requests  BY DEF Stored
      <4> QED BY <4>1, FS_Subset
    <3>7. Cardinality(Stored(k) \cup {r}) = Cardinality(Stored(k)) + 1
      BY <3>5, <3>6, FS_AddElement
    <3> QED BY <3>4, <3>5, <3>7
  <2>3. CASE key(r) # k
    <3>1. Stored(k)' = Stored(k) /\ db'[k] = db[k]  BY <2>3 DEF Stored
    <3> QED BY <2>1, <3>1
  <2> QED BY <2>2, <2>3
<1> QED
  BY <1>2, <1>3, <1>4, <1>5, <1>6, <1>7, <1>8, <1>9, <1>10

\* A write that the bucket refuses leaves the section like one that is stored.
LEMMA WriteLostInv == ASSUME IInv, NEW r \in Requests, WriteLost(r) PROVE IInv'
<1> USE StorageAssumption DEF IInv, TypeOK, WriteLost, WriteGoes, AfterWrite,
      HasLockPtr, LockPc, CallPc, ClientPc, lockVars, rwVars, key
<1>1. TypeOK'  OBVIOUS
<1>2. (CallsInOrder /\ CallsOfClient)'  BY DEF CallsInOrder, CallsOfClient
<1>3. LockOfSection'
  BY DEF LockOfSection, InSection, HasId, Updating, Patient
<1>4. IdOfKey'  BY DEF IdOfKey
<1>5. MutualExclusion'  BY DEF MutualExclusion, InSection, Updating, Patient
<1>6. HeldById'
  <2>1. LockFrame(r)  BY DEF LockFrame
  <2>2. KeyStaysHeld(r)
    BY DEF KeyStaysHeld, BetweenIdAndLock, UsesLock, Updating, LeftBehind, CallsInOrder,
       CallsOfClient
  <2> QED BY <2>1, <2>2, HeldStep
<1>7. LockedReadIsFresh'  BY DEF LockedReadIsFresh, Updating, Calm, Patient
<1>8. WrittenStaysFound'  BY DEF WrittenStaysFound
<1> QED BY <1>1, <1>2, <1>3, <1>4, <1>5, <1>6, <1>7, <1>8

\* The first half of offLock in a write.
LEMMA WriteClearsIdInv == ASSUME IInv, NEW r \in Requests, WriteClearsId(r) PROVE IInv'
<1> USE StorageAssumption DEF IInv, TypeOK, WriteClearsId, WriteGoes, OffLockClearsId,
      HasLockPtr, LockPc, CallPc, ClientPc, lockVars, rwVars, key
<1>1. TypeOK'  OBVIOUS
<1>2. (CallsInOrder /\ CallsOfClient)'  BY DEF CallsInOrder, CallsOfClient
<1>3. LockOfSection'
  BY DEF LockOfSection, InSection, HasId, Updating, Patient, CallsOfClient, IdOfKey
<1>4. IdOfKey'  BY DEF IdOfKey
<1>5. MutualExclusion'  BY DEF MutualExclusion, InSection, Updating, Patient
<1>6. HeldById'
  <2>1. LockFrame(r)  BY DEF LockFrame
  <2>2. KeyStaysHeld(r)
    BY DEF KeyStaysHeld, BetweenIdAndLock, UsesLock, Updating, LeftBehind, CallsInOrder,
       CallsOfClient, IdOfKey
  <2> QED BY <2>1, <2>2, HeldStep
<1>7. LockedReadIsFresh'  BY DEF LockedReadIsFresh, Updating, Calm, Patient
<1>8. WrittenStaysFound'  BY DEF WrittenStaysFound
<1>9. (store # "oss" => NoLostUpdate)'
  <2>1. \A k \in Keys : Stored(k)' = Stored(k)  BY DEF Stored
  <2> QED BY <2>1 DEF NoLostUpdate, Calm, Patient
<1> QED BY <1>1, <1>2, <1>3, <1>4, <1>5, <1>6, <1>7, <1>8, <1>9

\* The second half of offLock in a write.
LEMMA WriteUnlocksInv == ASSUME IInv, NEW r \in Requests, WriteUnlocks(r) PROVE IInv'
<1> USE StorageAssumption DEF IInv, TypeOK, WriteUnlocks, WriteGoes, OffLockUnlocks, Unlock,
      HasLockPtr, LockPc, CallPc, ClientPc, lockVars, rwVars, key
<1>1. TypeOK'  OBVIOUS
<1>2. (CallsInOrder /\ CallsOfClient)'  BY DEF CallsInOrder, CallsOfClient
<1>3. LockOfSection'
  BY DEF LockOfSection, InSection, HasId, Updating, Patient, CallsOfClient, IdOfKey,
     MutualExclusion
<1>4. IdOfKey'  BY DEF IdOfKey
<1>5. MutualExclusion'  BY DEF MutualExclusion, InSection, Updating, Patient
<1>6. HeldById'
  <2>1. LockFrame(r)  BY DEF LockFrame
  <2>2. KeyStaysHeld(r)
    BY DEF KeyStaysHeld, BetweenIdAndLock, UsesLock, Updating, LeftBehind, CallsInOrder,
       CallsOfClient
  <2> QED BY <2>1, <2>2, HeldStep
<1>7. LockedReadIsFresh'  BY DEF LockedReadIsFresh, Updating, Calm, Patient
<1>8. WrittenStaysFound'  BY DEF WrittenStaysFound
<1>9. (store # "oss" => NoLostUpdate)'
  <2>1. \A k \in Keys : Stored(k)' = Stored(k)  BY DEF Stored
  <2> QED BY <2>1 DEF NoLostUpdate, Calm, Patient
<1> QED BY <1>1, <1>2, <1>3, <1>4, <1>5, <1>6, <1>7, <1>8, <1>9

\* A read throws, and nothing is claimed for its key any more.
LEMMA ReadThrowsInv == ASSUME IInv, NEW r \in Requests, ReadThrows(r) PROVE IInv'
<1> USE StorageAssumption DEF IInv, TypeOK, ReadThrows, CallThrows,
      HasLockPtr, LockPc, CallPc, ClientPc, lockVars, key
<1>1. TypeOK'  OBVIOUS
<1>2. (CallsInOrder /\ CallsOfClient)'  BY DEF CallsInOrder, CallsOfClient
<1>3. LockOfSection'  BY DEF LockOfSection, InSection, HasId, Updating, Patient
<1>4. IdOfKey'  BY DEF IdOfKey
<1>5. MutualExclusion'  BY DEF MutualExclusion, InSection, Updating, Patient
<1>6. HeldById'
  <2>1. LockFrame(r)  BY DEF LockFrame
  <2>2. KeyStaysHeld(r)
    BY DEF KeyStaysHeld, BetweenIdAndLock, UsesLock, Updating, LeftBehind, CallsInOrder,
       CallsOfClient
  <2> QED BY <2>1, <2>2, HeldStep
<1>7. LockedReadIsFresh'  BY DEF LockedReadIsFresh, Updating, Calm, Patient
<1>8. WrittenStaysFound'  BY DEF WrittenStaysFound
<1>9. (store # "oss" => NoLostUpdate)'
  <2>1. \A k \in Keys : Stored(k)' = Stored(k)  BY DEF Stored
  <2> QED BY <2>1 DEF NoLostUpdate, Calm, Patient
<1> QED BY <1>1, <1>2, <1>3, <1>4, <1>5, <1>6, <1>7, <1>8, <1>9

\* A write throws: it may have changed the value of its key, and of no other.
LEMMA WriteThrowsInv == ASSUME IInv, NEW r \in Requests, WriteThrows(r) PROVE IInv'
<1> USE StorageAssumption DEF IInv, TypeOK, WriteThrows, CallThrows,
      HasLockPtr, LockPc, CallPc, ClientPc, lockVars, key
<1>1. NewValue(r) \in Nat  BY DEF NewValue
<1>2. TypeOK'  BY <1>1
<1>3. (CallsInOrder /\ CallsOfClient)'  BY DEF CallsInOrder, CallsOfClient
<1>4. LockOfSection'  BY DEF LockOfSection, InSection, HasId, Updating, Patient
<1>5. IdOfKey'  BY DEF IdOfKey
<1>6. MutualExclusion'  BY DEF MutualExclusion, InSection, Updating, Patient
<1>7. HeldById'
  <2>1. LockFrame(r)  BY DEF LockFrame
  <2>2. KeyStaysHeld(r)
    BY DEF KeyStaysHeld, BetweenIdAndLock, UsesLock, Updating, LeftBehind, CallsInOrder,
       CallsOfClient
  <2> QED BY <2>1, <2>2, HeldStep
<1>8. LockedReadIsFresh'  BY DEF LockedReadIsFresh, Updating, Calm, Patient
<1>9. WrittenStaysFound'  BY <1>1 DEF WrittenStaysFound
<1>10. (store # "oss" => NoLostUpdate)'
  <2>1. \A k \in Keys : Stored(k)' = Stored(k)  BY DEF Stored
  <2>2. \A k \in Keys : Calm(k)' => Calm(k) /\ db'[k] = db[k]  BY DEF Calm, Patient
  <2> QED BY <2>1, <2>2 DEF NoLostUpdate
<1> QED
  BY <1>2, <1>3, <1>4, <1>5, <1>6, <1>7, <1>8, <1>9, <1>10

\* The rwlock is unlocked by the thread that had left it locked.
LEMMA SameThreadInv == ASSUME IInv, NEW r \in Requests, SameThread(r) PROVE IInv'
<1>1. \A s \in Requests : /\ InSection(s)' = InSection(s)
                          /\ HasId(s)' = HasId(s)
                          /\ Updating(s)' = Updating(s)
  BY DEF InSection, HasId, Updating, SameThread
<1>2. \A k \in Keys : /\ Patient(k)' = Patient(k)
                      /\ Calm(k)' = Calm(k)
                      /\ Stored(k)' = Stored(k)
  BY DEF Patient, Calm, Stored, SameThread
<1>3. \A s \in Requests : key(s) \in Keys  BY StorageAssumption DEF key
<1>4. (TypeOK /\ CallsInOrder /\ CallsOfClient /\ IdOfKey /\ WrittenStaysFound)'
  BY DEF IInv, TypeOK, CallsInOrder, CallsOfClient, IdOfKey, WrittenStaysFound, SameThread,
     lockVars
<1>5. (LockOfSection /\ MutualExclusion /\ HeldById)'
  BY <1>1, <1>2, <1>3, StorageAssumption
     DEF IInv, LockOfSection, MutualExclusion, HeldById, UsesLock, BetweenIdAndLock,
         LeftBehind, SameThread, lockVars
<1>6. (LockedReadIsFresh /\ (store # "oss" => NoLostUpdate))'
  BY <1>1, <1>2, <1>3, StorageAssumption
     DEF IInv, LockedReadIsFresh, NoLostUpdate, SameThread
<1> QED BY <1>4, <1>5, <1>6 DEF IInv

\* Every step of the store, its callers and its threads keeps the invariant.
LEMMA NextIInv == IInv /\ [Next]_vars => IInv'
<1> SUFFICES ASSUME IInv, [Next]_vars PROVE IInv'  OBVIOUS
<1>1. CASE UNCHANGED vars \/ Ended  BY <1>1, StutterInv DEF Ended
<1>2. ASSUME NEW r \in Requests,
             StartRead(r) \/ Function(r) \/ Timeout(r) \/ Drop(r) \/ SameThread(r)
      PROVE  IInv'
  BY <1>2, StartReadInv, GetReadInv, StartWriteInv, GetWrittenInv, ReadTimeoutInv,
     WriteTimeoutInv, DropInv, SameThreadInv DEF Function, Timeout
<1>3. ASSUME NEW r \in Requests, AcceptRead(r) \/ Read(r) PROVE IInv'
  BY <1>3, AcceptReadInv, NoLockInv, FindLockInv, ReadOnLockInv, ReadTakesInv,
     ReadSetsIdInv, ReadHitInv, ReadMissInv, ReadThrowsInv,
     ReadClearsIdInv, ReadUnlocksInv DEF Read
<1>4. ASSUME NEW r \in Requests, AcceptWrite(r) \/ Write(r) PROVE IInv'
  BY <1>4, AcceptWriteInv, FindOrMakeLockInv, WriteOnLockInv, WriteTakesInv,
     WriteSetsIdInv, WriteStoresInv, WriteLostInv, WriteThrowsInv, WriteClearsIdInv,
     WriteUnlocksInv
     DEF Write
<1> QED BY <1>1, <1>2, <1>3, <1>4 DEF Next, Handlers

\* The invariant holds in every reachable state of the store.
THEOREM Invariance == Spec => []IInv
BY InitIInv, NextIInv, PTL DEF Spec

\* The variables keep their types, and no lock is used before it is in lockBase.
THEOREM TypeCorrect == Spec => []TypeOK
BY Invariance, PTL DEF IInv

\* onLock and offLock keep the requests for a key apart while no read is given up.
THEOREM MutualExclusionHolds == Spec => []MutualExclusion
BY Invariance, PTL DEF IInv

\* No request writes between a locked read and the write that goes with it.
THEOREM LockedReadIsFreshHolds == Spec => []LockedReadIsFresh
BY Invariance, PTL DEF IInv

\* Whatever is given up, throws, traps or answers late, a held lock is in use by a call or
\* carries the id of the request that was to give it back.
THEOREM LockHasUserHolds == Spec => []LockHasUser
<1>1. IInv => LockHasUser
  <2> SUFFICES ASSUME IInv, NEW k \in Keys, realLock[k]
               PROVE  \E r \in Requests :
                        /\ key(r) = k
                        /\ \/ InCall(r)
                           \/ request_id[k] = r /\ (Updating(r) \/ LeftBehind(r))
    BY DEF LockHasUser
  <2>1. PICK r \in Locked : \/ key(r) = k /\ BetweenIdAndLock(r)
                            \/ request_id[k] = r /\ UsesLock(r)
    BY DEF IInv, HeldById
  <2>2. r \in Requests /\ key(r) = k
    BY <2>1, StorageAssumption DEF IInv, IdOfKey
  <2> QED BY <2>1, <2>2 DEF InCall, BetweenIdAndLock, UsesLock
<1> QED BY <1>1, Invariance, PTL

\* With a store that does not fail, every update of a key written before counts.
THEOREM NoLostUpdateHolds == ASSUME "oss" \notin Stores PROVE Spec => []NoLostUpdate
<1>1. IInv => NoLostUpdate  BY DEF IInv, TypeOK
<1> QED BY <1>1, Invariance, PTL
=============================================================================
