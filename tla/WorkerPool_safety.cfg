\* Three callers: one runs on the first worker, one waits for its second pass, one adds.
\* Four addresses: a pool of three and one worker being deleted.
CONSTANTS
  Requests = {r1, r2, r3}
  Workers = {w1, w2, w3, w4}
  Cleaner = Cleaner
  Nobody = Nobody
SPECIFICATION Spec
SYMMETRY Symmetry
INVARIANTS
  OneRequestPerWorker
  HeldWorkerInPool
  NoDanglingPointer
  SecondPassFindsOwnWorker
  BusyWorkerIsHeld
  StatusTracksPool
  PoolBounded
  IInv
PROPERTIES
  AbortOnlyByRace
  ImplementsLease
