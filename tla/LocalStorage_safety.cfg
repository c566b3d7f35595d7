\* Three locked updates of a key that nobody has written before, one of them from another
\* container and able to time out, and one unlocked update of another key, in a bucket
\* that may fail or in Redis; any three of the four start.  A timeout or an exception can
\* leave a lock held, so the system can stop.
CONSTANTS
  r1 = r1  r2 = r2  r3 = r3  r4 = r4  k1 = k1  k2 = k2
  Requests = {r1, r2, r3, r4}
  Keys = {k1, k2}
  KeyOf <- TwoKeys
  Locked = {r1, r2, r3}
  Remote = {r3}
  Threads = 4
  WrittenBefore = {}
  Stores = {"oss", "redis"}
  NotFound = NotFound
  NoId = NoId
SPECIFICATION Spec
CHECK_DEADLOCK FALSE
SYMMETRY Locals
CONSTRAINT ThreeStart
INVARIANTS
  MutualExclusion
  LockedReadIsFresh
  LockHasUser
  IInv
