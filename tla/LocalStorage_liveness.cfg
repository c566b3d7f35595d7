\* Three locked updates of a key written before, one of them from another container and
\* able to time out; in memory or in Redis, and a thread for every call.
CONSTANTS
  r1 = r1  r2 = r2  r3 = r3  r4 = r4  k1 = k1  k2 = k2
  Requests = {r1, r2, r3}
  Keys = {k1}
  KeyOf <- OneKey
  Locked = {r1, r2, r3}
  Remote = {r2}
  Threads = 3
  WrittenBefore = {k1}
  Stores = {"memory", "redis"}
  NotFound = NotFound
  NoId = NoId
SPECIFICATION FairSpec
CHECK_DEADLOCK FALSE
INVARIANTS
  NoLostUpdate
PROPERTIES
  RequestsEnd
  ImplementsLock
