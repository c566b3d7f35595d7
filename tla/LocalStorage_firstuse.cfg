\* Two locked updates, both from other containers, of a key that nobody has written
\* before.  Callers that give up can leave the lock held, so the system can stop.
CONSTANTS
  r1 = r1  r2 = r2  r3 = r3  r4 = r4  k1 = k1  k2 = k2
  Requests = {r1, r2}
  Keys = {k1}
  KeyOf <- OneKey
  Locked = {r1, r2}
  Remote = {r1, r2}
  Threads = 2
  WrittenBefore = {}
  Stores = {"memory"}
  NotFound = NotFound
  NoId = NoId
SPECIFICATION Spec
CHECK_DEADLOCK FALSE
INVARIANTS
  UniformUpdates
