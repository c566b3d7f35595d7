\* One locked update with the state kept in OSS, whose calls may fail.
CONSTANTS
  r1 = r1  r2 = r2  r3 = r3  r4 = r4  k1 = k1  k2 = k2
  Requests = {r1}
  Keys = {k1}
  KeyOf <- OneKey
  Locked = {r1}
  Remote = {}
  Threads = 1
  WrittenBefore = {k1}
  Stores = {"oss"}
  NotFound = NotFound
  NoId = NoId
SPECIFICATION Spec
INVARIANTS
  SuccessIsStored
