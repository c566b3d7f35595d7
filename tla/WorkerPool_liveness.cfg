\* Two callers, and three addresses: a pool of two and one worker being deleted.
CONSTANTS
  Requests = {r1, r2}
  Workers = {w1, w2, w3}
  Cleaner = Cleaner
  Nobody = Nobody
SPECIFICATION FairSpec
PROPERTIES
  CallReturns
  PoolDrains
