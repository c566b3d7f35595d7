\* Three runs, so that one can be answered with the output of one that is not the run
\* before it.  Room for one write: each side waits for the other as often as it can.
CONSTANTS
  r1 = r1
  r2 = r2
  r3 = r3
  Requests = {r1, r2, r3}
  Nobody = Nobody
  Room = 1
SPECIFICATION FairSpec
INVARIANTS
  Framing
  HalfDuplex
  CleanBetweenRuns
  OwnStateCalls
  OwnAnswer
  IInv
PROPERTIES
  CallSpec
  RunReturns
