\* Five requests, at most two containers of two tasks each, three ports, and calls that
\* may raise.  The unit may fail to come up, and then nothing happens.
CONSTANTS
  r1 = r1  r2 = r2  r3 = r3  r4 = r4  r5 = r5
  Requests = {r1, r2, r3, r4, r5}
  PortList <- ThreePorts
  MaxWorker = 2
  ParrelWorker = 2
  Fails = TRUE
  NoPort = NoPort
SPECIFICATION Spec
CHECK_DEADLOCK FALSE
SYMMETRY Symmetry
INVARIANTS
  ExecutedOnce
  FlagHasScaler
  TasksCounted
  SentToInitialized
  OneStateStore
  OnlyErrorsOrphan
  IInv
PROPERTIES
  ImplementsSlots
