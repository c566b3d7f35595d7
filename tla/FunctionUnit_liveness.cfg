\* Four requests, at most two containers of one task each, ports enough to destroy the
\* unit and grow again, and no call raises.
CONSTANTS
  r1 = r1  r2 = r2  r3 = r3  r4 = r4  r5 = r5
  Requests = {r1, r2, r3, r4}
  PortList <- FivePorts
  MaxWorker = 2
  ParrelWorker = 1
  Fails = FALSE
  NoPort = NoPort
SPECIFICATION FairSpec
PROPERTIES
  Served
