\* Two callers and three workers: one worker runs, one waits for its limits, one was killed.
CONSTANTS
  r1 = r1  r2 = r2
  w1 = w1  w2 = w2  w3 = w3
  h1 = h1  h2 = h2  proxy = proxy
  Requests = {r1, r2}
  Workers = {w1, w2, w3}
  First <- Listed
  Proxy = proxy
  Nobody = Nobody
SPECIFICATION Spec
CHECK_DEADLOCK FALSE
INVARIANTS
  LimitedWhenRun
  OnlyHelpersBreakCalls
  IInv
PROPERTIES
  LimitsStay
