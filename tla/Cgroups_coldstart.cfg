\* The start of a container with two helpers.
CONSTANTS
  r1 = r1  r2 = r2
  w1 = w1  w2 = w2  w3 = w3
  h1 = h1  h2 = h2  proxy = proxy
  Requests = {r1}
  Workers = {w1}
  First <- Listed
  Proxy = proxy
  Nobody = Nobody
SPECIFICATION FairSpec
CHECK_DEADLOCK FALSE
PROPERTIES
  ColdStartEnds
