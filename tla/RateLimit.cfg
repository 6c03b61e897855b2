SPECIFICATION Spec
CONSTANTS
  alice = alice
  edge = edge
  ingress = ingress
  t1 = t1
  t2 = t2
  Junk = Junk
  Nobody = Nobody
  Requests = {r1, r2, r3, r4}
  Addresses = {alice, edge, ingress}
  Trusted = {edge, ingress}
  Arrivals <- MCArrivals
  Paths <- MCPaths
  Templated = {"verify"}
  Configs <- MCConfigs
  Second = 2
  MaxTime = 4
  MaxFaults = 1
SYMMETRY MCSymmetry
CHECK_DEADLOCK FALSE
INVARIANTS TypeOK RefusalIsEarned PassesWithinLimit WaitingHelps
