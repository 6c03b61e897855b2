SPECIFICATION FairSpec
CONSTANTS
  d1 = d1
  d2 = d2
  Diplomas = {d1, d2}
  Payloads <- MCPayloads
  Normal <- MCNormal
  Requests = {q1}
  Reissuing = FALSE
  MaxEvents = 3
  NoRow = NoRow
  NoEntry = NoEntry
  NotFound = NotFound
INVARIANTS StaleIsExplained
PROPERTIES CacheConverges
