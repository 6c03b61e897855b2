SPECIFICATION Spec
CONSTANTS
  d1 = d1
  d2 = d2
  Diplomas = {d1}
  Payloads <- MCPayloads
  Normal <- MCNormal
  Requests = {q1}
  Reissuing = TRUE
  MaxEvents = 2
  NoRow = NoRow
  NoEntry = NoEntry
  NotFound = NotFound
INVARIANTS StaleIsExplained
