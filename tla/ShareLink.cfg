SPECIFICATION FairSpec
CONSTANTS
  Requests = {q1, q2}
  Limits = {1, 2, NoLimit}
  Payloads <- MCPayloads
  NoRow = NoRow
  NoLimit = NoLimit
  NoOne = NoOne
  MaxTime = 1
  MaxRequests = 4
  MaxUpserts = 2
  MaxFaults = 1
INVARIANTS TypeOK EveryViewIsCounted ViewsWithinLimit CountedIsShown
PROPERTIES RevocationSticks EveryRequestEnds
