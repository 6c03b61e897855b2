SPECIFICATION FairSpec
CONSTANTS
  issued = issued
  revoked = revoked
  renumbered = renumbered
  shared = shared
  unknown = unknown
  garbage = garbage
  diplomas = diplomas
  links = links
  diploma = diploma
  link = link
  Home <- MCHome
  Key <- MCKey
  Kind <- MCKind
  NoOne = NoOne
  NoRecord = NoRecord
  Keys = {diploma, link}
  Consumers = {c1}
  WithDLQ = {c1}
  Partitions = {diplomas, links}
  Events = {issued, revoked, shared, garbage}
  RetryAttempts = 1
  MaxLog = 2
  MaxFaults = 2
INVARIANTS TypeOK NoRecordLost UninvalidatedIsUnprocessed ParkedAfterAllRetries
PROPERTIES RegressOnlyFromDLQ EverythingIsCommitted
