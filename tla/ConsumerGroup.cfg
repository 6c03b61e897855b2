SPECIFICATION Spec
CONSTANTS
  issued = issued
  revoked = revoked
  renumbered = renumbered
  shared = shared
  unknown = unknown
  garbage = garbage
  diplomas = diplomas
  links = links
  diploma = diploma
  link = link
  Home <- MCHome
  Key <- MCKey
  Kind <- MCKind
  NoOne = NoOne
  NoRecord = NoRecord
  Keys = {diploma, link}
  Consumers = {c1, c2}
  WithDLQ = {c1}
  Partitions = {diplomas}
  Events = {issued, renumbered, unknown}
  RetryAttempts = 1
  MaxLog = 2
  MaxFaults = 3
INVARIANTS ProcessedIsComplete
PROPERTIES CommitNeverRewinds ImplementsContract
