SPECIFICATION Spec
CONSTANTS
  issued = issued
  revoked = revoked
  renumbered = renumbered
  shared = shared
  unknown = unknown
  garbage = garbage
  diplomas = diplomas
  links = links
  diploma = diploma
  link = link
  Home <- MCHome
  Key <- MCKey
  Kind <- MCKind
  NoOne = NoOne
  NoRecord = NoRecord
  Keys = {diploma, link}
  Consumers = {c1, c2}
  Partitions = {diplomas}
  Events = {issued}
  RetryAttempts = 0
  WithDLQ = {c1, c2}
  MaxLog = 1
  MaxFaults = 1
PROPERTIES NoDuplicateHandling
