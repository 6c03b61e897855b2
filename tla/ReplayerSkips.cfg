SPECIFICATION Spec
CONSTANTS
  diplomaMessage = diplomaMessage
  linkMessage = linkMessage
  garbage = garbage
  Messages = {diplomaMessage, garbage}
  Malformed = {garbage}
  Partitions = {p1}
  Fields <- MCFields
  Attr <- MCAttr
  Configs <- MCConfigs
  Limits = {0, 1}
  DryRuns = {TRUE, FALSE}
  MaxLog = 2
  MaxFaults = 0
PROPERTIES CommitsOnlyHandled
