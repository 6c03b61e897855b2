SPECIFICATION FairSpec
CONSTANTS
  diplomaMessage = diplomaMessage
  linkMessage = linkMessage
  garbage = garbage
  Messages = {diplomaMessage, linkMessage, garbage}
  Malformed = {garbage}
  Partitions = {p1}
  Fields <- MCFields
  Attr <- MCAttr
  Configs <- MCConfigs
  Limits = {0, 1}
  DryRuns = {TRUE, FALSE}
  MaxLog = 3
  MaxFaults = 2
INVARIANTS TypeOK RunRespectsLimit CopiesTakeFaults RunKeepsOrder
PROPERTIES SkipsOnlyAtLimit LimitedRunEnds
