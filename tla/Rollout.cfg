SPECIFICATION FairSpec
CONSTANTS
  old = old
  new = new
  Replicas = {old, new}
  N = 2
  Files <- MCFiles
  Events = 2
  Needs <- MCNeeds
  Retries <- MCRetries
  MaxDuration = 7
  MaxTime = 4
  MaxFaults = 1
CHECK_DEADLOCK FALSE
INVARIANTS ParkedAfterPatience WaitAsConfigured
PROPERTIES ImplementsContract EveryReplicaServes
