SPECIFICATION FairSpec
CONSTANTS
  j1 = j1
  j2 = j2
  d1 = d1
  d2 = d2
  None = None
  Jobs <- MCJobs
  Handled <- MCHandled
  Drains <- MCDrains
  MaxAttempts = 3
  BatchLimit = 2
  LeaseTicks = 2
  RetryBase = 1
  RetryCap = 2
INVARIANTS LeaseExclusion RunsWithinAttempts
PROPERTIES ContractSpec EveryJobSettles
