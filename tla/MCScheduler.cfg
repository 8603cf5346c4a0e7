SPECIFICATION FairSpec
CONSTANTS
  Runs <- MCRuns
  Tasks <- MCTasks
  RunOf <- MCRunOf
  Deps <- MCDeps
  Position <- MCPosition
  Priority <- MCPriority
  Keys <- MCKeys
  CacheKey <- MCCacheKey
  NoKey = NoKey
  NoTask = NoTask
  Signalled <- MCSignalled
  MaximumConcurrency = 2
  MinimumConcurrency = 1
  PressureFailureThreshold = 1
  RecoverySuccessThreshold = 1
INVARIANTS
  PermitLedger
  SharersAgree
  NoLostWakeup
PROPERTIES
  ContractSpec
  GrantsWithinLimit
  RunsEnd
