SPECIFICATION Spec
CONSTANTS
  Paths <- MCPaths
  Mounts <- MCMounts
  Links <- MCLinks
  Pruned <- MCPruned
  Matching <- MCMatching
  Roots <- MCRoots
  KnownOf <- MCKnownOf
  Decisions <- MCDecisions
  MaxDepth = 2
  MaxRequests = 3
  MaxTotalBytes = 4
  BatchSize = 2
  Concurrency = 2
  DiskPermits = 1
INVARIANT
  EachRequestAnswered
