SPECIFICATION Spec
CONSTANTS
  MaxAiCalls = 2
  Fast = FALSE
  Commands = {"inspect", "scan"}
  Discoverable = TRUE
  MaxSessions = 4
  MaxCrashes = 1
  None = None
  Torn = Torn
INVARIANTS
  SpendingBounded
  RefusedOnlyEarly
  ProbesNotSkipped
  ReportsCoherent
  FinishedIsComplete
  ReportsCurrentDecision
PROPERTIES
  ComposedOnce
