SPECIFICATION Spec
CONSTANTS
  MaxAiCalls = 2
  Fast = FALSE
  Commands = {"inspect"}
  Discoverable = FALSE
  MaxSessions = 2
  MaxCrashes = 1
  None = None
  Torn = Torn
INVARIANT Recoverable
