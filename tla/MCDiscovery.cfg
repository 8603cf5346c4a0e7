SPECIFICATION Spec
CONSTANTS
  None = None
  Relative = Relative
  Unreadable = Unreadable
  ConfigNames = {"c.conf"}
  EnvNames = {".env"}
  LogNames = {"log"}
  DataNames = {"data", "db"}
  KernelCommands = {"[kworker]"}
  StorageNames = {"data"}
  ProbeKinds = {"path_search"}
  MaxEvidence = 2
  MaxRetries = 2
  MaxInquiries = 1
  MaxAiCalls = 4
  MaxProbeRequests = 1
  Hosts <- MCHosts
INVARIANTS
  EachObjectPlaced
  ProtectedKept
  EvidenceOwned
  ServicesSeparate
  ComponentsConnected
  SpendingKept
PROPERTIES
  TurnsEnd
CHECK_DEADLOCK FALSE
