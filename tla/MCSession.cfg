SPECIFICATION Spec
CONSTANTS
  Processes <- MCProcesses
  Hosts = {"h1", "h2"}
  HostOf <- MCHostOf
  Keys = {k1, k2}
  Signalled = {"scan"}
  Policies <- MCPolicies
  MaxRekeys = 1
  None = None
  Commands = {"c1"}
  MaxOutputBytes = 1
  Exits = {"success", "failed"}
  Chunks = {1, 2}
  MaxReceived = 2
  ProcessOf <- MCProcessOf
INVARIANTS
  ConnectedVerified
  ResultHonest
  NothingLeftOpen
PROPERTIES
  PinsLostOnlyByRace
  AlwaysAnswered
CHECK_DEADLOCK FALSE
