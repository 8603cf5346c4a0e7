SPECIFICATION Spec
CONSTANTS
  Agents = {a1, a2}
  Changes = {purpose, role}
  MaxActive = 2
  MaxTurns = 3
  MaxInventories = 1
  MaxCrashes = 0
  None = None
  Torn = Torn
INVARIANTS
  NeverRefused
