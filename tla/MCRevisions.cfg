SPECIFICATION Spec
CONSTANTS
  Agents = {a1, a2}
  Changes = {purpose, role}
  MaxActive = 2
  MaxTurns = 3
  MaxInventories = 2
  MaxCrashes = 1
  None = None
  Torn = Torn
INVARIANTS
  ParentsPresent
  TurnsComplete
  RefusedOnlyDamaged
SYMMETRY Symmetry
