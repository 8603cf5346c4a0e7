SPECIFICATION Spec
CONSTANTS
  N = 5
  Modes = {"collector", "governed"}
  Vanishes = 1
INVARIANTS
  EachObjectOnce
  Isolated
  FewRetries
PROPERTY Ends
CHECK_DEADLOCK FALSE
