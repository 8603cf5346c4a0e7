SPECIFICATION Spec
CONSTANTS
  N = 5
  Modes = {"governed"}
  Vanishes = 0
INVARIANT RetriesBounded
CHECK_DEADLOCK FALSE
