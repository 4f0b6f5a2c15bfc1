CONSTANTS
  N = 2
  T = 2
  Modes = {"image"}
  MaxGens = 3
  MaxUps = 1
SPECIFICATION Spec
INVARIANT WholeImage
CHECK_DEADLOCK FALSE
