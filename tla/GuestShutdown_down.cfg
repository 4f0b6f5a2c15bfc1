SPECIFICATION Spec
CONSTANTS
  q1 = q1
  q2 = q2
  f1 = f1
  b1 = b1
  Guests = {q1, q2, f1, b1}
  Names = {q1, q2, f1, b1}
  Stacks = {"quickstart", "fleet"}
  Bare = "bare"
  Name <- MCName
  Home <- MCHome
  Mine = {"quickstart"}
  Quick = "quickstart"
  QuickNames <- MCQuickNames
  MaxVerbs = 1
INVARIANT PoweredOffIsTrue
PROPERTY StopsClean
PROPERTY OnlyTargets
PROPERTY VerbEnds
CHECK_DEADLOCK FALSE
