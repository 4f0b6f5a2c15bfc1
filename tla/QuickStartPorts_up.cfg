CONSTANTS
  VMs = 2
  Default <- MCDefault
  Scan = 2
  Foreign = {10, 20, 22, 23}
  MetricsFlags = {TRUE, FALSE}
  NetworkFlags = {TRUE, FALSE}
  MaxVerbs = 2
SPECIFICATION FairSpec
INVARIANT UpAgreesWithItself
INVARIANT RetryMovesOn
PROPERTY VerbEnds
