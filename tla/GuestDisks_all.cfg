CONSTANTS
  N = 2
  T = 2
  Modes <- MCModes
  MaxGens = 2
  MaxUps = 1
SPECIFICATION Spec
INVARIANT AskedImage
INVARIANT OwnOverlaySound
PROPERTY UpKeepsOverlays
CHECK_DEADLOCK FALSE
