CONSTANTS
    Paths <- MCPaths
    Source <- MCSource
    Assets <- MCAssets
    Settings <- MCSettings
    compose = compose
    prometheus = prometheus
    Files = {compose, prometheus}
    Torn = torn
    Places <- MCPlaces
    Stuck <- MCStuck
    Trees <- MCTrees
    Outside <- MCOutside
    MaxDiffer = 1
    MaxEdits = 2
SPECIFICATION Spec
INVARIANT SuccessIsMirrored
INVARIANT CheckIsExact
INVARIANT FailuresCostNoAsset
PROPERTY ReferencedDataKept
PROPERTY MirrorStaysInside
CHECK_DEADLOCK FALSE
