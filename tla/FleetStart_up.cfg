SPECIFICATION Spec
CONSTANTS
  Settings <- MCSettings
  Profiles <- MCProfiles
  MaxServices = 7
  MaxCrashes = 1
INVARIANT AddressesFit
INVARIANT SwitchHoldsAGpuAndItsNics
INVARIANT ArtifactsAgree
INVARIANT NodeIdIsMacByte
INVARIANT GuestsLostOnlyToFailures
PROPERTY FleetComesUp
CHECK_DEADLOCK FALSE
