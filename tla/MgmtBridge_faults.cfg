CONSTANTS
  Procs = {"gen1", "run1"}
  Ports = {2222, 2223}
  MaxFaults = 3
  Port <- MCPort
  Kind <- MCKind
SPECIFICATION Spec
INVARIANT HostForwardingKept
INVARIANT ForwardingForGuests
INVARIANT GuestNetworkIntact
INVARIANT NothingLeftBehind
CHECK_DEADLOCK FALSE
