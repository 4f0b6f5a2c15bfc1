CONSTANTS
    None = None
    Guests <- MCGuests
    Stubs = {"daemon"}
    Stale = 0
    Timeouts = 2
    Digits <- MCDigits
    MaxNodes = 2
    MaxUids = 3
    MaxSids = 2
    MaxToks = 2
SPECIFICATION AgentSpec
INVARIANT NoneMeansNobody
CHECK_DEADLOCK FALSE
