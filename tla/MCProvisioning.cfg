SPECIFICATION Spec
CONSTANTS
    home = home
    gone = gone
    Nets = {home, gone}
    Existing = {home}
    LongNamed = {}
    None = None
    MaxRetries = 1
    MaxIncidents = 3
CHECK_DEADLOCK FALSE
INVARIANTS
    WifiMatchesMode
PROPERTIES
    ComesUp
    StaysReachable
    ProvisionedJoins
