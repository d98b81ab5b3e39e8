CONSTANTS
    s1 = s1
    s2 = s2
    s3 = s3
    Settings <- MCSettings
    MaxChanges = 2
    MaxFaults = 5
    MaxInFlight = 3
SPECIFICATION FairSpec
CHECK_DEADLOCK FALSE
INVARIANTS
    EndpointInv
    InEffect
PROPERTIES
    Converges
