CONSTANTS
    PriorRoutes <- NoPriorRoute
    MaxFaults = 1
SPECIFICATION Spec
CHECK_DEADLOCK FALSE
INVARIANTS
    RetryAllowed
