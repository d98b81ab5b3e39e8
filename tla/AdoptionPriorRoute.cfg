CONSTANTS
    PriorRoutes <- AnyPriorRoute
    MaxFaults = 1
SPECIFICATION Spec
CHECK_DEADLOCK FALSE
INVARIANTS
    RollbackSupported
