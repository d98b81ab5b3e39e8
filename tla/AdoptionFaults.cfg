CONSTANTS
    PriorRoutes <- AnyPriorRoute
    MaxFaults = 3
SPECIFICATION FairSpec
CHECK_DEADLOCK FALSE
INVARIANTS
    OnePortOwner
    AdoptionInv
    IntentFirst
    RestoreRestores
    NeverStuck
PROPERTIES
    AlwaysSettles
