CONSTANTS
    i1 = i1
    i2 = i2
    i3 = i3
    m1 = m1
    m2 = m2
    Images <- MCImages
    Modes <- MCModes
    None = None
    MaxInterrupts = 0
    DrainSeconds = 2
    ReloadSeconds = 1
SPECIFICATION FairSpec
INVARIANTS
    OnlyReconcileStopsRouted
    AtRest
    DrainProtects
PROPERTIES
    ServedAgain
