CONSTANTS
    i1 = i1
    i2 = i2
    i3 = i3
    m1 = m1
    m2 = m2
    Images <- MCImages
    Modes <- MCModes
    None = None
    MaxInterrupts = 2
    DrainSeconds = 1
    ReloadSeconds = 1
SPECIFICATION Spec
SYMMETRY Interchangeable
INVARIANTS
    ReleaseInv
    RecordIsUsable
    SwitchDataSafe
PROPERTIES
    DataStaysPut
    CompletionHeals
    RecordTransitions
