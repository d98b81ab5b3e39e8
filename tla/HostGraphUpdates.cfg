CONSTANTS
    i1 = i1
    i2 = i2
    Sites <- ThreeSites
    Images <- MCImages
    None = None
    MaxChanges = 2
    MaxFaults = 1
SPECIFICATION Spec
SYMMETRY Interchangeable
INVARIANTS
    GraphInv
    OneSiteAtATime
    InOrder
    RegistryRouted
    UpDelivers
PROPERTIES
    RegistryKept
