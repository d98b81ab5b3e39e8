CONSTANTS
    i1 = i1
    i2 = i2
    Sites <- TwoSites
    Images <- MCImages
    None = None
    MaxChanges = 1
    MaxFaults = 1
SPECIFICATION Spec
INVARIANTS
    RemovalFailsClosed
