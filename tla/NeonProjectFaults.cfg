CONSTANTS
    p1 = p1
    p2 = p2
    p3 = p3
    j1 = j1
    j2 = j2
    j3 = j3
    Procs <- ThreeProcs
    Projects <- MCProjects
    None = None
    MaxFaults = 3
SPECIFICATION Spec
CHECK_DEADLOCK FALSE
SYMMETRY Interchangeable
INVARIANTS
    ProjectInv
    Exclusive
    Agreement
    ConflictHarmless
PROPERTIES
    StaysBound
