CONSTANTS
    Unset = Unset
    None = None
    Bare = Bare
    Inherited = Inherited
    Remade = Remade
    InheritedNames <- Code2Project
    MalformedNames <- Malformed
    FirstConfigs <- AllConfigs
    LaterConfigs <- Moves
    MaxEdits = 1
SPECIFICATION Spec
CHECK_DEADLOCK FALSE
INVARIANTS
    HostInv
    SkipSound
    SitesFound
    OneHome
    PrivateDatabases
    
    InputsDefined
    NothingShared
    AppEnvOwnsNothing
PROPERTIES
    AdoptionLeavesSites
