CONSTANTS
    Unset = Unset
    None = None
    Bare = Bare
    Inherited = Inherited
    Remade = Remade
    InheritedNames <- Code2Project
    MalformedNames <- Malformed
    FirstConfigs <- Adopted
    LaterConfigs <- Adopted
    MaxEdits = 1
SPECIFICATION Spec
CHECK_DEADLOCK FALSE
INVARIANT UniqueAliases
