CONSTANTS
    Names <- MCNames
    Builtin <- MCBuiltin
    ReadOnly = {"read"}
    Bash = "bash"
    Metadata <- MCMetadata
    Bare = Bare
    None = None
    Settings <- MCSettings
    MaxChanges = 3
SPECIFICATION Spec
INVARIANTS
    TypeOK
    MutatingNeedsPermission
    OptInRespected
    RemovedStaysAway
    GapsExplained
PROPERTIES
    RoutingLosesNothing
CHECK_DEADLOCK FALSE
