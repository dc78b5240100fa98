CONSTANTS
    Names <- MCNames
    Builtin <- MCBuiltin
    ReadOnly = {"read"}
    Bash = "bash"
    Metadata <- MCMetadata
    Bare = Bare
    None = None
    Settings <- MCSettings
    MaxChanges = 2
SPECIFICATION Spec
INVARIANT AsInChatWhenRouted
CHECK_DEADLOCK FALSE
