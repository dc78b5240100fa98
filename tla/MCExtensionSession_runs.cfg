CONSTANTS
    Builtin = {"read", "edit"}
    Custom = {"query"}
    Routable = {"read", "query"}
    MaxRuns = 3
    MaxAttempts = 2
CHECK_DEADLOCK FALSE
SPECIFICATION Spec
INVARIANTS TypeOK OnePromptPerRun NoRecoveryOfMutation RestoredUnlessReloaded
