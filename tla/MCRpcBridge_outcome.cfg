CONSTANTS
    MaxCalls = 1
    MaxPrints = 1
    MaxNoise = 1
    MaxHangUps = 1
SPECIFICATION FairSpec
PROPERTIES
    ImplementsExecution
    Settles
    StopKills
INVARIANT OverWhenSettled
CHECK_DEADLOCK FALSE
