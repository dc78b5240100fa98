CONSTANTS
    MaxCalls = 3
    MaxLimit = 3
SPECIFICATION FairSpec
INVARIANTS
    TypeOK
    Bounded
    OutcomeTrue
    OnlyFailureLeaves
PROPERTIES
    FailsFast
    Settles
CHECK_DEADLOCK FALSE
