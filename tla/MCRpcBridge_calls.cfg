CONSTANTS
    MaxCalls = 2
    MaxPrints = 0
    MaxNoise = 1
    MaxHangUps = 0
SPECIFICATION Spec
INVARIANTS
    TypeOK
    ServedOnce
    NoLostAnswer
    OwnAnswer
    ReportCoversAnswers
CHECK_DEADLOCK FALSE
