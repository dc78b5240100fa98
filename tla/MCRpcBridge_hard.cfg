CONSTANTS
    MaxCalls = 0
    MaxPrints = 0
    MaxNoise = 1
    MaxHangUps = 0
SPECIFICATION FairSpec
PROPERTY HardTimeout
CHECK_DEADLOCK FALSE
