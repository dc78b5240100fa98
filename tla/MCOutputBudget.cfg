\* fit_output and truncateOutput from the program to the model.
CONSTANTS
    Default = Default
    Envs <- MCEnvs
    Values <- MCValues
    Asked <- MCAsked
    Printed <- MCPrinted
SPECIFICATION Spec
INVARIANTS
    TypeOK
    WithinBudget
CHECK_DEADLOCK FALSE
