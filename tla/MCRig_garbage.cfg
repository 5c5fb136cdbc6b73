SPECIFICATION FairSpec
CONSTANTS
    opA = opA
    opB = opB
    stop = stop
    InstrSlots = 3
    Ops <- MCOps
    HALT = stop
    Programs <- MCPrograms
    InitialStore <- MCStore
    Retries = 1
    MaxCalls = 2
    MaxFaults = 2
    MayBreak = FALSE
INVARIANTS
    OkIsOurTrace
CHECK_DEADLOCK FALSE
