SPECIFICATION FairSpec
CONSTANTS
    opA = opA
    opB = opB
    stop = stop
    InstrSlots = 3
    Ops <- MCOps
    HALT = stop
    Programs <- MCPrograms
    InitialStore <- MCStore
    Retries = 1
    MaxCalls = 2
    MaxFaults = 3
    MayBreak = TRUE
INVARIANTS
    SoundIfControlIntact
PROPERTIES
    RunsWhatWasLoaded
    RunReturns
CHECK_DEADLOCK FALSE
