SPECIFICATION MCSpec
CONSTANTS
    NumRegs = 6
    ImemWords = 40
    MaxEmittedLines = 56
    MaxExpansions = 10
    MaxUnroll = 4
INVARIANTS
    RunsAsWritten
    BlamesTheCulprit
    AllocSound
PROPERTY UsesAllocator
CHECK_DEADLOCK FALSE
