SPECIFICATION FairBehaviour
CONSTANTS
    MaxGroup = 2
    WordBytes = 2
    LOAD = 1
    TRIGGER = 2
    DRAIN = 3
    CrcUpdate <- Crc2
    InstrSlots = 2
    RingSlots = 4
    InitialStore <- Store
    Runs <- MCRuns
    Frames <- MCFrames
    MaxSeen = 12
INVARIANTS
    TypeOK
PROPERTIES
    TriggerIffGood
    StoreFollowsFrame
    DrainIsTheTrace
    DrainEnds
