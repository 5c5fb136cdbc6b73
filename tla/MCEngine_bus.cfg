SPECIFICATION FairOnce
CONSTANTS
    InstrSlots = 4
    RingSlots = 4
    Programs <- BusPrograms
INVARIANTS
    TypeOK
    EdgesCarryTheData
PROPERTIES
    BusSetupAndHold
    ExactClocks
    InstructionsComplete
    ImplementsIsa
