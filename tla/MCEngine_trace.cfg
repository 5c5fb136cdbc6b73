SPECIFICATION Spec
CONSTANTS
    InstrSlots = 4
    RingSlots = 4
    Programs <- TracePrograms
INVARIANTS
    WholeRecords
    DrainedWordsAreFresh
    TerminatorReserved
    DrainDecodes
PROPERTIES
    OverflowFreezesTrace
