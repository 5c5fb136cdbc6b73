SPECIFICATION Spec
CONSTANTS
    MaxGroup = 2
    MaxLen = 7
INVARIANTS
    RoundTrip
    SameWireBytes
    SameVerdict
    StreamDecodes
CHECK_DEADLOCK FALSE
