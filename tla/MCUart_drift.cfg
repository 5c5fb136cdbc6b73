SPECIFICATION FairSpec
CONSTANTS
    Modulus = 200
    Increment = 64
    SenderRates <- DriftingRates
    DataBits = 8
    Bytes <- LongRuns
    Disturbed = FALSE
    MaxOwed = 2
INVARIANTS
    OneInFlight
PROPERTIES
    BytesArriveIntact
    AllArrive
