SPECIFICATION FairSpec
CONSTANTS
    Modulus = 25
    Increment = 8
    SenderRates <- OwnRate
    DataBits = 8
    Bytes <- Uneven
    Disturbed = TRUE
    MaxOwed = 2
INVARIANTS
    TypeOK
PROPERTIES
    BytesArriveIntact
    BreakReportedOnce
    RateExact
