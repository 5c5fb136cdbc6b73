SPECIFICATION Spec
CONSTANTS
    ImemWords = 4
    MaxLines = 4
    MaxChars = 6
    MaxInt = 9
INVARIANTS
    WordsMeanTheirLines
    BranchesLand
    PassesAgree
    DecodersAgree
    RenderRoundTrip
    RawLinesSurvive
CHECK_DEADLOCK FALSE
