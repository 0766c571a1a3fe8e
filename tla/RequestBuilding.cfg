SPECIFICATION Spec
CONSTANTS
    Methods = {"GET", "POST"}
    Names <- MCNames
    Values <- MCValues
    HostValues <- MCHostValues
    MaxHeaders = 2
INVARIANTS
    TypeOK
    ServerReadsWhatWasGiven
    LengthIsTheBodys
    ReadBackIsWhatWasGiven
