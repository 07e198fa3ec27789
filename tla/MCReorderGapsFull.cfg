\* Any gap, and a buffer that overflows
CONSTANTS
    MaxSeq = 5
    MaxSamples = 2
    Gaps <- AllGaps
    Mode = "normal"
    LateAckMode = FALSE
SPECIFICATION Spec
INVARIANTS NoSilentLoss
CHECK_DEADLOCK FALSE
