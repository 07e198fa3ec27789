\* Two samples, or one and any two messages lost, duplicated or refused
CONSTANTS
    Readers = {r1}
    Keys = {k1}
    NoKey = none
    HDepth = 0
    TLDepth = 0
    TL = FALSE
    BitmapMax = 1
    Accel = 0
    MaxSeq = 2
    MaxInFlight = 1
    MaxNet = 20
    MaxFaults = 2
    Piggyback = {}
    Leavers = {}
SPECIFICATION LiveSpec
PROPERTIES CatchesUp AllAcknowledged
CHECK_DEADLOCK FALSE
