\* Volatile, KEEP_LAST 1 and two instances
CONSTANTS
    Readers = {r1}
    Keys = {k1, k2}
    NoKey = none
    HDepth = 1
    TLDepth = 0
    TL = FALSE
    BitmapMax = 2
    Accel = 0
    MaxSeq = 3
    MaxInFlight = 1
    MaxNet = 2
    MaxFaults = 1
    Piggyback = {}
    Leavers = {}
SPECIFICATION AllSpec
SYMMETRY KeySymmetry
INVARIANTS TypeOK AckSound AllNoLoss NoFalseGap TreesSound
CHECK_DEADLOCK FALSE
