\* Transient-local, KEEP_ALL: two readers, one of which leaves
CONSTANTS
    Readers = {r1, r2}
    Keys = {k1}
    NoKey = none
    HDepth = 0
    TLDepth = 1
    TL = TRUE
    BitmapMax = 2
    Accel = 0
    MaxSeq = 2
    MaxInFlight = 1
    MaxNet = 1
    MaxFaults = 0
    Piggyback = {}
    Leavers = {r2}
SPECIFICATION AllSpec
INVARIANTS NoLoss UnackedRetained DropNeverRetreats DurableHistoryDelivered
CHECK_DEADLOCK FALSE
