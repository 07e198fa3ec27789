\* Reorder: any gap and room for 5 samples, or heartbeat gaps and room for 2
CONSTANTS
    MaxSeq = 5
    MaxSamples = 5
    Few = 2
    Gaps <- AllGaps
    Mode = "normal"
    LateAckMode = FALSE
    Recv = {"r1", "r2"}
    DurableReader = "d"
    VolatileReader = "v"
    MaxEnqueued = 3
SPECIFICATION AllSpec
INVARIANTS ReorderExact NoSilentLoss
INVARIANTS FragmentsExact QueueExact NothingMissedOrTwice LookupsSafe ListsOwnTheirMemory
PROPERTIES PrefersLowest ImplementsBuffer
CHECK_DEADLOCK FALSE
