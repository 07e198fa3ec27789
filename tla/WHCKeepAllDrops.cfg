\* Transient-local with a KEEP_ALL durability history, KEEP_ALL
CONSTANTS
    Keys = {k1, k2}
    NoKey = none
    Kinds = {"data"}
    HDepth = 0
    TLDepth = 0
    TL = TRUE
    StartupMode = FALSE
    MaxSeq = 3
SPECIFICATION Spec
INVARIANT KeepAllKeepsAll
CHECK_DEADLOCK FALSE
