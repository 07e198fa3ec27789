\* Transient-local, KEEP_LAST 3 and a durability history of 2: the setting "deep" of MCWHC;
\* three writers of an instance for the reader history cache
CONSTANTS
    Keys = {k1, k2}
    NoKey = none
    Kinds = {"data", "unreg"}
    HDepth = 3
    TLDepth = 2
    TL = TRUE
    StartupMode = FALSE
    MaxSeq = 5
    Instances = {i1, i2}
    Writers = {w1, w2, w3}
    NoWriter = none
    MaxStores = 3
SPECIFICATION HistSpec
INVARIANTS StructuresAgree KeptAsNeeded
INVARIANTS CountsAsAsserted
PROPERTIES PlainImplementsCache AllImplementReaderCache
CHECK_DEADLOCK FALSE
