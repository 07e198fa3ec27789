\* Two threads and two readers, one of which is deleted
CONSTANTS
    Callers = {"t1", "t2"}
    Readers = {"rd1", "rd2"}
    NoReader = "norr"
    MaxDeletes = 1
    pwr = pwr
    rdr = rdr
    none = none
SPECIFICATION AllSpec
INVARIANTS GcSafe InstancesUnique EntitiesSafe AttachedIsObserved WriterSafe
INVARIANTS ProxiesSafe MatchesAgree BuffersSafe
CHECK_DEADLOCK FALSE
