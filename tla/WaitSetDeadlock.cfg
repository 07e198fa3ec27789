\* One thread attaches or detaches while another reads
CONSTANTS
    Callers = {t1, t2}
    Readers = {rd1, rd2}
    NoReader = norr
    MaxDeletes = 1
SPECIFICATION Spec
INVARIANT NeverWaitForEachOther
CHECK_DEADLOCK FALSE
