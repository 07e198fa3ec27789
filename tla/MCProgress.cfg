\* One proxy writer and one thread beside those of the gc and the delivery queue, which
\* carries only the bubble here
CONSTANTS
    N = 3
    Objects = {pwr}
    ProxyWriters = {pwr}
    NoObj = none
    Half = 4
    MaxDq = 0
SPECIFICATION AllSpec
INVARIANTS NoDangling EventsSafe
PROPERTIES CollectsInTheEnd HandedOnInTheEnd FindsInTheEnd WriterProceeds EventsInTheEnd
CHECK_DEADLOCK FALSE
