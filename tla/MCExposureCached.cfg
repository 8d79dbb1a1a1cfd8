SPECIFICATION ExposureSpec
CONSTANTS
    o1 = o1
    c1 = c1
    None = None
    Opens = {o1}
    Closes = {c1}
    OrderQty <- MCOrderQty
    Holdings <- MCOpening
CHECK_DEADLOCK FALSE
INVARIANTS CachedNeverReduces
