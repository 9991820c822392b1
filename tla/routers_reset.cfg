SPECIFICATION Spec
CONSTANTS
    User = {u1}
    Thread = {t1, t2}
    Deferred = Deferred
    None = None
    MaxIdentity = 3
    Stored = {2}
    MaxRequests = 3
    MaxFaults = 1
SYMMETRY Threads
INVARIANT ResetTakesEffect
CHECK_DEADLOCK FALSE
