SPECIFICATION Spec
CONSTANTS
    Fetch = {f1, f2, f3}
    Dest = {d1, d2}
    d1 = d1
    d2 = d2
    Elsewhere = {f3}
    Keepalive = {f1}
    NoFetch = NoFetch
    MaxCached = 1
    MaxAttempts = 1
    MaxLinks = 2
    DestOf <- MCDestOf
INVARIANTS TypeOK ExclusiveUse NoLeak Explained
CHECK_DEADLOCK FALSE
