SPECIFICATION Spec
CONSTANTS
    Fetch = {f1, f2}
    Dest = {d1, d2}
    d1 = d1
    d2 = d2
    Elsewhere = {}
    Keepalive = {}
    NoFetch = NoFetch
    MaxCached = 1
    MaxAttempts = 1
    MaxLinks = 2
    DestOf <- MCDestOf
PROPERTIES FetchEnds
CHECK_DEADLOCK FALSE
