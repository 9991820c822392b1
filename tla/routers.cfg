SPECIFICATION Spec
CONSTANTS
    User = {u1}
    Thread = {t1, t2}
    Deferred = Deferred
    None = None
    MaxIdentity = 2
    Stored = {2}
    MaxRequests = 3
    MaxFaults = 1
SYMMETRY Threads
INVARIANTS TypeOK EveryUserReachable AnnouncesSpaced
PROPERTIES IdentityKept KeyBeforeEntry
CHECK_DEADLOCK FALSE
