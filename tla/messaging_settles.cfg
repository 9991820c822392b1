SPECIFICATION Spec
CONSTANTS
    Thread = {t1, t2}
    Outbound = {o1, o2}
    Inbound = {}
    Attached = {}
    Others = {}
    MaxMessages = 1
    MaxCrashes = 0
    MaxErrors = 1
    MaxReports = 1
    MaxRequests = 1
    NoMessage = NoMessage
    p1 = p1
    u1 = u1
    u2 = u2
    PeerOf <- MCPeerOf
    OwnerOf <- MCOwnerOf
PROPERTIES QueuedSettles
CHECK_DEADLOCK FALSE
