SPECIFICATION Spec
CONSTANTS
    Thread = {t1, t2}
    Outbound = {o1}
    Inbound = {i1, i2}
    Attached = {i1}
    Others = {i2}
    MaxMessages = 1
    MaxCrashes = 1
    MaxErrors = 1
    MaxReports = 1
    MaxRequests = 1
    NoMessage = NoMessage
    p1 = p1
    u1 = u1
    u2 = u2
    PeerOf <- MCPeerOf
    OwnerOf <- MCOwnerOf
INVARIANTS TypeOK NoInboundOrphans
PROPERTIES BlobsOfListedKept ImplementsLifecycle
SYMMETRY Symmetry
CHECK_DEADLOCK FALSE
