SPECIFICATION Spec
CONSTANTS
    Thread = {t1, t2}
    Outbound = {o1, o2}
    Inbound = {}
    Attached = {o1}
    Others = {o2}
    MaxMessages = 1
    MaxCrashes = 1
    MaxErrors = 1
    MaxReports = 2
    MaxRequests = 1
    NoMessage = NoMessage
    p1 = p1
    u1 = u1
    u2 = u2
    PeerOf <- MCPeerOf
    OwnerOf <- MCOwnerOf
INVARIANTS TypeOK AttachmentsTravel
PROPERTIES BlobsOfListedKept ImplementsLifecycle
SYMMETRY Symmetry
CHECK_DEADLOCK FALSE
