SPECIFICATION Spec
CONSTANTS
    Peer = {p1}
    Node = {n1}
    User = {u1, u2}
    NoList = NoList
    Reading = Reading
    Request = {r1, r2}
    Loop = Loop
    Exit = Exit
    Garbled = Garbled
    MaxVersion = 2
    MaxChanges = 3
    MaxRestarts = 1
INVARIANTS TypeOK CleanIsSaved FavoritesSaved
PROPERTIES DiskGoesForward EventuallySaved
CHECK_DEADLOCK FALSE
