SPECIFICATION Spec
CONSTANTS
    Node = {n1, n2}
    User = {u1, u2}
    Hops = {1, 2}
    RepickAfter = 3
    FreshFor = 1
    None = None
INVARIANTS TypeOK OnceMore
PROPERTIES SwitchedWithCause KeptWarm
CHECK_DEADLOCK FALSE
