SPECIFICATION MCSpec
CONSTANTS
    Client = {b1, b2}
    Local = {ann}
    Oidc = {bob}
    Super = root
    Listed = {bob}
    None = None
    Live = Live
    LoginMax = 1
    MaxLogins = 3
    MaxChanges = 2
    MaxFaults = 1
SYMMETRY Browsers
INVARIANTS TypeOK FileFollows LockoutHolds
PROPERTIES OutStaysOut RightsWereTrue
CHECK_DEADLOCK FALSE
