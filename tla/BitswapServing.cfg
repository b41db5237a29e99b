CONSTANTS
    Workers = {w1, w2}
    Cids = {"c1", "c2"}
    Conns <- MCConns
    Exempt = {"gw"}
    NoIP = "none"
    GlobalBurst = 2
    PeerBurst = 1
    Accounts = {"a", "b"}
    Uploader <- MCUploader
    Pinners <- MCPinners
    Limit = 1
    MaxJobs = 2
    MaxCloses = 2
    MaxRefills = 1
    MaxFaults = 1
SYMMETRY Symmetry
SPECIFICATION Spec
INVARIANTS
    NothingLeftBehind
    LimitsHold
    OverrunIsBounded
CHECK_DEADLOCK FALSE
