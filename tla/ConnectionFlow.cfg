SPECIFICATION FlowSpec
CONSTANTS
    Hosts = {a, b}
    Keys = {k1, k2}
    Calls = {t1, t2}
    None = None
SYMMETRY FlowSymmetry
INVARIANTS
    FlowTypeOK
    OneKeyPerHost
    ConfirmedUnlessHasty
    NoOrphanSession
    LaunchesAgain
CONSTRAINT Patient
