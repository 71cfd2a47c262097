CONSTANTS
    p1 = p1
    p2 = p2
    t1 = t1
    t2 = t2
    t3 = t3
    d1 = d1
    Unset = Unset
    Bad = Bad
    NoError = NoError
    Canonical = {"BTC-USD", "ETH-USD", "SOL-USD"}
    Schema = {t1, t2, t3, d1}
    Topic = {"md.trades.v1"}
    CanRead <- MCCanRead
    DefaultLevel = "BACKWARD"
    Proc = {p1, p2}
    Build <- MCBuild
    Kind = {"trade"}
    Env <- OneEnv
    MaxStarts = 3
    MaxFaults = 1
SPECIFICATION Spec
INVARIANTS Resolvable NeighboursRead
PROPERTIES RollbackAccepted
CHECK_DEADLOCK FALSE
