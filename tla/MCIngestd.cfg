CONSTANTS
    p1 = p1
    p2 = p2
    t1 = t1
    t2 = t2
    t3 = t3
    d1 = d1
    Unset = Unset
    Bad = Bad
    NoError = NoError
    Canonical = {"BTC-USD", "ETH-USD", "SOL-USD"}
    Schema = {t1, t2, t3, d1}
    Topic = {"md.trades.v1", "md.book.v1"}
    CanRead <- MCCanRead
    DefaultLevel = "BACKWARD"
    Proc = {p1}
    Build <- MCBuild
    Kind = {"trade", "book_delta"}
    Env <- MCEnv
    MaxStarts = 2
    MaxFaults = 1
SPECIFICATION FairSpec
INVARIANTS ITypeOK CleanExit
PROPERTY SignalEnds
CHECK_DEADLOCK FALSE
